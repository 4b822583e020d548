------------------------------- MODULE Skills -------------------------------
(***************************************************************************)
(* internal/skills and the start of cmd/pitu/main.go: how the skills that  *)
(* agents see come about.  A start unpacks the built-in skills of its      *)
(* binary into skills-builtin (builtin.go), discovers the skills of the    *)
(* operator's directory, of skills-builtin and of the extra paths          *)
(* (discovery.go), and rebuilds the directory that is mounted into the     *)
(* containers from what it found (merge.go).  Each message then writes the *)
(* list found at the start into AGENTS.md (catalog.go, context.go).        *)
(*                                                                         *)
(* The operator edits his directories at any time, installs another binary *)
(* between two runs, and any start may be cut short.                       *)
(***************************************************************************)
EXTENDS Integers, Sequences

\* A tree is a function from the entries of a directory to the skills they hold:
\* the name in the frontmatter, whether Discover can list it (frontmatter and
\* description are there), and its files, a function from names to contents.
CONSTANTS
  Dirs,        \* sequence: runtimePaths, by falling precedence
  Builtin,     \* the one that is skills-builtin
  Entries,     \* sequence: the possible entries, sorted as ReadDir does
  Releases,    \* sequence: the embedded assets of each binary, a tree
  Trees        \* the trees the operator may have in a directory of his

DirNames == {Dirs[i] : i \in DOMAIN Dirs}
EntryNames == {Entries[i] : i \in DOMAIN Entries}
AllTrees == Trees \cup {Releases[i] : i \in DOMAIN Releases}
Names == UNION {{t[e].name : e \in DOMAIN t} : t \in AllTrees}

ASSUME SkillsAssumption ==
  /\ Dirs \in Seq(DirNames) /\ Builtin \in DirNames
  /\ Entries \in Seq(EntryNames)
  /\ Releases \in Seq(AllTrees) /\ Releases # <<>>
  /\ \A t \in AllTrees :
       DOMAIN t \subseteq EntryNames /\ \A e \in DOMAIN t : t[e].listed \in BOOLEAN

VARIABLES
  release,     \* the installed binary
  disk,        \* the tree of each directory
  phase,       \* the harness: "down", "unpack", "discover", "clear", "merge"
               \* or "up"
  dir,         \* Discover: the place in Dirs of the directory being read
  next,        \* the place of the entry to unpack or to read, or in found of
               \* the skill to copy
  found,       \* discovered: the skills of this start, highest precedence first
  mount,       \* data/skills: the files under each skill's name
  catalog,     \* the names AGENTS.md lists
  told,        \* a message of this run has written AGENTS.md
  fresh        \* no edit since this start began to read the directories

vars == <<release, disk, phase, dir, next, found, mount, catalog, told, fresh>>

Init ==
  /\ release = 1
  /\ disk \in [DirNames -> Trees \cup {<<>>}] /\ disk[Builtin] = <<>>
  /\ phase = "down" /\ dir = 1 /\ next = 1 /\ found = <<>>
  /\ mount = <<>> /\ catalog = {} /\ told = FALSE /\ fresh = FALSE

-----------------------------------------------------------------------------
(* The start                                                               *)

Start ==
  /\ phase = "down"
  /\ phase' = "unpack" /\ next' = 1
  /\ found' = <<>> /\ told' = FALSE
  /\ UNCHANGED <<release, disk, dir, mount, catalog, fresh>>

\* Writing over what is there: a file takes the place of one of the same name,
\* and no file goes.
Over(new, old) ==
  [x \in DOMAIN new \cup DOMAIN old |-> IF x \in DOMAIN new THEN new[x] ELSE old[x]]
FilesAt(tree, e) == IF e \in DOMAIN tree THEN tree[e].files ELSE <<>>
Overlay(tree, e, new) ==
  Over([x \in {e} |-> [name |-> new.name, listed |-> new.listed,
                        files |-> Over(new.files, FilesAt(tree, e))]], tree)

\* builtin.Unpack: the directory of one entry, if the binary has it.
Unpack ==
  LET e == Entries[next]  assets == Releases[release] IN
  /\ phase = "unpack" /\ next <= Len(Entries)
  /\ disk' = IF e \in DOMAIN assets
             THEN [disk EXCEPT ![Builtin] = Overlay(@, e, assets[e])] ELSE disk
  /\ next' = next + 1
  /\ UNCHANGED <<release, phase, dir, found, mount, catalog, told, fresh>>

Unpacked ==
  /\ phase = "unpack" /\ next > Len(Entries)
  /\ phase' = "discover" /\ dir' = 1 /\ next' = 1 /\ fresh' = TRUE
  /\ UNCHANGED <<release, disk, found, mount, catalog, told>>

\* A place is a directory and an entry in it; Discover comes to them in order.
Places == (1..Len(Dirs)) \X (1..Len(Entries))
Holds(p) == Entries[p[2]] \in DOMAIN disk[Dirs[p[1]]]
SkillAt(p) == disk[Dirs[p[1]]][Entries[p[2]]]
Lists(p) == Holds(p) /\ SkillAt(p).listed

\* Mutant: no map of the names already seen.
NeverSeen(n) == FALSE
Seen(n) == \E k \in DOMAIN found : found[k].name = n

\* Discover's inner loop looks at an entry: the first occurrence of a name wins.
Look ==
  LET p == <<dir, next>> IN
  /\ phase = "discover" /\ p \in Places
  /\ found' = IF Lists(p) /\ ~Seen(SkillAt(p).name)
              THEN Append(found, [at |-> p, name |-> SkillAt(p).name]) ELSE found
  /\ next' = next + 1
  /\ UNCHANGED <<release, disk, phase, dir, mount, catalog, told, fresh>>

NextDir ==
  /\ phase = "discover" /\ dir <= Len(Dirs) /\ next > Len(Entries)
  /\ dir' = dir + 1 /\ next' = 1
  /\ UNCHANGED <<release, disk, phase, found, mount, catalog, told, fresh>>

Discovered ==
  /\ phase = "discover" /\ dir > Len(Dirs)
  /\ phase' = "clear"
  /\ UNCHANGED <<release, disk, dir, next, found, mount, catalog, told, fresh>>

\* Mutant: what is there stays.
KeptMount == mount
ClearedMount == <<>>

\* Merge: RemoveAll and MkdirAll.
Clear ==
  /\ phase = "clear"
  /\ mount' = ClearedMount
  /\ phase' = "merge" /\ next' = Len(found)
  /\ UNCHANGED <<release, disk, dir, found, catalog, told, fresh>>

\* Merge copies the directory of a skill as it is now over what is there, the
\* last one first.
Copy ==
  LET s == found[next]  files == SkillAt(s.at).files IN
  /\ phase = "merge" /\ next > 0
  /\ Holds(s.at)
  /\ mount' = Over([n \in {s.name} |->
                IF n \in DOMAIN mount THEN Over(files, mount[n]) ELSE files], mount)
  /\ next' = next - 1
  /\ UNCHANGED <<release, disk, phase, dir, found, catalog, told, fresh>>

Up ==
  /\ phase = "merge" /\ next = 0
  /\ phase' = "up"
  /\ UNCHANGED <<release, disk, dir, next, found, mount, catalog, told, fresh>>

\* The harness stops, is killed, or meets an error of the start (log.Fatalf):
\* a directory that was discovered and is gone when Merge comes to it, say.
Down ==
  /\ phase # "down"
  /\ phase' = "down"
  /\ UNCHANGED <<release, disk, dir, next, found, mount, catalog, told, fresh>>

-----------------------------------------------------------------------------
(* While it runs, and meanwhile                                            *)

\* Mutant: the skills are looked for again.
ListedNow == {SkillAt(p).name : p \in {q \in Places : Lists(q)}}
ListedAtStart == {found[k].name : k \in DOMAIN found}

\* The handler of a message writes AGENTS.md: WriteContext, BuildCatalog.
Message ==
  /\ phase = "up"
  /\ catalog' = ListedAtStart /\ told' = TRUE
  /\ UNCHANGED <<release, disk, phase, dir, next, found, mount, fresh>>

\* The operator changes one of his directories.
Edit(d, t) ==
  /\ d # Builtin /\ disk[d] # t
  /\ disk' = [disk EXCEPT ![d] = t] /\ fresh' = FALSE
  /\ UNCHANGED <<release, phase, dir, next, found, mount, catalog, told>>

\* Another binary is installed.
Upgrade ==
  /\ phase = "down" /\ release < Len(Releases)
  /\ release' = release + 1
  /\ UNCHANGED <<disk, phase, dir, next, found, mount, catalog, told, fresh>>

Next ==
  \/ Start \/ Unpack \/ Unpacked \/ Look \/ NextDir \/ Discovered
  \/ Clear \/ Copy \/ Up \/ Down \/ Message \/ Upgrade
  \/ \E d \in DirNames, t \in Trees : Edit(d, t)

Spec == Init /\ [][Next]_vars

-----------------------------------------------------------------------------
(* Properties                                                              *)

\* Type invariant.  Every directory holds a tree, and among the discovered skills
\* no name comes twice, or Merge would mix their files.
DiskOK ==
  /\ DOMAIN disk = DirNames
  /\ \A d \in DirNames : \A e \in DOMAIN disk[d] :
       e \in EntryNames /\ disk[d][e].name \in Names /\ disk[d][e].listed \in BOOLEAN
FoundOK ==
  /\ found \in Seq([at : Places, name : Names])
  /\ \A k, l \in DOMAIN found : found[k].name = found[l].name => k = l
CursorsOK ==
  /\ dir \in 1..(Len(Dirs) + 1) /\ next \in Nat
  /\ phase \in {"unpack", "discover"} => next > 0
  /\ phase = "merge" => next <= Len(found)
TypeOK ==
  /\ DiskOK /\ FoundOK /\ CursorsOK
  /\ release \in DOMAIN Releases
  /\ phase \in {"down", "unpack", "discover", "clear", "merge", "up"}
  /\ DOMAIN mount \subseteq Names /\ catalog \subseteq Names
  /\ told \in BOOLEAN /\ fresh \in BOOLEAN

\* The reference: a name is provided by the first directory that lists it, and
\* there by the first entry.
Before(p, q) == p[1] < q[1] \/ (p[1] = q[1] /\ p[2] < q[2])
Provides(p, n) == Lists(p) /\ SkillAt(p).name = n
Provider(n) ==
  CHOOSE p \in Places : Provides(p, n) /\ \A q \in Places : Before(q, p) => ~Provides(q, n)
Provided == {n \in Names : \E p \in Places : Provides(p, n)}

\* A harness that is up has mounted, for each name, exactly the files of its
\* provider, "operator agency over kernel default" (docs/ARCHITECTURE.md:257),
\* whatever earlier runs, cut-short merges and removed skills left behind.
MountIsMerge ==
  phase = "up" /\ fresh =>
    mount = [n \in Provided |-> SkillAt(Provider(n)).files]

\* AGENTS.md never lists a skill that is not mounted nor leaves one out, however
\* the operator changes his directories between discovery, merge and messages.
CatalogIsMount == phase = "up" /\ told => catalog = DOMAIN mount

\* merge.go:14-15 says that a built-in removed in a binary upgrade does not linger.
NoBuiltinLingers ==
  phase = "up" => \A k \in DOMAIN found :
    LET p == found[k].at IN
    Dirs[p[1]] = Builtin => Entries[p[2]] \in DOMAIN Releases[release]
=============================================================================
