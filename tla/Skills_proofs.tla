---------------------------- MODULE Skills_proofs ----------------------------
(***************************************************************************)
(* Proofs about Skills, for all directories, binaries and trees of the     *)
(* operator, with an edit or the end of the process between any two steps. *)
(***************************************************************************)
EXTENDS Skills, SequenceTheorems, TLAPS

-----------------------------------------------------------------------------
(* The inductive invariant                                                 *)

Discovering == phase \in {"discover", "clear", "merge", "up"}

\* The place at which a name was found lists it, and none before it does.
First(p, n) ==
  Provides(p, n) /\ \A q \in Places : Before(q, p) => ~Provides(q, n)
FoundIsFirst ==
  Discovering /\ fresh =>
    \A k \in DOMAIN found : First(found[k].at, found[k].name)

\* What Discover has passed, it has found.
Passed(p) == phase = "discover" => Before(p, <<dir, next>>)
FoundIsAll ==
  Discovering /\ fresh =>
    \A p \in Places : Passed(p) /\ Lists(p) => Seen(SkillAt(p).name)

\* No start finds anything before it has unpacked.
FoundIsNew == phase = "unpack" => found = <<>>

IsAFunction(f) == f = [x \in DOMAIN f |-> f[x]]

\* Merge has mounted what it has come to, from the last one down.
MountFollows ==
  phase \in {"merge", "up"} =>
    /\ next \in 0..Len(found) /\ (phase = "up" => next = 0)
    /\ IsAFunction(mount)
    /\ DOMAIN mount = {found[k].name : k \in (next + 1)..Len(found)}
    /\ fresh => \A k \in (next + 1)..Len(found) :
                  mount[found[k].name] = SkillAt(found[k].at).files

\* Messages list what the start found, and there are none before it is up.
CatalogFollows ==
  /\ phase \in {"unpack", "discover", "clear", "merge"} => ~told
  /\ phase = "up" /\ told => catalog = ListedAtStart

FoundInv == FoundIsFirst /\ FoundIsAll /\ FoundIsNew
Inv == TypeOK /\ FoundInv /\ MountFollows /\ CatalogFollows

-----------------------------------------------------------------------------
(* Trees                                                                   *)

\* Every entry of a tree of the operator or of a binary is a skill.
LEMMA TreeType ==
  ASSUME NEW t \in AllTrees, NEW e \in DOMAIN t
  PROVE  e \in EntryNames /\ t[e].name \in Names /\ t[e].listed \in BOOLEAN
  BY SkillsAssumption DEF Names

LEMMA NoEntries == DOMAIN <<>> = {} /\ \A S : <<>> \in Seq(S)
  OBVIOUS

\* Unpacking an asset keeps a tree a tree.
LEMMA OverlayType ==
  ASSUME NEW tree, NEW e \in EntryNames, NEW new,
         new.name \in Names, new.listed \in BOOLEAN,
         \A x \in DOMAIN tree :
           x \in EntryNames /\ tree[x].name \in Names /\ tree[x].listed \in BOOLEAN
  PROVE  \A x \in DOMAIN Overlay(tree, e, new) :
           /\ x \in EntryNames
           /\ Overlay(tree, e, new)[x].name \in Names
           /\ Overlay(tree, e, new)[x].listed \in BOOLEAN
<1> DEFINE skill == [name |-> new.name, listed |-> new.listed,
                     files |-> Over(new.files, FilesAt(tree, e))]
           one == [x \in {e} |-> skill]
<1> HIDE DEF skill
<1>1. Overlay(tree, e, new) = Over(one, tree)
  BY DEF Overlay, skill
<1>2. skill.name \in Names /\ skill.listed \in BOOLEAN
  BY DEF skill
<1> QED
  BY <1>1, <1>2 DEF Over

\* Where a place is, there is an entry to look at.
LEMMA PlaceType ==
  ASSUME TypeOK, NEW p \in Places
  PROVE  /\ p = <<p[1], p[2]>> /\ p[1] \in 1..Len(Dirs) /\ p[2] \in 1..Len(Entries)
         /\ Dirs[p[1]] \in DirNames /\ Entries[p[2]] \in EntryNames
         /\ Holds(p) => SkillAt(p).name \in Names /\ SkillAt(p).listed \in BOOLEAN
<1>1. /\ p = <<p[1], p[2]>> /\ p[1] \in 1..Len(Dirs) /\ p[2] \in 1..Len(Entries)
      /\ Dirs[p[1]] \in DirNames /\ Entries[p[2]] \in EntryNames
  BY SkillsAssumption DEF Places, DirNames, EntryNames
<1> QED
  BY <1>1 DEF TypeOK, DiskOK, Holds, SkillAt

\* What was found is a place and a name.
LEMMA FoundType ==
  ASSUME FoundOK
  PROVE  /\ Len(found) \in Nat /\ DOMAIN found = 1..Len(found)
         /\ \A k \in DOMAIN found : found[k].at \in Places /\ found[k].name \in Names
<1> DEFINE S == [at : Places, name : Names]
<1>1. found \in Seq(S)
  BY DEF FoundOK
<1>2. \A s \in S : s.at \in Places /\ s.name \in Names
  OBVIOUS
<1> HIDE DEF S
<1>3. /\ Len(found) \in Nat /\ DOMAIN found = 1..Len(found)
      /\ \A k \in DOMAIN found : found[k] \in S
  BY <1>1, LenProperties, ElementOfSeq
<1> QED
  BY <1>2, <1>3

-----------------------------------------------------------------------------
(* Type correctness                                                        *)

LEMMA TypeInit == Init => TypeOK
<1> SUFFICES ASSUME Init PROVE TypeOK
  OBVIOUS
<1>1. Len(Dirs) \in Nat /\ 1 \in DOMAIN Releases
  BY SkillsAssumption, LenProperties, EmptySeq
<1>2. DiskOK
  <2>1. ASSUME NEW d \in DirNames, NEW e \in DOMAIN disk[d]
        PROVE  e \in EntryNames /\ disk[d][e].name \in Names /\ disk[d][e].listed \in BOOLEAN
    <3>1. disk[d] \in Trees
      BY NoEntries DEF Init
    <3> QED
      BY <3>1, TreeType DEF AllTrees
  <2> QED
    BY <2>1 DEF DiskOK, Init
<1>3. FoundOK
  BY NoEntries DEF Init, FoundOK
<1>4. DOMAIN mount = {} /\ catalog = {} /\ release = 1 /\ dir = 1 /\ next = 1
      /\ phase = "down" /\ told = FALSE /\ fresh = FALSE
  BY NoEntries DEF Init
<1>5. CursorsOK
  BY <1>1, <1>4 DEF CursorsOK
<1> QED
  BY <1>1, <1>2, <1>3, <1>4, <1>5 DEF TypeOK

\* Discover keeps the names of what it found apart.
LEMMA LookType == ASSUME TypeOK, Look PROVE FoundOK'
<1> DEFINE p == <<dir, next>>
           new == [at |-> p, name |-> SkillAt(p).name]
           S == [at : Places, name : Names]
<1> USE DEF Look
<1>1. Len(found) \in Nat /\ DOMAIN found = 1..Len(found)
  BY FoundType DEF TypeOK
<1>2. CASE Lists(p) /\ ~Seen(SkillAt(p).name)
  <2>1. new \in S
    BY <1>2, PlaceType DEF Lists
  <2>2. found' = Append(found, new)
    BY <1>2
  <2>3. \A k \in DOMAIN found : found[k].name # new.name
    BY <1>2 DEF Seen
  <2>4. found \in Seq(S)
    BY DEF TypeOK, FoundOK
  <2> HIDE DEF new, S
  <2>5. /\ found' \in Seq(S) /\ Len(found') = Len(found) + 1
        /\ \A i \in 1..Len(found) : found'[i] = found[i]
        /\ found'[Len(found) + 1] = new
    BY <2>1, <2>2, <2>4, AppendProperties
  <2>6. DOMAIN found' = 1..(Len(found) + 1)
    BY <2>5, LenProperties
  <2>7. \A k, l \in DOMAIN found' : found'[k].name = found'[l].name => k = l
    BY <1>1, <2>3, <2>5, <2>6 DEF TypeOK, FoundOK
  <2> QED
    BY <2>5, <2>7 DEF FoundOK, S
<1>3. CASE ~(Lists(p) /\ ~Seen(SkillAt(p).name))
  BY <1>3 DEF TypeOK, FoundOK
<1> QED
  BY <1>2, <1>3

LEMMA UnpackType == ASSUME TypeOK, Unpack PROVE DiskOK'
<1> DEFINE e == Entries[next]  assets == Releases[release]
<1> USE DEF Unpack
<1>1. e \in EntryNames
  BY SkillsAssumption DEF TypeOK, CursorsOK, EntryNames
<1>2. CASE e \in DOMAIN assets
  <2>1. assets[e].name \in Names /\ assets[e].listed \in BOOLEAN
    BY <1>2, TreeType DEF TypeOK, AllTrees
  <2> DEFINE tree == Overlay(disk[Builtin], e, assets[e])
  <2>2. \A x \in DOMAIN tree :
          x \in EntryNames /\ tree[x].name \in Names /\ tree[x].listed \in BOOLEAN
    <3>1. \A x \in DOMAIN disk[Builtin] :
            /\ x \in EntryNames /\ disk[Builtin][x].name \in Names
            /\ disk[Builtin][x].listed \in BOOLEAN
      BY SkillsAssumption DEF TypeOK, DiskOK
    <3> QED
      BY <1>1, <2>1, <3>1, OverlayType
  <2>3. disk' = [disk EXCEPT ![Builtin] = tree]
    BY <1>2
  <2> HIDE DEF tree
  <2>4. \A d \in DirNames : disk'[d] = disk[d] \/ disk'[d] = tree
    BY <2>3 DEF TypeOK, DiskOK
  <2> QED
    BY <2>2, <2>3, <2>4 DEF TypeOK, DiskOK
<1>3. CASE e \notin DOMAIN assets
  BY <1>3 DEF TypeOK, DiskOK
<1> QED
  BY <1>2, <1>3

LEMMA EditType ==
  ASSUME TypeOK, NEW d \in DirNames, NEW t \in Trees, Edit(d, t)
  PROVE  DiskOK'
<1>1. \A e \in DOMAIN t :
        e \in EntryNames /\ t[e].name \in Names /\ t[e].listed \in BOOLEAN
  BY TreeType DEF AllTrees
<1>2. \A x \in DirNames : disk'[x] = disk[x] \/ disk'[x] = t
  BY DEF Edit, TypeOK, DiskOK
<1> QED
  BY <1>1, <1>2 DEF Edit, TypeOK, DiskOK

\* One step keeps TypeOK.
LEMMA TypeStep == TypeOK /\ [Next]_vars => TypeOK'
<1> SUFFICES ASSUME TypeOK, [Next]_vars PROVE TypeOK'
  OBVIOUS
<1>0. Len(Dirs) \in Nat /\ Len(found) \in Nat /\ Len(Releases) \in Nat
      /\ DOMAIN found = 1..Len(found) /\ DOMAIN Releases = 1..Len(Releases)
  BY SkillsAssumption, LenProperties, FoundType DEF TypeOK
<1>a. UNCHANGED disk => DiskOK'
  BY DEF TypeOK, DiskOK
<1>b. UNCHANGED found => FoundOK'
  BY DEF TypeOK, FoundOK
<1> USE DEF CursorsOK
<1>1. CASE Start
  <2>1. FoundOK'
    BY <1>1, NoEntries DEF Start, FoundOK
  <2>2. CursorsOK'
    BY <1>1 DEF Start, TypeOK
  <2> HIDE DEF CursorsOK
  <2> QED
    BY <1>1, <1>a, <2>1, <2>2 DEF Start, TypeOK
<1>2. CASE Unpack
  BY <1>2, <1>b, UnpackType DEF Unpack, TypeOK
<1>3. CASE Unpacked
  BY <1>0, <1>3, <1>a, <1>b DEF Unpacked, TypeOK
<1>4. CASE Look
  BY <1>4, <1>a, LookType DEF Look, TypeOK
<1>5. CASE NextDir
  BY <1>0, <1>5, <1>a, <1>b DEF NextDir, TypeOK
<1>6. CASE Discovered
  BY <1>6, <1>a, <1>b DEF Discovered, TypeOK
<1>7. CASE Clear
  <2>1. DOMAIN mount' = {}
    BY <1>7, NoEntries DEF Clear, ClearedMount
  <2> QED
    BY <1>0, <1>7, <1>a, <1>b, <2>1 DEF Clear, TypeOK
<1>8. CASE Copy
  <2>1. DOMAIN mount' = {found[next].name} \cup DOMAIN mount
    BY <1>8 DEF Copy, Over
  <2>2. found[next].name \in Names
    BY <1>0, <1>8, FoundType DEF Copy, TypeOK
  <2> QED
    BY <1>0, <1>8, <1>a, <1>b, <2>1, <2>2 DEF Copy, TypeOK
<1>9. CASE Up
  BY <1>9, <1>a, <1>b DEF Up, TypeOK
<1>10. CASE Down
  BY <1>10, <1>a, <1>b DEF Down, TypeOK
<1>11. CASE Message
  <2>1. catalog' \subseteq Names
    BY <1>11, FoundType DEF Message, ListedAtStart, TypeOK
  <2> QED
    BY <1>11, <1>a, <1>b, <2>1 DEF Message, TypeOK
<1>12. CASE Upgrade
  BY <1>0, <1>12, <1>a, <1>b DEF Upgrade, TypeOK
<1>13. ASSUME NEW d \in DirNames, NEW t \in Trees, Edit(d, t) PROVE TypeOK'
  BY <1>13, <1>b, EditType DEF Edit, TypeOK
<1>14. CASE UNCHANGED vars
  BY <1>14, <1>a, <1>b DEF vars, TypeOK
<1> QED
  BY <1>1, <1>2, <1>3, <1>4, <1>5, <1>6, <1>7, <1>8, <1>9, <1>10, <1>11, <1>12, <1>13,
     <1>14 DEF Next

\* TypeOK: above all, no name is found twice, so Merge never mixes two skills.
THEOREM TypeCorrect == Spec => []TypeOK
  BY TypeInit, TypeStep, PTL DEF Spec

-----------------------------------------------------------------------------
(* Discovery                                                               *)

\* A step that leaves the directories and what was found alone, and passes no
\* place by.
LEMMA FoundStays ==
  ASSUME FoundInv, UNCHANGED <<disk, found>>, fresh' => fresh,
         phase' = "unpack" => phase = "unpack",
         Discovering' /\ fresh => Discovering,
         Discovering' => \A p \in Places : Passed(p)' => Passed(p)
  PROVE  FoundInv'
<1>1. \A p, n : First(p, n)' <=> First(p, n)
  BY DEF First, Provides, Lists, Holds, SkillAt
<1>2. \A p : (Lists(p)' <=> Lists(p)) /\ SkillAt(p)' = SkillAt(p)
  BY DEF Lists, Holds, SkillAt
<1>3. \A n : Seen(n)' <=> Seen(n)
  BY DEF Seen
<1>4. FoundIsFirst'
  BY <1>1 DEF FoundInv, FoundIsFirst
<1>5. FoundIsAll'
  BY <1>2, <1>3 DEF FoundInv, FoundIsAll
<1> QED
  BY <1>4, <1>5 DEF FoundInv, FoundIsNew

\* Looking at an entry: a name that was not found yet has no earlier place, or
\* Discover would have passed it.
LEMMA LookFinds == ASSUME TypeOK, FoundInv, Look PROVE FoundInv'
<1> DEFINE p == <<dir, next>>
           n == SkillAt(p).name
<1>1. /\ phase = "discover" /\ p \in Places
      /\ found' = IF Lists(p) /\ ~Seen(n) THEN Append(found, [at |-> p, name |-> n]) ELSE found
      /\ next' = next + 1 /\ UNCHANGED <<disk, phase, dir, fresh>>
  BY DEF Look
<1>2. \A q, m : First(q, m)' <=> First(q, m)
  BY <1>1 DEF First, Provides, Lists, Holds, SkillAt
<1>3. \A q : (Lists(q)' <=> Lists(q)) /\ SkillAt(q)' = SkillAt(q)
  BY <1>1 DEF Lists, Holds, SkillAt
<1>4. Len(found) \in Nat /\ DOMAIN found = 1..Len(found)
  BY FoundType DEF TypeOK
<1>5. ASSUME NEW q \in Places, Passed(q)' PROVE Passed(q) \/ q = p
  <2>1. q = <<q[1], q[2]>> /\ q[1] \in Int /\ q[2] \in Int
    BY DEF Places
  <2>2. dir \in Int /\ next \in Int
    BY DEF TypeOK, CursorsOK
  <2>3. Before(q, <<dir, next + 1>>)
    BY <1>1, <1>5 DEF Passed
  <2>4. q[1] < dir \/ (q[1] = dir /\ q[2] < next + 1)
    BY <2>3 DEF Before
  <2> QED
    BY <2>1, <2>2, <2>4 DEF Passed, Before
<1>6. CASE fresh /\ Lists(p) /\ ~Seen(n)
  <2> DEFINE new == [at |-> p, name |-> n]
  <2>0. n \in Names
    BY <1>1, <1>6, PlaceType DEF Lists
  <2>1. /\ DOMAIN found' = 1..(Len(found) + 1)
        /\ \A k \in 1..Len(found) : found'[k] = found[k]
        /\ found'[Len(found) + 1] = new
    <3> DEFINE S == [at : Places, name : Names]
    <3>1. new \in S /\ found \in Seq(S)
      BY <1>1, <2>0 DEF TypeOK, FoundOK
    <3>2. found' = Append(found, new)
      BY <1>1, <1>6
    <3> HIDE DEF S, new
    <3> QED
      BY <3>1, <3>2, AppendProperties, LenProperties
  <2>2. First(p, n)
    <3>1. Provides(p, n)
      BY <1>6 DEF Provides
    <3>2. ASSUME NEW q \in Places, Before(q, p), Provides(q, n) PROVE FALSE
      <4>1. Passed(q)
        BY <3>2 DEF Passed
      <4>2. Seen(SkillAt(q).name)
        BY <1>1, <1>6, <3>2, <4>1 DEF FoundInv, FoundIsAll, Discovering, Provides
      <4> QED
        BY <1>6, <3>2, <4>2 DEF Provides
    <3> QED
      BY <3>1, <3>2 DEF First
  <2>3. ASSUME NEW k \in DOMAIN found' PROVE First(found'[k].at, found'[k].name)
    <3>1. CASE k \in DOMAIN found
      BY <1>1, <1>4, <1>6, <2>1, <3>1 DEF FoundInv, FoundIsFirst, Discovering
    <3>2. CASE k = Len(found) + 1
      BY <2>1, <2>2, <3>2
    <3> QED
      BY <1>4, <2>1, <3>1, <3>2
  <2> DEFINE Found(m) == \E k \in DOMAIN found' : found'[k].name = m
  <2>4. \A m : Seen(m) => Found(m)
    BY <1>4, <2>1 DEF Seen
  <2>5. Found(n)
    <3>1. Len(found) + 1 \in DOMAIN found' /\ found'[Len(found) + 1].name = n
      BY <1>4, <2>1
    <3> QED
      BY <3>1
  <2>6. ASSUME NEW q \in Places, Passed(q)', Lists(q) PROVE Seen(SkillAt(q).name)'
    <3>1. Found(SkillAt(q).name)
      <4>1. CASE q = p
        BY <2>5, <4>1
      <4>2. CASE Passed(q)
        BY <1>1, <1>6, <2>4, <2>6, <4>2 DEF FoundInv, FoundIsAll, Discovering
      <4> QED
        BY <1>5, <2>6, <4>1, <4>2
    <3> QED
      BY <1>3, <3>1 DEF Seen
  <2>7. FoundIsFirst'
    BY <1>2, <2>3 DEF FoundIsFirst
  <2>8. FoundIsAll'
    BY <1>3, <2>6 DEF FoundIsAll
  <2> QED
    BY <1>1, <2>7, <2>8 DEF FoundInv, FoundIsNew
<1>7. CASE fresh /\ ~(Lists(p) /\ ~Seen(n))
  <2>1. found' = found
    BY <1>1, <1>7
  <2>2. \A m : Seen(m)' <=> Seen(m)
    BY <2>1 DEF Seen
  <2>3. FoundIsFirst'
    BY <1>1, <1>2, <2>1 DEF FoundInv, FoundIsFirst, Discovering
  <2>4. FoundIsAll'
    BY <1>1, <1>3, <1>5, <1>7, <2>2 DEF FoundInv, FoundIsAll, Discovering
  <2> QED
    BY <1>1, <2>3, <2>4 DEF FoundInv, FoundIsNew
<1>8. CASE ~fresh
  BY <1>1, <1>8 DEF FoundInv, FoundIsFirst, FoundIsAll, FoundIsNew
<1> QED
  BY <1>6, <1>7, <1>8

LEMMA FoundStep == TypeOK /\ FoundInv /\ [Next]_vars => FoundInv'
<1> SUFFICES ASSUME TypeOK, FoundInv, [Next]_vars PROVE FoundInv'
  OBVIOUS
<1>0. Len(Dirs) \in Nat /\ dir \in Nat /\ next \in Nat
  BY SkillsAssumption, LenProperties DEF TypeOK, CursorsOK
<1>1. ASSUME ~Discovering' \/ ~fresh', FoundIsNew' PROVE FoundInv'
  BY <1>1 DEF FoundInv, FoundIsFirst, FoundIsAll
<1>2. CASE Start \/ Unpack \/ Down
  BY <1>1, <1>2 DEF Start, Unpack, Down, Discovering, FoundInv, FoundIsNew
<1>3. CASE Unpacked
  <2>1. found' = <<>> /\ phase' = "discover" /\ dir' = 1 /\ next' = 1
    BY <1>3 DEF Unpacked, FoundInv, FoundIsNew
  <2>2. FoundIsFirst'
    BY <2>1, NoEntries DEF FoundIsFirst
  <2>3. ASSUME NEW p \in Places PROVE ~Passed(p)'
    BY <2>1, PlaceType DEF Passed, Before
  <2> QED
    BY <2>1, <2>2, <2>3 DEF FoundInv, FoundIsAll, FoundIsNew
<1>4. CASE Look
  BY <1>4, LookFinds
<1>5. CASE NextDir
  <2>1. ASSUME NEW p \in Places, Passed(p)' PROVE Passed(p)
    BY <1>0, <1>5, <2>1, PlaceType DEF NextDir, Passed, Before
  <2> QED
    BY <1>5, <2>1, FoundStays DEF NextDir, Discovering
<1>6. CASE Discovered
  <2>1. ASSUME NEW p \in Places PROVE Passed(p)
    BY <1>0, <1>6, PlaceType DEF Discovered, Passed, Before
  <2> QED
    BY <1>6, <2>1, FoundStays DEF Discovered, Discovering
<1>7. CASE Clear \/ Copy \/ Up
  BY <1>7, FoundStays DEF Clear, Copy, Up, Discovering, Passed
<1>8. CASE Message \/ Upgrade
  BY <1>8, FoundStays DEF Message, Upgrade, Discovering, Passed
<1>9. ASSUME NEW d \in DirNames, NEW t \in Trees, Edit(d, t) PROVE FoundInv'
  BY <1>1, <1>9 DEF Edit, FoundInv, FoundIsNew
<1>10. CASE UNCHANGED vars
  BY <1>10, FoundStays DEF vars, Discovering, Passed
<1> QED
  BY <1>2, <1>3, <1>4, <1>5, <1>6, <1>7, <1>8, <1>9, <1>10 DEF Next

-----------------------------------------------------------------------------
(* Merge                                                                   *)

LEMMA MergeStays ==
  ASSUME MountFollows, UNCHANGED <<disk, found, mount>>, fresh' => fresh,
         phase' \in {"merge", "up"} =>
           UNCHANGED next /\ phase \in {"merge", "up"} /\ (phase' = "up" => next = 0)
  PROVE  MountFollows'
<1>1. \A p : SkillAt(p)' = SkillAt(p)
  BY DEF SkillAt
<1> QED
  BY <1>1 DEF MountFollows

LEMMA CopyMerges == ASSUME TypeOK, MountFollows, Copy PROVE MountFollows'
<1> DEFINE n == found[next].name
           files == SkillAt(found[next].at).files
           v == IF n \in DOMAIN mount THEN Over(files, mount[n]) ELSE files
<1>1. /\ phase = "merge" /\ next > 0 /\ next' = next - 1
      /\ mount' = Over([m \in {n} |-> IF m \in DOMAIN mount THEN Over(files, mount[m])
                                      ELSE files], mount)
      /\ UNCHANGED <<disk, phase, found, fresh>>
  BY DEF Copy
<1>2. /\ next \in 1..Len(found) /\ Len(found) \in Nat /\ DOMAIN found = 1..Len(found)
      /\ \A k, l \in DOMAIN found : found[k].name = found[l].name => k = l
  BY <1>1, FoundType DEF MountFollows, TypeOK, FoundOK
<1>3. DOMAIN mount = {found[k].name : k \in (next + 1)..Len(found)}
  BY <1>1 DEF MountFollows
<1>4. n \notin DOMAIN mount
  BY <1>2, <1>3
<1>5. mount' = Over([m \in {n} |-> files], mount)
  <2>1. [m \in {n} |-> IF m \in DOMAIN mount THEN Over(files, mount[m]) ELSE files]
          = [m \in {n} |-> files]
    BY <1>4
  <2> QED
    BY <1>1, <2>1
<1>6. /\ IsAFunction(mount')
      /\ DOMAIN mount' = DOMAIN mount \cup {n}
      /\ mount'[n] = files
      /\ \A m \in DOMAIN mount : m # n => mount'[m] = mount[m]
  <2> DEFINE h == [m \in {n} |-> files]
  <2>1. DOMAIN h = {n} /\ h[n] = files
    OBVIOUS
  <2> HIDE DEF n, files, h
  <2>2. mount' = Over(h, mount)
    BY <1>5 DEF h
  <2>3. /\ IsAFunction(mount')
        /\ DOMAIN mount' = DOMAIN mount \cup {n} /\ mount'[n] = h[n]
        /\ \A m \in DOMAIN mount : m # n => mount'[m] = mount[m]
    BY <2>1, <2>2 DEF Over, IsAFunction
  <2> QED
    BY <2>1, <2>3
<1>7. (next' + 1)..Len(found) = {next} \cup ((next + 1)..Len(found))
  BY <1>1, <1>2
<1>8. DOMAIN mount' = {found[k].name : k \in (next' + 1)..Len(found)}
  <2> HIDE DEF n
  <2>1. {found[k].name : k \in {next} \cup ((next + 1)..Len(found))}
          = {found[next].name} \cup {found[k].name : k \in (next + 1)..Len(found)}
    OBVIOUS
  <2> QED
    BY <1>3, <1>6, <1>7, <2>1 DEF n
<1>9. \A p : SkillAt(p)' = SkillAt(p)
  BY <1>1 DEF SkillAt
<1>10. ASSUME fresh, NEW k \in (next' + 1)..Len(found)
       PROVE  mount'[found[k].name] = SkillAt(found[k].at).files
  <2>1. CASE k = next
    BY <1>6, <2>1
  <2>2. CASE k \in (next + 1)..Len(found)
    <3>1. mount[found[k].name] = SkillAt(found[k].at).files
      BY <1>1, <1>10, <2>2 DEF MountFollows
    <3>2. found[k].name \in DOMAIN mount
      BY <1>3, <2>2
    <3> QED
      BY <1>4, <1>6, <3>1, <3>2
  <2> QED
    BY <1>7, <1>10, <2>1, <2>2
<1>11. next' \in 0..Len(found) /\ phase' = "merge" /\ found' = found
  BY <1>1, <1>2
<1>12. DOMAIN mount' = {found'[k].name : k \in (next' + 1)..Len(found')}
  BY <1>8, <1>11
<1>13. fresh' => \A k \in (next' + 1)..Len(found') :
                   mount'[found'[k].name] = SkillAt(found[k].at)'.files
  BY <1>1, <1>10 DEF SkillAt
<1> HIDE DEF n, files
<1> QED
  BY <1>6, <1>11, <1>12, <1>13 DEF MountFollows, IsAFunction

LEMMA MergeStep == TypeOK /\ MountFollows /\ [Next]_vars => MountFollows'
<1> SUFFICES ASSUME TypeOK, MountFollows, [Next]_vars PROVE MountFollows'
  OBVIOUS
<1>1. CASE Start \/ Unpack \/ Unpacked \/ Look \/ NextDir \/ Discovered \/ Down
  BY <1>1 DEF Start, Unpack, Unpacked, Look, NextDir, Discovered, Down, MountFollows
<1>2. CASE Clear
  <2>1. mount' = <<>> /\ next' = Len(found) /\ phase' = "merge" /\ found' = found
    BY <1>2 DEF Clear, ClearedMount
  <2>2. Len(found) \in Nat
    BY FoundType DEF TypeOK
  <2>3. IsAFunction(mount)' /\ DOMAIN mount' = {}
    BY <2>1, NoEntries DEF IsAFunction
  <2>4. (next' + 1)..Len(found') = {} /\ next' \in 0..Len(found')
    BY <2>1, <2>2
  <2>5. DOMAIN mount' = {found'[k].name : k \in (next' + 1)..Len(found')}
    BY <2>3, <2>4
  <2> QED
    BY <2>1, <2>3, <2>4, <2>5 DEF MountFollows, IsAFunction
<1>3. CASE Copy
  BY <1>3, CopyMerges
<1>4. CASE Up \/ Message
  BY <1>4, MergeStays DEF Up, Message, MountFollows
<1>5. CASE Upgrade \/ UNCHANGED vars
  BY <1>5, MergeStays DEF Upgrade, vars, MountFollows
<1>6. ASSUME NEW d \in DirNames, NEW t \in Trees, Edit(d, t) PROVE MountFollows'
  BY <1>6 DEF Edit, MountFollows
<1> QED
  BY <1>1, <1>2, <1>3, <1>4, <1>5, <1>6 DEF Next

LEMMA CatalogStep == TypeOK /\ CatalogFollows /\ [Next]_vars => CatalogFollows'
<1> SUFFICES ASSUME TypeOK, CatalogFollows, [Next]_vars PROVE CatalogFollows'
  OBVIOUS
<1>1. CASE Start \/ Unpack \/ Unpacked \/ Look \/ NextDir \/ Discovered \/ Clear \/ Copy
  BY <1>1 DEF Start, Unpack, Unpacked, Look, NextDir, Discovered, Clear, Copy,
              CatalogFollows
<1>2. CASE Up \/ Down \/ Upgrade \/ UNCHANGED vars
  BY <1>2 DEF Up, Down, Upgrade, vars, CatalogFollows, ListedAtStart
<1>3. CASE Message
  BY <1>3 DEF Message, CatalogFollows, ListedAtStart
<1>4. ASSUME NEW d \in DirNames, NEW t \in Trees, Edit(d, t) PROVE CatalogFollows'
  BY <1>4 DEF Edit, CatalogFollows, ListedAtStart
<1> QED
  BY <1>1, <1>2, <1>3, <1>4 DEF Next

-----------------------------------------------------------------------------
(* The theorems                                                            *)

LEMMA InvHolds == Spec => []Inv
<1>1. Init => Inv
  <2>1. Init => FoundInv /\ MountFollows /\ CatalogFollows
    BY DEF Init, FoundInv, FoundIsFirst, FoundIsAll, FoundIsNew, Discovering, MountFollows,
           CatalogFollows
  <2> QED
    BY <2>1, TypeInit DEF Inv
<1>2. Inv /\ [Next]_vars => Inv'
  BY TypeStep, FoundStep, MergeStep, CatalogStep DEF Inv
<1> QED
  BY <1>1, <1>2, PTL DEF Spec

\* A name has one first place at most.
LEMMA FirstIsProvider ==
  ASSUME NEW p \in Places, NEW n, First(p, n)
  PROVE  Provider(n) = p
<1> DEFINE Is(q) == Provides(q, n) /\ \A r \in Places : Before(r, q) => ~Provides(r, n)
<1>1. ASSUME NEW q \in Places, Is(q) PROVE q = p
  <2>1. ~Before(p, q) /\ ~Before(q, p)
    BY <1>1 DEF First
  <2>2. /\ p = <<p[1], p[2]>> /\ q = <<q[1], q[2]>>
        /\ p[1] \in Int /\ p[2] \in Int /\ q[1] \in Int /\ q[2] \in Int
    BY DEF Places
  <2>3. p[1] = q[1] /\ p[2] = q[2]
    BY <2>1, <2>2 DEF Before
  <2> QED
    BY <2>2, <2>3
<1>2. Is(p)
  BY DEF First
<1>3. Provider(n) = CHOOSE q \in Places : Is(q)
  BY DEF Provider
<1> HIDE DEF Is
<1> QED
  BY <1>1, <1>2, <1>3

LEMMA MountMeans == Inv => MountIsMerge
<1> SUFFICES ASSUME Inv, phase = "up", fresh
             PROVE  mount = [n \in Provided |-> SkillAt(Provider(n)).files]
  BY DEF MountIsMerge
<1>1. /\ Len(found) \in Nat /\ DOMAIN found = 1..Len(found)
      /\ \A k \in DOMAIN found : found[k].at \in Places /\ found[k].name \in Names
  BY FoundType DEF Inv, TypeOK
<1>2. /\ IsAFunction(mount)
      /\ DOMAIN mount = {found[k].name : k \in DOMAIN found}
      /\ \A k \in DOMAIN found : mount[found[k].name] = SkillAt(found[k].at).files
  <2>1. next = 0 /\ (next + 1)..Len(found) = DOMAIN found
    BY <1>1 DEF Inv, MountFollows
  <2> QED
    BY <2>1 DEF Inv, MountFollows
<1>3. \A k \in DOMAIN found : First(found[k].at, found[k].name)
  BY DEF Inv, FoundInv, FoundIsFirst, Discovering
<1>4. ASSUME NEW k \in DOMAIN found
      PROVE  /\ found[k].name \in Provided
             /\ mount[found[k].name] = SkillAt(Provider(found[k].name)).files
  <2>1. Provider(found[k].name) = found[k].at
    BY <1>1, <1>3, FirstIsProvider
  <2>2. found[k].name \in Provided
    BY <1>1, <1>3 DEF First, Provided
  <2> QED
    BY <1>2, <2>1, <2>2
<1>5. ASSUME NEW n \in Provided PROVE n \in DOMAIN mount
  <2>1. PICK p \in Places : Provides(p, n)
    BY DEF Provided
  <2>2. Seen(n)
    BY <2>1 DEF Inv, FoundInv, FoundIsAll, Discovering, Passed, Provides
  <2> QED
    BY <1>2, <2>2 DEF Seen
<1>6. DOMAIN mount = Provided
  BY <1>2, <1>4, <1>5
<1>7. \A n \in Provided : mount[n] = SkillAt(Provider(n)).files
  BY <1>2, <1>4, <1>6
<1> QED
  BY <1>2, <1>6, <1>7 DEF IsAFunction

\* MountIsMerge: what the containers are given is, for every name, the files of
\* the first directory that lists it, and nothing of any earlier start.
THEOREM MountIsTheMerge == Spec => []MountIsMerge
  BY InvHolds, MountMeans, PTL

LEMMA CatalogMeans == Inv => CatalogIsMount
<1> SUFFICES ASSUME Inv, phase = "up", told PROVE catalog = DOMAIN mount
  BY DEF CatalogIsMount
<1>1. Len(found) \in Nat /\ DOMAIN found = 1..Len(found)
  BY FoundType DEF Inv, TypeOK
<1>2. next = 0 /\ DOMAIN mount = {found[k].name : k \in (next + 1)..Len(found)}
  BY DEF Inv, MountFollows
<1> QED
  BY <1>1, <1>2 DEF Inv, CatalogFollows, ListedAtStart

\* CatalogIsMount: the skills an agent is told of are those it is given, though
\* the list is written long after the mount.
THEOREM CatalogMatchesMount == Spec => []CatalogIsMount
  BY InvHolds, CatalogMeans, PTL
=============================================================================
