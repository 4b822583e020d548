------------------------------- MODULE MCSkills -------------------------------
(* Skills for TLC: two names, two binaries, and the trees of an operator.        *)
EXTENDS Skills, TLC

CONSTANTS v1, v2, own

MCDirs == <<"skills", "skills-builtin", "extra">>
MCEntries == <<"a", "b">>
Skill(n, l, fs) == [name |-> n, listed |-> l, files |-> fs]

\* The second binary has dropped skill b and a file of skill a.
MCReleases == <<
  "a" :> Skill("A", TRUE, "SKILL.md" :> v1 @@ "ref.md" :> v1)
    @@ "b" :> Skill("B", TRUE, "SKILL.md" :> v1),
  "a" :> Skill("A", TRUE, "SKILL.md" :> v2)>>

\* Nothing; two directories with one name; one that cannot be listed.
MCTrees == {
  <<>>,
  "a" :> Skill("A", TRUE, "SKILL.md" :> own @@ "more.md" :> own)
    @@ "b" :> Skill("A", TRUE, "SKILL.md" :> v1),
  "a" :> Skill("A", FALSE, "SKILL.md" :> own) @@ "b" :> Skill("B", TRUE, "SKILL.md" :> own)}
=============================================================================
