SPECIFICATION Spec
CONSTANTS
  v1 = v1
  v2 = v2
  own = own
  Builtin = "skills-builtin"
  Dirs <- MCDirs
  Entries <- MCEntries
  Releases <- MCReleases
  Trees <- MCTrees
INVARIANT NoBuiltinLingers
