\* Two programs, two device models, four compiles between them.
CONSTANTS
  Programs = {p1, p2}
  Sources <- TheSources
  Builds <- ThoseThatBuild
  Models = {cpu, gpu}
  HashSize = 65536
  Absent = Absent
  Unusable = Unusable
  None = None
  Error = Error
  MaxCompiles = 4
SPECIFICATION Spec
SYMMETRY Interchangeable
INVARIANTS
  RightProgram
  ErrorsHaveACause
  CacheIsSound
\* A program may stop calling when it likes.
CHECK_DEADLOCK FALSE
