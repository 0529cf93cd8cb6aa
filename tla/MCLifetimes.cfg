\* Three contexts, one after another or at once, and up to three handles.
CONSTANTS
  Contexts = {c1, c2, c3}
  MaxHandles = 3
SPECIFICATION Spec
SYMMETRY Interchangeable
INVARIANTS
  OnlyTheCarelessGoAstray
  HandlesStayAtHome
  EndedOnce
\* A program may stop calling when it likes.
CHECK_DEADLOCK FALSE
