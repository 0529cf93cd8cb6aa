--------------------------- MODULE MCProgramCache ---------------------------
(***************************************************************************)
(* ProgramCache with the sources "Ab", "BA", "C", and "C" with a 0 and a   *)
(* letter after it.  The first two have the same hash, whatever its size,  *)
(* and so have the others; "BA" does not compile.                          *)
(***************************************************************************)
EXTENDS ProgramCache, TLC

Ab == <<65, 98>>
BA == <<66, 65>>
C == <<67>>
C0d == <<67, 0, 100>>
TheSources == {Ab, BA, C, C0d}
ThoseThatBuild == {Ab, C, C0d}
Interchangeable == Permutations(Programs) \cup Permutations(Models)
=============================================================================
