----------------------------- MODULE MCFileLock -----------------------------
(***************************************************************************)
(* A small instance of FileLock.                                           *)
(***************************************************************************)
EXTENDS FileLock

CONSTANTS o1, o2, o3

\* Five of the six ranges of three bytes (the last byte alone is what a split
\* leaves): with a length, up to the end, backwards.
AsksThree == {<<0, 1>>, <<2, -2>>, <<0, 0>>, <<1, 1>>, <<1, 0>>}
Alike == Permutations({o1, o2, o3})
=============================================================================
