------------------------------ MODULE MCFiles ------------------------------
(***************************************************************************)
(* Small instances of Files.                                               *)
(***************************************************************************)
EXTENDS Files, TLC

CONSTANTS a, b, T1, T2, d1, d2, f1

\* Two descriptions of the same file.
FileTwo == d1 :> f1 @@ d2 :> f1

Alike == Permutations(Tasks) \cup Permutations(Tables) \cup Permutations(Descs)
=============================================================================
