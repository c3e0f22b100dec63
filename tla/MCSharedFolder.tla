--------------------------- MODULE MCSharedFolder ---------------------------
(***************************************************************************)
(* One file of one directory, for TLC.  Pulls and letters are alike, so    *)
(* states that differ by exchanging them are explored once.                *)
(***************************************************************************)
EXTENDS SharedFolder, TLC

Alike == Permutations(Pulls) \cup Permutations(Letters)
=============================================================================
