------------------------------ MODULE MCIMDSSE ------------------------------
EXTENDS IMDSSE, EncryptedIndexInv, TLC

CONSTANTS k0, k1, k2,   \* keywords
          d0,           \* the one file of the database
          f1, f2        \* files of the user

MCKeywords  == {k0, k1, k2}
MCUserWords == {k1, k2}
MCFiles     == {d0, f1, f2}
MCDB        == d0 :> {k0, k1}

(* The rows and columns a build picks are random: any index may come out. *)
MCBuilt == [Rows -> SUBSET Cols]

(* The two files the user adds and deletes can be exchanged. *)
MCSymmetry == Permutations({f1, f2})
=============================================================================
