-------------------------- MODULE MCEncryptedIndex --------------------------
EXTENDS EncryptedIndexInv

(* Row 0 has its keyword in the even columns, row 1 in none. *)
MCBuilt == {[r \in Rows |-> IF r = 0 THEN {c \in Cols : c % 2 = 0} ELSE {}]}
=============================================================================
