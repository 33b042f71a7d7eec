----------------------------- MODULE PlainIndex -----------------------------
(***************************************************************************)
(* What the encrypted index promises: a table of keyword rows and file     *)
(* columns in the clear, searched and written one column at a time, with a *)
(* saved copy to go back to.  With WriteThrough there is no going back:    *)
(* the copy is the table itself.                                           *)
(***************************************************************************)
CONSTANTS Rows, Cols, Built, WriteThrough

VARIABLES M, copy, ans

Init ==
    /\ M \in Built
    /\ copy = M
    /\ ans = {}

Search(r) ==
    /\ ans' = M[r]
    /\ UNCHANGED <<M, copy>>

ClearScreen ==
    /\ ans' = {}
    /\ UNCHANGED <<M, copy>>

(* File column c now has the keywords of the rows W, and no others. *)
Write(c, W) ==
    /\ M' = [r \in Rows |-> (M[r] \ {c}) \cup (IF r \in W THEN {c} ELSE {})]
    /\ copy' = IF WriteThrough THEN M' ELSE copy
    /\ UNCHANGED ans

Save ==
    /\ copy' = M
    /\ UNCHANGED <<M, ans>>

Load ==
    /\ M' = copy
    /\ UNCHANGED <<copy, ans>>

Next ==
    \/ \E r \in Rows : Search(r)
    \/ ClearScreen
    \/ \E c \in Cols, W \in SUBSET Rows : Write(c, W)
    \/ Save
    \/ Load

Spec == Init /\ [][Next]_<<M, copy, ans>>
=============================================================================
