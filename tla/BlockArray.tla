----------------------------- MODULE BlockArray -----------------------------
(***************************************************************************)
(* What the server's files promise: an array of blocks, each with what it  *)
(* was last encrypted to and its state bit.  An update replaces the blocks *)
(* of one column of the array and sets their bits, a search goes over one  *)
(* row and clears its bits.  A server that is killed while it does one of  *)
(* the two may have done any part of it, and nothing else.                 *)
(***************************************************************************)
CONSTANTS Rows, Contents

VARIABLES blocks,    \* the blocks of a row, which never change
          content,   \* row -> block -> what it was last encrypted to
          bit,       \* row -> block -> its state bit
          answer     \* what was last answered

avars == <<blocks, content, bit, answer>>

Init ==
    /\ content \in [Rows -> [blocks -> Contents]]
    /\ bit = [r \in Rows |-> [b \in blocks |-> FALSE]]
    /\ answer = <<>>

(* The block b of every row.                                               *)
ReadBlock(b) ==
    /\ answer' = <<[r \in Rows |-> content[r][b]], [r \in Rows |-> bit[r][b]]>>
    /\ UNCHANGED <<blocks, content, bit>>

ReadRow(r) ==
    /\ answer' = <<content[r], bit[r]>>
    /\ UNCHANGED <<blocks, content, bit>>

UpdateBlock(b, v, counts) ==
    /\ content' = [r \in Rows |-> [content[r] EXCEPT ![b] = v]]
    /\ bit' = [r \in Rows |-> [bit[r] EXCEPT ![b] = @ \/ counts]]
    /\ UNCHANGED <<blocks, answer>>

(* The search re-encrypts the blocks that have not been updated since the  *)
(* last one, if the keyword was searched for before.                       *)
Searched(r, v, again) ==
    [b \in blocks |-> IF again /\ ~bit[r][b] THEN v ELSE content[r][b]]

SearchRow(r, v, again) ==
    /\ answer' = <<content[r], bit[r]>>
    /\ content' = [content EXCEPT ![r] = Searched(r, v, again)]
    /\ bit' = [bit EXCEPT ![r] = [b \in blocks |-> FALSE]]
    /\ UNCHANGED blocks

(* The array comes back from a kill without all of what was changed last:  *)
(* some blocks of one column or of one row are what they once were.        *)
Lost(where) ==
    /\ content' \in [Rows -> [blocks -> Contents]]
    /\ \A r \in Rows, b \in blocks :
          <<r, b>> \notin where => content'[r][b] = content[r][b] /\ bit'[r][b] = bit[r][b]
    /\ UNCHANGED <<blocks, answer>>

LoseUpdate(b) == Lost(Rows \X {b})
LoseSearch(r) == Lost({r} \X blocks)

Next ==
    \/ \E b \in blocks : ReadBlock(b) \/ LoseUpdate(b)
    \/ \E r \in Rows : ReadRow(r) \/ LoseSearch(r)
    \/ \E b \in blocks, v \in Contents, counts \in BOOLEAN : UpdateBlock(b, v, counts)
    \/ \E r \in Rows, v \in Contents, again \in BOOLEAN : SearchRow(r, v, again)

Spec == Init /\ [][Next]_avars
=============================================================================
