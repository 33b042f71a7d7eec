--------------------------- MODULE EncryptedIndex ---------------------------
(***************************************************************************)
(* Client_DSSE and Server_DSSE together: what the counters, the state bits *)
(* and the ciphertexts do while keywords are searched and files added and  *)
(* deleted.  Which row and column a call is about is left open; a file's   *)
(* column lies in the block that was requested for it.                     *)
(***************************************************************************)
EXTENDS Client_DSSE, Server_DSSE

CONSTANT Built   \* the plaintext indexes a session may start from: rows to columns

ASSUME BuiltAssumption == Built \subseteq [Rows -> SUBSET Cols]

vars == <<chanVars, clientVars, serverVars>>

Init ==
    /\ ChannelInit
    /\ ClientInit
    /\ \E M \in Built : ServerInit(M)

ClientStep ==
    \/ \E r \in Rows : SearchKeyword(r) \/ SearchExhausted(r)
    \/ SearchDone
    \/ \E b \in Blocks : RequestBlock(b)
    \/ \E b \in Blocks : \E c \in BlockCols(b), W \in SUBSET Rows : SendBlock(b, c, W)
    \/ UpdateDone
    \/ LoadState
    \/ LoadDone
    \/ SaveState
    \/ SendSave
    \/ Exit
    \/ Start
    \/ Crash

ServerStep ==
    \/ HandleSearch
    \/ SaveRow
    \/ HandleSearchData
    \/ HandleBlockData
    \/ HandleUpdate
    \/ HandleLoad
    \/ HandleSave

ServerRestart == "restart" \in Env /\ Restart

Next ==
    \/ ClientStep /\ UNCHANGED serverVars
    \/ (ServerStep \/ ServerRestart) /\ UNCHANGED clientVars

Spec == Init /\ [][Next]_vars

(* The server's loop and the client's blocking receive go on running; what *)
(* the user asks for next, if anything, is up to the user.                 *)
FairSpec ==
    /\ Spec
    /\ WF_vars(ServerStep /\ UNCHANGED clientVars)
    /\ WF_vars((SearchDone \/ UpdateDone \/ LoadDone \/ Exit) /\ UNCHANGED serverVars)
    /\ WF_vars(SendSave /\ UNCHANGED serverVars)
    /\ WF_vars((pc = "fetch" /\ \E b \in Blocks : \E c \in BlockCols(b), W \in SUBSET Rows :
                    SendBlock(b, c, W)) /\ UNCHANGED serverVars)

(* Messages, arrays and files hold what their use expects; so does the     *)
(* state byte of a row, block_state_mat_update: it has ByteSize bits,      *)
(* whatever block it is filled for.                                        *)
TypeOK == ChannelTypeOK /\ ClientTypeOK /\ ServerTypeOK

-----------------------------------------------------------------------------
(* Agreement between the counters, the state bits and the ciphertexts *)

(* The counter a row's ciphertexts go by: a search moves the client's      *)
(* counter before the server has handled it.                               *)
SearchPending(r) == pc = "search" /\ ~DecryptAtClient /\ arg = r /\ rep = None
RowCounter(r) == IF SearchPending(r) THEN kwCtr[r] - 1 ELSE kwCtr[r]

UpdatePending(b) == pc = "update" /\ arg = b /\ rep = None

(* A ciphertext of row r, block b is made with the row key the counter and *)
(* the state bit say, and with the block's counter.                        *)
GoodCell(cell, r, b, counter, bit, bctr) ==
    /\ cell.key = RowKey(r, IF bit \/ counter = 1 THEN counter ELSE counter - 1)
    /\ cell.nonce = Nonce(b, bctr)
    /\ cell.pt \subseteq BlockCols(b)

(* The client runs on counters that belong to the matrix in use. *)
InUse == ready /\ pc # "load"

(* Every block can be opened with what client and server know, whatever    *)
(* searches and updates have gone by: what search(), addToken() and        *)
(* delToken() decrypt is what was encrypted there last.                    *)
KeysAgree ==
    InUse =>
        \A r \in Rows, b \in Blocks :
            /\ RowCounter(r) >= 1
            /\ GoodCell(LiveRow(r)[b], r, b, RowCounter(r),
                        b \in LiveSt(r),
                        IF UpdatePending(b) THEN blkCtr[b] - 1 ELSE blkCtr[b])

(* The plaintext rows                                                      *)
PlainRow(row) == UNION {row[b].pt : b \in Blocks}
Table         == [r \in Rows |-> PlainRow(LiveRow(r))]

(* A search shows exactly the columns whose plaintext bit is set, and the  *)
(* row that search() encrypts anew, or is still to be saved, holds the     *)
(* same bits: what searchKeyword() prints and what it leaves behind was    *)
(* never decrypted with a stale key.                                       *)
SearchExact ==
    [][pc = "search" =>
            /\ Table' = Table
            /\ pc' = "menu" => res' = Table[arg]]_vars

(* When the server has answered an update, the plaintext rows differ from  *)
(* those before by what addFile() or delFile() was called for and nothing  *)
(* else: the column fetched, decrypted, changed and encrypted again at the *)
(* client is still the one the server has.                                 *)
Changed(pt, r, c, W) == (pt \ {c}) \cup (IF r \in W THEN {c} ELSE {})
Written(T, c, W)     == [r \in Rows |-> Changed(T[r], r, c, W)]

UpdateExact ==
    [][pc = "update" /\ rep = None /\ rep' # None =>
            Table' = Written(Table, upd.col, upd.rows)]_vars

(* With blocks of several columns updateBlock_data() writes back the state *)
(* byte the last getBlock_data() read: it is the one on disk.              *)
BufferFresh ==
    InUse /\ StateOnDisk /\ BlockSize > 1 /\ req.cmd = "update" =>
        buf = LoadedBits(req.blk)

(***************************************************************************)
(* Opened, the index is a PlainIndex: client and server together search    *)
(* and write the plaintext rows as if nothing were encrypted, split or     *)
(* cached between them.                                                    *)
(***************************************************************************)
SavedTable == [r \in Rows |-> PlainRow(saved.I[r])]

Clear == INSTANCE PlainIndex WITH
            M <- Table,
            copy <- IF DiskStorage THEN Table ELSE SavedTable,
            ans <- res,
            WriteThrough <- DiskStorage

ImplementsPlainIndex == Clear!Spec

(***************************************************************************)
(* A ciphertext is only ever replaced by one with a newer key or nonce:    *)
(* the bits change only with the block counter, and a new key for the same *)
(* nonce carries the same bits.                                            *)
(***************************************************************************)
Newer(new, old) ==
    \/ /\ new.nonce = old.nonce
       /\ new.pt = old.pt
       /\ new.key[2] = old.key[2] + 1
    \/ /\ new.nonce[2] = old.nonce[2] + 1
       /\ new.key[2] >= old.key[2]

CiphertextsAdvance ==
    [][\A r \in Rows, b \in Blocks :
         I'[r][b] # I[r][b] => Newer(I'[r][b], I[r][b])]_vars

(* Every call of the client is answered and the menu, or the end after a   *)
(* save, is reached again, though the client blocks in recv() without a    *)
(* timeout.                                                                *)
RequestAnswered == pc \in Waiting ~> pc \in {"menu", "off"}
=============================================================================
