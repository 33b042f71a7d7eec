---------------------------- MODULE Server_DSSE -----------------------------
(***************************************************************************)
(* The server process: the loop of Server_DSSE::start and its handlers.    *)
(* With DiskStorage the matrix and the state matrix live in piece files    *)
(* that every handler reads and writes; otherwise they are arrays, and the *)
(* files are the copies loadState and saveState move.                      *)
(***************************************************************************)
EXTENDS Channel

VARIABLES
    I,         \* the encrypted matrix in use: array I, or the piece files
    st,        \* block_state_mat in use: per row the blocks whose bit is set
    sBlkCtr,   \* block_counter_arr
    buf,       \* block_state_mat_update: per row one byte of state bits
    pend,      \* I_search, block_state_mat_search between the reply and the save
    saved      \* the files saveState wrote: matrix, states (unused with DiskStorage),
               \* block counters

serverVars == <<I, st, sBlkCtr, buf, pend, saved>>

NoRow  == [row |-> NumRows]
Bits   == 0 .. ByteSize - 1
States == [Rows -> SUBSET Blocks]

ServerTypeOK ==
    /\ I \in Matrix
    /\ st \in States
    /\ sBlkCtr \in [Blocks -> Nat]
    /\ buf \in [Rows -> SUBSET Bits]
    /\ pend \in [row : Rows, cells : [Blocks -> Cell]] \cup {NoRow}
    /\ saved \in [I : Matrix, st : States, blkCtr : [Blocks -> Nat]]

AllOne   == [b \in Blocks |-> 1]
NoState  == [r \in Rows |-> {}]

NoMatrix == EncryptedMatrix([r \in Rows |-> {}])

(* After the first CMD_LOADSTATE for the plaintext rows M. *)
ServerInit(M) ==
    /\ I = EncryptedMatrix(M)
    /\ st = NoState
    /\ sBlkCtr = AllOne
    /\ buf = NoState
    /\ pend = NoRow
    /\ saved = [I |-> IF DiskStorage THEN NoMatrix ELSE I, st |-> NoState, blkCtr |-> AllOne]

(* What a row holds once the search that was answered has been saved. *)
LiveRow(r) == IF pend.row = r THEN pend.cells ELSE I[r]
LiveSt(r)  == IF pend.row = r THEN {} ELSE st[r]

-----------------------------------------------------------------------------
Serve(cmd) == pend = NoRow /\ Incoming.cmd = cmd

(* searchKeyword.  On disk storage the answer leaves before the row that   *)
(* search() re-encrypted is written back.                                  *)
HandleSearch ==
    /\ Serve("search")
    /\ LET tau  == Incoming.tau
           r    == tau.row
           next == SearchedRow(tau, I[r], st[r], sBlkCtr)
       IN  /\ Reply([cmd   |-> "files",
                     files |-> SearchResult(tau, I[r], st[r], sBlkCtr)])
           /\ IF DiskStorage
              THEN /\ pend' = [row |-> r, cells |-> next]
                   /\ UNCHANGED <<I, st>>
              ELSE /\ I' = [I EXCEPT ![r] = next]
                   /\ st' = [st EXCEPT ![r] = {}]
                   /\ UNCHANGED pend
    /\ UNCHANGED <<sBlkCtr, buf, saved>>

(* saveData_to_file(ROW, ...) at the end of searchKeyword *)
SaveRow ==
    /\ pend # NoRow
    /\ I' = [I EXCEPT ![pend.row] = pend.cells]
    /\ st' = [st EXCEPT ![pend.row] = {}]
    /\ pend' = NoRow
    /\ UNCHANGED <<sBlkCtr, buf, saved, req, late, rep>>

(* getBlock_data(ROW) *)
HandleSearchData ==
    /\ Serve("search_data")
    /\ Reply([cmd |-> "row", row |-> I[Incoming.row]])
    /\ UNCHANGED serverVars

(* On disk storage one byte of state bits per row is read and written at a *)
(* time: the bits of block b and of its neighbours in that byte.           *)
StateByte(b) == {x \in Blocks : x \div ByteSize = b \div ByteSize}
LoadedBits(b) == [r \in Rows |-> {x % ByteSize : x \in st[r] \cap StateByte(b)}]

SavedBits_oneBit(b, bits) ==
    [r \in Rows |-> (st[r] \ StateByte(b)) \cup {b}]

SavedBits(b, bits) ==
    [r \in Rows |-> (st[r] \ StateByte(b))
                        \cup {x \in StateByte(b) : x % ByteSize \in bits[r]}]

StateOnDisk == DiskStorage /\ ~DecryptAtClient

(* getBlock_data(COL): the block of every row, then its state bits *)
BlockBits(b) == IF StateOnDisk THEN LoadedBits(b) ELSE buf

BlockAnswer(b) ==
    [cmd  |-> "block",
     data |-> BlockData(I, b),
     st   |-> IF DecryptAtClient THEN {}
              ELSE IF DiskStorage THEN {r \in Rows : b % ByteSize \in BlockBits(b)[r]}
              ELSE {r \in Rows : b \in st[r]}]

HandleBlockData_noBuffer ==
    /\ Serve("block_data")
    /\ Reply(BlockAnswer(Incoming.blk))
    /\ UNCHANGED serverVars

HandleBlockData ==
    /\ Serve("block_data")
    /\ buf' = BlockBits(Incoming.blk)
    /\ Reply(BlockAnswer(Incoming.blk))
    /\ UNCHANGED <<I, st, sBlkCtr, pend, saved>>

SetBit_whole(bits, b) == [r \in Rows |-> bits[r] \cup {b}]

SetBit(bits, b) == [r \in Rows |-> bits[r] \cup {b % ByteSize}]

(* updateBlock_data.  Only blocks of one column are read again first; for  *)
(* larger ones buf is what the last getBlock_data(COL) left.               *)
HandleUpdate ==
    /\ Serve("update")
    /\ LET b   == Incoming.blk
           now == IF BlockSize = 1 THEN LoadedBits(b) ELSE buf
           set == SetBit(now, b)
       IN  /\ I' = WriteBlock(I, b, Incoming.data)
           /\ IF DecryptAtClient
              THEN UNCHANGED <<st, sBlkCtr, buf>>
              ELSE /\ sBlkCtr' = [sBlkCtr EXCEPT ![b] = @ + 1]
                   /\ IF DiskStorage
                      THEN /\ buf' = set
                           /\ st' = SavedBits(b, set)
                      ELSE /\ st' = [r \in Rows |-> st[r] \cup {b}]
                           /\ UNCHANGED buf
    /\ Reply([cmd |-> "success"])
    /\ UNCHANGED <<pend, saved>>

(* loadState *)
LoadedCounters_none == sBlkCtr

LoadedCounters == IF DecryptAtClient THEN sBlkCtr ELSE saved.blkCtr

HandleLoad ==
    /\ Serve("load")
    /\ IF DiskStorage
       THEN UNCHANGED <<I, st>>
       ELSE /\ I' = saved.I
            /\ st' = IF DecryptAtClient THEN st ELSE saved.st
    /\ sBlkCtr' = LoadedCounters
    /\ Reply([cmd |-> "success"])
    /\ UNCHANGED <<buf, pend, saved>>

(* saveState *)
SavedStates_none == saved.st

SavedStates == IF DiskStorage \/ DecryptAtClient THEN saved.st ELSE st

HandleSave ==
    /\ Serve("save")
    /\ saved' = [I      |-> IF DiskStorage THEN saved.I ELSE I,
                 st     |-> SavedStates,
                 blkCtr |-> IF DecryptAtClient THEN saved.blkCtr ELSE sBlkCtr]
    /\ Reply([cmd |-> "success"])
    /\ UNCHANGED <<I, st, sBlkCtr, buf, pend>>

(* The process is killed and started again: the constructor's values, the  *)
(* files untouched, and a request it had already received is lost.         *)
Unallocated(r, b) == Encrypt(RowKey(r, 0), Nonce(b, 0), Noise)

RestartedMatrix_lost == [r \in Rows |-> [b \in Blocks |-> Unallocated(r, b)]]

RestartedMatrix ==
    IF DiskStorage THEN I ELSE [r \in Rows |-> [b \in Blocks |-> Unallocated(r, b)]]

Restart ==
    /\ I' = RestartedMatrix
    /\ st' = IF DiskStorage THEN st ELSE NoState
    /\ sBlkCtr' = AllOne
    /\ buf' = NoState
    /\ pend' = NoRow
    /\ req' \in {req, None}
    /\ late' = None
    /\ UNCHANGED <<rep, saved>>
=============================================================================
