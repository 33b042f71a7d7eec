------------------------- MODULE EncryptedIndexInv --------------------------
(***************************************************************************)
(* The inductive invariant behind KeysAgree.                               *)
(***************************************************************************)
EXTENDS EncryptedIndex

(* Only a waiting client has a request or an answer in the channel, never  *)
(* both, and what is there belongs to the call it waits in.                *)
Protocol ==
    /\ pc \notin Waiting => req = None /\ rep = None
    /\ rep # None => req = None /\ late = None
    /\ pc = "search" =>
          /\ arg \in Rows
          /\ DecryptAtClient =>
                /\ req \in {None, [cmd |-> "search_data", row |-> arg]}
                /\ rep # None => rep.cmd = "row"
          /\ ~DecryptAtClient =>
                /\ req # None => req.cmd = "search"
                /\ rep # None => rep.cmd = "files"
    /\ pc = "fetch" =>
          /\ arg \in Blocks
          /\ req \in {None, [cmd |-> "block_data", blk |-> arg]}
          /\ rep # None => rep.cmd = "block"
    /\ pc = "update" =>
          /\ arg \in Blocks
          /\ req # None => req.cmd = "update" /\ req.blk = arg
          /\ rep # None => rep.cmd = "success"
    /\ pc = "load" =>
          /\ req \in {None, [cmd |-> "load"]}
          /\ rep # None => rep.cmd = "success"
    /\ pc = "save" =>
          /\ req \in {None, [cmd |-> "save"]}
          /\ rep # None => rep.cmd = "success"

(* Matrix T with states s and server counters sb can be opened with the    *)
(* client's counters kw and bc.                                            *)
Agree(kw, bc, T, s, sb) ==
    \A r \in Rows, b \in Blocks :
        /\ kw[r] >= 1
        /\ DecryptAtClient => kw[r] = 1
        /\ ~DecryptAtClient => sb[b] = bc[b]
        /\ GoodCell(T[r][b], r, b, kw[r], b \in s[r], bc[b])

LiveI == [r \in Rows |-> LiveRow(r)]
LiveS == [r \in Rows |-> LiveSt(r)]

RowCounters   == [r \in Rows |-> RowCounter(r)]
BlockCounters == [b \in Blocks |-> IF UpdatePending(b) THEN blkCtr[b] - 1 ELSE blkCtr[b]]

InUseAgrees == InUse => Agree(RowCounters, BlockCounters, LiveI, LiveS, sBlkCtr)

(* Only a search of the server-decrypt build on disk storage leaves a row  *)
(* to be saved.                                                            *)
PendingRow ==
    /\ pend # NoRow => DiskStorage /\ ~DecryptAtClient
    /\ late.cmd = "search" => ~DecryptAtClient

(* The buffered state bits are those of block b on disk. *)
Buffered(b) == pend = NoRow /\ (StateOnDisk => buf = LoadedBits(b))

(* What a request carries is made with the counters the client has. *)
RequestFresh ==
    InUse =>
        /\ late = None
        /\ req.cmd = "search" => req.tau = SearchToken(arg, RowCounters)
        /\ req.cmd = "update" =>
              /\ \A r \in Rows : GoodCell(req.data[r], r, arg, kwCtr[r], TRUE, blkCtr[arg])
              /\ BlockSize > 1 => Buffered(arg)
        /\ req.cmd \in {"search", "update"} => rep = None

(* An answer shows the index as it is when the client takes it. *)
AnswerFresh ==
    InUse =>
        /\ rep.cmd = "files" => rep.files = PlainRow(LiveRow(arg))
        /\ rep.cmd = "row" => rep.row = LiveRow(arg)
        /\ rep.cmd = "block" =>
              /\ rep.data = [r \in Rows |-> LiveRow(r)[arg]]
              /\ ~DecryptAtClient => rep.st = {r \in Rows : arg \in LiveSt(r)}
              /\ Buffered(arg)

(* The client's files go with the server's: with the matrix in use while a *)
(* save is on its way to the server, with the saved one otherwise.         *)
Saving == pc = "saved" \/ req.cmd = "save" \/ late.cmd = "save"

SavedAgrees ==
    ~DiskStorage =>
        IF Saving THEN Agree(disk.kwCtr, disk.blkCtr, I, st, sBlkCtr)
                  ELSE Agree(disk.kwCtr, disk.blkCtr, saved.I, saved.st, saved.blkCtr)

Stopped == pc = "off" \/ (pc = "menu" /\ ~ready) \/ pc = "load"

FilesAgree ==
    DiskStorage =>
        /\ Stopped => Agree(disk.kwCtr, disk.blkCtr, LiveI, LiveS, saved.blkCtr)
        /\ pc = "save" /\ rep # None /\ ~DecryptAtClient => saved.blkCtr = sBlkCtr
        /\ late # None => pc = "halted"

Loading ==
    /\ pc = "load" =>
          /\ ready
          /\ kwCtr = disk.kwCtr
          /\ blkCtr = disk.blkCtr
          /\ rep # None => Agree(kwCtr, blkCtr, LiveI, LiveS, sBlkCtr)
    /\ pc \in {"saved", "save"} =>
          /\ ready
          /\ disk.kwCtr = kwCtr
          /\ disk.blkCtr = blkCtr
    /\ pc \in {"search", "fetch", "update"} => ready
    /\ pc \in {"off", "halted"} => ~ready

(* All of this together is inductive: messages, buffers and files that the *)
(* handlers of client and server left behind agree with the index in use.  *)
IndexInv ==
    /\ TypeOK
    /\ Protocol
    /\ PendingRow
    /\ InUseAgrees
    /\ RequestFresh
    /\ AnswerFresh
    /\ SavedAgrees
    /\ FilesAgree
    /\ Loading

(* The block on its way to the server is the one it has, but for what the  *)
(* pending call changes.                                                   *)
UpdateMeant ==
    InUse /\ req.cmd = "update" =>
        /\ upd.col \in BlockCols(arg)
        /\ \A r \in Rows :
              req.data[r].pt = Changed(LiveRow(r)[arg].pt, r, upd.col, upd.rows)

(* A request a killed client left behind does no harm to the plaintext: a  *)
(* search leaves a row as it is, an update writes one column, and what     *)
(* either puts into the matrix is newer than what it replaces.             *)
OrphanSearch(m) ==
    m.cmd = "search" =>
        \A b \in Blocks :
            LET old == LiveRow(m.tau.row)
                new == SearchedRow(m.tau, old, LiveSt(m.tau.row), sBlkCtr)
            IN  /\ new[b].pt = old[b].pt
                /\ new[b] = old[b] \/ Newer(new[b], old[b])

OrphanUpdate(m) ==
    m.cmd = "update" =>
        \E c \in BlockCols(m.blk), W \in SUBSET Rows :
            \A r \in Rows :
                /\ m.data[r].pt = Changed(LiveRow(r)[m.blk].pt, r, c, W)
                /\ Newer(m.data[r], LiveRow(r)[m.blk])

OrphanMeant == OrphanSearch(late) /\ OrphanUpdate(late)

(* A ciphertext holds columns of its own block, in use or not.             *)
CellsPlaced == \A r \in Rows, b \in Blocks : LiveRow(r)[b].pt \subseteq BlockCols(b)

(* The row that waits to be saved is newer than the one it will replace.   *)
PendingNewer ==
    pend # NoRow =>
        \A b \in Blocks :
            pend.cells[b] = I[pend.row][b] \/ Newer(pend.cells[b], I[pend.row][b])

(* With IndexInv, inductive: what ImplementsPlainIndex and                 *)
(* CiphertextsAdvance rest on.                                             *)
PlainInv == UpdateMeant /\ OrphanMeant /\ CellsPlaced /\ PendingNewer

(* The surroundings the code copes with: the saved state is loaded only    *)
(* where the server goes back to it too, no client dies between its own    *)
(* save and the server's, and a server that decrypts is not restarted.     *)
BenignEnv ==
    /\ "torn_save" \notin Env
    /\ DiskStorage => "reload" \notin Env
    /\ "restart" \in Env => DiskStorage /\ DecryptAtClient
=============================================================================
