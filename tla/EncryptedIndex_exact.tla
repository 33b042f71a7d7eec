------------------------ MODULE EncryptedIndex_exact ------------------------
(***************************************************************************)
(* Searches show what is there and change nothing, updates change what     *)
(* they were called for: SearchExact from IndexInv, UpdateExact from       *)
(* IndexInv and the meaning of the block on its way to the server.  With   *)
(* the requests of killed clients and the row that waits to be saved       *)
(* (PlainInv) every step is one of PlainIndex, and no ciphertext is ever   *)
(* replaced by one that is not newer.                                      *)
(***************************************************************************)
EXTENDS EncryptedIndex_proofs

(* Saving the row of the last search changes no live row.                  *)
LEMMA SaveRowLive ==
    ASSUME TypeOK, SaveRow
    PROVE  \A r \in Rows : LiveRow(r)' = LiveRow(r)
  <1>1. /\ pend # NoRow /\ pend' = NoRow
        /\ I' = [I EXCEPT ![pend.row] = pend.cells]
    BY DEF SaveRow
  <1>2. I \in [Rows -> [Blocks -> Cell]] /\ pend.row \in Rows
    BY <1>1 DEF TypeOK, ServerTypeOK, Matrix
  <1>3. NumRows \notin Rows
    BY SizesAssumption DEF Rows
  <1> QED
    BY <1>1, <1>2, <1>3 DEF LiveRow, NoRow

-----------------------------------------------------------------------------
(* Searches *)

(* The row a search leaves, in the matrix or still to be saved, has the    *)
(* same plaintext.                                                         *)
LEMMA SearchKeepsTable ==
    ASSUME IndexInv, pc = "search", HandleSearch, late = None
    PROVE  Table' = Table
  <1> DEFINE tau  == Incoming.tau
             r    == tau.row
             next == SearchedRow(tau, I[r], st[r], sBlkCtr)
             files == SearchResult(tau, I[r], st[r], sBlkCtr)
  <1>1. TypeOK /\ Protocol /\ RequestFresh /\ InUse
    BY DEF IndexInv, Loading, InUse
  <1>2. /\ Serve("search")
        /\ Reply([cmd |-> "files", files |-> files])
        /\ IF DiskStorage
           THEN pend' = [row |-> r, cells |-> next] /\ UNCHANGED I
           ELSE I' = [I EXCEPT ![r] = next] /\ UNCHANGED pend
    BY DEF HandleSearch
  <1>3. /\ pend = NoRow /\ Incoming = req /\ req.cmd = "search" /\ rep = None
        /\ ~DecryptAtClient
    BY <1>1, <1>2, Served
  <1>4. /\ arg \in Rows /\ tau = SearchToken(arg, RowCounters) /\ r = arg
    BY <1>1, <1>3 DEF RequestFresh, Protocol, SearchToken
  <1>5. LiveI = I /\ LiveS = st /\ BlockCounters = blkCtr
    BY <1>1, <1>3, LiveStored, CountersInUse
  <1>6. Agree(RowCounters, blkCtr, I, st, sBlkCtr)
    BY <1>1, <1>5 DEF IndexInv, InUseAgrees
  <1>7. /\ kwCtr \in [Rows -> Nat] /\ blkCtr \in [Blocks -> Nat]
        /\ I \in [Rows -> [Blocks -> Cell]]
        /\ sBlkCtr \in [Blocks -> Nat]
    BY <1>1 DEF TypeOK, ClientTypeOK, ServerTypeOK, Matrix
  <1>8. \A b \in Blocks :
           GoodCell(I[arg][b], arg, b, RowCounters[arg], b \in st[arg], sBlkCtr[b])
    BY <1>3, <1>4, <1>6, <1>7 DEF Agree, GoodCell
  <1>9. RowCounters[arg] \in Nat /\ RowCounters[arg] >= 1
    <2>1. kwCtr[arg] \in Nat /\ RowCounters[arg] = kwCtr[arg] - 1
      BY <1>3, <1>4, <1>7 DEF RowCounters, RowCounter, SearchPending
    <2>2. 0 \in Blocks
      BY SizesAssumption DEF Blocks
    <2>3. RowCounters[arg] >= 1
      BY <1>4, <1>6, <2>2 DEF Agree
    <2> QED
      BY <2>1, <2>3
  <1>10. ASSUME NEW b \in Blocks
         PROVE  next[b].pt = I[arg][b].pt
    <2>1. next = SearchedRow(SearchToken(arg, RowCounters), I[arg], st[arg], sBlkCtr)
      BY <1>4
    <2>2. arg \in Rows /\ GoodCell(I[arg][b], arg, b, RowCounters[arg], b \in st[arg], sBlkCtr[b])
      BY <1>4, <1>8
    <2> HIDE DEF next
    <2>3. SearchedRow(SearchToken(arg, RowCounters), I[arg], st[arg], sBlkCtr)[b].pt
             = I[arg][b].pt
      BY <1>9, <2>2, SearchedBits
    <2> QED
      BY <2>1, <2>3
  <1> HIDE DEF tau, r, next, files
  <1>11. PlainRow(next) = PlainRow(I[arg])
    BY <1>10 DEF PlainRow
  <1>12. NumRows \notin Rows
    BY SizesAssumption DEF Rows
  <1>13. \A x \in Rows : /\ LiveRow(x) = I[x]
                         /\ LiveRow(x)' = IF x = arg THEN next ELSE I[x]
    BY <1>2, <1>3, <1>4, <1>7, <1>12 DEF LiveRow, NoRow
  <1> QED
    BY <1>11, <1>13 DEF Table

(* The answer the client takes, or decrypts, is the plaintext of the row.  *)
LEMMA SearchShows ==
    ASSUME IndexInv, SearchDone
    PROVE  arg \in Rows /\ res' = PlainRow(LiveRow(arg))
  <1>1. /\ pc = "search" /\ rep # None
        /\ res' = IF DecryptAtClient
                  THEN DecryptRow(arg, rep.row, kwCtr, blkCtr)
                  ELSE rep.files
    BY DEF SearchDone, TakeAnswer
  <1>2. /\ InUse /\ arg \in Rows
        /\ rep.cmd = IF DecryptAtClient THEN "row" ELSE "files"
    BY <1>1 DEF IndexInv, Loading, Protocol, InUse
  <1>3. CASE ~DecryptAtClient
    BY <1>1, <1>2, <1>3 DEF IndexInv, AnswerFresh
  <1>4. CASE DecryptAtClient
    <2>1. rep.row = LiveRow(arg) /\ LiveRow(arg) = LiveI[arg]
      BY <1>2, <1>4 DEF IndexInv, AnswerFresh, LiveI
    <2>2. RowCounters = kwCtr /\ BlockCounters = blkCtr
      BY <1>1, CountersInUse DEF IndexInv
    <2>3. Agree(kwCtr, blkCtr, LiveI, LiveS, sBlkCtr)
      BY <1>2, <2>2 DEF IndexInv, InUseAgrees
    <2>4. \A b \in Blocks :
             GoodCell(LiveI[arg][b], arg, b, kwCtr[arg], b \in LiveS[arg], blkCtr[b])
      BY <1>2, <2>3 DEF Agree
    <2>5. kwCtr[arg] = 1
      <3>1. 0 \in Blocks
        BY SizesAssumption DEF Blocks
      <3> QED
        BY <1>2, <1>4, <2>3, <3>1 DEF Agree
    <2>6. DecryptRow(arg, LiveI[arg], kwCtr, blkCtr) = PlainRow(LiveI[arg])
      BY <1>2, <2>4, <2>5, DecryptRowGood
    <2> QED
      BY <1>1, <1>2, <1>4, <2>1, <2>6
  <1> QED
    BY <1>2, <1>3, <1>4

(* A step of a search, or of the server while it is under way.             *)
LEMMA SearchStep ==
    ASSUME BenignEnv
    PROVE  IndexInv /\ Next /\ pc = "search" =>
              /\ Table' = Table
              /\ pc' = "menu" => res' = Table[arg]
  <1>1. IndexInv /\ Next /\ pc = "search" => Table' = Table
    <2> SUFFICES ASSUME IndexInv, Next, pc = "search"
                 PROVE  Table' = Table
      OBVIOUS
    <2>1. TypeOK /\ Protocol /\ RequestFresh /\ PendingRow /\ InUse
      BY DEF IndexInv, Loading, InUse
    <2>2. late = None
      BY <2>1 DEF RequestFresh
    <2>3. CASE ClientStep /\ UNCHANGED serverVars
      BY <2>3 DEF serverVars, Table, LiveRow
    <2>4. CASE ServerStep
      <3>1. ASSUME NEW cmd, cmd # "none", Serve(cmd), NEW a, Reply(a)
            PROVE  cmd = IF DecryptAtClient THEN "search_data" ELSE "search"
        BY <2>1, <2>2, <3>1, Served
      <3>2. ~HandleBlockData /\ ~HandleUpdate
        BY <3>1 DEF HandleBlockData, HandleUpdate
      <3>3. ~HandleLoad /\ ~HandleSave
        BY <3>1 DEF HandleLoad, HandleSave
      <3>4. CASE HandleSearch
        BY <2>2, <3>4, SearchKeepsTable
      <3>5. CASE SaveRow
        BY <2>1, <3>5, SaveRowLive DEF Table
      <3>6. CASE HandleSearchData
        BY <3>6 DEF HandleSearchData, serverVars, Table, LiveRow
      <3> QED
        BY <2>4, <3>2, <3>3, <3>4, <3>5, <3>6 DEF ServerStep
    <2>5. CASE ServerRestart
      <3>1. Restart /\ DiskStorage /\ DecryptAtClient
        BY <2>5 DEF ServerRestart, BenignEnv
      <3>2. I' = I /\ pend = NoRow /\ pend' = NoRow
        BY <2>1, <3>1 DEF Restart, RestartedMatrix, PendingRow
      <3> QED
        BY <3>2 DEF Table, LiveRow
    <2> QED
      BY <2>3, <2>4, <2>5 DEF Next
  <1>2. IndexInv /\ Next /\ pc = "search" /\ pc' = "menu" => res' = PlainRow(LiveRow(arg))
    <2> SUFFICES ASSUME IndexInv, Next, pc = "search", pc' = "menu"
                 PROVE  res' = PlainRow(LiveRow(arg))
      OBVIOUS
    <2>1. SearchDone
      BY DEF Next, ClientStep, ServerRestart, clientVars, SearchKeyword, SearchExhausted,
             RequestBlock, SendBlock, UpdateDone, LoadState, LoadDone, SaveState, SendSave,
             Exit, Start, Crash, Gone
    <2> QED
      BY <2>1, SearchShows
  <1>3. IndexInv /\ Next /\ pc = "search" => arg \in Rows
    BY DEF IndexInv, Protocol
  <1> QED
    BY <1>1, <1>2, <1>3 DEF Table

(* What a search shows is the plaintext of the row, whoever decrypts it,   *)
(* and the index says the same after it as before.                         *)
THEOREM SearchesExact ==
    ASSUME BenignEnv
    PROVE  Spec => SearchExact
  <1>1. IndexInv /\ [Next]_vars
          => [pc = "search" => /\ Table' = Table
                               /\ pc' = "menu" => res' = Table[arg]]_vars
    BY SearchStep
  <1> QED
    BY <1>1, IndexInvariant, PTL DEF Spec, SearchExact

-----------------------------------------------------------------------------
(* Updates *)

(* Only addFile and delFile send a block; from then on, until the server   *)
(* has it, neither the call nor the live rows change.                      *)
LEMMA MeantStep ==
    ASSUME BenignEnv, IndexInv, IndexInv', UpdateMeant, [Next]_vars
    PROVE  UpdateMeant'
  <1> SUFFICES ASSUME InUse', req'.cmd = "update"
               PROVE  /\ upd'.col \in BlockCols(arg')
                      /\ \A r \in Rows :
                            req'.data[r].pt
                              = Changed(LiveRow(r)'[arg'].pt, r, upd'.col, upd'.rows)
    BY DEF UpdateMeant
  <1>1. TypeOK /\ Protocol /\ Protocol' /\ RequestFresh /\ PendingRow
    BY DEF IndexInv
  <1>2. pc' = "update" /\ req' # None
    BY <1>1 DEF Protocol, Waiting, None
  (* A step that leaves the call, the request and the live rows alone *)
  <1>3. ASSUME UNCHANGED <<pc, ready, arg, upd, req>>,
               \A r \in Rows : LiveRow(r)' = LiveRow(r)
        PROVE  UpdateMeant'
    BY <1>3 DEF UpdateMeant, InUse
  <1>4. CASE ClientStep /\ UNCHANGED serverVars
    <2>1. PICK b \in Blocks : \E c \in BlockCols(b), W \in SUBSET Rows : SendBlock(b, c, W)
      BY <1>2, <1>4
      DEF ClientStep, SearchKeyword, SearchExhausted, SearchDone, RequestBlock, UpdateDone,
          LoadState, LoadDone, SaveState, SendSave, Exit, Start, Crash, Gone
    <2>2. PICK c \in BlockCols(b), W \in SUBSET Rows : SendBlock(b, c, W)
      BY <2>1
    <2> DEFINE data  == IF BlockSize > 1 THEN rep.data ELSE <<>>
               stBlk == IF BlockSize > 1 THEN rep.st ELSE {}
               tok   == UpdateToken(b, c, W, data, stBlk, kwCtr, blkCtr)
    <2>3. /\ arg' = b /\ upd' = [col |-> c, rows |-> W]
          /\ req' = [cmd |-> "update", blk |-> b, data |-> tok]
          /\ BlockSize > 1 => pc = "fetch" /\ arg = b /\ rep # None
          /\ ~(BlockSize > 1) => pc = "menu" /\ ready
      BY <2>2 DEF SendBlock
    <2>4. /\ InUse /\ pc \in {"menu", "fetch"}
          /\ BlockSize > 1 => rep.cmd = "block"
      BY <1>1, <2>3 DEF IndexInv, Loading, InUse, Protocol
    <2>5. Agree(kwCtr, blkCtr, LiveI, LiveS, sBlkCtr)
      BY <1>1, <2>4, CountersInUse DEF IndexInv, InUseAgrees
    <2>6. \A r \in Rows :
             /\ kwCtr[r] >= 1
             /\ DecryptAtClient => kwCtr[r] = 1
             /\ GoodCell(LiveRow(r)[b], r, b, kwCtr[r], b \in LiveSt(r), blkCtr[b])
      BY <2>5 DEF Agree, LiveI, LiveS
    <2>7. ASSUME BlockSize > 1, NEW r \in Rows
          PROVE  /\ data[r] = LiveRow(r)[b]
                 /\ GoodCell(data[r], r, b, kwCtr[r], r \in stBlk, blkCtr[b])
      <3>1. data[r] = LiveRow(r)[b] /\ (~DecryptAtClient => (r \in stBlk <=> b \in LiveSt(r)))
        BY <2>3, <2>4, <2>7 DEF IndexInv, AnswerFresh
      <3> QED
        BY <2>6, <3>1 DEF GoodCell
    <2>8. kwCtr \in [Rows -> Nat] /\ blkCtr \in [Blocks -> Nat]
      BY <1>1 DEF TypeOK, ClientTypeOK
    <2> HIDE DEF data, stBlk
    <2>9. ASSUME NEW r \in Rows
          PROVE  tok[r].pt = Changed(LiveRow(r)[b].pt, r, c, W)
      <3>1. CASE BlockSize > 1
        <4>1. /\ GoodCell(data[r], r, b, kwCtr[r], r \in stBlk, blkCtr[b])
              /\ kwCtr[r] >= 1 /\ (DecryptAtClient => kwCtr[r] = 1)
          BY <2>6, <2>7, <3>1
        <4>2. tok[r].pt = Changed(data[r].pt, r, c, W)
          BY <2>8, <3>1, <4>1, UpdateBits
        <4> QED
          BY <2>7, <3>1, <4>2
      <3>2. CASE BlockSize = 1
        <4>1. tok[r].pt = Changed({}, r, c, W)
          BY <3>2, UpdateBitsColumn
        <4> HIDE DEF tok
        <4>2. LiveRow(r)[b].pt \subseteq BlockCols(b)
          BY <2>6 DEF GoodCell
        <4>3. NumCols \in Nat
          BY Columns
        <4>4. BlockCols(b) \subseteq {c}
          BY <3>2, <4>3 DEF BlockCols, BlockOf, Cols
        <4> QED
          BY <4>1, <4>2, <4>4 DEF Changed
      <3> QED
        BY <3>1, <3>2, SizesAssumption
    <2> HIDE DEF tok
    <2>10. \A r \in Rows : LiveRow(r)' = LiveRow(r)
      BY <1>4 DEF serverVars, LiveRow
    <2> QED
      BY <2>3, <2>9, <2>10
  <1>5. CASE ServerStep /\ UNCHANGED clientVars
    <2>1. UNCHANGED <<pc, ready, arg, upd>> /\ InUse /\ pc = "update"
      BY <1>2, <1>5 DEF clientVars, InUse
    <2>2. late = None
      BY <1>1, <2>1 DEF RequestFresh
    <2>3. ASSUME NEW a, Reply(a)
          PROVE  FALSE
      BY <1>2, <2>2, <2>3 DEF Reply
    <2>4. SaveRow
      BY <1>5, <2>3
      DEF ServerStep, HandleSearch, HandleSearchData, HandleBlockData, HandleUpdate,
          HandleLoad, HandleSave
    <2>5. req' = req
      BY <2>4 DEF SaveRow
    <2> QED
      BY <1>1, <1>3, <2>1, <2>4, <2>5, SaveRowLive DEF UpdateMeant
  <1>6. CASE ServerRestart /\ UNCHANGED clientVars
    <2>1. Restart /\ DiskStorage /\ DecryptAtClient
      BY <1>6 DEF ServerRestart, BenignEnv
    <2>2. I' = I /\ req' = req /\ pend = NoRow /\ pend' = NoRow
      BY <1>1, <1>2, <2>1 DEF Restart, RestartedMatrix, PendingRow
    <2>3. \A r \in Rows : LiveRow(r)' = LiveRow(r)
      BY <2>2 DEF LiveRow
    <2> QED
      BY <1>3, <1>6, <2>2, <2>3 DEF UpdateMeant, clientVars
  <1>7. CASE UNCHANGED vars
    <2>1. \A r \in Rows : LiveRow(r)' = LiveRow(r)
      BY <1>7 DEF vars, serverVars, LiveRow
    <2> QED
      BY <1>3, <1>7, <2>1 DEF UpdateMeant, vars, chanVars, clientVars
  <1> QED
    BY <1>4, <1>5, <1>6, <1>7 DEF Next

(* In the surroundings the code copes with, the block that is sent differs *)
(* from the one the server has by the pending call.                        *)
LEMMA Meant ==
    ASSUME BenignEnv
    PROVE  Spec => []UpdateMeant
  <1>1. Init => UpdateMeant
    BY DEF Init, ChannelInit, UpdateMeant, None
  <1>2. IndexInv /\ IndexInv' /\ UpdateMeant /\ [Next]_vars => UpdateMeant'
    BY MeantStep
  <1> QED
    BY <1>1, <1>2, IndexInvariant, PTL DEF Spec

(* Writing the block an update carries writes one column of the table.     *)
LEMMA WriteBlockTable ==
    ASSUME NEW r \in Rows, NEW b \in Blocks, NEW c \in BlockCols(b), NEW W, NEW new,
           NEW row \in [Blocks -> Cell],
           \A x \in Blocks : row[x].pt \subseteq BlockCols(x),
           new.pt = Changed(row[b].pt, r, c, W)
    PROVE  PlainRow([row EXCEPT ![b] = new]) = Changed(PlainRow(row), r, c, W)
  <1>1. \A x \in Blocks : x # b => c \notin row[x].pt
    BY DEF BlockCols
  <1>2. \A x \in Blocks : [row EXCEPT ![b] = new][x] = IF x = b THEN new ELSE row[x]
    OBVIOUS
  <1> QED
    BY <1>1, <1>2 DEF PlainRow, Changed

(* An update the running client waits for writes the column it is about.   *)
LEMMA UpdateWrites ==
    ASSUME IndexInv, UpdateMeant, InUse, HandleUpdate
    PROVE  /\ pc = "update" /\ rep = None /\ rep' # None
           /\ Table' = Written(Table, upd.col, upd.rows)
  <1>1. TypeOK /\ Protocol /\ RequestFresh
    BY DEF IndexInv
  <1>2. late = None
    BY <1>1 DEF RequestFresh
  <1>3. Serve("update") /\ Reply([cmd |-> "success"]) /\ UNCHANGED pend
        /\ I' = WriteBlock(I, Incoming.blk, Incoming.data)
    BY DEF HandleUpdate
  <1>4. pend = NoRow /\ Incoming = req /\ req # None /\ req.cmd = "update"
    BY <1>2, <1>3 DEF Serve, Incoming, None
  <1>5. pc = "update" /\ rep = None /\ arg \in Blocks /\ req.blk = arg
    BY <1>1, <1>4 DEF Protocol, Waiting, None
  <1>6. rep' # None
    BY <1>2, <1>3 DEF Reply, None
  <1>7. /\ upd.col \in BlockCols(arg)
        /\ \A r \in Rows :
              req.data[r].pt = Changed(LiveRow(r)[arg].pt, r, upd.col, upd.rows)
    BY <1>4 DEF UpdateMeant
  <1>8. \A r \in Rows : LiveRow(r) = I[r] /\ LiveRow(r)' = I'[r]
    <2>1. NumRows \notin Rows
      BY SizesAssumption DEF Rows
    <2> QED
      BY <1>3, <1>4, <2>1 DEF LiveRow, NoRow
  <1>9. I \in [Rows -> [Blocks -> Cell]]
    BY <1>1 DEF TypeOK, ServerTypeOK, Matrix
  <1>10. \A r \in Rows, b \in Blocks : I[r][b].pt \subseteq BlockCols(b)
    BY <1>8 DEF IndexInv, InUseAgrees, Agree, GoodCell, LiveI
  <1>11. \A r \in Rows : I'[r] = [I[r] EXCEPT ![arg] = req.data[r]]
    BY <1>3, <1>4, <1>5 DEF WriteBlock
  <1>12. ASSUME NEW r \in Rows
         PROVE  PlainRow(LiveRow(r)') = Written(Table, upd.col, upd.rows)[r]
    <2>1. I[r] \in [Blocks -> Cell]
      BY <1>9
    <2>2. req.data[r].pt = Changed(I[r][arg].pt, r, upd.col, upd.rows)
      BY <1>7, <1>8
    <2>3. \A x \in Blocks : I[r][x].pt \subseteq BlockCols(x)
      BY <1>10
    <2>4. PlainRow([I[r] EXCEPT ![arg] = req.data[r]])
            = Changed(PlainRow(I[r]), r, upd.col, upd.rows)
      BY <1>5, <1>7, <2>1, <2>2, <2>3, WriteBlockTable
    <2>5. PlainRow(I'[r]) = Changed(PlainRow(I[r]), r, upd.col, upd.rows)
      BY <1>11, <2>4
    <2> QED
      BY <1>8, <2>5 DEF Written, Table
  <1>13. Table' = Written(Table, upd.col, upd.rows)
    BY <1>12 DEF Table, Written
  <1> QED
    BY <1>5, <1>6, <1>13

LEMMA UpdateStep ==
    ASSUME IndexInv, UpdateMeant, Next, pc = "update", rep = None, rep' # None
    PROVE  Table' = Written(Table, upd.col, upd.rows)
  <1>1. TypeOK /\ Protocol /\ RequestFresh /\ InUse
    BY DEF IndexInv, Loading, InUse
  <1>2. ServerStep
    BY DEF Next, ClientStep, ServerRestart, Restart, SearchKeyword, SearchExhausted,
           SearchDone, RequestBlock, SendBlock, UpdateDone, LoadState, LoadDone,
           SaveState, SendSave, Exit, Start, Crash, Send, TakeAnswer
  <1>3. late = None
    BY <1>1 DEF RequestFresh
  <1>4. ASSUME NEW cmd, cmd # "none", Serve(cmd), NEW a, Reply(a)
        PROVE  cmd = "update"
    BY <1>1, <1>3, <1>4, Served
  <1>5. HandleUpdate
    <2>1. ~HandleSearch /\ ~HandleSearchData /\ ~HandleBlockData
      BY <1>4 DEF HandleSearch, HandleSearchData, HandleBlockData
    <2>2. ~HandleLoad /\ ~HandleSave
      BY <1>4 DEF HandleLoad, HandleSave
    <2>3. ~SaveRow
      BY DEF SaveRow
    <2> QED
      BY <1>2, <2>1, <2>2, <2>3 DEF ServerStep
  <1> QED
    BY <1>1, <1>5, UpdateWrites

(* An answered update has written the column it was called for, and no     *)
(* other: nothing that was read for it was stale when it was written back. *)
THEOREM UpdatesExact ==
    ASSUME BenignEnv
    PROVE  Spec => UpdateExact
  <1>1. IndexInv /\ UpdateMeant /\ [Next]_vars
          => [pc = "update" /\ rep = None /\ rep' # None =>
                 Table' = Written(Table, upd.col, upd.rows)]_vars
    BY UpdateStep
  <1> QED
    BY <1>1, IndexInvariant, Meant, PTL DEF Spec, UpdateExact

-----------------------------------------------------------------------------
(* What a request does to the ciphertexts *)

(* search() replaces a ciphertext only by one of the same bits under the   *)
(* next key.                                                               *)
LEMMA SearchedNewer ==
    ASSUME NEW r \in Rows, NEW kw, kw[r] \in Nat, kw[r] >= 1,
           NEW row, NEW s, NEW bc,
           NEW b \in Blocks, GoodCell(row[b], r, b, kw[r], b \in s, bc[b])
    PROVE  LET new == SearchedRow(SearchToken(r, kw), row, s, bc)
           IN  /\ new[b].pt = row[b].pt
               /\ new[b] = row[b] \/ Newer(new[b], row[b])
  <1> DEFINE tau == SearchToken(r, kw)
             new == SearchedRow(tau, row, s, bc)
  <1>1. OpenBlock(tau, row, s, bc, b) = row[b].pt
    BY OpenGood
  <1>2. CASE NewestKey(tau, s, b)
    BY <1>2 DEF SearchedRow
  <1>3. CASE ~NewestKey(tau, s, b)
    <2>1. new[b] = Encrypt(RowKey(r, kw[r]), Nonce(b, bc[b]), row[b].pt)
      BY <1>1, <1>3 DEF SearchedRow, SearchToken
    <2>2. b \notin s /\ kw[r] > 1
      BY <1>3 DEF NewestKey, SearchToken
    <2>3. row[b].key = RowKey(r, kw[r] - 1) /\ row[b].nonce = Nonce(b, bc[b])
      BY <2>2 DEF GoodCell
    <2> HIDE DEF new
    <2>4. new[b].key[2] = row[b].key[2] + 1
      BY <2>1, <2>3 DEF Encrypt, RowKey
    <2>5. new[b].pt = row[b].pt /\ Newer(new[b], row[b])
      BY <2>1, <2>3, <2>4 DEF Encrypt, Newer
    <2> QED
      BY <2>5 DEF new
  <1> QED
    BY <1>2, <1>3

(* What the running client has sent is meant so. *)
LEMMA RequestMeant ==
    ASSUME IndexInv, UpdateMeant
    PROVE  OrphanSearch(req) /\ OrphanUpdate(req)
  <1>1. TypeOK /\ Protocol /\ Loading
    BY DEF IndexInv
  <1>2. /\ kwCtr \in [Rows -> Nat] /\ blkCtr \in [Blocks -> Nat] /\ sBlkCtr \in [Blocks -> Nat]
        /\ upd \in [col : Cols, rows : SUBSET Rows]
    BY <1>1 DEF TypeOK, ClientTypeOK, ServerTypeOK
  <1>3. 0 \in Blocks
    BY SizesAssumption DEF Blocks
  <1>4. ASSUME req.cmd = "search"
        PROVE  OrphanSearch(req)
    <2>1. pc = "search" /\ ~DecryptAtClient /\ arg \in Rows /\ InUse /\ rep = None
      BY <1>1, <1>4 DEF Protocol, Loading, Waiting, None, InUse
    <2>2. req.tau = SearchToken(arg, RowCounters) /\ req.tau.row = arg
      BY <1>4, <2>1 DEF IndexInv, RequestFresh, SearchToken
    <2>3. Agree(RowCounters, BlockCounters, LiveI, LiveS, sBlkCtr)
      BY <2>1 DEF IndexInv, InUseAgrees
    <2>4. RowCounters[arg] \in Nat /\ RowCounters[arg] >= 1
      <3>1. RowCounters[arg] \in Int
        BY <1>2, <2>1 DEF RowCounters, RowCounter
      <3>2. RowCounters[arg] >= 1
        BY <1>3, <2>1, <2>3 DEF Agree
      <3> QED
        BY <3>1, <3>2
    <2>5. ASSUME NEW b \in Blocks
          PROVE  GoodCell(LiveRow(arg)[b], arg, b, RowCounters[arg], b \in LiveSt(arg), sBlkCtr[b])
      BY <2>1, <2>3 DEF Agree, LiveI, LiveS
    <2>6. ASSUME NEW b \in Blocks
          PROVE  LET new == SearchedRow(req.tau, LiveRow(arg), LiveSt(arg), sBlkCtr)
                 IN  /\ new[b].pt = LiveRow(arg)[b].pt
                     /\ new[b] = LiveRow(arg)[b] \/ Newer(new[b], LiveRow(arg)[b])
      BY <2>1, <2>2, <2>4, <2>5, SearchedNewer
    <2> QED
      BY <2>2, <2>6 DEF OrphanSearch
  <1>5. ASSUME req.cmd = "update"
        PROVE  OrphanUpdate(req)
    <2>1. pc = "update" /\ arg \in Blocks /\ req.blk = arg /\ InUse
      BY <1>1, <1>5 DEF Protocol, Loading, Waiting, None, InUse
    <2>2. /\ rep = None
          /\ \A r \in Rows : GoodCell(req.data[r], r, arg, kwCtr[r], TRUE, blkCtr[arg])
      BY <1>5, <2>1 DEF IndexInv, RequestFresh
    <2>3. BlockCounters[arg] = blkCtr[arg] - 1 /\ RowCounters = kwCtr
      BY <1>1, <2>1, <2>2, CountersInUse DEF BlockCounters, UpdatePending
    <2>4. Agree(kwCtr, BlockCounters, LiveI, LiveS, sBlkCtr)
      BY <2>1, <2>3 DEF IndexInv, InUseAgrees
    <2>5. ASSUME NEW r \in Rows
          PROVE  Newer(req.data[r], LiveRow(r)[arg])
      <3>1. GoodCell(LiveRow(r)[arg], r, arg, kwCtr[r], arg \in LiveSt(r), blkCtr[arg] - 1)
        BY <2>1, <2>3, <2>4 DEF Agree, LiveI, LiveS
      <3>2. GoodCell(req.data[r], r, arg, kwCtr[r], TRUE, blkCtr[arg])
        BY <2>2
      <3>3. kwCtr[r] \in Nat /\ blkCtr[arg] \in Nat
        BY <1>2, <2>1
      <3>4. req.data[r].key[2] = kwCtr[r] /\ req.data[r].nonce[2] = blkCtr[arg]
        BY <3>2 DEF GoodCell, RowKey, Nonce
      <3>5. /\ LiveRow(r)[arg].key[2] \in {kwCtr[r], kwCtr[r] - 1}
            /\ LiveRow(r)[arg].nonce[2] = blkCtr[arg] - 1
        BY <3>1 DEF GoodCell, RowKey, Nonce
      <3> QED
        BY <3>3, <3>4, <3>5 DEF Newer
    <2>6. /\ upd.col \in BlockCols(arg)
          /\ \A r \in Rows :
                req.data[r].pt = Changed(LiveRow(r)[arg].pt, r, upd.col, upd.rows)
      BY <1>5, <2>1 DEF UpdateMeant
    <2> QED
      BY <1>2, <2>1, <2>5, <2>6 DEF OrphanUpdate
  <1> QED
    BY <1>4, <1>5 DEF OrphanSearch, OrphanUpdate

LEMMA IncomingMeant ==
    ASSUME IndexInv, PlainInv
    PROVE  OrphanSearch(Incoming) /\ OrphanUpdate(Incoming)
  BY RequestMeant DEF PlainInv, OrphanMeant, Incoming

(* The live rows, when no row waits to be saved. *)
LEMMA RowsStored ==
    ASSUME pend = NoRow
    PROVE  \A r \in Rows : LiveRow(r) = I[r] /\ LiveSt(r) = st[r]
  <1>1. NumRows \notin Rows
    BY SizesAssumption DEF Rows
  <1> QED
    BY <1>1 DEF NoRow, LiveRow, LiveSt

(* Serving a search leaves the plaintext of every row, and what it puts    *)
(* into the matrix or aside is newer than what is there.                   *)
LEMMA SearchServed ==
    ASSUME IndexInv, PlainInv, HandleSearch
    PROVE  /\ Table' = Table
           /\ CellsPlaced'
           /\ PendingNewer'
           /\ \A r \in Rows, b \in Blocks : I'[r][b] = I[r][b] \/ Newer(I'[r][b], I[r][b])
  <1> DEFINE tau  == Incoming.tau
             x    == tau.row
             next == SearchedRow(tau, I[x], st[x], sBlkCtr)
  <1>1. TypeOK /\ pend = NoRow /\ Incoming.cmd = "search" /\ Incoming \in Request
    BY DEF IndexInv, HandleSearch, Serve, TypeOK, ChannelTypeOK, Incoming, None
  <1>2. x \in Rows
    <2>1. Incoming.tau \in Token
      BY <1>1, RequestFields
    <2> QED
      BY <2>1 DEF Token
  <1>3. I \in [Rows -> [Blocks -> Cell]] /\ NumRows \notin Rows
    BY <1>1, SizesAssumption DEF TypeOK, ServerTypeOK, Matrix, Rows
  <1>4. \A r \in Rows : LiveRow(r) = I[r] /\ LiveSt(r) = st[r]
    BY <1>1, RowsStored
  <1>5. \A b \in Blocks : /\ next[b].pt = I[x][b].pt
                          /\ next[b] = I[x][b] \/ Newer(next[b], I[x][b])
    BY <1>1, <1>2, <1>4, IncomingMeant DEF OrphanSearch
  <1>6. IF DiskStorage
        THEN pend' = [row |-> x, cells |-> next] /\ I' = I
        ELSE I' = [I EXCEPT ![x] = next] /\ pend' = pend
    BY DEF HandleSearch
  <1> HIDE DEF tau, x, next
  <1>7. \A r \in Rows : LiveRow(r)' = IF r = x THEN next ELSE I[r]
    BY <1>1, <1>2, <1>3, <1>6 DEF LiveRow, NoRow
  <1>8. \A r \in Rows, b \in Blocks : LiveRow(r)'[b].pt = LiveRow(r)[b].pt
    BY <1>4, <1>5, <1>7
  <1>9. Table' = Table
    BY <1>8 DEF Table, PlainRow
  <1>10. CellsPlaced'
    BY <1>8 DEF PlainInv, CellsPlaced
  <1>11. PendingNewer'
    BY <1>1, <1>2, <1>5, <1>6 DEF PendingNewer
  <1>12. ASSUME NEW r \in Rows, NEW b \in Blocks
         PROVE  I'[r][b] = I[r][b] \/ Newer(I'[r][b], I[r][b])
    <2>1. I'[r] = I[r] \/ (r = x /\ I'[r] = next)
      BY <1>3, <1>6
    <2> QED
      BY <1>5, <2>1
  <1> QED
    BY <1>9, <1>10, <1>11, <1>12

(* Saving the row of the last search changes no live row, and only newer   *)
(* ciphertexts reach the file.                                             *)
LEMMA RowSaved ==
    ASSUME IndexInv, PlainInv, SaveRow
    PROVE  /\ Table' = Table
           /\ OrphanMeant' /\ CellsPlaced' /\ PendingNewer'
           /\ \A r \in Rows, b \in Blocks : I'[r][b] = I[r][b] \/ Newer(I'[r][b], I[r][b])
  <1>1. /\ TypeOK /\ pend # NoRow /\ pend' = NoRow
        /\ I' = [I EXCEPT ![pend.row] = pend.cells]
        /\ st' = [st EXCEPT ![pend.row] = {}]
        /\ UNCHANGED <<late, sBlkCtr>>
    BY DEF IndexInv, SaveRow
  <1>2. /\ I \in [Rows -> [Blocks -> Cell]] /\ st \in [Rows -> SUBSET Blocks]
        /\ pend.row \in Rows /\ NumRows \notin Rows
    BY <1>1, SizesAssumption DEF TypeOK, ServerTypeOK, Matrix, States, Rows
  <1>3. \A r \in Rows : LiveRow(r)' = LiveRow(r) /\ LiveSt(r)' = LiveSt(r)
    BY <1>1, <1>2 DEF LiveRow, LiveSt, NoRow
  <1>4. late \in Request \cup {None}
    BY <1>1 DEF TypeOK, ChannelTypeOK
  <1>5. late.cmd = "search" => late.tau.row \in Rows
    BY <1>4, RequestFields DEF Token
  <1>6. OrphanSearch(late)'
    BY <1>1, <1>3, <1>5 DEF PlainInv, OrphanMeant, OrphanSearch
  <1>7. OrphanUpdate(late)'
    BY <1>1, <1>3 DEF PlainInv, OrphanMeant, OrphanUpdate
  <1>8. Table' = Table /\ CellsPlaced'
    BY <1>3 DEF Table, PlainInv, CellsPlaced
  <1>9. ASSUME NEW r \in Rows, NEW b \in Blocks
        PROVE  I'[r][b] = I[r][b] \/ Newer(I'[r][b], I[r][b])
    BY <1>1, <1>2 DEF PlainInv, PendingNewer
  <1> QED
    BY <1>1, <1>6, <1>7, <1>8, <1>9 DEF OrphanMeant, PendingNewer

(* Serving an update writes one column.                                    *)
LEMMA UpdateServed ==
    ASSUME IndexInv, PlainInv, HandleUpdate
    PROVE  /\ \E c \in Cols, W \in SUBSET Rows : Table' = Written(Table, c, W)
           /\ CellsPlaced'
           /\ \A r \in Rows, b \in Blocks : I'[r][b] = I[r][b] \/ Newer(I'[r][b], I[r][b])
  <1> DEFINE m == Incoming
  <1>1. /\ TypeOK /\ pend = NoRow /\ pend' = NoRow /\ m.cmd = "update" /\ m \in Request
        /\ I' = WriteBlock(I, m.blk, m.data)
    BY DEF IndexInv, HandleUpdate, Serve, TypeOK, ChannelTypeOK, Incoming, None
  <1>2. m.blk \in Blocks /\ m.data \in [Rows -> Cell]
    BY <1>1, RequestFields
  <1>3. I \in [Rows -> [Blocks -> Cell]]
    BY <1>1 DEF TypeOK, ServerTypeOK, Matrix
  <1>4. \A r \in Rows : LiveRow(r) = I[r] /\ LiveRow(r)' = I'[r]
    <2>1. NumRows \notin Rows
      BY SizesAssumption DEF Rows
    <2> QED
      BY <1>1, <2>1 DEF LiveRow, NoRow
  <1>5. PICK c \in BlockCols(m.blk), W \in SUBSET Rows :
            \A r \in Rows : /\ m.data[r].pt = Changed(I[r][m.blk].pt, r, c, W)
                            /\ Newer(m.data[r], I[r][m.blk])
    BY <1>1, <1>4, IncomingMeant DEF OrphanUpdate
  <1>6. \A r \in Rows : I'[r] = [I[r] EXCEPT ![m.blk] = m.data[r]]
    BY <1>1 DEF WriteBlock
  <1>7. \A r \in Rows, b \in Blocks : I[r][b].pt \subseteq BlockCols(b)
    BY <1>4 DEF PlainInv, CellsPlaced
  <1> HIDE DEF m
  <1>8. ASSUME NEW r \in Rows
        PROVE  PlainRow(LiveRow(r)') = Written(Table, c, W)[r]
    <2>1. I[r] \in [Blocks -> Cell]
      BY <1>3
    <2>2. m.data[r].pt = Changed(I[r][m.blk].pt, r, c, W)
      BY <1>5
    <2>3. \A b \in Blocks : I[r][b].pt \subseteq BlockCols(b)
      BY <1>7
    <2>4. PlainRow([I[r] EXCEPT ![m.blk] = m.data[r]]) = Changed(PlainRow(I[r]), r, c, W)
      BY <1>2, <2>1, <2>2, <2>3, WriteBlockTable
    <2> QED
      BY <1>4, <1>6, <2>4 DEF Written, Table
  <1>9. Table' = Written(Table, c, W)
    BY <1>8 DEF Table, Written
  <1>10. c \in Cols
    BY DEF BlockCols
  <1>11. ASSUME NEW r \in Rows, NEW b \in Blocks
         PROVE  I'[r][b] = IF b = m.blk THEN m.data[r] ELSE I[r][b]
    <2>1. I[r] \in [Blocks -> Cell]
      BY <1>3
    <2> QED
      BY <1>6, <2>1
  <1>12. CellsPlaced'
    <2> SUFFICES ASSUME NEW r \in Rows, NEW b \in Blocks
                 PROVE  I'[r][b].pt \subseteq BlockCols(b)
      BY <1>4 DEF CellsPlaced
    <2>1. CASE b = m.blk
      BY <1>5, <1>7, <1>11, <2>1 DEF Changed
    <2>2. CASE b # m.blk
      BY <1>7, <1>11, <2>2
    <2> QED
      BY <2>1, <2>2
  <1>13. \A r \in Rows, b \in Blocks : I'[r][b] = I[r][b] \/ Newer(I'[r][b], I[r][b])
    BY <1>5, <1>11
  <1> QED
    BY <1>9, <1>10, <1>12, <1>13

(* What a load goes back to is a matrix that was in use.                   *)
LEMMA LoadServed ==
    ASSUME IndexInv, PlainInv, HandleLoad
    PROVE  /\ Table' = IF DiskStorage THEN Table ELSE SavedTable
           /\ CellsPlaced'
  <1>1. /\ TypeOK /\ Protocol /\ pend = NoRow /\ pend' = NoRow /\ Incoming.cmd = "load"
        /\ I' = IF DiskStorage THEN I ELSE saved.I
    BY DEF IndexInv, HandleLoad, Serve
  <1>2. \A r \in Rows : LiveRow(r) = I[r] /\ LiveRow(r)' = I'[r]
    <2>1. NumRows \notin Rows
      BY SizesAssumption DEF Rows
    <2> QED
      BY <1>1, <2>1 DEF LiveRow, NoRow
  <1>3. Table' = IF DiskStorage THEN Table ELSE SavedTable
    BY <1>1, <1>2 DEF Table, SavedTable
  <1>4. CASE DiskStorage
    BY <1>1, <1>2, <1>3, <1>4 DEF PlainInv, CellsPlaced
  <1>5. CASE ~DiskStorage
    <2>1. ~Saving
      <3>1. pc \in {"saved", "save"} => InUse /\ late = None /\ req.cmd # "load"
        <4>1. pc \in {"saved", "save"} => InUse
          BY DEF IndexInv, Loading, InUse
        <4>2. InUse => late = None
          BY DEF IndexInv, RequestFresh
        <4>3. pc \in {"saved", "save"} => req.cmd # "load"
          BY <1>1 DEF Protocol, Waiting, None
        <4> QED
          BY <4>1, <4>2, <4>3
      <3>2. req.cmd = "save" => pc = "save"
        BY <1>1 DEF Protocol, Waiting, None
      <3>3. late.cmd # "save"
        BY <1>1 DEF Incoming, None
      <3> QED
        BY <1>1, <3>1, <3>2, <3>3 DEF Saving, Incoming
    <2>2. Agree(disk.kwCtr, disk.blkCtr, saved.I, saved.st, saved.blkCtr)
      BY <1>5, <2>1 DEF IndexInv, SavedAgrees
    <2>3. \A r \in Rows, b \in Blocks : saved.I[r][b].pt \subseteq BlockCols(b)
      BY <2>2 DEF Agree, GoodCell
    <2>4. CellsPlaced'
      BY <1>1, <1>2, <1>5, <2>3 DEF CellsPlaced
    <2> QED
      BY <1>3, <2>4
  <1> QED
    BY <1>4, <1>5
-----------------------------------------------------------------------------
(* PlainInv, and with it the refinement *)

LEMMA PlainStart ==
    ASSUME NEW M, ChannelInit, ServerInit(M)
    PROVE  PlainInv
  <1>1. pend = NoRow /\ late = None /\ req = None /\ I = EncryptedMatrix(M)
    BY DEF ChannelInit, ServerInit
  <1>2. CellsPlaced
    BY <1>1, RowsStored DEF CellsPlaced, EncryptedMatrix, Encrypt
  <1> QED
    BY <1>1, <1>2 DEF PlainInv, UpdateMeant, OrphanMeant, OrphanSearch, OrphanUpdate,
                      PendingNewer, None

(* A step of the client moves no ciphertext; being killed, it leaves its   *)
(* request behind.                                                         *)
LEMMA PlainClient ==
    ASSUME IndexInv, PlainInv, ClientStep, UNCHANGED serverVars
    PROVE  OrphanMeant' /\ CellsPlaced' /\ PendingNewer' /\ UNCHANGED <<Table, SavedTable>>
  <1>1. \A r : LiveRow(r)' = LiveRow(r) /\ LiveSt(r)' = LiveSt(r)
    BY DEF serverVars, LiveRow, LiveSt
  <1>2. late' = late \/ (late = None /\ late' = req)
    BY DEF ClientStep, SearchKeyword, SearchExhausted, SearchDone, RequestBlock, SendBlock,
           UpdateDone, LoadState, LoadDone, SaveState, SendSave, Exit, Start, Crash,
           Send, TakeAnswer
  <1>3. ASSUME NEW m, OrphanSearch(m), OrphanUpdate(m), late' = m
        PROVE  OrphanMeant'
    <2>1. OrphanSearch(late)'
      BY <1>1, <1>3 DEF OrphanSearch, serverVars
    <2>2. OrphanUpdate(late)'
      BY <1>1, <1>3 DEF OrphanUpdate
    <2> QED
      BY <2>1, <2>2 DEF OrphanMeant
  <1>4. OrphanMeant'
    BY <1>2, <1>3, RequestMeant DEF PlainInv, OrphanMeant
  <1>5. CellsPlaced' /\ PendingNewer'
    BY <1>1 DEF PlainInv, CellsPlaced, PendingNewer, serverVars
  <1>6. UNCHANGED <<Table, SavedTable>>
    BY <1>1 DEF Table, SavedTable, serverVars
  <1> QED
    BY <1>4, <1>5, <1>6

(* The steps of the server that touch neither matrix nor row.              *)
LEMMA MatrixKept ==
    ASSUME UNCHANGED <<I, pend>>
    PROVE  Table' = Table /\ (CellsPlaced => CellsPlaced') /\ (PendingNewer => PendingNewer')
  <1>1. \A r : LiveRow(r)' = LiveRow(r)
    BY DEF LiveRow
  <1> QED
    BY <1>1 DEF Table, CellsPlaced, PendingNewer

(* What a step of the server does to the plaintext, and to what is saved.  *)
LEMMA PlainServer ==
    ASSUME IndexInv, PlainInv, ServerStep
    PROVE  /\ OrphanMeant' /\ CellsPlaced' /\ PendingNewer'
           /\ \/ UNCHANGED <<Table, SavedTable>>
              \/ /\ HandleUpdate /\ saved' = saved
                 /\ \E c \in Cols, W \in SUBSET Rows : Table' = Written(Table, c, W)
              \/ HandleLoad /\ ~DiskStorage /\ Table' = SavedTable /\ saved' = saved
              \/ HandleSave /\ ~DiskStorage /\ Table' = Table /\ SavedTable' = Table
  <1>1. CellsPlaced /\ PendingNewer
    BY DEF PlainInv
  <1>2. ASSUME NEW cmd, Serve(cmd), NEW a, Reply(a), pend' = NoRow
        PROVE  OrphanMeant' /\ PendingNewer'
    <2>1. late' = None
      BY <1>2 DEF Reply
    <2> QED
      BY <1>2, <2>1 DEF OrphanMeant, OrphanSearch, OrphanUpdate, PendingNewer, None
  <1>3. saved' = saved => SavedTable' = SavedTable
    BY DEF SavedTable
  <1>4. CASE HandleSearch
    <2>1. OrphanMeant'
      <3>1. late' = None
        BY <1>4 DEF HandleSearch, Reply
      <3> QED
        BY <3>1 DEF OrphanMeant, OrphanSearch, OrphanUpdate, None
    <2>2. saved' = saved
      BY <1>4 DEF HandleSearch
    <2> QED
      BY <1>3, <1>4, <2>1, <2>2, SearchServed
  <1>5. CASE SaveRow
    <2>1. saved' = saved
      BY <1>5 DEF SaveRow
    <2> QED
      BY <1>3, <1>5, <2>1, RowSaved
  <1>6. CASE HandleSearchData
    <2>1. /\ Serve("search_data") /\ Reply([cmd |-> "row", row |-> I[Incoming.row]])
          /\ UNCHANGED <<I, pend, saved>>
      BY <1>6 DEF HandleSearchData, serverVars
    <2>2. pend' = NoRow
      BY <2>1 DEF Serve
    <2> QED
      BY <1>1, <1>2, <1>3, <2>1, <2>2, MatrixKept
  <1>7. CASE HandleBlockData
    <2>1. /\ Serve("block_data") /\ Reply(BlockAnswer(Incoming.blk))
          /\ UNCHANGED <<I, pend, saved>>
      BY <1>7 DEF HandleBlockData
    <2>2. pend' = NoRow
      BY <2>1 DEF Serve
    <2> QED
      BY <1>1, <1>2, <1>3, <2>1, <2>2, MatrixKept
  <1>8. CASE HandleUpdate
    <2>1. Serve("update") /\ Reply([cmd |-> "success"]) /\ UNCHANGED <<pend, saved>>
      BY <1>8 DEF HandleUpdate
    <2>2. pend' = NoRow
      BY <2>1 DEF Serve
    <2> QED
      BY <1>2, <1>8, <2>1, <2>2, UpdateServed
  <1>9. CASE HandleLoad
    <2>1. Serve("load") /\ Reply([cmd |-> "success"]) /\ UNCHANGED <<pend, saved>>
      BY <1>9 DEF HandleLoad
    <2>2. pend' = NoRow
      BY <2>1 DEF Serve
    <2> QED
      BY <1>2, <1>3, <1>9, <2>1, <2>2, LoadServed
  <1>10. CASE HandleSave
    <2>1. /\ Serve("save") /\ Reply([cmd |-> "success"]) /\ UNCHANGED <<I, pend>>
          /\ saved'.I = IF DiskStorage THEN saved.I ELSE I
      BY <1>10 DEF HandleSave
    <2>2. pend = NoRow /\ pend' = NoRow
      BY <2>1 DEF Serve
    <2>3. SavedTable' = IF DiskStorage THEN SavedTable ELSE Table
      BY <2>1, <2>2, RowsStored DEF SavedTable, Table
    <2> QED
      BY <1>1, <1>2, <1>10, <2>1, <2>2, <2>3, MatrixKept
  <1> QED
    BY <1>4, <1>5, <1>6, <1>7, <1>8, <1>9, <1>10 DEF ServerStep

(* A server is only restarted where all it has is on disk.                 *)
LEMMA PlainRestart ==
    ASSUME BenignEnv, IndexInv, PlainInv, ServerRestart
    PROVE  OrphanMeant' /\ CellsPlaced' /\ PendingNewer' /\ UNCHANGED <<Table, SavedTable, I>>
  <1>1. /\ DiskStorage /\ DecryptAtClient /\ pend = NoRow
        /\ UNCHANGED <<I, pend, saved>> /\ late' = None
    BY DEF ServerRestart, Restart, RestartedMatrix, BenignEnv, IndexInv, PendingRow
  <1>2. OrphanMeant'
    BY <1>1 DEF OrphanMeant, OrphanSearch, OrphanUpdate, None
  <1> QED
    BY <1>1, <1>2, MatrixKept DEF PlainInv, SavedTable

LEMMA PlainKept ==
    ASSUME PlainInv, UNCHANGED <<late, serverVars>>
    PROVE  OrphanMeant' /\ CellsPlaced' /\ PendingNewer'
  <1>1. UNCHANGED <<I, pend, st, sBlkCtr, late>>
    BY DEF serverVars
  <1>2. \A r : LiveRow(r)' = LiveRow(r) /\ LiveSt(r)' = LiveSt(r)
    BY <1>1 DEF LiveRow, LiveSt
  <1>3. OrphanSearch(late)'
    BY <1>1, <1>2 DEF PlainInv, OrphanMeant, OrphanSearch
  <1>4. OrphanUpdate(late)'
    BY <1>1, <1>2 DEF PlainInv, OrphanMeant, OrphanUpdate
  <1> QED
    BY <1>1, <1>3, <1>4, MatrixKept DEF PlainInv, OrphanMeant

LEMMA PlainStep ==
    ASSUME BenignEnv, IndexInv, IndexInv', PlainInv, [Next]_vars
    PROVE  PlainInv'
  <1>1. UpdateMeant'
    BY MeantStep DEF PlainInv
  <1>2. CASE ClientStep /\ UNCHANGED serverVars
    BY <1>1, <1>2, PlainClient DEF PlainInv
  <1>3. CASE ServerStep
    BY <1>1, <1>3, PlainServer DEF PlainInv
  <1>4. CASE ServerRestart
    BY <1>1, <1>4, PlainRestart DEF PlainInv
  <1>5. CASE UNCHANGED vars
    BY <1>1, <1>5, PlainKept DEF PlainInv, vars, chanVars
  <1> QED
    BY <1>2, <1>3, <1>4, <1>5 DEF Next

LEMMA PlainInvariant ==
    ASSUME BenignEnv
    PROVE  Spec => []PlainInv
  <1>1. Init => PlainInv
    BY PlainStart DEF Init
  <1>2. IndexInv /\ IndexInv' /\ PlainInv /\ [Next]_vars => PlainInv'
    BY PlainStep
  <1> QED
    BY <1>1, <1>2, IndexInvariant, PTL DEF Spec

(* One step of client or server is one of the plaintext index, or none.    *)
LEMMA PlainIndexStep ==
    ASSUME BenignEnv, IndexInv, PlainInv, [Next]_vars
    PROVE  \/ Clear!Next
           \/ UNCHANGED <<Table, IF DiskStorage THEN Table ELSE SavedTable, res>>
  <1> DEFINE copy == IF DiskStorage THEN Table ELSE SavedTable
  <1>1. CASE ClientStep /\ UNCHANGED serverVars
    <2>1. UNCHANGED <<Table, SavedTable>>
      BY <1>1, PlainClient
    <2>2. CASE SearchDone
      <3>1. arg \in Rows /\ res' = Table[arg]
        BY <2>2, SearchShows DEF Table
      <3>2. Clear!Search(arg)
        BY <2>1, <3>1 DEF Clear!Search
      <3> QED
        BY <3>1, <3>2 DEF Clear!Next
    <2>3. CASE res' = {}
      BY <2>1, <2>3 DEF Clear!Next, Clear!ClearScreen
    <2>4. CASE res' = res
      BY <2>1, <2>4
    <2> QED
      BY <1>1, <2>2, <2>3, <2>4
      DEF ClientStep, SearchKeyword, SearchExhausted, RequestBlock, SendBlock, UpdateDone,
          LoadState, LoadDone, SaveState, SendSave, Exit, Start, Crash, Gone
  <1>2. CASE ServerStep /\ UNCHANGED clientVars
    <2>1. res' = res
      BY <1>2 DEF clientVars
    <2>2. CASE UNCHANGED <<Table, SavedTable>>
      BY <2>1, <2>2
    <2>3. ASSUME saved' = saved,
                 NEW c \in Cols, NEW W \in SUBSET Rows, Table' = Written(Table, c, W)
          PROVE  Clear!Next
      <3>1. SavedTable' = SavedTable
        BY <2>3 DEF SavedTable
      <3>2. Table' = [r \in Rows |-> (Table[r] \ {c}) \cup (IF r \in W THEN {c} ELSE {})]
        BY <2>3 DEF Written, Changed
      <3>3. Clear!Write(c, W)
        BY <2>1, <3>1, <3>2 DEF Clear!Write
      <3> QED
        BY <2>3, <3>3 DEF Clear!Next
    <2>4. CASE ~DiskStorage /\ Table' = SavedTable /\ saved' = saved
      <3>1. SavedTable' = SavedTable
        BY <2>4 DEF SavedTable
      <3> QED
        BY <2>1, <2>4, <3>1 DEF Clear!Next, Clear!Load
    <2>5. CASE ~DiskStorage /\ Table' = Table /\ SavedTable' = Table
      BY <2>1, <2>5 DEF Clear!Next, Clear!Save
    <2> QED
      BY <1>2, <2>2, <2>3, <2>4, <2>5, PlainServer
  <1>3. CASE ServerRestart /\ UNCHANGED clientVars
    BY <1>3, PlainRestart DEF clientVars
  <1>4. CASE UNCHANGED vars
    <2>1. \A r : LiveRow(r)' = LiveRow(r)
      BY <1>4 DEF vars, serverVars, LiveRow
    <2> QED
      BY <1>4, <2>1 DEF vars, serverVars, clientVars, Table, SavedTable
  <1> QED
    BY <1>1, <1>2, <1>3, <1>4 DEF Next

(* What is encrypted is what the index was built from.                     *)
LEMMA TableStart ==
    ASSUME NEW M \in [Rows -> SUBSET Cols], ServerInit(M)
    PROVE  Table = M /\ (~DiskStorage => SavedTable = M)
  <1>1. /\ pend = NoRow /\ I = EncryptedMatrix(M)
        /\ ~DiskStorage => saved.I = I
    BY DEF ServerInit
  <1>2. ASSUME NEW r \in Rows
        PROVE  PlainRow(I[r]) = M[r]
    <2>1. \A b \in Blocks : I[r][b].pt = M[r] \cap BlockCols(b)
      BY <1>1 DEF EncryptedMatrix, Encrypt
    <2>2. \A c \in Cols : BlockOf(c) \in Blocks
      BY ColumnBlock
    <2> QED
      BY <2>1, <2>2 DEF PlainRow, BlockCols
  <1>3. Table = M
    BY <1>1, <1>2, RowsStored DEF Table
  <1>4. ~DiskStorage => SavedTable = M
    BY <1>1, <1>2 DEF SavedTable
  <1> QED
    BY <1>3, <1>4

(* Client and server together are an index in the clear: every step of     *)
(* searchKeyword, addFile, delFile, saveState and loadState, and of the    *)
(* handlers that serve them, is a step of PlainIndex or leaves it alone.   *)
THEOREM IndexImplementsPlain ==
    ASSUME BenignEnv
    PROVE  Spec => ImplementsPlainIndex
  <1>1. Init => Clear!Init
    BY TableStart, BuiltAssumption DEF Init, ClientInit, Clear!Init
  <1>2. IndexInv /\ PlainInv /\ [Next]_vars
          => [Clear!Next]_<<Table, IF DiskStorage THEN Table ELSE SavedTable, res>>
    BY PlainIndexStep
  <1> QED
    BY <1>1, <1>2, IndexInvariant, PlainInvariant, PTL
    DEF Spec, ImplementsPlainIndex, Clear!Spec

-----------------------------------------------------------------------------
(* Ciphertexts *)

(* On disk storage, where every session but one cut short for good ends    *)
(* with menu 5 (BenignEnv has no "reload" there, so no client follows one  *)
(* that was killed), what search() and updateBlock_data() write is newer   *)
(* than what they overwrite: no key or nonce goes back, and no nonce gets  *)
(* a second plaintext.  The request a killed client left, rows written     *)
(* after the answer and, where the client decrypts, restarted servers are  *)
(* part of it.  A client that loads counters older than the matrix does    *)
(* use nonces again: that is what the hypothesis leaves out.               *)
THEOREM CiphertextsAlwaysAdvance ==
    ASSUME BenignEnv, DiskStorage
    PROVE  Spec => CiphertextsAdvance
  <1>1. IndexInv /\ PlainInv /\ [Next]_vars
          => [\A r \in Rows, b \in Blocks :
                 I'[r][b] # I[r][b] => Newer(I'[r][b], I[r][b])]_vars
    <2> SUFFICES ASSUME IndexInv, PlainInv, Next, NEW r \in Rows, NEW b \in Blocks
                 PROVE  I'[r][b] = I[r][b] \/ Newer(I'[r][b], I[r][b])
      OBVIOUS
    <2>1. CASE HandleSearch
      BY <2>1, SearchServed
    <2>2. CASE SaveRow
      BY <2>2, RowSaved
    <2>3. CASE HandleUpdate
      BY <2>3, UpdateServed
    <2>4. CASE I' = I
      BY <2>4
    <2>5. CASE HandleLoad
      BY <2>5 DEF HandleLoad
    <2>6. CASE ServerRestart
      BY <2>6, PlainRestart
    <2> QED
      BY <2>1, <2>2, <2>3, <2>4, <2>5, <2>6
      DEF Next, ServerStep, HandleSearchData, HandleBlockData, HandleSave, serverVars
  <1> QED
    BY <1>1, IndexInvariant, PlainInvariant, PTL DEF Spec, CiphertextsAdvance

=============================================================================
