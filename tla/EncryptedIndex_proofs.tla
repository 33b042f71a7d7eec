----------------------- MODULE EncryptedIndex_proofs ------------------------
(***************************************************************************)
(* In the surroundings the code copes with, whatever searches and updates  *)
(* go by, every ciphertext can be opened with the counters and state bits  *)
(* client and server keep.                                                 *)
(***************************************************************************)
EXTENDS EncryptedIndex_types

(* A search with the row's token opens every block ...                     *)
LEMMA OpenGood ==
    ASSUME NEW r \in Rows, NEW kw, kw[r] \in Nat, kw[r] >= 1, NEW row, NEW s, NEW bc,
           NEW b \in Blocks, GoodCell(row[b], r, b, kw[r], b \in s, bc[b])
    PROVE  OpenBlock(SearchToken(r, kw), row, s, bc, b) = row[b].pt
  <1> DEFINE tau == SearchToken(r, kw)
  <1>1. /\ tau.row_key = RowKey(r, kw[r])
        /\ tau.row_old_key = RowKey(r, kw[r] - 1)
        /\ tau.hasRow_key <=> kw[r] > 1
    BY DEF SearchToken
  <1> HIDE DEF tau
  <1>2. NewestKey(tau, s, b) <=> b \in s \/ kw[r] = 1
    BY <1>1 DEF NewestKey
  <1>3. /\ row[b].key = IF NewestKey(tau, s, b) THEN tau.row_key ELSE tau.row_old_key
        /\ row[b].nonce = Nonce(b, bc[b])
    BY <1>1, <1>2 DEF GoodCell
  <1>4. OpenBlock(tau, row, s, bc, b) = row[b].pt
    BY <1>3 DEF OpenBlock, Decrypt
  <1> QED
    BY <1>4 DEF tau

(* ... leaves its bits as they were ...                                    *)
LEMMA SearchedBits ==
    ASSUME NEW r \in Rows, NEW kw, kw[r] \in Nat, kw[r] >= 1, NEW row, NEW s, NEW bc,
           NEW b \in Blocks, GoodCell(row[b], r, b, kw[r], b \in s, bc[b])
    PROVE  SearchedRow(SearchToken(r, kw), row, s, bc)[b].pt = row[b].pt
  <1>1. OpenBlock(SearchToken(r, kw), row, s, bc, b) = row[b].pt
    BY OpenGood
  <1> QED
    BY <1>1 DEF SearchedRow, Encrypt

(* ... and leaves all blocks under the token's key: the newest but one     *)
(* when the counter has moved.                                             *)
LEMMA SearchGood ==
    ASSUME NEW r \in Rows, NEW kw, kw[r] \in Nat, kw[r] >= 1,
           NEW row \in [Blocks -> Cell], NEW s, NEW bc \in [Blocks -> Nat],
           \A b \in Blocks : GoodCell(row[b], r, b, kw[r], b \in s, bc[b])
    PROVE  /\ SearchResult(SearchToken(r, kw), row, s, bc)
                 = PlainRow(SearchedRow(SearchToken(r, kw), row, s, bc))
           /\ \A b \in Blocks :
                 GoodCell(SearchedRow(SearchToken(r, kw), row, s, bc)[b],
                          r, b, kw[r] + 1, FALSE, bc[b])
  <1> DEFINE tau  == SearchToken(r, kw)
             next == SearchedRow(tau, row, s, bc)
  <1>1. ASSUME NEW b \in Blocks
        PROVE  /\ OpenBlock(tau, row, s, bc, b) = row[b].pt
               /\ next[b].pt = row[b].pt
               /\ GoodCell(next[b], r, b, kw[r] + 1, FALSE, bc[b])
    <2>1. GoodCell(row[b], r, b, kw[r], b \in s, bc[b])
      OBVIOUS
    <2>2. /\ tau.row_key = RowKey(r, kw[r])
          /\ tau.row_old_key = RowKey(r, kw[r] - 1)
          /\ tau.hasRow_key <=> kw[r] > 1
      BY DEF SearchToken
    <2>3. OpenBlock(tau, row, s, bc, b) = row[b].pt
      BY <2>1, OpenGood
    <2> HIDE DEF tau
    <2>4. NewestKey(tau, s, b) <=> b \in s \/ kw[r] = 1
      BY <2>2 DEF NewestKey
    <2>5. /\ row[b].key = IF NewestKey(tau, s, b) THEN tau.row_key ELSE tau.row_old_key
          /\ row[b].nonce = Nonce(b, bc[b])
      BY <2>1, <2>2, <2>4 DEF GoodCell
    <2>6. next[b] = IF NewestKey(tau, s, b) THEN row[b]
                    ELSE Encrypt(tau.row_key, Nonce(b, bc[b]), row[b].pt)
      BY <2>3 DEF SearchedRow
    <2> HIDE DEF next
    <2>7. next[b].pt = row[b].pt
      BY <2>6 DEF Encrypt
    <2>8. next[b].key = RowKey(r, kw[r]) /\ next[b].nonce = Nonce(b, bc[b])
      BY <2>2, <2>5, <2>6 DEF Encrypt
    <2>9. row[b].pt \subseteq BlockCols(b)
      BY <2>1 DEF GoodCell
    <2>10. kw[r] + 1 # 1 /\ kw[r] + 1 - 1 = kw[r]
      OBVIOUS
    <2> QED
      BY <2>3, <2>7, <2>8, <2>9, <2>10 DEF GoodCell
  <1>2. SearchResult(tau, row, s, bc) = PlainRow(next)
    <2> HIDE DEF tau, next
    <2> QED
      BY <1>1 DEF SearchResult, PlainRow
  <1> QED
    BY <1>1, <1>2

(* The client-decrypt search opens every block too.                        *)
LEMMA DecryptRowGood ==
    ASSUME NEW r \in Rows, NEW kw, kw[r] = 1, NEW row, NEW s, NEW bc,
           \A b \in Blocks : GoodCell(row[b], r, b, kw[r], b \in s, bc[b])
    PROVE  DecryptRow(r, row, kw, bc) = PlainRow(row)
  BY DEF DecryptRow, PlainRow, GoodCell, Decrypt

(* addToken opens the fetched block with the counter it goes by.           *)
LEMMA FetchedOpened ==
    ASSUME NEW r \in Rows, NEW b \in Blocks, NEW s, NEW D,
           NEW kw \in [Rows -> Nat], NEW bc \in [Blocks -> Nat],
           kw[r] >= 1, DecryptAtClient => kw[r] = 1,
           GoodCell(D[r], r, b, kw[r], r \in s, bc[b])
    PROVE  Decrypt(D[r], RowKey(r, OldCounter(r, s, kw)), Nonce(b, bc[b])) = D[r].pt
  <1>1. OldCounter(r, s, kw) = IF r \in s \/ kw[r] = 1 THEN kw[r] ELSE kw[r] - 1
    <2>1. kw[r] \in Nat
      OBVIOUS
    <2> QED
      BY <2>1 DEF OldCounter
  <1> QED
    BY <1>1 DEF GoodCell, Decrypt

(* The update token changes the bit of column c only ...                   *)
LEMMA UpdateBits ==
    ASSUME NEW r \in Rows, NEW b \in Blocks, NEW c \in BlockCols(b), NEW W, NEW s, NEW D,
           NEW kw \in [Rows -> Nat], NEW bc \in [Blocks -> Nat],
           kw[r] >= 1, DecryptAtClient => kw[r] = 1, BlockSize > 1,
           GoodCell(D[r], r, b, kw[r], r \in s, bc[b])
    PROVE  UpdateToken(b, c, W, D, s, kw, bc)[r].pt = Changed(D[r].pt, r, c, W)
  <1>1. TokenBlock(b, c) = b /\ TokenCol(b, c) = c
    BY Columns
  <1>2. Decrypt(D[r], RowKey(r, OldCounter(r, s, kw)), Nonce(b, bc[b])) = D[r].pt
    BY FetchedOpened
  <1>3. BlockSize # 1
    BY SizesAssumption
  <1> QED
    BY <1>1, <1>2, <1>3 DEF UpdateToken, Encrypt, Changed

LEMMA UpdateBitsColumn ==
    ASSUME NEW r \in Rows, NEW b \in Blocks, NEW c \in BlockCols(b), NEW W, NEW s, NEW D,
           NEW kw, NEW bc, BlockSize = 1
    PROVE  UpdateToken(b, c, W, D, s, kw, bc)[r].pt = Changed({}, r, c, W)
  <1>1. TokenBlock(b, c) = b /\ TokenCol(b, c) = c
    BY Columns
  <1> QED
    BY <1>1 DEF UpdateToken, Encrypt, Changed

(* ... and its block is good for the block's next counter.                 *)
LEMMA UpdateGood ==
    ASSUME NEW b \in Blocks, NEW c \in BlockCols(b), NEW W, NEW s,
           NEW kw \in [Rows -> Nat], NEW bc \in [Blocks -> Nat], NEW D,
           \A r \in Rows : kw[r] >= 1 /\ (DecryptAtClient => kw[r] = 1),
           BlockSize > 1 =>
               \A r \in Rows : GoodCell(D[r], r, b, kw[r], r \in s, bc[b])
    PROVE  \A r \in Rows :
              GoodCell(UpdateToken(b, c, W, D, s, kw, bc)[r], r, b, kw[r], TRUE, bc[b] + 1)
  <1> TAKE r \in Rows
  <1> DEFINE cell == UpdateToken(b, c, W, D, s, kw, bc)[r]
  <1>1. TokenBlock(b, c) = b /\ TokenCol(b, c) = c
    BY Columns
  <1>2. cell.key = RowKey(r, kw[r]) /\ cell.nonce = Nonce(b, bc[b] + 1)
    BY <1>1 DEF UpdateToken, Encrypt
  <1>3. CASE BlockSize > 1
    <2>1. GoodCell(D[r], r, b, kw[r], r \in s, bc[b]) /\ kw[r] >= 1
          /\ (DecryptAtClient => kw[r] = 1)
      BY <1>3
    <2>2. cell.pt = Changed(D[r].pt, r, c, W)
      BY <1>3, <2>1, UpdateBits
    <2>3. cell.pt \subseteq BlockCols(b)
      BY <2>1, <2>2 DEF GoodCell, Changed
    <2> QED
      BY <1>2, <2>3 DEF GoodCell
  <1>4. CASE BlockSize = 1
    <2>1. cell.pt = Changed({}, r, c, W)
      BY <1>4, UpdateBitsColumn
    <2>2. cell.pt \subseteq BlockCols(b)
      BY <2>1 DEF Changed
    <2> QED
      BY <1>2, <2>2 DEF GoodCell
  <1>5. BlockSize > 1 \/ BlockSize = 1
    BY SizesAssumption
  <1> QED
    BY <1>3, <1>4, <1>5

(* Reading a byte of state bits, setting block b's bit in it and writing   *)
(* it back sets that bit and leaves the others.                            *)
LEMMA StateBits ==
    ASSUME NEW b \in Blocks, st \in States
    PROVE  /\ SavedBits(b, [r \in Rows |-> LoadedBits(b)[r] \cup {b % ByteSize}])
                = [r \in Rows |-> st[r] \cup {b}]
           /\ {r \in Rows : b % ByteSize \in LoadedBits(b)[r]} = {r \in Rows : b \in st[r]}
  <1>1. ASSUME NEW x \in StateByte(b), NEW y \in StateByte(b), x % ByteSize = y % ByteSize
        PROVE  x = y
    <2>1. x \in Nat /\ y \in Nat
      BY DEF StateByte, Blocks
    <2>2. x \div ByteSize = y \div ByteSize
      BY DEF StateByte
    <2> QED
      BY <1>1, <2>1, <2>2, SizesAssumption, DivisionUnique
  <1>2. b \in StateByte(b) /\ StateByte(b) \subseteq Blocks
    BY DEF StateByte
  <1>3. \A x \in StateByte(b) : x % ByteSize = b % ByteSize => x = b
    BY <1>1, <1>2
  <1>4. ASSUME NEW r \in Rows, NEW x \in StateByte(b)
        PROVE  x % ByteSize \in LoadedBits(b)[r] <=> x \in st[r]
    BY <1>1, <1>4 DEF LoadedBits
  <1>5. ASSUME NEW r \in Rows
        PROVE  (st[r] \ StateByte(b))
                  \cup {x \in StateByte(b) : x % ByteSize \in LoadedBits(b)[r] \cup {b % ByteSize}}
                = st[r] \cup {b}
    <2> DEFINE B == {x \in StateByte(b) :
                          x % ByteSize \in LoadedBits(b)[r] \cup {b % ByteSize}}
    <2>1. \A x \in StateByte(b) : x \in B <=> x \in st[r] \/ x = b
      BY <1>3, <1>2, <1>4
    <2>2. B \subseteq StateByte(b)
      OBVIOUS
    <2> HIDE DEF B
    <2>3. (st[r] \ StateByte(b)) \cup B = st[r] \cup {b}
      BY <1>2, <2>1, <2>2
    <2> QED
      BY <2>3 DEF B
  <1>6. {r \in Rows : b % ByteSize \in LoadedBits(b)[r]} = {r \in Rows : b \in st[r]}
    BY <1>2, <1>4
  <1> DEFINE set == [r \in Rows |-> LoadedBits(b)[r] \cup {b % ByteSize}]
  <1>7. \A r \in Rows : set[r] = LoadedBits(b)[r] \cup {b % ByteSize}
    OBVIOUS
  <1> HIDE DEF set
  <1>8. SavedBits(b, set) = [r \in Rows |-> st[r] \cup {b}]
    BY <1>5, <1>7 DEF SavedBits
  <1> QED
    BY <1>6, <1>8 DEF set

-----------------------------------------------------------------------------
(* The inductive invariant *)

(* With no row waiting to be saved the live rows are the stored ones.      *)
LEMMA LiveStored ==
    ASSUME TypeOK
    PROVE  /\ pend = NoRow => LiveI = I /\ LiveS = st
           /\ LiveI \in Matrix
           /\ LiveS \in States
  <1>1. NumRows \notin Rows
    BY SizesAssumption DEF Rows
  <1>2. pend = NoRow => \A r \in Rows : LiveRow(r) = I[r] /\ LiveSt(r) = st[r]
    BY <1>1 DEF NoRow, LiveRow, LiveSt
  <1>3. I \in [Rows -> [Blocks -> Cell]] /\ st \in [Rows -> SUBSET Blocks]
    BY DEF TypeOK, ServerTypeOK, Matrix, States
  <1>4. \A r \in Rows : LiveRow(r) \in [Blocks -> Cell] /\ LiveSt(r) \in SUBSET Blocks
    BY <1>1, <1>3 DEF TypeOK, ServerTypeOK, LiveRow, LiveSt, NoRow
  <1>5. pend = NoRow => LiveI = I /\ LiveS = st
    BY <1>2, <1>3 DEF LiveI, LiveS
  <1> QED
    BY <1>4, <1>5 DEF LiveI, LiveS, Matrix, States

(* The counters the index goes by are the client's, but for the call that  *)
(* is still unanswered.                                                    *)
LEMMA CountersInUse ==
    ASSUME TypeOK
    PROVE  /\ pc # "search" \/ DecryptAtClient \/ rep # None => RowCounters = kwCtr
           /\ pc # "update" \/ rep # None => BlockCounters = blkCtr
  BY DEF TypeOK, ClientTypeOK, RowCounters, RowCounter, SearchPending, BlockCounters,
         UpdatePending

(* A freshly built index agrees with the counters the client starts from.  *)
LEMMA IndexStart ==
    ASSUME NEW M \in [Rows -> SUBSET Cols], ChannelInit, ClientInit, ServerInit(M)
    PROVE  IndexInv
  <1>1. TypeOK /\ Protocol
    BY TypeStart DEF TypeInv
  <1>2. /\ pc = "menu" /\ ready /\ req = None /\ rep = None /\ late = None
        /\ pend = NoRow
        /\ kwCtr = [r \in Rows |-> 1] /\ blkCtr = [b \in Blocks |-> 1]
        /\ disk = [kwCtr |-> kwCtr, blkCtr |-> blkCtr]
    BY DEF ClientInit, ChannelInit, ServerInit
  <1>3. I = EncryptedMatrix(M) /\ st = NoState /\ sBlkCtr = AllOne
    BY DEF ServerInit
  <1>4. Agree(kwCtr, blkCtr, I, st, sBlkCtr)
    BY <1>2, <1>3 DEF Agree, GoodCell, EncryptedMatrix, Encrypt, AllOne, NoState
  <1>5. InUseAgrees
    BY <1>1, <1>2, <1>4, LiveStored, CountersInUse DEF InUseAgrees, None
  <1>6. ~DiskStorage => saved = [I |-> I, st |-> st, blkCtr |-> sBlkCtr]
    BY <1>3 DEF ServerInit
  <1>7. SavedAgrees
    BY <1>2, <1>4, <1>6 DEF SavedAgrees
  <1>8. PendingRow /\ RequestFresh /\ AnswerFresh /\ FilesAgree /\ Loading
    BY <1>2 DEF PendingRow, RequestFresh, AnswerFresh, FilesAgree, Loading, Stopped, None
  <1> QED
    BY <1>1, <1>5, <1>7, <1>8 DEF IndexInv

(* A client that is gone leaves the server and the files to agree.         *)
LEMMA ClientGone ==
    ASSUME IndexInv, TypeOK', Protocol', UNCHANGED serverVars,
           pc' = "halted", ready' = FALSE, UNCHANGED disk, rep' = None,
           Saving' <=> Saving, late'.cmd = "search" => ~DecryptAtClient
    PROVE  IndexInv'
  <1>1. LiveI' = LiveI /\ LiveS' = LiveS
    BY DEF LiveI, LiveS, LiveRow, LiveSt, serverVars
  <1> QED
    BY <1>1
    DEF IndexInv, PendingRow, InUseAgrees, InUse, RequestFresh, AnswerFresh,
        SavedAgrees, FilesAgree, Stopped, Loading, serverVars

(* What is on the screen does not matter to the index.                     *)
LEMMA IndexKept ==
    ASSUME IndexInv, res' \in Plain,
           UNCHANGED <<pc, ready, kwCtr, blkCtr, arg, upd, disk, chanVars, serverVars>>
    PROVE  IndexInv'
  <1> USE DEF chanVars, serverVars
  <1>1. TypeOK' /\ Protocol' /\ PendingRow'
    BY DEF IndexInv, TypeOK, ChannelTypeOK, ClientTypeOK, ServerTypeOK, Protocol, PendingRow
  <1>2. /\ LiveI' = LiveI /\ LiveS' = LiveS
        /\ \A r : LiveRow(r)' = LiveRow(r) /\ LiveSt(r)' = LiveSt(r)
        /\ \A b : LoadedBits(b)' = LoadedBits(b)
        /\ RowCounters' = RowCounters /\ BlockCounters' = BlockCounters
    BY DEF LiveI, LiveS, LiveRow, LiveSt, LoadedBits, RowCounters, RowCounter,
           SearchPending, BlockCounters, UpdatePending
  <1>3. Buffered(arg)' <=> Buffered(arg)
    BY <1>2 DEF Buffered
  <1>4. InUseAgrees' /\ RequestFresh' /\ AnswerFresh'
    BY <1>2, <1>3 DEF IndexInv, InUseAgrees, RequestFresh, AnswerFresh, InUse
  <1>5. SavedAgrees' /\ FilesAgree' /\ Loading'
    BY <1>2 DEF IndexInv, SavedAgrees, Saving, FilesAgree, Stopped, Loading
  <1> QED
    BY <1>1, <1>4, <1>5 DEF IndexInv

(* The client's actions preserve the invariant. *)
LEMMA IndexClient ==
    ASSUME BenignEnv, IndexInv, ClientStep, UNCHANGED serverVars
    PROVE  IndexInv'
  <1> USE DEF serverVars
  <1>1. TypeOK' /\ Protocol'
    BY TypeClient DEF IndexInv, TypeInv
  <1>2. TypeOK /\ Protocol
    BY DEF IndexInv
  <1>3. /\ LiveI' = LiveI /\ LiveS' = LiveS
        /\ \A r : LiveRow(r)' = LiveRow(r) /\ LiveSt(r)' = LiveSt(r)
        /\ \A b : LoadedBits(b)' = LoadedBits(b)
    BY DEF LiveI, LiveS, LiveRow, LiveSt, LoadedBits
  <1>4. \A b : Buffered(b)' <=> Buffered(b)
    BY <1>3 DEF Buffered
  (* At the menu of a client in use the channel is empty. *)
  <1>5. ASSUME pc = "menu", ready
        PROVE  /\ InUse /\ req = None /\ rep = None /\ late = None
               /\ Agree(kwCtr, blkCtr, LiveI, LiveS, sBlkCtr)
               /\ ~Saving
    <2>1. InUse /\ req = None /\ rep = None /\ late = None
      BY <1>2, <1>5 DEF IndexInv, RequestFresh, InUse, Protocol, Waiting
    <2> QED
      BY <1>2, <1>5, <2>1, CountersInUse DEF IndexInv, InUseAgrees, Saving, None
  <1>6. ASSUME pc' = "halted", ready' = FALSE, UNCHANGED disk, rep' = None,
               Saving' <=> Saving, late'.cmd = "search" => ~DecryptAtClient
        PROVE  IndexInv'
    BY <1>1, <1>6, ClientGone
  <1>7. ASSUME NEW r \in Rows, SearchKeyword(r)
        PROVE  IndexInv'
    <2>1. /\ pc = "menu" /\ ready /\ ready' /\ pc' = "search" /\ arg' = r
          /\ UNCHANGED <<blkCtr, disk, late, rep>>
          /\ req' = IF DecryptAtClient THEN [cmd |-> "search_data", row |-> r]
                    ELSE [cmd |-> "search", tau |-> SearchToken(r, kwCtr)]
          /\ kwCtr' = IF DecryptAtClient THEN kwCtr ELSE [kwCtr EXCEPT ![r] = @ + 1]
      BY <1>7 DEF SearchKeyword, Send
    <2>2. RowCounters' = kwCtr /\ BlockCounters' = blkCtr
      BY <1>2, <1>5, <2>1
      DEF RowCounters, RowCounter, SearchPending, BlockCounters, UpdatePending, TypeOK,
          ClientTypeOK
    <2>3. InUseAgrees'
      BY <1>3, <1>5, <2>1, <2>2 DEF InUseAgrees
    <2>4. /\ req'.cmd = IF DecryptAtClient THEN "search_data" ELSE "search"
          /\ ~DecryptAtClient => req'.tau = SearchToken(r, kwCtr)
      BY <2>1
    <2>5. RequestFresh'
      BY <1>5, <2>1, <2>2, <2>4 DEF RequestFresh
    <2>6. AnswerFresh' /\ Loading' /\ FilesAgree'
      BY <1>5, <2>1 DEF AnswerFresh, Loading, FilesAgree, Stopped, None
    <2>7. PendingRow'
      BY <1>5, <2>1 DEF IndexInv, PendingRow, None
    <2>8. SavedAgrees'
      BY <1>5, <2>1, <2>4 DEF IndexInv, SavedAgrees, Saving, None
    <2> QED
      BY <1>1, <2>3, <2>5, <2>6, <2>7, <2>8 DEF IndexInv
  <1>8. ASSUME NEW r \in Rows, SearchExhausted(r)
        PROVE  IndexInv'
    <2>1. /\ pc = "menu" /\ ready /\ pc' = "halted" /\ ready' = FALSE
          /\ UNCHANGED <<disk, req, late, rep>>
      BY <1>8 DEF SearchExhausted, Gone
    <2>2. rep' = None /\ (Saving' <=> Saving) /\ late' = None
      BY <1>5, <2>1 DEF Saving, None
    <2>3. late'.cmd = "search" => ~DecryptAtClient
      BY <2>2 DEF None
    <2> QED
      BY <1>6, <2>1, <2>2, <2>3
  <1>9. CASE SearchDone
    <2>1. /\ pc = "search" /\ rep # None /\ pc' = "menu" /\ rep' = None
          /\ UNCHANGED <<ready, kwCtr, blkCtr, disk, req, late>>
      BY <1>9 DEF SearchDone, TakeAnswer
    <2>2. InUse /\ ready /\ req = None /\ late = None
      BY <1>2, <2>1 DEF IndexInv, Loading, InUse, Protocol
    <2>3. RowCounters = kwCtr /\ BlockCounters = blkCtr
      BY <1>2, <2>1, CountersInUse
    <2>4. RowCounters' = kwCtr /\ BlockCounters' = blkCtr
      BY <1>2, <2>1
      DEF RowCounters, RowCounter, SearchPending, BlockCounters, UpdatePending, TypeOK,
          ClientTypeOK
    <2>5. InUseAgrees'
      BY <1>3, <2>2, <2>3, <2>4 DEF IndexInv, InUseAgrees
    <2>6. /\ RequestFresh' /\ AnswerFresh' /\ Loading' /\ FilesAgree' /\ PendingRow'
      BY <2>1, <2>2
      DEF IndexInv, RequestFresh, AnswerFresh, Loading, FilesAgree, Stopped, PendingRow, None
    <2>7. SavedAgrees'
      BY <2>1, <2>2 DEF IndexInv, SavedAgrees, Saving, None
    <2> QED
      BY <1>1, <2>5, <2>6, <2>7 DEF IndexInv
  <1>10. ASSUME NEW b \in Blocks, RequestBlock(b)
         PROVE  IndexInv'
    <2>1. /\ pc = "menu" /\ ready /\ pc' = "fetch" /\ arg' = b
          /\ req' = [cmd |-> "block_data", blk |-> b]
          /\ UNCHANGED <<ready, kwCtr, blkCtr, disk, late, rep>>
      BY <1>10 DEF RequestBlock, Send
    <2>2. RowCounters' = kwCtr /\ BlockCounters' = blkCtr
      BY <1>2, <2>1
      DEF RowCounters, RowCounter, SearchPending, BlockCounters, UpdatePending, TypeOK,
          ClientTypeOK
    <2>3. InUseAgrees'
      BY <1>3, <1>5, <2>1, <2>2 DEF InUseAgrees
    <2>4. /\ RequestFresh' /\ AnswerFresh' /\ Loading' /\ FilesAgree' /\ PendingRow'
      BY <1>5, <2>1
      DEF IndexInv, RequestFresh, AnswerFresh, Loading, FilesAgree, Stopped, PendingRow, None
    <2>5. SavedAgrees'
      BY <1>5, <2>1 DEF IndexInv, SavedAgrees, Saving, None
    <2> QED
      BY <1>1, <2>3, <2>4, <2>5 DEF IndexInv
  <1>11. ASSUME NEW b \in Blocks, NEW c \in BlockCols(b), NEW W \in SUBSET Rows,
                SendBlock(b, c, W)
         PROVE  IndexInv'
    <2> DEFINE data == IF BlockSize > 1 THEN rep.data ELSE <<>>
               stBlk == IF BlockSize > 1 THEN rep.st ELSE {}
               tok   == UpdateToken(b, c, W, data, stBlk, kwCtr, blkCtr)
    <2>1. /\ pc' = "update" /\ arg' = b /\ rep' = None
          /\ req' = [cmd |-> "update", blk |-> b, data |-> tok]
          /\ blkCtr' = [blkCtr EXCEPT ![b] = @ + 1]
          /\ UNCHANGED <<ready, kwCtr, disk, late>>
          /\ BlockSize > 1 => pc = "fetch" /\ arg = b /\ rep # None
          /\ ~(BlockSize > 1) => pc = "menu" /\ ready
      BY <1>11 DEF SendBlock
    <2>2. /\ InUse /\ ready /\ req = None /\ late = None
          /\ pc \in {"menu", "fetch"}
          /\ BlockSize > 1 => rep.cmd = "block"
      BY <1>2, <1>5, <2>1 DEF IndexInv, Loading, InUse, Protocol
    <2>3. RowCounters = kwCtr /\ BlockCounters = blkCtr
      BY <1>2, <2>2, CountersInUse
    <2>4. Agree(kwCtr, blkCtr, LiveI, LiveS, sBlkCtr)
      BY <2>2, <2>3 DEF IndexInv, InUseAgrees
    <2>5. ASSUME BlockSize > 1, NEW r \in Rows
          PROVE  GoodCell(data[r], r, b, kwCtr[r], r \in stBlk, blkCtr[b])
      <3>1. data[r] = LiveI[r][b] /\ (~DecryptAtClient => (r \in stBlk <=> b \in LiveS[r]))
        BY <2>1, <2>2, <2>5 DEF IndexInv, AnswerFresh, LiveI, LiveS
      <3>2. GoodCell(LiveI[r][b], r, b, kwCtr[r], b \in LiveS[r], blkCtr[b])
        BY <2>4 DEF Agree
      <3>3. DecryptAtClient => kwCtr[r] = 1
        BY <2>4 DEF Agree
      <3> QED
        BY <3>1, <3>2, <3>3 DEF GoodCell
    <2>6. \A r \in Rows : kwCtr[r] >= 1 /\ (DecryptAtClient => kwCtr[r] = 1)
      BY <2>4 DEF Agree
    <2>7. kwCtr \in [Rows -> Nat] /\ blkCtr \in [Blocks -> Nat]
      BY <1>2 DEF TypeOK, ClientTypeOK
    <2>8. \A r \in Rows : GoodCell(tok[r], r, b, kwCtr[r], TRUE, blkCtr[b] + 1)
      <3> HIDE DEF data, stBlk
      <3> QED
        BY <2>5, <2>6, <2>7, UpdateGood
    <2> HIDE DEF data, stBlk, tok
    <2>9. RowCounters' = kwCtr /\ BlockCounters' = blkCtr
      BY <1>2, <2>1, <2>7
      DEF RowCounters, RowCounter, SearchPending, BlockCounters, UpdatePending
    <2>10. InUseAgrees'
      BY <1>3, <2>4, <2>9 DEF InUseAgrees
    <2>11. /\ req'.cmd = "update" /\ req'.data = tok
           /\ blkCtr'[arg'] = blkCtr[b] + 1
      BY <2>1, <2>7
    <2>12. BlockSize > 1 => Buffered(b)
      BY <2>1, <2>2 DEF IndexInv, AnswerFresh
    <2>13. BlockSize > 1 => Buffered(arg)'
      BY <1>3, <2>1, <2>12 DEF Buffered
    <2>14. RequestFresh'
      BY <2>1, <2>2, <2>8, <2>11, <2>13 DEF RequestFresh
    <2>15. /\ AnswerFresh' /\ Loading' /\ FilesAgree' /\ PendingRow'
      BY <2>1, <2>2
      DEF IndexInv, AnswerFresh, Loading, FilesAgree, Stopped, PendingRow, None
    <2>16. SavedAgrees'
      BY <2>1, <2>2, <2>11 DEF IndexInv, SavedAgrees, Saving, None
    <2> QED
      BY <1>1, <2>10, <2>14, <2>15, <2>16 DEF IndexInv
  <1>12. CASE UpdateDone
    <2>1. /\ pc = "update" /\ rep # None /\ pc' = "menu" /\ rep' = None
          /\ UNCHANGED <<ready, kwCtr, blkCtr, disk, req, late>>
      BY <1>12 DEF UpdateDone, TakeAnswer
    <2>2. InUse /\ ready /\ req = None /\ late = None
      BY <1>2, <2>1 DEF IndexInv, Loading, InUse, Protocol
    <2>3. RowCounters = kwCtr /\ BlockCounters = blkCtr
      BY <1>2, <2>1, CountersInUse
    <2>4. RowCounters' = kwCtr /\ BlockCounters' = blkCtr
      BY <1>2, <2>1
      DEF RowCounters, RowCounter, SearchPending, BlockCounters, UpdatePending, TypeOK,
          ClientTypeOK
    <2>5. InUseAgrees'
      BY <1>3, <2>2, <2>3, <2>4 DEF IndexInv, InUseAgrees
    <2>6. /\ RequestFresh' /\ AnswerFresh' /\ Loading' /\ FilesAgree' /\ PendingRow'
      BY <2>1, <2>2
      DEF IndexInv, RequestFresh, AnswerFresh, Loading, FilesAgree, Stopped, PendingRow, None
    <2>7. SavedAgrees'
      BY <2>1, <2>2 DEF IndexInv, SavedAgrees, Saving, None
    <2> QED
      BY <1>1, <2>5, <2>6, <2>7 DEF IndexInv
  <1>13. CASE LoadState
    <2>1. /\ pc = "menu" /\ (~ready \/ "reload" \in Env) /\ ready' /\ pc' = "load"
          /\ kwCtr' = disk.kwCtr /\ blkCtr' = disk.blkCtr
          /\ req' = [cmd |-> "load"]
          /\ UNCHANGED <<disk, late, rep>>
      BY <1>13 DEF LoadState, Send
    <2>2. req = None /\ rep = None
      BY <1>2, <2>1 DEF Protocol, Waiting
    <2>3. DiskStorage => ~ready
      BY <2>1 DEF BenignEnv
    <2>4. InUseAgrees' /\ RequestFresh' /\ AnswerFresh'
      BY <2>1 DEF InUseAgrees, RequestFresh, AnswerFresh, InUse
    <2>5. Loading' /\ PendingRow'
      BY <2>1, <2>2 DEF IndexInv, Loading, PendingRow
    <2>6. SavedAgrees'
      BY <2>1, <2>2 DEF IndexInv, SavedAgrees, Saving, None
    <2>7. FilesAgree'
      BY <1>3, <2>1, <2>3 DEF IndexInv, FilesAgree, Stopped
    <2> QED
      BY <1>1, <2>4, <2>5, <2>6, <2>7 DEF IndexInv
  <1>14. CASE LoadDone
    <2>1. /\ pc = "load" /\ rep # None /\ pc' = "menu" /\ rep' = None
          /\ UNCHANGED <<ready, kwCtr, blkCtr, disk, req, late>>
      BY <1>14 DEF LoadDone, TakeAnswer
    <2>2. ready /\ req = None /\ late = None
      BY <1>2, <2>1 DEF IndexInv, Loading, Protocol
    <2>3. Agree(kwCtr, blkCtr, LiveI, LiveS, sBlkCtr)
      BY <2>1 DEF IndexInv, Loading
    <2>4. RowCounters' = kwCtr /\ BlockCounters' = blkCtr
      BY <1>2, <2>1
      DEF RowCounters, RowCounter, SearchPending, BlockCounters, UpdatePending, TypeOK,
          ClientTypeOK
    <2>5. InUseAgrees'
      BY <1>3, <2>3, <2>4 DEF InUseAgrees
    <2>6. /\ RequestFresh' /\ AnswerFresh' /\ Loading' /\ FilesAgree' /\ PendingRow'
      BY <2>1, <2>2
      DEF IndexInv, RequestFresh, AnswerFresh, Loading, FilesAgree, Stopped, PendingRow, None
    <2>7. SavedAgrees'
      BY <2>1, <2>2 DEF IndexInv, SavedAgrees, Saving, None
    <2> QED
      BY <1>1, <2>5, <2>6, <2>7 DEF IndexInv
  <1>15. CASE SaveState
    <2>1. /\ pc = "menu" /\ ready /\ pc' = "saved"
          /\ disk' = [kwCtr |-> kwCtr, blkCtr |-> blkCtr]
          /\ UNCHANGED <<ready, kwCtr, blkCtr, req, late, rep>>
      BY <1>15 DEF SaveState
    <2>2. RowCounters' = kwCtr /\ BlockCounters' = blkCtr
      BY <1>2, <2>1
      DEF RowCounters, RowCounter, SearchPending, BlockCounters, UpdatePending, TypeOK,
          ClientTypeOK
    <2>3. InUseAgrees'
      BY <1>3, <1>5, <2>1, <2>2 DEF InUseAgrees
    <2>4. req = None /\ rep = None /\ late = None
      BY <1>5, <2>1
    <2>5. /\ RequestFresh' /\ AnswerFresh' /\ FilesAgree' /\ PendingRow'
      BY <2>1, <2>4
      DEF IndexInv, RequestFresh, AnswerFresh, FilesAgree, Stopped, PendingRow, None
    <2>6. Loading'
      BY <2>1 DEF Loading
    <2>7. ~DiskStorage => LiveI = I /\ LiveS = st
      BY <1>2, LiveStored DEF IndexInv, PendingRow
    <2>8. SavedAgrees'
      BY <1>5, <2>1, <2>7 DEF SavedAgrees, Saving
    <2> QED
      BY <1>1, <2>3, <2>5, <2>6, <2>8 DEF IndexInv
  <1>16. CASE SendSave
    <2>1. /\ pc = "saved" /\ pc' = "save" /\ req' = [cmd |-> "save"]
          /\ UNCHANGED <<ready, kwCtr, blkCtr, disk, late, rep>>
      BY <1>16 DEF SendSave, Send
    <2>2. InUse /\ ready /\ req = None /\ rep = None /\ late = None
      BY <1>2, <2>1
      DEF IndexInv, Loading, InUse, RequestFresh, Protocol, Waiting
    <2>3. RowCounters = kwCtr /\ BlockCounters = blkCtr
      BY <1>2, <2>1, CountersInUse
    <2>4. RowCounters' = kwCtr /\ BlockCounters' = blkCtr
      BY <1>2, <2>1
      DEF RowCounters, RowCounter, SearchPending, BlockCounters, UpdatePending, TypeOK,
          ClientTypeOK
    <2>5. InUseAgrees'
      BY <1>3, <2>2, <2>3, <2>4 DEF IndexInv, InUseAgrees
    <2>6. /\ RequestFresh' /\ AnswerFresh' /\ Loading' /\ FilesAgree' /\ PendingRow'
      BY <2>1, <2>2
      DEF IndexInv, RequestFresh, AnswerFresh, Loading, FilesAgree, Stopped, PendingRow, None
    <2>7. SavedAgrees'
      BY <2>1 DEF IndexInv, SavedAgrees, Saving
    <2> QED
      BY <1>1, <2>5, <2>6, <2>7 DEF IndexInv
  <1>17. CASE Exit
    <2>1. /\ pc = "save" /\ rep # None /\ pc' = "off" /\ rep' = None /\ ready' = FALSE
          /\ UNCHANGED <<disk, req, late>>
      BY <1>17 DEF Exit, TakeAnswer, Gone
    <2>2. /\ InUse /\ req = None /\ late = None
          /\ disk.kwCtr = kwCtr /\ disk.blkCtr = blkCtr
      BY <1>2, <2>1 DEF IndexInv, Loading, InUse, Protocol
    <2>3. RowCounters = kwCtr /\ BlockCounters = blkCtr
      BY <1>2, <2>1, CountersInUse
    <2>4. Agree(disk.kwCtr, disk.blkCtr, LiveI, LiveS, sBlkCtr)
      BY <2>2, <2>3 DEF IndexInv, InUseAgrees
    <2>5. DiskStorage /\ ~DecryptAtClient => saved.blkCtr = sBlkCtr
      BY <2>1 DEF IndexInv, FilesAgree
    <2>6. DiskStorage => Agree(disk.kwCtr, disk.blkCtr, LiveI, LiveS, saved.blkCtr)
      BY <2>4, <2>5 DEF Agree
    <2>7. FilesAgree'
      BY <1>3, <2>1, <2>2, <2>6 DEF FilesAgree
    <2>8. /\ InUseAgrees' /\ RequestFresh' /\ AnswerFresh' /\ Loading' /\ PendingRow'
      BY <2>1, <2>2
      DEF IndexInv, InUseAgrees, RequestFresh, AnswerFresh, InUse, Loading, PendingRow
    <2>9. SavedAgrees'
      BY <2>1, <2>2 DEF IndexInv, SavedAgrees, Saving, None
    <2> QED
      BY <1>1, <2>7, <2>8, <2>9 DEF IndexInv
  <1>18. CASE Start
    <2>1. /\ pc = "off" \/ (pc = "halted" /\ "reload" \in Env)
          /\ pc' = "menu"
          /\ UNCHANGED <<ready, disk, req, late, rep>>
      BY <1>18 DEF Start
    <2>2. ~ready
      BY <2>1 DEF IndexInv, Loading
    <2>3. /\ InUseAgrees' /\ RequestFresh' /\ AnswerFresh' /\ Loading' /\ PendingRow'
      BY <2>1, <2>2
      DEF IndexInv, InUseAgrees, RequestFresh, AnswerFresh, InUse, Loading, PendingRow
    <2>4. SavedAgrees'
      BY <2>1 DEF IndexInv, SavedAgrees, Saving
    <2>5. FilesAgree'
      BY <1>3, <2>1, <2>2 DEF IndexInv, FilesAgree, Stopped, BenignEnv
    <2> QED
      BY <1>1, <2>3, <2>4, <2>5 DEF IndexInv
  <1>19. CASE Crash
    <2>1. /\ pc' = "halted" /\ ready' = FALSE /\ UNCHANGED disk
          /\ late = None /\ late' = req /\ rep' = None /\ req' = None /\ pc # "saved"
      BY <1>19 DEF Crash, Gone, BenignEnv
    <2>2. Saving' <=> Saving
      BY <2>1 DEF Saving, None
    <2>3. req.cmd = "search" => ~DecryptAtClient
      BY <1>2 DEF Protocol, Waiting, None
    <2> QED
      BY <1>6, <2>1, <2>2, <2>3
  <1> QED
    BY <1>7, <1>8, <1>9, <1>10, <1>11, <1>12, <1>13, <1>14, <1>15, <1>16, <1>17, <1>18,
       <1>19
    DEF ClientStep

(* A handler's effect on the channel. *)
LEMMA Served ==
    ASSUME TypeOK, Protocol, NEW cmd, cmd # "none", Serve(cmd), NEW a, Reply(a)
    PROVE  /\ pend = NoRow
           /\ late # None => late.cmd = cmd /\ late' = None /\ UNCHANGED <<req, rep>>
           /\ late = None =>
                 /\ Incoming = req /\ req.cmd = cmd /\ req # None /\ rep = None
                 /\ req' = None /\ rep' = a /\ late' = None
                 /\ pc \in Waiting
                 /\ pc = "search" => cmd = IF DecryptAtClient THEN "search_data" ELSE "search"
                 /\ pc = "fetch" => cmd = "block_data"
                 /\ pc \in {"update", "load", "save"} => cmd = pc
  BY DEF Serve, Reply, Incoming, Protocol, Waiting, None

(* The server's actions preserve the invariant. *)
LEMMA IndexServer ==
    ASSUME IndexInv, ServerStep, UNCHANGED clientVars
    PROVE  IndexInv'
  <1> USE DEF clientVars
  <1>1. TypeOK' /\ Protocol'
    BY TypeServer DEF IndexInv, TypeInv
  <1>2. TypeOK /\ Protocol
    BY DEF IndexInv
  <1>3. InUse' <=> InUse
    BY DEF InUse
  (* Serving what a killed client left touches nothing a running one uses. *)
  <1>4. ASSUME late # None
        PROVE  /\ ~InUse /\ rep = None /\ (Saving <=> late.cmd = "save")
               /\ DiskStorage => pc = "halted"
               /\ req.cmd # "save"
    <2>1. ~InUse /\ rep = None
      BY <1>2, <1>4 DEF IndexInv, RequestFresh, Protocol
    <2>2. pc \notin {"saved", "save", "search", "fetch", "update"}
      BY <2>1 DEF IndexInv, Loading, InUse
    <2>3. req.cmd # "save"
      BY <1>2, <2>2 DEF Protocol, Waiting, None
    <2>4. DiskStorage => pc = "halted"
      BY <1>4 DEF IndexInv, FilesAgree
    <2> QED
      BY <2>1, <2>2, <2>3, <2>4 DEF Saving
  <1>5. ASSUME late # None, late' = None, UNCHANGED <<req, rep>>, pend' # NoRow => pend # NoRow
               \/ (DiskStorage /\ ~DecryptAtClient),
               SavedAgrees'
        PROVE  IndexInv'
    <2>1. InUseAgrees' /\ RequestFresh' /\ AnswerFresh'
      BY <1>3, <1>4, <1>5 DEF InUseAgrees, RequestFresh, AnswerFresh
    <2>2. FilesAgree' /\ Loading'
      BY <1>4, <1>5 DEF IndexInv, FilesAgree, Loading, Stopped
    <2>3. PendingRow'
      BY <1>5 DEF IndexInv, PendingRow, None
    <2> QED
      BY <1>1, <1>5, <2>1, <2>2, <2>3 DEF IndexInv
  <1>6. late # None /\ late' = None /\ UNCHANGED <<req, rep>> => ~Saving'
    BY <1>4 DEF Saving, None, IndexInv, Loading, InUse
  (* Answering a search, a fetch or an update: no files are involved. *)
  <1>7. ASSUME late = None, late' = None, pc \in {"search", "fetch", "update"},
               req.cmd # "save", req' = None, rep' # None, UNCHANGED saved,
               pend' = NoRow \/ (DiskStorage /\ ~DecryptAtClient),
               Agree(kwCtr, blkCtr, LiveI', LiveS', sBlkCtr'), AnswerFresh'
        PROVE  IndexInv'
    <2>1. RowCounters' = kwCtr /\ BlockCounters' = blkCtr
      BY <1>2, <1>7
      DEF RowCounters, RowCounter, SearchPending, BlockCounters, UpdatePending, TypeOK,
          ClientTypeOK
    <2>2. InUseAgrees'
      BY <1>7, <2>1 DEF InUseAgrees
    <2>3. RequestFresh' /\ PendingRow' /\ FilesAgree' /\ Loading'
      BY <1>7
      DEF IndexInv, RequestFresh, PendingRow, FilesAgree, Stopped, Loading, None
    <2>4. SavedAgrees'
      BY <1>7 DEF IndexInv, SavedAgrees, Saving, None
    <2> QED
      BY <1>1, <1>7, <2>2, <2>3, <2>4 DEF IndexInv
  <1>8. CASE HandleSearch
    <2> DEFINE tau  == Incoming.tau
               r    == tau.row
               next == SearchedRow(tau, I[r], st[r], sBlkCtr)
               files == SearchResult(tau, I[r], st[r], sBlkCtr)
               ans  == [cmd |-> "files", files |-> files]
    <2>1. /\ Serve("search") /\ Reply(ans)
          /\ IF DiskStorage
             THEN pend' = [row |-> r, cells |-> next] /\ UNCHANGED <<I, st>>
             ELSE /\ I' = [I EXCEPT ![r] = next]
                  /\ st' = [st EXCEPT ![r] = {}]
                  /\ UNCHANGED pend
          /\ UNCHANGED <<sBlkCtr, buf, saved>>
      BY <1>8 DEF HandleSearch
    <2>2. CASE late # None
      <3>1. late.cmd = "search" /\ late' = None /\ UNCHANGED <<req, rep>>
        BY <1>2, <2>1, <2>2, Served
      <3>2. SavedAgrees'
        BY <1>4, <1>6, <2>1, <2>2, <3>1 DEF IndexInv, SavedAgrees
      <3>3. ~DecryptAtClient
        BY <3>1 DEF IndexInv, PendingRow
      <3> QED
        BY <1>5, <2>1, <2>2, <3>1, <3>2, <3>3
    <2>3. CASE late = None
      <3>1. /\ pend = NoRow /\ Incoming = req /\ req.cmd = "search" /\ rep = None
            /\ req' = None /\ rep' = ans /\ late' = None
            /\ pc = "search" /\ ~DecryptAtClient
        BY <1>2, <2>1, <2>3, Served DEF Waiting
      <3>2. /\ InUse /\ arg \in Rows
            /\ tau = SearchToken(arg, RowCounters) /\ r = arg
        BY <1>2, <3>1 DEF IndexInv, RequestFresh, Loading, InUse, Protocol, SearchToken
      <3>3. LiveI = I /\ LiveS = st /\ BlockCounters = blkCtr
        BY <1>2, <3>1, LiveStored, CountersInUse
      <3>4. Agree(RowCounters, blkCtr, I, st, sBlkCtr)
        BY <3>2, <3>3 DEF IndexInv, InUseAgrees
      <3>5. /\ kwCtr \in [Rows -> Nat] /\ blkCtr \in [Blocks -> Nat]
            /\ I \in [Rows -> [Blocks -> Cell]]
            /\ st \in [Rows -> SUBSET Blocks]
            /\ sBlkCtr \in [Blocks -> Nat]
        BY <1>2 DEF TypeOK, ClientTypeOK, ServerTypeOK, Matrix, States
      <3>6. sBlkCtr = blkCtr
        BY <3>1, <3>2, <3>4, <3>5 DEF Agree
      <3>7. /\ RowCounters[arg] = kwCtr[arg] - 1
            /\ \A x \in Rows : x # arg => RowCounters[x] = kwCtr[x]
        BY <3>1, <3>2 DEF RowCounters, RowCounter, SearchPending
      <3>8. /\ RowCounters[arg] >= 1 /\ RowCounters[arg] \in Nat
            /\ RowCounters[arg] + 1 = kwCtr[arg]
        <4>1. kwCtr[arg] \in Nat /\ RowCounters[arg] = kwCtr[arg] - 1
          BY <3>2, <3>5, <3>7
        <4>2. 0 \in Blocks
          BY SizesAssumption DEF Blocks
        <4>3. RowCounters[arg] >= 1
          BY <3>2, <3>4, <4>2 DEF Agree
        <4> QED
          BY <4>1, <4>3
      <3>9. \A b \in Blocks :
               GoodCell(I[arg][b], arg, b, RowCounters[arg], b \in st[arg], sBlkCtr[b])
        BY <3>2, <3>4, <3>6 DEF Agree
      <3>10. /\ files = PlainRow(next)
             /\ \A b \in Blocks : GoodCell(next[b], arg, b, kwCtr[arg], FALSE, blkCtr[b])
        <4>1. I[arg] \in [Blocks -> Cell]
          BY <3>2, <3>5
        <4> DEFINE tok == SearchToken(arg, RowCounters)
                   new == SearchedRow(tok, I[arg], st[arg], sBlkCtr)
        <4>2. /\ SearchResult(tok, I[arg], st[arg], sBlkCtr) = PlainRow(new)
              /\ \A b \in Blocks :
                    GoodCell(new[b], arg, b, RowCounters[arg] + 1, FALSE, sBlkCtr[b])
          <5> HIDE DEF tau, r, next, files
          <5>1. sBlkCtr \in [Blocks -> Nat] /\ arg \in Rows
            BY <3>2, <3>5
          <5> QED
            BY ONLY <3>8, <3>9, <4>1, <5>1, SearchGood
        <4>3. files = SearchResult(tok, I[arg], st[arg], sBlkCtr) /\ next = new
          BY <3>2
        <4> HIDE DEF files, next, new, tok
        <4> QED
          BY <3>6, <3>8, <4>2, <4>3
      <3> HIDE DEF tau, r, next, files
      <3>11. /\ \A x \in Rows : x # arg => LiveI'[x] = I[x] /\ LiveS'[x] = st[x]
             /\ LiveI'[arg] = next /\ LiveS'[arg] = {} /\ LiveRow(arg)' = next
        <4>1. NumRows \notin Rows
          BY SizesAssumption DEF Rows
        <4>2. CASE DiskStorage
          <5>1. pend' = [row |-> arg, cells |-> next] /\ I' = I /\ st' = st
            BY <2>1, <3>2, <4>2
          <5>2. pend'.row = arg /\ pend'.cells = next
            BY <5>1
          <5> QED
            BY <3>2, <5>1, <5>2 DEF LiveI, LiveS, LiveRow, LiveSt
        <4>3. CASE ~DiskStorage
          <5>1. /\ pend' = NoRow /\ I' = [I EXCEPT ![arg] = next]
                /\ st' = [st EXCEPT ![arg] = {}]
            BY <2>1, <3>1, <3>2, <4>3
          <5>2. \A x \in Rows : pend'.row # x
            BY <4>1, <5>1 DEF NoRow
          <5> QED
            BY <3>2, <3>5, <5>1, <5>2 DEF LiveI, LiveS, LiveRow, LiveSt
        <4> QED
          BY <4>2, <4>3
      <3>12. Agree(kwCtr, blkCtr, LiveI', LiveS', sBlkCtr')
        <4> SUFFICES ASSUME NEW x \in Rows, NEW b \in Blocks
                     PROVE  /\ kwCtr[x] >= 1
                            /\ sBlkCtr'[b] = blkCtr[b]
                            /\ GoodCell(LiveI'[x][b], x, b, kwCtr[x], b \in LiveS'[x], blkCtr[b])
          BY <3>1 DEF Agree
        <4>1. sBlkCtr'[b] = blkCtr[b]
          BY <2>1, <3>6
        <4>2. CASE x = arg
          <5>1. (b \in LiveS'[x]) = FALSE /\ kwCtr[x] >= 1
            BY <3>5, <3>8, <3>11, <4>2
          <5>2. GoodCell(LiveI'[x][b], x, b, kwCtr[x], b \in LiveS'[x], blkCtr[b])
            BY <3>10, <3>11, <4>2, <5>1
          <5> QED
            BY <4>1, <5>1, <5>2
        <4>3. CASE x # arg
          BY <3>4, <3>7, <3>11, <4>1, <4>3 DEF Agree
        <4> QED
          BY <4>2, <4>3
      <3>13. rep'.cmd = "files" /\ rep'.files = PlainRow(next)
        BY <3>1, <3>10
      <3>14. AnswerFresh'
        BY <3>11, <3>13 DEF AnswerFresh
      <3> QED
        BY <1>7, <2>1, <2>3, <3>1, <3>12, <3>13, <3>14 DEF None
    <2> QED
      BY <2>2, <2>3
  <1>9. CASE SaveRow
    <2>1. /\ pend # NoRow
          /\ I' = [I EXCEPT ![pend.row] = pend.cells]
          /\ st' = [st EXCEPT ![pend.row] = {}]
          /\ pend' = NoRow
          /\ UNCHANGED <<sBlkCtr, buf, saved, req, late, rep>>
      BY <1>9 DEF SaveRow
    <2>2. pend \in [row : Rows, cells : [Blocks -> Cell]] /\ DiskStorage /\ ~DecryptAtClient
      BY <1>2, <2>1 DEF TypeOK, ServerTypeOK, IndexInv, PendingRow
    <2>3. \A r \in Rows : LiveRow(r)' = LiveRow(r) /\ LiveSt(r)' = LiveSt(r)
      <3>1. I \in [Rows -> [Blocks -> Cell]] /\ st \in [Rows -> SUBSET Blocks]
        BY <1>2 DEF TypeOK, ServerTypeOK, Matrix, States
      <3>2. NumRows \notin Rows
        BY SizesAssumption DEF Rows
      <3> QED
        BY <2>1, <2>2, <3>1, <3>2 DEF LiveRow, LiveSt, NoRow
    <2>4. LiveI' = LiveI /\ LiveS' = LiveS
      BY <2>3 DEF LiveI, LiveS
    <2>5. RowCounters' = RowCounters /\ BlockCounters' = BlockCounters
      BY <2>1 DEF RowCounters, RowCounter, SearchPending, BlockCounters, UpdatePending
    <2>6. InUseAgrees'
      BY <1>3, <2>1, <2>4, <2>5 DEF IndexInv, InUseAgrees
    <2>7. ~Buffered(arg)
      BY <2>1 DEF Buffered
    <2>8. RequestFresh'
      BY <1>3, <2>1, <2>5, <2>7 DEF IndexInv, RequestFresh
    <2>9. AnswerFresh'
      <3>1. InUse => arg \in Rows \/ (rep.cmd # "files" /\ rep.cmd # "row")
        BY <1>2 DEF Protocol, Waiting, None
      <3> QED
        BY <1>3, <2>1, <2>3, <2>7, <3>1 DEF IndexInv, AnswerFresh
    <2>10. PendingRow' /\ SavedAgrees' /\ FilesAgree' /\ Loading'
      BY <2>1, <2>2, <2>4
      DEF IndexInv, PendingRow, SavedAgrees, FilesAgree, Stopped, Loading
    <2> QED
      BY <1>1, <2>6, <2>8, <2>9, <2>10 DEF IndexInv
  <1>10. CASE HandleSearchData
    <2> DEFINE ans == [cmd |-> "row", row |-> I[Incoming.row]]
    <2>1. Serve("search_data") /\ Reply(ans) /\ UNCHANGED serverVars
      BY <1>10 DEF HandleSearchData
    <2> USE DEF serverVars
    <2>2. CASE late # None
      <3>1. late.cmd = "search_data" /\ late' = None /\ UNCHANGED <<req, rep>>
        BY <1>2, <2>1, <2>2, Served
      <3>2. SavedAgrees'
        BY <1>4, <1>6, <2>1, <2>2, <3>1 DEF IndexInv, SavedAgrees
      <3> QED
        BY <1>5, <2>1, <2>2, <3>1, <3>2
    <2>3. CASE late = None
      <3>1. /\ pend = NoRow /\ Incoming = req /\ req.cmd = "search_data" /\ rep = None
            /\ req' = None /\ rep' = ans /\ late' = None
            /\ pc = "search" /\ DecryptAtClient
        BY <1>2, <2>1, <2>3, Served DEF Waiting
      <3>2. InUse /\ arg \in Rows /\ req.row = arg
        BY <1>2, <3>1 DEF IndexInv, Loading, InUse, Protocol, None
      <3>3. RowCounters = kwCtr /\ BlockCounters = blkCtr
        BY <1>2, <3>1, CountersInUse
      <3>4. LiveI' = LiveI /\ LiveS' = LiveS /\ LiveRow(arg)' = LiveRow(arg)
        BY <2>1 DEF LiveI, LiveS, LiveRow, LiveSt
      <3>5. Agree(kwCtr, blkCtr, LiveI', LiveS', sBlkCtr')
        BY <2>1, <3>2, <3>3, <3>4 DEF IndexInv, InUseAgrees
      <3>6. rep'.cmd = "row" /\ rep'.row = LiveRow(arg)'
        BY <1>2, <2>1, <3>1, <3>2, <3>4, LiveStored DEF LiveI
      <3>7. AnswerFresh'
        BY <3>6 DEF AnswerFresh
      <3> QED
        BY <1>7, <2>1, <2>3, <3>1, <3>5, <3>6, <3>7 DEF None
    <2> QED
      BY <2>2, <2>3
  <1>11. CASE HandleBlockData
    <2> DEFINE b == Incoming.blk
               bits == IF StateOnDisk THEN LoadedBits(b) ELSE buf
               set == IF DecryptAtClient THEN {}
                      ELSE IF DiskStorage
                      THEN {r \in Rows : b % ByteSize \in bits[r]}
                      ELSE {r \in Rows : b \in st[r]}
               ans == [cmd |-> "block", data |-> BlockData(I, b), st |-> set]
    <2>1. /\ Serve("block_data") /\ Reply(ans) /\ buf' = bits
          /\ UNCHANGED <<I, st, sBlkCtr, pend, saved>>
      BY <1>11 DEF HandleBlockData, BlockAnswer, BlockBits
    <2>2. CASE late # None
      <3>1. late.cmd = "block_data" /\ late' = None /\ UNCHANGED <<req, rep>>
        BY <1>2, <2>1, <2>2, Served
      <3>2. SavedAgrees'
        BY <1>4, <1>6, <2>1, <2>2, <3>1 DEF IndexInv, SavedAgrees
      <3> QED
        BY <1>5, <2>1, <2>2, <3>1, <3>2
    <2>3. CASE late = None
      <3>1. /\ pend = NoRow /\ Incoming = req /\ req.cmd = "block_data" /\ rep = None
            /\ req' = None /\ rep' = ans /\ late' = None
            /\ pc = "fetch"
        BY <1>2, <2>1, <2>3, Served DEF Waiting
      <3>2. InUse /\ arg \in Blocks /\ b = arg
        BY <1>2, <3>1 DEF IndexInv, Loading, InUse, Protocol, None
      <3>3. RowCounters = kwCtr /\ BlockCounters = blkCtr
        BY <1>2, <3>1, CountersInUse
      <3>4. /\ LiveI' = LiveI /\ LiveS' = LiveS
            /\ \A r \in Rows : /\ LiveRow(r)' = LiveRow(r) /\ LiveRow(r) = I[r]
                               /\ LiveSt(r)' = LiveSt(r) /\ LiveSt(r) = st[r]
        <4>1. NumRows \notin Rows
          BY SizesAssumption DEF Rows
        <4> QED
          BY <2>1, <3>1, <4>1 DEF LiveI, LiveS, LiveRow, LiveSt, NoRow
      <3>5. Agree(kwCtr, blkCtr, LiveI', LiveS', sBlkCtr')
        BY <2>1, <3>2, <3>3, <3>4 DEF IndexInv, InUseAgrees
      <3>6. /\ ~DecryptAtClient => set = {r \in Rows : arg \in st[r]}
            /\ StateOnDisk => bits = LoadedBits(arg)
        <4>1. StateOnDisk => set = {r \in Rows : arg \in st[r]}
          <5>1. st \in States
            BY <1>2 DEF TypeOK, ServerTypeOK
          <5> QED
            BY <3>2, <5>1, StateBits DEF StateOnDisk
        <4> QED
          BY <3>2, <4>1 DEF StateOnDisk
      <3> HIDE DEF b, bits, set
      <3>7. Buffered(arg)'
        BY <2>1, <3>1, <3>6 DEF Buffered, LoadedBits
      <3>8. /\ rep'.cmd = "block"
            /\ rep'.data = [r \in Rows |-> I[r][arg]]
            /\ rep'.st = set
        BY <3>1, <3>2 DEF BlockData
      <3>9. AnswerFresh'
        BY <3>4, <3>6, <3>7, <3>8 DEF AnswerFresh
      <3> QED
        BY <1>7, <2>1, <2>3, <3>1, <3>5, <3>8, <3>9 DEF None
    <2> QED
      BY <2>2, <2>3
  <1>12. CASE HandleUpdate
    <2> DEFINE b   == Incoming.blk
               now == IF BlockSize = 1 THEN LoadedBits(b) ELSE buf
               set == [r \in Rows |-> now[r] \cup {b % ByteSize}]
               ans == [cmd |-> "success"]
    <2>1. /\ Serve("update") /\ Reply(ans)
          /\ I' = WriteBlock(I, b, Incoming.data)
          /\ IF DecryptAtClient
             THEN UNCHANGED <<st, sBlkCtr, buf>>
             ELSE /\ sBlkCtr' = [sBlkCtr EXCEPT ![b] = @ + 1]
                  /\ IF DiskStorage
                     THEN buf' = set /\ st' = SavedBits(b, set)
                     ELSE st' = [r \in Rows |-> st[r] \cup {b}] /\ UNCHANGED buf
          /\ UNCHANGED <<pend, saved>>
      BY <1>12 DEF HandleUpdate, SetBit
    <2>2. CASE late # None
      <3>1. late.cmd = "update" /\ late' = None /\ UNCHANGED <<req, rep>>
        BY <1>2, <2>1, <2>2, Served
      <3>2. SavedAgrees'
        BY <1>4, <1>6, <2>1, <2>2, <3>1 DEF IndexInv, SavedAgrees
      <3> QED
        BY <1>5, <2>1, <2>2, <3>1, <3>2
    <2>3. CASE late = None
      <3>1. /\ pend = NoRow /\ Incoming = req /\ req.cmd = "update" /\ rep = None
            /\ req' = None /\ rep' = ans /\ late' = None
            /\ pc = "update"
        BY <1>2, <2>1, <2>3, Served DEF Waiting
      <3>2. /\ InUse /\ arg \in Blocks /\ b = arg
            /\ \A r \in Rows : GoodCell(req.data[r], r, arg, kwCtr[r], TRUE, blkCtr[arg])
            /\ BlockSize > 1 => Buffered(arg)
        <4>1. InUse /\ arg \in Blocks /\ b = arg
          BY <1>2, <3>1 DEF IndexInv, Loading, InUse, Protocol, None
        <4>2. RequestFresh
          BY DEF IndexInv
        <4> HIDE DEF b, now, set
        <4> QED
          BY <3>1, <4>1, <4>2 DEF RequestFresh
      <3>3. LiveI = I /\ LiveS = st /\ RowCounters = kwCtr
        BY <1>2, <3>1, LiveStored, CountersInUse
      <3>4. Agree(kwCtr, BlockCounters, I, st, sBlkCtr)
        BY <3>2, <3>3 DEF IndexInv, InUseAgrees
      <3>5. /\ blkCtr \in [Blocks -> Nat] /\ sBlkCtr \in [Blocks -> Nat]
            /\ I \in [Rows -> [Blocks -> Cell]] /\ st \in [Rows -> SUBSET Blocks]
        BY <1>2 DEF TypeOK, ClientTypeOK, ServerTypeOK, Matrix, States
      <3>6. /\ BlockCounters[arg] = blkCtr[arg] - 1
            /\ \A x \in Blocks : x # arg => BlockCounters[x] = blkCtr[x]
        BY <3>1, <3>2 DEF BlockCounters, UpdatePending
      <3>7. ~DecryptAtClient => st' = [r \in Rows |-> st[r] \cup {arg}]
        <4> SUFFICES ASSUME ~DecryptAtClient, DiskStorage
                     PROVE  st' = [r \in Rows |-> st[r] \cup {arg}]
          BY <2>1, <3>2
        <4>1. now = LoadedBits(arg)
          BY <3>2, SizesAssumption DEF Buffered, StateOnDisk
        <4>2. st \in States
          BY <1>2 DEF TypeOK, ServerTypeOK
        <4>3. st' = SavedBits(arg, [r \in Rows |-> LoadedBits(arg)[r] \cup {arg % ByteSize}])
          BY <2>1, <3>2, <4>1
        <4> QED
          BY <3>2, <4>2, <4>3, StateBits
      <3>8. ~DecryptAtClient => sBlkCtr' = [sBlkCtr EXCEPT ![arg] = @ + 1]
        BY <2>1, <3>2
      <3>9. \A r \in Rows : I'[r] = [I[r] EXCEPT ![arg] = req.data[r]]
        BY <2>1, <3>1, <3>2 DEF WriteBlock
      <3>10. I' \in [Rows -> [Blocks -> Cell]] /\ st' \in [Rows -> SUBSET Blocks]
        BY <1>1 DEF TypeOK, ServerTypeOK, Matrix, States
      <3>11. LiveI' = I' /\ LiveS' = st'
        <4>1. NumRows \notin Rows
          BY SizesAssumption DEF Rows
        <4> QED
          BY <2>1, <3>1, <3>10, <4>1 DEF LiveI, LiveS, LiveRow, LiveSt, NoRow
      <3> HIDE DEF b, now, set
      <3>12. Agree(kwCtr, blkCtr, LiveI', LiveS', sBlkCtr')
        <4> SUFFICES ASSUME NEW r \in Rows, NEW x \in Blocks
                     PROVE  /\ kwCtr[r] >= 1
                            /\ DecryptAtClient => kwCtr[r] = 1
                            /\ ~DecryptAtClient => sBlkCtr'[x] = blkCtr[x]
                            /\ GoodCell(I'[r][x], r, x, kwCtr[r], x \in st'[r], blkCtr[x])
          BY <3>11 DEF Agree
        <4>1. /\ kwCtr[r] >= 1 /\ (DecryptAtClient => kwCtr[r] = 1)
              /\ ~DecryptAtClient => sBlkCtr[x] = BlockCounters[x]
              /\ GoodCell(I[r][x], r, x, kwCtr[r], x \in st[r], BlockCounters[x])
          BY <3>4 DEF Agree
        <4>2. CASE x = arg
          <5>1. ~DecryptAtClient => sBlkCtr'[x] = blkCtr[x]
            BY <3>2, <3>5, <3>6, <3>8, <4>1, <4>2
          <5>2. I'[r][x] = req.data[r]
            BY <3>2, <3>5, <3>9, <4>2
          <5>3. DecryptAtClient \/ x \in st'[r]
            BY <3>7, <4>2
          <5>4. GoodCell(req.data[r], r, x, kwCtr[r], TRUE, blkCtr[x])
            BY <3>2, <4>2
          <5> QED
            BY <4>1, <5>1, <5>2, <5>3, <5>4 DEF GoodCell
        <4>3. CASE x # arg
          <5>1. ~DecryptAtClient => sBlkCtr'[x] = blkCtr[x]
            BY <3>5, <3>6, <3>8, <4>1, <4>3
          <5>2. I'[r][x] = I[r][x]
            BY <3>5, <3>9, <4>3
          <5>3. DecryptAtClient \/ (x \in st'[r] <=> x \in st[r])
            BY <3>7, <4>3
          <5>4. GoodCell(I[r][x], r, x, kwCtr[r], x \in st[r], blkCtr[x])
            BY <3>6, <4>1, <4>3
          <5> QED
            BY <4>1, <5>1, <5>2, <5>3, <5>4 DEF GoodCell
        <4> QED
          BY <4>2, <4>3
      <3>13. rep'.cmd = "success"
        BY <3>1
      <3>14. AnswerFresh'
        BY <3>13 DEF AnswerFresh
      <3> QED
        BY <1>7, <2>1, <2>3, <3>1, <3>12, <3>13, <3>14 DEF None
    <2> QED
      BY <2>2, <2>3
  <1>13. CASE HandleLoad
    <2> DEFINE ans == [cmd |-> "success"]
    <2>1. /\ Serve("load") /\ Reply(ans)
          /\ DiskStorage => UNCHANGED <<I, st>>
          /\ ~DiskStorage => I' = saved.I /\ (DecryptAtClient \/ st' = saved.st)
          /\ DecryptAtClient \/ sBlkCtr' = saved.blkCtr
          /\ UNCHANGED <<buf, pend, saved>>
      BY <1>13 DEF HandleLoad, LoadedCounters
    <2>2. CASE late # None
      <3>1. late.cmd = "load" /\ late' = None /\ UNCHANGED <<req, rep>>
        BY <1>2, <2>1, <2>2, Served
      <3>2. SavedAgrees'
        BY <1>4, <1>6, <2>1, <2>2, <3>1 DEF IndexInv, SavedAgrees
      <3> QED
        BY <1>5, <2>1, <2>2, <3>1, <3>2
    <2>3. CASE late = None
      <3>1. /\ pend = NoRow /\ req.cmd = "load" /\ rep = None
            /\ req' = None /\ rep' = ans /\ late' = None /\ pc = "load"
        BY <1>2, <2>1, <2>3, Served DEF Waiting
      <3>2. ~Saving /\ ~Saving'
        BY <2>3, <3>1 DEF Saving, None
      <3>3. ~DiskStorage => Agree(disk.kwCtr, disk.blkCtr, I', st', sBlkCtr')
        BY <2>1, <3>2 DEF IndexInv, SavedAgrees, Agree, GoodCell
      <3>4. DiskStorage => Agree(disk.kwCtr, disk.blkCtr, LiveI, LiveS, sBlkCtr')
        BY <2>1, <3>1 DEF IndexInv, FilesAgree, Stopped, Agree
      <3>5. LiveI = I /\ LiveS = st
        BY <1>2, <3>1, LiveStored
      <3>6. I' \in [Rows -> [Blocks -> Cell]] /\ st' \in [Rows -> SUBSET Blocks]
        BY <1>1 DEF TypeOK, ServerTypeOK, Matrix, States
      <3>7. LiveI' = I' /\ LiveS' = st'
        <4>1. NumRows \notin Rows
          BY SizesAssumption DEF Rows
        <4> QED
          BY <2>1, <3>1, <3>6, <4>1 DEF LiveI, LiveS, LiveRow, LiveSt, NoRow
      <3>8. Agree(disk.kwCtr, disk.blkCtr, LiveI', LiveS', sBlkCtr')
        BY <2>1, <3>3, <3>4, <3>5, <3>7
      <3>9. Loading'
        BY <3>1, <3>8 DEF IndexInv, Loading
      <3>10. FilesAgree'
        BY <2>1, <2>3, <3>1, <3>5, <3>7 DEF IndexInv, FilesAgree, Stopped
      <3>11. SavedAgrees'
        BY <2>1, <3>2 DEF IndexInv, SavedAgrees
      <3>12. InUseAgrees' /\ RequestFresh' /\ AnswerFresh' /\ PendingRow'
        BY <2>1, <3>1
        DEF IndexInv, InUseAgrees, RequestFresh, AnswerFresh, InUse, PendingRow, None
      <3> QED
        BY <1>1, <3>9, <3>10, <3>11, <3>12 DEF IndexInv
    <2> QED
      BY <2>2, <2>3
  <1>14. CASE HandleSave
    <2> DEFINE ans == [cmd |-> "success"]
    <2>1. /\ Serve("save") /\ Reply(ans)
          /\ ~DiskStorage => saved'.I = I /\ (DecryptAtClient \/ saved'.st = st)
          /\ DecryptAtClient \/ saved'.blkCtr = sBlkCtr
          /\ UNCHANGED <<I, st, sBlkCtr, buf, pend>>
      BY <1>14 DEF HandleSave, SavedStates
    <2>2. CASE late # None
      <3>1. late.cmd = "save" /\ late' = None /\ UNCHANGED <<req, rep>>
        BY <1>2, <2>1, <2>2, Served
      <3>2. SavedAgrees'
        BY <1>4, <1>6, <2>1, <2>2, <3>1 DEF IndexInv, SavedAgrees, Agree, GoodCell
      <3> QED
        BY <1>5, <2>1, <2>2, <3>1, <3>2
    <2>3. CASE late = None
      <3>1. /\ req.cmd = "save" /\ rep = None
            /\ req' = None /\ rep' = ans /\ late' = None /\ pc = "save"
        BY <1>2, <2>1, <2>3, Served DEF Waiting
      <3>2. Saving /\ ~Saving' /\ InUse
        BY <2>3, <3>1 DEF IndexInv, Loading, InUse, Saving, None
      <3>3. SavedAgrees'
        BY <2>1, <3>2 DEF IndexInv, SavedAgrees, Agree, GoodCell
      <3>4. RowCounters' = RowCounters /\ BlockCounters' = BlockCounters
        BY <3>1 DEF RowCounters, RowCounter, SearchPending, BlockCounters, UpdatePending
      <3>5. LiveI' = LiveI /\ LiveS' = LiveS
        BY <2>1 DEF LiveI, LiveS, LiveRow, LiveSt
      <3>6. InUseAgrees'
        BY <2>1, <3>2, <3>4, <3>5 DEF IndexInv, InUseAgrees
      <3>7. FilesAgree'
        BY <2>1, <3>1 DEF FilesAgree, Stopped
      <3>8. RequestFresh' /\ AnswerFresh' /\ PendingRow' /\ Loading'
        BY <2>1, <3>1 DEF IndexInv, RequestFresh, AnswerFresh, PendingRow, Loading, None
      <3> QED
        BY <1>1, <3>3, <3>6, <3>7, <3>8 DEF IndexInv
    <2> QED
      BY <2>2, <2>3
  <1> QED
    BY <1>8, <1>9, <1>10, <1>11, <1>12, <1>13, <1>14 DEF ServerStep

(* A restarted server has lost nothing where it neither keeps the matrix   *)
(* in memory nor decrypts.                                                 *)
LEMMA IndexRestart ==
    ASSUME IndexInv, DiskStorage, DecryptAtClient, Restart, UNCHANGED clientVars
    PROVE  IndexInv'
  <1> USE DEF clientVars
  <1>1. TypeOK' /\ Protocol'
    BY TypeRestart DEF IndexInv, TypeInv
  <1>2. pend = NoRow
    BY DEF IndexInv, PendingRow
  <1>3. /\ UNCHANGED <<I, st, rep, saved>>
        /\ pend' = NoRow /\ req' \in {req, None} /\ late' = None
    BY DEF Restart, RestartedMatrix
  <1>4. /\ LiveI' = LiveI /\ LiveS' = LiveS
        /\ \A r : LiveRow(r)' = LiveRow(r) /\ LiveSt(r)' = LiveSt(r)
    BY <1>2, <1>3 DEF LiveI, LiveS, LiveRow, LiveSt
  <1>5. RowCounters' = RowCounters /\ BlockCounters' = BlockCounters
    BY <1>3 DEF RowCounters, RowCounter, SearchPending, BlockCounters, UpdatePending
  <1>6. InUseAgrees'
    BY <1>4, <1>5 DEF IndexInv, InUseAgrees, InUse, Agree
  <1>7. Buffered(arg)'
    BY <1>3 DEF Buffered, StateOnDisk
  <1>8. RequestFresh'
    <2>1. RequestFresh
      BY DEF IndexInv
    <2>2. CASE req' = req
      BY <1>3, <1>5, <1>7, <2>1, <2>2 DEF RequestFresh, InUse
    <2>3. CASE req' = None
      BY <1>3, <2>3 DEF RequestFresh, None
    <2> QED
      BY <1>3, <2>2, <2>3
  <1>9. AnswerFresh'
    BY <1>3, <1>4, <1>7 DEF IndexInv, AnswerFresh, InUse
  <1>10. FilesAgree'
    BY <1>3, <1>4 DEF IndexInv, FilesAgree, Stopped
  <1>11. Loading'
    BY <1>3, <1>4 DEF IndexInv, Loading, Agree
  <1>12. SavedAgrees' /\ PendingRow'
    BY <1>3 DEF SavedAgrees, PendingRow, None
  <1> QED
    BY <1>1, <1>6, <1>8, <1>9, <1>10, <1>11, <1>12 DEF IndexInv

-----------------------------------------------------------------------------
(* The theorems *)

LEMMA IndexStep == BenignEnv /\ IndexInv /\ [Next]_vars => IndexInv'
  <1> SUFFICES ASSUME BenignEnv, IndexInv, [Next]_vars PROVE IndexInv'
    OBVIOUS
  <1>1. CASE ClientStep /\ UNCHANGED serverVars
    BY <1>1, IndexClient
  <1>2. CASE ServerStep /\ UNCHANGED clientVars
    BY <1>2, IndexServer
  <1>3. CASE ServerRestart /\ UNCHANGED clientVars
    BY <1>3, IndexRestart DEF ServerRestart, BenignEnv
  <1>4. CASE UNCHANGED vars
    <2>1. res' \in Plain
      BY <1>4 DEF IndexInv, TypeOK, ClientTypeOK, vars, clientVars
    <2> QED
      BY <1>4, <2>1, IndexKept DEF vars, clientVars
  <1> QED
    BY <1>1, <1>2, <1>3, <1>4 DEF Next

(* The index invariant holds throughout, in the surroundings the code      *)
(* copes with.                                                             *)
THEOREM IndexInvariant ==
    ASSUME BenignEnv
    PROVE  Spec => []IndexInv
  <1>1. Init => IndexInv
    BY IndexStart, BuiltAssumption DEF Init
  <1>2. IndexInv /\ [Next]_vars => IndexInv'
    BY IndexStep
  <1> QED
    BY <1>1, <1>2, PTL DEF Spec

LEMMA KeysImplied == IndexInv => KeysAgree
  BY DEF IndexInv, InUseAgrees, Agree, KeysAgree, LiveI, LiveS, RowCounters, BlockCounters

(* Whatever searches, updates, saves, loads and crashes go by, every block *)
(* is under the row key its state bit and the row's counter say, and under *)
(* the block's counter.                                                    *)
THEOREM KeysAlwaysAgree ==
    ASSUME BenignEnv
    PROVE  Spec => []KeysAgree
  BY KeysImplied, IndexInvariant, PTL

(* The state bits an update writes back are those on disk.                 *)
THEOREM BufferAlwaysFresh ==
    ASSUME BenignEnv
    PROVE  Spec => []BufferFresh
  <1>1. IndexInv => BufferFresh
    <2> SUFFICES ASSUME IndexInv, InUse, StateOnDisk, BlockSize > 1, req.cmd = "update"
                 PROVE  buf = LoadedBits(req.blk)
      BY DEF BufferFresh
    <2>1. Protocol /\ Loading /\ RequestFresh
      BY DEF IndexInv
    <2>2. req # None /\ req.blk = arg
      BY <2>1 DEF Protocol, InUse, Waiting, None
    <2> QED
      BY <2>1, <2>2 DEF RequestFresh, Buffered
  <1> QED
    BY <1>1, IndexInvariant, PTL
=============================================================================
