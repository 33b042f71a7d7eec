------------------------ MODULE EncryptedIndex_types ------------------------
(***************************************************************************)
(* EncryptedIndex is type correct whatever the surroundings do.  What an   *)
(* action takes from the channel has the type the action expects because   *)
(* only the call the client waits in puts anything there (Protocol), so    *)
(* the two are one induction.                                              *)
(***************************************************************************)
EXTENDS EncryptedIndexInv, DSSE_theorems

TypeInv == TypeOK /\ Protocol

(* A message of each kind carries what its kind says.                      *)
LEMMA RequestFields ==
    ASSUME NEW m \in Request \cup {None}
    PROVE  /\ m = None <=> m.cmd = "none"
           /\ m.cmd = "search" => m.tau \in Token
           /\ m.cmd = "search_data" => m.row \in Rows
           /\ m.cmd = "block_data" => m.blk \in Blocks
           /\ m.cmd = "update" => m.blk \in Blocks /\ m.data \in [Rows -> Cell]
  BY DEF Request, None

(* The same for the answers.                                               *)
LEMMA AnswerFields ==
    ASSUME NEW a \in Answer \cup {None}
    PROVE  /\ a = None <=> a.cmd = "none"
           /\ a.cmd = "files" => a.files \in Plain
           /\ a.cmd = "row" => a.row \in [Blocks -> Cell]
           /\ a.cmd = "block" => a.data \in [Rows -> Cell] /\ a.st \in SUBSET Rows
  BY DEF Answer, None

(* The converse: the messages the actions make are messages.               *)
LEMMA Messages ==
    /\ \A tau \in Token : [cmd |-> "search", tau |-> tau] \in Request
    /\ \A r \in Rows : [cmd |-> "search_data", row |-> r] \in Request
    /\ \A b \in Blocks : [cmd |-> "block_data", blk |-> b] \in Request
    /\ \A b \in Blocks, d \in [Rows -> Cell] :
          [cmd |-> "update", blk |-> b, data |-> d] \in Request
    /\ [cmd |-> "load"] \in Request
    /\ [cmd |-> "save"] \in Request
    /\ \A f \in Plain : [cmd |-> "files", files |-> f] \in Answer
    /\ \A w \in [Blocks -> Cell] : [cmd |-> "row", row |-> w] \in Answer
    /\ \A d \in [Rows -> Cell], s \in SUBSET Rows :
          [cmd |-> "block", data |-> d, st |-> s] \in Answer
    /\ [cmd |-> "success"] \in Answer
  BY DEF Request, Answer

(* The program starts well typed, with nothing in the channel, whatever    *)
(* plaintext rows the index is built from.                                 *)
LEMMA TypeStart ==
    ASSUME NEW M \in [Rows -> SUBSET Cols], ChannelInit, ClientInit, ServerInit(M)
    PROVE  TypeInv
  <1>1. ChannelTypeOK
    BY DEF ChannelInit, ChannelTypeOK
  <1>2. ClientTypeOK
    BY Columns DEF ClientInit, ClientTypeOK, NoUpdate, PC, Plain
  <1>3. ServerTypeOK
    <2>1. [r \in Rows |-> {}] \in [Rows -> SUBSET Cols]
      OBVIOUS
    <2>2. EncryptedMatrix(M) \in Matrix /\ NoMatrix \in Matrix
      BY <2>1, EncryptedMatrixType DEF NoMatrix
    <2> QED
      BY <2>2 DEF ServerInit, ServerTypeOK, NoState, AllOne, States
  <1>4. Protocol
    BY DEF ChannelInit, ClientInit, Protocol, Waiting
  <1> QED
    BY <1>1, <1>2, <1>3, <1>4 DEF TypeInv, TypeOK

(* The client's actions keep it so. *)
LEMMA TypeClient ==
    ASSUME TypeInv, ClientStep, UNCHANGED serverVars
    PROVE  TypeInv'
  <1> USE DEF TypeInv, TypeOK
  <1>1. SUFFICES ChannelTypeOK' /\ ClientTypeOK' /\ Protocol'
    BY DEF ServerTypeOK, serverVars
  <1>2. rep \in Answer \cup {None} /\ req \in Request \cup {None}
    BY DEF ChannelTypeOK
  <1>3. ASSUME NEW r \in Rows, SearchKeyword(r)
        PROVE  ChannelTypeOK' /\ ClientTypeOK' /\ Protocol'
    <2>1. SearchToken(r, kwCtr) \in Token
      BY SearchTokenType DEF ClientTypeOK
    <2>2. ChannelTypeOK'
      <3>1. [cmd |-> "search", tau |-> SearchToken(r, kwCtr)] \in Request
        BY <2>1, Messages
      <3>2. [cmd |-> "search_data", row |-> r] \in Request
        BY Messages
      <3> QED
        BY <1>3, <3>1, <3>2 DEF SearchKeyword, Send, ChannelTypeOK
    <2>3. ClientTypeOK'
      <3>1. kwCtr' \in [Rows -> Nat]
        BY <1>3 DEF SearchKeyword, ClientTypeOK
      <3>2. r \in Nat
        BY SizesAssumption DEF Rows
      <3>3. /\ pc' = "search" /\ arg' = r /\ res' = {}
            /\ UNCHANGED <<ready, blkCtr, upd, disk>>
        BY <1>3 DEF SearchKeyword
      <3> QED
        BY <3>1, <3>2, <3>3 DEF ClientTypeOK, PC, Waiting, Plain
    <2>4. Protocol'
      BY <1>3 DEF SearchKeyword, Send, Protocol, Waiting, None
    <2> QED
      BY <2>2, <2>3, <2>4
  <1>4. ASSUME NEW how \in {"off", "halted"}, Gone(how), UNCHANGED disk
        PROVE  ClientTypeOK'
    BY <1>4, Columns DEF Gone, ClientTypeOK, PC, NoUpdate, Plain
  <1>5. ASSUME NEW r \in Rows, SearchExhausted(r)
        PROVE  ChannelTypeOK' /\ ClientTypeOK' /\ Protocol'
    <2>1. ClientTypeOK'
      BY <1>4, <1>5 DEF SearchExhausted
    <2> QED
      BY <1>5, <2>1 DEF SearchExhausted, Gone, ChannelTypeOK, Protocol, Waiting
  <1>6. CASE SearchDone
    <2>1. DecryptAtClient => DecryptRow(arg, rep.row, kwCtr, blkCtr) \in Plain
      BY <1>2, <1>6, AnswerFields, DecryptRowType DEF SearchDone, TakeAnswer, Protocol
    <2>2. ~DecryptAtClient => rep.files \in Plain
      BY <1>2, <1>6, AnswerFields DEF SearchDone, TakeAnswer, Protocol
    <2>3. ChannelTypeOK' /\ Protocol'
      BY <1>6 DEF SearchDone, TakeAnswer, ChannelTypeOK, Protocol, Waiting
    <2>4. ClientTypeOK'
      BY <1>6, <2>1, <2>2 DEF SearchDone, ClientTypeOK, PC
    <2> QED
      BY <2>3, <2>4
  <1>7. ASSUME NEW b \in Blocks, RequestBlock(b)
        PROVE  ChannelTypeOK' /\ ClientTypeOK' /\ Protocol'
    <2>1. ChannelTypeOK'
      BY <1>7, Messages DEF RequestBlock, Send, ChannelTypeOK
    <2>2. ClientTypeOK'
      BY <1>7, SizesAssumption DEF RequestBlock, ClientTypeOK, PC, Waiting, Blocks, Plain
    <2>3. Protocol'
      BY <1>7 DEF RequestBlock, Send, Protocol, Waiting
    <2> QED
      BY <2>1, <2>2, <2>3
  <1>8. ASSUME NEW b \in Blocks, NEW c \in BlockCols(b), NEW W \in SUBSET Rows,
               SendBlock(b, c, W)
        PROVE  ChannelTypeOK' /\ ClientTypeOK' /\ Protocol'
    <2> DEFINE data == IF BlockSize > 1 THEN rep.data ELSE <<>>
               stBlk == IF BlockSize > 1 THEN rep.st ELSE {}
               tok  == UpdateToken(b, c, W, data, stBlk, kwCtr, blkCtr)
    <2>1. BlockSize > 1 => data \in [Rows -> Cell]
      BY <1>2, <1>8, AnswerFields DEF SendBlock, Protocol
    <2>2. tok \in [Rows -> Cell]
      <3> HIDE DEF data, stBlk
      <3> QED
        BY <2>1, UpdateTokenType DEF ClientTypeOK
    <2>3. req' = [cmd |-> "update", blk |-> b, data |-> tok]
      BY <1>8 DEF SendBlock
    <2> HIDE DEF tok
    <2>4. ChannelTypeOK'
      BY <1>8, <2>2, <2>3, Messages DEF SendBlock, ChannelTypeOK
    <2>5. ClientTypeOK'
      BY <1>8, Columns, SizesAssumption
      DEF SendBlock, ClientTypeOK, PC, Waiting, Blocks, Plain
    <2>6. Protocol'
      BY <1>8, <2>3 DEF SendBlock, Protocol, Waiting, None
    <2> QED
      BY <2>4, <2>5, <2>6
  <1>9. CASE UpdateDone
    BY <1>9, Columns
    DEF UpdateDone, TakeAnswer, ChannelTypeOK, ClientTypeOK, Protocol, Waiting, PC, NoUpdate
  <1>10. CASE LoadState
    <2>1. ChannelTypeOK'
      BY <1>10, Messages DEF LoadState, Send, ChannelTypeOK
    <2>2. ClientTypeOK'
      BY <1>10 DEF LoadState, ClientTypeOK, PC, Waiting, Plain
    <2>3. Protocol'
      BY <1>10 DEF LoadState, Send, Protocol, Waiting
    <2> QED
      BY <2>1, <2>2, <2>3
  <1>11. CASE LoadDone
    BY <1>11 DEF LoadDone, TakeAnswer, ChannelTypeOK, ClientTypeOK, Protocol, Waiting, PC
  <1>12. CASE SaveState
    BY <1>12 DEF SaveState, ChannelTypeOK, ClientTypeOK, Protocol, Waiting, PC, Plain
  <1>13. CASE SendSave
    BY <1>13, Messages
    DEF SendSave, Send, ChannelTypeOK, ClientTypeOK, Protocol, Waiting, PC
  <1>14. CASE Exit
    <2>1. ClientTypeOK'
      BY <1>4, <1>14 DEF Exit
    <2> QED
      BY <1>14, <2>1 DEF Exit, Gone, TakeAnswer, ChannelTypeOK, Protocol, Waiting
  <1>15. CASE Start
    BY <1>15 DEF Start, ChannelTypeOK, ClientTypeOK, Protocol, Waiting, PC
  <1>16. CASE Crash
    <2>1. ClientTypeOK'
      BY <1>4, <1>16 DEF Crash
    <2> QED
      BY <1>16, <2>1 DEF Crash, Gone, ChannelTypeOK, Protocol, Waiting
  <1> QED
    BY <1>3, <1>5, <1>6, <1>7, <1>8, <1>9, <1>10, <1>11, <1>12, <1>13, <1>14,
       <1>15, <1>16
    DEF ClientStep

(* So do the server's, whoever sent the request. *)
LEMMA TypeServer ==
    ASSUME TypeInv, ServerStep, UNCHANGED clientVars
    PROVE  TypeInv'
  <1> USE DEF TypeInv, TypeOK
  <1>1. SUFFICES ChannelTypeOK' /\ ServerTypeOK' /\ Protocol'
    BY DEF ClientTypeOK, clientVars
  <1>2. Incoming \in Request \cup {None}
    BY DEF ChannelTypeOK, Incoming
  <1>3. ASSUME NEW a \in Answer, Reply(a)
        PROVE  ChannelTypeOK'
    BY <1>3 DEF Reply, ChannelTypeOK
  (* The running client gets its answer, or the killed one's is dropped. *)
  <1>4. ASSUME NEW a, Reply(a), a # None,
               late = None /\ pc = "search" => a.cmd = IF DecryptAtClient THEN "row" ELSE "files",
               late = None /\ pc = "fetch" => a.cmd = "block",
               late = None /\ pc \in {"update", "load", "save"} => a.cmd = "success",
               late = None => pc \in Waiting
        PROVE  Protocol'
    BY <1>4 DEF Reply, Protocol, clientVars, Waiting
  <1>5. ASSUME NEW cmd, Serve(cmd), cmd # "none", late = None
        PROVE  /\ pc \in Waiting
               /\ pc = "search" => cmd = IF DecryptAtClient THEN "search_data" ELSE "search"
               /\ pc = "fetch" => cmd = "block_data"
               /\ pc \in {"update", "load", "save"} => cmd = pc
    BY <1>5 DEF Serve, Incoming, Protocol, Waiting, None
  <1>6. CASE HandleSearch
    <2> DEFINE tau == Incoming.tau
               r   == tau.row
               next == SearchedRow(tau, I[r], st[r], sBlkCtr)
               files == SearchResult(tau, I[r], st[r], sBlkCtr)
    <2>1. Serve("search") /\ Incoming.cmd = "search" /\ tau \in Token /\ r \in Rows
      BY <1>2, <1>6, RequestFields DEF HandleSearch, Serve, Token
    <2>2. I[r] \in [Blocks -> Cell] /\ files \in Plain /\ next \in [Blocks -> Cell]
      BY <2>1, SearchType DEF ServerTypeOK, Matrix
    <2>3. Reply([cmd |-> "files", files |-> files])
      BY <1>6 DEF HandleSearch
    <2>4. [cmd |-> "files", files |-> files] \in Answer
      BY <2>2, Messages
    <2>5. /\ pend' = [row |-> r, cells |-> next] \/ UNCHANGED pend
          /\ I' = [I EXCEPT ![r] = next] \/ UNCHANGED I
          /\ st' = [st EXCEPT ![r] = {}] \/ UNCHANGED st
          /\ UNCHANGED <<sBlkCtr, buf, saved>>
      BY <1>6 DEF HandleSearch
    <2> HIDE DEF tau, r, next, files
    <2>6. ServerTypeOK'
      <3>1. I' \in Matrix
        BY <2>1, <2>2, <2>5 DEF ServerTypeOK, Matrix
      <3>2. st' \in States
        BY <2>1, <2>5 DEF ServerTypeOK, States
      <3>3. pend' \in [row : Rows, cells : [Blocks -> Cell]] \cup {NoRow}
        BY <2>1, <2>2, <2>5 DEF ServerTypeOK
      <3> QED
        BY <2>5, <3>1, <3>2, <3>3 DEF ServerTypeOK
    <2>7. late = None /\ pc = "search" => ~DecryptAtClient
      BY <1>5, <2>1
    <2>8. Protocol'
      BY <1>4, <1>5, <2>1, <2>3, <2>7 DEF None
    <2> QED
      BY <1>3, <2>3, <2>4, <2>6, <2>8
  <1>7. CASE SaveRow
    <2>1. pend \in [row : Rows, cells : [Blocks -> Cell]]
      BY <1>7 DEF SaveRow, ServerTypeOK
    <2>2. ServerTypeOK'
      BY <1>7, <2>1 DEF SaveRow, ServerTypeOK, Matrix, States
    <2> QED
      BY <1>7, <2>2 DEF SaveRow, ChannelTypeOK, Protocol, clientVars
  <1>8. CASE HandleSearchData
    <2>1. Serve("search_data") /\ Incoming.row \in Rows
      BY <1>2, <1>8, RequestFields DEF HandleSearchData, Serve
    <2>2. I[Incoming.row] \in [Blocks -> Cell]
      BY <2>1 DEF ServerTypeOK, Matrix
    <2>3. /\ Reply([cmd |-> "row", row |-> I[Incoming.row]])
          /\ UNCHANGED serverVars
      BY <1>8 DEF HandleSearchData
    <2>4. [cmd |-> "row", row |-> I[Incoming.row]] \in Answer
      BY <2>2, Messages
    <2>5. Protocol'
      BY <1>4, <1>5, <2>1, <2>3, VariantAssumption DEF None
    <2> QED
      BY <1>3, <2>3, <2>4, <2>5 DEF ServerTypeOK, serverVars
  <1>9. CASE HandleBlockData
    <2> DEFINE b == Incoming.blk
               bits == IF StateOnDisk THEN LoadedBits(b) ELSE buf
               set == IF DecryptAtClient THEN {}
                      ELSE IF DiskStorage
                      THEN {r \in Rows : b % ByteSize \in bits[r]}
                      ELSE {r \in Rows : b \in st[r]}
               ans == [cmd |-> "block", data |-> BlockData(I, b), st |-> set]
    <2>1. Serve("block_data") /\ b \in Blocks
      BY <1>2, <1>9, RequestFields DEF HandleBlockData, BlockAnswer, BlockBits, Serve
    <2>2. bits \in [Rows -> SUBSET Bits]
      <3>1. \A x \in Blocks : x % ByteSize \in Bits
        BY SizesAssumption, Division DEF Bits, Blocks
      <3> QED
        BY <3>1 DEF LoadedBits, StateByte, ServerTypeOK
    <2>3. BlockData(I, b) \in [Rows -> Cell] /\ set \in SUBSET Rows
      BY <2>1 DEF BlockData, ServerTypeOK, Matrix
    <2>4. buf' = bits /\ Reply(ans) /\ UNCHANGED <<I, st, sBlkCtr, pend, saved>>
      BY <1>9 DEF HandleBlockData, BlockAnswer, BlockBits
    <2>5. ans \in Answer /\ ans.cmd = "block" /\ ans # None
      BY <2>3, Messages DEF None
    <2> HIDE DEF b, bits, set, ans
    <2>6. Protocol'
      BY <1>4, <1>5, <2>1, <2>4, <2>5
    <2> QED
      BY <1>3, <2>2, <2>4, <2>5, <2>6 DEF ServerTypeOK
  <1>10. CASE HandleUpdate
    <2> DEFINE b == Incoming.blk
               now == IF BlockSize = 1 THEN LoadedBits(b) ELSE buf
               set == [r \in Rows |-> now[r] \cup {b % ByteSize}]
    <2>1. Serve("update") /\ b \in Blocks /\ Incoming.data \in [Rows -> Cell]
      BY <1>2, <1>10, RequestFields DEF HandleUpdate, SetBit, Serve
    <2>2. \A x \in Blocks : x % ByteSize \in Bits
      BY SizesAssumption, Division DEF Bits, Blocks
    <2>3. now \in [Rows -> SUBSET Bits]
      BY <2>2 DEF LoadedBits, StateByte, ServerTypeOK
    <2>4. set \in [Rows -> SUBSET Bits]
      BY <2>1, <2>2, <2>3
    <2>5. /\ I' = WriteBlock(I, b, Incoming.data)
          /\ sBlkCtr' = [sBlkCtr EXCEPT ![b] = @ + 1] \/ UNCHANGED sBlkCtr
          /\ buf' = set \/ UNCHANGED buf
          /\ \/ st' = SavedBits(b, set)
             \/ st' = [r \in Rows |-> st[r] \cup {b}]
             \/ UNCHANGED st
          /\ UNCHANGED <<pend, saved>>
          /\ Reply([cmd |-> "success"])
      BY <1>10 DEF HandleUpdate, SetBit
    <2>6. I' \in Matrix
      BY <2>1, <2>5, BlockType DEF ServerTypeOK
    <2>7. SavedBits(b, set) \in States
      BY DEF SavedBits, StateByte, States, ServerTypeOK
    <2>8. st' \in States
      BY <2>1, <2>5, <2>7 DEF States, ServerTypeOK
    <2>9. sBlkCtr' \in [Blocks -> Nat]
      BY <2>1, <2>5 DEF ServerTypeOK
    <2> HIDE DEF b, now, set
    <2>10. ServerTypeOK'
      BY <2>4, <2>5, <2>6, <2>8, <2>9 DEF ServerTypeOK
    <2>11. Protocol'
      BY <1>4, <1>5, <2>1, <2>5 DEF None
    <2> QED
      BY <1>3, <2>5, <2>10, <2>11, Messages
  <1>11. CASE HandleLoad
    <2>1. ServerTypeOK'
      BY <1>11 DEF HandleLoad, LoadedCounters, ServerTypeOK
    <2>2. Serve("load") /\ Reply([cmd |-> "success"])
      BY <1>11 DEF HandleLoad, LoadedCounters
    <2> QED
      BY <1>3, <1>4, <1>5, <2>1, <2>2, Messages DEF None
  <1>12. CASE HandleSave
    <2>1. ServerTypeOK'
      BY <1>12 DEF HandleSave, SavedStates, ServerTypeOK
    <2>2. Serve("save") /\ Reply([cmd |-> "success"])
      BY <1>12 DEF HandleSave, SavedStates
    <2> QED
      BY <1>3, <1>4, <1>5, <2>1, <2>2, Messages DEF None
  <1> QED
    BY <1>6, <1>7, <1>8, <1>9, <1>10, <1>11, <1>12 DEF ServerStep

(* And so does a restart of the server. *)
LEMMA TypeRestart ==
    ASSUME TypeInv, Restart, UNCHANGED clientVars
    PROVE  TypeInv'
  <1> USE DEF TypeInv, TypeOK
  <1>1. ClientTypeOK' /\ Protocol' /\ ChannelTypeOK'
    BY DEF ClientTypeOK, clientVars, Restart, Protocol, ChannelTypeOK
  <1>2. \A r \in Rows, b \in Blocks : Unallocated(r, b) \in Cell
    BY DEF Unallocated, Encrypt, RowKey, Nonce, Keys, Nonces, Cell, Plain
  <1>3. I' \in Matrix
    BY <1>2 DEF Restart, RestartedMatrix, ServerTypeOK, Matrix
  <1> QED
    BY <1>1, <1>3 DEF Restart, ServerTypeOK, NoState, AllOne, States

(* Every step of client or server keeps it so.                             *)
LEMMA TypeStep == TypeInv /\ [Next]_vars => TypeInv'
  <1> SUFFICES ASSUME TypeInv, [Next]_vars PROVE TypeInv'
    OBVIOUS
  <1>1. CASE ClientStep /\ UNCHANGED serverVars
    BY <1>1, TypeClient
  <1>2. CASE ServerStep /\ UNCHANGED clientVars
    BY <1>2, TypeServer
  <1>3. CASE ServerRestart /\ UNCHANGED clientVars
    BY <1>3, TypeRestart DEF ServerRestart
  <1>4. CASE UNCHANGED vars
    BY <1>4 DEF vars, chanVars, clientVars, serverVars, TypeInv, TypeOK, Protocol,
                ChannelTypeOK, ClientTypeOK, ServerTypeOK
  <1> QED
    BY <1>1, <1>2, <1>3, <1>4 DEF Next

(* Every value the program computes has the type its use expects, whatever *)
(* becomes of the processes.                                               *)
THEOREM TypeCorrect == Spec => [](TypeOK /\ Protocol)
  <1>1. Init => TypeInv
    BY TypeStart, BuiltAssumption DEF Init
  <1>2. TypeInv /\ [Next]_vars => TypeInv'
    BY TypeStep
  <1> QED
    BY <1>1, <1>2, PTL DEF Spec, TypeInv
=============================================================================
