---------------------------- MODULE MatrixFiles ----------------------------
(***************************************************************************)
(* The server's files on disk storage: the encrypted matrix, split by      *)
(* columns into piece files, and the matrix of state bits, a bit for each  *)
(* row and block.  The server reads and writes single rows and single      *)
(* blocks at computed offsets; a block can be smaller than the byte that   *)
(* has to be written for it.  A row or a piece written to a file is one    *)
(* step, and the server can be killed between two of them.                 *)
(*                                                                         *)
(* A bit of a file holds the number of the write that last encrypted it.   *)
(***************************************************************************)
EXTENDS Integers, Sequences, FiniteSets

CONSTANTS NumRows,      \* MATRIX_ROW_SIZE
          Geometries,   \* the configurations looked at
          MaxWrites     \* bound: updates and searches

(* config.h: bits in a byte, in a block, bytes of a row in a piece, bits   *)
(* of a row; states: not DECRYPT_AT_CLIENT_SIDE.  restarts: the server may *)
(* be killed.                                                              *)
ASSUME MatrixFilesAssumption ==
    /\ NumRows \in Nat \ {0} /\ MaxWrites \in Nat
    /\ \A g \in Geometries :
          /\ \A n \in {g.byte, g.block, g.piece, g.cols} : n \in Nat \ {0}
          /\ g.states \in BOOLEAN /\ g.restarts \in BOOLEAN
          \* the blocks fill the pieces, the pieces the rows, and the state
          \* bits their bytes: what the code takes for granted
          /\ (g.piece * g.byte) % g.block = 0
          /\ g.cols % (g.piece * g.byte) = 0
          /\ (g.cols \div g.block) % g.byte = 0
          \* 1, 2, 4 or divisible by 8
          /\ g.block % g.byte = 0 \/ g.byte % g.block = 0

VARIABLES geo,        \* the configuration the server was compiled for
          matrix,     \* piece -> position -> bit, the files "0_n"
          states,     \* row -> blocks whose bit is set, the file "b_0_0"
          I_update,   \* row -> the bytes around a block, as read last
          updBits,    \* block_state_mat_update: row -> bits of one byte
          client,     \* the block the client has fetched and will update
          work,       \* the request the server is on
          writes,     \* updates and searches so far
          answer      \* what was last answered

vars == <<geo, matrix, states, I_update, updBits, client, work, writes, answer>>

Rows   == 0 .. NumRows - 1
Cols   == 0 .. geo.cols - 1
Blocks == 0 .. (geo.cols \div geo.block) - 1
Idle   == [op |-> "none"]
Nobody == -1
Unread == -1      \* memory that was set to 0: no write left it

PieceBits == geo.piece * geo.byte                        \* of one row
Pieces    == 0 .. (geo.cols \div PieceBits) - 1
Blk(c)    == c \div geo.block

(* ceil(ENCRYPT_BLOCK_SIZE / BYTE_SIZE) bytes are read and written for a   *)
(* block; n1 is where they begin in the row of a piece, and the place of   *)
(* the block inside them is idx.                                           *)
BlockBytes  == (geo.block + geo.byte - 1) \div geo.byte
PieceOf(b)  == (b * geo.block) \div PieceBits
n1(b)       == ((b * geo.block) % PieceBits) \div geo.byte
idx_zero(b) == 0
idx(b)      == IF geo.block < geo.byte THEN b % (geo.byte \div geo.block) ELSE 0
BufferBits  == 0 .. BlockBytes * geo.byte - 1
InBuffer(b) == idx(b) * geo.block .. idx(b) * geo.block + geo.block - 1

(* Position of row r's bit k of the bytes of block b in its piece: n1 + c  *)
(* + n2 is a row of the piece, so the seeks end where the next row begins. *)
Offset(r, b, k) == (r * geo.piece + n1(b)) * geo.byte + k

(* Where column c of row r is: what reading a row, piece by piece, uses.   *)
Bit(r, c) == matrix[c \div PieceBits][r * PieceBits + (c % PieceBits)]

(* read_single_block_from_file, read for each row of the block.            *)
LoadedBytes(b) ==
    [r \in Rows |-> [k \in BufferBits |-> matrix[PieceOf(b)][Offset(r, b, k)]]]

(* The byte of state bits that block b shares.                             *)
ByteOf(b)     == {s \in Blocks : s \div geo.byte = b \div geo.byte}
LoadedBits(b) == [r \in Rows |-> {s % geo.byte : s \in states[r] \cap ByteOf(b)}]

(* What a set of bits was encrypted to: one write, if it is one block.     *)
Mixed == -2
Whole(bits) == IF Cardinality(bits) = 1 THEN CHOOSE v \in bits : TRUE ELSE Mixed

Init ==
    /\ geo \in Geometries
    /\ matrix = [p \in Pieces |-> [k \in 0 .. NumRows * PieceBits - 1 |-> 0]]
    /\ states = [r \in Rows |-> {}]
    /\ I_update = [r \in Rows |-> [k \in BufferBits |-> Unread]]
    /\ updBits = [r \in Rows |-> {}]
    /\ client = Nobody
    /\ work = Idle
    /\ writes = 0
    /\ answer = <<>>

---------------------------------------------------------------------------
(* Requests.                                                               *)

(* getBlock_data(COL), which a client sends before an update if a block is *)
(* more than one column: it loads the block and its byte of state bits.    *)
GetBlock(b) ==
    /\ work = Idle /\ client = Nobody /\ geo.block > 1 /\ writes < MaxWrites
    /\ client' = b
    /\ I_update' = LoadedBytes(b)
    /\ updBits' = IF geo.states THEN LoadedBits(b) ELSE updBits
    /\ answer' = <<[r \in Rows |-> Whole({I_update'[r][k] : k \in InBuffer(b)})],
                   [r \in Rows |-> geo.states /\ b % geo.byte \in updBits'[r]]>>
    /\ UNCHANGED <<geo, matrix, states, work, writes>>

(* getBlock_data(ROW), the search of variants II and III.                  *)
RowAnswer(r) == <<[b \in Blocks |-> Whole({Bit(r, c) : c \in {c \in Cols : Blk(c) = b}})],
                  [b \in Blocks |-> b \in states[r]]>>

GetRow(r) ==
    /\ work = Idle /\ client = Nobody /\ ~geo.states
    /\ answer' = RowAnswer(r)
    /\ UNCHANGED <<geo, matrix, states, I_update, updBits, client, work, writes>>

(* searchKeyword: the blocks not updated since the last search are         *)
(* re-encrypted (if there was one), the answer is sent, and the row and    *)
(* then its state bits are written back.                                   *)
SearchKeyword(r) ==
    /\ work = Idle /\ client = Nobody /\ geo.states /\ writes < MaxWrites
    /\ writes' = writes + 1
    /\ answer' = RowAnswer(r)
    /\ \E hasRow_key \in BOOLEAN :
          work' = [op |-> "search", at |-> r, matrixTodo |-> Pieces, bitsTodo |-> {r},
                   row |-> [c \in Cols |-> IF hasRow_key /\ Blk(c) \notin states[r]
                                           THEN writes + 1 ELSE Bit(r, c)]]
    /\ UNCHANGED <<geo, matrix, states, I_update, updBits, client>>

(* loadData_from_file in updateBlock_data: only for blocks of one column.  *)
(* Others are put into what the last request left in the buffers.          *)
Buffer_neverLoaded(b) == I_update

Buffer(b) == IF geo.block = 1 THEN LoadedBytes(b) ELSE I_update

BufferBit_neverLoaded(b) == updBits

BufferBit(b) == IF geo.block = 1 /\ geo.states THEN LoadedBits(b) ELSE updBits

UpdateBlock(b) ==
    /\ work = Idle /\ writes < MaxWrites
    /\ IF geo.block > 1 THEN client = b ELSE client = Nobody
    /\ client' = Nobody
    /\ writes' = writes + 1
    /\ I_update' = [r \in Rows |-> [k \in BufferBits |->
                      IF k \in InBuffer(b) THEN writes + 1 ELSE Buffer(b)[r][k]]]
    /\ updBits' = IF geo.states
                  THEN [r \in Rows |-> BufferBit(b)[r] \cup {b % geo.byte}] ELSE updBits
    /\ work' = [op |-> "update", at |-> b, matrixTodo |-> Rows,
                bitsTodo |-> IF geo.states THEN Rows ELSE {}]
    /\ UNCHANGED <<geo, matrix, states, answer>>

---------------------------------------------------------------------------
(* saveData_to_file, a write at a time: the matrix first, then the bits.   *)

Least(S) == {x \in S : \A y \in S : x <= y}

(* What is left to write, and Idle when nothing is.                        *)
After(w) == IF w.matrixTodo = {} /\ w.bitsTodo = {} THEN Idle ELSE w

MatrixWritten(w, n) ==
    IF w.op = "update"
    THEN [matrix EXCEPT ![PieceOf(w.at)] =
            [k \in DOMAIN @ |->
                IF \E j \in BufferBits : k = Offset(n, w.at, j)
                THEN I_update[n][k - Offset(n, w.at, 0)] ELSE @[k]]]
    ELSE [matrix EXCEPT ![n] =
            [k \in DOMAIN @ |->
                IF k \div PieceBits = w.at
                THEN w.row[n * PieceBits + (k % PieceBits)] ELSE @[k]]]

WriteMatrix ==
    /\ work # Idle /\ work.matrixTodo # {}
    /\ \E n \in Least(work.matrixTodo) :
          /\ matrix' = MatrixWritten(work, n)
          /\ work' = After([work EXCEPT !.matrixTodo = @ \ {n}])
    /\ UNCHANGED <<geo, states, I_update, updBits, client, writes, answer>>

BitsWritten(w, r) ==
    IF w.op = "update"
    THEN [states EXCEPT ![r] = (@ \ ByteOf(w.at)) \cup
                               {s \in ByteOf(w.at) : s % geo.byte \in updBits[r]}]
    ELSE [states EXCEPT ![r] = {}]

WriteBits ==
    /\ work # Idle /\ work.matrixTodo = {}
    /\ \E r \in Least(work.bitsTodo) :
          /\ states' = BitsWritten(work, r)
          /\ work' = After([work EXCEPT !.bitsTodo = @ \ {r}])
    /\ UNCHANGED <<geo, matrix, I_update, updBits, client, writes, answer>>

---------------------------------------------------------------------------
(* The server is killed and started again: its buffers are zero.  A client *)
(* it left without an answer ends, and so does the request it was on.      *)
Restart ==
    /\ geo.restarts
    /\ I_update' = [r \in Rows |-> [k \in BufferBits |-> Unread]]
    /\ updBits' = [r \in Rows |-> {}]
    /\ work' = Idle
    /\ UNCHANGED <<geo, matrix, states, client, writes, answer>>

(* The client is killed between its two requests.                          *)
ClientGone ==
    /\ client # Nobody
    /\ client' = Nobody
    /\ UNCHANGED <<geo, matrix, states, I_update, updBits, work, writes, answer>>

Next ==
    \/ \E b \in Blocks : GetBlock(b) \/ UpdateBlock(b)
    \/ \E r \in Rows : GetRow(r) \/ SearchKeyword(r)
    \/ WriteMatrix \/ WriteBits
    \/ Restart \/ ClientGone

Spec == Init /\ [][Next]_vars

---------------------------------------------------------------------------
Searches ==
    [op : {"search"}, at : Rows, matrixTodo : SUBSET Pieces, bitsTodo : SUBSET Rows,
     row : [Cols -> 0 .. MaxWrites]]

Updates ==
    [op : {"update"}, at : Blocks, matrixTodo : SUBSET Rows, bitsTodo : SUBSET Rows]

FilesTypeOK ==
    /\ geo \in Geometries
    /\ matrix \in [Pieces -> [0 .. NumRows * PieceBits - 1 -> 0 .. MaxWrites]]
    /\ states \in [Rows -> SUBSET Blocks]
    /\ \/ I_update = [r \in Rows |-> [k \in BufferBits |-> Unread]]
       \/ I_update \in [Rows -> [BufferBits -> 0 .. MaxWrites]]
    /\ updBits \in [Rows -> SUBSET (0 .. geo.byte - 1)]
    /\ client \in Blocks \cup {Nobody}
    /\ work = Idle \/ work \in Searches \/ work \in Updates
    /\ writes \in 0 .. MaxWrites

(* saveEncrypted_matrix_to_files "only saves a single block": whatever is  *)
(* written, killed half way or not, no bit of another block changes, and   *)
(* no row but the one that was searched.                                   *)
Mine(r, b) == \/ work.op = "update" /\ work.at = b
              \/ work.op = "search" /\ work.at = r

OthersUntouched ==
    [][\A r \in Rows :
          /\ \A c \in Cols : Bit(r, c)' # Bit(r, c) => Mine(r, Blk(c))
          /\ \A b \in Blocks : (b \in states'[r]) # (b \in states[r]) => Mine(r, b)]_vars

(* What is in the files, with what is still to be written of the request   *)
(* the server is on.                                                       *)
FinalBit(r, c) ==
    CASE work.op = "update" /\ r \in work.matrixTodo /\ Blk(c) = work.at -> writes
      [] work.op = "search" /\ r = work.at /\ c \div PieceBits \in work.matrixTodo -> work.row[c]
      [] OTHER -> Bit(r, c)

FinalState(r, b) ==
    \/ work.op = "update" /\ r \in work.bitsTodo /\ b = work.at
    \/ b \in states[r] /\ ~(work.op = "search" /\ r \in work.bitsTodo)

(* However the blocks lie in bytes and pieces, and whatever the buffers    *)
(* held, the server's files are an array of blocks that are read and       *)
(* replaced whole.                                                         *)
Array == INSTANCE BlockArray WITH
    Contents <- 0 .. MaxWrites,
    blocks   <- Blocks,
    content  <- [r \in Rows |-> [b \in Blocks |->
                   Whole({FinalBit(r, c) : c \in {c \in Cols : Blk(c) = b}})]],
    bit      <- [r \in Rows |-> [b \in Blocks |-> FinalState(r, b)]]

ImplementsBlockArray == Array!Spec

=============================================================================
