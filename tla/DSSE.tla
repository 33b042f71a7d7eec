-------------------------------- MODULE DSSE --------------------------------
(***************************************************************************)
(* The procedures of class DSSE (DSSE.cpp) on the encrypted index: search  *)
(* token, search, update token, update.  A block is the part of a row that *)
(* one AES-CTR call encrypts: BlockSize neighbouring columns.              *)
(*                                                                         *)
(* A ciphertext is the record of the row key and of the nonce it was made  *)
(* with and of its plaintext, the set of columns whose bit is 1.  Opened   *)
(* with any other key or nonce it yields Noise: bits nobody chose.         *)
(*                                                                         *)
(* A definition X_what, here and in the other modules, is X with a mistake *)
(* that could have been made in its code; no behaviour uses it.  It is     *)
(* there to see which property notices the mistake.                        *)
(***************************************************************************)
EXTENDS Integers

CONSTANTS
    NumRows,          \* MATRIX_ROW_SIZE: one row per keyword
    NumBlocks,        \* NUM_BLOCKS
    BlockSize,        \* ENCRYPT_BLOCK_SIZE, in columns
    ByteSize,         \* BYTE_SIZE: state bits that share a byte on disk
    DecryptAtClient,  \* DECRYPT_AT_CLIENT_SIDE (variants II and III)
    DiskStorage       \* DISK_STORAGE_MODE

ASSUME SizesAssumption ==
    /\ NumRows \in Nat \ {0}
    /\ NumBlocks \in Nat \ {0}
    /\ BlockSize \in Nat \ {0}
    /\ ByteSize \in Nat \ {0}

ASSUME VariantAssumption ==
    /\ DecryptAtClient \in BOOLEAN
    /\ DiskStorage \in BOOLEAN

NumCols == NumBlocks * BlockSize       \* MAX_NUM_OF_FILES
Rows    == 0 .. NumRows - 1
Cols    == 0 .. NumCols - 1
Blocks  == 0 .. NumBlocks - 1

BlockOf(c)   == c \div BlockSize
BlockCols(b) == {c \in Cols : BlockOf(c) = b}

-----------------------------------------------------------------------------
(* Ciphertexts *)

Noise  == {NumCols}                    \* a column no file can have
Plain  == SUBSET (Cols \cup Noise)
Keys   == Rows \X Nat
Nonces == Blocks \X Nat
Cell   == [key : Keys, nonce : Nonces, pt : Plain]
Matrix == [Rows -> [Blocks -> Cell]]

RowKey(r, counter) == <<r, counter>>
Nonce(b, counter)  == <<b, counter>>

Encrypt(key, nonce, pt) == [key |-> key, nonce |-> nonce, pt |-> pt]

Decrypt(cell, key, nonce) ==
    IF cell.key = key /\ cell.nonce = nonce THEN cell.pt ELSE Noise

(* What a freshly built index holds for the plaintext rows M. *)
EncryptedMatrix(M) ==
    [r \in Rows |-> [b \in Blocks |->
        Encrypt(RowKey(r, 1), Nonce(b, 1), M[r] \cap BlockCols(b))]]

-----------------------------------------------------------------------------
(* Searching at the server *)

Token == [row : Rows, row_key : Keys, row_old_key : Rows \X Int,
          hasRow_key : BOOLEAN]

SearchToken(r, kwCtr) ==
    [row         |-> r,
     row_key     |-> RowKey(r, kwCtr[r]),
     row_old_key |-> RowKey(r, kwCtr[r] - 1),
     hasRow_key  |-> kwCtr[r] > 1]

(* stRow is the set of blocks of the row whose state bit is set: they were *)
(* written since the row's last search, under the newest row key.          *)
NewestKey_noState(tau, stRow, b) == ~tau.hasRow_key

NewestKey(tau, stRow, b) == ~tau.hasRow_key \/ b \in stRow

OpenBlock(tau, row, stRow, bc, b) ==
    Decrypt(row[b],
            IF NewestKey(tau, stRow, b) THEN tau.row_key ELSE tau.row_old_key,
            Nonce(b, bc[b]))

SearchResult(tau, row, stRow, bc) ==
    UNION {OpenBlock(tau, row, stRow, bc, b) : b \in Blocks}

(* The row search() leaves behind; it clears every state bit of the row. *)
SearchedRow(tau, row, stRow, bc) ==
    [b \in Blocks |->
        IF NewestKey(tau, stRow, b)
        THEN row[b]
        ELSE Encrypt(tau.row_key, Nonce(b, bc[b]),
                     OpenBlock(tau, row, stRow, bc, b))]

-----------------------------------------------------------------------------
(* Searching at the client: enc_dec_preAESKey over a row of ciphertexts *)

DecryptRow(r, row, kwCtr, bc) ==
    UNION {Decrypt(row[b], RowKey(r, kwCtr[r]), Nonce(b, bc[b])) : b \in Blocks}

-----------------------------------------------------------------------------
(* addToken / delToken: column c of the block the client requested, b,     *)
(* becomes the indicator of the rows in W ({} when a file is deleted).     *)
(* The server-decrypt build derives the nonce from c; the client-decrypt   *)
(* build has computed its keys for b before c is known, and keeps only c's *)
(* place inside the block.                                                 *)

TokenBlock(b, c) == IF DecryptAtClient THEN b ELSE BlockOf(c)

TokenCol_firstBlock(b, c) ==
    IF DecryptAtClient THEN c % BlockSize ELSE c

TokenCol(b, c) ==
    IF DecryptAtClient THEN b * BlockSize + (c % BlockSize) ELSE c

OldCounter(r, stBlk, kwCtr) ==
    IF ~DecryptAtClient /\ kwCtr[r] > 1 /\ r \notin stBlk
    THEN kwCtr[r] - 1
    ELSE kwCtr[r]

UpdateToken_sameNonce(b, c, W, I_prime, stBlk, kwCtr, bc) ==
    LET blk == TokenBlock(b, c)
        col == TokenCol(b, c)
        old(r) == IF BlockSize = 1
                  THEN {}
                  ELSE Decrypt(I_prime[r], RowKey(r, OldCounter(r, stBlk, kwCtr)),
                               Nonce(blk, bc[blk]))
    IN  [r \in Rows |->
            Encrypt(RowKey(r, kwCtr[r]), Nonce(blk, bc[blk]),
                    (old(r) \ {col}) \cup (IF r \in W THEN {col} ELSE {}))]

UpdateToken_orOnly(b, c, W, I_prime, stBlk, kwCtr, bc) ==
    LET blk == TokenBlock(b, c)
        col == TokenCol(b, c)
        old(r) == IF BlockSize = 1
                  THEN {}
                  ELSE Decrypt(I_prime[r], RowKey(r, OldCounter(r, stBlk, kwCtr)),
                               Nonce(blk, bc[blk]))
    IN  [r \in Rows |->
            Encrypt(RowKey(r, kwCtr[r]), Nonce(blk, bc[blk] + 1),
                    old(r) \cup (IF r \in W THEN {col} ELSE {}))]

UpdateToken(b, c, W, I_prime, stBlk, kwCtr, bc) ==
    LET blk == TokenBlock(b, c)
        col == TokenCol(b, c)
        old(r) == IF BlockSize = 1
                  THEN {}
                  ELSE Decrypt(I_prime[r], RowKey(r, OldCounter(r, stBlk, kwCtr)),
                               Nonce(blk, bc[blk]))
    IN  [r \in Rows |->
            Encrypt(RowKey(r, kwCtr[r]), Nonce(blk, bc[blk] + 1),
                    (old(r) \ {col}) \cup (IF r \in W THEN {col} ELSE {}))]

-----------------------------------------------------------------------------
(* update and getBlock: one block of every row *)

BlockData(I, b) == [r \in Rows |-> I[r][b]]

WriteBlock(I, b, data) == [r \in Rows |-> [I[r] EXCEPT ![b] = data[r]]]
=============================================================================
