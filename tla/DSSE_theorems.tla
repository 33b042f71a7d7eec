--------------------------- MODULE DSSE_theorems ----------------------------
(***************************************************************************)
(* What the procedures of module DSSE return: their types, and when they   *)
(* open what they are given.                                               *)
(***************************************************************************)
EXTENDS DSSE, TLAPS

(* A column is its block and its place in the block.                       *)
LEMMA Division ==
    ASSUME NEW n \in Nat \ {0}, NEW x \in Nat
    PROVE  /\ x \div n \in Nat
           /\ x % n \in 0 .. n - 1
           /\ x = n * (x \div n) + (x % n)
  OBVIOUS

(* Two numbers with the same quotient and the same remainder are equal.    *)
LEMMA DivisionUnique ==
    ASSUME NEW n \in Nat \ {0}, NEW x \in Nat, NEW y \in Nat,
           x \div n = y \div n, x % n = y % n
    PROVE  x = y
  BY Division

(* Column 0 exists, and the place of c in the requested block b is c.      *)
LEMMA Columns ==
    /\ NumCols \in Nat
    /\ 0 \in Cols
    /\ NumCols \notin Cols
    /\ \A b \in Blocks : \A c \in BlockCols(b) :
          c \in Cols /\ TokenBlock(b, c) = b /\ TokenCol(b, c) = c
  <1>1. NumCols \in Nat /\ NumCols > 0
    BY SizesAssumption DEF NumCols
  <1>2. ASSUME NEW b \in Blocks, NEW c \in BlockCols(b)
        PROVE  c \in Cols /\ TokenBlock(b, c) = b /\ TokenCol(b, c) = c
    <2>1. c \in Cols /\ c \div BlockSize = b /\ b \in Nat /\ c \in Nat
      BY <1>1, SizesAssumption DEF BlockCols, BlockOf, Cols, Blocks
    <2>2. c = BlockSize * b + (c % BlockSize)
      BY <2>1, SizesAssumption, Division
    <2>3. BlockSize * b = b * BlockSize
      BY <2>1, SizesAssumption
    <2> QED
      BY <2>1, <2>2, <2>3 DEF TokenBlock, TokenCol, BlockOf
  <1> QED
    BY <1>1, <1>2 DEF Cols

(* Every column lies in a block.                                           *)
LEMMA ColumnBlock == \A c \in Cols : BlockOf(c) \in Blocks
  <1> TAKE c \in Cols
  <1>1. c \in Nat /\ NumBlocks \in Nat /\ BlockSize \in Nat /\ c < NumBlocks * BlockSize
    BY Columns, SizesAssumption DEF Cols, NumCols
  <1> DEFINE q == c \div BlockSize
  <1>2. /\ q \in Nat /\ c % BlockSize \in Nat
        /\ c = BlockSize * q + (c % BlockSize)
    <2>1. BlockSize \in Nat \ {0}
      BY SizesAssumption
    <2>2. c % BlockSize \in 0 .. BlockSize - 1
      BY <1>1, <2>1, Division
    <2>3. c \div BlockSize \in Nat
      BY <1>1, <2>1, Division
    <2>4. c = BlockSize * (c \div BlockSize) + (c % BlockSize)
      BY <1>1, <2>1, Division
    <2> QED
      BY <2>2, <2>3, <2>4
  <1> HIDE DEF q
  <1>3. ASSUME q >= NumBlocks
        PROVE  FALSE
    <2>1. BlockSize * q >= BlockSize * NumBlocks
      BY <1>1, <1>2, <1>3, SizesAssumption
    <2>2. BlockSize * NumBlocks = NumBlocks * BlockSize
      BY <1>1
    <2> QED
      BY <1>1, <1>2, <2>1, <2>2, SizesAssumption
  <1> QED
    BY <1>1, <1>2, <1>3 DEF BlockOf, Blocks, q

-----------------------------------------------------------------------------
(* Types *)

(* Opening a ciphertext gives bits, or Noise.                              *)
LEMMA DecryptType ==
    ASSUME NEW cell \in Cell, NEW key, NEW nonce
    PROVE  Decrypt(cell, key, nonce) \in Plain
  BY DEF Decrypt, Cell, Plain, Noise

(* A token names its row's two newest keys.                                *)
LEMMA SearchTokenType ==
    ASSUME NEW r \in Rows, NEW kwCtr \in [Rows -> Nat]
    PROVE  SearchToken(r, kwCtr) \in Token
  <1>1. kwCtr[r] \in Nat /\ kwCtr[r] - 1 \in Int
    OBVIOUS
  <1> QED
    BY <1>1 DEF SearchToken, Token, RowKey, Keys

(* A search answers with bits, and leaves a row of ciphertexts.            *)
LEMMA SearchType ==
    ASSUME NEW tau \in Token, NEW row \in [Blocks -> Cell], NEW stRow,
           NEW bc \in [Blocks -> Nat]
    PROVE  /\ SearchResult(tau, row, stRow, bc) \in Plain
           /\ SearchedRow(tau, row, stRow, bc) \in [Blocks -> Cell]
  <1>1. \A b \in Blocks : OpenBlock(tau, row, stRow, bc, b) \in Plain
    BY DecryptType DEF OpenBlock
  <1>2. SearchResult(tau, row, stRow, bc) \in Plain
    BY <1>1 DEF SearchResult, Plain
  <1>3. ASSUME NEW b \in Blocks
        PROVE  Encrypt(tau.row_key, Nonce(b, bc[b]), OpenBlock(tau, row, stRow, bc, b))
                  \in Cell
    BY <1>1 DEF Encrypt, Nonce, Nonces, Cell, Token
  <1> QED
    BY <1>2, <1>3 DEF SearchedRow

(* So does the search of the client-decrypt build.                         *)
LEMMA DecryptRowType ==
    ASSUME NEW r, NEW row \in [Blocks -> Cell], NEW kwCtr, NEW bc
    PROVE  DecryptRow(r, row, kwCtr, bc) \in Plain
  <1>1. \A b \in Blocks :
           Decrypt(row[b], RowKey(r, kwCtr[r]), Nonce(b, bc[b])) \in Plain
    BY DecryptType
  <1> QED
    BY <1>1 DEF DecryptRow, Plain

(* An update token is a ciphertext for every row.                          *)
LEMMA UpdateTokenType ==
    ASSUME NEW b \in Blocks, NEW c \in BlockCols(b), NEW W, NEW stBlk,
           NEW I_prime, BlockSize > 1 => I_prime \in [Rows -> Cell],
           NEW kwCtr \in [Rows -> Nat], NEW bc \in [Blocks -> Nat]
    PROVE  UpdateToken(b, c, W, I_prime, stBlk, kwCtr, bc) \in [Rows -> Cell]
  <1> DEFINE blk == TokenBlock(b, c)
             col == TokenCol(b, c)
             old(r) == IF BlockSize = 1
                       THEN {}
                       ELSE Decrypt(I_prime[r], RowKey(r, OldCounter(r, stBlk, kwCtr)),
                                    Nonce(blk, bc[blk]))
             new(r) == (old(r) \ {col}) \cup (IF r \in W THEN {col} ELSE {})
  <1>1. blk = b /\ col = c /\ c \in Cols
    BY Columns
  <1>2. ASSUME NEW r \in Rows
        PROVE  Encrypt(RowKey(r, kwCtr[r]), Nonce(blk, bc[blk] + 1), new(r)) \in Cell
    <2>1. old(r) \in Plain
      BY DecryptType, SizesAssumption DEF Plain
    <2>2. new(r) \in Plain
      BY <2>1, <1>1 DEF Plain
    <2>3. RowKey(r, kwCtr[r]) \in Keys /\ Nonce(blk, bc[blk] + 1) \in Nonces
      BY <1>1 DEF RowKey, Keys, Nonce, Nonces
    <2> HIDE DEF new
    <2> QED
      BY <2>2, <2>3 DEF Encrypt, Cell
  <1> HIDE DEF blk, col, old
  <1> QED
    BY <1>2 DEF UpdateToken, blk, col, old

(* Blocks are read from and written into a matrix.                         *)
LEMMA BlockType ==
    ASSUME NEW T \in Matrix, NEW b \in Blocks, NEW data \in [Rows -> Cell]
    PROVE  /\ BlockData(T, b) \in [Rows -> Cell]
           /\ WriteBlock(T, b, data) \in Matrix
  BY DEF BlockData, WriteBlock, Matrix

(* A built index is a matrix.                                              *)
LEMMA EncryptedMatrixType ==
    ASSUME NEW M \in [Rows -> SUBSET Cols]
    PROVE  EncryptedMatrix(M) \in Matrix
  <1>1. ASSUME NEW r \in Rows, NEW b \in Blocks
        PROVE  Encrypt(RowKey(r, 1), Nonce(b, 1), M[r] \cap BlockCols(b)) \in Cell
    BY DEF Encrypt, RowKey, Nonce, Keys, Nonces, Cell, Plain
  <1> QED
    BY <1>1 DEF EncryptedMatrix, Matrix
=============================================================================
