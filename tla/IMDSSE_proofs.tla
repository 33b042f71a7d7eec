---------------------------- MODULE IMDSSE_proofs ---------------------------
(***************************************************************************)
(* The program with its names, for every size, variant, storage and set of *)
(* names: the tables and the free lists (PoolsInv), the index they lead to *)
(* (IndexInv and PlainInv of EncryptedIndex, kept by every step here), and *)
(* between the two the documents of the user, which the rows hold under    *)
(* the tables (DocsInv).  Row 0 and column 0 must have owners the user     *)
(* does not name (RowZeroTaken, ColZeroTaken): without that the free lists *)
(* lose columns and searches miss files.                                   *)
(***************************************************************************)
EXTENDS IMDSSE, EncryptedIndex_exact, FiniteSetTheorems

(* Tables in which every index has one owner or is free, and 0 has an      *)
(* owner that stays: a keyword the user never adds, a file of the          *)
(* database.                                                               *)
PoolsGood(d) ==
    /\ d \in Dir!Table
    /\ \A k, l \in Keywords : k # l /\ d.T_W[k] = d.T_W[l] => d.T_W[k] = 0
    /\ \A f, g \in Files : f # g /\ d.T_F[f] = d.T_F[g] => d.T_F[f] = 0
    /\ \A r \in Rows : r \in d.freeRow <=> \A k \in Keywords : d.T_W[k] # r
    /\ \A c \in Cols : c \in d.freeCol <=> \A f \in Files : d.T_F[f] # c
    /\ \E k \in Keywords \ UserWords : d.T_W[k] = 0
    /\ \E f \in DOMAIN DB : d.T_F[f] = 0

(* Between the fetch and the update the call is about a file that has a    *)
(* column: requestBlock_index has given it one.                            *)
FetchCall ==
    pc = "fetch" =>
        /\ call.op \in {"add", "del"}
        /\ call.file \in UserFiles
        /\ call.words \subseteq UserWords
        /\ call.op = "del" => call.words = {}
        /\ dir.T_F[call.file] # 0
        /\ arg = BlockOf(dir.T_F[call.file])

PoolsInv == PoolsGood(dir) /\ PoolsGood(dirDisk) /\ FetchCall

(* Every name the documents D use has an index in the tables d, so that 0  *)
(* is the index of one keyword and of one file.                            *)
Named(d, D) ==
    /\ D \in [Files -> SUBSET Keywords]
    /\ \A f \in Files, k \in UserWords : k \in D[f] => d.T_W[k] # 0
    /\ \A f \in Files : D[f] # {} => f \in DOMAIN DB \/ d.T_F[f] # 0
    /\ \A f, g \in DOMAIN DB : d.T_F[f] = d.T_F[g] => f = g

(* The rows T hold the documents D under the indexes of the tables d.      *)
Having(r, d, D)  == {f \in Files : \E k \in D[f] : d.T_W[k] = r}
Holds(T, d, D)   == \A r \in Rows : T[r] = {d.T_F[f] : f \in Having(r, d, D)}

(* The rows as they are once the call under way has been served.           *)
MeantTable ==
    IF pc = "update" /\ rep = None THEN Written(Table, upd.col, upd.rows) ELSE Table

(* What the call in progress is about.                                     *)
CallMeant ==
    /\ pc = "search" =>
          /\ call.op = "search"
          /\ call.kw \in UserWords
          /\ arg = dir.T_W[call.kw]
          /\ arg # 0
    /\ pc \in {"fetch", "update"} => call.op # "search"
    /\ pc = "load" => call = NoCall

(* The documents of the user are in the rows, under the tables in memory   *)
(* while the client runs, and under those on disk for the matrix the next  *)
(* client finds.                                                           *)
DocsInv ==
    /\ Named(dir, docs)
    /\ Named(dirDisk, docsDisk)
    /\ InUse => Holds(MeantTable, dir, docs)
    /\ ~DiskStorage => Holds(IF Saving THEN Table ELSE SavedTable, dirDisk, docsDisk)
    /\ DiskStorage /\ Stopped => Holds(Table, dirDisk, docsDisk)
    /\ pc = "load" =>
          /\ dir = dirDisk
          /\ docs = docsDisk
          /\ rep # None => Holds(Table, dir, docs)
    /\ pc \in {"saved", "save"} => dirDisk = dir /\ docsDisk = docs

NamesInv == IndexInv /\ PlainInv /\ PoolsInv /\ DocsInv /\ CallMeant /\ SearchCounts

-----------------------------------------------------------------------------
(* The operators on the tables *)

LEMMA ZeroIndexes == 0 \in Rows /\ 0 \in Cols
  BY SizesAssumption DEF Rows, Cols, NumCols

(* The file looked up by requestBlock_index has a column then.             *)
LEMMA WithFileGood ==
    ASSUME NEW d, PoolsGood(d), NEW f \in UserFiles, NEW e \in Dir!WithFile(d, f)
    PROVE  /\ PoolsGood(e) /\ e.T_F[f] # 0 /\ e.T_W = d.T_W
           /\ \A g \in Files : g # f \/ d.T_F[f] # 0 => e.T_F[g] = d.T_F[g]
  <1>1. /\ d.T_W \in [Keywords -> Rows] /\ d.T_F \in [Files -> Cols]
        /\ d.freeRow \subseteq Rows /\ d.freeCol \subseteq Cols
        /\ d = [T_W |-> d.T_W, T_F |-> d.T_F, freeRow |-> d.freeRow, freeCol |-> d.freeCol]
    BY DEF PoolsGood, Dir!Table, Rows, Cols
  <1>2. f \in Files /\ f \notin DOMAIN DB
    BY DEF UserFiles
  <1>3. CASE d.T_F[f] # 0
    BY <1>3 DEF Dir!WithFile, Dir!NULL
  <1>4. CASE d.T_F[f] = 0
    <2>1. PICK c \in d.freeCol : e = [d EXCEPT !.T_F[f] = c, !.freeCol = @ \ {c}]
      BY <1>4 DEF Dir!WithFile, Dir!NULL
    <2>2. /\ c \in Cols /\ c # 0
          /\ \A g \in Files : d.T_F[g] # c
      BY <1>1, <1>2, <1>4 DEF PoolsGood
    <2>3. /\ e.T_W = d.T_W /\ e.freeRow = d.freeRow
          /\ e.T_F = [d.T_F EXCEPT ![f] = c] /\ e.freeCol = d.freeCol \ {c}
          /\ e \in Dir!Table
      BY <1>1, <1>2, <2>1, <2>2 DEF Dir!Table, Rows, Cols
    <2>4. \A g \in Files : e.T_F[g] = IF g = f THEN c ELSE d.T_F[g]
      BY <1>1, <2>3
    <2>5. \A g, h \in Files : g # h /\ e.T_F[g] = e.T_F[h] => e.T_F[g] = 0
      BY <2>2, <2>4 DEF PoolsGood
    <2>6. \A x \in Cols : x \in e.freeCol <=> \A g \in Files : e.T_F[g] # x
      <3>1. PICK z \in DOMAIN DB : d.T_F[z] = 0
        BY DEF PoolsGood
      <3>2. z \in Files /\ z # f
        BY <1>2, <3>1, NamesAssumption
      <3> QED
        BY <1>2, <1>4, <2>2, <2>3, <2>4, <3>1, <3>2 DEF PoolsGood
    <2>7. \E g \in DOMAIN DB : e.T_F[g] = 0
      BY <1>2, <2>4, NamesAssumption DEF PoolsGood
    <2>8. PoolsGood(e)
      BY <2>3, <2>5, <2>6, <2>7 DEF PoolsGood
    <2> QED
      BY <1>2, <1>4, <2>2, <2>3, <2>4, <2>8
  <1> QED
    BY <1>3, <1>4

(* Keywords without a row get rows that are free and all different.        *)
LEMMA WithKeywordsGood ==
    ASSUME NEW d, PoolsGood(d), NEW W \in SUBSET UserWords, NEW e \in Dir!WithKeywords(d, W)
    PROVE  /\ PoolsGood(e) /\ e.T_F = d.T_F
           /\ \A k \in Keywords : k \notin W \/ d.T_W[k] # 0 => e.T_W[k] = d.T_W[k]
           /\ \A k \in W : e.T_W[k] # 0
  <1> DEFINE new == {k \in W : d.T_W[k] = 0}
  <1>1. /\ d.T_W \in [Keywords -> Rows] /\ d.T_F \in [Files -> Cols]
        /\ d.freeRow \subseteq Rows /\ d.freeCol \subseteq Cols
        /\ d = [T_W |-> d.T_W, T_F |-> d.T_F, freeRow |-> d.freeRow, freeCol |-> d.freeCol]
    BY DEF PoolsGood, Dir!Table, Rows, Cols
  <1>2. new \subseteq UserWords /\ UserWords \subseteq Keywords
    BY NamesAssumption
  <1>3. PICK w \in Dir!Injection(new, d.freeRow) :
            e = [d EXCEPT !.T_W = [k \in Keywords |-> IF k \in new THEN w[k] ELSE @[k]],
                          !.freeRow = @ \ Dir!Range(w)]
    BY DEF Dir!WithKeywords, Dir!NULL
  <1>4. /\ w \in [new -> d.freeRow]
        /\ \A k, l \in new : w[k] = w[l] => k = l
    BY <1>3 DEF Dir!Injection, Dir!IsInjective
  <1>5. \A k \in new : w[k] \in Rows /\ w[k] # 0 /\ \A l \in Keywords : d.T_W[l] # w[k]
    BY <1>1, <1>4 DEF PoolsGood
  <1>6. /\ e.T_F = d.T_F /\ e.freeCol = d.freeCol
        /\ e.T_W = [k \in Keywords |-> IF k \in new THEN w[k] ELSE d.T_W[k]]
        /\ e.freeRow = d.freeRow \ {w[k] : k \in new}
        /\ e = [T_W |-> e.T_W, T_F |-> e.T_F, freeRow |-> e.freeRow, freeCol |-> e.freeCol]
    BY <1>1, <1>3, <1>4 DEF Dir!Range
  <1>7. \A k \in Keywords : e.T_W[k] = IF k \in new THEN w[k] ELSE d.T_W[k]
    BY <1>6
  <1>8. e \in Dir!Table
    <2>1. e.T_W \in [Keywords -> Rows]
      BY <1>1, <1>5, <1>6
    <2> QED
      BY <1>1, <1>6, <2>1 DEF Dir!Table, Rows, Cols
  <1>9. \A k, l \in Keywords : k # l /\ e.T_W[k] = e.T_W[l] => e.T_W[k] = 0
    BY <1>2, <1>4, <1>5, <1>7 DEF PoolsGood
  <1>10. PICK z \in Keywords \ UserWords : d.T_W[z] = 0
    BY DEF PoolsGood
  <1>11. z \notin new /\ e.T_W[z] = 0
    BY <1>2, <1>7, <1>10
  <1>12. \A r \in Rows : r \in e.freeRow <=> \A k \in Keywords : e.T_W[k] # r
    <2> SUFFICES ASSUME NEW r \in Rows
                 PROVE  r \in e.freeRow <=> \A k \in Keywords : e.T_W[k] # r
      OBVIOUS
    <2>1. r \in e.freeRow <=> r \in d.freeRow /\ \A k \in new : w[k] # r
      BY <1>6
    <2>2. r \in d.freeRow <=> \A k \in Keywords : d.T_W[k] # r
      BY DEF PoolsGood
    <2>3. CASE r = 0
      BY <1>10, <1>11, <2>1, <2>2, <2>3
    <2>4. CASE r # 0
      BY <1>2, <1>7, <2>1, <2>2, <2>4
    <2> QED
      BY <2>3, <2>4
  <1> QED
    <2>1. \A f, g \in Files : f # g /\ e.T_F[f] = e.T_F[g] => e.T_F[f] = 0
      BY <1>6 DEF PoolsGood
    <2>2. \A c \in Cols : c \in e.freeCol <=> \A f \in Files : e.T_F[f] # c
      BY <1>6 DEF PoolsGood
    <2>3. \E f \in DOMAIN DB : e.T_F[f] = 0
      BY <1>6 DEF PoolsGood
    <2>4. \E k \in Keywords \ UserWords : e.T_W[k] = 0
      BY <1>10, <1>11
    <2>5. PoolsGood(e)
      BY <1>6, <1>8, <1>9, <1>12, <2>1, <2>2, <2>3, <2>4 DEF PoolsGood
    <2>6. /\ \A k \in Keywords : k \notin W \/ d.T_W[k] # 0 => e.T_W[k] = d.T_W[k]
          /\ \A k \in W : e.T_W[k] # 0
      BY <1>2, <1>5, <1>7
    <2> QED
      BY <1>6, <2>5, <2>6

LEMMA AddedGood ==
    ASSUME NEW d, PoolsGood(d), NEW f \in UserFiles, NEW W \in SUBSET UserWords,
           NEW e \in Dir!Added(d, f, W)
    PROVE  PoolsGood(e) /\ e.T_F[f] # 0
  <1>1. PICK x \in Dir!WithFile(d, f) : e \in Dir!WithKeywords(x, W)
    BY DEF Dir!Added
  <1>2. PoolsGood(x) /\ x.T_F[f] # 0
    BY <1>1, WithFileGood
  <1> QED
    BY <1>1, <1>2, WithKeywordsGood

(* delToken gives back the column of the file it forgets.                  *)
LEMMA DeletedGood ==
    ASSUME NEW d, PoolsGood(d), NEW f \in UserFiles, d.T_F[f] # 0
    PROVE  /\ PoolsGood(Dir!Deleted(d, f))
           /\ Dir!Deleted(d, f).T_W = d.T_W
           /\ \A g \in Files : Dir!Deleted(d, f).T_F[g] = IF g = f THEN 0 ELSE d.T_F[g]
  <1> DEFINE e == Dir!Deleted(d, f)
  <1>1. /\ d.T_W \in [Keywords -> Rows] /\ d.T_F \in [Files -> Cols]
        /\ d.freeRow \subseteq Rows /\ d.freeCol \subseteq Cols
        /\ d = [T_W |-> d.T_W, T_F |-> d.T_F, freeRow |-> d.freeRow, freeCol |-> d.freeCol]
    BY DEF PoolsGood, Dir!Table, Rows, Cols
  <1>2. f \in Files /\ f \notin DOMAIN DB /\ DOMAIN DB \subseteq Files
    BY NamesAssumption DEF UserFiles
  <1>3. e = [d EXCEPT !.T_F[f] = 0, !.freeCol = @ \cup {d.T_F[f]}]
    BY DEF Dir!Deleted, Dir!NULL
  <1>4. /\ e.T_W = d.T_W /\ e.freeRow = d.freeRow
        /\ e.T_F = [d.T_F EXCEPT ![f] = 0] /\ e.freeCol = d.freeCol \cup {d.T_F[f]}
        /\ e \in Dir!Table
    <2> HIDE DEF e
    <2> QED
      BY <1>1, <1>2, <1>3, ZeroIndexes DEF Dir!Table, Rows, Cols
  <1> HIDE DEF e
  <1>5. \A g \in Files : e.T_F[g] = IF g = f THEN 0 ELSE d.T_F[g]
    BY <1>1, <1>4
  <1>6. \A g, h \in Files : g # h /\ e.T_F[g] = e.T_F[h] => e.T_F[g] = 0
    BY <1>5 DEF PoolsGood
  <1>7. \A c \in Cols : c \in e.freeCol <=> \A g \in Files : e.T_F[g] # c
    <2> SUFFICES ASSUME NEW c \in Cols
                 PROVE  c \in e.freeCol <=> \A g \in Files : e.T_F[g] # c
      OBVIOUS
    <2>1. c \in e.freeCol <=> c \in d.freeCol \/ c = d.T_F[f]
      BY <1>4
    <2>2. c \in d.freeCol <=> \A g \in Files : d.T_F[g] # c
      BY DEF PoolsGood
    <2>3. PICK z \in DOMAIN DB : d.T_F[z] = 0
      BY DEF PoolsGood
    <2>4. z \in Files /\ z # f
      BY <1>2
    <2>5. CASE c = d.T_F[f]
      BY <1>2, <1>5, <2>1, <2>5 DEF PoolsGood
    <2>6. CASE c # d.T_F[f]
      BY <1>2, <1>5, <2>1, <2>2, <2>3, <2>4, <2>6
    <2> QED
      BY <2>5, <2>6
  <1>8. \E g \in DOMAIN DB : e.T_F[g] = 0
    BY <1>2, <1>5 DEF PoolsGood
  <1>9. PoolsGood(e)
    BY <1>4, <1>6, <1>7, <1>8 DEF PoolsGood
  <1> QED
    BY <1>4, <1>5, <1>9 DEF e

(* The tables of a build, of those a session of this kind starts from.     *)
LEMMA BuiltGood ==
    ASSUME RowZeroTaken, ColZeroTaken, NEW d \in Dir!BuiltTables(DB), Considered(d)
    PROVE  PoolsGood(d)
  <1> DEFINE words == Dir!Words(DB)
  <1>1. PICK w \in Dir!Injection(words, 0 .. NumRows - 1),
             c \in Dir!Injection(DOMAIN DB, 0 .. NumCols - 1) :
            d = [T_W     |-> [k \in Keywords |-> IF k \in words THEN w[k] ELSE 0],
                 T_F     |-> [f \in Files |-> IF f \in DOMAIN DB THEN c[f] ELSE 0],
                 freeRow |-> (0 .. NumRows - 1) \ Dir!Range(w),
                 freeCol |-> (0 .. NumCols - 1) \ Dir!Range(c)]
    BY DEF Dir!BuiltTables, Dir!NULL
  <1>2. /\ w \in [words -> Rows] /\ \A k, l \in words : w[k] = w[l] => k = l
        /\ c \in [DOMAIN DB -> Cols] /\ \A f, g \in DOMAIN DB : c[f] = c[g] => f = g
    BY <1>1 DEF Dir!Injection, Dir!IsInjective, Rows, Cols
  <1>3. words \subseteq Keywords /\ DOMAIN DB \subseteq Files
    BY NamesAssumption DEF Dir!Words
  <1> HIDE DEF words
  <1>4. /\ d.T_W = [k \in Keywords |-> IF k \in words THEN w[k] ELSE 0]
        /\ d.T_F = [f \in Files |-> IF f \in DOMAIN DB THEN c[f] ELSE 0]
        /\ d.freeRow = Rows \ {w[k] : k \in words}
        /\ d.freeCol = Cols \ {c[f] : f \in DOMAIN DB}
        /\ d = [T_W |-> d.T_W, T_F |-> d.T_F, freeRow |-> d.freeRow, freeCol |-> d.freeCol]
    BY <1>1, <1>2 DEF Dir!Range, Rows, Cols
  <1>5. /\ \A k \in Keywords : d.T_W[k] = IF k \in words THEN w[k] ELSE 0
        /\ \A f \in Files : d.T_F[f] = IF f \in DOMAIN DB THEN c[f] ELSE 0
    BY <1>4
  <1>6. d \in Dir!Table
    <2>1. d.T_W \in [Keywords -> Rows] /\ d.T_F \in [Files -> Cols]
      BY <1>2, <1>4, ZeroIndexes
    <2> QED
      BY <1>4, <2>1 DEF Dir!Table, Rows, Cols
  <1>7. PICK z \in words \ UserWords : w[z] = 0
    <2>1. 0 \notin d.freeRow /\ 0 \notin Dir!RowsOf(d, UserWords \cap words)
      BY DEF Considered, words
    <2>2. PICK z \in words : w[z] = 0
      BY <1>4, <2>1, ZeroIndexes
    <2>3. z \notin UserWords
      BY <1>3, <1>5, <2>1, <2>2 DEF Dir!RowsOf
    <2> QED
      BY <2>2, <2>3
  <1>8. PICK y \in DOMAIN DB : c[y] = 0
    BY <1>4, ZeroIndexes DEF Considered
  <1>9. /\ \A k, l \in Keywords : k # l /\ d.T_W[k] = d.T_W[l] => d.T_W[k] = 0
        /\ \A f, g \in Files : f # g /\ d.T_F[f] = d.T_F[g] => d.T_F[f] = 0
    BY <1>2, <1>5
  <1>10. \A r \in Rows : r \in d.freeRow <=> \A k \in Keywords : d.T_W[k] # r
    BY <1>3, <1>4, <1>5, <1>7
  <1>11. \A x \in Cols : x \in d.freeCol <=> \A f \in Files : d.T_F[f] # x
    BY <1>3, <1>4, <1>5, <1>8
  <1>12. /\ \E k \in Keywords \ UserWords : d.T_W[k] = 0
         /\ \E f \in DOMAIN DB : d.T_F[f] = 0
    BY <1>3, <1>5, <1>7, <1>8
  <1> QED
    BY <1>6, <1>9, <1>10, <1>11, <1>12 DEF PoolsGood

(* A call sends the block its file's column is in.                         *)
LEMMA TokenSends ==
    ASSUME NEW d, PoolsGood(d), NEW op \in {"add", "del"}, NEW f \in UserFiles,
           NEW W \in SUBSET UserWords, d.T_F[f] # 0, NEW e \in Outcomes(d, op, f, W)
    PROVE  /\ d.T_F[f] \in BlockCols(BlockOf(d.T_F[f])) /\ BlockOf(d.T_F[f]) \in Blocks
           /\ op = "add" => /\ e \in Dir!WithKeywords(d, W) /\ e.T_F = d.T_F
                            /\ Dir!RowsOf(e, W) \in SUBSET Rows
           /\ op = "del" => e = Dir!Deleted(d, f)
  <1>1. d.T_F[f] \in Cols
    BY DEF PoolsGood, Dir!Table, Cols, UserFiles
  <1>2. d.T_F[f] \in BlockCols(BlockOf(d.T_F[f])) /\ BlockOf(d.T_F[f]) \in Blocks
    BY <1>1, ColumnBlock DEF BlockCols
  <1>3. CASE op = "add"
    <2>1. e \in Dir!WithKeywords(d, W)
      BY <1>3 DEF Outcomes, Dir!Added, Dir!WithFile, Dir!NULL
    <2>2. PoolsGood(e) /\ e.T_F = d.T_F
      BY <2>1, WithKeywordsGood
    <2>3. \A k \in Keywords : e.T_W[k] \in Rows
      BY <2>2 DEF PoolsGood, Dir!Table, Rows
    <2>4. Dir!RowsOf(e, W) \in SUBSET Rows
      BY <2>3, NamesAssumption DEF Dir!RowsOf
    <2> QED
      BY <1>2, <1>3, <2>1, <2>2, <2>4
  <1>4. CASE op = "del"
    BY <1>2, <1>4 DEF Outcomes
  <1> QED
    BY <1>3, <1>4

-----------------------------------------------------------------------------
(* The operators on the tables, and the rows of the index *)

(* Giving a file a column touches no file that is stored.                  *)
LEMMA WithFileHolds ==
    ASSUME NEW d, PoolsGood(d), NEW D, Named(d, D), NEW T,
           NEW f \in UserFiles, NEW e \in Dir!WithFile(d, f)
    PROVE  Named(e, D) /\ (Holds(T, d, D) => Holds(T, e, D))
  <1>1. /\ e.T_W = d.T_W /\ e.T_F[f] # 0
        /\ \A g \in Files : g # f \/ d.T_F[f] # 0 => e.T_F[g] = d.T_F[g]
    BY WithFileGood
  <1>2. f \in Files /\ f \notin DOMAIN DB /\ DOMAIN DB \subseteq Files
    BY NamesAssumption DEF UserFiles
  <1>3. \A g \in Files : D[g] # {} => e.T_F[g] = d.T_F[g]
    BY <1>1, <1>2 DEF Named
  <1>4. \A g \in DOMAIN DB : e.T_F[g] = d.T_F[g]
    BY <1>1, <1>2
  <1>5. Named(e, D)
    BY <1>1, <1>3, <1>4 DEF Named
  <1>6. ASSUME NEW r \in Rows
        PROVE  {e.T_F[g] : g \in Having(r, e, D)} = {d.T_F[g] : g \in Having(r, d, D)}
    <2>1. Having(r, e, D) = Having(r, d, D)
      BY <1>1 DEF Having
    <2>2. \A g \in Having(r, d, D) : e.T_F[g] = d.T_F[g]
      BY <1>3 DEF Having
    <2> QED
      BY <2>1, <2>2
  <1> QED
    BY <1>5, <1>6 DEF Holds

(* Writing the column of the file for the rows of its keywords makes the   *)
(* rows hold the documents with the file, under the tables addToken or     *)
(* delToken left.                                                          *)
LEMMA TokenHolds ==
    ASSUME NEW d, PoolsGood(d), NEW D, Named(d, D), NEW T, NEW op \in {"add", "del"},
           NEW f \in UserFiles, NEW W \in SUBSET UserWords, op = "del" => W = {},
           d.T_F[f] # 0, NEW e \in Outcomes(d, op, f, W)
    PROVE  /\ Named(e, [D EXCEPT ![f] = W])
           /\ Holds(T, d, D) =>
                Holds(Written(T, d.T_F[f], IF op = "add" THEN Dir!RowsOf(e, W) ELSE {}),
                      e, [D EXCEPT ![f] = W])
  <1> DEFINE c    == d.T_F[f]
             now  == [D EXCEPT ![f] = W]
             rows == IF op = "add" THEN Dir!RowsOf(e, W) ELSE {}
  <1>1. /\ \A k \in Keywords : k \notin W \/ d.T_W[k] # 0 => e.T_W[k] = d.T_W[k]
        /\ \A k \in W : e.T_W[k] # 0
        /\ \A g \in Files : g # f => e.T_F[g] = d.T_F[g]
        /\ op = "add" => e.T_F[f] = c
    <2>1. CASE op = "add"
      <3>1. e \in Dir!WithKeywords(d, W)
        BY <2>1, TokenSends
      <3> QED
        BY <2>1, <3>1, WithKeywordsGood
    <2>2. CASE op = "del"
      <3>1. e = Dir!Deleted(d, f)
        BY <2>2, TokenSends
      <3>2. e.T_W = d.T_W /\ \A g \in Files : e.T_F[g] = IF g = f THEN 0 ELSE d.T_F[g]
        BY <3>1, DeletedGood
      <3> QED
        BY <2>2, <3>2
    <2> QED
      BY <2>1, <2>2
  <1>2. /\ f \in Files /\ f \notin DOMAIN DB /\ DOMAIN DB \subseteq Files
        /\ UserWords \subseteq Keywords /\ W \subseteq UserWords
    BY NamesAssumption DEF UserFiles
  <1>3. D \in [Files -> SUBSET Keywords]
    BY DEF Named
  <1>4. now \in [Files -> SUBSET Keywords]
        /\ \A g \in Files : now[g] = IF g = f THEN W ELSE D[g]
    BY <1>2, <1>3
  <1> HIDE DEF now
  <1>5. \A g \in Files, k \in Keywords : g # f /\ k \in D[g] => e.T_W[k] = d.T_W[k]
    BY <1>1, <1>2 DEF Named
  <1>6. Named(e, now)
    <2>1. \A g \in Files, k \in UserWords : k \in now[g] => e.T_W[k] # 0
      BY <1>1, <1>2, <1>4, <1>5 DEF Named
    <2>2. \A g \in Files : now[g] # {} => g \in DOMAIN DB \/ e.T_F[g] # 0
      BY <1>1, <1>4 DEF Named
    <2>3. \A g, h \in DOMAIN DB : e.T_F[g] = e.T_F[h] => g = h
      BY <1>1, <1>2 DEF Named
    <2> QED
      BY <1>4, <2>1, <2>2, <2>3 DEF Named
  <1>7. ASSUME Holds(T, d, D), NEW r \in Rows
        PROVE  Changed(T[r], r, c, rows) = {e.T_F[g] : g \in Having(r, e, now)}
    <2>1. \A g \in Files : d.T_F[g] = c => g = f
      BY <1>2 DEF PoolsGood
    <2>2. T[r] \ {c} = {d.T_F[g] : g \in Having(r, d, D) \ {f}}
      <3>1. T[r] = {d.T_F[g] : g \in Having(r, d, D)}
        BY <1>7 DEF Holds
      <3>2. Having(r, d, D) \subseteq Files
        BY DEF Having
      <3> QED
        BY <2>1, <3>1, <3>2
    <2>3. Having(r, e, now) \ {f} = Having(r, d, D) \ {f}
      <3>1. \A g \in Files : D[g] \subseteq Keywords
        BY <1>3
      <3> QED
        BY <1>4, <1>5, <3>1 DEF Having
    <2>4. \A g \in Having(r, d, D) \ {f} : e.T_F[g] = d.T_F[g]
      BY <1>1 DEF Having
    <2>5. f \in Having(r, e, now) <=> r \in rows
      BY <1>2, <1>4 DEF Having, Dir!RowsOf
    <2> HIDE DEF rows, c
    <2>6. CASE r \in rows
      <3>1. e.T_F[f] = c
        BY <1>1, <2>6 DEF rows
      <3> QED
        BY <2>2, <2>3, <2>4, <2>5, <2>6, <3>1 DEF Changed
    <2>7. CASE r \notin rows
      BY <2>2, <2>3, <2>4, <2>5, <2>7 DEF Changed
    <2> QED
      BY <2>6, <2>7
  <1>8. Holds(T, d, D) => Holds(Written(T, c, rows), e, now)
    <2> HIDE DEF rows, c
    <2> QED
      BY <1>7 DEF Holds, Written
  <1> QED
    BY <1>6, <1>8 DEF now

(* A build encrypts the database under the tables it made.                 *)
LEMMA BuiltHolds ==
    ASSUME RowZeroTaken, ColZeroTaken, NEW d \in Dir!BuiltTables(DB), Considered(d)
    PROVE  /\ Named(d, Stored)
           /\ Holds(PlainMatrix(d), d, Stored)
           /\ PlainMatrix(d) \in [Rows -> SUBSET Cols]
  <1>1. d.T_W \in [Keywords -> Rows] /\ d.T_F \in [Files -> Cols]
    BY BuiltGood DEF PoolsGood, Dir!Table, Rows, Cols
  <1>2. DOMAIN DB \subseteq Files /\ UserWords \subseteq Keywords
        /\ \A f \in DOMAIN DB : DB[f] \subseteq Keywords
    BY NamesAssumption
  <1>3. /\ Stored \in [Files -> SUBSET Keywords]
        /\ \A f \in Files : Stored[f] = IF f \in DOMAIN DB THEN DB[f] ELSE {}
    BY <1>2 DEF Stored
  <1>4. Named(d, Stored)
    <2>1. 0 \notin Dir!RowsOf(d, UserWords \cap Dir!Words(DB))
      BY DEF Considered
    <2>2. \A f \in DOMAIN DB, k \in UserWords : k \in DB[f] => d.T_W[k] # 0
      BY <2>1 DEF Dir!RowsOf, Dir!Words
    <2>3. \A f, g \in DOMAIN DB : d.T_F[f] = d.T_F[g] => f = g
      <3>1. PICK c \in Dir!Injection(DOMAIN DB, 0 .. NumCols - 1) :
                d.T_F = [f \in Files |-> IF f \in DOMAIN DB THEN c[f] ELSE 0]
        BY DEF Dir!BuiltTables, Dir!NULL
      <3>2. \A f \in DOMAIN DB : d.T_F[f] = c[f]
        BY <1>2, <3>1
      <3> QED
        BY <3>2 DEF Dir!Injection, Dir!IsInjective
    <2> QED
      BY <1>3, <2>2, <2>3 DEF Named
  <1>5. ASSUME NEW r \in Rows
        PROVE  PlainMatrix(d)[r] = {d.T_F[f] : f \in Having(r, d, Stored)}
    <2>1. Having(r, d, Stored) = {g \in DOMAIN DB : r \in Dir!RowsOf(d, DB[g])}
      BY <1>2, <1>3 DEF Having, Dir!RowsOf
    <2> QED
      BY <2>1 DEF PlainMatrix
  <1>6. Holds(PlainMatrix(d), d, Stored)
    BY <1>5 DEF Holds
  <1>7. PlainMatrix(d) \in [Rows -> SUBSET Cols]
    BY <1>1, <1>2 DEF PlainMatrix
  <1> QED
    BY <1>4, <1>6, <1>7

(* The columns in a keyword's row are as many as the files that have it:   *)
(* the tables give no two stored files one column and no other keyword its *)
(* row.                                                                    *)
LEMMA RowCounts ==
    ASSUME NEW d, PoolsGood(d), NEW D, Named(d, D), NEW T, Holds(T, d, D),
           NEW k \in UserWords, d.T_W[k] # 0
    PROVE  Cardinality(T[d.T_W[k]]) = Cardinality({f \in Files : k \in D[f]})
  <1> DEFINE have == {f \in Files : k \in D[f]}
             row  == T[d.T_W[k]]
             at   == [f \in have |-> d.T_F[f]]
  <1>1. /\ d.T_W \in [Keywords -> Rows] /\ d.T_F \in [Files -> Cols]
        /\ k \in Keywords /\ DOMAIN DB \subseteq Files
        /\ D \in [Files -> SUBSET Keywords]
    BY NamesAssumption DEF PoolsGood, Dir!Table, Rows, Cols, Named
  <1>2. Having(d.T_W[k], d, D) = have
    <2>1. \A l \in Keywords : d.T_W[l] = d.T_W[k] => l = k
      BY <1>1 DEF PoolsGood
    <2> QED
      BY <1>1, <2>1 DEF Having
  <1>3. row = {d.T_F[f] : f \in have}
    BY <1>1, <1>2 DEF Holds
  <1>4. \A f, g \in have : d.T_F[f] = d.T_F[g] => f = g
    BY DEF PoolsGood, Named
  <1> HIDE DEF row
  <1>5. at \in Injection(have, row) /\ at \in Surjection(have, row)
    BY <1>3, <1>4 DEF Injection, IsInjective, Surjection
  <1>6. IsFiniteSet(row)
    <2>1. row \in SUBSET (0 .. NumCols - 1)
      BY <1>1, <1>3 DEF Cols
    <2>2. NumCols - 1 \in Int
      BY SizesAssumption DEF NumCols
    <2>3. IsFiniteSet(0 .. NumCols - 1)
      BY <2>2, FS_Interval
    <2> QED
      BY <2>1, <2>3, FS_Subset
  <1> HIDE DEF at, have
  <1>7. Cardinality(have) = Cardinality(row)
    BY <1>5, <1>6, FS_Injection
  <1> QED
    BY <1>7 DEF have, row

-----------------------------------------------------------------------------
(* The program *)

LEMMA PoolsInit == RowZeroTaken /\ ColZeroTaken /\ DirInit => PoolsInv
  <1> SUFFICES ASSUME RowZeroTaken, ColZeroTaken, DirInit PROVE PoolsInv
    OBVIOUS
  <1>1. PoolsGood(dir)
    BY BuiltGood DEF DirInit
  <1>2. dirDisk = dir /\ pc = "menu"
    BY DEF DirInit, ClientInit
  <1> QED
    BY <1>1, <1>2 DEF PoolsInv, FetchCall

(* A call sends its block with the tables addToken or delToken left.       *)
LEMMA TokenKeepsPools ==
    ASSUME NEW d, PoolsGood(d), NEW b, NEW op \in {"add", "del"}, NEW f \in UserFiles,
           NEW W \in SUBSET UserWords, d.T_F[f] # 0, PoolsGood(dirDisk),
           TokenFor(d, b, op, f, W)
    PROVE  PoolsInv'
  <1>1. PICK e \in Outcomes(d, op, f, W) :
            /\ pc' = "update"
            /\ dir' = e
            /\ dirDisk' = dirDisk
    BY DEF TokenFor, SendBlock
  <1>2. PoolsGood(e)
    <2>1. CASE op = "add"
      BY <1>1, <2>1, AddedGood DEF Outcomes
    <2>2. CASE op = "del"
      BY <1>1, <2>2, DeletedGood DEF Outcomes
    <2> QED
      BY <2>1, <2>2
  <1>3. PoolsGood(dir') /\ PoolsGood(dirDisk')
    BY <1>1, <1>2
  <1> QED
    BY <1>1, <1>3 DEF PoolsInv, PoolsGood, FetchCall

LEMMA UpdateKeepsPools ==
    ASSUME PoolsInv, NEW op \in {"add", "del"}, NEW f \in UserFiles,
           NEW W \in SUBSET UserWords, op = "del" => W = {}, Update(op, f, W)
    PROVE  PoolsInv'
  <1>1. CASE RequestFor(op, f, W)
    <2>1. PICK d \in Dir!WithFile(dir, f) :
              RequestBlock(BlockOf(d.T_F[f])) /\ dir' = d
      BY <1>1 DEF RequestFor
    <2>2. PoolsGood(d) /\ d.T_F[f] # 0
      BY <2>1, WithFileGood DEF PoolsInv
    <2>3. call' = [op |-> op, file |-> f, words |-> W] /\ dirDisk' = dirDisk
      BY <1>1 DEF RequestFor
    <2>4. FetchCall'
      BY <2>1, <2>2, <2>3 DEF FetchCall, RequestBlock
    <2>5. PoolsGood(dir') /\ PoolsGood(dirDisk')
      BY <2>1, <2>2, <2>3 DEF PoolsInv
    <2> QED
      BY <2>4, <2>5 DEF PoolsInv, PoolsGood
  <1>2. CASE UpdateColumn(op, f, W)
    <2>1. PICK d \in Dir!WithFile(dir, f) : TokenFor(d, BlockOf(d.T_F[f]), op, f, W)
      BY <1>2 DEF UpdateColumn
    <2>2. PoolsGood(d) /\ d.T_F[f] # 0
      BY <2>1, WithFileGood DEF PoolsInv
    <2> QED
      BY <2>1, <2>2, TokenKeepsPools DEF PoolsInv
  <1>3. CASE UpdateAborts(op, f, W)
    <2>1. pc' = "halted" /\ dir' = dir /\ dirDisk' = dirDisk
      BY <1>3 DEF UpdateAborts, Gone, dirVars
    <2> QED
      BY <2>1 DEF PoolsInv, PoolsGood, FetchCall
  <1> QED
    BY <1>1, <1>2, <1>3 DEF Update

LEMMA PoolsStep == PoolsInv /\ [DirNext]_allVars => PoolsInv'
  <1> SUFFICES ASSUME PoolsInv, [DirNext]_allVars PROVE PoolsInv'
    OBVIOUS
  <1>1. ASSUME NEW k \in UserWords, SearchHit(k) \/ SearchMiss(k) \/ SearchGivesUp(k)
        PROVE  PoolsInv'
    <2>1. pc' # "fetch" /\ dir' = dir /\ dirDisk' = dirDisk
      BY <1>1 DEF SearchHit, SearchKeyword, SearchMiss, SearchGivesUp, SearchExhausted,
                  Gone, dirVars
    <2> QED
      BY <2>1 DEF PoolsInv, PoolsGood, FetchCall
  <1>2. ASSUME NEW f \in UserFiles, Update("del", f, {}) PROVE PoolsInv'
    BY <1>2, UpdateKeepsPools
  <1>3. ASSUME NEW f \in UserFiles, NEW W \in SUBSET UserWords, Update("add", f, W)
        PROVE  PoolsInv'
    BY <1>3, UpdateKeepsPools
  <1>4. CASE UpdateFetched
    <2>1. /\ call.op \in {"add", "del"} /\ call.file \in UserFiles
          /\ call.words \in SUBSET UserWords /\ dir.T_F[call.file] # 0
          /\ TokenFor(dir, arg, call.op, call.file, call.words)
      BY <1>4 DEF UpdateFetched, PoolsInv, FetchCall
    <2> QED
      BY <2>1, TokenKeepsPools DEF PoolsInv
  <1>5. CASE LoadTables
    <2>1. pc' # "fetch" /\ dir' = dirDisk /\ dirDisk' = dirDisk
      BY <1>5 DEF LoadTables, LoadState
    <2> QED
      BY <2>1 DEF PoolsInv, PoolsGood, FetchCall
  <1>6. CASE SaveTables
    <2>1. pc' # "fetch" /\ dir' = dir /\ dirDisk' = dir
      BY <1>6 DEF SaveTables, SaveState
    <2> QED
      BY <2>1 DEF PoolsInv, PoolsGood, FetchCall
  <1>7. CASE ClientGoesOn
    <2>1. pc' # "fetch" /\ dir' = dir /\ dirDisk' = dirDisk
      BY <1>7 DEF ClientGoesOn, SearchDone, UpdateDone, LoadDone, SendSave, Start, dirVars
    <2> QED
      BY <2>1 DEF PoolsInv, PoolsGood, FetchCall
  <1>8. CASE ClientEnds
    <2>1. pc' # "fetch" /\ dir' = dir /\ dirDisk' = dirDisk
      BY <1>8 DEF ClientEnds, Exit, Crash, Gone
    <2> QED
      BY <2>1 DEF PoolsInv, PoolsGood, FetchCall
  <1>9. CASE ServerGoesOn \/ UNCHANGED allVars
    <2>1. pc' = pc /\ dir' = dir /\ dirDisk' = dirDisk /\ call' = call /\ arg' = arg
      BY <1>9 DEF ServerGoesOn, allVars, vars, clientVars, dirVars
    <2> QED
      BY <2>1 DEF PoolsInv, PoolsGood, FetchCall
  <1> QED
    BY <1>1, <1>2, <1>3, <1>4, <1>5, <1>6, <1>7, <1>8, <1>9 DEF DirNext

(* A client that ends for want of a free row or column.                    *)
Aborted ==
    /\ (pc = "menu" /\ ready) \/ (pc = "fetch" /\ rep # None)
    /\ Gone("halted")
    /\ rep' = None
    /\ UNCHANGED <<disk, req, late, serverVars>>

LEMMA TokenIndexStep ==
    ASSUME NEW d, PoolsGood(d), NEW op \in {"add", "del"}, NEW f \in UserFiles,
           NEW W \in SUBSET UserWords, d.T_F[f] # 0, TokenFor(d, BlockOf(d.T_F[f]), op, f, W)
    PROVE  Next
  <1> DEFINE b == BlockOf(d.T_F[f])
  <1>1. UNCHANGED serverVars
    BY DEF TokenFor
  <1>2. PICK e \in Outcomes(d, op, f, W) :
            IF op = "add" THEN SendBlock(b, e.T_F[f], Dir!RowsOf(e, W))
                          ELSE SendBlock(b, d.T_F[f], {})
    BY DEF TokenFor
  <1>3. /\ b \in Blocks /\ d.T_F[f] \in BlockCols(b)
        /\ op = "add" => e.T_F = d.T_F /\ Dir!RowsOf(e, W) \in SUBSET Rows
    BY TokenSends
  <1> HIDE DEF b
  <1>4. \E c \in BlockCols(b), V \in SUBSET Rows : SendBlock(b, c, V)
    <2>1. CASE op = "add"
      BY <1>2, <1>3, <2>1
    <2>2. CASE op = "del"
      BY <1>2, <1>3, <2>2
    <2> QED
      BY <2>1, <2>2
  <1>5. ClientStep
    BY <1>3, <1>4 DEF ClientStep
  <1> QED
    BY <1>1, <1>5 DEF Next

(* The tables only say which row and which column a step of the index is   *)
(* about.                                                                  *)
LEMMA DirIndexStep ==
    ASSUME PoolsInv, [DirNext]_allVars
    PROVE  [Next]_vars \/ (\E k \in UserWords : SearchMiss(k)) \/ Aborted
  <1> USE DEF PoolsInv
  <1>1. ASSUME NEW k \in UserWords, SearchHit(k) \/ SearchGivesUp(k)
        PROVE  Next
    <2>1. dir.T_W[k] \in Rows
      BY NamesAssumption DEF PoolsGood, Dir!Table, Rows
    <2> QED
      BY <1>1, <2>1 DEF SearchHit, SearchGivesUp, Next, ClientStep
  <1>2. ASSUME NEW op \in {"add", "del"}, NEW f \in UserFiles, NEW W \in SUBSET UserWords,
               Update(op, f, W)
        PROVE  Next \/ Aborted
    <2>1. CASE RequestFor(op, f, W)
      <3>1. PICK d \in Dir!WithFile(dir, f) : RequestBlock(BlockOf(d.T_F[f]))
        BY <2>1 DEF RequestFor
      <3>2. d.T_F[f] \in Cols
        BY <3>1, WithFileGood DEF PoolsGood, Dir!Table, Cols, UserFiles
      <3>3. BlockOf(d.T_F[f]) \in Blocks
        BY <3>2, ColumnBlock
      <3> QED
        BY <2>1, <3>1, <3>3 DEF RequestFor, Next, ClientStep
    <2>2. CASE UpdateColumn(op, f, W)
      <3>1. PICK d \in Dir!WithFile(dir, f) : TokenFor(d, BlockOf(d.T_F[f]), op, f, W)
        BY <2>2 DEF UpdateColumn
      <3>2. PoolsGood(d) /\ d.T_F[f] # 0
        BY <3>1, WithFileGood
      <3> QED
        BY <3>1, <3>2, TokenIndexStep
    <2>3. CASE UpdateAborts(op, f, W)
      BY <2>3 DEF UpdateAborts, PoolEmpty, Aborted
    <2> QED
      BY <1>2, <2>1, <2>2, <2>3 DEF Update
  <1>3. CASE UpdateFetched
    <2>1. /\ call.op \in {"add", "del"} /\ call.file \in UserFiles
          /\ call.words \in SUBSET UserWords /\ dir.T_F[call.file] # 0
          /\ TokenFor(dir, BlockOf(dir.T_F[call.file]), call.op, call.file, call.words)
      BY <1>3 DEF UpdateFetched, FetchCall
    <2> QED
      BY <2>1, TokenIndexStep
  <1>4. CASE LoadTables \/ SaveTables \/ ClientGoesOn \/ ClientEnds
    BY <1>4 DEF LoadTables, SaveTables, ClientGoesOn, ClientEnds, Next, ClientStep
  <1>5. CASE ServerGoesOn
    BY <1>5 DEF ServerGoesOn, Next
  <1>6. CASE UNCHANGED allVars
    BY <1>6 DEF allVars
  <1> QED
    BY <1>1, <1>2, <1>3, <1>4, <1>5, <1>6 DEF DirNext

LEMMA DirTypeStep ==
    ASSUME PoolsInv, TypeInv, [DirNext]_allVars
    PROVE  TypeInv'
  <1>1. CASE [Next]_vars
    BY <1>1, TypeStep
  <1>2. ASSUME NEW k \in UserWords, SearchMiss(k)
        PROVE  TypeInv'
    BY <1>2
    DEF SearchMiss, TypeInv, TypeOK, ChannelTypeOK, ClientTypeOK, ServerTypeOK, Protocol,
        chanVars, serverVars, Plain
  <1>3. CASE Aborted
    <2>1. ClientTypeOK'
      BY <1>3, Columns DEF Aborted, Gone, TypeInv, TypeOK, ClientTypeOK, PC, NoUpdate, Plain
    <2>2. req = None
      BY <1>3 DEF Aborted, TypeInv, Protocol, Waiting
    <2>3. Protocol'
      BY <1>3, <2>2 DEF Aborted, Gone, Protocol, Waiting
    <2> QED
      BY <1>3, <2>1, <2>3 DEF Aborted, TypeInv, TypeOK, ChannelTypeOK, ServerTypeOK, serverVars
  <1> QED
    BY <1>1, <1>2, <1>3, DirIndexStep

(* What EncryptedIndex keeps is kept under the names as well.              *)
LEMMA DirInvStep ==
    ASSUME BenignEnv, PoolsInv, IndexInv, PlainInv, [DirNext]_allVars
    PROVE  IndexInv' /\ PlainInv'
  <1>1. TypeOK' /\ Protocol' /\ Protocol /\ RequestFresh
    BY DirTypeStep DEF IndexInv, TypeInv
  <1>2. CASE [Next]_vars
    <2>1. IndexInv'
      BY <1>2, IndexStep
    <2> QED
      BY <1>2, <2>1, PlainStep
  <1>3. ASSUME NEW k \in UserWords, SearchMiss(k)
        PROVE  IndexInv' /\ PlainInv'
    <2>1. /\ UNCHANGED <<pc, ready, kwCtr, blkCtr, arg, upd, disk, chanVars, serverVars>>
          /\ res' = {}
      BY <1>3 DEF SearchMiss
    <2>2. IndexInv'
      BY <2>1, IndexKept DEF Plain
    <2>3. \A r \in Rows : LiveRow(r)' = LiveRow(r)
      BY <2>1 DEF LiveRow, serverVars
    <2>4. UpdateMeant'
      BY <2>1, <2>3 DEF PlainInv, UpdateMeant, InUse, chanVars
    <2> QED
      BY <2>1, <2>2, <2>4, PlainKept DEF PlainInv, chanVars
  <1>4. CASE Aborted
    <2>1. req = None /\ late = None
      BY <1>1, <1>4 DEF Aborted, Protocol, Waiting, RequestFresh, InUse, IndexInv, Loading
    <2>2. /\ pc' = "halted" /\ ready' = FALSE /\ rep' = None
          /\ UNCHANGED <<disk, req, late, serverVars>>
      BY <1>4 DEF Aborted, Gone
    <2>3. Saving' <=> Saving
      BY <1>4, <2>2 DEF Aborted, Saving
    <2>4. late'.cmd = "search" => ~DecryptAtClient
      BY <2>1, <2>2 DEF None
    <2>5. IndexInv'
      BY <1>1, <2>2, <2>3, <2>4, ClientGone
    <2>6. UpdateMeant'
      BY <2>2 DEF UpdateMeant, InUse
    <2> QED
      BY <2>2, <2>5, <2>6, PlainKept DEF PlainInv
  <1> QED
    BY <1>2, <1>3, <1>4, DirIndexStep

-----------------------------------------------------------------------------
(* The documents and the rows *)

(* The client never touches the matrix itself. *)
LEMMA TablesKept ==
    ASSUME UNCHANGED serverVars
    PROVE  Table' = Table /\ SavedTable' = SavedTable
  <1>1. \A r : LiveRow(r)' = LiveRow(r)
    BY DEF serverVars, LiveRow
  <1> QED
    BY <1>1 DEF serverVars, Table, SavedTable

(* A step that leaves matrix and files alone: what is left to show.        *)
LEMMA DocsKept ==
    ASSUME DocsInv, UNCHANGED <<serverVars, dirDisk, docsDisk>>,
           Saving' <=> Saving,
           Named(dir', docs'),
           InUse' => Holds(MeantTable', dir', docs'),
           DiskStorage /\ Stopped' => Stopped \/ Holds(Table, dirDisk, docsDisk),
           pc' = "load" => /\ dir' = dirDisk /\ docs' = docsDisk
                           /\ rep' # None => Holds(Table, dir', docs'),
           pc' \in {"saved", "save"} => dirDisk = dir' /\ docsDisk = docs'
    PROVE  DocsInv'
  <1>1. Table' = Table /\ SavedTable' = SavedTable
    BY TablesKept
  <1>2. Named(dirDisk, docsDisk)' /\ Named(dir, docs)'
    BY DEF DocsInv, Named
  <1>3. /\ ~DiskStorage => Holds(IF Saving' THEN Table' ELSE SavedTable', dirDisk', docsDisk')
        /\ DiskStorage /\ Stopped' => Holds(Table', dirDisk', docsDisk')
    BY <1>1 DEF DocsInv
  <1> QED
    BY <1>1, <1>2, <1>3 DEF DocsInv, Holds, Having

LEMMA NamesInit == RowZeroTaken /\ ColZeroTaken /\ DirInit => NamesInv
  <1> SUFFICES ASSUME RowZeroTaken, ColZeroTaken, DirInit PROVE NamesInv
    OBVIOUS
  <1>1. /\ dir \in Dir!BuiltTables(DB) /\ Considered(dir)
        /\ ChannelInit /\ ClientInit /\ ServerInit(PlainMatrix(dir))
        /\ dirDisk = dir /\ docs = Stored /\ docsDisk = Stored /\ call = NoCall
    BY DEF DirInit
  <1>2. /\ Named(dir, Stored) /\ Holds(PlainMatrix(dir), dir, Stored)
        /\ PlainMatrix(dir) \in [Rows -> SUBSET Cols]
    BY <1>1, BuiltHolds
  <1>3. IndexInv /\ PlainInv
    BY <1>1, <1>2, IndexStart, PlainStart
  <1>4. Table = PlainMatrix(dir) /\ (~DiskStorage => SavedTable = PlainMatrix(dir))
    BY <1>1, <1>2, TableStart
  <1>5. /\ pc = "menu" /\ ready /\ req = None /\ late = None
    BY <1>1 DEF ClientInit, ChannelInit
  <1>6. MeantTable = Table /\ ~Saving /\ ~Stopped
    BY <1>5 DEF MeantTable, Saving, Stopped, None
  <1>7. DocsInv
    BY <1>1, <1>2, <1>4, <1>5, <1>6 DEF DocsInv
  <1>8. CallMeant /\ SearchCounts
    BY <1>1, <1>5 DEF CallMeant, SearchCounts, NoCall
  <1> QED
    BY <1>3, <1>7, <1>8, PoolsInit DEF NamesInv

(* At the menu of a client in use the rows hold the user's documents.      *)
LEMMA MenuHolds ==
    ASSUME NamesInv, pc \in {"menu", "fetch", "search"}, pc = "menu" => ready
    PROVE  /\ InUse /\ Holds(Table, dir, docs) /\ late = None /\ ready
           /\ pc = "menu" \/ rep # None => ~Saving /\ req = None
           /\ pc = "menu" => rep = None
           /\ ~Stopped
  <1>1. IndexInv /\ DocsInv
    BY DEF NamesInv
  <1>2. TypeOK /\ Protocol /\ Loading /\ RequestFresh
    BY <1>1 DEF IndexInv
  <1>3. InUse /\ ready
    BY <1>2 DEF Loading, InUse
  <1>4. MeantTable = Table
    BY DEF MeantTable
  <1>5. Holds(Table, dir, docs)
    BY <1>1, <1>3, <1>4 DEF DocsInv
  <1>6. late = None
    BY <1>2, <1>3 DEF RequestFresh
  <1>7. pc = "menu" \/ rep # None => req = None
    BY <1>2 DEF Protocol, Waiting
  <1>8. pc = "menu" => rep = None
    BY <1>2 DEF Protocol, Waiting
  <1>9. ~Stopped
    BY <1>3 DEF Stopped
  <1> QED
    BY <1>3, <1>5, <1>6, <1>7, <1>8, <1>9 DEF Saving, None

LEMMA SearchDocs ==
    ASSUME NamesInv, NEW k \in UserWords, SearchHit(k) \/ SearchMiss(k) \/ SearchGivesUp(k)
    PROVE  DocsInv' /\ CallMeant' /\ SearchCounts'
  <1>1. DocsInv /\ PoolsInv /\ Named(dir, docs)
    BY DEF NamesInv, DocsInv
  <1>2. CASE SearchHit(k)
    <2>1. /\ pc = "menu" /\ ready /\ pc' = "search" /\ ready' = ready
          /\ dir.T_W[k] # 0 /\ arg' = dir.T_W[k] /\ call' = [op |-> "search", kw |-> k]
          /\ UNCHANGED <<serverVars, dir, dirDisk, docs, docsDisk, late, rep>>
          /\ req'.cmd \in {"search", "search_data"}
      BY <1>2 DEF SearchHit, SearchKeyword, Send, Dir!NULL
    <2>2. ~Saving /\ Holds(Table, dir, docs) /\ late = None
      BY <2>1, MenuHolds
    <2>3. Saving' <=> Saving
      BY <2>1, <2>2 DEF Saving, None
    <2>4. MeantTable' = Table /\ ~Stopped'
      BY <2>1, TablesKept DEF MeantTable, Stopped
    <2>5. DocsInv'
      BY <1>1, <2>1, <2>2, <2>3, <2>4, DocsKept
    <2> QED
      BY <2>1, <2>5 DEF CallMeant, SearchCounts
  <1>3. CASE SearchMiss(k)
    <2>1. /\ pc = "menu" /\ ready /\ pc' = pc /\ ready' = ready
          /\ dir.T_W[k] = 0 /\ res' = {} /\ call' = [op |-> "search", kw |-> k]
          /\ UNCHANGED <<chanVars, serverVars, dir, dirDisk, docs, docsDisk>>
      BY <1>3 DEF SearchMiss, Dir!NULL
    <2>2. ~Saving /\ Holds(Table, dir, docs)
      BY <2>1, MenuHolds
    <2>3. Saving' <=> Saving
      BY <2>1 DEF Saving, chanVars
    <2>4. MeantTable' = Table /\ ~Stopped'
      BY <2>1, TablesKept DEF MeantTable, Stopped
    <2>5. DocsInv'
      BY <1>1, <2>1, <2>2, <2>3, <2>4, DocsKept
    <2>6. {f \in Files : k \in docs[f]} = {}
      BY <1>1, <2>1 DEF Named
    <2>7. SearchCounts'
      BY <2>1, <2>6 DEF SearchCounts
    <2> QED
      BY <2>1, <2>5, <2>7 DEF CallMeant
  <1>4. CASE SearchGivesUp(k)
    <2>1. /\ pc = "menu" /\ ready /\ pc' = "halted" /\ ready' = FALSE
          /\ UNCHANGED <<serverVars, dir, dirDisk, docs, docsDisk, req, late>>
      BY <1>4 DEF SearchGivesUp, SearchExhausted, Gone, dirVars
    <2>2. Saving' <=> Saving
      BY <2>1 DEF Saving
    <2>3. ~InUse' /\ ~Stopped'
      BY <2>1 DEF InUse, Stopped
    <2>4. DocsInv'
      BY <1>1, <2>1, <2>2, <2>3, DocsKept
    <2> QED
      BY <2>1, <2>4 DEF CallMeant, SearchCounts
  <1> QED
    BY <1>2, <1>3, <1>4

(* From the moment its block is sent, a call counts as done.               *)
LEMMA TokenDocs ==
    ASSUME NamesInv, NEW d, PoolsGood(d), Named(d, docs), Holds(Table, d, docs), ~Saving,
           NEW b, NEW op \in {"add", "del"}, NEW f \in UserFiles, NEW W \in SUBSET UserWords,
           op = "del" => W = {}, d.T_F[f] # 0, TokenFor(d, b, op, f, W)
    PROVE  DocsInv' /\ pc' = "update"
  <1>1. PICK e \in Outcomes(d, op, f, W) :
            /\ IF op = "add" THEN SendBlock(b, e.T_F[f], Dir!RowsOf(e, W))
                             ELSE SendBlock(b, d.T_F[f], {})
            /\ dir' = e
            /\ docs' = [docs EXCEPT ![f] = W]
            /\ UNCHANGED <<serverVars, dirDisk, docsDisk>>
    BY DEF TokenFor
  <1> DEFINE rows == IF op = "add" THEN Dir!RowsOf(e, W) ELSE {}
  <1>2. op = "add" => e.T_F = d.T_F
    BY TokenSends
  <1>3. SendBlock(b, d.T_F[f], rows)
    BY <1>1, <1>2
  <1> HIDE DEF rows
  <1>4. /\ pc' = "update" /\ rep' = None /\ upd' = [col |-> d.T_F[f], rows |-> rows]
        /\ req'.cmd = "update" /\ late' = late
    BY <1>3 DEF SendBlock
  <1>5. /\ Named(dir', docs')
        /\ Holds(Written(Table, d.T_F[f], rows), dir', docs')
    BY <1>1, TokenHolds DEF rows
  <1>6. MeantTable' = Written(Table, d.T_F[f], rows)
    <2>1. Table' = Table
      BY <1>1, TablesKept
    <2> QED
      BY <1>4, <2>1 DEF MeantTable, Written
  <1>7. Saving' <=> Saving
    BY <1>4 DEF Saving
  <1>8. ~Stopped'
    BY <1>4 DEF Stopped
  <1>9. DocsInv'
    BY <1>1, <1>4, <1>5, <1>6, <1>7, <1>8, DocsKept DEF NamesInv
  <1> QED
    BY <1>4, <1>9

LEMMA UpdateDocs ==
    ASSUME NamesInv, NEW op \in {"add", "del"}, NEW f \in UserFiles,
           NEW W \in SUBSET UserWords, op = "del" => W = {}, Update(op, f, W)
    PROVE  DocsInv' /\ CallMeant' /\ SearchCounts'
  <1>1. DocsInv /\ PoolsGood(dir) /\ Named(dir, docs)
    BY DEF NamesInv, DocsInv, PoolsInv
  <1>2. CASE RequestFor(op, f, W)
    <2>1. PICK d \in Dir!WithFile(dir, f) :
              RequestBlock(BlockOf(d.T_F[f])) /\ dir' = d
      BY <1>2 DEF RequestFor
    <2>2. /\ pc = "menu" /\ ready /\ pc' = "fetch" /\ ready' = ready
          /\ call' = [op |-> op, file |-> f, words |-> W]
          /\ UNCHANGED <<serverVars, dirDisk, docs, docsDisk, late, rep>>
          /\ req'.cmd = "block_data"
      BY <1>2, <2>1 DEF RequestFor, RequestBlock, Send
    <2>3. ~Saving /\ Holds(Table, dir, docs)
      BY <2>2, MenuHolds
    <2>4. Named(d, docs) /\ Holds(Table, d, docs)
      BY <1>1, <2>3, WithFileHolds
    <2>5. Saving' <=> Saving
      BY <2>2, <2>3 DEF Saving
    <2>6. MeantTable' = Table /\ ~Stopped'
      BY <2>2, TablesKept DEF MeantTable, Stopped
    <2>7. DocsInv'
      BY <1>1, <2>1, <2>2, <2>4, <2>5, <2>6, DocsKept
    <2> QED
      BY <2>2, <2>7 DEF CallMeant, SearchCounts
  <1>3. CASE UpdateColumn(op, f, W)
    <2>1. PICK d \in Dir!WithFile(dir, f) : TokenFor(d, BlockOf(d.T_F[f]), op, f, W)
      BY <1>3 DEF UpdateColumn
    <2>2. PoolsGood(d) /\ d.T_F[f] # 0
      BY <1>1, <2>1, WithFileGood
    <2>3. pc = "menu" /\ ready
      BY <1>3, <2>1 DEF UpdateColumn, TokenFor, SendBlock
    <2>4. ~Saving /\ Holds(Table, dir, docs)
      BY <2>3, MenuHolds
    <2>5. Named(d, docs) /\ Holds(Table, d, docs)
      BY <1>1, <2>4, WithFileHolds
    <2>6. DocsInv' /\ pc' = "update"
      BY <2>1, <2>2, <2>4, <2>5, TokenDocs
    <2>7. call'.op = op
      BY <1>3 DEF UpdateColumn
    <2> QED
      BY <2>6, <2>7 DEF CallMeant, SearchCounts
  <1>4. CASE UpdateAborts(op, f, W)
    <2>1. /\ (pc = "menu" /\ ready) \/ (pc = "fetch" /\ rep # None)
          /\ pc' = "halted" /\ ready' = FALSE
          /\ UNCHANGED <<serverVars, dir, dirDisk, docs, docsDisk, req, late>>
      BY <1>4 DEF UpdateAborts, PoolEmpty, Gone, dirVars
    <2>2. Saving' <=> Saving
      BY <2>1 DEF Saving
    <2>3. ~InUse' /\ ~Stopped'
      BY <2>1 DEF InUse, Stopped
    <2>4. DocsInv'
      BY <1>1, <2>1, <2>2, <2>3, DocsKept
    <2> QED
      BY <2>1, <2>4 DEF CallMeant, SearchCounts
  <1> QED
    BY <1>2, <1>3, <1>4 DEF Update

LEMMA FetchedDocs ==
    ASSUME NamesInv, UpdateFetched
    PROVE  DocsInv' /\ CallMeant' /\ SearchCounts'
  <1>1. /\ pc = "fetch" /\ TokenFor(dir, arg, call.op, call.file, call.words)
        /\ call' = call
    BY DEF UpdateFetched
  <1>2. /\ call.op \in {"add", "del"} /\ call.file \in UserFiles
        /\ call.words \in SUBSET UserWords /\ dir.T_F[call.file] # 0
        /\ call.op = "del" => call.words = {}
        /\ PoolsGood(dir) /\ Named(dir, docs)
    BY <1>1 DEF NamesInv, PoolsInv, FetchCall, DocsInv
  <1>3. rep # None
    <2>1. BlockSize > 1 \/ pc = "menu"
      BY <1>1, <1>2 DEF TokenFor, SendBlock
    <2> QED
      BY <1>1, <1>2, <2>1 DEF TokenFor, SendBlock
  <1>4. ~Saving /\ Holds(Table, dir, docs)
    BY <1>1, <1>3, MenuHolds
  <1>5. DocsInv' /\ pc' = "update"
    BY <1>1, <1>2, <1>4, TokenDocs
  <1> QED
    BY <1>1, <1>2, <1>5 DEF CallMeant, SearchCounts

LEMMA LoadDocs ==
    ASSUME BenignEnv, NamesInv, LoadTables
    PROVE  DocsInv' /\ CallMeant' /\ SearchCounts'
  <1>1. DocsInv /\ Protocol
    BY DEF NamesInv, IndexInv
  <1>2. /\ pc = "menu" /\ (~ready \/ "reload" \in Env) /\ pc' = "load"
        /\ req' = [cmd |-> "load"] /\ UNCHANGED <<late, rep>>
        /\ dir' = dirDisk /\ docs' = docsDisk /\ call' = NoCall
        /\ UNCHANGED <<serverVars, dirDisk, docsDisk>>
    BY DEF LoadTables, LoadState, Send
  <1>3. req = None /\ rep = None
    BY <1>1, <1>2 DEF Protocol, Waiting
  <1>4. Saving' <=> Saving
    BY <1>2, <1>3 DEF Saving, None
  <1>5. DiskStorage => Stopped
    BY <1>2 DEF BenignEnv, Stopped
  <1>6. ~InUse'
    BY <1>2 DEF InUse
  <1>7. Named(dir', docs')
    BY <1>1, <1>2 DEF DocsInv
  <1>8. DocsInv'
    BY <1>1, <1>2, <1>3, <1>4, <1>5, <1>6, <1>7, DocsKept
  <1> QED
    BY <1>2, <1>8 DEF CallMeant, SearchCounts

LEMMA SaveDocs ==
    ASSUME NamesInv, SaveTables
    PROVE  DocsInv' /\ CallMeant' /\ SearchCounts'
  <1>1. /\ pc = "menu" /\ ready /\ pc' = "saved"
        /\ dirDisk' = dir /\ docsDisk' = docs /\ dir' = dir /\ docs' = docs
        /\ UNCHANGED serverVars
    BY DEF SaveTables, SaveState
  <1>2. Holds(Table, dir, docs) /\ Named(dir, docs)
    BY <1>1, MenuHolds DEF NamesInv, DocsInv
  <1>3. Table' = Table
    BY <1>1, TablesKept
  <1>4. MeantTable' = Table /\ Saving' /\ ~Stopped'
    BY <1>1, <1>3 DEF MeantTable, Saving, Stopped
  <1>5. /\ Holds(Table', dir', docs') /\ Holds(Table', dirDisk', docsDisk')
        /\ Named(dir', docs') /\ Named(dirDisk', docsDisk')
    BY <1>1, <1>2, <1>3
  <1>6. DocsInv'
    BY <1>1, <1>3, <1>4, <1>5 DEF DocsInv, Holds, Having, Named
  <1> QED
    BY <1>1, <1>6 DEF CallMeant, SearchCounts

(* What a search is answered with are the columns in its keyword's row.    *)
LEMMA GoesOnDocs ==
    ASSUME BenignEnv, NamesInv, ClientGoesOn
    PROVE  DocsInv' /\ CallMeant' /\ SearchCounts'
  <1>1. /\ DocsInv /\ CallMeant /\ IndexInv /\ Named(dir, docs) /\ PoolsGood(dir)
        /\ Protocol /\ Loading
    BY DEF NamesInv, PoolsInv, DocsInv, IndexInv
  <1>2. UNCHANGED <<serverVars, dir, dirDisk, call, docs, docsDisk>>
    BY DEF ClientGoesOn, dirVars
  <1>3. CASE SearchDone
    <2>1. /\ pc = "search" /\ rep # None /\ pc' = "menu" /\ ready' = ready
          /\ UNCHANGED <<req, late>>
      BY <1>3 DEF SearchDone, TakeAnswer
    <2>2. Holds(Table, dir, docs) /\ ready /\ ~Saving
      BY <2>1, MenuHolds
    <2>3. Saving' <=> Saving
      BY <2>1 DEF Saving
    <2>4. MeantTable' = Table /\ ~Stopped'
      BY <1>2, <2>1, <2>2, TablesKept DEF MeantTable, Stopped
    <2>5. DocsInv'
      BY <1>1, <1>2, <2>1, <2>2, <2>3, <2>4, DocsKept
    <2>6. /\ call.op = "search" /\ call.kw \in UserWords
          /\ arg = dir.T_W[call.kw] /\ dir.T_W[call.kw] # 0
      BY <1>1, <2>1 DEF CallMeant
    <2>7. res' = Table[dir.T_W[call.kw]]
      <3>1. arg \in Rows /\ res' = PlainRow(LiveRow(arg))
        BY <1>1, <1>3, SearchShows
      <3> QED
        BY <2>6, <3>1 DEF Table
    <2>8. Cardinality(res') = Cardinality({f \in Files : call.kw \in docs[f]})
      BY <1>1, <2>2, <2>6, <2>7, RowCounts
    <2> QED
      BY <1>2, <2>1, <2>5, <2>8 DEF CallMeant, SearchCounts
  <1>4. CASE UpdateDone
    <2>1. /\ pc = "update" /\ rep # None /\ pc' = "menu" /\ ready' = ready
          /\ UNCHANGED <<req, late>>
      BY <1>4 DEF UpdateDone, TakeAnswer
    <2>2. InUse /\ ready /\ MeantTable = Table
      BY <1>1, <2>1 DEF Loading, InUse, MeantTable
    <2>3. Saving' <=> Saving
      BY <2>1 DEF Saving
    <2>4. MeantTable' = Table /\ ~Stopped'
      BY <1>2, <2>1, <2>2, TablesKept DEF MeantTable, Stopped
    <2>5. DocsInv'
      BY <1>1, <1>2, <2>1, <2>2, <2>3, <2>4, DocsKept DEF DocsInv
    <2> QED
      BY <1>1, <1>2, <2>1, <2>5 DEF CallMeant, SearchCounts
  <1>5. CASE LoadDone
    <2>1. /\ pc = "load" /\ rep # None /\ pc' = "menu" /\ ready' = ready
          /\ UNCHANGED <<req, late>>
      BY <1>5 DEF LoadDone, TakeAnswer
    <2>2. ready /\ Holds(Table, dir, docs) /\ call = NoCall
      BY <1>1, <2>1 DEF Loading, DocsInv, CallMeant
    <2>3. Saving' <=> Saving
      BY <2>1 DEF Saving
    <2>4. MeantTable' = Table /\ ~Stopped'
      BY <1>2, <2>1, <2>2, TablesKept DEF MeantTable, Stopped
    <2>5. DocsInv'
      BY <1>1, <1>2, <2>1, <2>2, <2>3, <2>4, DocsKept
    <2> QED
      BY <1>2, <2>1, <2>2, <2>5 DEF CallMeant, SearchCounts, NoCall
  <1>6. CASE SendSave
    <2>1. /\ pc = "saved" /\ pc' = "save" /\ req' = [cmd |-> "save"] /\ ready' = ready
          /\ UNCHANGED <<late, rep>>
      BY <1>6 DEF SendSave, Send
    <2>2. InUse /\ ready /\ MeantTable = Table
      BY <1>1, <2>1 DEF Loading, InUse, MeantTable
    <2>3. Saving' /\ Saving
      BY <2>1 DEF Saving
    <2>4. MeantTable' = Table /\ ~Stopped'
      BY <1>2, <2>1, <2>2, TablesKept DEF MeantTable, Stopped
    <2>5. DocsInv'
      BY <1>1, <1>2, <2>1, <2>2, <2>3, <2>4, DocsKept DEF DocsInv
    <2> QED
      BY <2>1, <2>5 DEF CallMeant, SearchCounts
  <1>7. CASE Start
    <2>1. /\ pc = "off" \/ (pc = "halted" /\ "reload" \in Env)
          /\ pc' = "menu" /\ ready' = ready
          /\ UNCHANGED <<req, late>>
      BY <1>7 DEF Start
    <2>2. ~ready
      BY <1>1, <2>1 DEF Loading
    <2>3. Saving' <=> Saving
      BY <2>1 DEF Saving
    <2>4. ~InUse' /\ (DiskStorage => Stopped)
      BY <2>1, <2>2 DEF InUse, Stopped, BenignEnv
    <2>5. DocsInv'
      BY <1>1, <1>2, <2>1, <2>3, <2>4, DocsKept
    <2> QED
      BY <2>1, <2>2, <2>5 DEF CallMeant, SearchCounts
  <1> QED
    BY <1>3, <1>4, <1>5, <1>6, <1>7 DEF ClientGoesOn

(* A client that ends in good order leaves on disk what it had in memory;  *)
(* one that is killed, what was saved last.                                *)
LEMMA EndsDocs ==
    ASSUME BenignEnv, NamesInv, ClientEnds
    PROVE  DocsInv' /\ CallMeant' /\ SearchCounts'
  <1>1. DocsInv /\ IndexInv /\ Named(dir, docs) /\ Protocol /\ Loading
    BY DEF NamesInv, DocsInv, IndexInv
  <1>2. UNCHANGED <<serverVars, dir, dirDisk, docs, docsDisk>>
    BY DEF ClientEnds
  <1>3. CASE Exit
    <2>1. /\ pc = "save" /\ rep # None /\ pc' = "off" /\ ready' = FALSE
          /\ UNCHANGED <<req, late>>
      BY <1>3 DEF Exit, TakeAnswer, Gone
    <2>2. InUse /\ MeantTable = Table /\ dirDisk = dir /\ docsDisk = docs
      BY <1>1, <2>1 DEF Loading, InUse, MeantTable, DocsInv
    <2>3. Holds(Table, dirDisk, docsDisk)
      BY <1>1, <2>2 DEF DocsInv
    <2>4. (Saving' <=> Saving) /\ ~InUse'
      BY <2>1 DEF Saving, InUse
    <2>5. DocsInv'
      BY <1>1, <1>2, <2>1, <2>3, <2>4, DocsKept
    <2> QED
      BY <2>1, <2>5 DEF CallMeant, SearchCounts
  <1>4. CASE Crash
    <2>1. /\ pc' = "halted" /\ ready' = FALSE /\ pc # "saved"
          /\ late = None /\ late' = req /\ req' = None
      BY <1>4 DEF Crash, Gone, BenignEnv
    <2>2. (Saving' <=> Saving) /\ ~InUse' /\ ~Stopped'
      BY <2>1 DEF Saving, InUse, Stopped, None
    <2>3. DocsInv'
      BY <1>1, <1>2, <2>1, <2>2, DocsKept
    <2> QED
      BY <2>1, <2>3 DEF CallMeant, SearchCounts
  <1> QED
    BY <1>3, <1>4 DEF ClientEnds

(* Which request the server handles while the client runs, loads, or is    *)
(* not there.                                                              *)
LEMMA ServedCall ==
    ASSUME IndexInv, NEW cmd, cmd # "none", Serve(cmd), NEW a, Reply(a), a # None
    PROVE  /\ InUse \/ (DiskStorage /\ Stopped) \/ (pc = "load" /\ rep' # None) => late = None
           /\ late = None => /\ rep = None /\ rep' # None /\ pc \in Waiting
                             /\ pc \in {"update", "load", "save"} => cmd = pc
                             /\ pc \in {"search", "fetch"} => cmd \notin {"update", "load", "save"}
           /\ Saving <=> cmd = "save"
  <1>1. TypeOK /\ Protocol /\ RequestFresh /\ FilesAgree /\ Loading
    BY DEF IndexInv
  <1>2. late = None => /\ Incoming = req /\ req.cmd = cmd /\ req # None /\ rep = None
                       /\ rep' = a /\ pc \in Waiting
                       /\ pc = "search" => cmd = IF DecryptAtClient THEN "search_data" ELSE "search"
                       /\ pc = "fetch" => cmd = "block_data"
                       /\ pc \in {"update", "load", "save"} => cmd = pc
    BY <1>1, Served
  <1>3. late # None => Incoming = late /\ late.cmd = cmd /\ rep' = rep /\ rep = None
    BY <1>1 DEF Serve, Reply, Incoming, Protocol
  <1>4. InUse => late = None
    BY <1>1 DEF RequestFresh
  <1>5. DiskStorage /\ Stopped => late = None
    BY <1>1 DEF FilesAgree, Stopped
  <1>6. pc = "load" /\ rep' # None => late = None
    BY <1>3
  <1>7. late = None => rep' # None /\ (pc \in {"search", "fetch"} => cmd \notin {"update", "load", "save"})
    BY <1>2
  <1>8. Saving => cmd = "save"
    <2>1. CASE pc = "saved"
      <3>1. InUse /\ pc \notin Waiting
        BY <1>1, <2>1 DEF Loading, InUse, Waiting
      <3> QED
        BY <1>2, <1>4, <3>1
    <2>2. CASE req.cmd = "save"
      <3>1. pc = "save"
        BY <1>1, <2>2 DEF Protocol, Waiting, None
      <3>2. InUse
        BY <1>1, <3>1 DEF Loading, InUse
      <3> QED
        BY <1>2, <1>4, <2>2, <3>2
    <2>3. CASE late.cmd = "save"
      BY <1>3, <2>3 DEF None
    <2> QED
      BY <2>1, <2>2, <2>3 DEF Saving
  <1>9. cmd = "save" => Saving
    BY <1>2, <1>3 DEF Saving
  <1> QED
    BY <1>2, <1>4, <1>5, <1>6, <1>7, <1>8, <1>9

(* The rows and the saved rows after a request is all that counts.         *)
LEMMA HandledDocs ==
    ASSUME NamesInv, UNCHANGED <<clientVars, dirVars>>,
           NEW cmd, cmd # "none", Serve(cmd), NEW a, Reply(a), a # None,
           cmd = "update" /\ InUse => Table' = MeantTable,
           cmd = "load" => Table' = IF DiskStorage THEN Table ELSE SavedTable,
           cmd \notin {"update", "load"} => Table' = Table,
           cmd = "save" => SavedTable' = IF DiskStorage THEN SavedTable ELSE Table,
           cmd # "save" => SavedTable' = SavedTable
    PROVE  DocsInv'
  <1>1. IndexInv /\ DocsInv
    BY DEF NamesInv
  <1>2. /\ InUse \/ (DiskStorage /\ Stopped) \/ (pc = "load" /\ rep' # None) => late = None
        /\ late = None => /\ rep = None /\ rep' # None /\ pc \in Waiting
                          /\ pc \in {"update", "load", "save"} => cmd = pc
                          /\ pc \in {"search", "fetch"} => cmd \notin {"update", "load", "save"}
        /\ Saving <=> cmd = "save"
    BY <1>1, ServedCall
  <1>3. /\ UNCHANGED <<pc, ready, upd, dir, dirDisk, docs, docsDisk>>
        /\ req' \in {req, None} /\ late' \in {late, None}
    BY DEF clientVars, dirVars, Reply
  <1>4. Saving' => Saving
    BY <1>3 DEF Saving, None
  <1>5. InUse => Table' = MeantTable /\ MeantTable' = Table'
    <2>1. CASE pc = "update"
      BY <1>2, <1>3, <2>1 DEF MeantTable
    <2>2. CASE pc # "update" /\ InUse
      <3>1. cmd \notin {"update", "load"}
        BY <1>2, <2>2 DEF InUse, Waiting
      <3> QED
        BY <1>3, <2>2, <3>1 DEF MeantTable
    <2> QED
      BY <2>1, <2>2
  <1>6. Named(dir', docs') /\ Named(dirDisk', docsDisk')
    BY <1>1, <1>3 DEF DocsInv
  <1>7. InUse => Holds(MeantTable', dir', docs')
    BY <1>1, <1>3, <1>5 DEF DocsInv
  <1>8. ~DiskStorage => Holds(IF Saving' THEN Table' ELSE SavedTable', dirDisk', docsDisk')
    BY <1>1, <1>2, <1>3, <1>4 DEF DocsInv
  <1>9. DiskStorage /\ Stopped => Table' = Table /\ Holds(Table', dirDisk', docsDisk')
    BY <1>1, <1>2, <1>3 DEF DocsInv, Stopped, Waiting
  <1>10. pc = "load" => /\ dir' = dirDisk' /\ docs' = docsDisk'
                        /\ rep' # None => Holds(Table', dir', docs')
    <2> SUFFICES ASSUME pc = "load"
                 PROVE  /\ dir' = dirDisk' /\ docs' = docsDisk'
                        /\ rep' # None => Holds(Table', dir', docs')
      OBVIOUS
    <2>1. dir = dirDisk /\ docs = docsDisk
      BY <1>1 DEF DocsInv
    <2>2. rep' # None => cmd = "load" /\ ~Saving
      BY <1>2
    <2>3. DiskStorage => Holds(Table, dirDisk, docsDisk)
      BY <1>1 DEF DocsInv, Stopped
    <2>4. ~DiskStorage /\ ~Saving => Holds(SavedTable, dirDisk, docsDisk)
      BY <1>1 DEF DocsInv
    <2> QED
      BY <1>3, <2>1, <2>2, <2>3, <2>4
  <1>11. (InUse' <=> InUse) /\ (Stopped' <=> Stopped)
    BY <1>3 DEF InUse, Stopped
  <1> QED
    BY <1>1, <1>3, <1>6, <1>7, <1>8, <1>9, <1>10, <1>11 DEF DocsInv, Named, Holds, Having

LEMMA ServerDocs ==
    ASSUME BenignEnv, NamesInv, ServerGoesOn
    PROVE  DocsInv' /\ CallMeant' /\ SearchCounts'
  <1>1. IndexInv /\ PlainInv /\ DocsInv /\ UpdateMeant /\ PendingRow
    BY DEF NamesInv, PlainInv, IndexInv
  <1>2. UNCHANGED <<clientVars, dirVars>>
    BY DEF ServerGoesOn
  <1>3. CallMeant' /\ SearchCounts'
    BY <1>2 DEF NamesInv, CallMeant, SearchCounts, clientVars, dirVars
  <1> SUFFICES DocsInv'
    BY <1>3
  (* A step without an answer, on disk storage *)
  <1>4. ASSUME DiskStorage, Table' = Table, rep' = rep
        PROVE  DocsInv'
    <2>1. UNCHANGED <<pc, ready, upd, dir, dirDisk, docs, docsDisk>>
      BY <1>2 DEF clientVars, dirVars
    <2>2. MeantTable' = MeantTable /\ (InUse' <=> InUse) /\ (Stopped' <=> Stopped)
      BY <1>4, <2>1 DEF MeantTable, Written, InUse, Stopped
    <2> QED
      BY <1>1, <1>4, <2>1, <2>2 DEF DocsInv, Named, Holds, Having
  <1>5. CASE ServerRestart
    BY <1>1, <1>4, <1>5, PlainRestart DEF ServerRestart, Restart, BenignEnv
  <1>6. CASE SaveRow
    <2>1. DiskStorage /\ Table' = Table /\ rep' = rep
      BY <1>1, <1>6, RowSaved DEF SaveRow, PendingRow
    <2> QED
      BY <1>4, <2>1
  <1>7. saved' = saved => SavedTable' = SavedTable
    BY DEF SavedTable
  <1>8. CASE HandleSearch
    <2>1. PICK a : Serve("search") /\ Reply(a) /\ a # None /\ saved' = saved
      BY <1>8 DEF HandleSearch, None
    <2>2. Table' = Table
      BY <1>1, <1>8, SearchServed
    <2> QED
      BY <1>2, <1>7, <2>1, <2>2, HandledDocs
  <1>9. CASE HandleSearchData
    <2>1. PICK a : Serve("search_data") /\ Reply(a) /\ a # None /\ UNCHANGED <<I, pend, saved>>
      BY <1>9 DEF HandleSearchData, serverVars, None
    <2> QED
      BY <1>2, <1>7, <2>1, MatrixKept, HandledDocs
  <1>10. CASE HandleBlockData
    <2>1. PICK a : Serve("block_data") /\ Reply(a) /\ a # None /\ UNCHANGED <<I, pend, saved>>
      BY <1>10 DEF HandleBlockData, BlockAnswer, None
    <2> QED
      BY <1>2, <1>7, <2>1, MatrixKept, HandledDocs
  <1>11. CASE HandleUpdate
    <2>1. PICK a : Serve("update") /\ Reply(a) /\ a # None /\ saved' = saved
      BY <1>11 DEF HandleUpdate, None
    <2>2. InUse => Table' = MeantTable
      BY <1>1, <1>11, UpdateWrites DEF MeantTable
    <2> QED
      BY <1>2, <1>7, <2>1, <2>2, HandledDocs
  <1>12. CASE HandleLoad
    <2>1. PICK a : Serve("load") /\ Reply(a) /\ a # None /\ saved' = saved
      BY <1>12 DEF HandleLoad, None
    <2>2. Table' = IF DiskStorage THEN Table ELSE SavedTable
      BY <1>1, <1>12, LoadServed
    <2> QED
      BY <1>2, <1>7, <2>1, <2>2, HandledDocs
  <1>13. CASE HandleSave
    <2>1. PICK a : /\ Serve("save") /\ Reply(a) /\ a # None /\ UNCHANGED <<I, pend>>
                   /\ saved'.I = IF DiskStorage THEN saved.I ELSE I
      BY <1>13 DEF HandleSave, None
    <2>2. pend = NoRow
      BY <2>1 DEF Serve
    <2>3. Table' = Table /\ SavedTable' = IF DiskStorage THEN SavedTable ELSE Table
      BY <2>1, <2>2, RowsStored, MatrixKept DEF SavedTable, Table
    <2> QED
      BY <1>2, <2>1, <2>3, HandledDocs
  <1> QED
    BY <1>5, <1>6, <1>8, <1>9, <1>10, <1>11, <1>12, <1>13 DEF ServerGoesOn, ServerStep

LEMMA PoolsImplied == PoolsInv => PoolsSound
  <1> SUFFICES ASSUME PoolsGood(dir) PROVE PoolsSound
    BY DEF PoolsInv
  <1>1. /\ dir.T_W \in [Keywords -> Rows] /\ dir.T_F \in [Files -> Cols]
        /\ dir.freeRow \subseteq Rows /\ dir.freeCol \subseteq Cols
    BY DEF PoolsGood, Dir!Table, Rows, Cols
  <1>2. /\ dir.freeRow = Rows \ {dir.T_W[k] : k \in Keywords}
        /\ dir.freeCol = Cols \ {dir.T_F[f] : f \in Files}
    BY <1>1 DEF PoolsGood
  <1>3. /\ dir.freeRow = Rows \ Range(dir.T_W)
        /\ dir.freeCol = Cols \ Range(dir.T_F)
    BY <1>1, <1>2 DEF Range
  <1> QED
    BY <1>3 DEF PoolsSound, PoolsGood, Dir!NULL

LEMMA NamesStep == BenignEnv /\ NamesInv /\ [DirNext]_allVars => NamesInv'
  <1> SUFFICES ASSUME BenignEnv, NamesInv, [DirNext]_allVars PROVE NamesInv'
    OBVIOUS
  <1>1. PoolsInv /\ IndexInv /\ PlainInv
    BY DEF NamesInv
  <1>2. PoolsInv' /\ IndexInv' /\ PlainInv'
    BY <1>1, PoolsStep, DirInvStep
  <1>3. ASSUME UNCHANGED allVars
        PROVE  DocsInv' /\ CallMeant' /\ SearchCounts'
    <2>1. /\ UNCHANGED <<pc, ready, arg, upd, res, req, late, rep, serverVars>>
          /\ UNCHANGED <<dir, dirDisk, call, docs, docsDisk>>
      BY <1>3 DEF allVars, vars, chanVars, clientVars, dirVars
    <2>2. /\ Table' = Table /\ MeantTable' = MeantTable
          /\ (Saving' <=> Saving) /\ (InUse' <=> InUse) /\ (Stopped' <=> Stopped)
      BY <2>1, TablesKept DEF MeantTable, Written, Saving, InUse, Stopped
    <2>3. DocsInv'
      BY <2>1, <2>2, DocsKept DEF NamesInv, DocsInv
    <2> QED
      BY <2>1, <2>3 DEF NamesInv, CallMeant, SearchCounts
  <1>4. DocsInv' /\ CallMeant' /\ SearchCounts'
    <2>1. ASSUME NEW f \in UserFiles, Update("del", f, {})
          PROVE  DocsInv' /\ CallMeant' /\ SearchCounts'
      BY <2>1, UpdateDocs
    <2>2. ASSUME NEW f \in UserFiles, NEW W \in SUBSET UserWords, Update("add", f, W)
          PROVE  DocsInv' /\ CallMeant' /\ SearchCounts'
      BY <2>2, UpdateDocs
    <2> QED
      BY <1>3, <2>1, <2>2, SearchDocs, FetchedDocs, LoadDocs, SaveDocs, GoesOnDocs, EndsDocs,
         ServerDocs
      DEF DirNext
  <1> QED
    BY <1>2, <1>4 DEF NamesInv

(* A free column belongs to no file, so no row has it.                     *)
LEMMA FreeColumnsImplied == NamesInv => FreeColumnsEmpty
  <1> SUFFICES ASSUME NamesInv, InUse, pc # "update", NEW c \in dir.freeCol, NEW r \in Rows
               PROVE  c \notin PlainRow(LiveRow(r))
    BY DEF FreeColumnsEmpty
  <1>1. Holds(Table, dir, docs) /\ PoolsGood(dir)
    BY DEF NamesInv, DocsInv, MeantTable, PoolsInv
  <1>2. \A f \in Files : dir.T_F[f] # c
    BY <1>1 DEF PoolsGood, Dir!Table, Cols
  <1>3. PlainRow(LiveRow(r)) = {dir.T_F[f] : f \in Having(r, dir, docs)}
    BY <1>1 DEF Holds, Table
  <1> QED
    BY <1>2, <1>3 DEF Having

(* The tables, the call and the record of what is stored keep their types. *)
LEMMA DirTypesStep ==
    ASSUME PoolsInv, TypeInv, DirTypeOK, [DirNext]_allVars
    PROVE  DirTypeOK'
  <1>1. TypeOK' /\ dir' \in Dir!Table /\ dirDisk' \in Dir!Table
    BY DirTypeStep, PoolsStep DEF TypeInv, PoolsInv, PoolsGood
  <1>2. ASSUME NEW d, NEW b, NEW op \in {"add", "del"}, NEW f \in UserFiles,
               NEW W \in SUBSET UserWords, TokenFor(d, b, op, f, W)
        PROVE  docs' \in [Files -> SUBSET Keywords] /\ docsDisk' = docsDisk
    <2>1. docs' = [docs EXCEPT ![f] = W] /\ docsDisk' = docsDisk
      BY <1>2 DEF TokenFor
    <2> QED
      BY <2>1, NamesAssumption DEF DirTypeOK
  <1>3. ASSUME NEW op \in {"add", "del"}, NEW f \in UserFiles, NEW W \in SUBSET UserWords,
               Update(op, f, W)
        PROVE  /\ call' \in Call \cup {NoCall} /\ docs' \in [Files -> SUBSET Keywords]
               /\ docsDisk' \in [Files -> SUBSET Keywords]
    <2>1. [op |-> op, file |-> f, words |-> W] \in Call
      BY DEF Call
    <2>2. CASE RequestFor(op, f, W)
      BY <2>1, <2>2 DEF RequestFor, DirTypeOK
    <2>3. CASE UpdateColumn(op, f, W)
      BY <1>2, <2>1, <2>3 DEF UpdateColumn, DirTypeOK
    <2>4. CASE UpdateAborts(op, f, W)
      BY <2>4 DEF UpdateAborts, dirVars, DirTypeOK
    <2> QED
      BY <1>3, <2>2, <2>3, <2>4 DEF Update
  <1>4. /\ call' \in Call \cup {NoCall} /\ docs' \in [Files -> SUBSET Keywords]
        /\ docsDisk' \in [Files -> SUBSET Keywords]
    <2>1. ASSUME NEW k \in UserWords, SearchHit(k) \/ SearchMiss(k) \/ SearchGivesUp(k)
          PROVE  /\ call' \in Call \cup {NoCall}
                 /\ UNCHANGED <<docs, docsDisk>>
      <3>1. [op |-> "search", kw |-> k] \in Call
        BY DEF Call
      <3> QED
        BY <2>1, <3>1 DEF SearchHit, SearchMiss, SearchGivesUp, dirVars, DirTypeOK
    <2>2. CASE UpdateFetched
      <3>1. /\ TokenFor(dir, arg, call.op, call.file, call.words) /\ call' = call
            /\ call.op \in {"add", "del"} /\ call.file \in UserFiles
            /\ call.words \in SUBSET UserWords
        BY <2>2 DEF UpdateFetched, PoolsInv, FetchCall
      <3> QED
        BY <1>2, <3>1 DEF DirTypeOK
    <2>3. CASE \E f \in UserFiles : Update("del", f, {})
      BY <1>3, <2>3
    <2>4. CASE \E f \in UserFiles, W \in SUBSET UserWords : Update("add", f, W)
      BY <1>3, <2>4
    <2>5. CASE LoadTables \/ SaveTables \/ ClientGoesOn \/ ClientEnds \/ ServerGoesOn
               \/ UNCHANGED allVars
      BY <2>5 DEF LoadTables, SaveTables, ClientGoesOn, ClientEnds, ServerGoesOn, allVars,
                  dirVars, DirTypeOK
    <2> QED
      BY <2>1, <2>2, <2>3, <2>4, <2>5 DEF DirNext, DirTypeOK
  <1> QED
    BY <1>1, <1>4 DEF DirTypeOK

-----------------------------------------------------------------------------
(* The theorems *)

(* Rows and columns taken from the free lists by searches, additions and   *)
(* deletions, over any number of saves, loads and crashes: none is ever    *)
(* owned twice and none is lost, if neither row 0 nor column 0 belongs to  *)
(* a name of the user or is free.                                          *)
THEOREM PoolsStaySound ==
    ASSUME RowZeroTaken, ColZeroTaken PROVE DirSpec => []PoolsSound
  <1>1. DirInit => PoolsInv
    BY PoolsInit
  <1>2. PoolsInv /\ [DirNext]_allVars => PoolsInv'
    BY PoolsStep
  <1>3. PoolsInv => PoolsSound
    BY PoolsImplied
  <1> QED
    BY <1>1, <1>2, <1>3, PTL DEF DirSpec

(* Whatever becomes of the processes, pickRandom_element never reads past  *)
(* the end of a free list, and the tables, the calls and the record of     *)
(* what is stored keep their types.                                        *)
THEOREM DirTypesCorrect ==
    ASSUME RowZeroTaken, ColZeroTaken PROVE DirSpec => []DirTypeOK
  <1>1. DirInit => PoolsInv /\ TypeInv /\ DirTypeOK
    <2> SUFFICES ASSUME DirInit PROVE PoolsInv /\ TypeInv /\ DirTypeOK
      OBVIOUS
    <2>1. NamesInv
      BY NamesInit
    <2>2. call = NoCall
      BY DEF DirInit
    <2> QED
      BY <2>1, <2>2
      DEF NamesInv, IndexInv, TypeInv, DirTypeOK, PoolsInv, PoolsGood, DocsInv, Named
  <1>2. PoolsInv /\ TypeInv /\ DirTypeOK /\ [DirNext]_allVars
          => (PoolsInv /\ TypeInv /\ DirTypeOK)'
    BY PoolsStep, DirTypeStep, DirTypesStep
  <1> QED
    BY <1>1, <1>2, PTL DEF DirSpec

LEMMA NamesInvariant ==
    ASSUME BenignEnv, RowZeroTaken, ColZeroTaken PROVE DirSpec => []NamesInv
  <1>1. DirInit => NamesInv
    BY NamesInit
  <1>2. NamesInv /\ [DirNext]_allVars => NamesInv'
    BY NamesStep
  <1> QED
    BY <1>1, <1>2, PTL DEF DirSpec

(* searchKeyword() shows as many files as have the keyword, whatever the   *)
(* user has added, deleted, saved and loaded before and whichever client   *)
(* was killed in between.                                                  *)
THEOREM SearchesCount ==
    ASSUME BenignEnv, RowZeroTaken, ColZeroTaken PROVE DirSpec => []SearchCounts
  <1>1. NamesInv => SearchCounts
    BY DEF NamesInv
  <1> QED
    BY <1>1, NamesInvariant, PTL

(* The column delToken() frees is empty when the next file gets it.        *)
THEOREM FreeColumnsStayEmpty ==
    ASSUME BenignEnv, RowZeroTaken, ColZeroTaken PROVE DirSpec => []FreeColumnsEmpty
  BY FreeColumnsImplied, NamesInvariant, PTL

(* Client and server agree on keys and counters under the names as they do *)
(* under rows and columns.                                                 *)
THEOREM NamesKeepIndex ==
    ASSUME BenignEnv, RowZeroTaken, ColZeroTaken
    PROVE  DirSpec => [](IndexInv /\ KeysAgree)
  <1>1. NamesInv => IndexInv
    BY DEF NamesInv
  <1> QED
    BY <1>1, KeysImplied, NamesInvariant, PTL

(* Searches and updates are as exact under the names: a step that is none  *)
(* of the index's own is neither.                                          *)
THEOREM NamesSearchExactly ==
    ASSUME BenignEnv, RowZeroTaken, ColZeroTaken
    PROVE  DirSpec => SearchExact /\ UpdateExact
  <1>1. NamesInv /\ [DirNext]_allVars
          => /\ [pc = "search" => /\ Table' = Table
                                  /\ pc' = "menu" => res' = Table[arg]]_vars
             /\ [pc = "update" /\ rep = None /\ rep' # None =>
                    Table' = Written(Table, upd.col, upd.rows)]_vars
    <2> SUFFICES ASSUME NamesInv, [DirNext]_allVars
                 PROVE  /\ [pc = "search" => /\ Table' = Table
                                             /\ pc' = "menu" => res' = Table[arg]]_vars
                        /\ [pc = "update" /\ rep = None /\ rep' # None =>
                               Table' = Written(Table, upd.col, upd.rows)]_vars
      OBVIOUS
    <2>1. IndexInv /\ UpdateMeant /\ PoolsInv
      BY DEF NamesInv, PlainInv
    <2>2. CASE [Next]_vars
      BY <2>1, <2>2, SearchStep, UpdateStep
    <2>3. CASE pc = "menu" \/ pc = "fetch"
      BY <2>3
    <2> QED
      BY <2>1, <2>2, <2>3, DirIndexStep DEF SearchMiss, Aborted
  <1> QED
    BY <1>1, NamesInvariant, PTL DEF DirSpec, SearchExact, UpdateExact

(* The program with its names still implements the index in the clear, of  *)
(* whatever rows and columns a build may make.                             *)
THEOREM NamesImplementPlain ==
    ASSUME BenignEnv, RowZeroTaken, ColZeroTaken, Built = [Rows -> SUBSET Cols]
    PROVE  DirSpec => ImplementsPlainIndex
  <1>1. DirInit => Clear!Init
    <2> SUFFICES ASSUME DirInit PROVE Clear!Init
      OBVIOUS
    <2>1. PlainMatrix(dir) \in [Rows -> SUBSET Cols] /\ ServerInit(PlainMatrix(dir))
      BY BuiltHolds DEF DirInit
    <2>2. Table = PlainMatrix(dir) /\ (~DiskStorage => SavedTable = PlainMatrix(dir))
      BY <2>1, TableStart
    <2> QED
      BY <2>1, <2>2 DEF DirInit, ClientInit, Clear!Init
  <1>2. NamesInv /\ [DirNext]_allVars
          => [Clear!Next]_<<Table, IF DiskStorage THEN Table ELSE SavedTable, res>>
    <2> SUFFICES ASSUME NamesInv, [DirNext]_allVars
                 PROVE  [Clear!Next]_<<Table, IF DiskStorage THEN Table ELSE SavedTable, res>>
      OBVIOUS
    <2>1. PoolsInv /\ IndexInv /\ PlainInv
      BY DEF NamesInv
    <2>2. CASE [Next]_vars
      BY <2>1, <2>2, PlainIndexStep
    <2>3. CASE res' = {} /\ UNCHANGED serverVars
      BY <2>3, TablesKept DEF Clear!Next, Clear!ClearScreen
    <2> QED
      BY <2>1, <2>2, <2>3, DirIndexStep DEF SearchMiss, Aborted, Gone
  <1> QED
    BY <1>1, <1>2, NamesInvariant, PTL DEF DirSpec, ImplementsPlainIndex, Clear!Spec

=============================================================================
