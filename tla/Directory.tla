------------------------------ MODULE Directory -----------------------------
(***************************************************************************)
(* The client's tables: which row a keyword has, which column a file has,  *)
(* and which rows and columns are free.  The tables are hash maps read     *)
(* with operator[], which answers 0 for a name they do not hold; so T_W    *)
(* and T_F are total functions here, and 0 stands both for "not there" and *)
(* for the first row or column: DSSE.cpp compares with NULL and cannot     *)
(* tell them apart.                                                        *)
(***************************************************************************)
EXTENDS Integers, FiniteSets, Functions

CONSTANTS Keywords, Files, NumRows, NumCols

NULL == 0

Table == [T_W     : [Keywords -> 0 .. NumRows - 1],    \* kw_hashtable
          T_F     : [Files -> 0 .. NumCols - 1],       \* file_hashtable
          freeRow : SUBSET (0 .. NumRows - 1),         \* lstFree_row_idx
          freeCol : SUBSET (0 .. NumCols - 1)]         \* lstFree_column_idx

(* setupData_structure: every name of the database, DB: its files to their *)
(* keywords, gets an index of its own at random.                           *)
Words(DB) == UNION {DB[f] : f \in DOMAIN DB}

BuiltTables(DB) ==
    {[T_W     |-> [k \in Keywords |-> IF k \in Words(DB) THEN w[k] ELSE NULL],
      T_F     |-> [f \in Files |-> IF f \in DOMAIN DB THEN c[f] ELSE NULL],
      freeRow |-> (0 .. NumRows - 1) \ Range(w),
      freeCol |-> (0 .. NumCols - 1) \ Range(c)] :
        w \in Injection(Words(DB), 0 .. NumRows - 1),
        c \in Injection(DOMAIN DB, 0 .. NumCols - 1)}

(* What pickRandom_element may turn the tables into when a file or a set   *)
(* of keywords is looked up.  An empty pool gives no outcome: the          *)
(* remainder by its size 0 ends the process.                               *)
WithFile(d, f) ==
    IF d.T_F[f] # NULL
    THEN {d}
    ELSE {[d EXCEPT !.T_F[f] = c, !.freeCol = @ \ {c}] : c \in d.freeCol}

WithKeywords_pastEnd(d, W) ==
    LET new == {k \in W : d.T_W[k] = NULL}
    IN  {[d EXCEPT !.T_W = [k \in Keywords |-> IF k \in new THEN w[k] ELSE @[k]],
                   !.freeRow = @ \ Range(w)] :
            w \in Injection(new, d.freeRow \cup {NumRows})}

WithKeywords(d, W) ==
    LET new == {k \in W : d.T_W[k] = NULL}
    IN  {[d EXCEPT !.T_W = [k \in Keywords |-> IF k \in new THEN w[k] ELSE @[k]],
                   !.freeRow = @ \ Range(w)] :
            w \in Injection(new, d.freeRow)}

(* addToken looks the file up again, requestBlock_index having done so     *)
(* once already.                                                           *)
Added(d, f, W) == UNION {WithKeywords(e, W) : e \in WithFile(d, f)}

(* delToken *)
Deleted_notErased(d, f) == [d EXCEPT !.freeCol = @ \cup {d.T_F[f]}]

Deleted(d, f) == [d EXCEPT !.T_F[f] = NULL, !.freeCol = @ \cup {d.T_F[f]}]

RowsOf(d, W) == {d.T_W[k] : k \in W}
=============================================================================
