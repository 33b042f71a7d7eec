----------------------------- MODULE MCSession -----------------------------
EXTENDS Session

(* Variant I sends a matrix, its state bits and a short file of counters;  *)
(* variant III two pieces of a matrix.                                     *)
VariantI   == <<"0_0", "b_0_0", Shared>>
VariantIII == <<"0_0", "0_128">>

Setup(machines, files, loads, kills) ==
    [machines |-> machines, files |-> files, loads |-> loads, kills |-> kills,
     small |-> {i \in DOMAIN files : files[i] = Shared}]

(* Two machines: the client may be killed anywhere but in a save and from  *)
(* it to the end of the upload.  One: not while its matrix has no saved    *)
(* key, nor while the server has its request to save, which writes over    *)
(* what a new client builds meanwhile.                                     *)
Outside == {"menu", "call", "load first", "load"}

MCSetups ==
    {Setup("two", VariantIII, {}, Outside \cup {"saved"}),          \* disk
     Setup("two", VariantI, {3}, Outside \cup {"saved"}),           \* disk
     Setup("two", VariantI, {1, 2, 3}, Outside \cup {"saved"}),     \* memory
     Setup("one", VariantI, {3}, Outside),                          \* disk
     Setup("one", VariantI, {1, 2, 3}, Outside)}                    \* memory

MCUploadKilled == {Setup("two", VariantIII, {}, {"name", "size", "content"})}

MCDatabases == {{"a", "b"}, {"b", "c"}}
=============================================================================
