---------------------------- MODULE Client_DSSE -----------------------------
(***************************************************************************)
(* The client process: the menu of main.cpp and the methods of class       *)
(* Client_DSSE, seen from the encrypted index.  Keywords are rows and      *)
(* files are columns here; module Directory says how names become rows and *)
(* columns.                                                                *)
(***************************************************************************)
EXTENDS Channel

CONSTANTS
    CounterMax,   \* ULONG_MAX, where searchToken gives up
    UpdateMax,    \* bound: a block's counter does not pass it (the code has no limit)
    Env           \* what the surroundings may do: a subset of EnvActions

(***************************************************************************)
(* "reload":  the user loads the saved state into a client that already    *)
(*            runs on one, or after a run that did not end in a save       *)
(* "crash":   the client process is killed                                 *)
(* "torn_save": ... also between its own save and the server's             *)
(* "restart": the server process is killed and started again               *)
(***************************************************************************)
EnvActions == {"reload", "crash", "torn_save", "restart"}

ASSUME ClientAssumption ==
    /\ CounterMax \in Nat
    /\ UpdateMax \in Nat
    /\ Env \subseteq EnvActions

VARIABLES
    pc,        \* where the single client thread is
    ready,     \* the member of that name
    kwCtr,     \* keyword_counter_arr
    blkCtr,    \* block_counter_arr
    arg,       \* the row or the block the pending call is about
    upd,       \* file_index and the keywords' rows of the pending update
    res,       \* the search result on the screen, until the next menu choice
    disk       \* the counters in the client's state files

clientVars == <<pc, ready, kwCtr, blkCtr, arg, upd, res, disk>>

Waiting == {"search", "fetch", "update", "load", "save"}
PC      == {"menu", "saved", "off", "halted"} \cup Waiting

NoUpdate == [col |-> 0, rows |-> {}]

ClientTypeOK ==
    /\ pc \in PC
    /\ ready \in BOOLEAN
    /\ kwCtr  \in [Rows -> Nat]
    /\ blkCtr \in [Blocks -> Nat]
    /\ arg \in Nat
    /\ upd \in [col : Cols, rows : SUBSET Rows]
    /\ res \in Plain
    /\ disk \in [kwCtr : [Rows -> Nat], blkCtr : [Blocks -> Nat]]

(* The state createEncrypted_data_structure leaves: built, saved, loaded. *)
ClientInit ==
    /\ pc = "menu"
    /\ ready = TRUE
    /\ kwCtr  = [r \in Rows |-> 1]
    /\ blkCtr = [b \in Blocks |-> 1]
    /\ arg = 0
    /\ upd = NoUpdate
    /\ res = {}
    /\ disk = [kwCtr |-> [r \in Rows |-> 1], blkCtr |-> [b \in Blocks |-> 1]]

-----------------------------------------------------------------------------
(* searchKeyword: the counter moves before the token is sent *)

SearchKeyword(r) ==
    /\ pc = "menu"
    /\ ready
    /\ kwCtr[r] # CounterMax
    /\ pc' = "search"
    /\ arg' = r
    /\ IF DecryptAtClient
       THEN /\ Send([cmd |-> "search_data", row |-> r])
            /\ UNCHANGED kwCtr
       ELSE /\ Send([cmd |-> "search", tau |-> SearchToken(r, kwCtr)])
            /\ kwCtr' = [kwCtr EXCEPT ![r] = @ + 1]
    /\ res' = {}
    /\ UNCHANGED <<ready, blkCtr, upd, disk>>

(* The process ends: what it had in memory is gone. *)
Gone(how) ==
    /\ pc' = how
    /\ ready' = FALSE
    /\ kwCtr'  = [r \in Rows |-> 0]
    /\ blkCtr' = [b \in Blocks |-> 0]
    /\ arg' = 0
    /\ upd' = NoUpdate
    /\ res' = {}

(* exit(1) in searchToken, nothing saved *)
SearchExhausted(r) ==
    /\ pc = "menu"
    /\ ready
    /\ kwCtr[r] = CounterMax
    /\ Gone("halted")
    /\ UNCHANGED <<disk, req, late, rep>>

SearchDone ==
    /\ pc = "search"
    /\ TakeAnswer
    /\ pc' = "menu"
    /\ arg' = 0
    /\ res' = IF DecryptAtClient
              THEN DecryptRow(arg, rep.row, kwCtr, blkCtr)
              ELSE rep.files
    /\ UNCHANGED <<ready, kwCtr, blkCtr, upd, disk>>

-----------------------------------------------------------------------------
(* addFile and delFile.  With blocks of one column the old data is not     *)
(* fetched.  The caller says which column the file has and which rows its  *)
(* keywords have (none for a deletion).                                    *)

RequestBlock(b) ==
    /\ pc = "menu"
    /\ ready
    /\ BlockSize > 1
    /\ blkCtr[b] < UpdateMax
    /\ pc' = "fetch"
    /\ arg' = b
    /\ Send([cmd |-> "block_data", blk |-> b])
    /\ res' = {}
    /\ UNCHANGED <<ready, kwCtr, blkCtr, upd, disk>>

SendBlock(b, c, W) ==
    /\ IF BlockSize > 1
       THEN /\ pc = "fetch"
            /\ arg = b
            /\ rep # None
       ELSE /\ pc = "menu"
            /\ ready
            /\ blkCtr[b] < UpdateMax
    /\ LET data == IF BlockSize > 1 THEN rep.data ELSE <<>>
           st   == IF BlockSize > 1 THEN rep.st ELSE {}
       IN  req' = [cmd  |-> "update", blk |-> b,
                   data |-> UpdateToken(b, c, W, data, st, kwCtr, blkCtr)]
    /\ rep' = None
    /\ blkCtr' = [blkCtr EXCEPT ![b] = @ + 1]
    /\ pc' = "update"
    /\ arg' = b
    /\ upd' = [col |-> c, rows |-> W]
    /\ res' = {}
    /\ UNCHANGED <<ready, kwCtr, disk, late>>

UpdateDone ==
    /\ pc = "update"
    /\ TakeAnswer
    /\ pc' = "menu"
    /\ arg' = 0
    /\ upd' = NoUpdate
    /\ UNCHANGED <<ready, kwCtr, blkCtr, res, disk>>

-----------------------------------------------------------------------------
(* Menu 0: load the client's files, then have the server load its own. *)

LoadState ==
    /\ pc = "menu"
    /\ ~ready \/ "reload" \in Env
    /\ ready' = TRUE
    /\ kwCtr'  = disk.kwCtr
    /\ blkCtr' = disk.blkCtr
    /\ pc' = "load"
    /\ Send([cmd |-> "load"])
    /\ res' = {}
    /\ UNCHANGED <<arg, upd, disk>>

LoadDone ==
    /\ pc = "load"
    /\ TakeAnswer
    /\ pc' = "menu"
    /\ UNCHANGED <<ready, kwCtr, blkCtr, arg, upd, res, disk>>

(* Menu 5: save the client's files, have the server save its own, exit(1). *)

SaveState ==
    /\ pc = "menu"
    /\ ready
    /\ disk' = [kwCtr |-> kwCtr, blkCtr |-> blkCtr]
    /\ pc' = "saved"
    /\ res' = {}
    /\ UNCHANGED <<ready, kwCtr, blkCtr, arg, upd, req, late, rep>>

SendSave ==
    /\ pc = "saved"
    /\ pc' = "save"
    /\ Send([cmd |-> "save"])
    /\ UNCHANGED <<ready, kwCtr, blkCtr, arg, upd, res, disk>>

Exit ==
    /\ pc = "save"
    /\ TakeAnswer
    /\ Gone("off")
    /\ UNCHANGED disk

Start ==
    /\ pc = "off" \/ (pc = "halted" /\ "reload" \in Env)
    /\ pc' = "menu"
    /\ UNCHANGED <<ready, kwCtr, blkCtr, arg, upd, res, disk, req, late, rep>>

Crash ==
    /\ "crash" \in Env
    /\ pc \notin {"off", "halted"}
    /\ pc = "saved" => "torn_save" \in Env
    /\ late = None
    /\ Gone("halted")
    /\ late' = req
    /\ req' = None
    /\ rep' = None
    /\ UNCHANGED disk
=============================================================================
