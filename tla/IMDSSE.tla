------------------------------- MODULE IMDSSE -------------------------------
(***************************************************************************)
(* The program as its user sees it: keywords are searched for, files are   *)
(* added and deleted by name.  EncryptedIndex with the rows and columns    *)
(* Directory gives the names.                                              *)
(*                                                                         *)
(* docs is no variable of the program: it records what the user has stored *)
(* so far, and docsDisk what was stored at the last save.                  *)
(***************************************************************************)
EXTENDS EncryptedIndex, FiniteSets, Functions

CONSTANTS
    Keywords,      \* words in files of the database and in files the user adds
    UserWords,     \* those the user's searches and files are about
    Files,         \* paths of files, of the database and of the user's own
    DB,            \* the files of the database, to their keywords
    RowZeroTaken,  \* row 0 is the row of a keyword that is not in UserWords
    ColZeroTaken   \* column 0 is the column of a file of the database

Dir == INSTANCE Directory

ASSUME NamesAssumption ==
    /\ UserWords \subseteq Keywords
    /\ DOMAIN DB \subseteq Files
    /\ \A f \in DOMAIN DB : DB[f] \subseteq Keywords
    /\ RowZeroTaken \in BOOLEAN
    /\ ColZeroTaken \in BOOLEAN

(* The menu adds and deletes files under gcsUpdateFilepath, the database   *)
(* is built from gcsFilepath: no name the user can enter is one of its     *)
(* files.                                                                  *)
UserFiles == Files \ DOMAIN DB

VARIABLES
    dir,        \* T_W, T_F and the free lists
    dirDisk,    \* the files saveState wrote them to
    call,       \* the user's last call
    docs, docsDisk

dirVars == <<dir, dirDisk, call, docs, docsDisk>>
allVars == <<vars, dirVars>>

NoCall == [op |-> "none"]
Call   == [op : {"search"}, kw : UserWords]
              \cup [op : {"add", "del"}, file : UserFiles, words : SUBSET UserWords]

Stored == [f \in Files |-> IF f \in DOMAIN DB THEN DB[f] ELSE {}]

(* The plaintext matrix createEncrypted_matrix_from_kw_file_pair encrypts. *)
PlainMatrix(d) ==
    [r \in Rows |-> {d.T_F[f] : f \in {g \in DOMAIN DB : r \in Dir!RowsOf(d, DB[g])}}]

(* Which of the outcomes of the build a session is about *)
Considered(d) ==
    /\ RowZeroTaken =>
          0 \notin d.freeRow \cup Dir!RowsOf(d, UserWords \cap Dir!Words(DB))
    /\ ColZeroTaken => 0 \notin d.freeCol

DirInit ==
    /\ ChannelInit
    /\ ClientInit
    /\ dir \in {d \in Dir!BuiltTables(DB) : Considered(d)}
    /\ dirDisk = dir
    /\ ServerInit(PlainMatrix(dir))
    /\ call = NoCall
    /\ docs = Stored
    /\ docsDisk = Stored

-----------------------------------------------------------------------------
(* searchKeyword: a keyword without a row has no files. *)

SearchHit(k) ==
    /\ dir.T_W[k] # Dir!NULL
    /\ SearchKeyword(dir.T_W[k])
    /\ call' = [op |-> "search", kw |-> k]
    /\ UNCHANGED <<serverVars, dir, dirDisk, docs, docsDisk>>

SearchMiss(k) ==
    /\ pc = "menu"
    /\ ready
    /\ dir.T_W[k] = Dir!NULL
    /\ res' = {}
    /\ call' = [op |-> "search", kw |-> k]
    /\ UNCHANGED <<pc, ready, kwCtr, blkCtr, arg, upd, disk, chanVars, serverVars,
                   dir, dirDisk, docs, docsDisk>>

SearchGivesUp(k) ==
    /\ dir.T_W[k] # Dir!NULL
    /\ SearchExhausted(dir.T_W[k])
    /\ UNCHANGED <<serverVars, dirVars>>

-----------------------------------------------------------------------------
(* addFile and delFile *)

(* requestBlock_index, then the request for the block it found. *)
RequestFor(op, f, W) ==
    /\ BlockSize > 1
    /\ \E d \in Dir!WithFile(dir, f) :
          /\ RequestBlock(BlockOf(d.T_F[f]))
          /\ dir' = d
    /\ call' = [op |-> op, file |-> f, words |-> W]
    /\ UNCHANGED <<serverVars, dirDisk, docs, docsDisk>>

(* addToken or delToken on the tables d, and sending the block: b is the   *)
(* block requestBlock_index found.                                         *)
Outcomes(d, op, f, W) == IF op = "add" THEN Dir!Added(d, f, W) ELSE {Dir!Deleted(d, f)}

TokenFor(d, b, op, f, W) ==
    \E e \in Outcomes(d, op, f, W) :
        /\ IF op = "add"
           THEN SendBlock(b, e.T_F[f], Dir!RowsOf(e, W))
           ELSE SendBlock(b, d.T_F[f], {})
        /\ dir' = e
        /\ docs' = [docs EXCEPT ![f] = W]
        /\ UNCHANGED <<serverVars, dirDisk, docsDisk>>

UpdateFetched ==
    /\ pc = "fetch"
    /\ TokenFor(dir, arg, call.op, call.file, call.words)
    /\ UNCHANGED call

(* With blocks of one column nothing comes in between. *)
UpdateColumn(op, f, W) ==
    /\ BlockSize = 1
    /\ \E d \in Dir!WithFile(dir, f) : TokenFor(d, BlockOf(d.T_F[f]), op, f, W)
    /\ call' = [op |-> op, file |-> f, words |-> W]

(* No row or column is left for a new name. *)
PoolEmpty(op, f, W) ==
    \/ /\ pc = "menu"
       /\ ready
       /\ \/ Dir!WithFile(dir, f) = {}
          \/ BlockSize = 1 /\ \E d \in Dir!WithFile(dir, f) : Outcomes(d, op, f, W) = {}
    \/ /\ pc = "fetch"
       /\ rep # None
       /\ call = [op |-> op, file |-> f, words |-> W]
       /\ Outcomes(dir, op, f, W) = {}

UpdateAborts(op, f, W) ==
    /\ PoolEmpty(op, f, W)
    /\ Gone("halted")
    /\ rep' = None
    /\ UNCHANGED <<disk, req, late, serverVars, dirVars>>

Update(op, f, W) ==
    \/ RequestFor(op, f, W)
    \/ UpdateColumn(op, f, W)
    \/ UpdateAborts(op, f, W)

-----------------------------------------------------------------------------
(* The state files *)

LoadTables ==
    /\ LoadState
    /\ dir' = dirDisk
    /\ docs' = docsDisk
    /\ call' = NoCall
    /\ UNCHANGED <<serverVars, dirDisk, docsDisk>>

SaveTables ==
    /\ SaveState
    /\ dirDisk' = dir
    /\ docsDisk' = docs
    /\ call' = NoCall
    /\ UNCHANGED <<serverVars, dir, docs>>

(* The steps that do not touch the tables. *)
ClientGoesOn ==
    /\ SearchDone \/ UpdateDone \/ LoadDone \/ SendSave \/ Start
    /\ UNCHANGED <<serverVars, dirVars>>

(* The tables in memory are of no use until LoadTables has set them again. *)
ClientEnds ==
    /\ Exit \/ Crash
    /\ call' = NoCall
    /\ UNCHANGED <<serverVars, dir, dirDisk, docs, docsDisk>>

ServerGoesOn == (ServerStep \/ ServerRestart) /\ UNCHANGED <<clientVars, dirVars>>

DirNext ==
    \/ \E k \in UserWords : SearchHit(k) \/ SearchMiss(k) \/ SearchGivesUp(k)
    \/ \E f \in UserFiles : Update("del", f, {})
    \/ \E f \in UserFiles, W \in SUBSET UserWords : Update("add", f, W)
    \/ UpdateFetched
    \/ LoadTables
    \/ SaveTables
    \/ ClientGoesOn
    \/ ClientEnds
    \/ ServerGoesOn

DirSpec == DirInit /\ [][DirNext]_allVars

-----------------------------------------------------------------------------
(* Rows and columns the tables hand out exist: pickRandom_element never    *)
(* reads past the end of a free list.                                      *)
DirTypeOK ==
    /\ TypeOK
    /\ dir \in Dir!Table
    /\ dirDisk \in Dir!Table
    /\ call \in Call \cup {NoCall}
    /\ docs \in [Files -> SUBSET Keywords]
    /\ docsDisk \in [Files -> SUBSET Keywords]

(* What searchKeyword() reports to the user is the number of files that    *)
(* have the keyword, after any additions, deletions and loads.             *)
SearchCounts ==
    pc = "menu" /\ ready /\ call.op = "search" =>
        Cardinality(res) = Cardinality({f \in Files : call.kw \in docs[f]})

(* Of the rows and columns that pickRandom_element() takes and delToken()  *)
(* gives back, none has two owners and none is lost: what no name owns is  *)
(* free for the next one.                                                  *)
PoolsSound ==
    ready =>
        /\ \A k, l \in Keywords : k # l /\ dir.T_W[k] = dir.T_W[l] => dir.T_W[k] = Dir!NULL
        /\ \A f, g \in Files : f # g /\ dir.T_F[f] = dir.T_F[g] => dir.T_F[f] = Dir!NULL
        /\ dir.freeRow = Rows \ Range(dir.T_W)
        /\ dir.freeCol = Cols \ Range(dir.T_F)

(* A column on lstFree_column_idx is empty on the server: the file that    *)
(* gets it next starts without keywords of the one delToken() freed.       *)
FreeColumnsEmpty ==
    InUse /\ pc # "update" =>
        \A c \in dir.freeCol, r \in Rows : c \notin PlainRow(LiveRow(r))
=============================================================================
