------------------------------ MODULE Session ------------------------------
(***************************************************************************)
(* Sessions of the client and the life of an index: it is built, saved,    *)
(* sent to the server file by file, loaded at both ends, used, and built   *)
(* again, with other keys, while the program runs or after it was started  *)
(* again.  An index is the number of its build here, and so is everything  *)
(* made for it; EncryptedIndex looks into the one both ends are using.     *)
(*                                                                         *)
(* The server's recv() takes what comes next from any client.  In the      *)
(* middle of a file it takes the request of a new client for the size or   *)
(* the content it waits for: Misread.  Requests are taken in the order in  *)
(* which they were sent, also the one a killed client left behind.         *)
(***************************************************************************)
EXTENDS Naturals, Sequences, FiniteSets

CONSTANTS Setups,      \* the installations looked at
          Databases,   \* what the words of data/DB may be
          MaxWords,    \* MAX_NUM_KEYWORDS
          MaxBuilds    \* bound

(* machines: where the server is, "one" is the client's; files: what       *)
(* sendEncryptedIndex sends, in this order; loads: which of them loadState *)
(* of the server reads into memory, the others it works on; small: which   *)
(* are no longer than SOCKET_BUFFER_SIZE; kills: where the client may be   *)
(* killed.                                                                 *)
StateFiles == <<"key", "tables", "counters">>

ASSUME SessionAssumption ==
    /\ MaxWords \in Nat /\ MaxBuilds \in Nat
    /\ \A s \in Setups :
          /\ s.machines \in {"one", "two"}
          /\ s.files \in Seq(STRING) /\ s.files # <<>>
          /\ s.loads \subseteq DOMAIN s.files /\ s.small \subseteq DOMAIN s.files

VARIABLES setup,    \* the installation
          pc,       \* the client: at its menu, or what it is waiting for
          mine,     \* state file -> the build it was made for, in the client's memory
          words,    \* keywords_dictionary
          disk,     \* ... on the client's disk
          todo,     \* the file to be written or sent next
          builds,   \* builds so far
          db,       \* the words of the database
          stage,    \* which recv() the server is in
          file,     \* the file it is receiving, and
          sizeOK,   \* ... has been told the size of
          theirs,   \* server file -> build, on the server's disk
          mem,      \* ... in the server's memory
          inbox,    \* requests the server has not read
          rep       \* the reply to the client

clientVars == <<pc, mine, words, disk, todo, builds, db>>
serverVars == <<stage, file, sizeOK, theirs, mem>>
vars == <<setup, clientVars, serverVars, inbox, rep>>

None == 0                     \* no index, or not its contents
Torn == MaxBuilds + 1         \* a file with something else, or not all, written to it
Shared == "block_counter_arr" \* written by both ends, to one place on one machine

Items   == DOMAIN setup.files
OneMachine == setup.machines = "one"

(* On one machine the client's file of counters is also the server's.      *)
SharedItems == {i \in Items : OneMachine /\ setup.files[i] = Shared}

(* The others have state bits and counters at the server.                  *)
DecryptAtClient == \A i \in Items : setup.files[i] # Shared

NoIndex == [f \in DOMAIN StateFiles |-> None]
ready   == mine # NoIndex

Init ==
    /\ setup \in Setups
    /\ pc = "off" /\ mine = NoIndex /\ words = {} /\ disk = NoIndex /\ todo = 1
    /\ builds = 0 /\ db \in Databases
    /\ stage = "loop" /\ file = 1 /\ sizeOK = FALSE
    /\ theirs = [i \in Items |-> None] /\ mem = [i \in setup.loads |-> None]
    /\ inbox = <<>> /\ rep = "none"

---------------------------------------------------------------------------
(* The client.                                                             *)

Send(op, i) ==
    inbox' = Append(inbox, [op |-> op, file |-> i, build |-> mine[1], live |-> TRUE])

Start ==
    /\ pc = "off" /\ Len(inbox) < 2     \* bound: one request left behind
    /\ pc' = "menu" /\ mine' = NoIndex /\ words' = {}
    /\ UNCHANGED <<setup, disk, todo, builds, db, serverVars, inbox, rep>>

(* Menu 0; with no file of a key the process exits, with none of a table   *)
(* fclose() gets no file.  It may also end where it deletes row_keys, to   *)
(* which nothing has been assigned in this process before it had an index. *)
FilesMissing == disk[1] = None \/ disk[2] = None
LoadEnds     == FilesMissing \/ (DecryptAtClient /\ ~ready)

LoadState ==
    /\ pc = "menu"
    /\ \/ LoadEnds /\ pc' = "off" /\ UNCHANGED <<mine, inbox>>
       \/ ~FilesMissing /\ pc' = "load" /\ mine' = disk /\ Send("load", todo)
    /\ UNCHANGED <<setup, words, disk, todo, builds, db, serverVars, rep>>

(* Menus 2, 3 and 4.                                                       *)
Call ==
    /\ pc = "menu" /\ ready
    /\ pc' = "call" /\ Send("call", todo)
    /\ UNCHANGED <<setup, mine, words, disk, todo, builds, db, serverVars, rep>>

(* Menu 1 as far as the matrix is in its piece files: the server's own, on *)
(* one machine.  The dictionary is never cleared.                          *)
Dictionary == words \cup db
BuildFits  == Cardinality(Dictionary) < MaxWords

Build ==
    /\ pc = "menu" /\ builds < MaxBuilds
    /\ words' = Dictionary
    /\ IF BuildFits
       THEN /\ pc' = "save" /\ todo' = 1 /\ builds' = builds + 1
            /\ mine' = [f \in DOMAIN StateFiles |-> builds + 1]
            /\ theirs' = [i \in Items |-> IF OneMachine /\ i \notin SharedItems
                                          THEN builds + 1 ELSE theirs[i]]
       ELSE pc' = "off" /\ UNCHANGED <<todo, builds, mine, theirs>>
    /\ UNCHANGED <<setup, disk, db, stage, file, sizeOK, mem, inbox, rep>>

(* Menu 5, which does not ask whether there is an index.                   *)
Close ==
    /\ pc = "menu"
    /\ pc' = "close" /\ todo' = 1
    /\ UNCHANGED <<setup, mine, words, disk, builds, db, serverVars, inbox, rep>>

(* saveState, a file at a time, and the request after it: for the first    *)
(* file of the index, to load it where it is, or to save.                  *)
AfterSave_noUpload == IF pc = "close" THEN "saved" ELSE "load first"

AfterSave == IF pc = "close" THEN "saved" ELSE IF OneMachine THEN "load first" ELSE "name"

Requested(what) == IF what = "saved" THEN "save" ELSE IF what = "name" THEN "name" ELSE "load"

WriteState(f, what) ==
    /\ disk' = [disk EXCEPT ![f] = what]
    /\ theirs' = [i \in Items |-> IF StateFiles[f] = "counters" /\ i \in SharedItems
                                  THEN what ELSE theirs[i]]

SaveFile ==
    /\ pc \in {"save", "close"} /\ ready
    /\ WriteState(todo, mine[todo])
    /\ IF todo < Len(StateFiles)
       THEN todo' = todo + 1 /\ UNCHANGED <<pc, inbox>>
       ELSE todo' = 1 /\ pc' = AfterSave /\ Send(Requested(AfterSave), 1)
    /\ UNCHANGED <<setup, mine, words, builds, db, stage, file, sizeOK, mem, rep>>

(* With no index masterKey points anywhere.  The file of the key has been  *)
(* emptied when the process dies of it; or bytes from there are written,   *)
(* and it dies of the tables, which were never set up, with their file     *)
(* emptied too.                                                            *)
SaveNothing ==
    /\ pc = "close" /\ ~ready
    /\ pc' = "off"
    /\ \E emptied \in {{"key"}, {"key", "tables"}} :
          disk' = [f \in DOMAIN StateFiles |->
                     IF StateFiles[f] \in emptied THEN Torn ELSE disk[f]]
    /\ UNCHANGED <<setup, mine, words, todo, builds, db, serverVars, inbox, rep>>

(* sendFile's three requests for each file, and the load after the last.   *)
MoreFiles_notLast == todo + 1 < Len(setup.files)
MoreFiles_oneMore == todo <= Len(setup.files)

MoreFiles == todo < Len(setup.files)

AfterReply ==
    CASE pc = "name"                  -> "size"
      [] pc = "size"                  -> "content"
      [] pc = "content" /\ MoreFiles  -> "name"
      [] pc = "content" /\ ~MoreFiles -> "load"
      [] pc = "load first"            -> "load"
      [] pc \in {"load", "call"}      -> "menu"
      [] pc = "saved"                 -> "off"

TakeReply ==
    /\ rep # "none"
    /\ rep' = "none"
    /\ pc' = AfterReply
    /\ todo' = IF pc = "content" /\ MoreFiles THEN todo + 1 ELSE todo
    /\ IF AfterReply \in {"menu", "off"} THEN UNCHANGED inbox ELSE Send(AfterReply, todo')
    /\ UNCHANGED <<setup, mine, words, disk, builds, db, serverVars>>

---------------------------------------------------------------------------
(* The server.                                                             *)

(* Where the server is when a request is read as what it is.               *)
StageOf(m) == IF m.op \in {"size", "content"} THEN m.op ELSE "loop"

Answer_lost(m, how) == UNCHANGED rep

Answer(m, how) == rep' = IF m.live THEN how ELSE rep

LoadedFiles == [i \in setup.loads |-> theirs[i]]

SavedFiles == [i \in Items |-> IF i \in setup.loads THEN mem[i] ELSE theirs[i]]

(* getEncrypted_data_structure opens the file with its name, which empties *)
(* it; when the content has come, it is back in the loop.                  *)
AfterContent_again == "content"

AfterContent == "loop"

Execute(m) ==
    /\ stage' = CASE m.op = "name" -> "size" [] m.op = "size" -> "content"
                  [] OTHER -> AfterContent
    /\ file' = IF m.op = "name" THEN m.file ELSE file
    /\ sizeOK' = (m.op = "size")
    /\ theirs' = CASE m.op = "name"    -> [theirs EXCEPT ![m.file] = Torn]
                   [] m.op = "content" -> [theirs EXCEPT ![file] = IF sizeOK THEN m.build ELSE Torn]
                   [] m.op = "save"    -> SavedFiles
                   [] OTHER            -> theirs
    /\ disk' = [f \in DOMAIN StateFiles |->
                  IF m.op = "save" /\ StateFiles[f] = "counters" /\ SharedItems # {}
                  THEN SavedFiles[CHOOSE i \in SharedItems : TRUE] ELSE disk[f]]
    /\ mem' = IF m.op = "load" THEN LoadedFiles ELSE mem
    /\ Answer(m, "done")

(* A request in the wrong place.  In the loop it is no command: nothing is *)
(* answered, and the next recv() throws.  As the size, or as the content,  *)
(* a command alone is one part and is answered.  A request of several      *)
(* parts is the size with parts unread, and the send() throws; as content  *)
(* it is read and answered, unless it is cut where too few bytes are       *)
(* expected.  Nobody catches what is thrown: the process ends.             *)
OnePart(m) == m.op \in {"load", "save", "size"}

Throws(m) ==
    \/ stage = "loop"
    \/ stage = "size" /\ ~OnePart(m)
    \/ stage = "content" /\ ~OnePart(m) /\ (~sizeOK \/ file \in setup.small)

Misread(m) ==
    /\ stage' = IF Throws(m) THEN "dead" ELSE IF stage = "size" THEN "content" ELSE "loop"
    /\ sizeOK' = FALSE
    /\ IF Throws(m) THEN UNCHANGED rep ELSE Answer(m, "misread")
    /\ UNCHANGED <<file, disk, theirs, mem>>

Serve ==
    /\ stage # "dead" /\ inbox # <<>>
    /\ inbox' = Tail(inbox)
    /\ LET m == Head(inbox) IN IF stage = StageOf(m) THEN Execute(m) ELSE Misread(m)
    /\ UNCHANGED <<setup, pc, mine, words, todo, builds, db>>

---------------------------------------------------------------------------
(* The surroundings.                                                       *)

ChangeDatabase ==
    /\ pc \in {"menu", "off"}
    /\ db' \in Databases \ {db}
    /\ UNCHANGED <<setup, pc, mine, words, disk, todo, builds, serverVars, inbox, rep>>

(* The request of a client that is killed may have left it or not; a file  *)
(* it was writing may have been emptied.                                   *)
Kill ==
    /\ pc \in setup.kills
    /\ IF pc \in {"save", "close"}
       THEN \E what \in {disk[todo], Torn} : WriteState(todo, what)
       ELSE UNCHANGED <<disk, theirs>>
    /\ pc' = "off" /\ rep' = "none"
    /\ \/ inbox' = [i \in DOMAIN inbox |-> [inbox[i] EXCEPT !.live = FALSE]]
       \/ /\ inbox # <<>> /\ inbox[Len(inbox)].live
          /\ inbox' = SubSeq(inbox, 1, Len(inbox) - 1)
    /\ UNCHANGED <<setup, mine, words, todo, builds, db, stage, file, sizeOK, mem>>

(* A new server process, while no client runs.                             *)
Restart ==
    /\ pc = "off"
    /\ stage' = "loop" /\ file' = 1 /\ sizeOK' = FALSE
    /\ mem' = [i \in setup.loads |-> None]
    /\ inbox' = <<>>
    /\ UNCHANGED <<setup, clientVars, theirs, rep>>

ClientGoesOn == SaveFile \/ SaveNothing \/ TakeReply

Next ==
    \/ Start \/ LoadState \/ Call \/ Build \/ Close \/ ClientGoesOn
    \/ Serve
    \/ ChangeDatabase \/ Kill \/ Restart

(* Both processes run; nobody has to choose from the menu.                 *)
Spec == Init /\ [][Next]_vars /\ WF_vars(ClientGoesOn) /\ WF_vars(Serve)

---------------------------------------------------------------------------
Some == 0 .. MaxBuilds     \* what an index file that is complete can be of

Requests ==
    [op : {"load", "call", "save", "name", "size", "content"},
     file : DOMAIN StateFiles \cup Items, build : Some \cup {Torn}, live : BOOLEAN]

SessionTypeOK ==
    /\ setup \in Setups
    /\ pc \in {"off", "menu", "load first", "load", "call", "save", "close", "saved",
               "name", "size", "content"}
    /\ mine \in [DOMAIN StateFiles -> Some \cup {Torn}]
    /\ disk \in [DOMAIN StateFiles -> Some \cup {Torn}]
    /\ words \subseteq UNION Databases /\ db \in Databases
    /\ todo \in DOMAIN StateFiles \cup Items
    /\ builds \in Some
    /\ stage \in {"loop", "size", "content", "dead"}
    /\ file \in Items /\ sizeOK \in BOOLEAN
    /\ theirs \in [Items -> Some \cup {Torn}]
    /\ mem \in [setup.loads -> Some \cup {Torn}]
    /\ inbox \in Seq(Requests)
    /\ rep \in {"none", "done", "misread"}

Used(i) == IF i \in setup.loads THEN mem[i] ELSE theirs[i]

(* At the menu, what the client works with and what the server works with  *)
(* belong to one build, however it came to be there: built in this session *)
(* or loaded, and whichever requests a killed client left behind.  A key   *)
(* file that menu 5 has overwritten (SaveNothing) is not one of a build.   *)
SameBuild ==
    pc = "menu" /\ ready /\ mine[1] # Torn =>
        /\ \A f \in DOMAIN StateFiles : mine[f] = mine[1]
        /\ \A i \in Items : Used(i) = mine[1]

(* When no client runs, the files at both ends are those of one build, and *)
(* complete, whatever was built, refused (a build that ends with exit(1)   *)
(* has not touched them), closed or killed, if setup.kills does not have a *)
(* client killed between the first file of a save and the server's part of *)
(* it, and unless menu 5 without an index has overwritten the key.  Of     *)
(* which moment of that build they are EncryptedIndex says.                *)
DisksSameBuild ==
    pc = "off" /\ disk[1] # Torn =>
        /\ \A f \in DOMAIN StateFiles : disk[f] = disk[1]
        /\ \A i \in Items : theirs[i] = disk[1]

(* The "CMD_OK" a client gets answers what the client asked: the server    *)
(* has loaded, saved or stored a file, and has not taken the request for   *)
(* part of something else.                                                 *)
RequestsServed == rep # "misread"

(* A build that has begun to save comes to its end: every file sent and    *)
(* every request for it answered, or the client gone.                      *)
UploadEnds == pc = "save" ~> pc \in {"menu", "off"}

=============================================================================
