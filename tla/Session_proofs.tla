-------------------------- MODULE Session_proofs --------------------------
(***************************************************************************)
(* In installations where no client is killed in a save or from it to the  *)
(* end of its upload, the two ends belong to one build in every session,   *)
(* for any list of files, any of them loaded, and any number of builds,    *)
(* kills, restarts and requests left behind, as long as menu 5 has not     *)
(* overwritten the key of the client.                                      *)
(***************************************************************************)
EXTENDS Session, SequenceTheorems, TLAPS

(* On one machine also not while the server has the request to save, which *)
(* writes over what a new client builds meanwhile.                         *)
KilledOutside ==
    \A s \in Setups :
        s.kills \subseteq {"menu", "call", "load first", "load"} \cup
                          (IF s.machines = "two" THEN {"saved"} ELSE {})

Waiting   == {"load first", "load", "call", "saved", "name", "size", "content"}
Uploading == {"name", "size", "content"}
AtRest    == {"off", "menu"}

---------------------------------------------------------------------------
(* What is between the two ends: requests of killed clients, which are no  *)
(* part of a file, then the request of the living one, or its reply.       *)
Asked ==
    CASE pc = "load first" -> "load"
      [] pc = "saved"      -> "save"
      [] OTHER             -> pc

LeftBehind(m) == ~m.live /\ m.op \in {"call", "load"} \cup (IF OneMachine THEN {} ELSE {"save"})

Current(m) == m.live /\ m.op = Asked /\ m.file = todo /\ (m.op = "content" => m.build = mine[1])

InboxInv ==
    /\ rep = "none" \/ (pc \in Waiting /\ rep = "done" /\ inbox = <<>>)
    /\ pc \in Waiting /\ rep = "none" => inbox # <<>>
    /\ \A i \in DOMAIN inbox :
          IF pc \in Waiting /\ i = Len(inbox) THEN Current(inbox[i]) ELSE LeftBehind(inbox[i])

(* The server is in the recv() the living client's next request is for,    *)
(* and in the middle of a file there is no other request.                  *)
Expected ==
    CASE pc = "name" /\ rep = "done"    -> "size"
      [] pc = "size" /\ rep = "none"    -> "size"
      [] pc = "size" /\ rep = "done"    -> "content"
      [] pc = "content" /\ rep = "none" -> "content"
      [] OTHER                          -> "loop"

StageInv ==
    /\ stage = Expected
    /\ stage # "loop" => file = todo /\ Len(inbox) <= 1
    /\ stage = "content" => sizeOK

PlaceInv ==
    /\ pc \in Uploading => ~OneMachine /\ todo \in Items
    /\ pc = "load first" => OneMachine
    /\ pc \in {"save", "close"} => todo \in DOMAIN StateFiles

---------------------------------------------------------------------------
(* The builds.  What the client has is one build, and outside of its save  *)
(* it is what is on its disk; the server has the same, but for files that  *)
(* are still to be sent.  With a key that was overwritten nothing is said  *)
(* but that both ends' names of one file are one file.                     *)
OneBuild(files) == files[1] # Torn => \A f \in DOMAIN StateFiles : files[f] = files[1]

Settled == disk[1] # Torn => \A i \in Items : theirs[i] = disk[1]

SameFile == \A i \in SharedItems : theirs[i] = disk[3]

ClientBuild ==
    /\ pc \notin AtRest \cup {"close"} => ready
    /\ pc # "off" /\ ready => OneBuild(mine) /\ (pc # "save" => mine = disk)
    /\ pc # "save" => OneBuild(disk)
    /\ pc = "save" =>
          mine[1] # Torn /\ \A f \in DOMAIN StateFiles : f < todo => disk[f] = mine[f]

ServerBuild ==
    /\ pc \notin Uploading \cup {"save"} => Settled
    /\ pc = "save" /\ OneMachine => \A i \in Items \ SharedItems : theirs[i] = mine[1]
    /\ pc \in Uploading =>
          \A i \in Items : i < todo \/ (i = todo /\ pc = "content" /\ rep = "done")
                           => theirs[i] = mine[1]

(* What the server has in memory is what it has on disk while a client     *)
(* works with it, and as long as a request to save is on its way.          *)
Loaded == \A i \in setup.loads : mem[i] = theirs[i]

AtWork ==
    \/ pc \in {"menu", "close"} /\ ready
    \/ pc \in {"call", "saved"}
    \/ pc = "load" /\ rep = "done"

SaveComes == \E i \in DOMAIN inbox : inbox[i].op = "save"

MemoryInv == AtWork \/ SaveComes => Loaded

SessionInv ==
    /\ SessionTypeOK
    /\ InboxInv
    /\ StageInv
    /\ PlaceInv
    /\ ClientBuild
    /\ ServerBuild
    /\ SameFile
    /\ MemoryInv

---------------------------------------------------------------------------
(* The client's three files, and the server's.                             *)
LEMMA ThreeFiles ==
    /\ DOMAIN StateFiles = 1 .. 3 /\ Len(StateFiles) = 3
    /\ StateFiles[1] # "counters" /\ StateFiles[2] # "counters" /\ StateFiles[3] = "counters"
    BY DEF StateFiles

LEMMA TheItems ==
    ASSUME setup \in Setups
    PROVE  /\ Len(setup.files) \in Nat \ {0}
           /\ Items = 1 .. Len(setup.files)
           /\ setup.loads \subseteq Items
           /\ setup.machines \in {"one", "two"}
<1>1. setup.files \in Seq(STRING) /\ setup.files # <<>>
    BY SessionAssumption
<1>2. Len(setup.files) \in Nat /\ DOMAIN setup.files = 1 .. Len(setup.files)
    BY <1>1, LenProperties
<1>3. Len(setup.files) # 0
    BY <1>1, EmptySeq
<1> QED
    BY <1>2, <1>3, SessionAssumption DEF Items

LEMMA Numbers ==
    /\ MaxBuilds \in Nat /\ MaxWords \in Nat
    /\ None \in Some /\ None = 0 /\ Some \subseteq Nat /\ Torn \notin Some
    BY SessionAssumption DEF None, Some, Torn

(* A request that is sent comes after those that are there.                *)
LEMMA Sent ==
    ASSUME inbox \in Seq(Requests), mine \in [DOMAIN StateFiles -> Some \cup {Torn}],
           NEW op \in {"load", "call", "save", "name", "size", "content"},
           NEW i \in DOMAIN StateFiles \cup Items, Send(op, i)
    PROVE  /\ inbox' \in Seq(Requests) /\ inbox' # <<>>
           /\ Len(inbox) \in Nat /\ Len(inbox') = Len(inbox) + 1
           /\ DOMAIN inbox = 1 .. Len(inbox) /\ DOMAIN inbox' = 1 .. Len(inbox) + 1
           /\ \A k \in DOMAIN inbox : inbox'[k] = inbox[k]
           /\ inbox'[Len(inbox) + 1] = [op |-> op, file |-> i, build |-> mine[1], live |-> TRUE]
<1> DEFINE m == [op |-> op, file |-> i, build |-> mine[1], live |-> TRUE]
<1>1. m \in Requests
    BY ThreeFiles DEF Requests
<1>2. inbox' = Append(inbox, m)
    BY DEF Send
<1> HIDE DEF m
<1>3. /\ inbox' \in Seq(Requests) /\ inbox' # <<>>
      /\ Len(inbox') = Len(inbox) + 1
      /\ \A k \in 1 .. Len(inbox) : inbox'[k] = inbox[k]
      /\ inbox'[Len(inbox) + 1] = m
    BY <1>1, <1>2, AppendProperties
<1>4. /\ Len(inbox) \in Nat /\ DOMAIN inbox = 1 .. Len(inbox)
      /\ DOMAIN inbox' = 1 .. Len(inbox')
    BY <1>3, LenProperties
<1> QED
    BY <1>3, <1>4 DEF m

---------------------------------------------------------------------------
(* The invariant holds initially.                                          *)
LEMMA SessionStart == Init => SessionInv
<1> SUFFICES ASSUME Init PROVE SessionInv
    OBVIOUS
<1>1. setup \in Setups /\ inbox = <<>> /\ rep = "none" /\ pc = "off" /\ stage = "loop"
    BY DEF Init
<1>2. inbox \in Seq(Requests) /\ DOMAIN inbox = {} /\ Len(inbox) = 0
    BY <1>1
<1>3. SessionTypeOK
    <2>1. NoIndex \in [DOMAIN StateFiles -> Some]
        BY Numbers DEF NoIndex
    <2>2. 1 \in Items /\ 1 \in DOMAIN StateFiles /\ builds \in Some
        BY <1>1, TheItems, ThreeFiles, Numbers DEF Init, None
    <2>3. /\ theirs \in [Items -> Some \cup {Torn}]
          /\ mem \in [setup.loads -> Some \cup {Torn}]
        BY Numbers DEF Init
    <2> QED
        BY <1>1, <1>2, <2>1, <2>2, <2>3 DEF Init, SessionTypeOK
<1>4. InboxInv /\ StageInv /\ PlaceInv
    BY <1>1, <1>2 DEF InboxInv, StageInv, PlaceInv, Expected, Waiting, Uploading
<1>5. ClientBuild /\ ServerBuild /\ SameFile /\ MemoryInv
    BY <1>1, <1>2, ThreeFiles
    DEF Init, ClientBuild, ServerBuild, SameFile, SharedItems, MemoryInv, AtRest, Uploading,
        OneBuild, Settled, NoIndex, AtWork, SaveComes, ready
<1> QED
    BY <1>3, <1>4, <1>5 DEF SessionInv

---------------------------------------------------------------------------
(* Where no request of a living client is, the server waits in its loop.   *)
LEMMA NobodyWaits ==
    ASSUME SessionInv, pc \notin Waiting
    PROVE  /\ rep = "none" /\ stage = "loop"
           /\ \A i \in DOMAIN inbox : LeftBehind(inbox[i])
           /\ SaveComes => ~OneMachine
<1>1. InboxInv /\ StageInv
    BY DEF SessionInv
<1>2. \A i \in DOMAIN inbox : LeftBehind(inbox[i])
    BY <1>1 DEF InboxInv
<1>3. rep = "none" /\ stage = "loop"
    BY <1>1 DEF InboxInv, StageInv, Expected, Waiting
<1> QED
    BY <1>2, <1>3 DEF LeftBehind, SaveComes

(* A step of a client that waits for nothing, and then still does not.     *)
LEMMA QuietStep ==
    ASSUME SessionInv, pc \notin Waiting, pc' \notin Waiting, SessionTypeOK',
           UNCHANGED <<setup, stage, file, sizeOK, inbox, rep>>
    PROVE  InboxInv' /\ StageInv' /\ SaveComes' = SaveComes
<1>1. /\ rep = "none" /\ stage = "loop"
      /\ \A i \in DOMAIN inbox : LeftBehind(inbox[i])
    BY NobodyWaits
<1>2. InboxInv'
    BY <1>1 DEF InboxInv, LeftBehind, OneMachine
<1>3. StageInv'
    BY <1>1 DEF StageInv, Expected, Waiting
<1> QED
    BY <1>2, <1>3 DEF SaveComes

LEMMA FilesStay ==
    ASSUME SameFile, UNCHANGED <<setup, disk, theirs>>
    PROVE  SameFile'
    BY DEF SameFile, SharedItems, Items, OneMachine

(* A client that waited for nothing sends a request that is no part of a   *)
(* file.                                                                   *)
LEMMA SendStep ==
    ASSUME SessionInv, pc \notin Waiting, pc' \in Waiting \ {"size", "content"},
           UNCHANGED <<setup, stage, file, sizeOK, rep>>,
           Send(Asked', todo'), Asked' \in {"load", "call", "save", "name"},
           todo' \in DOMAIN StateFiles \cup Items
    PROVE  /\ InboxInv' /\ StageInv' /\ inbox' \in Seq(Requests)
           /\ SaveComes' => SaveComes \/ Asked' = "save"
<1>1. /\ rep = "none" /\ stage = "loop"
      /\ \A i \in DOMAIN inbox : LeftBehind(inbox[i])
    BY NobodyWaits
<1>2. inbox \in Seq(Requests) /\ mine \in [DOMAIN StateFiles -> Some \cup {Torn}]
    BY DEF SessionInv, SessionTypeOK
<1>3. /\ inbox' \in Seq(Requests) /\ inbox' # <<>>
      /\ Len(inbox) \in Nat /\ Len(inbox') = Len(inbox) + 1
      /\ DOMAIN inbox = 1 .. Len(inbox) /\ DOMAIN inbox' = 1 .. Len(inbox) + 1
      /\ \A k \in DOMAIN inbox : inbox'[k] = inbox[k]
      /\ inbox'[Len(inbox) + 1] =
            [op |-> Asked', file |-> todo', build |-> mine[1], live |-> TRUE]
    BY <1>2, Sent
<1>4. InboxInv'
    <2>1. Current(inbox[Len(inbox)])'
        BY <1>3 DEF Current
    <2>2. \A k \in DOMAIN inbox : LeftBehind(inbox[k])'
        BY <1>1, <1>3 DEF LeftBehind, OneMachine
    <2>3. \A k \in (DOMAIN inbox)' : k # Len(inbox)' => k \in DOMAIN inbox
        BY <1>3
    <2> QED
        BY <1>1, <1>3, <2>1, <2>2, <2>3 DEF InboxInv
<1>5. StageInv'
    BY <1>1 DEF StageInv, Expected, Waiting
<1>6. SaveComes' => SaveComes \/ Asked' = "save"
    <2> SUFFICES ASSUME NEW k \in (DOMAIN inbox)', inbox'[k].op = "save"
                 PROVE  SaveComes \/ Asked' = "save"
        BY DEF SaveComes
    <2>1. CASE k \in DOMAIN inbox
        BY <1>3, <2>1 DEF SaveComes
    <2>2. CASE k = Len(inbox) + 1
        BY <1>3, <2>2
    <2> QED
        BY <1>3, <2>1, <2>2
<1> QED
    BY <1>3, <1>4, <1>5, <1>6

---------------------------------------------------------------------------
(* A client is started.                                                    *)
LEMMA StartKeeps == SessionInv /\ Start => SessionInv'
<1> SUFFICES ASSUME SessionInv, Start PROVE SessionInv'
    OBVIOUS
<1>1. /\ pc = "off" /\ pc' = "menu" /\ mine' = NoIndex /\ words' = {}
      /\ UNCHANGED <<setup, disk, todo, builds, db, stage, file, sizeOK, theirs, mem, inbox, rep>>
    BY DEF Start, serverVars
<1>2. SessionTypeOK /\ ClientBuild /\ ServerBuild /\ SameFile /\ MemoryInv
    BY DEF SessionInv
<1>3. SessionTypeOK'
    <2>1. NoIndex \in [DOMAIN StateFiles -> Some \cup {Torn}]
        BY Numbers DEF NoIndex
    <2> QED
        BY <1>1, <1>2, <2>1 DEF SessionTypeOK, Items, Requests
<1>4. InboxInv' /\ StageInv' /\ SaveComes' = SaveComes
    BY <1>1, <1>3, QuietStep DEF Waiting
<1>5. PlaceInv'
    BY <1>1 DEF PlaceInv, Uploading
<1>6. ClientBuild'
    BY <1>1, <1>2 DEF ClientBuild, AtRest, ready, OneBuild
<1>7. ServerBuild'
    BY <1>1, <1>2 DEF ServerBuild, Uploading, Settled, Items
<1>8. MemoryInv'
    BY <1>1, <1>2, <1>4 DEF MemoryInv, AtWork, Loaded, ready
<1> QED
    BY <1>1, <1>2, <1>3, <1>4, <1>5, <1>6, <1>7, <1>8, FilesStay DEF SessionInv

(* Menu 0.                                                                 *)
LEMMA LoadStateKeeps == SessionInv /\ LoadState => SessionInv'
<1> SUFFICES ASSUME SessionInv, LoadState PROVE SessionInv'
    OBVIOUS
<1>1. /\ pc = "menu"
      /\ UNCHANGED <<setup, words, disk, todo, builds, db, stage, file, sizeOK, theirs, mem, rep>>
    BY DEF LoadState, serverVars
<1>2. SessionTypeOK /\ ClientBuild /\ ServerBuild /\ SameFile /\ MemoryInv
    BY DEF SessionInv
<1>3. CASE pc' = "off" /\ UNCHANGED <<mine, inbox>>
    <2>1. pc' = "off" /\ UNCHANGED <<mine, inbox>>
        BY <1>3
    <2>2. SessionTypeOK'
        BY <1>1, <1>2, <2>1 DEF SessionTypeOK, Items, Requests
    <2>3. InboxInv' /\ StageInv' /\ SaveComes' = SaveComes
        BY <1>1, <2>1, <2>2, QuietStep DEF Waiting
    <2>4. PlaceInv' /\ ClientBuild'
        BY <1>1, <1>2, <2>1 DEF PlaceInv, Uploading, ClientBuild, AtRest, OneBuild
    <2>5. ServerBuild'
        BY <1>1, <1>2, <2>1 DEF ServerBuild, Uploading, Settled, Items
    <2>6. MemoryInv'
        BY <1>1, <1>2, <2>1, <2>3 DEF MemoryInv, AtWork, Loaded
    <2> QED
        BY <1>1, <1>2, <2>2, <2>3, <2>4, <2>5, <2>6, FilesStay DEF SessionInv
<1>4. CASE disk[1] # None /\ pc' = "load" /\ mine' = disk /\ Send("load", todo)
    <2>1. pc' = "load" /\ mine' = disk /\ Send("load", todo)
        BY <1>4
    <2>2. Asked' = "load" /\ todo' = todo /\ todo \in DOMAIN StateFiles \cup Items
        BY <1>1, <1>2, <2>1 DEF Asked, SessionTypeOK
    <2>3. /\ InboxInv' /\ StageInv' /\ inbox' \in Seq(Requests)
          /\ SaveComes' => SaveComes
        BY <1>1, <2>1, <2>2, SendStep DEF Waiting
    <2>4. SessionTypeOK'
        BY <1>1, <1>2, <2>1, <2>3 DEF SessionTypeOK, Items, Requests
    <2>5. PlaceInv' /\ ClientBuild'
        <3>1. OneBuild(disk) /\ disk # NoIndex
            BY <1>1, <1>2, <1>4, ThreeFiles DEF ClientBuild, NoIndex
        <3> QED
            BY <1>1, <2>1, <3>1 DEF PlaceInv, Uploading, ClientBuild, AtRest, OneBuild, ready
    <2>6. ServerBuild'
        BY <1>1, <1>2, <2>1 DEF ServerBuild, Uploading, Settled, Items
    <2>7. MemoryInv'
        <3>1. rep = "none"
            BY <1>1, NobodyWaits DEF Waiting
        <3> QED
            BY <1>1, <1>2, <2>1, <2>3, <3>1 DEF MemoryInv, AtWork, Loaded
    <2> QED
        BY <1>1, <1>2, <2>3, <2>4, <2>5, <2>6, <2>7, FilesStay DEF SessionInv
<1> QED
    BY <1>3, <1>4 DEF LoadState, FilesMissing

(* Menus 2, 3 and 4.                                                       *)
LEMMA CallKeeps == SessionInv /\ Call => SessionInv'
<1> SUFFICES ASSUME SessionInv, Call PROVE SessionInv'
    OBVIOUS
<1>1. /\ pc = "menu" /\ ready /\ pc' = "call" /\ Send("call", todo)
      /\ UNCHANGED <<setup, mine, words, disk, todo, builds, db, stage, file, sizeOK, theirs,
                     mem, rep>>
    BY DEF Call, serverVars
<1>2. SessionTypeOK /\ ClientBuild /\ ServerBuild /\ SameFile /\ MemoryInv
    BY DEF SessionInv
<1>3. Asked' = "call" /\ todo' = todo /\ todo \in DOMAIN StateFiles \cup Items
    BY <1>1, <1>2 DEF Asked, SessionTypeOK
<1>4. InboxInv' /\ StageInv' /\ inbox' \in Seq(Requests)
    BY <1>1, <1>3, SendStep DEF Waiting
<1>5. SessionTypeOK'
    BY <1>1, <1>2, <1>4 DEF SessionTypeOK, Items, Requests
<1>6. PlaceInv' /\ ClientBuild'
    BY <1>1, <1>2 DEF PlaceInv, Uploading, ClientBuild, AtRest, OneBuild, ready
<1>7. ServerBuild' /\ MemoryInv'
    BY <1>1, <1>2 DEF ServerBuild, Uploading, Settled, Items, MemoryInv, AtWork, Loaded
<1> QED
    BY <1>1, <1>2, <1>4, <1>5, <1>6, <1>7, FilesStay DEF SessionInv

(* Menu 1.  No request to save is there that would write the old matrix    *)
(* over the one a build has left on the same machine.                      *)
LEMMA BuildKeeps == SessionInv /\ Build => SessionInv'
<1> SUFFICES ASSUME SessionInv, Build PROVE SessionInv'
    OBVIOUS
<1>1. /\ pc = "menu" /\ builds < MaxBuilds /\ words' = Dictionary
      /\ UNCHANGED <<setup, disk, db, stage, file, sizeOK, mem, inbox, rep>>
    BY DEF Build
<1>2. SessionTypeOK /\ ClientBuild /\ ServerBuild /\ SameFile /\ MemoryInv
    BY DEF SessionInv
<1>3. words' \subseteq UNION Databases
    BY <1>1, <1>2 DEF Dictionary, SessionTypeOK
<1>4. CASE ~BuildFits
    <2>1. pc' = "off" /\ UNCHANGED <<todo, builds, mine, theirs>>
        BY <1>4 DEF Build
    <2>2. SessionTypeOK'
        BY <1>1, <1>2, <1>3, <2>1 DEF SessionTypeOK, Items, Requests
    <2>3. InboxInv' /\ StageInv' /\ SaveComes' = SaveComes
        BY <1>1, <2>1, <2>2, QuietStep DEF Waiting
    <2>4. PlaceInv' /\ ClientBuild'
        BY <1>1, <1>2, <2>1 DEF PlaceInv, Uploading, ClientBuild, AtRest, OneBuild
    <2>5. ServerBuild' /\ MemoryInv'
        BY <1>1, <1>2, <2>1, <2>3
        DEF ServerBuild, Uploading, Settled, Items, MemoryInv, AtWork, Loaded
    <2> QED
        BY <1>1, <1>2, <2>1, <2>2, <2>3, <2>4, <2>5, FilesStay DEF SessionInv
<1>5. CASE BuildFits
    <2>1. /\ pc' = "save" /\ todo' = 1 /\ builds' = builds + 1
          /\ mine' = [f \in DOMAIN StateFiles |-> builds + 1]
          /\ theirs' = [i \in Items |-> IF OneMachine /\ i \notin SharedItems
                                        THEN builds + 1 ELSE theirs[i]]
        BY <1>5 DEF Build
    <2>2. builds + 1 \in Some /\ builds + 1 # None /\ builds + 1 # Torn
        BY <1>1, <1>2, Numbers DEF SessionTypeOK, Some
    <2>3. SessionTypeOK'
        <3>1. theirs' \in [Items -> Some \cup {Torn}] /\ mine' \in [DOMAIN StateFiles -> Some \cup {Torn}]
            BY <1>2, <2>1, <2>2 DEF SessionTypeOK
        <3>2. todo' \in DOMAIN StateFiles
            BY <2>1, ThreeFiles
        <3> QED
            BY <1>1, <1>2, <1>3, <2>1, <2>2, <3>1, <3>2 DEF SessionTypeOK, Items, Requests
    <2>4. InboxInv' /\ StageInv' /\ SaveComes' = SaveComes
        BY <1>1, <2>1, <2>3, QuietStep DEF Waiting
    <2>5. PlaceInv'
        BY <2>1, ThreeFiles DEF PlaceInv, Uploading
    <2>6. ClientBuild'
        <3>1. mine' # NoIndex /\ OneBuild(mine') /\ mine'[1] # Torn
            BY <2>1, <2>2, ThreeFiles DEF NoIndex, OneBuild
        <3> QED
            BY <2>1, <3>1, ThreeFiles DEF ClientBuild, AtRest, ready
    <2>7. ServerBuild'
        BY <1>1, <2>1, ThreeFiles DEF ServerBuild, Uploading, Items, SharedItems, OneMachine
    <2>8. MemoryInv'
        <3>1. SUFFICES ASSUME SaveComes' PROVE Loaded'
            BY <2>1 DEF MemoryInv, AtWork
        <3>2. Loaded /\ ~OneMachine
            BY <1>1, <1>2, <2>4, <3>1, NobodyWaits DEF MemoryInv, Waiting
        <3>3. setup.loads \subseteq Items
            BY <1>2, TheItems DEF SessionTypeOK
        <3> QED
            BY <1>1, <2>1, <3>2, <3>3 DEF Loaded
    <2>9. SameFile'
        BY <1>1, <1>2, <2>1 DEF SameFile, SharedItems, Items, OneMachine
    <2> QED
        BY <2>3, <2>4, <2>5, <2>6, <2>7, <2>8, <2>9 DEF SessionInv
<1> QED
    BY <1>4, <1>5

(* Menu 5.                                                                 *)
LEMMA CloseKeeps == SessionInv /\ Close => SessionInv'
<1> SUFFICES ASSUME SessionInv, Close PROVE SessionInv'
    OBVIOUS
<1>1. /\ pc = "menu" /\ pc' = "close" /\ todo' = 1
      /\ UNCHANGED <<setup, mine, words, disk, builds, db, stage, file, sizeOK, theirs, mem,
                     inbox, rep>>
    BY DEF Close, serverVars
<1>2. SessionTypeOK /\ ClientBuild /\ ServerBuild /\ SameFile /\ MemoryInv
    BY DEF SessionInv
<1>3. SessionTypeOK'
    BY <1>1, <1>2, ThreeFiles DEF SessionTypeOK, Items, Requests
<1>4. InboxInv' /\ StageInv' /\ SaveComes' = SaveComes
    BY <1>1, <1>3, QuietStep DEF Waiting
<1>5. PlaceInv' /\ ClientBuild'
    BY <1>1, <1>2, ThreeFiles DEF PlaceInv, Uploading, ClientBuild, AtRest, OneBuild, ready
<1>6. ServerBuild' /\ MemoryInv'
    BY <1>1, <1>2, <1>4 DEF ServerBuild, Uploading, Settled, Items, MemoryInv, AtWork, Loaded, ready
<1> QED
    BY <1>1, <1>2, <1>3, <1>4, <1>5, <1>6, FilesStay DEF SessionInv

(* saveState: when its last file is written, disk and memory are the same  *)
(* build, and so is the server's file of counters on the same machine.     *)
LEMMA SaveFileKeeps == SessionInv /\ SaveFile => SessionInv'
<1> SUFFICES ASSUME SessionInv, SaveFile PROVE SessionInv'
    OBVIOUS
<1>1. /\ pc \in {"save", "close"} /\ ready
      /\ disk' = [disk EXCEPT ![todo] = mine[todo]]
      /\ theirs' = [i \in Items |-> IF StateFiles[todo] = "counters" /\ i \in SharedItems
                                    THEN mine[todo] ELSE theirs[i]]
      /\ UNCHANGED <<setup, mine, words, builds, db, stage, file, sizeOK, mem, rep>>
    BY DEF SaveFile, WriteState
<1>2. SessionTypeOK /\ PlaceInv /\ ClientBuild /\ ServerBuild /\ SameFile /\ MemoryInv
    BY DEF SessionInv
<1>3. todo \in 1 .. 3 /\ setup.loads \subseteq Items /\ 1 \in Items
    <2>1. todo \in DOMAIN StateFiles /\ setup \in Setups
        BY <1>1, <1>2 DEF PlaceInv, SessionTypeOK
    <2>2. Items = 1 .. Len(setup.files) /\ Len(setup.files) \in Nat \ {0}
        BY <2>1, TheItems
    <2>3. 1 \in Items
        BY <2>2
    <2> QED
        BY <2>1, <2>3, TheItems, ThreeFiles
<1>4. /\ OneBuild(mine)
      /\ pc = "close" => mine = disk
      /\ pc = "save" => mine[1] # Torn
    BY <1>1, <1>2 DEF ClientBuild
<1>5. /\ disk' \in [DOMAIN StateFiles -> Some \cup {Torn}]
      /\ theirs' \in [Items -> Some \cup {Torn}]
    BY <1>1, <1>2, <1>3, ThreeFiles DEF SessionTypeOK
<1>6. pc = "close" => disk' = disk /\ theirs' = theirs
    <2> SUFFICES ASSUME pc = "close" PROVE disk' = disk /\ theirs' = theirs
        OBVIOUS
    <2>1. mine = disk
        BY <1>4
    <2>2. mine[todo] = disk[todo]
        BY <2>1
    <2>3. disk' = disk
        BY <1>1, <1>2, <2>2 DEF SessionTypeOK
    <2>4. StateFiles[todo] = "counters" => \A i \in SharedItems : theirs[i] = mine[todo]
        BY <1>2, <1>3, <2>1, ThreeFiles DEF SameFile
    <2> QED
        BY <1>1, <1>2, <2>3, <2>4 DEF SessionTypeOK
<1>7. ~OneMachine => theirs' = theirs
    BY <1>1, <1>2 DEF SharedItems, SessionTypeOK
<1>8. Loaded /\ (pc = "close" \/ ~OneMachine) => Loaded'
    BY <1>1, <1>6, <1>7 DEF Loaded
<1>9. SameFile'
    <2>1. SharedItems' = SharedItems /\ SharedItems \subseteq Items
        BY <1>1 DEF SharedItems, Items, OneMachine
    <2>2. disk \in [1 .. 3 -> Some \cup {Torn}]
        BY <1>2, ThreeFiles DEF SessionTypeOK
    <2>3. CASE todo = 3
        <3>1. disk'[3] = mine[3]
            BY <1>1, <2>3, <2>2
        <3>2. \A i \in SharedItems : theirs'[i] = mine[3]
            BY <1>1, <2>1, <2>3, ThreeFiles
        <3> QED
            BY <2>1, <3>1, <3>2 DEF SameFile
    <2>4. CASE todo # 3
        <3>1. disk'[3] = disk[3]
            BY <1>1, <1>3, <2>4, <2>2
        <3>2. \A i \in SharedItems : theirs'[i] = theirs[i]
            BY <1>1, <1>3, <2>1, <2>4, ThreeFiles
        <3> QED
            BY <1>2, <2>1, <3>1, <3>2 DEF SameFile
    <2> QED
        BY <2>3, <2>4
<1>10. CASE todo < 3
    <2>1. todo' = todo + 1 /\ UNCHANGED <<pc, inbox>>
        BY <1>10, ThreeFiles DEF SaveFile
    <2>2. todo' \in DOMAIN StateFiles
        <3>1. todo + 1 \in 1 .. 3
            BY <1>3, <1>10
        <3> QED
            BY <2>1, <3>1, ThreeFiles
    <2>3. SessionTypeOK'
        BY <1>1, <1>2, <1>5, <2>1, <2>2 DEF SessionTypeOK, Items, Requests
    <2>4. InboxInv' /\ StageInv' /\ SaveComes' = SaveComes
        BY <1>1, <2>1, <2>3, QuietStep DEF Waiting
    <2>5. PlaceInv'
        BY <1>1, <2>1, <2>2 DEF PlaceInv, Uploading
    <2>6. ClientBuild'
        <3>1. pc = "close" => mine' = disk' /\ OneBuild(disk')
            BY <1>1, <1>4, <1>6
        <3>2. pc = "save" => \A f \in DOMAIN StateFiles : f < todo + 1 => disk'[f] = mine[f]
            BY <1>1, <1>2, <1>3, ThreeFiles DEF ClientBuild, SessionTypeOK
        <3> QED
            BY <1>1, <1>4, <2>1, <3>1, <3>2 DEF ClientBuild, ready, AtRest, OneBuild
    <2>7. ServerBuild'
        <3>1. theirs' = theirs
            <4>1. StateFiles[todo] # "counters"
                BY <1>3, <1>10, ThreeFiles
            <4> QED
                BY <1>1, <1>2, <4>1 DEF SessionTypeOK
        <3> QED
            BY <1>1, <1>2, <1>6, <2>1, <3>1
            DEF ServerBuild, Uploading, Settled, Items, SharedItems, OneMachine
    <2>8. MemoryInv'
        <3>1. SaveComes => ~OneMachine
            BY <1>1, NobodyWaits DEF Waiting
        <3>2. AtWork' => pc = "close"
            BY <1>1, <2>1 DEF AtWork
        <3>3. AtWork' \/ SaveComes' => Loaded
            BY <1>1, <1>2, <2>4, <3>2 DEF MemoryInv, AtWork
        <3> QED
            BY <1>8, <2>4, <3>1, <3>2, <3>3 DEF MemoryInv
    <2> QED
        BY <1>9, <2>3, <2>4, <2>5, <2>6, <2>7, <2>8 DEF SessionInv
<1>11. CASE todo = 3
    <2>1. todo' = 1 /\ pc' = AfterSave /\ Send(Requested(AfterSave), 1)
        BY <1>11, ThreeFiles DEF SaveFile
    <2>2. /\ pc = "close" => pc' = "saved"
          /\ pc = "save" /\ OneMachine => pc' = "load first"
          /\ pc = "save" /\ ~OneMachine => pc' = "name"
        BY <1>1, <2>1 DEF AfterSave
    <2>3. Asked' = Requested(AfterSave) /\ Asked' \in {"load", "save", "name"}
          /\ (Asked' = "save" <=> pc = "close")
        BY <1>1, <2>1, <2>2 DEF Asked, Requested
    <2>4. /\ InboxInv' /\ StageInv' /\ inbox' \in Seq(Requests)
          /\ SaveComes' => SaveComes \/ pc = "close"
        BY <1>1, <1>3, <2>1, <2>2, <2>3, SendStep, ThreeFiles DEF Waiting
    <2>5. SessionTypeOK'
        <3>1. todo' \in Items /\ pc' \in {"saved", "load first", "name"}
            BY <1>1, <1>3, <2>1, <2>2
        <3> QED
            BY <1>1, <1>2, <1>5, <2>4, <3>1 DEF SessionTypeOK, Items, Requests
    <2>6. disk' = mine /\ mine' = mine
        <3>1. \A f \in 1 .. 3 : f < 3 => disk[f] = mine[f]
            BY <1>1, <1>2, <1>4, <1>11, ThreeFiles DEF ClientBuild
        <3>2. \A f \in 1 .. 3 : disk'[f] = mine[f]
            <4>1. disk \in [1 .. 3 -> Some \cup {Torn}] /\ disk' = [disk EXCEPT ![3] = mine[3]]
                BY <1>1, <1>2, <1>11, ThreeFiles DEF SessionTypeOK
            <4> QED
                BY <3>1, <4>1
        <3> QED
            BY <1>1, <1>2, <1>5, <3>2, ThreeFiles DEF SessionTypeOK
    <2>7. PlaceInv' /\ ClientBuild'
        BY <1>1, <1>3, <1>4, <2>1, <2>2, <2>6
        DEF PlaceInv, Uploading, ClientBuild, AtRest, OneBuild, ready, Items, OneMachine
    <2>8. ServerBuild'
        <3>1. CASE pc = "close"
            BY <1>1, <1>2, <1>6, <2>2, <3>1 DEF ServerBuild, Uploading, Settled, Items
        <3>2. CASE pc = "save" /\ OneMachine
            <4>1. \A i \in Items \ SharedItems : theirs[i] = mine[1]
                BY <1>2, <3>2 DEF ServerBuild
            <4>2. mine[3] = mine[1]
                BY <1>4, <3>2, ThreeFiles DEF OneBuild
            <4>3. \A i \in Items : theirs'[i] = mine[1]
                BY <1>1, <1>11, <4>1, <4>2, ThreeFiles
            <4> QED
                BY <1>1, <2>2, <2>6, <3>2, <4>3 DEF ServerBuild, Uploading, Settled, Items
        <3>3. CASE pc = "save" /\ ~OneMachine
            <4>1. \A i \in Items' : ~(i < todo') /\ ~(pc' = "content")
                BY <1>1, <1>2, <2>1, <2>2, <3>3, TheItems DEF Items, SessionTypeOK
            <4> QED
                BY <2>2, <3>3, <4>1 DEF ServerBuild, Uploading
        <3> QED
            BY <1>1, <3>1, <3>2, <3>3
    <2>9. MemoryInv'
        <3>1. SaveComes => ~OneMachine
            BY <1>1, NobodyWaits DEF Waiting
        <3>2. AtWork' => pc = "close"
            BY <1>1, <2>2 DEF AtWork
        <3>3. AtWork' \/ SaveComes' => Loaded /\ (pc = "close" \/ ~OneMachine)
            BY <1>1, <1>2, <2>4, <3>1, <3>2 DEF MemoryInv, AtWork
        <3> QED
            BY <1>8, <3>3 DEF MemoryInv
    <2> QED
        BY <1>9, <2>4, <2>5, <2>7, <2>8, <2>9 DEF SessionInv
<1> QED
    BY <1>3, <1>10, <1>11

(* A client without an index overwrites its key and leaves the file of     *)
(* counters alone; the process ends.                                       *)
LEMMA SaveNothingKeeps == SessionInv /\ SaveNothing => SessionInv'
<1> SUFFICES ASSUME SessionInv, SaveNothing PROVE SessionInv'
    OBVIOUS
<1>1. /\ pc = "close" /\ pc' = "off"
      /\ UNCHANGED <<setup, mine, words, todo, builds, db, stage, file, sizeOK, theirs, mem,
                     inbox, rep>>
    BY DEF SaveNothing, serverVars
<1>2. SessionTypeOK /\ ClientBuild /\ ServerBuild /\ SameFile /\ MemoryInv
    BY DEF SessionInv
<1>3. PICK emptied \in {{"key"}, {"key", "tables"}} :
         disk' = [f \in DOMAIN StateFiles |->
                    IF StateFiles[f] \in emptied THEN Torn ELSE disk[f]]
    BY DEF SaveNothing
<1>4. disk'[1] = Torn /\ disk'[3] = disk[3]
    BY <1>3 DEF StateFiles
<1>5. disk' \in [DOMAIN StateFiles -> Some \cup {Torn}]
    BY <1>2, <1>3 DEF SessionTypeOK
<1>6. SessionTypeOK'
    BY <1>1, <1>2, <1>5 DEF SessionTypeOK, Items, Requests
<1>7. InboxInv' /\ StageInv' /\ SaveComes' = SaveComes
    BY <1>1, <1>6, QuietStep DEF Waiting
<1>8. PlaceInv' /\ ClientBuild' /\ ServerBuild'
    BY <1>1, <1>4
    DEF PlaceInv, Uploading, ClientBuild, AtRest, OneBuild, ServerBuild, Settled
<1>9. SameFile'
    BY <1>1, <1>2, <1>4 DEF SameFile, SharedItems, Items, OneMachine
<1>10. MemoryInv'
    BY <1>1, <1>2, <1>7 DEF MemoryInv, AtWork, Loaded
<1> QED
    BY <1>6, <1>7, <1>8, <1>9, <1>10 DEF SessionInv

(* The client goes on when it has its reply: no request is there then but  *)
(* the one it sends.                                                       *)
LEMMA TakeReplyKeeps == SessionInv /\ TakeReply => SessionInv'
<1> SUFFICES ASSUME SessionInv, TakeReply PROVE SessionInv'
    OBVIOUS
<1>1. /\ rep # "none" /\ rep' = "none" /\ pc' = AfterReply
      /\ todo' = (IF pc = "content" /\ MoreFiles THEN todo + 1 ELSE todo)
      /\ IF AfterReply \in {"menu", "off"} THEN UNCHANGED inbox ELSE Send(AfterReply, todo')
      /\ UNCHANGED <<setup, mine, words, disk, builds, db, stage, file, sizeOK, theirs, mem>>
    BY DEF TakeReply, serverVars
<1>2. /\ SessionTypeOK /\ InboxInv /\ StageInv /\ PlaceInv
      /\ ClientBuild /\ ServerBuild /\ SameFile /\ MemoryInv
    BY DEF SessionInv
<1>3. pc \in Waiting /\ rep = "done" /\ inbox = <<>> /\ stage = Expected
    BY <1>1, <1>2 DEF InboxInv, StageInv
<1>4. /\ pc = "name" => pc' = "size"
      /\ pc = "size" => pc' = "content"
      /\ pc = "content" /\ MoreFiles => pc' = "name"
      /\ pc = "content" /\ ~MoreFiles => pc' = "load"
      /\ pc = "load first" => pc' = "load"
      /\ pc \in {"load", "call"} => pc' = "menu"
      /\ pc = "saved" => pc' = "off"
    BY <1>1, <1>3 DEF AfterReply, Waiting
<1>5. pc' \in {"size", "content", "name", "load", "menu", "off"} /\ ready
    BY <1>2, <1>3, <1>4 DEF Waiting, ClientBuild, AtRest
<1>6. /\ todo' \in DOMAIN StateFiles \cup Items
      /\ pc \in Uploading => todo' \in Items /\ todo \in Items
    <2>1. Items = 1 .. Len(setup.files) /\ Len(setup.files) \in Nat
        BY <1>2, TheItems DEF SessionTypeOK
    <2>2. pc \in Uploading => todo \in Items
        BY <1>2 DEF PlaceInv
    <2>3. pc = "content" /\ MoreFiles => todo + 1 \in Items
        BY <2>1, <2>2 DEF MoreFiles, Uploading
    <2>4. todo \in DOMAIN StateFiles \cup Items
        BY <1>2 DEF SessionTypeOK
    <2> QED
        BY <1>1, <2>2, <2>3, <2>4
<1>7. /\ inbox' \in Seq(Requests) /\ ~SaveComes'
      /\ Len(inbox') <= 1
      /\ pc' \in {"menu", "off"} => inbox' = <<>> /\ DOMAIN inbox' = {}
      /\ pc' \notin {"menu", "off"} =>
            /\ Len(inbox') = 1 /\ DOMAIN inbox' = {1} /\ inbox' # <<>>
            /\ inbox'[1] = [op |-> pc', file |-> todo', build |-> mine[1], live |-> TRUE]
    <2>1. CASE pc' \in {"menu", "off"}
        <3>1. inbox' = <<>>
            BY <1>1, <1>3, <2>1
        <3>2. Len(inbox') = 0 /\ DOMAIN inbox' = {} /\ inbox' \in Seq(Requests)
            BY <3>1
        <3>3. ~SaveComes'
            BY <3>2 DEF SaveComes
        <3> QED
            BY <2>1, <3>1, <3>2, <3>3
    <2>2. CASE pc' \notin {"menu", "off"}
        <3>1. Send(pc', todo') /\ Len(inbox) = 0 /\ DOMAIN inbox = {}
            BY <1>1, <1>3, <2>2
        <3>2. inbox \in Seq(Requests) /\ mine \in [DOMAIN StateFiles -> Some \cup {Torn}]
            BY <1>2 DEF SessionTypeOK
        <3>3. pc' \in {"load", "call", "save", "name", "size", "content"}
            BY <1>5, <2>2
        <3>4. /\ inbox' \in Seq(Requests) /\ inbox' # <<>> /\ Len(inbox') = Len(inbox) + 1
              /\ DOMAIN inbox' = 1 .. Len(inbox) + 1
              /\ inbox'[Len(inbox) + 1] =
                    [op |-> pc', file |-> todo', build |-> mine[1], live |-> TRUE]
            BY <1>6, <3>1, <3>2, <3>3, Sent
        <3>5. /\ inbox' \in Seq(Requests) /\ inbox' # <<>> /\ Len(inbox') = 1
              /\ DOMAIN inbox' = {1}
              /\ inbox'[1] = [op |-> pc', file |-> todo', build |-> mine[1], live |-> TRUE]
            BY <3>1, <3>4
        <3>6. ~SaveComes'
            BY <1>5, <3>5 DEF SaveComes
        <3> QED
            BY <2>2, <3>5, <3>6
    <2> QED
        BY <2>1, <2>2
<1>8. InboxInv'
    <2>1. CASE pc' \in {"menu", "off"}
        <3>1. pc' \notin Waiting /\ DOMAIN inbox' = {} /\ rep' = "none"
            BY <1>1, <1>7, <2>1 DEF Waiting
        <3> QED
            BY <3>1 DEF InboxInv
    <2>2. CASE pc' \notin {"menu", "off"}
        <3>1. Current(inbox[1])'
            <4>1. inbox'[1] = [op |-> pc', file |-> todo', build |-> mine[1], live |-> TRUE]
                BY <1>7, <2>2
            <4>2. Asked' = pc' /\ mine' = mine
                BY <1>1, <1>5 DEF Asked
            <4> QED
                BY <4>1, <4>2 DEF Current
        <3> QED
            BY <1>1, <1>5, <1>7, <2>2, <3>1 DEF InboxInv, Waiting
    <2> QED
        BY <2>1, <2>2
<1>9. StageInv'
    <2>1. Expected' = Expected
        BY <1>1, <1>3, <1>4 DEF Expected, Waiting
    <2>2. stage # "loop" => pc \in {"name", "size"}
        BY <1>3 DEF Expected
    <2>3. Len(inbox') <= 1
        BY <1>7
    <2> QED
        BY <1>1, <1>2, <1>3, <2>1, <2>2, <2>3 DEF StageInv
<1>10. PlaceInv'
    BY <1>1, <1>2, <1>3, <1>4, <1>6 DEF PlaceInv, Uploading, Waiting, Items, OneMachine
<1>11. SessionTypeOK'
    BY <1>1, <1>2, <1>5, <1>6, <1>7 DEF SessionTypeOK, Items, Requests
<1>12. ClientBuild'
    BY <1>1, <1>2, <1>3, <1>4, <1>5 DEF ClientBuild, ready, AtRest, OneBuild, Waiting
<1>13. ServerBuild'
    <2>1. CASE pc \notin Uploading
        <3>1. Settled /\ pc' \notin Uploading \cup {"save"}
            BY <1>2, <1>3, <1>4, <2>1 DEF ServerBuild, Waiting, Uploading
        <3> QED
            BY <1>1, <3>1 DEF ServerBuild, Settled, Items
    <2>2. CASE pc \in Uploading
        <3>1. /\ Items = 1 .. Len(setup.files) /\ Len(setup.files) \in Nat
              /\ todo \in Items /\ Items' = Items
            BY <1>1, <1>2, <1>6, <2>2, TheItems DEF SessionTypeOK, Items
        <3>2. \A i \in Items : i < todo \/ (i = todo /\ pc = "content") => theirs[i] = mine[1]
            BY <1>2, <1>3, <2>2 DEF ServerBuild
        <3>3. CASE pc \in {"name", "size"} \/ MoreFiles
            <4>1. pc' \in Uploading
                BY <1>4, <2>2, <3>3 DEF Uploading
            <4>2. \A i \in Items : i < todo' => theirs[i] = mine[1]
                BY <1>1, <3>1, <3>2, <3>3
            <4>3. pc' # "save"
                BY <4>1 DEF Uploading
            <4> QED
                BY <1>1, <3>1, <4>1, <4>2, <4>3 DEF ServerBuild
        <3>4. CASE pc = "content" /\ ~MoreFiles
            <4>1. \A i \in Items : theirs[i] = mine[1]
                BY <3>1, <3>2, <3>4 DEF MoreFiles
            <4>2. mine = disk
                BY <1>2, <1>5, <3>4 DEF ClientBuild
            <4>3. pc' = "load"
                BY <1>4, <3>4
            <4> QED
                BY <1>1, <3>1, <4>1, <4>2, <4>3 DEF ServerBuild, Settled, Uploading
        <3> QED
            BY <2>2, <3>3, <3>4 DEF Uploading
    <2> QED
        BY <2>1, <2>2
<1>14. MemoryInv'
    <2>1. AtWork' => AtWork
        BY <1>1, <1>3, <1>4 DEF AtWork, Waiting
    <2> QED
        BY <1>1, <1>2, <1>7, <2>1 DEF MemoryInv, Loaded
<1> QED
    BY <1>1, <1>2, <1>8, <1>9, <1>10, <1>11, <1>12, <1>13, <1>14, FilesStay DEF SessionInv

---------------------------------------------------------------------------
(* The request the server takes, and those that remain.                    *)
LEMMA Taken ==
    ASSUME SessionInv, Serve
    PROVE  /\ inbox # <<>> /\ Head(inbox) = inbox[1] /\ inbox[1] \in Requests
           /\ Len(inbox) \in Nat \ {0} /\ DOMAIN inbox = 1 .. Len(inbox)
           /\ inbox' \in Seq(Requests) /\ Len(inbox') = Len(inbox) - 1
           /\ DOMAIN inbox' = 1 .. Len(inbox) - 1
           /\ \A i \in DOMAIN inbox' : inbox'[i] = inbox[i + 1]
<1>1. inbox # <<>> /\ inbox' = Tail(inbox) /\ inbox \in Seq(Requests)
    BY DEF Serve, SessionInv, SessionTypeOK
<1>2. /\ inbox' \in Seq(Requests) /\ Len(inbox') = Len(inbox) - 1
      /\ \A i \in 1 .. Len(inbox') : inbox'[i] = inbox[i + 1]
    BY <1>1, HeadTailProperties
<1>3. Len(inbox) \in Nat /\ DOMAIN inbox = 1 .. Len(inbox) /\ DOMAIN inbox' = 1 .. Len(inbox')
    BY <1>1, <1>2, LenProperties
<1>4. Len(inbox) # 0
    BY <1>1, EmptySeq
<1>5. inbox[1] \in Requests
    BY <1>1, <1>3, <1>4, ElementOfSeq
<1>6. Head(inbox) = inbox[1]
    BY <1>1
<1> QED
    BY <1>1, <1>2, <1>3, <1>4, <1>5, <1>6

(* A request that was left behind is executed as what it is, and changes   *)
(* nothing on the disks: nobody is in the middle of a file, and the server *)
(* saves what it has loaded.                                               *)
LEMMA LeftBehindServed ==
    ASSUME SessionInv, Serve, LeftBehind(inbox[1])
    PROVE  SessionInv'
<1> DEFINE m == inbox[1]
<1>1. /\ inbox # <<>> /\ Head(inbox) = m /\ m \in Requests
      /\ Len(inbox) \in Nat \ {0} /\ DOMAIN inbox = 1 .. Len(inbox)
      /\ inbox' \in Seq(Requests) /\ Len(inbox') = Len(inbox) - 1
      /\ DOMAIN inbox' = 1 .. Len(inbox) - 1
      /\ \A i \in DOMAIN inbox' : inbox'[i] = inbox[i + 1]
    BY Taken
<1>2. /\ SessionTypeOK /\ InboxInv /\ StageInv /\ PlaceInv
      /\ ClientBuild /\ ServerBuild /\ SameFile /\ MemoryInv
    BY DEF SessionInv
<1>3. /\ ~m.live /\ m.op \in {"call", "load", "save"} /\ (m.op = "save" => ~OneMachine)
    BY DEF LeftBehind
<1>4. pc \in Waiting => Len(inbox) > 1
    <2> SUFFICES ASSUME pc \in Waiting, Len(inbox) = 1 PROVE FALSE
        BY <1>1
    <2>1. Current(inbox[1])
        BY <1>1, <1>2 DEF InboxInv
    <2> QED
        BY <1>3, <2>1 DEF Current
<1>5. rep = "none" /\ stage = "loop"
    <2>1. rep = "none"
        BY <1>1, <1>2 DEF InboxInv
    <2>2. pc \notin Waiting => stage = "loop"
        BY NobodyWaits
    <2>3. pc \in Waiting => stage = "loop"
        BY <1>1, <1>2, <1>4 DEF StageInv
    <2> QED
        BY <2>1, <2>2, <2>3
<1>6. StageOf(m) = "loop"
    BY <1>3 DEF StageOf
<1>7. Execute(m) /\ UNCHANGED <<setup, pc, mine, words, todo, builds, db>>
    BY <1>1, <1>5, <1>6 DEF Serve
<1>8. /\ stage' = "loop" /\ file' = file /\ sizeOK' = FALSE /\ rep' = rep
      /\ theirs' = (IF m.op = "save" THEN SavedFiles ELSE theirs)
      /\ mem' = (IF m.op = "load" THEN LoadedFiles ELSE mem)
    BY <1>3, <1>7 DEF Execute, AfterContent, Answer
<1>9. disk' = disk
    <2>1. ~(m.op = "save" /\ SharedItems # {})
        BY <1>3 DEF SharedItems
    <2>2. disk' = [f \in DOMAIN StateFiles |-> disk[f]]
        BY <1>7, <2>1 DEF Execute
    <2> QED
        BY <1>2, <2>2 DEF SessionTypeOK
<1>10. theirs' = theirs
    <2>1. CASE m.op = "save"
        <3>1. Loaded
            BY <1>1, <1>2, <2>1 DEF MemoryInv, SaveComes
        <3>2. SavedFiles = theirs
            BY <1>2, <3>1 DEF SavedFiles, Loaded, SessionTypeOK
        <3> QED
            BY <1>8, <2>1, <3>2
    <2> QED
        BY <1>8, <2>1
<1>11. Loaded => Loaded'
    BY <1>7, <1>8, <1>10 DEF Loaded, LoadedFiles
<1>12. SessionTypeOK'
    <2>1. mem' \in [setup.loads -> Some \cup {Torn}]
        <3>1. setup.loads \subseteq Items
            BY <1>2, TheItems DEF SessionTypeOK
        <3> QED
            BY <1>2, <1>8, <3>1 DEF SessionTypeOK, LoadedFiles
    <2> QED
        BY <1>1, <1>2, <1>7, <1>8, <1>9, <1>10, <2>1 DEF SessionTypeOK, Items, Requests
<1>13. InboxInv'
    <2>1. pc \in Waiting => inbox' # <<>>
        BY <1>1, <1>4
    <2>2. ASSUME NEW i \in DOMAIN inbox'
          PROVE  IF pc \in Waiting /\ i = Len(inbox') THEN Current(inbox'[i])
                 ELSE LeftBehind(inbox'[i])
        <3>1. i + 1 \in DOMAIN inbox /\ inbox'[i] = inbox[i + 1]
            BY <1>1
        <3>2. i = Len(inbox') <=> i + 1 = Len(inbox)
            BY <1>1
        <3> QED
            BY <1>2, <3>1, <3>2 DEF InboxInv
    <2>3. \A n : (Current(n)' <=> Current(n)) /\ (LeftBehind(n)' <=> LeftBehind(n))
        BY <1>7 DEF Current, LeftBehind, Asked, OneMachine
    <2>4. \A i \in DOMAIN inbox' : IF pc' \in Waiting /\ i = Len(inbox')
                                   THEN Current(inbox[i])' ELSE LeftBehind(inbox[i])'
        BY <1>7, <2>2 DEF Current, LeftBehind, Asked, OneMachine
    <2> QED
        BY <1>5, <1>7, <1>8, <2>1, <2>4 DEF InboxInv
<1>14. StageInv'
    BY <1>2, <1>5, <1>7, <1>8 DEF StageInv, Expected
<1>15. PlaceInv' /\ ClientBuild'
    BY <1>2, <1>7, <1>9
    DEF PlaceInv, Items, OneMachine, ClientBuild, ready, OneBuild
<1>16. ServerBuild'
    BY <1>2, <1>7, <1>8, <1>9, <1>10 DEF ServerBuild, Settled, Items, SharedItems, OneMachine
<1>17. MemoryInv'
    <2>1. AtWork' => AtWork
        BY <1>7, <1>8 DEF AtWork, ready
    <2>2. SaveComes' => SaveComes
        <3> SUFFICES ASSUME NEW i \in DOMAIN inbox', inbox'[i].op = "save" PROVE SaveComes
            BY DEF SaveComes
        <3>1. i + 1 \in DOMAIN inbox /\ inbox'[i] = inbox[i + 1]
            BY <1>1
        <3> QED
            BY <3>1 DEF SaveComes
    <2> QED
        BY <1>2, <1>11, <2>1, <2>2 DEF MemoryInv
<1> QED
    BY <1>2, <1>7, <1>9, <1>10, <1>12, <1>13, <1>14, <1>15, <1>16, <1>17, FilesStay
    DEF SessionInv

(* The request of the living client is the last; it is executed as what it *)
(* is, and answered.                                                       *)
LEMMA CurrentServed ==
    ASSUME SessionInv, Serve, ~LeftBehind(inbox[1])
    PROVE  SessionInv'
<1> DEFINE m == inbox[1]
<1>1. /\ inbox # <<>> /\ Head(inbox) = m /\ m \in Requests
      /\ Len(inbox) \in Nat \ {0} /\ DOMAIN inbox = 1 .. Len(inbox)
      /\ inbox' \in Seq(Requests) /\ Len(inbox') = Len(inbox) - 1
      /\ DOMAIN inbox' = 1 .. Len(inbox) - 1
    BY Taken
<1>2. /\ SessionTypeOK /\ InboxInv /\ StageInv /\ PlaceInv
      /\ ClientBuild /\ ServerBuild /\ SameFile /\ MemoryInv
    BY DEF SessionInv
<1>3. pc \in Waiting /\ Len(inbox) = 1 /\ Current(m) /\ rep = "none"
    BY <1>1, <1>2 DEF InboxInv
<1>4. inbox' = <<>> /\ DOMAIN inbox' = {} /\ Len(inbox') = 0
    BY <1>1, <1>3, EmptySeq
<1>5. m.live /\ m.op = Asked /\ m.file = todo /\ (m.op = "content" => m.build = mine[1])
    BY <1>3 DEF Current
<1>6. stage = StageOf(m)
    BY <1>2, <1>3, <1>5 DEF StageInv, Expected, StageOf, Asked, Waiting
<1>7. Execute(m) /\ UNCHANGED <<setup, pc, mine, words, todo, builds, db>>
    BY <1>1, <1>6 DEF Serve
<1>8. /\ stage' = (IF pc = "name" THEN "size" ELSE IF pc = "size" THEN "content" ELSE "loop")
      /\ file' = (IF pc = "name" THEN todo ELSE file)
      /\ sizeOK' = (pc = "size") /\ rep' = "done"
      /\ theirs' = (CASE pc = "name"    -> [theirs EXCEPT ![todo] = Torn]
                      [] pc = "content" -> [theirs EXCEPT ![todo] = mine[1]]
                      [] pc = "saved"   -> SavedFiles
                      [] OTHER          -> theirs)
      /\ mem' = (IF pc \in {"load", "load first"} THEN LoadedFiles ELSE mem)
    <2>1. pc = "content" => stage = "content" /\ sizeOK /\ file = todo
        BY <1>2, <1>3 DEF StageInv, Expected
    <2> QED
        BY <1>3, <1>5, <1>7, <2>1 DEF Execute, Asked, Waiting, AfterContent, Answer
<1>9. pc = "saved" => SavedFiles = theirs
    <2> SUFFICES ASSUME pc = "saved" PROVE SavedFiles = theirs
        OBVIOUS
    <2>1. Loaded
        BY <1>2 DEF MemoryInv, AtWork
    <2> QED
        BY <1>2, <2>1 DEF SavedFiles, Loaded, SessionTypeOK
<1>10. disk' = disk
    <2>1. CASE pc = "saved" /\ SharedItems # {}
        <3>1. (CHOOSE i \in SharedItems : TRUE) \in SharedItems
            BY <2>1
        <3>2. theirs[CHOOSE i \in SharedItems : TRUE] = disk[3]
            BY <1>2, <3>1 DEF SameFile
        <3>3. \A f \in DOMAIN StateFiles : StateFiles[f] = "counters" => f = 3
            BY ThreeFiles
        <3>4. disk' = [f \in DOMAIN StateFiles |->
                          IF m.op = "save" /\ StateFiles[f] = "counters" /\ SharedItems # {}
                          THEN theirs[CHOOSE i \in SharedItems : TRUE] ELSE disk[f]]
            BY <1>7, <1>9, <2>1 DEF Execute
        <3> QED
            BY <1>2, <3>2, <3>3, <3>4 DEF SessionTypeOK
    <2>2. CASE ~(pc = "saved" /\ SharedItems # {})
        <3>1. ~(m.op = "save" /\ SharedItems # {})
            BY <1>3, <1>5, <2>2 DEF Asked, Waiting
        <3>2. disk' = [f \in DOMAIN StateFiles |-> disk[f]]
            BY <1>7, <3>1 DEF Execute
        <3> QED
            BY <1>2, <3>2 DEF SessionTypeOK
    <2> QED
        BY <2>1, <2>2
<1>11. /\ setup.loads \subseteq Items
       /\ pc \in Uploading => todo \in Items
       /\ mine[1] \in Some \cup {Torn}
    <2>1. setup \in Setups /\ mine \in [1 .. 3 -> Some \cup {Torn}]
        BY <1>2, ThreeFiles DEF SessionTypeOK
    <2>2. pc \in Uploading => todo \in Items
        BY <1>2 DEF PlaceInv
    <2> QED
        BY <2>1, <2>2, TheItems
<1>12. pc \notin Uploading => theirs' = theirs
    BY <1>3, <1>8, <1>9 DEF Uploading, Waiting
<1>13. SessionTypeOK'
    <2>1. theirs' \in [Items -> Some \cup {Torn}]
        <3>1. pc = "name" => theirs' = [theirs EXCEPT ![todo] = Torn]
            BY <1>8
        <3>2. pc = "content" => theirs' = [theirs EXCEPT ![todo] = mine[1]]
            BY <1>8
        <3>3. pc \notin {"name", "content"} => theirs' = theirs
            BY <1>8, <1>9
        <3> QED
            BY <1>2, <1>11, <3>1, <3>2, <3>3 DEF SessionTypeOK
    <2>2. mem' \in [setup.loads -> Some \cup {Torn}]
        BY <1>2, <1>8, <1>11 DEF SessionTypeOK, LoadedFiles
    <2>3. file' \in Items
        BY <1>2, <1>8, <1>11 DEF SessionTypeOK, Uploading
    <2> QED
        BY <1>1, <1>2, <1>7, <1>8, <1>10, <2>1, <2>2, <2>3 DEF SessionTypeOK, Items, Requests
<1>14. InboxInv'
    BY <1>3, <1>4, <1>7, <1>8 DEF InboxInv
<1>15. StageInv'
    <2>1. stage' = Expected'
        BY <1>3, <1>7, <1>8 DEF Expected, Waiting
    <2>2. pc = "size" => file = todo
        BY <1>2, <1>3 DEF StageInv, Expected
    <2>3. stage' # "loop" => file' = todo'
        BY <1>7, <1>8, <2>2
    <2>4. stage' = "content" => sizeOK'
        BY <1>8
    <2>5. Len(inbox') <= 1
        BY <1>4
    <2> QED
        BY <2>1, <2>3, <2>4, <2>5 DEF StageInv
<1>16. PlaceInv' /\ ClientBuild'
    BY <1>2, <1>7, <1>10
    DEF PlaceInv, Items, OneMachine, ClientBuild, ready, OneBuild
<1>17. ServerBuild'
    <2>1. CASE pc \notin Uploading
        BY <1>2, <1>3, <1>7, <1>10, <1>12, <2>1
        DEF ServerBuild, Settled, Items, SharedItems, OneMachine, Waiting
    <2>2. CASE pc \in Uploading
        <3>1. Items = 1 .. Len(setup.files) /\ Len(setup.files) \in Nat /\ todo \in Items
            BY <1>2, <1>11, <2>2, TheItems DEF SessionTypeOK
        <3>2. \A i \in Items : i < todo => theirs[i] = mine[1]
            BY <1>2, <2>2 DEF ServerBuild
        <3>3. \A i \in Items : i < todo => theirs'[i] = theirs[i]
            <4>1. /\ pc = "name" => theirs' = [theirs EXCEPT ![todo] = Torn]
                  /\ pc = "content" => theirs' = [theirs EXCEPT ![todo] = mine[1]]
                  /\ pc = "size" => theirs' = theirs
                BY <1>8
            <4>2. \A i \in Items : i < todo => i # todo
                BY <3>1
            <4> QED
                BY <1>2, <2>2, <4>1, <4>2 DEF SessionTypeOK, Uploading
        <3>4. pc = "content" => theirs'[todo] = mine[1]
            BY <1>2, <1>8, <3>1 DEF SessionTypeOK
        <3> QED
            BY <1>7, <2>2, <3>2, <3>3, <3>4 DEF ServerBuild, Items, Uploading
    <2> QED
        BY <2>1, <2>2
<1>18. MemoryInv'
    <2>1. ~SaveComes'
        BY <1>4 DEF SaveComes
    <2>2. CASE pc \in {"load", "load first"}
        BY <1>7, <1>8, <1>12, <2>2 DEF MemoryInv, Loaded, LoadedFiles, Uploading
    <2>3. CASE pc \in {"call", "saved"}
        <3>1. Loaded /\ theirs' = theirs /\ mem' = mem
            BY <1>2, <1>8, <1>12, <2>3 DEF MemoryInv, AtWork, Uploading
        <3> QED
            BY <1>7, <3>1 DEF MemoryInv, Loaded
    <2>4. CASE pc \in Uploading
        BY <1>7, <2>1, <2>4 DEF MemoryInv, AtWork, Uploading
    <2> QED
        BY <1>3, <2>2, <2>3, <2>4 DEF Waiting, Uploading
<1>19. SameFile'
    <2>1. CASE pc \in Uploading
        BY <1>2, <1>7, <2>1 DEF PlaceInv, SameFile, SharedItems, OneMachine
    <2>2. CASE pc \notin Uploading
        BY <1>2, <1>7, <1>10, <1>12, <2>2, FilesStay
    <2> QED
        BY <2>1, <2>2
<1> QED
    BY <1>13, <1>14, <1>15, <1>16, <1>17, <1>18, <1>19 DEF SessionInv

LEMMA ServeKeeps == SessionInv /\ Serve => SessionInv'
    BY LeftBehindServed, CurrentServed

---------------------------------------------------------------------------
(* The database of another day.                                            *)
LEMMA ChangeDatabaseKeeps == SessionInv /\ ChangeDatabase => SessionInv'
<1> SUFFICES ASSUME SessionInv, ChangeDatabase PROVE SessionInv'
    OBVIOUS
<1>1. /\ pc \in AtRest /\ db' \in Databases
      /\ UNCHANGED <<setup, pc, mine, words, disk, todo, builds, stage, file, sizeOK, theirs,
                     mem, inbox, rep>>
    BY DEF ChangeDatabase, serverVars, AtRest
<1>2. SessionTypeOK /\ PlaceInv /\ ClientBuild /\ ServerBuild /\ SameFile /\ MemoryInv
    BY DEF SessionInv
<1>3. SessionTypeOK'
    BY <1>1, <1>2 DEF SessionTypeOK, Items, Requests
<1>4. InboxInv' /\ StageInv' /\ SaveComes' = SaveComes
    BY <1>1, <1>3, QuietStep DEF Waiting, AtRest
<1>5. PlaceInv' /\ ClientBuild'
    BY <1>1, <1>2 DEF PlaceInv, Items, OneMachine, ClientBuild, ready, OneBuild
<1>6. ServerBuild' /\ MemoryInv'
    BY <1>1, <1>2, <1>4
    DEF ServerBuild, Settled, Items, SharedItems, OneMachine, MemoryInv, AtWork, ready, Loaded
<1> QED
    BY <1>1, <1>2, <1>3, <1>4, <1>5, <1>6, FilesStay DEF SessionInv

(* A client that is killed outside of its save and upload leaves both ends *)
(* with what they had, and a request that is no part of a file.            *)
LEMMA KillKeeps ==
    ASSUME KilledOutside, SessionInv, Kill
    PROVE  SessionInv'
<1>0. pc \notin {"save", "close"}
    BY DEF Kill, KilledOutside, SessionInv, SessionTypeOK
<1>1. /\ pc \in setup.kills /\ pc' = "off" /\ rep' = "none"
      /\ UNCHANGED <<setup, mine, words, disk, todo, builds, db, stage, file, sizeOK, theirs, mem>>
    BY <1>0 DEF Kill
<1>2. /\ SessionTypeOK /\ InboxInv /\ StageInv /\ PlaceInv
      /\ ClientBuild /\ ServerBuild /\ SameFile /\ MemoryInv
    BY DEF SessionInv
<1>3. /\ pc \in {"menu", "call", "load first", "load", "saved"}
      /\ pc = "saved" => ~OneMachine
    BY <1>1, <1>2 DEF KilledOutside, SessionTypeOK, OneMachine
<1>4. Len(inbox) \in Nat /\ DOMAIN inbox = 1 .. Len(inbox) /\ inbox \in Seq(Requests)
    BY <1>2, LenProperties DEF SessionTypeOK
<1>5. \A i \in DOMAIN inbox :
         /\ inbox[i] \in Requests
         /\ inbox[i].op \in {"call", "load"} \cup (IF OneMachine THEN {} ELSE {"save"})
         /\ i # Len(inbox) => ~inbox[i].live
    <2> SUFFICES ASSUME NEW i \in DOMAIN inbox
                 PROVE  /\ inbox[i] \in Requests
                        /\ inbox[i].op \in {"call", "load"} \cup
                                           (IF OneMachine THEN {} ELSE {"save"})
                        /\ i # Len(inbox) => ~inbox[i].live
        OBVIOUS
    <2>1. inbox[i] \in Requests
        BY <1>4, ElementOfSeq
    <2>2. CASE LeftBehind(inbox[i])
        BY <2>1, <2>2 DEF LeftBehind
    <2>3. CASE ~LeftBehind(inbox[i])
        <3>1. pc \in Waiting /\ i = Len(inbox) /\ Current(inbox[i])
            BY <1>2, <2>3 DEF InboxInv
        <3> QED
            BY <1>3, <2>1, <3>1 DEF Current, Asked, Waiting
    <2> QED
        BY <2>2, <2>3
<1>6. /\ inbox' \in Seq(Requests)
      /\ \A i \in DOMAIN inbox' : LeftBehind(inbox'[i])
      /\ SaveComes' => SaveComes
    <2>1. CASE inbox' = [i \in DOMAIN inbox |-> [inbox[i] EXCEPT !.live = FALSE]]
        <3>1. \A i \in 1 .. Len(inbox) :
                 /\ inbox'[i] = [inbox[i] EXCEPT !.live = FALSE]
                 /\ inbox'[i] \in Requests
                 /\ inbox'[i].op = inbox[i].op /\ ~inbox'[i].live
            BY <1>4, <1>5, <2>1 DEF Requests
        <3>2. inbox' \in [1 .. Len(inbox) -> Requests]
            BY <1>4, <2>1, <3>1
        <3>3. inbox' \in Seq(Requests) /\ DOMAIN inbox' = DOMAIN inbox
            BY <1>4, <3>2, SeqDef
        <3>4. \A i \in DOMAIN inbox' : LeftBehind(inbox'[i])
            BY <1>4, <1>5, <3>1, <3>3 DEF LeftBehind
        <3>5. SaveComes' => SaveComes
            BY <1>4, <3>1, <3>3 DEF SaveComes
        <3> QED
            BY <3>3, <3>4, <3>5
    <2>2. CASE inbox # <<>> /\ inbox' = SubSeq(inbox, 1, Len(inbox) - 1)
        <3>1. Len(inbox) - 1 \in Int /\ \A i \in 1 .. Len(inbox) - 1 : inbox[i] \in Requests
            BY <1>4, <1>5
        <3>2. PICK n \in Nat : n = Len(inbox) - 1
            <4>1. Len(inbox) # 0
                BY <1>4, <2>2, EmptySeq
            <4>2. Len(inbox) - 1 \in Nat
                BY <1>4, <4>1
            <4> QED
                BY <4>2
        <3>3. /\ inbox' \in Seq(Requests)
              /\ Len(inbox') = IF 1 <= n THEN n - 1 + 1 ELSE 0
              /\ \A i \in 1 .. n - 1 + 1 : inbox'[i] = inbox[1 + i - 1]
            BY <2>2, <3>1, <3>2, SubSeqProperties
        <3>4. Len(inbox') = n
            BY <3>2, <3>3
        <3>5. ASSUME NEW i \in 1 .. n PROVE inbox'[i] = inbox[i]
            <4>1. i \in 1 .. n - 1 + 1 /\ 1 + i - 1 = i
                BY <3>2
            <4> QED
                BY <3>3, <4>1
        <3>6. DOMAIN inbox' = 1 .. Len(inbox')
            BY <3>3, LenProperties
        <3>7. \A i \in DOMAIN inbox' :
                 inbox'[i] = inbox[i] /\ i \in DOMAIN inbox /\ i # Len(inbox)
            BY <1>4, <3>2, <3>6, <3>4, <3>5
        <3>8. \A i \in DOMAIN inbox' : LeftBehind(inbox'[i])
            BY <1>5, <3>7 DEF LeftBehind
        <3>9. SaveComes' => SaveComes
            BY <3>7 DEF SaveComes
        <3> QED
            BY <3>8, <3>9, <3>3
    <2> QED
        BY <2>1, <2>2 DEF Kill
<1>7. SessionTypeOK'
    BY <1>1, <1>2, <1>6 DEF SessionTypeOK, Items, Requests
<1>8. InboxInv'
    BY <1>1, <1>6 DEF InboxInv, LeftBehind, OneMachine, Waiting
<1>9. StageInv'
    <2>1. stage = "loop"
        BY <1>2, <1>3 DEF StageInv, Expected
    <2> QED
        BY <1>1, <2>1 DEF StageInv, Expected
<1>10. PlaceInv' /\ ClientBuild'
    BY <1>1, <1>2, <1>3 DEF PlaceInv, Uploading, ClientBuild, AtRest, OneBuild
<1>11. ServerBuild'
    BY <1>1, <1>2, <1>3 DEF ServerBuild, Uploading, Settled, Items
<1>12. MemoryInv'
    BY <1>1, <1>2, <1>6 DEF MemoryInv, AtWork, Loaded
<1> QED
    BY <1>1, <1>2, <1>7, <1>8, <1>9, <1>10, <1>11, <1>12, FilesStay DEF SessionInv

(* A new server process has loaded nothing and has no requests.            *)
LEMMA RestartKeeps == SessionInv /\ Restart => SessionInv'
<1> SUFFICES ASSUME SessionInv, Restart PROVE SessionInv'
    OBVIOUS
<1>1. /\ pc = "off" /\ stage' = "loop" /\ file' = 1 /\ inbox' = <<>>
      /\ sizeOK' = FALSE /\ mem' = [i \in setup.loads |-> None]
      /\ UNCHANGED <<setup, pc, mine, words, disk, todo, builds, db, theirs, rep>>
    BY DEF Restart, clientVars
<1>2. SessionTypeOK /\ PlaceInv /\ ClientBuild /\ ServerBuild /\ SameFile
    BY DEF SessionInv
<1>3. rep = "none"
    BY <1>1, NobodyWaits DEF Waiting
<1>4. inbox' \in Seq(Requests) /\ DOMAIN inbox' = {}
    BY <1>1
<1>5. SessionTypeOK'
    <2>1. 1 \in Items
        <3>1. Items = 1 .. Len(setup.files) /\ Len(setup.files) \in Nat \ {0}
            BY <1>2, TheItems DEF SessionTypeOK
        <3> QED
            BY <3>1
    <2>2. mem' \in [setup.loads -> Some \cup {Torn}]
        BY <1>1, Numbers
    <2> QED
        BY <1>1, <1>2, <1>4, <2>1, <2>2 DEF SessionTypeOK, Items, Requests
<1>6. InboxInv' /\ StageInv'
    BY <1>1, <1>3, <1>4 DEF InboxInv, StageInv, Expected, Waiting
<1>7. PlaceInv' /\ ClientBuild'
    BY <1>1, <1>2 DEF PlaceInv, Items, OneMachine, ClientBuild, ready, OneBuild
<1>8. ServerBuild' /\ MemoryInv'
    BY <1>1, <1>2, <1>4
    DEF ServerBuild, Settled, Items, SharedItems, OneMachine, MemoryInv, AtWork, SaveComes
<1> QED
    BY <1>1, <1>2, <1>5, <1>6, <1>7, <1>8, FilesStay DEF SessionInv

LEMMA SessionStutters == SessionInv /\ UNCHANGED vars => SessionInv'
<1> SUFFICES ASSUME SessionInv, UNCHANGED vars PROVE SessionInv'
    OBVIOUS
<1>1. UNCHANGED <<setup, pc, mine, words, disk, todo, builds, db, stage, file, sizeOK, theirs,
                  mem, inbox, rep>>
    BY DEF vars, clientVars, serverVars
<1>2. SessionTypeOK' <=> SessionTypeOK
    BY <1>1 DEF SessionTypeOK, Items, Requests
<1>3. InboxInv' <=> InboxInv
    BY <1>1 DEF InboxInv, Current, Asked, LeftBehind, OneMachine
<1>4. (StageInv /\ PlaceInv => StageInv' /\ PlaceInv')
    BY <1>1 DEF StageInv, Expected, PlaceInv, Items, OneMachine
<1>5. (ClientBuild /\ ServerBuild /\ MemoryInv => ClientBuild' /\ ServerBuild' /\ MemoryInv')
    BY <1>1
    DEF ClientBuild, ready, OneBuild, ServerBuild, Settled, Items, SharedItems, OneMachine,
        MemoryInv, AtWork, SaveComes, Loaded
<1> QED
    BY <1>1, <1>2, <1>3, <1>4, <1>5, FilesStay DEF SessionInv

LEMMA SessionInvariant ==
    ASSUME KilledOutside
    PROVE  Spec => []SessionInv
<1>1. SessionInv /\ [Next]_vars => SessionInv'
    <2> SUFFICES ASSUME SessionInv, [Next]_vars PROVE SessionInv'
        OBVIOUS
    <2> QED
        BY StartKeeps, LoadStateKeeps, CallKeeps, BuildKeeps, CloseKeeps, SaveFileKeeps,
           SaveNothingKeeps, TakeReplyKeeps, ServeKeeps, ChangeDatabaseKeeps, KillKeeps, RestartKeeps,
           SessionStutters
        DEF Next, ClientGoesOn
<1> QED
    BY <1>1, SessionStart, PTL DEF Spec

---------------------------------------------------------------------------
(* What the menus, the files and the requests of both ends can be          *)
(* (main.cpp, Client_DSSE.cpp, Server_DSSE.cpp): a file is of a build, or  *)
(* not all of it, and the server is in one of its recv() calls.            *)
THEOREM SessionTypesCorrect ==
    ASSUME KilledOutside
    PROVE  Spec => []SessionTypeOK
<1>1. SessionInv => SessionTypeOK
    BY DEF SessionInv
<1> QED
    BY <1>1, SessionInvariant, PTL

(* A client that is at its menu with an index, built or loaded by          *)
(* loadState, works with a server that uses the same one, in memory and on *)
(* disk, whatever earlier clients did and left behind, unless menu 5 has   *)
(* overwritten its key.                                                    *)
THEOREM AlwaysSameBuild ==
    ASSUME KilledOutside
    PROVE  Spec => []SameBuild
<1>1. SessionInv => SameBuild
    <2> SUFFICES ASSUME SessionInv, pc = "menu", ready, mine[1] # Torn
                 PROVE  /\ \A f \in DOMAIN StateFiles : mine[f] = mine[1]
                        /\ \A i \in Items : Used(i) = mine[1]
        BY DEF SameBuild
    <2>1. mine = disk /\ OneBuild(mine)
        BY DEF SessionInv, ClientBuild
    <2>2. Settled /\ Loaded
        BY DEF SessionInv, ServerBuild, MemoryInv, AtWork, Uploading
    <2> QED
        BY <2>1, <2>2 DEF OneBuild, Settled, Loaded, Used
<1> QED
    BY <1>1, SessionInvariant, PTL

(* When no client runs, the files at both ends are those of one build      *)
(* (saveState, sendEncryptedIndex and CMD_SAVESTATE), unless menu 5 has    *)
(* overwritten the key.  They need not be of one moment of that build, and *)
(* no client is killed here between two files of a save.                   *)
THEOREM DisksAlwaysSameBuild ==
    ASSUME KilledOutside
    PROVE  Spec => []DisksSameBuild
<1>1. SessionInv => DisksSameBuild
    <2> SUFFICES ASSUME SessionInv, pc = "off"
                 PROVE  OneBuild(disk) /\ Settled
        BY DEF DisksSameBuild, OneBuild, Settled
    <2> QED
        BY DEF SessionInv, ClientBuild, ServerBuild, Uploading
<1> QED
    BY <1>1, SessionInvariant, PTL

(* The server never takes a request for a part of a file (Server_DSSE.cpp, *)
(* the recv() calls of getEncrypted_data_structure), as long as no client  *)
(* is killed in the middle of one.                                         *)
THEOREM RequestsAlwaysServed ==
    ASSUME KilledOutside
    PROVE  Spec => []RequestsServed
<1>1. SessionInv => RequestsServed
    BY DEF SessionInv, InboxInv, RequestsServed
<1> QED
    BY <1>1, SessionInvariant, PTL

=============================================================================
