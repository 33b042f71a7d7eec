------------------------------ MODULE Channel -------------------------------
(***************************************************************************)
(* The ZeroMQ REQ/REP connection between client and server.  Every request *)
(* of the client opens a socket, sends one message and blocks until the    *)
(* one reply arrives, without a timeout; so there is at most one request   *)
(* of the running client (req) and at most one reply (rep).  A client that *)
(* is killed may leave its request behind (late); the server still serves  *)
(* it, before anything a new client sends, and the reply goes nowhere.     *)
(* Bound: one request is left behind at a time.                            *)
(***************************************************************************)
EXTENDS DSSE

VARIABLES req, late, rep

chanVars == <<req, late, rep>>

None == [cmd |-> "none"]

Request ==
    [cmd : {"search"}, tau : Token]                                \* CMD_SEARCH_OPERATION
        \cup [cmd : {"search_data"}, row : Rows]                   \* CMD_REQUEST_SEARCH_DATA
        \cup [cmd : {"block_data"}, blk : Blocks]                  \* CMD_REQUEST_BLOCK_DATA
        \cup [cmd : {"update"}, blk : Blocks, data : [Rows -> Cell]]
                                                                   \* CMD_UPDATE_BLOCK_DATA
        \cup [cmd : {"load", "save"}]                              \* CMD_LOADSTATE, CMD_SAVESTATE

Answer ==
    [cmd : {"files"}, files : Plain]
        \cup [cmd : {"row"}, row : [Blocks -> Cell]]
        \cup [cmd : {"block"}, data : [Rows -> Cell], st : SUBSET Rows]
        \cup [cmd : {"success"}]

ChannelTypeOK ==
    /\ req  \in Request \cup {None}
    /\ late \in Request \cup {None}
    /\ rep  \in Answer \cup {None}

ChannelInit == req = None /\ late = None /\ rep = None

(* Client side *)

Send(m) ==
    /\ req' = m
    /\ UNCHANGED <<late, rep>>

TakeAnswer ==
    /\ rep # None
    /\ rep' = None
    /\ UNCHANGED <<req, late>>

(* Server side *)

Incoming == IF late # None THEN late ELSE req

Reply_dropped(a) ==
    IF late # None
    THEN late' = None /\ UNCHANGED <<req, rep>>
    ELSE req' = None /\ UNCHANGED <<late, rep>>

Reply(a) ==
    IF late # None
    THEN late' = None /\ UNCHANGED <<req, rep>>
    ELSE req' = None /\ rep' = a /\ UNCHANGED late
=============================================================================
