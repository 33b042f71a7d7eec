--------------------------- MODULE CipherThreads ---------------------------
(***************************************************************************)
(* The threads with which the client of variants II and III computes AES   *)
(* key streams while the server is asked for the data.  A call of the      *)
(* client starts them, joins them and uses the buffers they filled.  What  *)
(* the threads share is the cipher table of libtomcrypt, and how it is     *)
(* used depends on the build:                                              *)
(*   "aesni"  INTEL_AES_NI is defined, the table is not used;              *)
(*   "each"   it is not: every key registers and unregisters the cipher;   *)
(*   "once"   the Android port: the call registers the cipher before it    *)
(*            starts the threads, and unregisters it after it joined them. *)
(* One use of the table is one step, as with the library's mutex; builds   *)
(* of the library without the mutex have more behaviours, not fewer.       *)
(***************************************************************************)
EXTENDS Integers

CONSTANTS NumRows,      \* MATRIX_ROW_SIZE
          NumBlocks,    \* NUM_BLOCKS
          CounterMax,   \* bound: updates of one block
          Builds        \* the builds looked at

(* blocks says that ENCRYPT_BLOCK_SIZE > 1: an update also fetches and     *)
(* decrypts the block.                                                     *)
AllBuilds == [cipher : {"aesni", "each", "once"}, blocks : BOOLEAN]

ASSUME CipherThreadsAssumption ==
    /\ NumRows \in Nat \ {0} /\ NumBlocks \in Nat \ {0} /\ CounterMax \in Nat
    /\ Builds \subseteq AllBuilds

Rows   == 0 .. NumRows - 1
Blocks == 0 .. NumBlocks - 1

(* The threads that compute keys; one more, "fetch", waits for the server. *)
KeyThreads == {"decrypt", "reencrypt"}
Threads    == KeyThreads \cup {"fetch"}

(* A key stream is the row, the block and the counter it was made from.    *)
Streams == Rows \X Blocks \X Nat
Garbage == <<-1, -1, -1>>      \* V before the first key was computed

Calls == [op : {"search"}, idx : Rows] \cup [op : {"update"}, idx : Blocks]

VARIABLES build,     \* how the client was compiled
          table,     \* the cipher is registered in libtomcrypt's table
          counter,   \* block_counter_arr
          main,      \* the main thread
          call,      \* the call it is in
          pc,        \* thread -> where it is
          ct,        \* key thread -> the counter it read at its start
          at,        \* key thread -> the key it is computing
          found,     \* key thread -> find_cipher returned an index
          V,         \* key thread -> the stream computed last
          buffer     \* key thread -> decrypt_key or aes_keys, reencrypt_key

vars == <<build, table, counter, main, call, pc, ct, at, found, V, buffer>>

(* The threads a call starts.                                              *)
ThreadsOf(c) ==
    IF c.op = "search" THEN {"decrypt", "fetch"}
    ELSE IF build.blocks THEN Threads ELSE {"reencrypt"}

(* A search needs a key for each block of its row, an update one for each  *)
(* row of its block.                                                       *)
Keys(c) == IF c.op = "search" THEN Blocks ELSE Rows

(* isIncremental: the block is re-encrypted under the next counter.  The   *)
(* Android port with threads has no such parameter, and no next counter.   *)
Increment_down(t) == IF t = "reencrypt" /\ build.cipher # "once" THEN -1 ELSE 0

Increment(t) == IF t = "reencrypt" /\ build.cipher # "once" THEN 1 ELSE 0

Init ==
    /\ build \in Builds
    /\ table = FALSE
    /\ counter = [b \in Blocks |-> 1]
    /\ main = "menu"
    /\ call = [op |-> "search", idx |-> 0]
    /\ pc = [t \in Threads |-> "none"]
    /\ ct = [t \in KeyThreads |-> 0]
    /\ at = [t \in KeyThreads |-> 0]
    /\ found = [t \in KeyThreads |-> FALSE]
    /\ V = [t \in KeyThreads |-> Garbage]
    /\ buffer = [t \in KeyThreads |-> [i \in Rows \cup Blocks |-> Garbage]]

---------------------------------------------------------------------------
(* The main thread.                                                        *)

(* searchKeyword, addFile, delFile up to the first pthread_join: a thread  *)
(* created earlier than another is a thread that runs earlier.             *)
StartThreads(c) ==
    /\ main = "menu"
    /\ c.op = "update" => counter[c.idx] < CounterMax
    /\ main' = "join" /\ call' = c
    /\ table' = (table \/ build.cipher = "once")
    /\ pc' = [t \in Threads |-> IF t \in ThreadsOf(c) THEN "created" ELSE "none"]
    /\ UNCHANGED <<build, counter, ct, at, found, V, buffer>>

Join_notReencrypt ==
    /\ main = "join"
    /\ \A t \in ThreadsOf(call) \ {"reencrypt"} : pc[t] = "done"
    /\ main' = "joined"
    /\ table' = (table /\ build.cipher # "once")
    /\ UNCHANGED <<build, counter, call, pc, ct, at, found, V, buffer>>

Join ==
    /\ main = "join"
    /\ \A t \in ThreadsOf(call) : pc[t] = "done"
    /\ main' = "joined"
    /\ table' = (table /\ build.cipher # "once")
    /\ UNCHANGED <<build, counter, call, pc, ct, at, found, V, buffer>>

(* The buffers are used, and an update counts its block up.                *)
UseKeys ==
    /\ main = "joined"
    /\ main' = "menu"
    /\ counter' = IF call.op = "update"
                  THEN [counter EXCEPT ![call.idx] = @ + Increment("reencrypt")]
                  ELSE counter
    /\ UNCHANGED <<build, table, call, pc, ct, at, found, V, buffer>>

---------------------------------------------------------------------------
(* The threads.  A process that has ended has no thread that runs.         *)

Steps(t, from, to) ==
    /\ main # "exit" /\ pc[t] = from
    /\ pc' = [pc EXCEPT ![t] = to]

(* requestSearch_data, requestBlock_data: the server has answered.         *)
FetchData ==
    /\ Steps("fetch", "created", "done")
    /\ UNCHANGED <<build, table, counter, main, call, ct, at, found, V, buffer>>

(* Where the computation of a key begins.                                  *)
FirstStep == CASE build.cipher = "aesni" -> "encrypt"
               [] build.cipher = "each"  -> "register"
               [] build.cipher = "once"  -> "find"

BeginKeys(t) ==
    /\ Steps(t, "created", FirstStep)
    /\ ct' = [ct EXCEPT ![t] = counter[IF call.op = "update" THEN call.idx ELSE 0]
                               + Increment(t)]
    /\ at' = [at EXCEPT ![t] = 0]
    /\ V'  = [V EXCEPT ![t] = Garbage]
    /\ UNCHANGED <<build, table, counter, main, call, found, buffer>>

RegisterCipher_not(t) ==
    /\ Steps(t, "register", "find")
    /\ UNCHANGED <<build, table, counter, main, call, ct, at, found, V, buffer>>

RegisterCipher(t) ==
    /\ Steps(t, "register", "find")
    /\ table' = TRUE
    /\ UNCHANGED <<build, counter, main, call, ct, at, found, V, buffer>>

FindCipher(t) ==
    /\ Steps(t, "find", "start")
    /\ found' = [found EXCEPT ![t] = table]
    /\ UNCHANGED <<build, table, counter, main, call, ct, at, V, buffer>>

(* What the thread is to compute: a search reads the counter of each block *)
(* when it comes to it, an update has read its counter before.             *)
Stream(t) == IF call.op = "search" THEN <<call.idx, at[t], counter[at[t]]>>
                                   ELSE <<at[t], call.idx, ct[t]>>

(* v goes into the buffer, and the thread comes to the next key.           *)
StoreKey(t, from, v) ==
    /\ Steps(t, from, IF at[t] + 1 \in Keys(call) THEN FirstStep ELSE "done")
    /\ buffer' = [buffer EXCEPT ![t][at[t]] = v]
    /\ at' = [at EXCEPT ![t] = @ + 1]

(* ctr_start refuses an index that names no cipher: the process exits, but *)
(* the Android port returns without a stream, and nobody asks.             *)
CtrStart(t) ==
    LET valid == found[t] /\ table IN
    /\ IF valid \/ build.cipher = "each"
       THEN /\ Steps(t, "start", IF valid THEN "encrypt" ELSE "start")
            /\ UNCHANGED <<at, buffer>>
       ELSE StoreKey(t, "start", V[t])
    /\ main' = IF ~valid /\ build.cipher = "each" THEN "exit" ELSE main
    /\ UNCHANGED <<build, table, counter, call, ct, found, V>>

(* ctr_encrypt also refuses such an index, and its result is ignored: V    *)
(* keeps the stream of the key before.                                     *)
Encrypted(t) == IF build.cipher = "aesni" \/ table THEN Stream(t) ELSE V[t]

CtrEncrypt(t) ==
    /\ pc[t] = "encrypt"
    /\ V' = [V EXCEPT ![t] = Encrypted(t)]
    /\ IF build.cipher = "each"
       THEN Steps(t, "encrypt", "unregister") /\ UNCHANGED <<at, buffer>>
       ELSE StoreKey(t, "encrypt", Encrypted(t))
    /\ UNCHANGED <<build, table, counter, main, call, ct, found>>

UnregisterCipher(t) ==
    /\ table' = FALSE
    /\ StoreKey(t, "unregister", V[t])
    /\ UNCHANGED <<build, counter, main, call, ct, found, V>>

---------------------------------------------------------------------------
MainStep == (\E c \in Calls : StartThreads(c)) \/ Join \/ UseKeys

ThreadStep(t) ==
    \/ BeginKeys(t) \/ RegisterCipher(t) \/ FindCipher(t) \/ CtrStart(t)
    \/ CtrEncrypt(t) \/ UnregisterCipher(t)

Next == MainStep \/ FetchData \/ \E t \in KeyThreads : ThreadStep(t)

(* The system runs every thread, and the server answers (EncryptedIndex's  *)
(* RequestAnswered).  Nobody has to start a call.                          *)
Fairness == /\ WF_vars(Join) /\ WF_vars(UseKeys) /\ WF_vars(FetchData)
            /\ \A t \in KeyThreads : WF_vars(ThreadStep(t))

Spec == Init /\ [][Next]_vars /\ Fairness

---------------------------------------------------------------------------
ThreadsTypeOK ==
    /\ build \in Builds /\ table \in BOOLEAN
    /\ counter \in [Blocks -> Nat]
    /\ main \in {"menu", "join", "joined", "exit"}
    /\ call \in Calls
    /\ pc \in [Threads -> {"none", "created", "register", "find", "start",
                           "encrypt", "unregister", "done"}]
    /\ ct \in [KeyThreads -> Nat]
    /\ at \in [KeyThreads -> Nat]
    /\ found \in [KeyThreads -> BOOLEAN]
    /\ V \in [KeyThreads -> Streams \cup {Garbage}]
    /\ buffer \in [KeyThreads -> [Rows \cup Blocks -> Streams \cup {Garbage}]]

(* The key a thread's buffer needs at place i when the threads are joined. *)
Needed(t, i) == IF call.op = "search" THEN <<call.idx, i, counter[i]>>
                ELSE <<i, call.idx, counter[call.idx] + Increment(t)>>

(* When searchKeyword, addFile or delFile comes to use what its threads    *)
(* left, every key is the stream of its own row, block and counter: no     *)
(* stream of the key before, none of another counter.                      *)
KeysRight ==
    main = "joined" =>
        \A t \in ThreadsOf(call) \ {"fetch"} : \A i \in Keys(call) :
            buffer[t][i] = Needed(t, i)

(* Every call gets its keys: the client does not end in a thread, and no   *)
(* thread waits for ever.                                                  *)
CallsGetKeys == main = "join" ~> main = "joined"

=============================================================================
