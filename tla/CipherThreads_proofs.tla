----------------------- MODULE CipherThreads_proofs -----------------------
(***************************************************************************)
(* In a build in which only one thread of a call uses the cipher table by  *)
(* itself, the keys of every call are right, for any number of rows,       *)
(* blocks and calls.  In any build the types are.                          *)
(***************************************************************************)
EXTENDS CipherThreads, TLAPS

(* AES-NI, one thread per call, or the cipher registered around the threads. *)
SoundBuilds == \A b \in Builds : b.cipher = "each" => ~b.blocks

Working == {"register", "find", "start", "encrypt", "unregister"}

(* Where a thread is in the build it runs in, and what it knows of the     *)
(* table there.                                                            *)
PlaceOK(t) ==
    /\ pc[t] \in {"register", "unregister"} => build.cipher = "each"
    /\ pc[t] \in {"find", "start"} => build.cipher # "aesni" /\ table
    /\ pc[t] = "start" => found[t]
    /\ pc[t] = "encrypt" => build.cipher = "aesni" \/ table

(* What a thread has computed so far is right.                             *)
KeysSoFar(t) ==
    /\ pc[t] \in Working =>
        /\ at[t] \in Keys(call)
        /\ \A i \in Keys(call) : i < at[t] => buffer[t][i] = Needed(t, i)
        /\ call.op = "update" => ct[t] = counter[call.idx] + Increment(t)
    /\ pc[t] = "unregister" => V[t] = Needed(t, at[t])
    /\ pc[t] = "done" /\ main # "menu" =>
        \A i \in Keys(call) : buffer[t][i] = Needed(t, i)

(* The call the main thread is in, and the threads that are there.         *)
CallOK ==
    /\ main # "exit"
    /\ \A t \in Threads : t \notin ThreadsOf(call) => pc[t] = "none"
    /\ main = "menu" => \A t \in Threads : pc[t] \in {"none", "done"}
    /\ main = "joined" => \A t \in ThreadsOf(call) : pc[t] = "done"
    /\ build.cipher = "once" /\ main = "join" => table

ThreadsInv ==
    /\ ThreadsTypeOK
    /\ CallOK
    /\ \A t \in KeyThreads : PlaceOK(t)
    /\ \A t \in KeyThreads : KeysSoFar(t)

---------------------------------------------------------------------------
(* A step of a thread leaves the other threads, the call and the counters  *)
(* alone.                                                                  *)
OnlyThread(t) ==
    /\ UNCHANGED <<build, counter, main, call>>
    /\ \A u \in Threads \ {t} : pc'[u] = pc[u]
    /\ \A u \in KeyThreads \ {t} :
          /\ ct'[u] = ct[u] /\ at'[u] = at[u] /\ found'[u] = found[u]
          /\ V'[u] = V[u] /\ buffer'[u] = buffer[u]

(* Types hold initially and after every step.                              *)
LEMMA TypedInit == Init => ThreadsTypeOK
<1> SUFFICES ASSUME Init PROVE ThreadsTypeOK
    OBVIOUS
<1>1. call \in Calls
    BY CipherThreadsAssumption DEF Init, Calls, Rows
<1> QED
    BY <1>1, CipherThreadsAssumption DEF Init, ThreadsTypeOK, Threads, KeyThreads

LEMMA StreamTyped ==
    ASSUME ThreadsTypeOK, NEW t \in KeyThreads, at[t] \in Keys(call)
    PROVE  /\ Stream(t) \in Streams
           /\ Stream(t) = IF call.op = "search"
                          THEN <<call.idx, at[t], counter[at[t]]>>
                          ELSE <<at[t], call.idx, ct[t]>>
    BY DEF ThreadsTypeOK, Stream, Streams, Keys, Calls

(* The invariant holds initially.                                          *)
LEMMA InvInit == Init => ThreadsInv
<1> SUFFICES ASSUME Init PROVE ThreadsInv
    OBVIOUS
<1>1. ThreadsTypeOK
    BY TypedInit
<1>2. CallOK
    BY DEF Init, CallOK, Threads, KeyThreads
<1>3. \A t \in KeyThreads : PlaceOK(t) /\ KeysSoFar(t)
    BY DEF Init, PlaceOK, KeysSoFar, Working, Threads, KeyThreads
<1> QED
    BY <1>1, <1>2, <1>3 DEF ThreadsInv

(* What a thread step keeps of the types and of the call.                  *)
LEMMA CallKept ==
    ASSUME CallOK, NEW t \in Threads, OnlyThread(t),
           pc[t] \in {"created"} \cup Working,
           build.cipher = "once" /\ table => table', ThreadsTypeOK
    PROVE  CallOK'
<1>1. main = "join"
    <2>1. t \in ThreadsOf(call) /\ pc[t] \notin {"none", "done"}
        BY DEF CallOK, Working
    <2> QED
        BY <2>1 DEF CallOK, ThreadsTypeOK
<1>2. \A c : ThreadsOf(c)' = ThreadsOf(c)
    BY DEF OnlyThread, ThreadsOf
<1> QED
    BY <1>1, <1>2 DEF CallOK, OnlyThread, Working, ThreadsOf

(* Another thread is still where it was, and knows what it knew: where     *)
(* each key is registered by itself, it is not there at all.               *)
LEMMA OthersKept ==
    ASSUME SoundBuilds, ThreadsInv, NEW t \in KeyThreads, NEW u \in KeyThreads \ {t},
           OnlyThread(t), pc[t] \in {"created"} \cup Working,
           build.cipher # "each" => table' = table
    PROVE  PlaceOK(u)' /\ KeysSoFar(u)'
<1>1. /\ pc'[u] = pc[u] /\ ct'[u] = ct[u] /\ at'[u] = at[u] /\ found'[u] = found[u]
      /\ V'[u] = V[u] /\ buffer'[u] = buffer[u]
    BY DEF OnlyThread, Threads
<1>2. UNCHANGED <<build, counter, main, call>>
    BY DEF OnlyThread
<1>3. PlaceOK(u) /\ KeysSoFar(u)
    BY DEF ThreadsInv
<1>4. PlaceOK(u)'
    <2>1. CASE build.cipher = "each"
        <3>1. ~build.blocks
            BY <2>1 DEF SoundBuilds, ThreadsInv, ThreadsTypeOK
        <3>2. t \in ThreadsOf(call)
            BY DEF ThreadsInv, CallOK, Working, Threads
        <3>3. u \notin ThreadsOf(call)
            BY <3>1, <3>2 DEF ThreadsOf, KeyThreads
        <3>4. pc[u] = "none"
            BY <3>3 DEF ThreadsInv, CallOK, Threads
        <3> QED
            BY <1>1, <3>4 DEF PlaceOK
    <2>2. CASE build.cipher # "each"
        BY <1>1, <1>2, <1>3, <2>2 DEF PlaceOK
    <2> QED
        BY <2>1, <2>2
<1>5. KeysSoFar(u)'
    BY <1>1, <1>2, <1>3 DEF KeysSoFar, Keys, Needed, Increment
<1> QED
    BY <1>4, <1>5

(* A thread that stores the right key for its place has right keys.        *)
LEMMA StoredRight ==
    ASSUME ThreadsTypeOK, NEW t \in KeyThreads, NEW from \in Working, NEW v,
           StoreKey(t, from, v), UNCHANGED <<build, counter, main, call, ct>>,
           KeysSoFar(t), v = Needed(t, at[t])
    PROVE  /\ KeysSoFar(t)'
           /\ pc'[t] \in {FirstStep, "done"}
           /\ at' \in [KeyThreads -> Nat]
<1>1. /\ pc[t] = from /\ pc'[t] = IF at[t] + 1 \in Keys(call) THEN FirstStep ELSE "done"
      /\ at'[t] = at[t] + 1 /\ at' \in [KeyThreads -> Nat]
      /\ at[t] \in Keys(call) /\ at[t] \in Nat
    BY DEF StoreKey, Steps, ThreadsTypeOK, Threads, KeysSoFar
<1>2. buffer'[t] = [buffer[t] EXCEPT ![at[t]] = v]
    BY DEF StoreKey, ThreadsTypeOK
<1>3. \A i \in Keys(call) : i < at[t] + 1 => buffer'[t][i] = Needed(t, i)
    <2> TAKE i \in Keys(call)
    <2>1. i \in Rows \cup Blocks /\ i \in Nat
        BY DEF Keys, Rows, Blocks
    <2>2. buffer'[t][i] = IF i = at[t] THEN v ELSE buffer[t][i]
        BY <1>2, <2>1 DEF ThreadsTypeOK
    <2> QED
        BY <1>1, <2>1, <2>2 DEF KeysSoFar
<1>4. \A i : Needed(t, i)' = Needed(t, i)
    BY DEF Needed, Increment
<1>5. Keys(call)' = Keys(call)
    BY DEF Keys
<1>7. at[t] + 1 \notin Keys(call) => \A i \in Keys(call) : i < at[t] + 1
    BY <1>1, CipherThreadsAssumption DEF Keys, Rows, Blocks
<1>8. FirstStep # "done" /\ FirstStep # "unregister"
    BY CipherThreadsAssumption DEF FirstStep, ThreadsTypeOK, AllBuilds
<1>9. pc[t] \in Working /\ (call.op = "update" => ct[t] = counter[call.idx] + Increment(t))
    BY <1>1 DEF KeysSoFar
<1>10. UNCHANGED <<call, ct, counter>> /\ Increment(t)' = Increment(t)
    BY DEF Increment
<1>11. CASE at[t] + 1 \in Keys(call)
    <2>1. pc'[t] = FirstStep
        BY <1>1, <1>11
    <2> QED
        BY <1>1, <1>3, <1>4, <1>5, <1>8, <1>9, <1>10, <1>11, <2>1 DEF KeysSoFar
<1>12. CASE at[t] + 1 \notin Keys(call)
    <2>1. pc'[t] = "done"
        BY <1>1, <1>12
    <2>2. \A i \in Keys(call) : buffer'[t][i] = Needed(t, i)
        BY <1>3, <1>7, <1>12
    <2> QED
        BY <1>1, <1>4, <1>5, <2>1, <2>2 DEF KeysSoFar, Working
<1> QED
    BY <1>1, <1>11, <1>12

(* Every step of a thread keeps the invariant.                             *)
LEMMA ThreadStepKept ==
    ASSUME SoundBuilds, ThreadsInv, NEW t \in KeyThreads, ThreadStep(t)
    PROVE  ThreadsInv'
<1> USE DEF ThreadsInv
<1>1. KeysSoFar(t) /\ PlaceOK(t) /\ main \in {"join", "menu", "joined"}
    BY DEF CallOK, ThreadsTypeOK
<1>2. build.cipher \in {"aesni", "each", "once"}
    BY CipherThreadsAssumption DEF ThreadsTypeOK, AllBuilds
<1>3. UNCHANGED <<build, counter, call>>
    BY DEF ThreadStep, BeginKeys, RegisterCipher, FindCipher, CtrStart, CtrEncrypt,
           UnregisterCipher
<1>4. SUFFICES
        /\ main' = main
        /\ OnlyThread(t)
        /\ pc[t] \in {"created"} \cup Working
        /\ build.cipher # "each" => table' = table
        /\ ThreadsTypeOK'
        /\ PlaceOK(t)'
        /\ KeysSoFar(t)'
    <2>1. OnlyThread(t) /\ pc[t] \in {"created"} \cup Working
          /\ (build.cipher # "each" => table' = table)
        BY <1>4
    <2>2. CallOK'
        BY <2>1, CallKept DEF Threads
    <2>3. \A u \in KeyThreads \ {t} : PlaceOK(u)' /\ KeysSoFar(u)'
        BY <2>1, OthersKept
    <2> QED
        BY <1>4, <2>2, <2>3
<1>5. CASE BeginKeys(t)
    <2>1. /\ pc[t] = "created" /\ pc' = [pc EXCEPT ![t] = FirstStep] /\ main' = main
          /\ at' = [at EXCEPT ![t] = 0] /\ table' = table /\ buffer' = buffer
          /\ V' = [V EXCEPT ![t] = Garbage] /\ found' = found
          /\ ct' = [ct EXCEPT ![t] = counter[IF call.op = "update" THEN call.idx ELSE 0]
                                     + Increment(t)]
        BY <1>5 DEF BeginKeys, Steps
    <2>2. FirstStep \in {"encrypt", "register", "find"}
          /\ (FirstStep = "register" => build.cipher = "each")
          /\ (FirstStep = "find" => build.cipher = "once")
          /\ (FirstStep = "encrypt" => build.cipher = "aesni")
        BY <1>2 DEF FirstStep
    <2>3. main = "join"
        BY <2>1, <1>1 DEF CallOK, Threads, ThreadsTypeOK
    <2>4. 0 \in Keys(call) /\ 0 \in Blocks
        BY CipherThreadsAssumption DEF Keys, Rows, Blocks
    <2>5. (IF call.op = "update" THEN call.idx ELSE 0) \in Blocks
        BY <2>4 DEF ThreadsTypeOK, Calls
    <2>6. ThreadsTypeOK'
        <3>1. counter[IF call.op = "update" THEN call.idx ELSE 0] + Increment(t) \in Nat
            BY <2>5 DEF ThreadsTypeOK, Increment
        <3> QED
            BY <1>3, <2>1, <2>2, <3>1 DEF ThreadsTypeOK, Threads
    <2>7. PlaceOK(t)'
        BY <1>3, <2>1, <2>2, <2>3 DEF PlaceOK, CallOK, ThreadsTypeOK, Threads
    <2>8. KeysSoFar(t)'
        <3>1. pc'[t] = FirstStep /\ at'[t] = 0
            BY <2>1 DEF ThreadsTypeOK, Threads
        <3>2. ~\E i \in Keys(call) : i < 0
            BY DEF Keys, Rows, Blocks
        <3>3. call.op = "update" => ct'[t] = counter[call.idx] + Increment(t)
            BY <2>1 DEF ThreadsTypeOK
        <3>4. Keys(call)' = Keys(call) /\ Increment(t)' = Increment(t)
            BY <1>3 DEF Keys, Increment
        <3> QED
            BY <1>3, <2>2, <2>4, <3>1, <3>2, <3>3, <3>4 DEF KeysSoFar
    <2> QED
        BY <1>3, <2>1, <2>6, <2>7, <2>8 DEF OnlyThread, ThreadsTypeOK
<1>6. CASE RegisterCipher(t)
    <2>1. /\ pc[t] = "register" /\ pc' = [pc EXCEPT ![t] = "find"] /\ table' = TRUE
          /\ UNCHANGED <<main, ct, at, found, V, buffer>>
        BY <1>6 DEF RegisterCipher, Steps
    <2>2. build.cipher = "each"
        BY <1>1, <2>1 DEF PlaceOK
    <2>3. ThreadsTypeOK'
        BY <1>3, <2>1 DEF ThreadsTypeOK, Threads
    <2>4. PlaceOK(t)'
        BY <1>3, <2>1, <2>2 DEF PlaceOK, ThreadsTypeOK, Threads
    <2>5. KeysSoFar(t)'
        BY <1>1, <1>3, <2>1 DEF KeysSoFar, Working, Keys, Needed, Increment, ThreadsTypeOK, Threads
    <2> QED
        BY <1>3, <2>1, <2>2, <2>3, <2>4, <2>5 DEF OnlyThread, Working, ThreadsTypeOK
<1>7. CASE FindCipher(t)
    <2>1. /\ pc[t] = "find" /\ pc' = [pc EXCEPT ![t] = "start"]
          /\ found' = [found EXCEPT ![t] = table]
          /\ UNCHANGED <<table, main, ct, at, V, buffer>>
        BY <1>7 DEF FindCipher, Steps
    <2>2. build.cipher # "aesni" /\ table
        BY <1>1, <2>1 DEF PlaceOK
    <2>3. ThreadsTypeOK'
        BY <1>3, <2>1 DEF ThreadsTypeOK, Threads
    <2>4. PlaceOK(t)'
        BY <1>3, <2>1, <2>2 DEF PlaceOK, ThreadsTypeOK, Threads
    <2>5. KeysSoFar(t)'
        BY <1>1, <1>3, <2>1 DEF KeysSoFar, Working, Keys, Needed, Increment, ThreadsTypeOK, Threads
    <2> QED
        BY <1>3, <2>1, <2>3, <2>4, <2>5 DEF OnlyThread, Working, ThreadsTypeOK
<1>8. CASE CtrStart(t)
    <2>1. pc[t] = "start"
        BY <1>8 DEF CtrStart, StoreKey, Steps
    <2>2. build.cipher # "aesni" /\ table /\ found[t]
        BY <1>1, <2>1 DEF PlaceOK
    <2>3. /\ pc' = [pc EXCEPT ![t] = "encrypt"]
          /\ UNCHANGED <<table, main, ct, at, found, V, buffer>>
        BY <1>8, <2>2 DEF CtrStart, Steps
    <2>4. ThreadsTypeOK'
        BY <1>3, <2>3 DEF ThreadsTypeOK, Threads
    <2>5. PlaceOK(t)'
        BY <1>3, <2>2, <2>3 DEF PlaceOK, ThreadsTypeOK, Threads
    <2>6. KeysSoFar(t)'
        BY <1>1, <1>3, <2>1, <2>3 DEF KeysSoFar, Working, Keys, Needed, Increment, ThreadsTypeOK,
           Threads
    <2> QED
        BY <1>3, <2>1, <2>3, <2>4, <2>5, <2>6 DEF OnlyThread, Working, ThreadsTypeOK
<1>9. CASE CtrEncrypt(t)
    <2>1. /\ pc[t] = "encrypt" /\ V' = [V EXCEPT ![t] = Encrypted(t)]
          /\ UNCHANGED <<table, main, ct, found>>
        BY <1>9 DEF CtrEncrypt
    <2>2. Encrypted(t) = Stream(t)
        BY <1>1, <2>1 DEF Encrypted, PlaceOK
    <2>3. at[t] \in Keys(call) /\ Stream(t) \in Streams /\ Stream(t) = Needed(t, at[t])
        BY <1>1, <2>1, StreamTyped DEF KeysSoFar, Working, Needed, ThreadsTypeOK, Calls
    <2>4. CASE build.cipher = "each"
        <3>1. pc' = [pc EXCEPT ![t] = "unregister"] /\ UNCHANGED <<at, buffer>>
            BY <1>9, <2>4 DEF CtrEncrypt, Steps
        <3>2. ThreadsTypeOK'
            BY <1>3, <2>1, <2>2, <2>3, <3>1 DEF ThreadsTypeOK, Threads
        <3>3. PlaceOK(t)'
            BY <1>3, <2>4, <3>1 DEF PlaceOK, ThreadsTypeOK, Threads
        <3>4. KeysSoFar(t)'
            BY <1>1, <1>3, <2>1, <2>2, <2>3, <3>1
            DEF KeysSoFar, Working, Keys, Needed, Increment, ThreadsTypeOK, Threads
        <3> QED
            BY <1>3, <2>1, <3>1, <3>2, <3>3, <3>4 DEF OnlyThread, Working, ThreadsTypeOK
    <2>5. CASE build.cipher # "each"
        <3>1. StoreKey(t, "encrypt", Stream(t))
            BY <1>9, <2>2, <2>5 DEF CtrEncrypt
        <3>2. KeysSoFar(t)' /\ pc'[t] \in {FirstStep, "done"} /\ at' \in [KeyThreads -> Nat]
            BY <1>1, <1>3, <2>1, <2>3, <3>1, StoredRight DEF Working
        <3>3. /\ pc' = [pc EXCEPT ![t] = pc'[t]]
              /\ at' = [at EXCEPT ![t] = @ + 1]
              /\ buffer' = [buffer EXCEPT ![t][at[t]] = Stream(t)]
            BY <3>1 DEF StoreKey, Steps, ThreadsTypeOK, Threads
        <3>4. pc'[t] \in {"encrypt", "find", "done"}
              /\ (pc'[t] = "encrypt" => build.cipher = "aesni")
              /\ (pc'[t] = "find" => build.cipher = "once")
            BY <1>2, <2>5, <3>2 DEF FirstStep
        <3>5. ThreadsTypeOK'
            <4>1. buffer' \in [KeyThreads -> [Rows \cup Blocks -> Streams \cup {Garbage}]]
                BY <2>3, <3>3 DEF ThreadsTypeOK
            <4>2. pc' \in [Threads -> {"none", "created", "register", "find", "start",
                                       "encrypt", "unregister", "done"}]
                BY <3>3, <3>4 DEF ThreadsTypeOK, Threads
            <4>3. V' \in [KeyThreads -> Streams \cup {Garbage}]
                BY <2>1, <2>2, <2>3 DEF ThreadsTypeOK
            <4> QED
                BY <1>3, <2>1, <3>2, <4>1, <4>2, <4>3 DEF ThreadsTypeOK
        <3>6. PlaceOK(t)'
            <4>1. build.cipher = "once" => table
                BY <1>1, <2>1 DEF PlaceOK
            <4> QED
                BY <1>3, <2>1, <3>4, <4>1 DEF PlaceOK
        <3> QED
            BY <1>3, <2>1, <3>2, <3>3, <3>5, <3>6 DEF OnlyThread, Working, ThreadsTypeOK
    <2> QED
        BY <2>4, <2>5
<1>10. CASE UnregisterCipher(t)
    <2>1. /\ pc[t] = "unregister" /\ StoreKey(t, "unregister", V[t]) /\ table' = FALSE
          /\ UNCHANGED <<main, ct, found, V>>
        BY <1>10 DEF UnregisterCipher, StoreKey, Steps
    <2>2. build.cipher = "each" /\ V[t] = Needed(t, at[t]) /\ at[t] \in Keys(call)
        BY <1>1, <2>1 DEF PlaceOK, KeysSoFar, Working
    <2>3. KeysSoFar(t)' /\ pc'[t] \in {FirstStep, "done"} /\ at' \in [KeyThreads -> Nat]
        BY <1>1, <1>3, <2>1, <2>2, StoredRight DEF Working
    <2>4. /\ pc' = [pc EXCEPT ![t] = pc'[t]]
          /\ at' = [at EXCEPT ![t] = @ + 1]
          /\ buffer' = [buffer EXCEPT ![t][at[t]] = V[t]]
        BY <2>1 DEF StoreKey, Steps, ThreadsTypeOK, Threads
    <2>5. pc'[t] \in {"register", "done"}
        BY <2>2, <2>3 DEF FirstStep
    <2>6. ThreadsTypeOK'
        <3>1. buffer' \in [KeyThreads -> [Rows \cup Blocks -> Streams \cup {Garbage}]]
            BY <2>4 DEF ThreadsTypeOK
        <3>2. pc' \in [Threads -> {"none", "created", "register", "find", "start",
                                   "encrypt", "unregister", "done"}]
            BY <2>4, <2>5 DEF ThreadsTypeOK, Threads
        <3> QED
            BY <1>3, <2>1, <2>3, <3>1, <3>2 DEF ThreadsTypeOK
    <2>7. PlaceOK(t)'
        BY <1>3, <2>2, <2>5 DEF PlaceOK
    <2> QED
        BY <1>3, <2>1, <2>2, <2>3, <2>4, <2>6, <2>7 DEF OnlyThread, Working, ThreadsTypeOK
<1> QED
    BY <1>5, <1>6, <1>7, <1>8, <1>9, <1>10 DEF ThreadStep

(* So does every step of the main thread, and the answer of the server.    *)
LEMMA MainStepKept ==
    ASSUME SoundBuilds, ThreadsInv, MainStep \/ FetchData \/ UNCHANGED vars
    PROVE  ThreadsInv'
<1> USE DEF ThreadsInv
<1>1. ASSUME NEW c \in Calls, StartThreads(c) PROVE ThreadsInv'
    <2>1. /\ main' = "join" /\ call' = c /\ table' = (table \/ build.cipher = "once")
          /\ pc' = [t \in Threads |-> IF t \in ThreadsOf(c) THEN "created" ELSE "none"]
          /\ UNCHANGED <<build, counter, ct, at, found, V, buffer>>
        BY <1>1 DEF StartThreads
    <2>2. ThreadsTypeOK'
        BY <2>1 DEF ThreadsTypeOK
    <2>3. CallOK'
        BY <2>1 DEF CallOK, ThreadsOf, Threads, KeyThreads
    <2>4. \A t \in KeyThreads : PlaceOK(t)' /\ KeysSoFar(t)'
        BY <2>1 DEF PlaceOK, KeysSoFar, Working, Threads
    <2> QED
        BY <2>2, <2>3, <2>4
<1>2. CASE Join
    <2>1. /\ main = "join" /\ main' = "joined" /\ table' = (table /\ build.cipher # "once")
          /\ \A t \in ThreadsOf(call) : pc[t] = "done"
          /\ UNCHANGED <<build, counter, call, pc, ct, at, found, V, buffer>>
        BY <1>2 DEF Join
    <2>2. \A t \in Threads : pc[t] \in {"none", "done"}
        BY <2>1 DEF CallOK
    <2>3. ThreadsTypeOK' /\ CallOK'
        BY <2>1 DEF ThreadsTypeOK, CallOK, ThreadsOf
    <2>4. \A t \in KeyThreads : PlaceOK(t)' /\ KeysSoFar(t)'
        BY <2>1, <2>2 DEF PlaceOK, KeysSoFar, Working, Threads, Keys, Needed, Increment
    <2> QED
        BY <2>3, <2>4
<1>3. CASE UseKeys
    <2>1. /\ main = "joined" /\ main' = "menu"
          /\ UNCHANGED <<build, table, call, pc, ct, at, found, V, buffer>>
          /\ counter' = IF call.op = "update"
                        THEN [counter EXCEPT ![call.idx] = @ + Increment("reencrypt")]
                        ELSE counter
        BY <1>3 DEF UseKeys
    <2>2. \A t \in Threads : pc[t] \in {"none", "done"}
        BY <2>1 DEF CallOK, ThreadsTypeOK
    <2>3. ThreadsTypeOK'
        <3>1. Increment("reencrypt") \in Nat
            BY DEF Increment
        <3>2. counter' \in [Blocks -> Nat]
            <4>1. CASE call.op = "update"
                <5>1. call.idx \in Blocks
                    BY <4>1 DEF ThreadsTypeOK, Calls
                <5>2. counter[call.idx] + Increment("reencrypt") \in Nat
                    BY <3>1, <5>1 DEF ThreadsTypeOK
                <5> QED
                    BY <2>1, <4>1, <5>2 DEF ThreadsTypeOK
            <4> QED
                BY <2>1, <4>1 DEF ThreadsTypeOK
        <3> QED
            BY <2>1, <3>2 DEF ThreadsTypeOK
    <2>4. CallOK'
        BY <2>1, <2>2 DEF CallOK, ThreadsOf
    <2>5. \A t \in KeyThreads : PlaceOK(t)' /\ KeysSoFar(t)'
        BY <2>1, <2>2 DEF PlaceOK, KeysSoFar, Working, Threads
    <2> QED
        BY <2>3, <2>4, <2>5
<1>4. CASE FetchData
    <2>1. /\ pc[ "fetch" ] = "created" /\ pc' = [pc EXCEPT !["fetch"] = "done"]
          /\ UNCHANGED <<build, table, counter, main, call, ct, at, found, V, buffer>>
        BY <1>4 DEF FetchData, Steps
    <2>2. ThreadsTypeOK'
        BY <2>1 DEF ThreadsTypeOK, Threads
    <2>3. CallOK'
        BY <2>1 DEF CallOK, ThreadsTypeOK, Threads, KeyThreads, ThreadsOf
    <2>4. \A t \in KeyThreads : pc'[t] = pc[t]
        BY <2>1 DEF ThreadsTypeOK, Threads, KeyThreads
    <2>5. \A t \in KeyThreads : PlaceOK(t)' /\ KeysSoFar(t)'
        BY <2>1, <2>4 DEF PlaceOK, KeysSoFar, Keys, Needed, Increment
    <2> QED
        BY <2>2, <2>3, <2>5
<1>5. CASE UNCHANGED vars
    <2>1. UNCHANGED <<build, table, counter, main, call, pc, ct, at, found, V, buffer>>
        BY <1>5 DEF vars
    <2>2. ThreadsTypeOK' /\ CallOK'
        BY <2>1 DEF ThreadsTypeOK, CallOK, ThreadsOf
    <2>3. \A t \in KeyThreads : PlaceOK(t)' /\ KeysSoFar(t)'
        BY <2>1 DEF PlaceOK, KeysSoFar, Keys, Needed, Increment
    <2> QED
        BY <2>2, <2>3
<1> QED
    BY <1>1, <1>2, <1>3, <1>4, <1>5 DEF MainStep

LEMMA InvGivesKeys == ThreadsInv => KeysRight
<1> SUFFICES ASSUME ThreadsInv, main = "joined",
                    NEW t \in ThreadsOf(call) \ {"fetch"}, NEW i \in Keys(call)
             PROVE  buffer[t][i] = Needed(t, i)
    BY DEF KeysRight
<1>1. t \in KeyThreads /\ pc[t] = "done"
    BY DEF ThreadsInv, CallOK, ThreadsOf, Threads, KeyThreads
<1> QED
    BY <1>1 DEF ThreadsInv, KeysSoFar

(* In the builds named above every key a call uses is the stream of its    *)
(* own row, block and counter (precomputeAES_CTR_keys, aes128_ctr_encdec), *)
(* whatever the order in which its threads ran.                            *)
THEOREM KeysAlwaysRight ==
    ASSUME SoundBuilds
    PROVE  Spec => []KeysRight
<1>1. ThreadsInv /\ [Next]_vars => ThreadsInv'
    BY ThreadStepKept, MainStepKept DEF Next
<1> QED
    BY <1>1, InvInit, InvGivesKeys, PTL DEF Spec

---------------------------------------------------------------------------
(* The types need no such builds: where threads take the cipher from each  *)
(* other, what they store are still streams, only wrong ones.  A thread at *)
(* work has a key of its call before it.                                   *)
PlaceTyped == \A t \in KeyThreads : pc[t] \in Working => at[t] \in Keys(call)

LEMMA MoveTyped ==
    ASSUME ThreadsTypeOK, PlaceTyped, NEW t \in KeyThreads, pc[t] \in Working,
           NEW to \in Working, pc' = [pc EXCEPT ![t] = to], UNCHANGED <<at, call>>
    PROVE  /\ pc' \in [Threads -> {"none", "created", "register", "find", "start",
                                   "encrypt", "unregister", "done"}]
           /\ PlaceTyped'
<1>1. pc \in [Threads -> {"none", "created", "register", "find", "start",
                          "encrypt", "unregister", "done"}]
    BY DEF ThreadsTypeOK
<1>2. t \in Threads /\ KeyThreads \subseteq Threads
    BY DEF Threads
<1>3. \A u \in KeyThreads : pc'[u] \in Working => pc[u] \in Working
    BY <1>1, <1>2
<1>4. PlaceTyped'
    BY <1>3 DEF PlaceTyped, Keys
<1> QED
    BY <1>1, <1>2, <1>4 DEF Working

LEMMA StoreTyped ==
    ASSUME ThreadsTypeOK, PlaceTyped, NEW t \in KeyThreads, NEW from \in Working,
           NEW v \in Streams \cup {Garbage}, StoreKey(t, from, v), UNCHANGED call
    PROVE  /\ pc' \in [Threads -> {"none", "created", "register", "find", "start",
                                   "encrypt", "unregister", "done"}]
           /\ at' \in [KeyThreads -> Nat]
           /\ buffer' \in [KeyThreads -> [Rows \cup Blocks -> Streams \cup {Garbage}]]
           /\ PlaceTyped'
<1>1. /\ pc' = [pc EXCEPT ![t] = IF at[t] + 1 \in Keys(call) THEN FirstStep ELSE "done"]
      /\ at' = [at EXCEPT ![t] = at[t] + 1]
      /\ buffer' = [buffer EXCEPT ![t] = [buffer[t] EXCEPT ![at[t]] = v]]
    BY DEF StoreKey, Steps, ThreadsTypeOK
<1>2. t \in Threads /\ FirstStep \in {"encrypt", "register", "find"}
    BY CipherThreadsAssumption DEF FirstStep, ThreadsTypeOK, AllBuilds, Threads
<1>3. buffer[t] \in [Rows \cup Blocks -> Streams \cup {Garbage}]
    BY DEF ThreadsTypeOK
<1>4. [buffer[t] EXCEPT ![at[t]] = v] \in [Rows \cup Blocks -> Streams \cup {Garbage}]
    BY <1>3
<1>5. PlaceTyped'
    <2>1. Keys(call)' = Keys(call)
        BY DEF Keys
    <2>2. ASSUME NEW u \in KeyThreads, pc'[u] \in Working
          PROVE  at'[u] \in Keys(call)
        <3>1. CASE u = t
            BY <1>1, <1>2, <2>2, <3>1 DEF Working, ThreadsTypeOK
        <3>2. CASE u # t
            BY <1>1, <2>2, <3>2 DEF PlaceTyped, ThreadsTypeOK, Threads
        <3> QED
            BY <3>1, <3>2
    <2> QED
        BY <2>1, <2>2 DEF PlaceTyped
<1>6. pc' \in [Threads -> {"none", "created", "register", "find", "start",
                           "encrypt", "unregister", "done"}]
    <2>1. pc \in [Threads -> {"none", "created", "register", "find", "start",
                              "encrypt", "unregister", "done"}]
        BY DEF ThreadsTypeOK
    <2>2. (IF at[t] + 1 \in Keys(call) THEN FirstStep ELSE "done") \in
              {"none", "created", "register", "find", "start", "encrypt", "unregister", "done"}
        BY <1>2
    <2> QED
        BY <1>1, <2>1, <2>2
<1>7. at' \in [KeyThreads -> Nat]
    BY <1>1 DEF ThreadsTypeOK
<1>8. buffer' \in [KeyThreads -> [Rows \cup Blocks -> Streams \cup {Garbage}]]
    BY <1>1, <1>4 DEF ThreadsTypeOK
<1> QED
    BY <1>5, <1>6, <1>7, <1>8

LEMMA ThreadTyped ==
    ASSUME ThreadsTypeOK, PlaceTyped, NEW t \in KeyThreads, ThreadStep(t)
    PROVE  ThreadsTypeOK' /\ PlaceTyped'
<1>1. t \in Threads /\ FirstStep \in {"encrypt", "register", "find"}
    BY CipherThreadsAssumption DEF FirstStep, ThreadsTypeOK, AllBuilds, Threads
<1>2. V[t] \in Streams \cup {Garbage} /\ "start" \in Working /\ "encrypt" \in Working
      /\ "unregister" \in Working
    BY DEF ThreadsTypeOK, Working
<1>3. CASE BeginKeys(t)
    <2>1. /\ pc' = [pc EXCEPT ![t] = FirstStep] /\ at' = [at EXCEPT ![t] = 0]
          /\ V' = [V EXCEPT ![t] = Garbage]
          /\ ct' = [ct EXCEPT ![t] = counter[IF call.op = "update" THEN call.idx ELSE 0]
                                     + Increment(t)]
          /\ UNCHANGED <<build, table, counter, main, call, found, buffer>>
        BY <1>3 DEF BeginKeys, Steps
    <2>2. 0 \in Keys(call) /\ 0 \in Blocks
        BY CipherThreadsAssumption DEF Keys, Rows, Blocks
    <2>3. (IF call.op = "update" THEN call.idx ELSE 0) \in Blocks
        BY <2>2 DEF ThreadsTypeOK, Calls
    <2>4. counter[IF call.op = "update" THEN call.idx ELSE 0] + Increment(t) \in Nat
        BY <2>3 DEF ThreadsTypeOK, Increment
    <2>5. ThreadsTypeOK'
        BY <1>1, <2>1, <2>4 DEF ThreadsTypeOK
    <2>6. PlaceTyped'
        BY <2>1, <2>2 DEF PlaceTyped, ThreadsTypeOK, Threads, Keys
    <2> QED
        BY <2>5, <2>6
<1>4. CASE RegisterCipher(t)
    <2>1. /\ pc[t] = "register" /\ pc' = [pc EXCEPT ![t] = "find"] /\ table' = TRUE
          /\ UNCHANGED <<build, counter, main, call, ct, at, found, V, buffer>>
        BY <1>4 DEF RegisterCipher, Steps
    <2>2. pc[t] \in Working /\ "find" \in Working /\ "start" \in Working
        BY <2>1 DEF Working
    <2>3. /\ pc' \in [Threads -> {"none", "created", "register", "find", "start",
                                  "encrypt", "unregister", "done"}]
          /\ PlaceTyped'
        BY <2>1, <2>2, MoveTyped
    <2> QED
        BY <2>1, <2>3 DEF ThreadsTypeOK
<1>5. CASE FindCipher(t)
    <2>1. /\ pc[t] = "find" /\ pc' = [pc EXCEPT ![t] = "start"]
          /\ found' = [found EXCEPT ![t] = table]
          /\ UNCHANGED <<build, table, counter, main, call, ct, at, V, buffer>>
        BY <1>5 DEF FindCipher, Steps
    <2>2. pc[t] \in Working /\ "find" \in Working /\ "start" \in Working
        BY <2>1 DEF Working
    <2>3. /\ pc' \in [Threads -> {"none", "created", "register", "find", "start",
                                  "encrypt", "unregister", "done"}]
          /\ PlaceTyped'
        BY <2>1, <2>2, MoveTyped
    <2> QED
        BY <2>1, <2>3 DEF ThreadsTypeOK
<1>6. CASE CtrStart(t)
    <2>1. /\ main' \in {"menu", "join", "joined", "exit"}
          /\ UNCHANGED <<build, table, counter, call, ct, found, V>>
        BY <1>6 DEF CtrStart, ThreadsTypeOK
    <2>2. CASE StoreKey(t, "start", V[t])
        BY <1>2, <2>1, <2>2, StoreTyped DEF ThreadsTypeOK
    <2>3. CASE ~StoreKey(t, "start", V[t])
        <3>1. /\ pc[t] = "start" /\ UNCHANGED <<at, buffer>>
              /\ \/ pc' = [pc EXCEPT ![t] = "encrypt"]
                 \/ pc' = [pc EXCEPT ![t] = "start"]
            BY <1>6, <2>3 DEF CtrStart, Steps
        <3>2. /\ pc' \in [Threads -> {"none", "created", "register", "find", "start",
                                      "encrypt", "unregister", "done"}]
              /\ PlaceTyped'
            BY <1>2, <2>1, <3>1, MoveTyped
        <3> QED
            BY <2>1, <3>1, <3>2 DEF ThreadsTypeOK
    <2> QED
        BY <2>2, <2>3
<1>7. CASE CtrEncrypt(t)
    <2>1. /\ pc[t] = "encrypt" /\ V' = [V EXCEPT ![t] = Encrypted(t)]
          /\ UNCHANGED <<build, table, counter, main, call, ct, found>>
        BY <1>7 DEF CtrEncrypt
    <2>2. at[t] \in Keys(call)
        BY <1>2, <2>1 DEF PlaceTyped
    <2>3. Encrypted(t) \in Streams \cup {Garbage}
        BY <1>2, <2>2, StreamTyped DEF Encrypted
    <2>4. CASE build.cipher = "each"
        <3>1. pc' = [pc EXCEPT ![t] = "unregister"] /\ UNCHANGED <<at, buffer>>
            BY <1>7, <2>4 DEF CtrEncrypt, Steps
        <3>2. /\ pc' \in [Threads -> {"none", "created", "register", "find", "start",
                                      "encrypt", "unregister", "done"}]
              /\ PlaceTyped'
            BY <1>2, <2>1, <3>1, MoveTyped
        <3> QED
            BY <2>1, <2>3, <3>1, <3>2 DEF ThreadsTypeOK
    <2>5. CASE build.cipher # "each"
        <3>1. StoreKey(t, "encrypt", Encrypted(t))
            BY <1>7, <2>5 DEF CtrEncrypt
        <3> QED
            BY <1>2, <2>1, <2>3, <3>1, StoreTyped DEF ThreadsTypeOK
    <2> QED
        BY <2>4, <2>5
<1>8. CASE UnregisterCipher(t)
    <2>1. /\ StoreKey(t, "unregister", V[t]) /\ table' = FALSE
          /\ UNCHANGED <<build, counter, main, call, ct, found, V>>
        BY <1>8 DEF UnregisterCipher
    <2> QED
        BY <1>2, <2>1, StoreTyped DEF ThreadsTypeOK
<1> QED
    BY <1>3, <1>4, <1>5, <1>6, <1>7, <1>8 DEF ThreadStep

LEMMA MainTyped ==
    ASSUME ThreadsTypeOK, PlaceTyped, MainStep \/ FetchData \/ UNCHANGED vars
    PROVE  ThreadsTypeOK' /\ PlaceTyped'
<1>1. ASSUME NEW c \in Calls, StartThreads(c) PROVE ThreadsTypeOK' /\ PlaceTyped'
    BY <1>1 DEF StartThreads, ThreadsTypeOK, PlaceTyped, Working, Threads
<1>2. CASE Join
    BY <1>2 DEF Join, ThreadsTypeOK, PlaceTyped, Keys
<1>3. CASE UseKeys
    <2>1. /\ main' = "menu"
          /\ UNCHANGED <<build, table, call, pc, ct, at, found, V, buffer>>
          /\ counter' = IF call.op = "update"
                        THEN [counter EXCEPT ![call.idx] = counter[call.idx]
                                                           + Increment("reencrypt")]
                        ELSE counter
        BY <1>3 DEF UseKeys
    <2>2. counter' \in [Blocks -> Nat]
        <3>1. CASE call.op = "update"
            <4>1. call.idx \in Blocks
                BY <3>1 DEF ThreadsTypeOK, Calls
            <4>2. counter[call.idx] + Increment("reencrypt") \in Nat
                BY <4>1 DEF ThreadsTypeOK, Increment
            <4> QED
                BY <2>1, <3>1, <4>2 DEF ThreadsTypeOK
        <3> QED
            BY <2>1, <3>1 DEF ThreadsTypeOK
    <2> QED
        BY <2>1, <2>2 DEF ThreadsTypeOK, PlaceTyped, Keys
<1>4. CASE FetchData
    <2>1. /\ pc' = [pc EXCEPT !["fetch"] = "done"]
          /\ UNCHANGED <<build, table, counter, main, call, ct, at, found, V, buffer>>
        BY <1>4 DEF FetchData, Steps
    <2> QED
        BY <2>1 DEF ThreadsTypeOK, PlaceTyped, Threads, KeyThreads, Keys
<1>5. CASE UNCHANGED vars
    BY <1>5 DEF vars, ThreadsTypeOK, PlaceTyped, Keys
<1> QED
    BY <1>1, <1>2, <1>3, <1>4, <1>5 DEF MainStep

(* The buffers of keys, the counters and the places of the threads keep    *)
(* their types, and a thread at work is at a key of its call               *)
(* (precomputeAES_CTR_keys), in every build.  A buffer may hold Garbage:   *)
(* that it does not where it is used is KeysAlwaysRight.                   *)
THEOREM ThreadTypesCorrect == Spec => []ThreadsTypeOK
<1>1. Init => PlaceTyped
    BY DEF Init, PlaceTyped, Working, Threads
<1>2. ThreadsTypeOK /\ PlaceTyped /\ [Next]_vars => ThreadsTypeOK' /\ PlaceTyped'
    BY ThreadTyped, MainTyped DEF Next
<1> QED
    BY <1>1, <1>2, TypedInit, PTL DEF Spec

=============================================================================
