-------------------------- MODULE MCCipherThreads --------------------------
EXTENDS CipherThreads

(* As shipped (AES-NI, blocks), variant II without AES-NI, and the port.   *)
MCBuilds == {[cipher |-> "aesni", blocks |-> TRUE],
             [cipher |-> "each",  blocks |-> FALSE],
             [cipher |-> "once",  blocks |-> TRUE]}

(* Variant III without AES-NI: two threads, each with the cipher table.    *)
MCTwoRegister == {[cipher |-> "each", blocks |-> TRUE]}
=============================================================================
