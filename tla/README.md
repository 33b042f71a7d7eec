# IM-DSSE in TLA+

IM-DSSE (`src/IM-DSSE`) is a dynamic searchable encryption program. A client
keeps tables and counters; a server keeps an encrypted bit matrix with one row
per keyword and one column per file. Searching a keyword opens a row; adding or
deleting a file rewrites the block of columns the file is in, and every block is
encrypted with AES-CTR under a key that depends on the row's counter and with a
nonce that depends on the block's counter. Client, server and matrix are right
only while three kinds of state that live in different places move together: the
two counter arrays of the client, the block counters and the state bits of the
server, and the ciphertexts. This project is about that, and about the three places
where the rest of the program can break it: the files the server cuts the matrix
into, the threads the client computes keys with, and the life of an index from its
build to the next one.

## 1. Inventory

The program is about 5 400 lines of C++ in `src/IM-DSSE`, without tests; `config.h`
selects one of four variants and whether the matrix is in memory or on disk.

| variant | block | who decrypts |
|---|---|---|
| MAIN | 1 column | server |
| I | 128 columns | server |
| II | 1 column | client |
| III (shipped, with `DISK_STORAGE_MODE`) | 128 columns | client |

### Components

| part | state | operations | what makes it correct |
|---|---|---|---|
| `Client_DSSE` (`Client_DSSE.cpp`, `main.cpp`) | `ready`, `keyword_counter_arr`, `block_counter_arr`, `T_W`, `T_F`, free lists, `I_prime`, `block_state_arr`, `row_keys`; its state files | menu: load, build, search, add, delete, save and exit | counters and tables describe the matrix the server has, at every request and after every load |
| `Server_DSSE` (`Server_DSSE.cpp`) | `I`, `block_state_mat`, `block_counter_arr`; on disk storage piece files and the one-row and one-column buffers; its state files | one handler per command, in a loop | each handler leaves matrix, state bits and counters in step; an update leaves its neighbours alone |
| `DSSE` (`DSSE.cpp`) | none of its own | search token, search, add token, delete token, update, getBlock, build, file pieces | what is opened is what was encrypted there last |
| channel (`zmq.hpp`, vendored) | one request or reply | send, blocking receive | every request is answered |
| tables and free lists | `T_W`, `T_F`, `lstFree_row_idx`, `lstFree_column_idx` | look up, `pickRandom_element`, erase | an index has one owner or is free |
| piece files (`DSSE.cpp` 1840-2262) | matrix and state bits in files of rows and columns | load and save a row or a column | a read returns the last write at that place |
| `Miscellaneous.cpp` | state files | write and read arrays, lists, hash tables | reading gives back what was written |
| key derivation (`DSSE_KeyGen.cpp`, `Krawczyk128_KDF.cpp`, `MasterKey.cpp`) | master key | row keys, precomputed AES-CTR keys | different inputs, different keys |
| trapdoors, keyword extraction | none | name to trapdoor, file to words | deterministic |
| precomputation threads | `decrypt_key`, `aes_keys`, `reencrypt_key`; the cipher table of libtomcrypt | created and joined inside one call | the keys a call uses are those of its row, block and counter |
| build and transfer (`Client_DSSE.cpp` 250-498, `Server_DSSE.cpp` 417-494) | the index as files at both ends | build, save, send file by file, load | both ends use the same build; what is saved can be loaded |
| `android_jni/jni/SEU-DSSE` | an older fork of the same classes | the same, and threads that share one registered cipher | as above |

### How they interact

The client opens a REQ socket for each request, sends one command with its data
and blocks in `recv()`; the server's loop takes one request, handles it to the
end and goes on. An update is two requests (fetch the block, send it back), a
load and a save are the client's own files followed by one request. On disk
storage `searchKeyword` answers *before* it writes back the row it re-encrypted
(`Server_DSSE.cpp:608`), so the client runs on while the server saves. With
blocks of several columns `getBlock_data` leaves a byte of state bits in a member
of the server, and the `updateBlock_data` that follows writes it back.

The client of variants II and III starts up to three threads for a call (two that
compute AES streams, one that waits for the server), joins them and uses what they
left. After a build it saves its state, and, on two machines, sends the matrix and
the server's other files one by one, with three requests each; then it has the
server load them. The server's `recv()` does not know who sent what comes next: in
the middle of a file it takes any request for the size or the content.

### What is hard

Counters that move at one end before the other has handled the request; a state
bit that decides between two keys; state bits that share a byte; a member read by
one request and written by the next; a client killed between two requests, whose
request is served after it is gone; a server restarted with initial counters; a
load in the middle of a session; 0 being a valid row and column and `NULL`; empty
free lists; blocks smaller than the byte that has to be written for them; a server
killed between two writes of one request; threads that register and unregister one
cipher; a client killed in the middle of an upload; a second build in one session; a save that
is killed half way, or asked for before there is anything to save. `PROJECT.json` lists each of these at its line, with the properties
that are about it.

## 2. Plan

Most important behaviour first.

1. **Encrypted index** (done): `DSSE`, `Channel`, `Client_DSSE`, `Server_DSSE`,
   composed in `EncryptedIndex`; abstract specification `PlainIndex`; inductive
   invariant in `EncryptedIndexInv`; theorems in `DSSE_theorems`,
   `EncryptedIndex_types`, `EncryptedIndex_proofs`, `EncryptedIndex_exact`.
2. **Names** (done): `Directory`, composed with the above in `IMDSSE`; theorems in
   `IMDSSE_proofs`.
3. **Files of the server** (done): `MatrixFiles`, pieces, offsets, blocks inside a byte,
   `I_update`, a server killed between two writes; abstract specification `BlockArray`;
   theorems in `MatrixFiles_proofs`.
4. **Build and transfer** (done): `Session`, menu 1 as an action, the save and the upload
   file by file, requests left behind by killed clients; theorems in `Session_proofs`.
5. **Cipher table** (done): `CipherThreads`, with the Android port's use of it;
   theorems in `CipherThreads_proofs`.
6. **State files** (left): the formats of `Miscellaneous.cpp`, read back.
7. **Proofs** (done for every safety property of the passing runs). Still wanted: that
   `Server_DSSE`, read as blocks, is `BlockArray`, so that `MatrixFiles` and `EncryptedIndex`
   meet in a theorem and not only in this text.

## 3. Modules

### DSSE

The procedures of class `DSSE` as operators. A ciphertext is a record of row key,
nonce and plaintext (the set of columns whose bit is 1); `Decrypt` with anything
else gives `Noise`, a column no file can have, so that one wrong key shows up in
every result. A key is the pair (row, counter) it is derived from and a nonce the
pair (block, counter), as `genRow_key` and `uchar_counter` put them together.
`SearchResult`, `SearchedRow` and `NewestKey` are `DSSE::search`; `UpdateToken` is
`addToken` (with the rows of the file's keywords) and `delToken` (with none), both
variants; `TokenCol` keeps what `updateBlock` keeps of a column: with precomputed
keys only its place inside the block that was fetched.

### Channel

`req` and `rep` are the one request and the one reply of the running client,
`late` a request a killed client left behind. `Incoming` is the request the server
takes next, `Reply` the end of its handler. The library itself is external: the
module says what the code relies on.

### Client_DSSE

`pc` is where the single thread is; each method is cut at its `recv()`. `menu` is the
menu, `saved` lies between the client's own save and the request that has the
server save, `off` is a process that ended by menu 5 and `halted` one that ended
otherwise. The build is the initial state: built, saved, loaded.

### Server_DSSE

One action per handler, each a whole handler, but for `searchKeyword` on disk
storage: `HandleSearch` ends at the reply, `SaveRow` is the `saveData_to_file` after
it. `I` and `st` are the arrays or, on disk storage, the files; `buf` is
`block_state_mat_update`, `saved` what `saveState` wrote. `Restart` is the constructor
in a new process.

### EncryptedIndex

Client and server together, with rows and columns instead of names: searches,
updates of any column for any set of rows, loads, saves and the surroundings in
`Env`. Its properties are stated there. `Env` is a constant, a set of
- `"reload"`: the saved state is loaded into a running session, or after a session
  that did not end in a save;
- `"crash"`: the client is killed at any point outside a save; its request is served later
  (were it lost, the client might as well have been killed before the call);
- `"torn_save"`: also between its own save and the server's;
- `"restart"`: the server is killed and started again at any point.

### Directory, IMDSSE

`Directory` is the tables and the free lists. The hash maps are read with
`operator[]`, which answers 0 for an unknown name, and the code compares with
`NULL`; the model keeps that. `IMDSSE` puts names in front of `EncryptedIndex`:
`requestBlock_index` before the fetch, `addToken`/`delToken` on the tables before the
block is sent, the lists in the state files, the process that dies on an empty free
list. `docs` and `docsDisk` record what the user stored and are read by properties
only. The menu adds and deletes files under `gcsUpdateFilepath` while the database is
built from `gcsFilepath`, so the user's names and the database's are disjoint.

### MatrixFiles, BlockArray

`MatrixFiles` is below `Server_DSSE`: not whole blocks but bits, in files. `matrix` is the
piece files, `states` the file of state bits, `I_update` and `updBits` the two members that
hold what was read last around a block. A bit of a file holds the number of the write
that encrypted it, so that a bit put in the wrong place, or an old one written back, can
be told apart. The actions are the requests that read (`GetBlock`, `GetRow`), the two that
write (`UpdateBlock`, `SearchKeyword`), which only fill the buffers and leave a piece of `work`
to do, and the writes themselves, in the order of `saveData_to_file`: pieces or rows of the
matrix first (`WriteMatrix`), then rows of state bits (`WriteBits`). `Restart` may come between
any two of them. `geo` is the compiled configuration, and the behaviours range over several.

`BlockArray` is what the files promise: blocks that are read and replaced whole, and a kill
that can leave some blocks of the one column, or of the one row, that was being written at an
older value. The refinement takes a write under way as done (`FinalBit`, `FinalState`), so that a
request is one step of the array and each write of it none.

### CipherThreads

One call of the client with its threads: `StartThreads`, `Join`, `UseKeys` are the main thread,
`BeginKeys` to `UnregisterCipher` a thread that computes keys, one step for each use of the
library's table, `FetchData` the thread that waits for the server. A key stream is the row, block
and counter it was made from; `V`, the local that keeps the last stream, is in the model because
`ctr_encrypt` leaves it alone when it refuses a cipher, and its result is ignored. `build` says
how the code was compiled: with AES-NI, without it, or as the Android port, which registers the
cipher before it starts the threads and has no `isIncremental`.

### Session

The life of an index. An index is the number of its build, and each file, in memory or on
disk, is the build it belongs to, or `Torn`. The client's `pc` says what it waits for; `SaveFile`
is `saveState` a file at a time (the key files, the tables and lists, the counters), `TakeReply`
goes on with the next of `sendFile`'s requests. The server's `stage` is the `recv()` it is in;
`Execute` is the handler if the request is what that `recv()` expects, and `Misread` what happens if
it is not. `Kill` leaves the request the client sent in `inbox`, without anybody to answer.
`Setups` are the installations: on one machine the build writes the server's piece files
directly, and both ends have the *same* `block_counter_arr`.

Menu 5 does not ask whether there is an index, and neither does `Close`. With one, `SaveFile`
follows; without, `SaveNothing`: the key file is emptied before `saveState` reads through
`masterKey`, to which nothing was assigned, and the process dies of that or of the tables, which were
never set up. A client killed in a save may leave the file it was writing `Torn`. `LoadState` may
end the process (`LoadEnds`): there are no files, or `row_keys`, not assigned either, is
deleted. What a load reads of a `Torn` key is not followed further, so `SameBuild` does
not speak of it.

`KilledOutside`, in `Session_proofs`, is the condition on `Setups` under which its theorems hold.
What is inside an index is `EncryptedIndex`'s concern, which starts where `Session` has client
and server at work on one build (`SameBuild`).

### Mutated operators

`X_what` is `X` with one plausible mistake. No behaviour uses it; `PROJECT.json`
says which property fails when it takes the place of `X`.

## 4. Properties

| property | says |
|---|---|
| `TypeOK`, `DirTypeOK` | types; in particular a state byte has `ByteSize` bits and an index exists |
| `KeysAgree` | every block in use is encrypted under the key and nonce that counters and state bits point to |
| `SearchExact` | a search shows exactly the plaintext of its row, and the index says the same after it as before |
| `UpdateExact` | an answered update has changed the one column it was called for, and no other |
| `BufferFresh` | the state byte an update writes back is the one on disk |
| `CiphertextsAdvance` | a ciphertext is only replaced by one with a newer key and the same bits, or a newer nonce: no key and nonce serve two plaintexts |
| `ImplementsPlainIndex` | opened, the index is a plain table with a saved copy (`PlainIndex`) |
| `IndexInv` | the inductive invariant: messages, buffers and files agree with the index too |
| `RequestAnswered` | every call of the client ends |
| `SearchCounts` | the count shown is the number of the user's files with the keyword |
| `PoolsSound` | no index has two owners and none is lost |
| `FreeColumnsEmpty` | a free column is empty on the server |
| `OthersUntouched` | no write changes a bit of a block, or a state bit, that is not the request's |
| `ImplementsBlockArray` | the files are an array of blocks (`BlockArray`) |
| `KeysRight` | the keys a call uses are those of its row, block and counter |
| `CallsGetKeys` | every call's threads end, and with their keys |
| `SameBuild` | at the menu, client and server work with files of one build |
| `DisksSameBuild` | when no client runs, the files on both disks belong to one build, unless menu 5 has overwritten the key; of which moment of that build, it does not say |
| `RequestsServed` | no request is answered as if it were something else |
| `UploadEnds` | a build that began to save comes to the end of its upload, or its client dies; that the index then is at the server is `SameBuild` |
| `FilesTypeOK`, `ThreadsTypeOK`, `SessionTypeOK` | types; in particular no counter falls below 0 and a file that is sent exists |

`ImplementsPlainIndex` maps the table to the plaintexts of the matrix, a pending row
counted as saved, and the copy to the saved matrix, or, on disk storage, to the
table itself: there, every update is permanent and a load changes nothing.

## 5. Runs

`NumRows`, `NumBlocks`, `BlockSize` are the sizes (rows × blocks × columns per block);
`ByteSize` is 2 everywhere, so that two blocks share a byte of state bits and a third
does not. `CounterMax` (C) stands for `ULONG_MAX`, where `searchToken` gives up, and
`UpdateMax` (U) bounds a block's counter, which the code does not: both start at 1.
Deadlock is not checked, since the program stops: after menu 5, when a
counter is used up, when it is killed, and at `UpdateMax`.

| run | variant, storage | sizes | C, U | surroundings | states |
|---|---|---|---|---|---|
| `disk_server_block` | I, disk | 1×2×2 | 3, 4 | none | 239 000 |
| `names_disk_client` | III, disk | 3×2×2 | 2, 3 | restart | 229 000 |
| `names_ram_crash` | I, memory | 3×2×2 | 3, 2 | reload, crash | 524 000 |
| `names_disk_column` | MAIN, disk | 2×3×1 | 3, 3 | none | 96 000 |
| `disk_reload` | MAIN, disk | 2×2×1 | 3, 2 | reload | violation |
| `zero_column` | III, disk | 3×2×2 | 2, 3 | none | violation |

The runs of names check what the index promises (`IndexInv`, `SearchExact`,
`ImplementsPlainIndex`, ...) and what the names promise in one state space.

| run | about | states |
|---|---|---|
| `files` | 8 geometries, 2 rows, 2 to 8 blocks, 2 or 4 bits a byte | 41 000 |
| `files_restart` | blocks of half a byte, with a restart | violation |
| `threads` | AES-NI with blocks; without AES-NI, variant II; the port | 20 000 |
| `threads_unregister` | without AES-NI, variant III | violation |
| `session` | two machines: III disk, I disk, I memory; one: I disk, I memory | 12 000 |
| `upload_killed` | two machines, III disk, a client killed in an upload | violation |

Why these bounds are enough. The key of a block depends on whether the row's counter
is 1 and on the state bit: counter 3 gives a row that was searched twice, with a
block that is one search behind, and 2 or 3 updates of a block one that is fetched, opened
by its state bit and written again, before, between and after the searches. Two blocks share a state byte and show that a search treats each by its own bit;
the three of `names_disk_column` are two that share a byte and one that does not. Two
or three rows (all runs but `disk_server_block`) show that one row's search leaves the other's blocks alone. With names, three
keywords share two or three rows (with two, in `names_disk_column`, a file with the third ends the client), the
two files of the user are interchangeable (the symmetry), and two to four columns let one
be freed and taken by the other file. Variant II differs from III in the block size
only, and that from MAIN in nothing the client-decrypt code looks at; no run is about it,
and the theorems hold for it too.

What they show, run by run, is in `PROJECT.json` under `about`. The runs of names
take row 0 and column 0 out of play (`RowZeroTaken`, `ColZeroTaken`: their owners are a
keyword and a file the user does not name); what happens without that is the next
section.

*Files.* `files` has every relation of block, byte and piece the code distinguishes: a block is
one bit, a proper part of a byte, a byte, several bytes; a piece has one block or more; there is
one piece or two, so that a second file and an offset other than 0 in it both occur. Bytes of 2 and
4 bits in place of 8 keep the remainders and shrink the files. Two or three writes (`MaxWrites`) are an
update after an update of its neighbour, with a search in between. The server may be killed in those
geometries where the code copes with it: blocks of one column, which are read again, and
blocks of whole bytes without state bits. `files_restart` is the smallest of the others.

*Threads.* Three rows and two blocks make a thread compute a second key, which is where an old
stream could be left; one update under way moves the counter, and the next call reads it.

*Session.* Two builds (`MaxBuilds`), in one session or two, with databases that share a word and together
have as many words as `MaxWords`, which the build refuses; one request left behind by a killed client, since
with it a new client is read in the wrong place already. A client may be killed at its menu
and while it waits for a call, a load (with a build on one machine, for the first of its two
loads too) or, on two machines, the answer to its save request. Not in
a save, in which the files at one end already differ, nor after it: from the client's save to
the end of the upload the two disks differ by construction, and on one machine the matrix of the
old build is overwritten before the new key is saved, and a save request left
behind is served over a new build (section 6). What happens to an index that is killed half
way through menu 5, with files of one build but of two moments, cannot be seen in `Session`,
where a file is its build; between the client's save and the server's, `EncryptedIndex` shows it.

The surroundings differ per run because the code copes with different ones. With the
index in memory the client and the server go back to the same save, whatever the
client was doing when it was killed, a left-behind request included. On disk storage the
server does not go back, so no run that passes has `"reload"` there. A restarted
server has block counters of 1; only the variants that decrypt at the client do not
use them, and only disk storage keeps the matrix. `"torn_save"` is in no run.

### Fairness

`FairSpec` asks that the server's loop goes on taking requests and finishing handlers,
that a client whose reply is there takes it, and that a method already begun goes on to
its next request: both processes are scheduled, and the code has no other reason to stay
where it is. Nothing is asked of the user: no fairness on starting a call.
`disk_server_block`, which checks `RequestAnswered`, has no crash and no restart, since `recv()` has no timeout: a client
whose request went down with the server waits for ever.

`CipherThreads` asks that the system runs each thread and that the main thread, once its threads
have ended, goes on; that the server answers is `RequestAnswered`. `Session` asks the same of the
two processes: a client in the middle of a save or with a reply goes on, and the server takes the
next request. Nobody has to start a session, build, or choose from the menu, and nothing
is asked of kills and restarts. A server that has been killed comes up again with no request, but only while
no client runs, for the reason above.

## 6. What the runs found

- **Loading in a running session on disk storage** (`disk_reload`). Menu 0 takes the
  client's counters back to the last save while the server's files stay as they are:
  the next search opens blocks with keys and nonces of the past. The same follows from
  ending a session without menu 5.
- **Column 0** (`zero_column`). A file first given column 0 is given a second column by
  `addToken`; the block written is the one of column 0, at the place of the second, so
  another file's column may be overwritten, and column 0 is lost.
- **Half a byte** (`files_restart`). Before an update of a block of 2 or 4 columns the byte around
  it is not read again: `I_update` is what the client's `getBlock_data` left there. A server
  restarted in between writes zeros over the other blocks of the byte.
- **One table, two threads** (`threads_unregister`). Without AES-NI an update of variant III
  has two threads that register and unregister the same cipher for each key. One can
  take it away between the other's `ctr_start` and `ctr_encrypt`, and the other then stores the stream
  of the row before; or between registration and look-up, and the process exits.
- **Killed in an upload** (`upload_killed`). The server waits for the size of a file; the next
  client's load is taken for it and answered `CMD_OK`, with nothing loaded.

Further failures of the same kinds are not runs of their own. TLC finds each when the constants of
a passing run are changed as follows:

- `RowZeroTaken` FALSE in `names_disk_client`: the keyword that owns row 0 is taken for an unknown
  one, and a search for it reports 0 files (`SearchCounts`).
- A restart in the fifth geometry of `MCGeometries`, blocks of a byte with state bits: the byte of state
  bits is as stale as the half byte above, and the neighbours' bits are cleared (`OthersUntouched`).
- `"reload"`, `"crash"` and `"torn_save"` in `Env` of `MCEncryptedIndex`, MAIN in memory, 2×2×1, C 4, U 2: a client killed between its own save
  and the server's leaves counters of now beside a matrix of the last save; both are loaded, and
  searches are noise (`SearchExact`).
- `"save"` among the kills of a one-machine setup: a second build writes the server's matrix before the
  client saves its key; the old key is loaded for the new matrix (`DisksSameBuild`, then `SameBuild`).
- `"saved"` there, with the index in memory: the save request of the killed client is served while
  the next one builds, and writes the old matrix over the new (the same two).

And one needs no change, only a look at what `DisksSameBuild` does not say: menu 5 chosen right after the
start (`Close`, `SaveNothing`) empties the key file of the index that was saved. Then nothing can be
loaded until the next build.

## 7. Proofs

Every safety property a passing run checks is also a theorem. What follows holds for
every size, variant, storage mode, set of names, list of files and geometry, from the
assumptions the modules name for their constants (`SizesAssumption`, `VariantAssumption`,
`ClientAssumption`, `BuiltAssumption`, `NamesAssumption`, `CipherThreadsAssumption`,
`SessionAssumption`, `MatrixFilesAssumption`: sizes are positive, flags Boolean, sizes
divide each other as the code takes for granted), and from the hypothesis in the third column.

| theorem | property | hypothesis |
|---|---|---|
| `EncryptedIndex_types`: `TypeCorrect` | `TypeOK`, `Protocol` | none |
| `EncryptedIndex_proofs`: `IndexInvariant`, `KeysAlwaysAgree`, `BufferAlwaysFresh` | `IndexInv`, `KeysAgree`, `BufferFresh` | `BenignEnv` |
| `EncryptedIndex_exact`: `SearchesExact`, `UpdatesExact` | `SearchExact`, `UpdateExact` | `BenignEnv` |
| `IndexImplementsPlain` | `ImplementsPlainIndex` | `BenignEnv` |
| `CiphertextsAlwaysAdvance` | `CiphertextsAdvance` | `BenignEnv`, `DiskStorage` |
| `IMDSSE_proofs`: `PoolsStaySound`, `DirTypesCorrect` | `PoolsSound`, `DirTypeOK` | `RowZeroTaken`, `ColZeroTaken` |
| `SearchesCount`, `FreeColumnsStayEmpty`, `NamesSearchExactly`, `NamesKeepIndex` | `SearchCounts`, `FreeColumnsEmpty`, and `SearchExact`, `UpdateExact`, `IndexInv`, `KeysAgree` with names | these and `BenignEnv` |
| `NamesImplementPlain` | `ImplementsPlainIndex` with names | these, and `Built` is every table |
| `CipherThreads_proofs`: `KeysAlwaysRight` | `KeysRight` | `SoundBuilds` |
| `ThreadTypesCorrect` | `ThreadsTypeOK` | none |
| `Session_proofs`: `SessionTypesCorrect`, `AlwaysSameBuild`, `DisksAlwaysSameBuild`, `RequestsAlwaysServed` | `SessionTypeOK`, `SameBuild`, `DisksSameBuild`, `RequestsServed` | `KilledOutside` |
| `MatrixFiles_proofs`: `FilesTypesCorrect`, `OthersAlwaysUntouched`, `FilesImplementBlockArray` | `FilesTypeOK`, `OthersUntouched`, `ImplementsBlockArray` | `SafeRestarts` |

The hypotheses are no assumptions on the constants: the same specifications are checked, and
refuted, outside them (section 6). They are what the code copes with:
`BenignEnv`, no `"torn_save"`, no `"reload"` on disk storage, `"restart"` only on disk storage
with the client decrypting; `RowZeroTaken` and `ColZeroTaken`, row 0 and column 0 belong to names
the user does not touch; `SoundBuilds`, no build has two threads that each register and
unregister the cipher; `KilledOutside`, no client is killed in a save, or from the save of a build to the end of its
upload or, on one machine, while the server has its request to save; `SafeRestarts`, a server that is killed has blocks of one column, or blocks of whole
bytes and no state bits. `NamesImplementPlain` lets the table start as anything a matrix can
be, because the database's matrix is only one of them. `CiphertextsAdvance` is false in memory,
where a load takes the server back to older ciphertexts; and on disk storage `BenignEnv` means that
no client starts again after one that was killed, since it would load counters older than the
matrix and give nonces a second plaintext. What `CiphertextsAlwaysAdvance` covers of a crash is the
request left behind and, where the client decrypts, a restarted server. `ThreadTypesCorrect`
is about types and places only: a buffer may hold `Garbage`, and in unsound builds does.

*Why `KeysAgree` is not inductive.* It says nothing of what is on its way or stored: the
token in a search request was made with a counter that has moved since; the block in an
update was encrypted with the counters of the fetch; the reply to a fetch shows bits and
ciphertexts that must still be the current ones when `addToken` opens them; the row
waiting in `pend`; the files that a load goes back to, with the client's and the server's
written at different moments; a request left behind by a killed client. `IndexInv` has a
conjunct for each (`Protocol`, `RequestFresh`, `AnswerFresh`, `PendingRow`, `SavedAgrees`,
`FilesAgree`, `Loading`), all built from one relation, `Agree`: these ciphertexts with these
state bits are opened by these counters.

*The argument.* `DSSE_theorems` has the types of what the operators return and what
columns a block has. `SearchGood` says that `search` on blocks that agree returns the row's
plaintext and leaves blocks that agree with all bits cleared; `UpdateGood` that `addToken` on a
fetched block that agrees yields one that agrees with the counters after the update, and
`UpdateBits` that it differs by one column;
`StateBits` that writing back a fresh state byte with one bit set changes one bit of the row.
`IndexClient`, `IndexServer` and `IndexRestart` then go through the actions, conjunct by
conjunct, and `IndexInvariant` puts them together with `TypeCorrect`. `UpdateExact` needs one
fact more, `UpdateMeant`: the block on its way to the server is the one the server has, but for
the pending call. It is inductive relative to `IndexInv`, since nothing is served between the
fetch and the update but the row of an earlier search, and saving that leaves the live rows
as they are (`SaveRowLive`).

*The index in the clear.* `IndexInv` is about clients that are in use, and says nothing of what a
killed one left; a refinement has to know what that request will do. `PlainInv` adds, to
`UpdateMeant`: a search left behind opens a row to the same bits, and an update left behind
changes one column of what is there (`OrphanMeant`); a ciphertext has columns of its own block
only, or the update of another could hide them (`CellsPlaced`); and what waits in `pend` is newer
than what it replaces (`PendingNewer`), which is where `CiphertextsAdvance` comes from. Each step is
then mapped to one of `PlainIndex` or to a stutter (`PlainIndexStep`).

*The threads.* `KeysRight` speaks of the joined threads only. What carries it through a thread is
that a prefix of its buffer is right already (`buffer` up to `at`), that `V` is the stream for
`at` when the cipher was there, and that it is there at each step from registration to the
encryption: in the port because the main thread registers before and unregisters after, in
variant II because no other thread touches the table. That the counters do not
move while threads run comes from `Join` waiting for all of them. The types need one fact: a
thread at work is at a key of its call (`PlaceTyped`).

*The tables.* `PoolsSound` as it stands is not inductive: it is about a client that runs, while a
load brings back the tables of the last save, and `delToken` frees the column it looks up, which
must not be column 0. `PoolsInv` therefore says the same (`PoolsGood`) of the tables on disk too,
always; that a keyword the user never names has row 0 and a file of the database column 0, for
good; and that from `requestBlock_index` to the token the file of the call has a column other than
0 (`FetchCall`). `WithFileGood`, `WithKeywordsGood` and `DeletedGood` are the three operations on
one table, `BuiltGood` is the build, and the actions follow from these.

*The names.* `SearchCounts` relates what the user stored, `docs`, to a number on the screen, with
two tables, a matrix and a cipher in between. `DocsInv` says that the plaintext rows are `docs` under
the tables (`Holds`): under those in memory while a client runs, counting an update that is on
its way as done; under those on disk for the matrix the next client finds. `Named` says that every name in
use has an index other than 0, so that two keywords never share a row of the user's; `CallMeant` that the
row a search asks for is its keyword's. With `IndexInv`, `PlainInv` and `PoolsInv` this is `NamesInv`. A step
of the names is one of the index, a search that finds no keyword, or a client that ends for want of
a row or column (`DirIndexStep`), so what is proved of the index carries over.

*Sessions.* `SameBuild` holds at the menu, and is made true a file at a time. `SessionInv` has what is
true in between: what is in the inbox (requests of dead clients that are no part of a file, then
the living one's: `InboxInv`), in which `recv()` the server is for it (`StageInv`), which file is next
(`PlaceInv`), how far the save and the upload are (`ClientBuild`, `ServerBuild`), and that the server's
memory is its disk as long as a request to save can still come, from a client alive or dead
(`MemoryInv`), since such a save writes it back. Once menu 5 has overwritten the key, nothing is
claimed of builds until the next one (the `Torn` in `OneBuild` and `Settled`); what remains is that
one machine's two names of `block_counter_arr` are one file (`SameFile`), on which the next build's save relies.

*The files.* The core is arithmetic. `BlockInBytes`: the bytes that are read for a block
begin at a byte, hold all of the block and end in the row of its piece, whichever of block and
byte divides the other. `ColumnOf`, `ColumnIn` and `RowStart` turn offsets in a piece into rows and columns and back,
so that `UpdateWritten` and `SearchWritten` can say what a write does to each bit. `FilesInv` then says
that what an update will write outside its block is what is in the file already (`UpdateInv`, the same for
its byte of state bits), that a client's block is in the buffers for as long as it may update it
(`ClientInv`), and that a block is the bits of one write (`BlocksWhole`, and `RowWhole` for a row still to be
written). `ClientInv` is where a restart would break it, and why `SafeRestarts` is needed. The refinement
goes from bits to blocks with `ContentIs`; `RestartLoses` is the step in which a kill loses the rest of a request.

*Only model-checked:* liveness, which is out of these provers' reach with the fairness it needs:
`RequestAnswered`, `CallsGetKeys`, `UploadEnds`. The violations of section 6 are TLC's too.

## 8. Not modelled, and what is assumed

- The cipher and the key derivation are ideal: another key or nonce never opens a
  ciphertext, and different inputs give different keys.
- Blocks of 2 and 4 columns are in `MatrixFiles` only; in the other modules a block is a number of
  whole columns, and a handler's file writes happen together.
- The loop that encrypts and writes the pieces of a new matrix. `Session` has the build as one step
  up to the save, `IMDSSE` and `MatrixFiles` start from what it leaves.
- What a client does with a key file that menu 5 has overwritten, and a save that is killed between
  two of its files with an index of the same build on disk.
- Serialisation: what is written to the state files is read back. A file is one step of a save.
- Keyword extraction and trapdoors: a name stands for its trapdoor, a file for its words.
- In `EncryptedIndex` the client's threads are part of the call; `CipherThreads` looks at them.
- On one machine client and server have one file `block_counter_arr` between them. `Session` has that;
  `EncryptedIndex` keeps two copies, which agree whenever both have saved.
- ZeroMQ: requests are taken in the order they were sent; what the server's REP socket does with
  a reply nobody waits for (drop it) and with a `send()` out of turn (throw) is the library's
  documented behaviour.
- libtomcrypt: one use of the table is one step, which its mutex makes so if it was built with
  `LTC_PTHREAD`; without it there are more behaviours. Its source is the copy in
  `android_jni/jni/src`.
- With the search result sent as a file (`SEND_SEARCH_FILE_INDEX`) the same set of
  columns arrives; the model has the set in both builds.
- The Android port but for its threads: an older fork, with file encryption and cloud storage
  around it. Vendored libraries (boost, sparsehash, libtomcrypt, ZeroMQ) are nearly all of the
  repository's lines and are modelled only where `src/IM-DSSE` depends on what they do.
