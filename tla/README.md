# A verification project for the MDS common services

TLA+ models, TLC runs and TLAPS proofs for the code of this repository: the
library `mdsapi` that the applications of a vehicle terminal are linked with,
the monitor daemon `mon` that starts and watches them, and the log daemon `logd`.

## 1. The system

| Part | Source | State it keeps | Operations | Used by |
|---|---|---|---|---|
| Data list | `mdsapi/src/mds_list.c` | head, tail, count and a mutex; nodes on the heap | add, pop, del_all, get_num | threads of one process |
| Per-application shared memory | `mdsapi/src/mds_shm.c` | a System V segment: init flag, a name and a block of data for each application | set, get, get_all (each initialises a fresh segment) | every process, with no lock; a set is announced by the UDP IPC client |
| Global shared memory | `mdsapi/src/mds_shm.c` | one block in a segment | set, which is followed by a notice to every server of one port; get | as above; the servers' handlers get the block when a notice comes |
| UDP IPC server | `mdsapi/src/udp_ipc_server.c` | a table of 20 slots: port, run flag, thread argument | start, end; one thread per server | an application's main thread and the loops; no lock |
| UDP IPC client | `mdsapi/src/udp_ipc_clnt.c` | 10 slots: port, socket | broadcast send, send and receive | `gps_util.c`, `mds_shm.c`, applications |
| Block storage | `mdsapi/src/file.c`, `crc.c` | a file with a CRC at its end, and a `.bak` | save, load | applications that must survive a power cut |
| Logs of limited size | `mdsapi/src/file.c` | a log and, during a call, its `.bak` | write_data_maxsize | `mds_api_poweroff_and_log` of any process, on one file; `debug.c` |
| Monitor | `mon/mon.c`, `mon/launcher.c`, `mdsapi/src/process.c`, `power.c` | the table of programs, retry and zombie counters | start programs, look for them in /proc, start again, power off | one process; the programs run beside it |
| GPIO events | `mdsapi/src/gpio_evt.c` | the table of watched pins, their last level, one thread | start; a poll thread calls a handler | an application |
| GPIO access | `mdsapi/src/gpio.c` | exported pins and their settings in sysfs | export a pin, set its direction and edge, get a descriptor, get and set its level | the thread of GPIO events, applications |
| LEDs, ADC, serial port | `led.c`, `adc.c`, `uart.c` | files of sysfs, a tty | single reads and writes | applications |
| Log daemon | `logd/logd.c`, `logd_clnt.c` | filters; a datagram socket | logd() sends, logd prints | applications |
| Network time | `time_sync.c`, `time.c` | the system clock | ask servers in turn, set the clock | applications |
| AES | `mdsapi/src/aes.c` | the type of key, the round keys and a pointer to the block a chain continues from, all static | init; a block in ECB; encrypt and decrypt a buffer in CBC | `testapp/mds_api_aes_test.c`, applications |
| Base64, strings | `base64.c`, `string.c`, `validation.c` | none | pure functions | applications |

What is hard in this code, and what makes each part correct:

* **Data list.** `add` allocates and `get_num` reads outside the mutex; `pop`
  frees the node before it repairs `tail_list`; `del_all` frees data as well as
  nodes. Correct when it is a queue to its callers, follows no freed node, frees
  nothing twice and never returns with the mutex held.
* **Per-application memory.** No lock at all: initialisation, search, claim of a
  free slot and `strcpy` of a name are separate accesses of several processes,
  and any of them can die in between while the segment lives on. Correct, as far
  as it can be, when callers that take turns see a table, and when overlapping
  calls never leave an application twice in the table or a slot with the raw name nobody
  searches for, and an application whose slot nobody else is after is found. Wiped,
  overwritten and torn slots the code does lose.
* **UDP IPC server.** A thread copies its argument out of the table when it first
  runs, which may be after its slot was given to another server; the flag that
  stops it is looked at every 10 seconds; the first start zeroes the table after
  it has taken a slot. Correct when no port is twice in the table, no index
  leaves it and a stopped server's loop ends.
* **UDP IPC client.** Sockets are kept for later calls, so late answers stay in
  them; a failed send closes the socket. Correct when no descriptor is leaked or
  used after close, no answer crosses ports, and a wait with a timeout ends.
* **Global memory.** A block of any size is copied in and out with no lock, so calls
  overlap and readers get half of a block; a notice tells the servers to read
  again. Correct when a server that has handled what it was told has the block as it is.
* **Block storage.** Killed anywhere, or without power, with results of writes
  ignored. Correct when one good copy is left by every kill, `load` answers only
  what was saved, and recovers from the backup whenever that is good.
* **Logs of limited size.** The log is truncated before what may stay is copied back from
  a `.bak` that another process may overwrite or remove. Correct when a call that is alone keeps
  the newest part and adds its record, whatever was there before, a kill leaves the
  old log somewhere, and overlapping calls end.
* **Monitor.** Counters nested in loops, zombies, scans of /proc that can miss
  a process, an uninitialised result. Correct when a dead program comes back, a
  live one is not started twice, and the power goes off only for the reasons
  the code states.

* **GPIO events.** A pin is exported with a process of its own and may not be there
  when it is set up. A level is sampled, remembered and compared in a thread, while
  the pin goes on changing and a second start rewrites the table under it.
  Correct when, until then, no edge is lost or told twice.
* **LEDs.** A look is up to eight writes, of which a caller may do some. Correct
  when a call does not depend on what it finds, and callers that agree get
  what they ask for.
* **AES.** What a call does depends on statics an earlier one left, one of them a
  pointer into a caller's buffer, and on what a buffer has behind its message.
  Correct when every block is the one of the standard for the key
  and the chain meant, and the other side gets the message back.
* **Base64.** Remainders, padding and four different checks of the buffer. Correct
  when it is the encoding as defined and what is decoded is what was encoded.

The hazards, each with its line and the properties that watch it, are listed in
`PROJECT.json`.

## 2. The modules

| Module | Models | Extends or instantiates |
|---|---|---|
| `MdsQueue` | what the list promises: an atomic FIFO queue with calls and returns | |
| `MdsList` | `mds_list.c`, a step per statement | refines `MdsQueue` |
| `MdsListProofs` | theorems about `MdsList` | `MdsList`, `TLAPS` |
| `AppRegistry` | what the per-application memory promises to callers that take turns | |
| `PerAppShm` | the per-application part of `mds_shm.c`, a step per access to the segment | refines `AppRegistry` when `Serial` |
| `GlobalShm` | the global block of `mds_shm.c`, the notices after a set and the servers they reach | |
| `ShmProofs` | theorems about both parts of the shared memory | `PerAppShm`, `GlobalShm`, `FiniteSetTheorems`, `TLAPS` |
| `UdpIpcServer` | `udp_ipc_server.c`: the table, the main thread and the loops | |
| `UdpIpcClient` | `udp_ipc_clnt.c` with the network and servers around it | |
| `UdpIpcProofs` | theorems about both ends of the UDP IPC | `UdpIpcClient`, `UdpIpcServer`, `FiniteSetTheorems`, `WellFoundedInduction`, `TLAPS` |
| `FileStorage` | save and load of `file.c`, `mds_api_cp`, the CRC, and the disk under them | |
| `LogRotate` | `mds_api_write_data_maxsize` and what it calls, by several processes on one log | |
| `FileProofs` | theorems about both users of the files | `FileStorage`, `LogRotate`, `SequenceTheorems`, `FiniteSetTheorems`, `TLAPS` |
| `GpioEvt`, `MCGpioEvt` | `gpio_evt.c`: start and the poll thread, the part of `gpio.c` it uses, the pins around them | |
| `Led` | `led.c`: the calls as sequences of writes, the kernel's LED class | |
| `PinProofs` | theorems about the pins and the LEDs | `GpioEvt`, `Led`, `TLAPS` |
| `Base64` | `base64.c`, with the definition of the encoding to compare with | |
| `Fips197` | the standard: S-box, rounds and key expansion as FIPS-197 defines them | |
| `Aes` | `aes.c`: its statics, the callers' buffers, a step for each round of a block | `Fips197` |
| `Codec`, `MCCodec` | encrypt, encode, decode and decrypt as `mds_api_aes_test.c` does, and each on its own | `Aes`, `Base64` |
| `AesProofs` | lemmas and theorems about `Aes` and the standard | `Aes`, `WellFoundedInduction`, `TLAPS` |
| `CodecProofs` | theorems about `Base64` and `Codec` | `Codec`, `AesProofs` |
| `Launcher`, `MCLauncher` | `mon`: `start_service`, `prog_start`, `check_prog`, `mds_api_proc_find`, `mds_api_system_fork`, and the programs | |
| `LauncherProofs` | theorems about `Launcher` | `Launcher`, `TLAPS` |

`PerAppShm` and `GlobalShm` are the two parts of one file, `UdpIpcClient` and
`UdpIpcServer` the two ends of one protocol, `FileStorage` and `LogRotate` the two
users of `mds_api_cp` and the files, `GpioEvt` and `Led` those of sysfs; the theorems of each
pair are in one module, so their definitions have names of their own (`Spec` and `GlobalSpec`,
`LoopSpec`, `LogSpec`, `LedSpec`).

How state and actions correspond to the code:

* **MdsList.** `head`, `tail`, `num`, `mutex` are the fields of
  `mds_listInstance`; `next`, `data`, `alloc` are the heap; `pc`, `node`, `op` a
  thread's place, its `new_list` or `free_list`, and its arguments and result.
  `owner` says whether the list, a caller or nobody answers for a datum. `chain`
  and `queue` are history variables: the nodes linked from head, and the data as
  of the last write of `num`, the point where a call takes effect. `get_num`
  reads `num` at any time, which is why that write and no other is the point.
* **PerAppShm.** `strcpy` of a name takes two steps, and a slot whose name is
  being written is `Torn`; two overlapping copies of different names end as
  either name or `Torn` for good. `Crash` stops a process anywhere in a call.
  `memcpy` of the data is one step: its blocks are opaque.
* **GlobalShm.** `memcpy` is a step for each word, in any order, of setters and
  servers alike. `notices` counts what is in the socket of a server and not handled;
  all say the same, so their number is all there is to them. `rest` is whom the broadcast has still to
  reach. `missed` is a history variable: the servers the last change was not told
  to, because a send failed or the setter was killed, and no later one has been.
* **UdpIpcServer.** `main` is the application's main thread inside a start or an
  end; each loop is a thread with its own copy of the argument. `memset` of a
  slot is a step per field. `overrun` stands for an index -1. A null handler is
  the end of the process, which starts again with a zeroed table.
* **UdpIpcClient.** `backlog` holds the requests servers have not handled,
  `inbox` the answers a socket holds. An answer is represented by the port it is
  from, which is what the property tells apart.
* **FileStorage.** A file is the sequence of its blocks, the last one the CRC.
  `dirty` says the kernel has not written a file back; `PowerFails` turns a
  dirty file into any prefix of itself with any blocks zero, or into none.
  `spoiled` and `fault` record that something was damaged or failed, for the
  properties that hold only without. The CRC of zeroes is zero, as the code
  computes it; otherwise different blocks are taken to have different CRCs. `CpCopyFails` is
  a read or write of a copy that fails, or the closing of its target when all is written.
* **LogRotate.** A file is the sequence of its units; every `open`, `read`, `write` and
  `unlink` is a step. The log keeps its i-node; the `.bak` is the number of the
  i-node its name leads to, as others may have it open when it is removed. Each writer
  has its own positions, so a file it writes may have holes. `calm` and `old` are
  history variables: whether the last call was alone and its writes succeeded, and the log as it found it.
  A new i-node gets the lowest free number, as nothing depends on it.
* **Launcher.** `run[p]` is the number of live processes of the name of program
  p, `zombie[p]` a dead child of mon, `stray[p]` a zombie of another parent. A
  scan of /proc is one step. It can be cut short, because `_mds_api_proc_find`
  returns "not found" when a `stat` file cannot be read to the end. The result
  of starting a deamon is 0 or -1, as `status` is not assigned. The counters
  are the code's, with smaller limits given as constants.

* **GpioEvt.** `gpio_info`, `gpio_last_val`, `gpio_mgr_cnt` are `gpio_mgr`; `app`
  is the row a start is at, `at` and `i` the thread. `ready` are the descriptors
  with an edge that has not been read; one that was never read is ready, which
  is what sysfs does. `asked` are the pins an export was asked for, `exported` those
  that are there, `armed` those whose direction and edge were set; what is set
  on a pin that is not there yet is lost, as the code ignores the result. A cell of
  `gpio_fd` never written is `RawFd`: poll and read
  on it may do anything. `told` is what the application knows of a pin.
* **Led.** `todo` holds the writes a call has still to make, so a call is the
  sequence of writes the code makes and one action does a write. `Effect` is the
  kernel: brightness 0 removes the trigger, removing a trigger switches off, the
  delay files exist only while the trigger is `timer`. `agreed` is a history
  variable.

* **Base64.** Bytes are numbers, masks and shifts are division and remainder, the
  table is the code's. A step takes a character; `tmp` and `out` are the code's,
  `result` is -1 for a buffer that is too small.
* **Aes.** `AES_type`, `RoundKey` and `Iv` are the statics; `Iv` is a buffer and a
  block of it, so writing the buffer changes what a later call continues from.
  `mem` holds the buffers. A step is the start of a block, a round, or
  the end of a call. `ref` is the block as the standard transforms it, `prev` the block
  the standard chains to; `keyed`, `kept`, `made` and `whole` say under which conditions
  the two must agree. That a call without a key or an iv comes after one that gave them, for the type
  now set, is the caller's part (`Begin`): the code does not look. So is that a text is decrypted into another
  buffer than its own; in place, `Iv` would point to the block just written over. The fill is below 128: `init_data`
  is a `char`, and where that is signed a larger one is never equal to the byte it became (aes.c:692). `Aes` has the tables and the products of the code; `Fips197` computes
  the S-box in the field it is defined by and multiplies by a matrix, so that nothing is compared with itself.

Definitions whose name says what they get wrong (`LockWithoutWaiting`,
`FindStopsAtNull`, ...) are mutants, marked so by their comment: no action of
the specification uses them. Each replaces one definition to show that the property named
with it in `PROJECT.json` would notice.

## 3. What TLC checks

| Run | What it shows | Bounds |
|---|---|---|
| `mds_list` | the list keeps its promises under every interleaving, and implements `MdsQueue` | 2 threads, 2 nodes, 2 data |
| `shm_races` | what survives unlocked calls and crashes | 2 applications, 2 slots, 1 value; the `app_id` of a caller is another's name |
| `shm_serial` | callers that take turns see `AppRegistry`, a full table included | 3 applications, 2 slots, 2 values |
| `udp_server` | the table stays consistent and stopped loops end | 2 ports, 2 slots, 2 threads at a time |
| `udp_client` | sockets, answers and timeouts | 2 ports, 2 slots, 2 descriptors, 2 servers, 2 datagrams per queue |
| `storage` | kills, power failures and failing writes | 2 values, 2 data blocks |
| `launcher` | starting, watching, powering off | 3 programs, 2 processes of a name, 3 polls of 2 scans, 2 zombies |
| `gpio` | the first table's edges are all reported, once, while pins change and a second start comes | 2 pins, 2 rows, 4 lists, 2 starts |
| `led` | overlapping calls that agree, and calls after killed ones | 2 applications, 2 delays |
| `codec` | AES and Base64 agree with their standards and give messages back, alone and together | sources of 4 bytes of 5 values, texts of 5 characters of 5 kinds, buffers to 9; 3 calls of AES, 3 types of key, messages of 5, 16 and 21 bytes |
| `log_rotate` | what a call makes of the log, what survives a kill, and that calls which lengthen what each other reads end | 2 writers, 2 units kept, records and reads of 1, 1 unit on the disk at a kill beside another call |
| `global_shm` | servers that were told have the block as it is | 2 setters, 1 server, 2 words, 2 values, sockets of 2 notices |

Why the bounds are enough. In the list two threads suffice for a thread to be at
every place while the other runs a whole call, and two nodes for a queue that is
empty, has one node (head = tail) or two, with an address reused after its free.
Two applications and two slots give a slot that is free, claimed, torn or full;
`shm_serial` has one application more than slots. In the server two slots make an
ended server's slot be taken by another while its loop still runs; two threads at
a time are an old loop and a new one. In the client two servers and queues of
two give an answer that is late and one that is double. Two blocks let a
file be cut between its data and zeroed in part. The launcher has
one program of each kind: missing, a deamon that must keep a number of
processes, and a foreground program mon waits for; `MaxCut` is one below `ChkCnt`, the most for
which `ReforkOnlyDead` can hold. Two pins are the least for which one can keep the
thread from the other; the lists of `gpio` have every kind of edge, a level that is right or
wrong, both orders of the pins and an empty list. The LED pairs do not touch each
other, so one pair is enough. Four bytes are a group and a remainder of one, three and two the other
remainders, five characters likewise; the five bytes and characters have bits set and clear at every mask.
The messages of `codec` are shorter than a block, a block, and more than one; its third call is the one that
needs two before it, a chain that continues over a buffer written since. Two writers make every
overlap of two calls of the log, which begin whenever they like; a call has one failing write, and none
in company. A writer that is alone can be killed anywhere and any number of times. Beside a call that goes on it is killed only while the log and the `.bak` hold no more than a unit (`MaxLeft`),
as each such kill can leave the files longer for the next; elsewhere a call that stops for good while the other goes on is one that is scheduled
again late, and can be killed once it is alone. With these bounds
one call copies from the log to the `.bak` while the other copies from that `.bak` to the log, each reading what the other has just written, in files longer
than the limit. Records are shorter than the limit; longer ones are covered only by the theorems on `LoneCallAppends` and `OldLogSurvives`. Two
words are half a block; two notices fill a socket while one is handled.

Fairness. `mds_list`: every thread that can run is scheduled (weak fairness); the
mutex is not taken to be fair, so a thread may wait at a lock for ever.
`udp_server`: threads are scheduled, and `recvfrom` ends by its own timeout of
10 s. `udp_client`: the process is scheduled and a socket with SO_RCVTIMEO times
out; nothing is assumed of network and servers. `launcher`: mon is scheduled, a
program it waits for ends, and fork does not fail for ever. `gpio`: the poll thread is
scheduled, and signals do not end every poll (strong fairness of `PollAnswers`). `log_rotate`: each
process is scheduled; no write has to succeed, and nobody has to begin. The other runs assume
none. Deadlock is checked except in `udp_client`, where a request on a socket
without timeout may wait for ever, in `launcher`, where mon stops when it has switched
the power off or has exited, and in `codec`, where a program ends.

The types are an invariant of `mds_list`, `udp_server` and `udp_client`; the
other properties are about what could go wrong.

Where code and documentation disagree. The models follow the code, and do not
claim what these say; each is under "findings" in `PROJECT.json`, with the lines.

* The manual's promise that ending a server ends its thread: the flag is per slot
  and the slot is free at once. `end(p)`, `start(q)` within
  the ten seconds of a `recvfrom` and p's loop sees a set flag again. `StoppedLoopEnds` is
  what remains true.
* The message and exit of `prog_start` meant for "all retries failed" happen
  when the last retry has worked.
* "If iv is passed as 0, we continue to encrypt": `Iv` is a pointer to the last
  block of the output, and a caller that has used the buffer since continues from something else
  (`kept` of `Aes`).
* A pin is set up before its export is done, and is then never watched (`armed` of `GpioEvt`).
* A process that finds the `.bak` removed gives a null pointer to `fclose` (`BakGone` of `LogRotate`).

Read the positive results with their conditions. `shm_races` shows what survives, and that
is little: an application can still lose the slot it has just claimed to one
that saw the same free slot, have its name wiped by a late initialiser, or find its slot torn by a crash or by another's `strcpy`. None of the
properties denies that: `UniqueName` and `NoRawSlot` say that even then no name is twice in the table and no
slot has the raw name, `ClaimsOnlyIfAbsent` that a claim is made only by who has no slot. `SettledIsFound` is the positive one: it names the
moment from which a registration is safe, when nobody is initialising and nobody else has taken the slot for free, and
says that it lasts, whatever the others search for, claim, publish and die of, and that who looks it up finds it. `OneGoodCopy` speaks of kills only, and until a save begins on a damaged file: a power
failure can take both copies, since nothing is synced. `AnswerFromAskedPort` says
the answer is from the right port, not that it answers this request: late answers
are delivered to later requests. `NoOverrun` needs no more ports than slots.
`ReforkOnlyDead` needs fewer scans cut short than there are polls. The properties of
`gpio` on events hold until a second start: after it the thread polls the
descriptors of the old table for the new pins. They are for lists that name a pin
once, and for pins that are there when they are set up. `AgreedIsShown` says nothing of
callers that disagree, which can leave a
mixture of colours nobody asked for. `LoneCallAppends` and `OldLogSurvives` are about a call nobody joins:
two that overlap can leave neither the old log nor a record. `ListenersUpToDate` says
nothing of a server that missed the last notice, nor of what a reader has while one is on its way. The properties
of `codec` are for calls that have a key and a chain: `EncryptsAsDefined` asks that nothing wrote over the block `Iv`
points to (`kept`), `DecryptsBack` and `MessageComesBack` that what is decrypted is what
was made, whole.

## 4. What is proved

`MdsListProofs` proves for every set of threads, nodes and data, from the
assumption of `MdsList` that `NULL` is none of them:

* `Invariant`: `Spec => []IInv`, the inductive invariant. `TypeOK` and the three
  properties below are not inductive: whether `pop_free` may free its node depends on what
  the holder of the mutex has done so far. `IInv` adds to the types who holds the
  mutex (at most one thread is at a place between lock and unlock, and it is
  `mutex`), which nodes belong to whom (the chain, the fresh node of an
  `add`, the unlinked node of a `pop` or `del_all` are disjoint and allocated), and
  for each place between lock and unlock what is broken for the moment:
  `chain` against `queue`, `tail` or `num`. Its parts are `TypeOK`, `MutexInv`,
  `CallInv`, `HandInv`, `ShapeInv` and `ContentInv`.
* `TypeCorrect`, `NoDangling`, `QuietList`: the properties of the run, for any
  number of threads, nodes and data.
* `ListImplementsQueue`: every step of the list is a step of the queue or
  leaves it as it is, so the list implements `MdsQueue`.
* `FreesItsOwn`: `NoDoubleFree`. `OwnInv` says
  who answers for a datum: one that is linked, or that an `add` still brings, is the list's and is
  there once; one that a `pop` has taken is that call's. What `del_all` frees is the head of the chain under the mutex.

`UdpIpcProofs` proves of the server, for every set of ports and threads and every size of
the table, whether or not calls can fail, from the assumptions of `UdpIpcServer`
(the table has a slot, `NoPort` is no port):

* `LoopInvariant`: `LoopIInv` is `LoopTypes` (with the shape of `main` spelt out) and
  `UniquePort`. `GetIdxCases` is the lemma it rests on: `_get_thread_idx` answers
  a slot that has the port, else a free one when none has it, else -1 when none is free.
* `LoopTypeCorrect`, `OneSlotPerPort`: the properties of the run.
* `IndexInTable`: `NoOverrun`, for a finite set of ports. A search that fails
  finds a table full of other ports; by `UniquePort` they are distinct, so there
  are more ports than slots.

and of the client, for every set of ports, descriptors, servers and time
outs and every size of the table, from the assumptions of `UdpIpcClient` (ports and
descriptors are positive numbers, the table has a slot):

* `Invariant`: `Spec => []IInv`, where `IInv` is `Types`, `SocketsAccounted` and
  `OwnSocket`. `SocketsAccounted` is not inductive: when a send fails the code closes
  the call's descriptor and marks closed the slot `_get_sock_idx` finds *then*, so
  the two must be the same one. `OwnSocket` says so.
* `SockIdxSlot` and `SockIdxStays`, the lemmas on `_get_sock_idx`: it answers a
  slot of the table and, asked again after it has written the port there, the same
  slot, also when the table is full and ports share slot 0.
* `TypeCorrect` and `NoSocketLost`: the properties of the run, for any constants.
* `AnswersOfPort`: `AnswerFromAskedPort`, for a finite set of ports. Its invariant `AInv` says of every
  request and answer under way that it is of the port of the slot that has the socket, and that
  a socket that was closed holds none. A port keeps its slot because, by the same pigeonhole argument as for
  the server, there is a free slot for every port that has none.

`ShmProofs` proves of the per-application part, for every number of applications, slots and
values, with crashes and without turns, from the assumptions of `PerAppShm` (there is a slot, no application is
called like one of the special names, no value is taken for none):

* `Invariant`: `Spec => []IInv`: the types, `UniqueName`, `NoRawSlot`, and for each caller what its
  loop has established although others write the table: `Absent`, the slots a search has
  passed do not have the caller's name, up to the claim and its `strcpy`; and `Named`, the slots an
  initialiser has passed have a name. The first holds for a reason of the whole system: nobody else writes that
  name, and an initialiser only makes names fewer (`NamesMove`, proved once for every step).
* `NameOnce`, `EverySlotNamed`, `OneClaim`: `UniqueName`, `NoRawSlot`, `ClaimsOnlyIfAbsent`.
* `SettledFound`: `SettledIsFound`. Its invariant `Sure` is not about the table alone: every lookup under way will find the name (`WillFind`), as it has not
  passed the slot. `SettledKeepsSlot` says why the slot cannot change: it is written by initialisers, and by who claims it, and whoever comes to claim a slot has
  seen it free; `Absent` excludes that the application itself claims another. `LookupKeeps` follows a lookup through all its steps.
* `TurnsAreAtomic`: `ImplementsRegistry`, the refinement of `shm_serial`: when callers take turns and none
  is killed, every call is one step of `AppRegistry`, and every other step leaves the table as it is. `SInv` adds to `IInv`
  that one caller at most is in a call (`Lone`), that a named slot has data and none is torn but the one a `strcpy` is in (`Memory`), and for
  each place of a call what it has found out (`Place`) and copied (`Copies`). A set takes effect with its `memcpy`, or its `strcpy`
  when the slot is new, get and get_all with their last read; `StepGood` is the case for each step. A full table needs counting: a search that
  finds no slot has passed as many different names as there are slots.

and of the global block, for every set of setters, servers, words and values and every
size of the sockets, from the assumptions of `GlobalShm` (a socket has room for a notice,
no thread is both setter and server):

* `GlobalInvariant`: `GlobalSpec => []GlobalIInv`. `ListenersUpToDate` is about a server at rest; its
  strengthening `ReadIsCurrent` says of one at any place that the words it has read since
  its last notice are as they are in the segment, unless it will be told again. `TellsAfterwards` is
  why that is kept when a word is set: a setter that still copies has told nobody, so it will tell
  all; `IdleHasNothingLeft` is why a server at rest has read everything.
* `UpToDate`: `ListenersUpToDate`, the property of the run.

`FileProofs` proves of the storage, for every set of values and every number of blocks, from the assumptions of
`FileStorage` (a value has a block, zeroes are no value, no CRC is taken for data):

* `Invariant`: `Spec => []FInv`. `Safe` is what a file looks like whatever befell it (`FileShape`: a last block is the CRC
  of something saved, or zero), and how far a copy or a save has got (`Written`). `Loading` says
  why a load gives up and that it copies only over a file that is not good; `Keeping` which of the two
  files is the good one at each place.
* `GoodIsSaved`: a good file of that shape is the data of one save, or zeroes.
* `KeepsOne`, `AnswersSaved`, `Recovers`, `KeepsGood`: the four properties of `storage`.

and of the log, for every finite set of writers, every size of log, record and read, from the
assumptions of `LogRotate` (the sizes are positive, a missing file is told from an empty one):

* `LogInvariant`: `LogSpec => []LogIInv`. `Shape` is what holds however calls overlap: the types, who has a file open, and
  that the log is there once it was made. `CalmInv` is about a call that nobody joined: `Saving` says how much of
  the old log is in the `.bak`, `Restoring` how much of its newest part is back in the log, `Left` that a call that was killed
  left the old log in one of the two. A `.bak` that an earlier, killed or failed call left behind is
  harmless, as opening it truncates it.
* `LoneCallKeeps`, `OldLogKept`: `LoneCallAppends` and `OldLogSurvives`, the two safety properties of `log_rotate`.

`PinProofs` proves of the events, for every set of pins, every list and size of the table, and any number of starts, from the assumptions of
`GpioEvt` (a list fits in the table, the marks are no pins):

* `Invariant`: `Spec => []IInv`: the types, the thread inside the table whatever a start does to it (`Inside`), and until
  the second start: a descriptor not yet read is ready (`Unread`), and what the thread knows of an armed
  pin, in the table or on its way there, is its level unless there is an edge to read (`UpToDate`).
* `EveryEdgeSeen`: `NoEdgeLost`.
* `EveryReportIsNews`: `ReportIsNews`, for lists that watch no pin twice (`PinsDiffer`). With two rows for one pin it is
  false: the second reports what the first has just told; TLC finds that in a list of two rows.
  The invariant `NInv` says that the application knows of a pin what its row will say once the
  thread and the start have finished with it (`Told`).

and of the LEDs, for every number of applications and all delays:

* `LedInvariant`: `LedSpec => []LedIInv`. `AgreedIsShown` is about LEDs at rest; the invariant is about each LED of the pair while
  calls write it. Of every look all callers of the moment agree on, the writes a call still has to make take away only what they give
  back later (`Fits`), and what the LED lacks of it is among the writes somebody still has to make (`OnTrack`).
  `SteadyServes` and the lemmas on blinking show that the code's sequences of writes are of that kind for each colour.
* `AgreedLook`: `AgreedIsShown`.

`LauncherProofs` proves for every table of programs and every limit, from the assumptions of `Launcher` (the limits
are positive, the sets of programs are of the table):

* `Invariant`: `Spec => []IInv`: the types, the process mon waits for alive (`Waited`), each poll that ended with nothing found
  paid for by a scan cut short, unless the program is dead (`DeadOrCut`), and a count of a process at least for all that were
  looked for in a round that misses none (`Counted`).
* `NoSecondInstance`: `ReforkOnlyDead`, when fewer scans are cut short in a row than there are polls
  (`MaxCut < ChkCnt`); that bound is the condition under which the code is right, and it is sharp.
* `OffForTheFound`: `ShortWasFound`.

`AesProofs` and `CodecProofs` prove for every set of keys, messages, bytes and characters, every fill below 128 and every vector, and every
size of the buffers, sources and texts, from the assumptions of `Aes` (keys, vector, messages and fill are
bytes; a buffer has room for a message, the rest of its last block and one block more) and of `Base64` (a byte is less than 256, the bounds
are numbers). Induction over the data is avoided where a loop can be followed by an
invariant, and otherwise goes over the naturals:

* Bits. Everything of the field is reduced to the bits of an octet (`XorBits`, `XTimeBits`, `SameBits`): `Xor` is a group, `xtime`
  distributes over it, and a product is eight steps of `xtime` (`ProductBits`). Inverses are chosen by the standard, so
  that a table of them is given (`InverseTable`), each entry is multiplied out (`InverseProduct`) and none else is possible
  (`NoZeroDivisor`). With the affine transformation on bits, `SBoxIsStandard` is about each of the 256 entries of the code.
* Rounds. `TableFacts`, `ShiftRowsFacts`, `MixColumnsFacts` and `AddRoundKeyFacts` say of each transformation of `aes.c` that it is
  the standard's and that its inverse undoes it. For `MixColumns` the code computes with `Tmp` and `Tm`, and its inverse with `Multiply`: `MixRow` and
  `InverseRow` are those computations, as sums of five terms bit by bit.
* `KeyExpansionFacts`: `KeyExpansion` is the schedule of the standard for the three types of key, although `RoundKey` keeps the words of a longer key behind
  it. Both schedules are functions by recursion; that such a function exists for every length, and what it has at
  each, goes by `FromOn`, induction for a *set* of numbers, which follows from the well-founded order of the naturals
  (`LeastNat`). The induction theorems of the library, which take an operator, are not used.
* `AesInv`, the inductive invariant of `Aes`. The properties are about a block that is under way or has been written, and are not
  inductive: what a round makes of a state depends on all rounds before it. `Reaches(x, k, r, s)` says that `r` rounds of the
  standard under key `k` lead from block `x` to `s`. `EncInv` says so of the state while a call encrypts; `MadeOK` of every block that was made; `DecInv`
  that a decryption is, at each round, at a block that lies on such a path, one round
  less each time (`ReachBack`), and so comes back to where the path began. `KeyOK` says the round keys are those of the key
  they were made with, whoever made them; `IvInv` where `Iv` may point, and that the block of the chain is still there
  as long as nobody gave that buffer to a call again (`kept`). `MessageKept` is why the length a padded call returns is that of the message.
  Every action has a lemma (`StartBlockKeeps`, `RoundKeeps`, `EncryptLastKeeps`, `DecryptLastKeeps`, `EndKeeps`, ...).
* `B64Inv`, that of `Base64`: what a call has written begins the result (`Begins`) and consists of whole groups of what it has taken
  (`EncodeGood`, `DecodeGood`), until the rest completes it. `SextetsOfThree` and `OctetsOfFour` compare the shifts and
  masks of a group with `Regrouped`, the definition by bits, and `DecodedOfEncoded` says of the definitions alone that they
  are inverse.
* `InvariantHolds`: `Spec => []IInv` for `Codec`, where `IInv` is `B64Inv`, `AesInv` and `CodecInv`, that a text under way is
  that of a cipher; and for the six properties of `codec` `EncryptionIsAsDefined`, `DecryptionGivesBack`, `MessageIsBack`, `EncodingIsAsDefined`,
  `DecodingIsAsDefined`, `TextGoesRoundTrip`.

`IInv` itself is not a property of a run, as TLC cannot enumerate the paths of `Reaches`; the properties it implies are.

Every safety and action property of the runs is thereby a theorem. Only model-checked is liveness (`MutexIsReleased`, `StoppedLoopEnds`,
`TimedWaitEnds`, `DeadComesBack`, `ChangeIsTold`, `CallEnds`): the prover handles neither fairness nor ENABLED.

## 5. Not modelled

* Formatting, printing and log text; the bytes of messages and data.
* The ini file's content: its programs are constants. A failed reading is an
  action; mon exits after three.
* The branch of `_mds_api_proc_find` that kills the parent of a zombie: the
  counter it tests is never changed in `process.c`.
* `gpio.c`: getting and setting a level, one read or write with no state kept.
* `logd`: a filter of datagrams without memory; its client keeps one socket it opens once.
* `uart.c`: settings of a tty and reads with a timeout, whose hard part is the timing of bytes.
* `time_sync.c`, `gps_util.c`: a loop over servers and requests over the UDP IPC client, with no state of
  their own. The end of the first loop is wrong (findings).
* `string.c`, `validation.c`, `time.c`: pure functions of one buffer, within the reach of unit tests.
  `nettools.c`, `adc.c`, `proc.c`, `debug.c`, `stackdump.c`: single system calls.
* `udp_ipc_data_recv_timeout`: a socket of its own, no shared state.
* Running out of memory, of mappings of the segment, and null buffers that are refused at once.

## 6. Plan

In order of weight:

1. `GlobalShm` with the sockets of `UdpIpcClient` and the loops of `UdpIpcServer` in place of its notices:
   a server that ends or starts between a set and its notice.
2. `TimeSync`, `Uart`, `LogdClnt`, as their state allows.
