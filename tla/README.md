# TLA+ models of Projeto_SO (mbroker)

Projeto_SO is a publish/subscribe message broker in C. Clients (publishers,
subscribers, managers) send fixed-size requests to a named pipe; the broker's
main thread puts each request on a blocking queue, a pool of worker threads
takes them off, opens the client's own session pipe and serves the session.
Message boxes are files of TecnicoFS, an in-memory file system inside the broker.

All source paths below are relative to `src/projeto-so-2022-23-main/`.

## Inventory

| Component | Source | State | Operations |
|---|---|---|---|
| Producer-consumer queue | `producer-consumer/producer-consumer.c` | size counter, head and tail index, slots, five mutexes, two condition variables | `pcq_create`, `pcq_enqueue`, `pcq_dequeue`, `pcq_destroy` |
| TecnicoFS operations | `fs/operations.c` | `g_library_mutex` | `tfs_init`, `tfs_open`, `tfs_close`, `tfs_write`, `tfs_read`, `tfs_unlink`, `tfs_destroy` |
| TecnicoFS state | `fs/state.c` | inode table, block contents, block and inode free maps, root directory block, open file table | `inode_*`, `data_block_*`, `*_dir_entry`, `find_in_dir`, `*_open_file_table` |
| Broker main thread | `mbroker/mbroker.c` 409-574 | server pipe, the request buffer, `args` | read 289 bytes, `pcq_enqueue`, repeat |
| Worker threads | `mbroker/mbroker.c` 327-407 | dequeued request, session pipe descriptor | dequeue, open session pipe, dispatch on the opcode |
| Session bodies | `mbroker/mbroker.c` 16-325 | box counters, file handle, session pipe | `publisher`, `subscriber`, `create_box`, `remove_box`, `list_box`, `box_answer` |
| Box list | `utils/common.c` | linked list of boxes, `head` passed by value | `getBox`, `insertBox`, `insertionSort`, `deleteBox`, `destroy_list` |
| Publisher client | `publisher/pub.c` | its session pipe | register, send messages |
| Subscriber client | `subscriber/sub.c` | its session pipe | register, print messages |
| Manager client | `manager/manager.c` | its session pipe | create, remove, list |

### How the components interact

- Clients and broker share only named pipes: one server pipe (requests) and one
  session pipe per client. Opening a pipe for one direction blocks until somebody
  opens the other.
- The main thread is the only producer of the queue; the workers are its
  consumers. They share it, TecnicoFS and one `thread_args` record.
- Workers share boxes (the list and its counters, with no mutex) and TecnicoFS
  (serialised by `g_library_mutex`).

### What is hard, and what makes each component correct

- **Queue.** Three mutexes guard the counter, the head and the tail separately;
  signals are sent with no mutex held; a slot is stored after it was counted and
  loaded after it was discounted. Correct means: the counter stays in range, no
  wakeup is lost, every call that can complete does, the two indexes agree with
  the counter whatever the interleaving, no element is freed twice, and elements
  come out in the order they went in. The last does not hold (finding below).
- **TecnicoFS.** Each operation runs under one mutex, so what is hard is the
  order of operations of different sessions, and the failures in the middle of an
  operation. Correct means: directory and inode table agree, no block has two
  owners or none, no operation aborts the broker, and callers see byte
  sequences with offsets.
- **Broker, workers, sessions, clients.** Blocking opens that may wait for each
  other, workers that exit, requests left over from an earlier life of a client,
  partial failures between the file system and the box list. Correct means: a
  worker is always free again after a session that ended, an answer tells what
  happened, and every client is eventually answered.
- **Box list.** A `head` passed by value and strings compared by pointer: correct
  means a list without duplicates that contains the boxes created and not removed.
- **Framing.** Requests of different lengths read in units of one length:
  correct means every read returns one request.

The places where each of these can go wrong are listed, with the properties that
would show it, under `hazards` in `PROJECT.json`.

## Modules

| Module | What it is |
|---|---|
| `PcQueue.tla` | the queue, one action per step another thread can observe |
| `BlockingBuffer.tla` | what the queue promises about blocking: a counter that admits callers |
| `SlotRing.tla` | what the queue is to its callers with locks and sleeping hidden: a counter, and slots reached later, one step each |
| `PcQueueProofs.tla` | theorems about `PcQueue`: types and wakeups |
| `PcQueueRingProofs.tla` | theorems about its counter, indexes, elements and contents |
| `PcQueueContractProofs.tla` | the theorems that it implements the safety part of `BlockingBuffer`, and `SlotRing` |
| `MCPcQueue.tla` | TLC instance of `PcQueue` |
| `TecnicoFS.tla` | the file system, one action per `tfs_*` operation |
| `FileStore.tla` | what the file system promises: named byte sequences and handles |
| `MCTecnicoFS.tla` | TLC instance of `TecnicoFS` |
| `TecnicoFSProofs.tla` | theorems about `TecnicoFS`: types, directory, blocks, aborts, stale handles |
| `TecnicoFSContractProofs.tla` | the theorem that it implements `FileStore`, and what calls leave alone in every order of calls |
| `Broker.tla` | main thread, workers, session pipes and clients, over the queue and the file system reduced to what they show |
| `BrokerProofs.tla` | theorems about `Broker`: types, descriptors, where requests end, listings, the ring's first lap, its use of the queue |
| `BrokerServiceProofs.tla` | theorems about what clients are given: lost workers, crashes, whom workers wait for, forgotten clients, and that it implements `BoxService` |
| `BoxService.tla` | what the broker promises managers that create and remove boxes |
| `MCBroker.tla` | TLC instance of `Broker` |
| `Clients.tla` | a publisher and a subscriber of one box once their sessions are open, with the workers in `publisher()` and `subscriber()` between them |
| `ClientsProofs.tla` | theorems about `Clients` |

### PcQueue and the code

| Action | Code |
|---|---|
| `EnqCall` | entry, `calloc` and `memcpy` of the element (`pcq_enqueue`) |
| `EnqLockSize`, `EnqWait`, `EnqReserve` | lock, `while (size == capacity) wait`, `size++`, unlock |
| `EnqLockHead`, `EnqFreeOld`, `EnqStore` | lock head, `free` of the slot, store and advance, unlock |
| `EnqSignal` | `pthread_cond_signal` of the poppers, return |
| `DeqCall`, `DeqLockSize`, `DeqWait`, `DeqTake` | entry, lock, `while (size == 0) wait`, `size--`, unlock |
| `DeqLockTail`, `DeqLoad`, `DeqSignal` | lock tail, load and advance, unlock, signal the pushers |
| `SpuriousWakeup` | a return of `pthread_cond_wait` with no signal |

Every step is cut where another thread can see a difference: where a mutex is
taken, where a thread sleeps, at the free, the store and the load (a load of a
slot is not excluded by the head mutex, nor a store by the tail mutex), and at the
signal. Slots nobody stored into are `NULL`: the array is not initialised by
`pcq_create`, and fresh heap memory reads as zero. `stored` and `taken` are
history variables; no action reads them. `elem` names the element of the call
going on. Elements are numbered by allocation, which is all the properties tell
apart.

The return codes of the pthread calls are compared with -1, which none of them
returns, so those branches are never taken and are left out.

### TecnicoFS and the code

`g_library_mutex` is held from the first line of each operation to its last,
so one operation is one step. The directory's block is kept as a variable
`dir_entry` of its own (block 0 is never free and no file's block);
`open_file_table` is a function whose domain is the `TAKEN` handles. Arithmetic
in `size_t` wraps modulo `SizeModulus`. A read whose length wrapped copies bytes
from after the block: those of the following blocks while they last, then any
byte, or the process ends (`Abort`). `reply` is the return value and what a
read copied; no action reads it.

`Spec` allows every order of calls, with valid, closed and invalid handles.
`DisciplinedSpec` leaves out the steps after which an open handle refers to a
deleted file or lies past its end; it is the usage under which `FileStore` is
promised.

### Broker and the code

| Action | Code |
|---|---|
| `Start`, `Register`, `OpenSession` | the `main` of `manager.c`, `pub.c` and `sub.c` up to the open of the session pipe, with `box_request`, `list_box_request`, `register_pub` and `register_sub` |
| `ReadAnswer`, `ReadListing`, `EndOfFile` | the rest of `box_request`, `list_box_request` and `read_message` |
| `Kill` | a client process that dies; its pipe stays in the file system |
| `ReadRequest` | one `read` of 289 bytes from the server pipe |
| `EnqReserve`, `EnqFreeOld`, `EnqStore`, `DeqTake`, `DeqLoad` | `pcq_enqueue` and `pcq_dequeue`, cut between counting, freeing and storing, and between discounting and loading |
| `CopyRequest` | the copies of opcode and pipe name out of the element |
| `LookUp`, `Opened` | `open(session_pipe_name, O_WRONLY)`: finding the pipe, then waiting for a reader |
| `CreateOpen`, `CreateClose` | `create_box`: `tfs_open`, then `tfs_close` and `insertBox` |
| `RemoveBox`, `ListBox`, `NotServed` | `remove_box`, `list_box`, `publisher` and `subscriber` as far as they get, and a code that is none of the five |
| `InsertBox`, `Listed`, `DeleteBox` (operators) | `insertBox` and `deleteBox`, as far as the callers' `head` can show |
| `Answer` | the `write` of `box_answer` or `list_box`, and the end of the request |

What is kept of the components it uses: of the queue, the counter, the indexes and
the slots, whose mutexes and condition variables are `PcQueue`'s business; of
TecnicoFS, the set of file names and the handle that `create_box` holds.

That this is the queue `PcQueue` models is what `SlotRing` is for. `PcQueue` with its mutexes
implements it (`SlotContract`), and what `main` and the workers do in `Broker` are
its steps and no others (`QueueContract`): `Bring` is `ReadRequest`, `EnterStore` and `Store` are
`EnqReserve` and `EnqStore`, `EnterLoad` and `Load` are `DeqTake` and `DeqLoad`, `LetGo` is the end of a request.
`Broker` has each of them whenever `SlotRing` has and `main` or the worker has come to it, so
that no interleaving of `PcQueue` is missing from `Broker`; this direction is read
off the guards and not checked. The one thing `SlotRing` leaves out is the free of the slot's
last element, which both modules have between `EnterStore` and `Store`.

- **The list of boxes is always empty.** `main` copies its `head`, `NULL` then, into
  the workers' arguments (`mbroker.c:472`), and `insertBox` assigns to its own
  parameter, so what it puts before the first box is seen by nobody. `list` is what
  `args->head` leads to; that it stays empty follows from the operators and is not
  assumed. `getBox` compares addresses and finds nothing. The message loops of
  `publisher` and `subscriber` and the loop of `list_box` are therefore unreachable; `Clients` has the former.
- **Framing.** `server_pipe` holds whole requests and `consumed` how many bytes of the
  first are gone. What a read finds at any other place than the start of a request is
  `Garbled`: the pipe it names does not exist.
- **Session pipes have lives.** Every client removes and makes its pipe anew, so
  `fifo` says whose life the name leads to, and `session` keeps the life that was opened.
  A worker blocked in `open` waits for a reader of that very pipe, though its name may by
  now lead to another.
- **Ends of the broker.** A write with no reader raises SIGPIPE, for which the broker has no
  handler. A load of a slot nobody stored into is a null pointer, dereferenced at once.
- **Freed memory.** The worker frees its element and the slot keeps the address, which the
  store one lap later frees again. `Free` of an element freed before may free any later
  element, which may have got the same memory by then, or may end the process; `Contents` of a
  freed element is what it was, what any later request put there, or neither. Its code and its pipe's
  name are copied one after the other, so the code of a freed element (`OpCodeRead`) may be
  anything, whatever the name is. The box name is
  read from the element only after the session is open (`BoxRead`), the opcode and the
  pipe's name before (`CopyRequest`).
- **Managers and the end of file.** `box_request` reads no bytes when the broker died,
  and takes its zeroed buffer for the code 0: the user is told OK.

`BoxService` is what the broker gives managers: each request takes effect once, at one
moment between asking and telling, and its manager is told what it came to. A
creation takes effect at `tfs_open`, a removal at `tfs_unlink`; the mapping reads the
effect off the worker that serves the manager, then off the pipe, then off the
manager. Two things are specified as the code has them and not as one would
wish: a removal is always told an error, and a manager whose broker dies may be told OK.

### Clients and the code

No session of the source gets past its opening: `getBox` finds no box (`SubscribersLeft`), and worker and
publisher both open the publisher's pipe for writing (`broker_publisher`). `Clients` starts where the
box has been found and the session is open, and shows what the lines behind do: the two clients, and
between them the worker in `publisher()`, the worker in `subscriber()` and one box.

| Action | Code |
|---|---|
| `GetChar` | one round of the loop over `stdin` in `pub.c`: `getchar`, the comparison with `EOF` after narrowing to `char`, the store, the test for a full buffer |
| `SendMessage`, `SendFails` | `send_message` of the string in the buffer, and `memset`, `i = 0` and the loop's `i++`; the failed write that ends the loop |
| `PubDestroy`, `SubDestroy` | the close and unlink of the session pipe |
| `StoreMessage`, `PublisherLeft` | a round of `publisher()`'s loop: the read, and the write of the string and its `'\0'` to the box as far as there is room; the read that fails (at once on a descriptor opened for writing, else when the publisher closes its pipe) |
| `OpenBox` | `tfs_open` with `TFS_O_TRUNC` in `subscriber()` |
| `WriteMessage` | a round of its loop: the read of the box, its first string, the `write`, and what follows from its result (`AfterWrite`) |
| `BrokerDies` | the end of the broker: SIGINT, or the writes beyond `message` and the free of a pointer that was moved (`mbroker.c:72, 126, 151`) |
| `InstallHandler`, `TestRunning`, `CallRead` | `signal(SIGINT, ...)`, `while (running)` and what follows it, the entry of `read_message` |
| `ReadMessage`, `ReadNothing` | a message that is read and printed; the end of the pipe |
| `Interrupt`, `GiveUp` | SIGINT at any moment, and the path of a `read` that failed because of it |

A message is the string that `strlen` finds in the buffer, so its bytes are kept one by one:
the properties are about where lines begin and end. `block` has the bytes the publisher's worker has
stored, up to the offset of its handle, which a truncation by the subscriber's worker leaves
as it is (`TecnicoFS`); `size` is the size of the box, from which what is read is told. `Bytes` has one ordinary byte for all,
`'\0'`, the newline and `0xFF`, which ends the publisher as `EOF` does (`IsEof`: `getchar`'s result is narrowed to `char`). The program is compiled with `_POSIX_C_SOURCE`, under which
`signal` installs a handler for one signal and interrupted calls fail.

## Runs

| Run | Instance | What it shows |
|---|---|---|
| `pcq` | 2 producers, 2 consumers, capacity 2, 3 elements, 1 spurious wakeup, any interleaving; weak fairness | type correctness; no lost wakeup on either side; indexes and counter agree; the slots hold the right elements whenever no call is between counter and slot; a load that returns the wrong element is a lap off and no more (`LoadsNearby`); it implements `BlockingBuffer`, fairness included: a caller that asks is admitted if room (or an element) for it keeps being there, and an admitted caller returns; it implements `SlotRing` |
| `pcq_one` | 2 producers, 2 consumers, capacity 1, 3 elements; weak fairness | with both producers asleep at once no wakeup of theirs is lost, and `BlockingBuffer` is implemented; with both between their count and their store, one after an element of an earlier lap, the queue frees no element twice (`NoDoubleFree`) |
| `pcq_fifo` | 1 producer, 1 consumer, capacity 2, 2 elements | `FifoDelivery` is violated: the consumer loads a slot nobody stored into yet |
| `fs_any_order` | 3 valid names, a rejected one and one too long, every mode, 2 byte values, 4 inodes, 3 blocks of 2 bytes, 2 directory entries, 2 handles | directory, inode table and block ownership stay consistent through failures and stale handles; the process ends only in a read or write through a handle whose own file was deleted or truncated (`AbortsAreStale`); the bytes of a file change only by its own truncation, a write through its own handle or one through the handle of a deleted file (`ContentsKept`); a call that fails leaves every handle, and while a handle is free every file, inode and block as it was (`FailuresKeepFiles`; nothing is said of files when the table of handles is full) |
| `fs_contract` | 3 names, the modes the broker uses and one combination, 2 byte values, 3 inodes, 3 blocks of 2 bytes, 3 directory entries, 2 handles, disciplined calls | no abort, no leaked block, `FileStore` implemented; the system never gets stuck (deadlock is checked) |
| `fs_stale_read` | 1 valid name, any order | `ReadsEndAtFileSize` is violated: a file truncated under an open handle |
| `broker_contract` | 2 workers, 2 creators and a remover, 2 boxes, room for 1, a slot and a descriptor for each request, one client killed | `BoxService` implemented, with the atomicity of create and remove under interleaving, room that runs out, and a broker that dies; no worker is lost (`PoolLoss`); a worker in `open` waits for a client that has still to come or is there (`OpenReturns`); the broker dies only for the reason named in `CrashExplained`; whoever waits for an answer has it, or its end, or his request is in the pipe, with `main`, in a counted slot or with a worker (`NobodyForgotten`) |
| `broker_laps` | 2 workers, a creator and a lister, one of them run again, on a ring of 2, 2 descriptors | types; in the first lap no element is held by two workers or freed under one (`HeldElements`), and a lister ends only with the broker (`ListingNeverEnds`); `main` and the workers use the queue as `SlotRing` says, also in the second lap, with elements freed twice, read after they were freed, and a code and a pipe that belong to different requests |
| `broker_live` | 2 workers, a creator, a remover and a subscriber, weak fairness | `EveryoneServed`: each manager is answered and a worker connects to the subscriber, unless the broker dies; `SubscribersLeft`: which then reads the end of its pipe; `NobodyForgotten` with a subscriber |
| `broker_pool` | 1 worker, a creator and a lister | `PoolIntact` is violated: the list request puts the reads out of step and the worker leaves |
| `broker_publisher` | 1 worker, 1 publisher, weak fairness | `PublisherServed` is violated: both ends open the pipe for writing |
| `clients` | 4 bytes of input, messages and a box of 3 bytes, pipes of 2 messages, 2 interrupts; weak fairness of the subscriber | the buffer always ends in `'\0'` and the box's block is not exceeded; what is sent of a line (`FirstMessage`, `OthersEmpty`, `LinesSent`); what a Ctrl-C leaves behind (`PipeLeftBehind`, `InterruptedIsSilent`); `OneMessage`: a subscriber is given one message at most, the publisher's first or an empty one, and a count told is of what was printed; `SubscriberEnds` |

Every property of a passing run has a mutant of the code in `PROJECT.json`
(`HasRoomAlways`, `ClearDirEntryNot`, ...): a definition that replaces the one it
is named after and makes TLC find the property violated.

### Why the bounds are enough

- Queue: three elements in a ring of two start a second lap, so a slot is freed and reused;
  with two threads on each side two threads of one side can race for a mutex while
  one of the other side is between counter and slot; every wakeup can find its
  element taken by another thread. The one spurious wakeup may fall anywhere, on
  either side. With a ring of one (`pcq_one`) three elements are enough for what a ring of two
  would need four for: both producers have counted (the first element was taken in between) and come to
  the slot that holds an element of an earlier lap, and both can sleep on it when it is full. Longer histories are covered by the proofs.
- TecnicoFS: each table can be full while the others are not. In `fs_any_order`
  the directory (2) is full before the inodes (3 besides the root); in `fs_contract`
  the inodes (2) before the directory (3). Blocks (2 besides the root's) run out
  before names do, and handles (2) run out before everything. A buffer of `MaxLen`
  bytes written at any offset crosses the end of a block. `MaxOffset` bounds only reads
  that follow a wrapped length and lets them reach past the last block.
- Broker: the real ring has 200 slots, so every property of the broker that would not survive
  the second lap (the worker has freed the element that `pcq_enqueue` frees again) says
  `FirstLap`. All runs but `broker_laps` give the ring
  a slot for every request; there the third request laps a ring of two,
  so that a double free and loads of freed elements happen. The properties that only hold in the first lap,
  where clients run once and nobody lists, are checked in `broker_contract`, in which every state is such a one.
  `MaxStarts` is the number of requests;
  three are needed for two workers to race while a third request is behind them or before
  them. `MaxLives` 2 lets the answer to an earlier run meet a later one. A client that is
  killed and then run again is in no run, only in the proofs (`ElementsHeld`, `QueueKept`, `ListersWait`).
  `MaxDescriptors` 2 is reached by two answered managers.
- Clients: a line of two bytes fills a buffer of 3; four bytes make a line that is cut and
  one after it, two lines, or a newline at every place of the buffer. A box of 3 bytes is full after the
  longest message and takes the empty ones behind a shorter one.
  The second interrupt meets a handler that is gone.
- `SizeModulus` is far above any size that occurs, as `size_t` is.

`CHECK_DEADLOCK FALSE` is said where stopping is intended: the queue's calls are
bounded by `MaxCalls` and a consumer of an empty queue sleeps for good; the file
system run in any order may end in `Abort`; the broker waits for clients when all that
may be started have been, and stays dead once it is.

The two `Symmetry` sets are used with safety properties only (`BoxContract` is one);
no action or property tells the members apart. The views of `MCTecnicoFS` drop variables that no
action reads and the checked invariants do not mention.

### Fairness

`FairSpec` assumes weak fairness of each thread's steps inside a call: a thread that
is not asleep on a condition variable nor blocked on a mutex is scheduled. It
assumes no fairness of calls or of spurious wakeups, and no fairness of mutexes
beyond that (a mutex may be taken by others again and again). The contract's
own fairness is correspondingly weak: a caller that is overtaken for ever is not
promised anything.

`Broker`'s `FairSpec` assumes weak fairness of the main thread, of each worker and of each
client once started: each runs on unless it waits in a read or an open. Nobody has to
start a client, and no kill is forced; `broker_live` has none, because a killed client
may leave a worker waiting in `open` for good, which is what the code does.

`EveryoneServed` asks of a subscriber that a worker connects to it. With this source each session ends
at once, so that a worker comes free again; were subscribers served as `exercise2.md` says, more of
them than workers would keep the others waiting, and the property would not hold.

`Clients`'s `FairSpec` assumes weak fairness of the subscriber's own steps and of nothing else: nobody
has to type, to interrupt, to send or to end a session.

## Proofs

Every invariant the runs `pcq` and `pcq_one` check is proved, from `PcQueueAssumption` alone and so
for every number of threads, capacity and bound. `PcQueueProofs.tla` has:

- `TypeCorrect`: `Spec => []TypeOK`. `TypeOK` is inductive because it contains `LocksHeld`,
  which says who may hold each mutex where: without it a decrement of the counter at
  zero could not be excluded.
- `PopperWakeup` and `PusherWakeup`: `Spec => []NoLostPopperWakeup` and the dual. Each is
  inductive given `TypeOK`. `StepForms` reduces every step of the queue to one of four
  ways in which places change; `CountMove` computes how the cardinality of a set of
  threads changes when one thread moves; `MoveCovered` and `SignalCovered` conclude that
  the debt on the right-hand side pays for the counter on the left. The case that
  matters is the step in which a thread goes to sleep: it holds the mutex and has seen
  the counter at zero, so there is nothing to be accounted for.

`PcQueueRingProofs.tla` has:

- `RingBalanced`: `Spec => []RingBalance`, inductive given `TypeOK`. Four steps change the
  balance and each is computed with the lemmas on remainders at the start of the module
  (`ModUnique`, `ModNext`, `ModAdvance`), which hold for every capacity and not only for powers of two.
- `FreedOnce`: `Spec => []NoDoubleFree`. The strengthening is `ElementsApart`: a pending element is
  in no slot, not freed and no other producer's; no two slots hold one element; and a slot holds a
  freed element only at the head, while some producer is between its free and its store. Two
  producers there would both hold the head mutex, which `TypeOK` excludes.
- `RingRecovers`: `Spec => []QuiescentContents`, from `RingBalance` and two invariants that are
  inductive together: the indexes are the numbers of stores and loads modulo the capacity, and the
  slot of each of the latest `Capacity` stores holds what was stored (`LatestStores`). The
  latter needs that numbers less than a lap apart have different remainders (`ModApart`).
- `LoadsALapOff`: `Spec => []LoadsNearby`, from the same invariants and `UnstoredNull` (slots beyond the
  stores of the first lap are `NULL`). The slot a load finds holds the last store with its remainder
  (`LatestWith`), `RingBalance` keeps loads and stores less than two laps apart, and numbers of one
  remainder that close are at most one lap apart (`OneLapApart`). The bound on the number of
  threads of a kind is needed; `mbroker` has one producer and, with up to 200 workers, meets it.

`PcQueueContractProofs.tla` proves `Implements`: `Spec => Contract!Spec`, that is, initial states map to
initial states of `BlockingBuffer` and every step to a step or a stutter, under the mapping of
`PcQueue`; and `SlotsImplement`: `Spec => SlotContract`, the same for `SlotRing`. Locking, freeing, waking and
spurious wakeups are stutters of the second, counting and reaching a slot are its steps.

`ClientsProofs.tla` proves every safety property of the run `clients`, from `ClientsAssumption`:
for every message size, any input and any number of interrupts.

- `TypeCorrect`, `FirstLineArrives`, `OnlyTheFirstLine`, `EveryLineSent`. Each has its
  strengthening: `FirstByteLost` (once something was sent the buffer begins with `'\0'`),
  `FirstLineHeld` (before that the buffer is what has been typed), `LinesAccounted` (a line
  ended and not sent is the one in the buffer).
- `PipeRemoved` and `SilentForGood`, from `KilledTwice`, `NotCounted` and `Silent`. The second is a
  property of behaviours: the state after an interrupted read is closed under every step.
- `OnlyOneArrives`: `Spec => []OneMessage`. `MessagesHeld` says that the messages in the publisher's pipe are
  the last it sent and that the block begins with the first message, ended or cut; so the first string of the box is
  that message, whole, or, once the box was truncated and not stored to again, empty.
  `Given` says that before the write nothing was given, and after it one such string;
  `Counted`, what the subscriber tells and leaves.

`TecnicoFSProofs.tla`, from `TecnicoFSAssumption` (tables of any size, blocks of any length):

- `TypeCorrect`, `DirectoryAgrees`, `BlocksApart`: the three invariants of `fs_any_order`, under every
  order of calls. The first needs `SizedHaveBlock`: an inode with a size above zero has the
  number of a block, in use or not, so that what is copied is inside `fs_data`. `DirectoryAgrees` adds `EntriesNamed` (an entry
  without a name is empty). `BlocksApart` rests on both. `StepForms` reduces the calls to
  the few ways in which they change tables.
- `NothingLeaks` and `NothingAborts`: `NoBlockLeak` and `NeverAborted` under `DisciplinedSpec`.
  The two are inductive together with the invariants above and with `HandlesFresh`, which the
  discipline gives: every handle's file exists and its offset is within the file.
- `OnlyStaleAborts`: `Spec => AbortsAreStale`, an action property under every order of calls. `DirectoryAgrees`
  excludes the assertion of `inode_delete`; a read or write through a handle whose file exists and
  whose offset is within it stays inside the block (`FreshRead`, `FreshWrite`).

`TecnicoFSContractProofs.tla` proves `KeepsContract`: `DisciplinedSpec => StoreContract`. The mapping
makes a file of each name in the directory (`Files`), the bytes up to its size in its block, and of
each handle a name and an offset. `ContractInv` adds to the invariants above that no entry has a name
that `tfs_open` rejects and that nobody opens the root. Then each operation has its lemma
(`OpenExistingImplements`, ..., `UnlinkImplements`): it is a step of `FileStore` or a stutter. Three
arguments carry them: distinct files are in distinct blocks and blocks do not overlap in
`fs_data` (`BlocksDisjoint`), so a write changes one file only; what was written is the content
up to the offset, the buffer and the rest (`NewContent`); and the tables are full exactly when
the store is, because names, inodes and blocks are counted by the same sets (`FilesCount`,
`NonEmptyCount`).

The same module proves two action properties of `Spec`, without the discipline.
`OthersContentsKept` (`ContentsKept`) goes through the calls that touch `fs_data` or a size: blocks have one owner
(`BlocksApart`), so a write of another file's handle is to another block (`ContentStep`). Only a
handle whose inode is free may name a block that a file has now. `FailuresLeaveFiles`
(`FailuresKeepFiles`) goes through the ways to fail (`FailureStep`): an inode that was taken for a name the directory does not
take is given back as the first free one, and so nothing has changed.

`BrokerProofs.tla`, from `BrokerAssumption`:

- `TypeCorrect`: `Typed` adds to `TypeOK` what it needs to be inductive: `Held` (main queues only what
  it has read, a worker in a session has an element and a session, the list is empty for good)
  and `DescriptorsHeld` (the workers that have a pipe open are no more than the descriptors, so
  that closing one never goes below zero). That `consumed` stays within one request rests on
  `RequestEnds` and `WholeRequests`: requests end in their order, at most 289 bytes apart.
- `ListersWait` (`ListingNeverEnds`, the first lap): `Known` says that every request, in the pipe, in the queue and,
  in the first lap, in a worker's copy, asks what its client asks; `ListersHeld` that in the first lap the
  pipe of a lister that was once opened has a writer, first the worker and then the descriptor nobody closes.
- `ElementsHeld`: `Ring` says how far the first lap has come: the head is at the number of
  elements stored, the tail at the number loaded (those counted, less the counter and the workers
  between the two steps of `pcq_dequeue`), each slot holds its own element or none, and
  no worker has an element not yet loaded, freed or another's.
- `QueueKept`: `Spec => QueueContract`, in every behaviour, not only the first lap: the broker's queue takes only the
  steps of `SlotRing`. `Typed` gives that main has something to store and that the counter stays in its range.

`BrokerServiceProofs.tla` rests on these:

- `PoolKept`: `AskedOnce` (no client has two requests on their way), `AllWaiting` (the client of
  every request for which no pipe was opened has its pipe in place, unmet and empty) and
  `DescriptorsCounted` (descriptors, elements counted and workers about to open are no more
  than the requests main has counted). `PipeFound` concludes that `open` succeeds.
- `CrashCause`: `ReadersHeld`, that the client of a session has no answer yet and is in its read, unless
  it was killed, which uses that no two workers have the same client (`OwnClients`). So
  `SIGPIPE` never comes where nobody is killed, and `Ring` excludes a second free.
- `OpenComesBack` (`OpenReturns`): the element of a worker in `open` is nobody else's and not served, so by
  `AllWaiting` its client waits and has not been met; `LivesHeld` (no pipe is of a life to come, and
  who has gone was killed) makes the pipe that client's own.
- `NobodyLost`: `Spec => []NobodyForgotten`. `PlainHeld` says that who waits has a request, sent or read.
  `SlotsFull` and `CountedSlot` find one that main has counted and nobody has taken in a slot the
  counter covers. `LoadedHeld` finds one that was loaded with a worker or among the
  freed, and `ToldHeld` and `ManagersLeaked` give the client of a freed one his answer or the end
  of his pipe. The clause about `NULL` is needed: a worker that loads a slot too early advances the tail past a request that
  nobody then loads, and ends the broker with its next step.
- `KeepsBoxContract`: `Spec /\ []FirstLap => BoxContract`, where `MaxLives = 1`, nobody lists and there
  are at least as many handles as workers. `CallsHeld` says that main then reads whole requests,
  that a caller that waits has asked for a box and that the files are few enough; `MetHeld`
  that a caller whose pipe was opened is still served or has its answer, so that an end of file
  means the broker died. Each action has its lemma: `CallerDue` (a worker about to serve reads the
  box its caller asked for, and the request has not taken effect) makes `CreateOpen` and
  `RemoveBox` steps of the service; all else is seen only as the asking, the telling or the
  death. Every assumption is needed: with a second run two requests of a client are on their way,
  a list request makes main read across requests, and `create_box` without a handle leaves a file
  behind and answers an error.

Every invariant and every action property of a passing run is proved. Only model-checked: what must
eventually happen (the fairness in `BlockingContract`, `EveryoneServed`, `SubscriberEnds`), because
liveness is out of the prover's reach. Of the first two the safety half is proved (`Implements`, `NobodyLost` with
`OpenComesBack`).

## Findings

1. The queue is not a queue (`pcq_fifo`): counting and storing are two critical sections
   under different mutexes, so `pcq_dequeue` may return a slot's previous content, at most a lap off
   (`LoadsNearby`).
2. `tfs_read` past the end (`fs_stale_read`): `i_size - of_offset` wraps around when the
   file was truncated through another handle, and the result is not limited to the file.
3. `tfs_unlink` under open handles (`fs_any_order`): the assertions that say this
   cannot happen test for a `NULL` that `inode_get` never returns; `ContentsKept` has the exception.
4. The pool shrinks (`broker_pool`): a worker whose `open` fails returns, against
   "Quando uma _thread_ termina uma sessão, fica à espera de nova sessão para tratar"
   (`exercise2.md:246`), and an ordinary list request followed by another request makes it fail.
5. No publisher is ever served (`broker_publisher`): `working_thread` opens every session pipe
   with `O_WRONLY`, and so does the publisher.
6. Only the first line arrives (`clients`, `OthersEmpty`): after a message the publisher's position is
   set to 0 and then incremented, so later lines start behind a `'\0'` and are sent as empty messages.
7. Ctrl-C gives no count (`clients`, `InterruptedIsSilent`): the interrupted `read` fails and the
   subscriber ends on its error path, against `exercise2.md:117`.
8. A listing never ends (`broker_laps`, `ListingNeverEnds`): the manager looks for the last flag in the
   byte of the code, and the broker keeps the pipe open.
9. A removal is always told an error (`broker_contract`, `BoxContract` states it as the code has it):
    the file is gone when `deleteBox` searches a list that is always empty.
10. A subscriber is left at once (`broker_live`, `SubscribersLeft`): its box may exist, and `getBox` does not
    find it, against `exercise2.md:60-63` and `114`. For this reason `EveryoneServed` promises a
    subscriber no more than that a worker connects.
11. One message ends a session (`clients`, `OneMessage`): `subscriber()` deletes what is stored
    (`TFS_O_TRUNC`), and tests the result of a `write` that succeeded as if it were an error.

## Not modelled

- `pcq_destroy`, `tfs_destroy`: called only after the endless loops of the broker, or when
  its start fails.
- A failing `calloc`: it returns before anything shared is touched.
- `tfs_lookup` with the root inode as anything but a function of the name, the delay loop
  of `insert_delay`, block alignment: no effect on state.
- The loop of `list_box` and the list functions on a list that is not empty (`insertionSort`,
  `print_list`, `destroy_list`): the list head the workers see is `NULL` for good (`Broker`
  derives this), so no caller ever gets there.
- Of `publisher` and `subscriber` behind "Box not found." (`Clients`): more than one session of a kind on a
  box and with it the counters of a box, a `tfs_open` or `tfs_write` that fails, a freed block that
  another file takes (`TecnicoFS` has all three), and what the moved pointers write and free, for which
  the broker may die at any moment.
- Clients whose start fails before they have written a request: nobody else sees them.
- The layout of `server_pipe` and of answers beyond codes, names and lengths; `box_name` arrays
  of 32 bytes without a terminator, and other names longer than their fields: names are atoms.
- Logging, and the build files.

## Plan

Done: `PcQueue`, `BlockingBuffer`, `SlotRing`, `TecnicoFS`, `FileStore`, `Broker`, `BoxService`, `Clients` and
the proofs about them. Left:

1. What the theorems of `BrokerServiceProofs` assume of clients (each runs once) may be weakened to
   clients that run again only after their last request was served.
