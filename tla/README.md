# ZED_Server2 in TLA+

A model of ZED_Server2 (a TCP server that records the position of a ZED camera)
with TLC runs and TLAPS proofs. Paths below are relative to `src/`.

## 1. Inventory

| Component | State | Operations | Makes it hard |
|---|---|---|---|
| `Publisher` (`include/SimplePubSub.hpp`) | `messageQueue`, `queueMutex`, `messageQueueCond`, `keepRunning`, `socketInit`, the PUB socket | `publish()` by any thread, the sender thread, destructor | mutex dropped around each send, condition variable, destruction |
| `Subscriber`, `Agent` (same file) | SUB socket, topic (a reference), callback, flags | construction, `onMessageReceived`, the receiver thread, destructor | the callback runs on the receiver thread; handshake on `socketInit`; lifetime of the topic |
| `CommandSolver` | none | `createCommand`, `executeCommand`, `execute` | error paths: exception, null pointer, missing keys |
| `PositionTracker`, `ZedPositioner` | thread, `keepRunning`, `position`, camera status | measure and publish in a loop; constructor, destructor | one camera; last status against `zed_setZero()` |
| `SocketServer`, `main` | `message`, `result_file`, `pt`, `zed_status`, `zed_x/y/z`, the socket | accept, receive, execute, cleanup, six callbacks, `shutdown` | seven threads and the tracker share all of it without locks |
| `WebSocket` | `_server_fd`, `_client_fd`, `_buf` | init, accept, recvfrom, sendto, close | errors, descriptors, a byte stream read as messages |

How they interact: `main` receives a command and *publishes* it; the publisher's
sender thread moves it to the ZeroMQ pipe of its topic; the topic's receiver
thread runs the callback. So the file, the tracker pointer and the ZED state are
written by `main` (cleanup), by the `CreateFile`, `Probe`, `StopTest`,
`ZED_Status` and `ZED_Position` threads, and read by `GetInfo`. The tracker's
thread publishes on the same bus. The server's sockets and the result file are
numbers of one descriptor table.

What makes each part correct: the publisher loses, duplicates and reorders
nothing and wakes its sender; a subscriber's topic and callback are in place
before they are used; the bus keeps order per topic; `pt` never dangles;
a tracker's `Stop` is the last status shown; a client that waits for its
commands sees them performed one by one; messages do not leak into each other;
the cleanup terminates; `_client_fd` names a connection; a server that has lost
its listening socket ends; a row mixes measurements in one direction only. The
hazards, at their lines, are in `PROJECT.json`.

## 2. Modules

| Module | Models | State and actions in terms of the code |
|---|---|---|
| `Bus` | what the library promises | `outbox` = published, not yet in a pipe; `inbox[t]` = the pipe of topic `t`. `Publish`, `Transmit` (drops when a pipe is full), `Take` |
| `Publisher` | the class, step by step | `callerPc`, `senderPc`, `destroyPc` are program counters; `inFlight` is the message popped and not sent; `wire`, `published` are histories |
| `Subscriber` | the class, step by step | `userPc`: its owner, from `requestSubcriber` to the destructor; `receiverPc`: `receiveMessages()`; `topicAlive`: the string the reference names; `pipe`, `taken`: received and not handled |
| `PubSub` | the library in one ZeroMQ context | `Publisher` and `Subscriber`s side by side, joined by `SendToPipes`; requests and calls in the order of `main()` |
| `CommandSolver` | decoding | operators from a message to the set of its outcomes |
| `PositionTracker` | tracker and camera | `trackerPc` (`"none"`: the camera is free), `generation` numbers the trackers, a position is the number of the tracker that measured it, or `Zero`, or `Unmeasured` |
| `SocketServer` | server, `main`, callbacks, client | extends the two above and `Bus`; `pc` and `old` (the pointer read from `pt`) per thread; `disk` is the rows written; `wanted` is a history of what was sent; `listening` is false when the server's socket is closed; `FdsUsed` counts the descriptors taken, one for each client ever accepted and one for an open file; `fault` says what ended the process |
| `Session` | what a patient client is promised | one command pending at a time; `session`, `rows` |
| `WebSocket` | the socket class over the kernel's descriptors | `fds` says what each number is; `_server_fd`, `_client_fd` are numbers |
| `Connection` | `init`, accept, receive, cleanup and the callbacks, as users of descriptors | `pc` is `main()`'s place; a command is only counted on its way to its callback |
| `ZedState` | `zed_x`, `zed_y`, `zed_z` one by one | `zed` the three atomics, `stored` and `loaded` how far each thread is; a measurement is its number |
| `MCPublisher`, `MCPubSub`, `MCSocketServer`, `MCConnection`, `MCZedState` | instances | sets of commands, of files, of measurements |
| `PublisherProofs`, `PubSubProofs`, `BusProofs`, `SocketServerProofs`, `ServerDataProofs`, `SessionProofs`, `ConnectionProofs`, `ZedStateProofs` | theorems | section 5 |

`unique_ptr::reset` and the move assignment are three steps, as in the standard
library: read the old pointer, store the new one, delete what was read
(`ResetLoad`, `ResetStore`, `DeleteTracker` and `JoinAndFree`). They are written
once, for the thread that is in them: `main`, `StopTest` or `CreateFile`.

A callback's first effect is in the action that takes its message. A CREATE
whose file does not open (the stream is open already, the file cannot be opened,
no descriptor is left) ends the process with its message still in the pipe
(`createFile_throws`): it counts as not performed. Stores of one
atomic are one step. A row is two steps, data then position. Abstractions that
hide something: in `SocketServer`, `zed_x`, `zed_y`, `zed_z` are one
value (`ZedState` has the three) and descriptors are counted but have no numbers
(`Connection` has those, and what follows when one is reused); GETINFO reads and answers in one step; the stream operations
are atomic (concurrent use of an `ofstream` is undefined, and the model gives
only the outcomes in which each insertion and `close()` is whole); a text of
several commands received at once is one message that does not parse, but a
command is never received in two parts; a reset connection loses what had not
been received.

ZeroMQ is external. A SUB socket's subscription reaches the publisher's socket
when that socket next reads its commands: its first send does, a later one may
put it off (`SendToPipes`). Messages of one topic arrive whole and in order; the
pipe is a sequence. The kernel is external too: `accept()` and `open()` return
the lowest free number, `close()` fails on a number that is not open, and the
numbers that ZeroMQ and the standard streams hold are left out of the table.
`socket()`, `bind()`, `listen()`, and `accept()` on a healthy socket, may fail: in
`Connection` always, in `SocketServer` where `SocketMayFail` is true. `accept()`
and `open()` fail in both when no descriptor is left (`SpareFds` in
`SocketServer`). A failed accept closes the server's socket and `main` goes on to
receive from -1, cleans up and accepts again; that throws, and so does the
handler, which ends the process.

`fault` ends a behaviour: an exception out of a subscriber's thread
(`create_failed`, `camera_busy`), a second deletion (`double_delete`), a null or
missing command (`bad_command`), a write to a closed connection (`sigpipe`), an
accept on the server's closed socket (`accept_failed`).

Clients (external) are of three kinds. *Orderly*: waits until a command has taken
effect before the next, or before leaving, and stops a file before creating
another; it may send any command, one that the server cannot answer included.
*Hasty*: leaves without waiting, as `testClient.py` does after STOP.
*Free*: anything.
`testClient.py:18` sends CREATE with plain strings as arguments, which
`createCommand` rejects (`CommandSolver.hpp:186`); its other behaviour, sleeping
and polling GETINFO, is what the orderly client abstracts.

## 3. Runs

| Run | Shows | Bounds |
|---|---|---|
| `pubsub` | no race on the queue, FIFO without loss, no lost wakeup; topic and callback are safe; every call except `~Publisher` returns; what is queued is sent, and what is sent delivered, unless a destructor begins | 2 callers, 2 topics of which one has a subscriber, 3 calls, fair threads |
| `delivery` | what was sent is delivered in order; `PubSub` implements `Bus` | the same with 2 data values (symmetric, as are the callers) |
| `orderly` | what can end the process; file, `pt` and tracker agree between commands; rows complete; replies to who asked; the server implements `Session` | any 4 commands, 2 files (symmetric), 3 clients, 3 descriptors for their connections and the file, deployment build |
| `free` | types; `pt` is live; `Stop` is the last status shown | any 2 commands, 2 clients, 2 samples, a failing camera, deployment build |
| `rows` | messages stand alone; rows in order | any 4 commands, 2 clients, develop build |
| `live` | every command and cleanup completes, unless a fault ends the process | 2 commands, free, 2 clients, accept may fail, fair threads, a tracking state the code ignores |
| `connection` | `_client_fd` names a connection or is -1; a deaf server ends | 4 descriptors, 4 clients, 4 commands, fair threads |
| `zedstate` | how far a row can mix measurements; no coordinate is out of date at rest | 3 measurements, resets and loads without bound |

Why the bounds are enough. `pubsub`: with two callers one can hold the mutex
while the other waits and the sender sleeps, sends or drains; a third call finds
the queue in each of those states again. The subscriber starts, stops and
receives at any point of that; the second topic has no subscriber, so a message
can be misrouted. A second subscriber would share nothing with the first but the
order of the requests. `delivery` has the second data value that makes an order
visible: among three messages of the subscribed topic two differ, so a pipe or a
receiver that swaps neighbours shows. `pubsub` has one, because its properties are
about the queue (which the topics tell apart) and about progress. Server: CREATE, PROBE, STOP, CREATE is
the longest chain in which one session can disturb the next, and needs four
commands; two clients give one reconnect, which is all that `client` tells
apart. `orderly` has a third, which takes the third descriptor: its CREATE finds
none for the file, and when it has left, the next accept finds none either; a
failed accept is two more rounds of `main` (`live` has them for a network that
fails). Two commands of a free
client are enough for any two of the threads that
reset `pt` (with `main`'s cleanup, all three) to overlap; the theorems
`PtStaysLive`, `LastWordIsStop` and `RowsStayInOrder` remove the bounds, and those
of `SessionProofs` the bounds of `orderly`. `HighWater` is 100 in every run, so
nothing is dropped: the real pipe holds 2000 messages and no callback takes
longer than a frame.
`connection`: four descriptors are the server's and three more, so the fourth
client, or the file of the third, finds none; four commands open, close and
reopen the file around a lost connection or a lost server socket. `zedstate`: a
coordinate can be two measurements behind only if there are three.
Deadlock checking is off but for `zedstate`: a behaviour ends when the last
client is gone, when the commands are spent, with a fault, or when the library's
objects are destroyed.

Runs that are violated, each showing code against the comment or test quoted in
`PROJECT.json`:

- `publisher_stop`: `notify_all` without the mutex can be missed; the destructor
  joins for ever.
- `create_fails`: a client sends CREATE and leaves at once; the callback runs
  after the cleanup, the file outlives the client, and the next client's CREATE
  throws on the subscriber's thread, which ends the process. The unit test sees
  the exception in `execute_command` because its mock calls the callback there.
- `reset_twice`: STOP then leaving at once: the tracker is deleted twice.
- `stale_position`: a position from before STOP is stored after `zed_setZero()`.

`SessionAgrees`, `ReplyToAsker` and `RowsComplete` hold in `orderly`: they are
promises to a client that waits. With `ClientKind = "hasty"` or `"free"` in
`MCOrderly.cfg` TLC finds each of them violated: a CREATE executed after the
cleanup leaves a file and a tracker that outlive their client; a GETINFO whose
client has left is answered to the next one (`m_sendto` writes to the connection
accepted last); a file opened between the two halves of a row gets a position
without its data. More divergences have no run of their own: the cleanup does not
close the lost client's connection, although its comment says so
(`SocketServer.cpp:61`; `m_closeConnection` is called nowhere), which is why
descriptors run out; a PROBE executed before the CREATE received before it, and
dropped (both threads' order is free; `ImplementsSession` says that an orderly
client does not meet it, and `RowsInOrder`, for any client, is about the probes
alone, which share a thread); a message still queued when the publisher's
destructor begins is dropped; a PROBE overtaken by STOP and the next CREATE is
written to the next file.

## 4. Fairness

`Publisher!FairSpec`: weak fairness of each thread's next step and strong
fairness of taking the mutex (a thread that waits for a mutex released again and
again is at last granted it). Calls of `publish()`, spurious wakeups and the
decision to destroy are not fair. `PubSubFairSpec` has the same for the whole
library, and weak fairness of each receiver thread, of the spin and the
assignment in `requestSubcriber`, and of a join whose thread has ended; `poll()`
returns after 10 ms, so the receiver always has a next step.
`ConnectionFairSpec`: weak fairness of what `main()` and the callbacks can do
without a client (an accept that must fail, a receive that must fail, the
cleanup, a callback whose command has arrived). `SocketServer!FairSpec`: weak
fairness of each thread separately (main, every callback's thread, the tracker,
the sender): they are `std::thread`s, and none of their steps is disabled by
another for longer than a join. Clients are not fair, and neither is what
`accept()` returns on a healthy socket; on a closed one it throws at once, which
is `main`'s step like any other (`MainWorks`).

## 5. Proofs

From the named assumptions of the modules, checked by TLAPS, for every value of
the constants:

- `PublisherProofs`: `TypeOK`, `MutualExclusion`, `FifoNoLoss`, `NoLostWakeup`.
  None of the last three is inductive. The invariant adds who owns `queueMutex`
  in which step (`LockOwner`), that a message is in flight only between `pop()`
  and the send (`OneInFlight`), and that the queue is still empty when `wait()`
  blocks (`BlocksOnEmpty`: the mutex has been held since the predicate).
- `PubSubProofs`, for any number of subscribers and callers:
  `TopicOutlivesSubscribe`, `CallbackRaceFree`, `DeliveredInOrder`, and that a
  behaviour of the library is one of the publisher's (`PubSubHasPublisher`), so
  that everything above holds inside it. The first property rests on
  `socketInit`, which orders the two threads of one subscriber (`Handshake`);
  the second on the order of `main()`: until the last request has returned,
  queue and pipes are empty (`Silent`). `DeliveredInOrder` adds that nothing has
  been sent by then (`Unsent`), and what the receiver's place says of its
  subscription, its callback and its message (`Receiving`): a subscriber that
  has registered is known to the publisher's socket from its first send on, and
  only a receiver told to stop closes its pipe.
- `BusProofs`: `ImplementsBusWhole`, the refinement of `Bus` by `PubSub`, step by
  step and for any number of callers, topics and subscribers. `emplace` is the
  `Publish`, the send the `Transmit`, the start of the callback the `Take`; every
  other step of every thread is unseen. A pipe is never full because a message
  in it was sent (`SentOnWire`), hence published, hence one of the calls that
  have passed `emplace` (`Counted`), of which there are at most `MaxPublish`.
- `SocketServerProofs`: `PtIsLive`. The invariant `ResetInv` adds: a thread about
  to delete the latest tracker has cleared `pt` and CREATE is not between
  constructing and storing (`Deleting`); a thread joining it is alone and
  `keepRunning` is off (`Joining`); between constructing and storing, CREATE has
  the only live tracker, `pt` is null, and no other thread has read it
  (`Creating`). After a fault nothing moves. `CommandStandsAlone` is proved from
  the step `main` is in.
- `ServerDataProofs`, from what clients can send (`CommandsAssumption`: the
  arguments of a CREATE that decode name a file): `TypeOK`, `RowsInOrder`,
  `QuiescentStatus`. The types need that each topic carries what its callback
  uses (`PayloadsOf`) and that trackers are no more than CREATEs
  (`GenerationsAsked`: the trackers constructed, the one being constructed, the
  CREATEs delivered, published or still a text are at most the commands sent).
  `RowsInOrder` follows from four numbers that part the serials in the files,
  delivered, published, received and sent (`Separated`): every step of a probe
  carries the least of one range over to the end of the one below.
  `QuiescentStatus` follows from the last status published, delivered and shown
  (`LastPublished`, `LastDelivered`, `LastShown`).
- `SessionProofs`, for an orderly client, any commands, files and number of
  reconnects: `SessionAgrees`, `RowsComplete`, `ReplyToAsker`, `Survives` and
  `ImplementsSession`. None is inductive: each speaks of the server at rest or of
  one step, and six threads share what it is about. The invariant (`SessionInv`)
  says where the command last sent is: in the connection, in `message`, in the
  outbox, in an inbox or in a callback, and in one of them only (`OneCommand`),
  or nowhere while `main` waits or cleans up. From that place follow
  - what the command relies on until it is performed (`Awaited`): a CREATE that
    no file is open, any other but STOP that none is if the client wants none;
  - the file while a callback or `main` is between two steps (`FileInv`), and
    `pt`, the pointer read from it and the tracker's thread (`TrackerInv`): a
    reset has exactly one tracker to delete, a CREATE finds the camera free;
  - that only the row PROBE is writing lacks its position (`RowInv`), and that a
    reply went to the client that asked (`ReplyInv`).

  The refinement maps each step of the server to one of `Session` or to none: the
  client's send is the `Request`; the start of a callback, or `main`'s rejection
  of a text, the `Perform`; the start of `main`'s cleanup the `Leave`. What moves
  a command from one place to the next leaves `pending` as it is, because all
  other places are empty. For the same reason no command finds its pipe full.
- `ConnectionProofs`: `ConnectionTypeOK`, `ClientFdIsAConnection`, for any number
  of descriptors, with or without a socket to begin with (`NoSocketEnds`). The invariant says what each stored number names
  (`WhatFdsName`); the file's may be closed behind its back only if it is the
  number of the server socket lost before, and then no accept can be given it.
- `ZedStateProofs`: `ZedTypeOK`, `RowSkew`, `LastOrZero`. The measurements in the
  pipe and in the outbox are the successors of the one being stored
  (`InSequence`), a coordinate is zero or of the last store of it (`Current`),
  and what a reader has loaded can be followed by any such (`Skewed`).

Three theorems have a hypothesis that is not an assumption on constants.
`LastWordIsStop` is about behaviours in which the pipe of `ZED_Status` always has
room (`StatusHasRoom`), `RowsSkewOneWay` and `NoOldCoordinate` the same of
`ZED_Position` (`NeverFull`). Without it they are false: a PUB socket drops what
a full pipe cannot take, the last `Stop` among it (the hazard at
`SimplePubSub.hpp:125`). Every finite behaviour in which fewer messages than
`HighWater` are waiting at a time meets it, all those of the runs included. The
types hold without it.

`OrderlySurvives` names failures that end the process whatever the client does:
it assumes that every file opens and that neither the camera nor the network
fails (`NothingFails`). Its conclusion leaves two ends: a command that
decodes to a null pointer or throws past `main` (`bad_command`, the hazard at
`CommandSolver.hpp:275`), and a lack of descriptors, but only when every one has
gone to a client's connection, because none is ever closed (the hazard at
`WebSocket.cpp:43`). That the server stops listening for no other reason is
`FdsInv`. The other theorems about an orderly client, `ServerImplementsSession`
included, hold whatever fails: a failure ends the process between two operations
of `Session`.

Model-checked only: the liveness properties, because fairness and ENABLED are out
of the prover's reach. Every other property of a passing run has its theorem.
What recursive data (JSON texts) decode to is not proved; the model has
no recursive operator.

## 6. Not modelled, and the plan

- `SocketServer::shutdown()`: only the destructor calls it, and `main()` never
  returns, so the program never executes it (the tests that do have a mock agent
  and no callback in flight). Were it to run: it resets `pt` before the
  subscribers' threads are joined, and the members are destroyed in reverse
  order, `pt` before `topic_*`.
- `WebSocket::m_closeConnection()`: called nowhere.
- The byte past `_buf` that a receive of 2048 bytes overwrites; the value of a
  `position` published before the first measurement (`Unmeasured` marks it);
  pipes at their high-water mark (`Bus` has the drop, no run reaches it).
- The ZED SDK (only what the calls return), JSON and number formatting, logging,
  the build.

Next, proofs: which of the results about orderly clients hold for hasty ones (who
wait for each command but not before they leave) up to the first disconnect, and
that the commands of any client are performed at most once.
