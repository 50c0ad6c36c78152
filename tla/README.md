# libesf in TLA+

libesf is a C++ library for programs on embedded Linux systems: processes that
talk to each other over shared memory (`lesf::ipc`), a logger that sends its
messages to a log server over TCP (`lesf::log`), and programs that run as daemons
(`lesf::daemon`). These modules model the concurrent parts of the library, TLC
checks them on small instances, and TLAPS proves their safety properties for every
instance. Paths below are relative to `src/`.

## 1. Inventory

| Component | State | Operations | Interacts with |
|---|---|---|---|
| IPC endpoint (`src/ipc/endpoint.cpp`) | shared segment: per direction `mutex`, `sem_empty`, `sem_full`, `shutdown_requested`, `buffer`; per endpoint a receive thread, slots, an exception handler | constructors of server and client, `send`, `M_receiveThread`, destructor, `registerSlot`, `registerExceptionHandler` | the peer process through the segment; the slots, which may call `send` |
| Message factory and messages (`src/ipc/message_factory.cpp`, `inc/lesf/ipc/message.h`) | a static registry: `m_rtti_map`, `m_ctors` | `registerMessageType`, `typeIdentifier`, `serialize`, `construct`; all may throw | called by the endpoint inside its critical sections, and by `registerSlot` |
| Action server and user actions (`src/ipc/action_server.cpp`, `inc/lesf/ipc/user_actions.h`) | per type of action a mutex, the set of endpoints with a slot, the map of active handlers | `async`, `M_responseHandler`, `registerAction` and its detached threads | two endpoints |
| Log client (`src/log/client.cpp`) | `m_connected`, `m_terminate`, `m_message_queue`, the event loop and its socket | constructor, `send`, destructor; handlers of connect, read, write, post | a TCP server; the thread of the user and the I/O thread |
| Log server and sessions (`src/log/server.cpp`, `src/log/session.cpp`) | sessions, subscribers, event loop, acceptor | accept, read header, read message, subscribe, destructor | log clients; subscribers |
| Logger (`src/log/logger.cpp`) | the only instance, a mutex, a fallback file | `init`, `log`, deletion at exit | owns a log client |
| Log messages, formatters (`src/log/message.cpp`, `src/log/formatter.cpp`) | none | conversion to JSON and back, and to text | the logger, the log server's subscribers; exceptions, whose stack they carry |
| Daemon (`src/daemon/daemonize.cpp`) | lock file, pid, service, signal handlers | `daemonize`, `daemon_try_cleanup`, `daemon_signal_handler` | the kernel; the user's service; other invocations |
| Core exceptions, preprocessor | none | stack traces, macros | |
| Examples | | programs built on the library | |

What is hard, and what makes each component correct:

- **Endpoint.** Threads of two processes share a buffer that three semaphores
  guard; slots run with the buffer's mutex held and may send; clients come and
  go while the semaphores keep what the last one has left; a send may throw half
  way. Correct: the buffer is never accessed by two threads, a message is
  dispatched once and in order, receive threads stop for their own endpoint,
  destructors return, sends return while there is somebody at the other end.
  Around this exchange, servers and clients find each other by a name that
  crashes leave behind and that nobody owns, and slots are registered while the
  receive thread looks them up. Correct: the name leads to the server that is
  up, a slot gets messages of its type only, and is there when they come.
- **User actions.** A thread asks with the mutex of the action held; responses
  come on another thread, which needs the same mutex, in any order and possibly
  before `async` has returned. Correct: each action is served and answered once,
  with the error or the response found for it, its handler is there when the
  response comes, nobody waits for ever.
- **Log client.** Handlers of an old connection run after the new one exists;
  several of them reconnect; the destructor races with all of them. Correct:
  messages are written once and in order, none stays behind, the client
  reconnects, the destructor returns.
- **Log server.** The I/O thread starts before there is work for it; sessions
  keep themselves alive by the handlers that wait; subscribers come and go on
  other threads. Correct: each message reaches each subscriber once and in the
  order of its connection, sessions end with their connection, the destructor
  returns and nothing is notified after it.
- **Log messages.** A text is framed by its size, cut up by TCP, put together
  again and parsed; what cannot be written or parsed becomes a message of its
  own; times and stack traces travel as hexadecimal digits. Correct: each session
  hands out whole messages, with all their members and none between left out,
  wherever a connection ends.
- **Logger.** A static instance created on demand under a mutex that logging
  itself takes, deleted at exit without it.
- **Daemon.** A lock on a file that is removed by name, signals between any two
  steps, crashes that leave files behind. Correct: one daemon at a time as long
  as the name is kept, the pid in the file is its owner's, nothing is left
  behind, a daemon that is told to end ends.

`PROJECT.json` lists every component with what is modelled of it, and every
hazard with the line where it bites and the properties that would catch it.

## 2. Modules

| Module | Role |
|---|---|
| `Channel` | abstract: a mailbox of one place, what one direction of an endpoint promises |
| `Endpoint` | the endpoint, one action per semaphore operation; implements `Channel` in each direction |
| `MessageFactory` | the registry of message types and the conversions, as operators |
| `EndpointSetup` | names, constructors, destructors and crashes of endpoints, slots and exception handlers, for servers and clients that come and go |
| `Rpc` | abstract: actions are asked for, served and answered once, with a response or an error |
| `UserActions` | the user actions over two instances of `Channel`; implements `Rpc` |
| `LogClient` | the log client, one action per handler of its event loop, with the kernel's socket and the server |
| `LogServer` | the log server, its sessions and subscribers, one action per handler, with the kernel and the clients |
| `LogMessage` | log messages, exceptions in them, and the formatter of their stack traces, as operators |
| `LogWire` | the bytes of log messages between a client, its connections and the sessions of the server |
| `Logger` | the logger of a process: its mutex, its fallback files, the exit of the process |
| `Daemon` | invocations of a daemon, their lock file, their signals |
| `MCEndpoint`, `MCEndpointSetup`, `MCUserActions`, `MCLogWire`, `MCDaemon` | values of the constants for TLC |
| `EndpointProofs`, `EndpointSetupProofs`, `UserActionsProofs`, `LogClientProofs`, `LogServerProofs`, `LogWireProofs`, `LoggerProofs`, `DaemonProofs` | theorems about the module each is named after, and their proofs |

`UserActions` composes the client, the server and both directions between them:
where it sends, it takes a `Put` step of a `Channel`, whose place is occupied
until the slot of the message returns. `Endpoint` shows that the buffers and
semaphores implement just that. `LogWire` composes the ends of a log connection:
of `LogClient` and `LogServer`, which follow the threads and handlers of each end
and not what is sent, it takes one write at a time and one read per session.

### Endpoint

Threads are the user threads (`Threads`, each sending on `Home[t]`) and one
receive thread per endpoint, named like the endpoint. `send_pc`, `recv_pc` and
`life` are where each thread is in `send`, `M_receiveThread` and in the life of
the object; `mutex`, `sem_empty`, `sem_full`, `shutdown`, `buffer` are the fields
of `SharedBuffer`, per direction. Each wait and each post of a semaphore is an
action of its own (`SendWaitEmpty`, `SendWaitMutex`, `SendWrite`,
`SendPostMutex`, `SendPostFull`; `RecvWaitFull` to `RecvPostEmpty`;
`BeginDestroy`, `WakeReceiver`, `FinishDestroy`). `SendThrow` is a `serialize`
or a size check that throws between the waits and the posts. The test of the
shutdown flag, the construction of the message and the call of its slot are one
step of the receive thread. A slot of an
endpoint in `Replying` may call `send`, with the mutex of its buffer held.
`Overlap` says whether a client may be opened while another one is alive: the
test that forbids it is commented out in the constructor. The history variables
`written`, `received`, `unread`, `wedged` are not in the code.

The behaviour starts when the constructor of the server endpoint has returned.
Endpoints are only destroyed by their owner once none of its threads is in
`send`. Whoever opens the segment finds it until the server's destructor has
removed the name, and keeps the mapping afterwards.

### MessageFactory and EndpointSetup

A registry is the pair of maps of `MessageFactory`; a message is its identifier
and the set of its members. `construct` gives the type of what is constructed,
or `Nothing` where the code throws.

`EndpointSetup` has two programs with a registry each. `path` is the server whose
segment has the name, `segment` how far each segment is: created without a
length, sized and full of zeros, ready, destroyed. The constructor of a server is
`RemoveOldName`, `CreateSegment`, `Truncate`, `ConstructShared`, its destructor
`BeginDestroy`, `JoinServer`, `RemoveName`, and `Crash` kills it anywhere. A
client opens whatever has the name (`Open`); one that maps the segment before
the server has constructed anything in it may work or hang (`undefined`).
`registerSlot` and `registerExceptionHandler` are not locked: a lookup of the
receive thread that a registration meets may find the slot, miss it or be
undefined (`thread` is `races`), and a handler that is replaced while it runs is
undefined. `address` and `endpoints` are for `Internals::endpoints`, a set of
pointers that outlives what they point to.

Each direction of a segment is a place for one message, as `Channel` allows; what
a handover leaves in the semaphores is in `Endpoint`. Each client asks for one
action. A program registers a type again before it has endpoints, once
(`RegisterMessageType`): the maps are static and not locked either. Detached
threads of a server answer only while its endpoint is there. Two clients may have
one segment, at once or one after the other, and then the receive thread of either
takes what is in it: a response that another client than the one that asked takes,
and has no slot for, is dropped (`overheard`). `Before` fixes the
order in which servers, and clients, are created; they are alike, so nothing is
lost.

### UserActions

`async` is `BeginAsync`, `AsyncLock`, `AsyncRegister`, `AsyncSend`, `AsyncUnlock`;
the response goes through `ResponseArrives`, `HandlerLock`, `FindHandler`,
`HandlerReturns` or `HandlerThrows`, `HandlerUnlock`, `SlotReturns`. On the
server a slot starts a detached thread per request (`StartWorker`), which
answers at any later time (`WorkerAnswers`), so responses overtake each other.
A response is an id and whether it is an error, which `error.set` tells: an
`Error` made without a message is not set, so it counts as a response. A handler
may start actions on the receive thread (`Follow`); if they are of its own kind,
the thread waits for a mutex that it holds itself (`WaitsForItself`). For the
kinds in `Unsendable` a send may throw, in `serialize` or in the size check, when it
has taken both semaphores of the buffer: in `async` the handler stays in the map,
the `lock_guard` frees the mutex, and nothing is sent any more (`AsyncThrow`,
`unsent`); in a detached thread of the server the exception ends its process
(`WorkerThrows`, `lost`). In both cases the destructor at the other side never
returns. Callers catch what `async` throws; a handler may let it out. The client's
endpoint is destroyed when the application's threads have left `async`, the
server's at any time: a detached thread that is left then uses a deleted endpoint,
and is not followed any further.

### LogClient

`ready` is the FIFO of handlers of the `io_context`: completed operations and
posted functions. Each action of the I/O thread takes the head and runs the
whole handler. `connecting`, `reads`, `writes` are the operations that wait on
the socket, `sock` is the state the kernel has it in. Closing the socket, which
a new connect does too, completes them with an error. A write into a connection
that the server has closed is taken by the kernel and lost (`WriteIntoTheVoid`).
`attempt` is one bit that tells one connect operation from the next, so that
fairness can be stated per operation. Reads of `m_connected` and
`m_message_queue` in the destructor are atomic. The user's thread sends and then
destroys the client.

### LogServer

`ready` is again the FIFO of handlers; `accepting` and `reading` are the
operations that wait. The I/O thread runs a handler at a time; the handler of a
message takes a step for each subscriber (`HandleData`, `Notify`, `EndNotify`),
since `m_subscribers` is not locked and the user's thread may change it in
between. A subscriber enters the set when its base class is constructed and
leaves it when that is destroyed, so there are moments when only the base class
is there (`partial`) and notifying it calls a pure virtual function
(`NotifyPartial`). Where the threads race the outcome is either what the steps
say or `undefined`, after which the I/O thread is not followed any further.
`attached` are the subscribers whose `m_server` is set: the destructor resets it,
so they may outlive the server (`Orphan`). The event loop ends when it has
nothing to do, also at the very start (`IoThreadStarts`): the thread is created
before the constructor asks for the first connection. A message is two parts, a
header and its data; what they contain is in `LogWire`. Clients send, close or
lose the connection between any two parts.

### LogMessage and LogWire

`LogMessage` has the two constructors of a message, `serialize` and `synthetize`
with what they make of an exception, and the loop of `plain_light` that indents
the lines of a stack trace. A character is a byte of two hexadecimal digits; JSON
is a record of the members that are bound, as the JSON library is not in the
repository; a text that is not JSON is kept as it is. A frame of a stack is a line
that is not empty, as the stack trace library writes its number first; the
indentation depends on that, since the search for newlines begins behind the first
character.

In `LogWire` a byte of a connection is a digit of a header or a byte of a text.
`Log` builds and serializes a message, puts the header before it and posts the
handler that will queue it (`posted`); `HandleMessage` is that handler, on the I/O
thread. `WriteSome` gives the kernel any number of the bytes of the frame at the
head of the queue; `Lose` ends a connection after any byte of what is under way.
`NoticeEnd` stands for the handlers that see it: the client connects again, and
what was not written whole is still at the head of the queue and is written to the
next connection from its beginning. `Destroy` waits for the queue of a connected
client and sets `m_terminate`; it does not see what is still posted, nor does it
wait without a connection (`left` records what it leaves behind). `CloseSocket` is
the handler that it posts. A session reads `HeaderSize` bytes, then as many as `atoi` makes of
them (`ReadHeader`, `ReadMessage`, `ReadError`), and a message is made of the text
and given to the subscribers (`got`). A size with too many digits overflows the
array of `Client::send`: the client is then undefined or goes on with a longer
header. When a connection ends while messages are queued, the failed read and the
failed write may each start to connect, which leaves the client with two write loops
for one queue (`LogClient` follows them). They write the same head to the same
socket, so a frame may be repeated or mixed with another one. Here such a client is
`broken` and not followed: nothing is claimed of what it sends from there on.

### Logger

`m_mutex` is the thread that holds it. A call waits for it, does its work and
returns; `LESF_LOG` looks at `m_inst` before that, without the mutex. The client
may fail to be created, `send` may throw, the message may fail to be built, and
the fallback file may fail to open. Files are known by their prefix: `text` is
what was written to each, `exists` the ones that have a name. A second `init`
replaces the logger and leaks the first. Before `init`, `M_maybeInstanciate` logs
while its thread holds the mutex, which is not recursive: the thread stays at
`relocks`. At exit a static object deletes the logger without the mutex and keeps
the pointer. No thread calls `init` once the process exits.

### Daemon

Each invocation is a process with a main thread; `handler[d]` is the signal
handler that interrupts it, if any, and the place it has reached. A handler for
SIGINT or SIGTERM runs the cleanup, stops the service and returns to the main
program, which cleans up again; the one for SIGSEGV cleans up and raises
SIGABRT, whose handler does so once more and dies. Signals come at any step once
the handlers are installed, kills at any step. `files`, `path` are the file
system: a file keeps its lock and its text when its name goes away. `lockf`
unlocks from the current offset, the end of the pid just written, so the bytes
before it stay locked until the file is closed: `Unlock` changes nothing. The
pid is written over the first digits of the file, which is not truncated. Not
modelled: a write of the pid that fails; SIGINT during the handler of SIGTERM
and the like; the restart of the service, which changes nothing here. The two
forks and the standard streams are one step, which may fail. The service itself
is the user's: it stops when told to, may end on its own and may crash.

## 3. Runs

| Run | Instance | Shows |
|---|---|---|
| `ep_core` | server, 1 client, 2 client threads and 1 server thread, 2 calls each, server slots that send | each direction implements `Channel` |
| `ep_overlap` | server, 2 clients alive at once, one thread each and one for the server, 1 call, sends of the second client may throw | `BufferExclusive`, `TokenConservation` |
| `ep_live` | the same, clients one after the other, no throw, fairness | `StopsForItsOwner`, `DestructorReturns`, `MessagesGetThrough` (messages to a client after the first may be overwritten untaken) |
| `es_setup` | 2 servers, 2 clients at 2 addresses, 1 crash, an exception handler on the first server, the server's responses under another identifier | `SlotsGetTheirType`, `NameIsTheServers`, `SlotsAreReady` |
| `ua_calls` | 3 threads, 2 kinds, handlers that ask for more and that throw, errors, sends of one kind that throw, endpoints destroyed | `HandlersAwaitAnswers`, `CallsImplementRpc`, `EveryCallAnswered` |
| `lc_client` | 2 messages, 2 closed connections, 3 connections made | `WrittenInOrder`, `OneChainPerFailure`, `EverythingDelivered`, `DestructorReturns` |
| `ls_server` | 2 connections, 4 parts of messages, 1 subscriber, 1 failure of accept | `OneReadPerSession`, `NotifiedInOrder`, `SilentWhenDestroyed`, `DestructorReturns`, `MessagesReachSubscribers` |
| `lw_wire` | 2 messages out of 6 kinds, 2 connections, headers of 2 digits | `SessionsGetRuns`, `TracesShown`, `EverythingArrives` |
| `lg_logger` | 2 threads that log twice each, 2 calls of init, 2 files | `MessagesKept`, `NoEmptyFileLeft`, `CallsReturn` |
| `dm_signals` | 2 invocations, pids of one and two digits, no file or one with three digits | `PidInFile`, `OneDaemonUntilUnlink`, `NothingLeftBehind`, `EndsWhenTold` |
| `lc_livelock` | 1 message, 1 closed connection | violates `RegainsConnection` |
| `ls_accept` | 1 connection | violates `ConnectionsAccepted` |

### Bounds

- Endpoint: two clients are enough for a handover and for an overlap, three
  threads for two senders that compete for a buffer while the other direction
  is in use; the second call of a thread meets what the first has left. The
  theorems of section 5 hold for any number of each.
- EndpointSetup: two servers are the first that follow or overlap each other, two
  clients the first that share a server, follow each other at one address or are
  answered by one another's slots, with two addresses that they may have in turn
  or at once (addresses are only compared, so they are symmetric). Of the
  identifiers one is not used by the library, for a type registered again.
- UserActions: two callers of one kind compete for its mutex and for the ids;
  one of another kind overtakes them; the handlers of one kind ask for the other,
  those of the other for either.
- LogClient: two messages make a queue with a head and a rest; two closed
  connections are the first that let two reconnection loops meet.
- LogServer: four parts are two messages of one connection, or one of each, with
  a break after any part; one subscriber comes and goes once, and the
  subscribers do not depend on each other; a second failure of accept cannot
  happen, as the first ends the loop.
- LogWire: digits are binary and headers have two, so that sizes of 1 to 3 bytes
  fit and 4 does not; two messages make a frame that has another one in front or
  behind it, and two connections one that a message which was cut is written to
  again; messages have no exception, one without a stack, and stacks of one and two
  frames.
- Logger: a second call of init is the first that replaces a logger, with its
  file or with another one; a thread's second message meets what its first has
  left.
- Daemon: two invocations compete, and each may run, clean up once or twice and
  be interrupted anywhere.

`CHECK_DEADLOCK FALSE` stands in every configuration: all these systems stop,
once calls, messages or invocations are used up and the objects are destroyed.

### Fairness

- `Endpoint`: weak fairness of each thread's steps inside `send`,
  `M_receiveThread` and a destructor. Nobody has to call anything. A semaphore is
  not fair in general; calls are bounded, so nobody can overtake a waiting
  thread for ever, and weak fairness assumes no more than that the operating
  system runs every thread.
- `UserActions`: the same; in addition the handlers of the user return.
- `LogClient`: the I/O thread runs, the destructor runs, an operation that is
  left alone completes. A connect operation that is given up for another one
  need not: the network may take longer than the delay of 10 ms.
- `LogServer`: both threads run, subscribers return, and an operation whose data
  or connection is there completes. Nothing makes clients or users do anything.
- `LogWire`: weak fairness of each of the two I/O threads as a whole, together with
  the network: as long as one of its handlers can run, one does. So a connection is
  made while the client waits for one, and bytes that are there are read. Nothing
  makes anyone log, lose a connection or destroy the client.
- `Logger`: threads run inside their calls. A mutex is not fair; calls are
  bounded, so weak fairness is enough.
- `Daemon`: processes run, and a service that was told to stop returns from
  `run`. Nothing makes a signal come.

## 4. Where code and comments disagree

Each is shown by a run whose property states the comment:

- **`lc_livelock`.** The handlers of a failed read and of a failed write both
  reconnect, so that there are two loops; each attempt of one closes the socket
  of the other, and a client that is to "attempt to regain the connection
  indefinitely" never regains it.
- **`ls_accept`.** The log server starts its I/O thread before it asks for a
  connection. If the thread is faster, its event loop finds nothing to do and
  ends: "Multiple clients can connect/disconnect at any time", but none is ever
  accepted.

Others that the models contain but no run singles out: a second client is not
refused although `endpoint.h:34` says only one may be connected; the server's
destructor does not wait for its client (`endpoint.h:53`); the constructor of a
server removes an existing name instead of refusing it (`endpoint.h:49`), and the
destructor of a server removes the name even if it is another one's by then; each
destructor leaves a token in the semaphores that no message stands for, so that
messages to the next client may be overwritten before it has read them; an
endpoint at the address of a deleted one gets no slot for its responses; a daemon
gives up the lock before it removes the file by name, so that another one may
hold the lock of a file without a name while a third one creates and locks a new
one; a log message of more bytes than the digits of a header can tell overflows
an array; a log message written to a half-closed connection is lost; after a
write error two write loops may run; a send that throws keeps the mutex of its buffer, so that the receive thread and
the destructor at the other side wait for ever; the destructor of the log client
waits "until all messages have been sent" (`client.cpp:62`), but does not see
those whose handler has not run yet (`left` in `LogWire`); a message logged before `init` hangs, although
`logger.h:98` says that the logger "will be initialized at the first log
request"; a fallback file that cannot be opened swallows messages, although
`logger.h:109` says that the program terminates.

## 5. Proofs

TLAPS checks the theorems below for every value of the constants that satisfies
the assumptions of the modules. These say no more than what the parameters are:
one server, and threads that belong to endpoints (`EndpointAssumption`); nobody
and nothing that are not something else (`NoMessageAssumption`,
`MessageFactoryAssumption`, and part of `EndpointSetupAssumption`,
`UserActionsAssumption`, `LogServerAssumption`, `LoggerAssumption`); bounds that
are natural numbers (`LogClientAssumption` and the others); pids and an old file
that are sequences of digits (`DaemonAssumption`); digits of which there are at
least two, a header that has some, texts that are not empty, and stacks of frames as
in section 2 (`LogMessageAssumption`, `LogWireAssumption`).
`FinitenessAssumption` (finitely many clients and threads) is used for the
cardinalities of `EndpointProofs` alone. The bounds of calls, messages, failures
and crashes are constants, so the theorems hold for any number of them.

Each module has an inductive invariant, `IInv` in the newer ones, that TLC has
checked on the instance of the run before it was proved. A lemma per part says
that steps preserve it, with a step per action.

`EndpointProofs`:

- `TypeCorrect`: `TypeOK`, strengthened by `CallsInv` (a call that has not
  written its message yet is within the bound).
- `MutualExclusion`: `BufferExclusive`. It is inductive together with "the mutex
  is at most one and is zero while a thread holds it" (`MutexInv`). A throwing
  send leaves the mutex at zero with nobody inside, so it is not an equivalence.
- `StopsOnlyForOwner`: `StopsForItsOwner`, if clients do not overlap. It needs
  `EndpointInv`: how the life of an endpoint, its receive thread and the shutdown
  flag go together (`LifeInv`, `FlagInv`), and that the flag belongs to the only
  client there is (`SoleFlagInv`). With clients that overlap it is false.
- `RequestsRefinement`, `ResponsesRefinement`: the buffers implement `Channel`.
  The invariant is `OpenInv`: while the receiving side is open there is one
  token in the semaphores and the threads of the buffer (`OneToken`), the token
  tells whether the buffer holds an unread message (`UnreadInv`), and what was
  written is what was received plus that message (`OrderInv`). The responses
  need a single client: after a handover there are two tokens.
- `TokensConserved`: `TokenConservation`, by `Balance` for each buffer and
  `WedgedInv` (at most one thrown send ever keeps a buffer's semaphores).

`DaemonProofs`:

- `TypeCorrect`: `TypeOK`, with `DescriptorInv`, which says where the file is
  open and where handlers may find the main program.
- `PidStaysInFile`: `PidInFile`, from `LockInv` (a daemon past the lock is the
  holder of the lock of its file, and only such daemons hold locks) and `PidInv`.
- `LockKeepsDaemonsApart`: `OneDaemonUntilUnlink`, for any number of daemons:
  `NameInv` says that there is only one file before the first removal.
- `LockFileRemoved`: `NothingLeftBehind`. `RemovalInv` names a daemon that will
  still remove the file: one that was refused the lock hands this on to the
  holder, whose cleanup is still to come, once or twice.

`EndpointSetupProofs`, for any servers, clients, addresses, crashes and types that
are registered again:

- `TypeCorrect`: `TypeOK`, with `BoxInv` for what is under way in the segments.
- `SlotsTyped`: `SlotsGetTheirType`, with `RegistryInv`: a type that is registered
  again gets another identifier, and the constructor of an identifier stays.
- `NameFollowsServer`: `NameIsTheServers`. Alone it says nothing of a server
  whose constructor is under way; `NameInv` follows the only server there is from
  the removal of an old name to its own segment, by what each step has made of
  it, until it closes or crashes.
- `SlotsInTime`: `SlotsAreReady`. Its exceptions are stated with it, and proved to be
  the only ones: an address that was another endpoint's, types registered again, a
  lookup that runs into a registration, and a segment that another client has as
  well, whose receive thread takes the response. That the last is never the fate of
  a client that has its segment for itself is `BoxInv`: a response in a segment is
  that of a client that has mapped it. `ReadyInv` says that messages are what the
  programs as shipped send, that the server has its slot once a client was
  prepared and that a client has its slot for as long as it has a call;
  `MappedInv`, `ThreadInv` (who looks up a slot has the buffer for itself) and
  `AddressInv` (an address that `async` finds in its set is one that a client has
  had) carry it.

`UserActionsProofs`, for any threads, kinds and calls:

- `TypeCorrect`: `TypeOK`, of which `HeldInside` says that a mutex is held by a thread
  inside its scope.
- `EveryAnswerAwaited`: `HandlersAwaitAnswers`, which is inductive with the
  numbers of calls that are not used yet (`NumberInv`), what a thread has
  prepared when it sends (`AsyncInv`), and `StageInv`: what the server has taken
  is in its slot, in one thread, or served, never two of them.
- `ImplementsRpc`: `CallsImplementRpc`, the refinement of `Rpc` step by step. It
  needs the same invariant and `AnswersInv`: a response whose handler was called
  does not come back.

`LogClientProofs`, for any messages, connections and connections that end:

- `TypeCorrect`: `TypeOK`, which says that the queue holds consecutive messages, also
  when connections end and loops multiply. `QueueInv` extends it to the handlers that
  are posted: from some message on (`NumberedFrom`), queue and handlers together hold
  each one up to the last that was sent, in order.
- `OneLoopPerFailure`: `OneChainPerFailure`, a count over the handlers that are
  ready, through lemmas about what closing the socket, connecting and writing add
  to them (`Count`) and what taking the head removes.
- `FirstConnectionInOrder`: `WrittenInOrder`. Until a connection ends there is one
  loop (`SocketInv`) and one write, that of the head of the queue (`WriteInv`);
  `OrderInv` follows the messages from the posted handlers to the queue and to
  the socket, where the head counts as written or not depending on a completion
  that nobody has handled yet (`Popped`).

`LogServerProofs`, for any connections, subscribers, messages and failures:

- `TypeCorrect`: `TypeOK`.
- `SessionsRead`: `OneReadPerSession`. `ReadsInv` says the same without counting,
  and that a connection is given a session once (`AcceptInv`, `WaitingInv`).
- `InOrder`: `NotifiedInOrder`. `StreamInv` and `FrameInv` tell from the parts
  that a connection has sent and has left where its session stands between
  header and data, and so which message is next; `LastInv` relates that message
  to the last one a subscriber has got, while it is read, ready, or given to
  some subscribers and not yet to others.
- `QuietAfterDestructor`: the action property `SilentWhenDestroyed`, from
  `ThreadsInv`: the I/O thread has ended, and nobody is attached or half
  constructed.

`LoggerProofs`, for any threads, calls and files:

- `TypeCorrect`: `TypeOK`, with `MutexInv` and `JobInv`.
- `LoggedIsKept`: `MessagesKept`. `KeptInv` extends it to a thread inside a call of
  `init`, whose last message is done with, and `FilesInv` says that what is
  written is in a file that has its name.
- `EmptyFileRemoved`: `NoEmptyFileLeft`. What the destructor has measured still
  holds when it removes the file (`MeasureInv`), since every other thread is idle
  by then (`ExitInv`), unless one was logging at the exit.

`LogWireProofs`, for any messages, sizes, connections and places where these end, and
any number of digits in a byte, a header and a size:

- `TypeCorrect`: `TypeOK`, with `TypeInv`, `ConnInv` and `LoggedInv`: each message
  that was logged is what `Log` makes of an entry. `QueueInv` says that the queue and
  the posted handlers behind it hold the messages from `Current` to the last one
  that was logged, which no step but the end of a frame changes.
- `RunsReceived`: `SessionsGetRuns`, over any number of connections that end and of
  messages that are written again, for a client with one write loop. A property of what was handed out says nothing of
  the bytes on their way, so it is not inductive. `StreamInv` gives every frame its
  place among all the bytes that were ever to be written (`Offsets`), and says of each
  session that is still in step that the bytes on its connection are those of the
  frames from the place up to which it has read (`InPlace`), and, while the client
  writes to it, that they reach up to the place that is written next. A session is in
  step until it meets a size with too many digits. The lemma of each action moves one
  end of that window; `HeaderNext` and `TextNext` say that what a session then
  reads is one whole header, of which `atoi` makes the size again (`HeaderRead`), and
  one whole text, of which `synthetize` makes the message again (`LoggedRead`,
  `HexUndone`).
- `TracesIndented`: `TracesShown`. It follows from `SessionsGetRuns` and `LoggedInv`,
  and from what the conversions do with any stack: `StackShown` says that
  `IndentTrace` turns the text of a stack of any frames into its lines, each
  indented. `LineShown` shows this for one frame after the other, up to the newline
  behind it, and `FrameShown` for the characters of a frame.

These are inductions over digits, characters and frames. The provers cannot use an
induction rule that takes a formula as a parameter; here it is a lemma about sets
(`NatInd`): a set with 0, and with the successors of its elements, has all natural
numbers, since the ones it lacks would have a smallest one. Where a function is
defined by recursion (`Power`, `atoi`, `FlattenSeq`), lemmas first show that there
is a function with the equation of the definition (`RecursionExists`, `PowerDefined`,
`AtoiDefined`, `FlattenDefined`), and only then use it.

Only model-checked:

- Every liveness property (`DestructorReturns`, `EverythingDelivered`,
  `EveryCallAnswered`, `EverythingArrives` and the others that section 3 assumes
  fairness for), and the two that the code violates: liveness under fairness is beyond
  the prover.

## 6. Not modelled

- The JSON library (libconf), which is not in the repository: what is bound is
  written and read back, and reading throws when a member is missing.
- The layout of formatted messages and of exceptions, the formatter `raw`, which
  prints what `serialize` returns, and the static conversions of actions to and
  from JSON text for a command line (`constructParams`, `serializeResponse`): no
  state, and nothing that depends on more than their argument.
- The macros of `core/preprocessor.h` and of `user_actions.h` that declare
  members: they expand at compile time.
- The system calls of `daemonize` before the lock file in detail.
- A host name that cannot be resolved: `resolve` throws then, in the constructor of
  the log client or, when it reconnects, on its I/O thread, which ends the process.
- In `LogWire`, what a client with two write loops sends (section 2); the loops
  themselves are in `LogClient`.
- The examples, except for when `ipc_cmd` destroys its endpoints.
- What follows undefined behaviour: the models say where it begins, and the
  thread, endpoint or client concerned takes no further part.

## 7. Plan

The components are modelled, and their safety properties are proved. What could be
added:

1. The order in which messages of one client reach a subscriber over several
   connections, from the order within each (`NotifiedInOrder`, `SessionsGetRuns`).
2. Invariants that are stronger than the properties say, for instance the order
   of log messages after a connection has ended, of which `WrittenInOrder` says
   nothing because the code does not keep it in general.
