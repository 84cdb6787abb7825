# Verification of the resource mesh portal

TLA+ models of the Rust workspace under `src/rust`, TLC configurations that
check them on small instances, and TLAPS proofs for every instance. Paths
below are relative to `src/rust/resource-mesh-portal-*/src/lib.rs`, so that
`api-client:364` is line 364 of the client's library; `serde` is
`resource-mesh-portal-serde/src/version/v0_0_1/mod.rs`.

## The system

A *portal* connects a program to a resource mesh. The program runs a client
portal; the mesh's host runs a server portal for each client and a muxer that
passes messages between its portals and a router. Client and server speak
frames over TCP after a handshake in strings.

```
 program                                    host
 ctrl, ports                                Router
    |                                          |
 client Portal --inlet--> TCP --reader--> server Portal --mux--> PortalMuxer
    ^                                          |
    +------outlet-------- TCP <--writer--------+
```

| Component | State it keeps | Operations | Talks to |
|---|---|---|---|
| client portal (`api-client`) | status, table of exchanges (id to oneshot sender), one task per request | `Portal::new`, `receive`, `set_status`, `notify`, `exchange`, `respond` | inlet (bounded channel, `try_send`), user code, mesh |
| server portal (`api-server:53-236`) | pump task, portal task, table of exchanges, four bounded channels | `new`, `send`, `exchange`, `shutdown`; frames in, frames out | reader and writer of the tcp-server, muxer |
| server portal's `init` (`api-server:238-316`) | status, broadcast of statuses, a listening task | `init` | portal task, far end |
| muxer (`api-server:379-509`) | table of portals, two address tables | `Add`, `Remove`, `Select`, `MessageIn`, `MessageOut` | portals, router |
| tcp server (`tcp-server`) | `alive`, events broadcast, calls, current connection | accept loop, handshake, `ListenEvents`, `InjectMessage`, `Shutdown` | clients, muxer |
| tcp client (`tcp-client`) | handshake position, two tasks | `PortalTcpClient::new`, `TcpInlet::send_frame` | tcp server, client portal |
| frame streams (`tcp-common`, `serde:237-262`) | bytes on the way | read and write of frames and strings | TCP |
| message conversion (`serde/message.rs`) | none | conversions between mesh messages and frames | portal task, muxer, router |
| addresses, versions, kinds (`serde:30-184`, `parse.rs`) | none | `from_str`, `to_string`, `parent` | whoever keeps them as text |
| wire types (`serde`, `latest.rs`) | none | data and re-exports | |
| test mesh (`api-test`) | the router's tasks | a router, a server, two clients, a control | all of the above |

What makes each correct, in short:

- **client portal**: a caller gets the response to its own request, once, or an
  error; a response that a Ready portal receives is not lost to a caller who still
  waits for it; the mesh never gets two responses to one request. (It may get
  none: a full inlet drops what it is given, `tcp-client:136`.)
- **server portal**: frames keep their order and none is repeated; a frame is
  lost on the way in only by finding the inlet full, which ends the reader
  (`tcp-server:219-223`), so that none follows it; a slow muxer or far end does not
  stop the portal; its tasks end with it; the far end hears the Init before
  anything but what the owner sends himself.
- **init**: Ok means Ready; init() sends one Init; the wait ends.
- **muxer**: every portal that is made gets into it.
- **mesh**: a request reaches those it names, with its sender's name, and gets at
  most one response, which finds its way back to the one who asked.
- **identifiers**: a text is read as its grammar says, and no value that was
  printed is read as another.
- **tcp server**: a shutdown ends it once it is bound, unless a client stalls it;
  who gets a subscription is ahead of the shutdown; after Done or Panic only a
  shutdown that comes too late is announced.
- **handshake**: both ends agree on whether it succeeded, and neither hangs.
- **streams**: frames come out as they went in, up to a break.

Four of these the code does not meet, as the runs show: that the wait of `init` ends,
that every portal gets into the muxer, that a response finds its way back through
the mesh, and that a caller gets its response in `ctrl.init()`.

The hard behaviours are the interleavings of tasks through bounded channels
(some `send`, some `send_timeout`, some `try_send`), timers against late
answers, callers that drop a future, connections that break anywhere, and the
order of a shutdown against everything else. Nothing is persisted, so there is
no recovery. `PROJECT.json` lists the hazards line by line.

## How the commit is read

The commit is work in progress and does not build as it stands: `api-server`
names `inlet::Message` and `outlet::Message` (323, 464), which are those of its
own module `message` (327-366) and are read so; `tcp-server` imports `Message`
from it; `Version::from_str` borrows a local string as `'static` (`serde:170`) and is
read without the annotation; `api-client:172` has `receive` take `&mut self` of a `Portal` that
`Portal::new` hands out as an `Arc`. No line of the repository calls the
client's `receive`, the server's `Portal::init`, `send` or `exchange`, or sets a
status to Ready; these are the embedding program's to call, and the models let
it do so as the signatures allow.

## Modules

| Module | Models | State and actions in the code |
|---|---|---|
| `ApiClient` | client portal on the tcp-client's inlet | `exchanges`, `slot`: the table and the oneshot channels; `call`: each `exchange()` (an exchange id is a fresh uuid, so a call stands for its id). `ExchangeInsert`, `ExchangeSend`, `ExchangeAnswered`, `ExchangeTimeout`, `ExchangeDropped` are `exchange()` cut where another thread can run; `Receive*` are the branches of `receive()`, a response's cut in three: `ReceiveResponse` looks at the status, `TakeSender` takes from the table, `SendToCaller` sends, and a timeout may fire in between. `Handle*` are the branches of the task it spawns, `Respond` what they say; `received` is a history of the responses a Ready portal received; `SetStatusWrite`, `SetStatusSend` the two halves of `set_status`. The mesh and the transport (`TakeFrame`, `Mesh*`) are the environment. |
| `ExchangeContract` | what an exchange promises its caller | abstract: ask, issue, answer, fail |
| `ApiClientProofs` | the theorems about `ApiClient` | |
| `ServerPortal` | server portal with the tcp-server's reader and writer | one variable for each channel and task. `Pump*` is the pump; `TaskInit`, `TaskRecv`, `TaskSend`, `TaskSendFails`, `TaskEnds` the portal task, a request's sends being the list `todo`; `ExchangeCall` and what follows is `Portal::exchange`; `SendDirect` is `send` and `shutdown`. `wire` holds every frame the reader has read, the one it loses included; two histories count: `accepted` the frames the inlet took, `seen` those the portal task has received. |
| `ServerPortalProofs` | the theorems about `ServerPortal` | |
| `PortalInit` | `Portal::init` | `published`, `from`, `next`: the broadcast ring as its whole history and a listener's place in it; `Init*` the caller, `Listen*` the task, which speaks to the caller through the oneshot `answer`: `Answer` is its send (and the panic of `expect()` when the caller has gone), `InitReturns` the caller's wake-up, `ListenCancelled` a task that goes with its runtime and drops the sender |
| `PortalInitProofs` | the theorems about `PortalInit` | |
| `PortalMuxer` | the muxer's task | `muxq`, `portals`; `MuxerHandles` its one call, `MuxerEnds` its end |
| `TcpServer` | tcp server; extends `PortalMuxer` | `main`: the thread, through `start()` and `handle()`; `callTask`, `callq`: the calls; `events`: all that was broadcast. The handshake's contents are left to `Connection`. |
| `TcpServerProofs` | the theorems about `TcpServer` | |
| `Connection` | handshake of one client and one server | `client`, `server`: how far each is; `toServer`, `toClient`: strings and frames on their way |
| `ConnectionProofs` | the theorems about `Connection` | |
| `FrameStream` | one direction of a connection | size and bytes as units, known by their place: the i-th of the n-th frame; `Write*`, `Read*`, `Break` |
| `FrameStreamProofs` | the theorems about `FrameStream` | |
| `FrameChannel` | what a frame stream promises | abstract: write, read |
| `IdText` | addresses, specifics and versions as text | `held`: the value or the text a program has. `ParseVersion`, `ParseSpecific`, `ParseAddress` are the parsers on sequences of characters, `FromStr` and `TextOf` what `from_str` and `to_string` make of them; `PrintOut`, `Read`, `TakeParent` call them, `Edit` is whoever changes the text in between |
| `IdTextProofs` | the theorems about `IdText` | |
| `Mesh` | requests between the clients of one host | `up`, `mux`, `muxq`, `down`: the channels from client to server portal, to the host, from the router, and back; `tasks`: the router's, one for each message; `sent`, `call`, `answer`, `handling`: the clients; `delivered`, `responded`: histories. `RequestFrom`, `RequestInto`, `TryInto`, `ResponseInto` are the conversions of `message.rs`; `Taken` says to which recipients the portal task sends a copy before its mux has no more room |
| `MeshProofs` | the theorems about `Mesh` | |
| `MC*` | constants for TLC that a configuration cannot write | |

`FrameStream` implements `FrameChannel`; `Connection` uses streams as queues of
whole messages with a suffix lost at a break, which is what `FrameChannel`
promises. `TcpServer` and `PortalMuxer` are composed and run as one. `Mesh`
composes what the single portals leave open: it takes each portal in one step
and every channel as one that may lose what it is offered, which is what
`ApiClient` and `ServerPortal` do in detail, and from end to end it implements
the same `ExchangeContract` that `ApiClient` implements alone.

`PortalMuxer` ends after one call, so no request would pass it. In `Mesh` its
place is taken by the *host*, the program that embeds the portals: `mux_rx` of a
`Portal`, `Portal::send` and `Router::route` are public, and the host is taken to
do for every call what the muxer's branches do for one (`api-server:456-508`).
That it goes on to the next call is the host's, not the muxer's.

Several modules hold operators whose comment begins with *Fault*: each is an
operation with a plausible bug. They are in no specification; `PROJECT.json`
pairs each with the property that must fail when it takes the operation's place.

## Runs

| Run | Configuration | What is asked | Result |
|---|---|---|---|
| `client` | 2 exchanges, 2 responses each, a request of any operation and kind, a frame that is ignored, a portal that becomes Ready at any time, inlet and outlet of 1, fair | `WaitingIsRegistered`, `ResponseReachesCaller`, `LeaksOnlyUnanswered`, `OneResponseAtMost`, `ExchangeInv` (the inductive invariant), refinement of `ExchangeContract`, `EveryExchangeEnds` | holds |
| `client_init_exchange` | an exchange made in `ctrl.init()` | `InitSeesResponse` | **violated** |
| `portal` | 2 frames of 7 sorts, an exchange, a frame of the muxer and one of the owner, capacities 1, fair | `InOrder`, `LossEndsReading`, `ExchangePending`, `OnlyOwnerAheadOfInit`, `EveryFrameHandled`, `TasksEnd`, `ExchangesEnd` | holds |
| `init` | 2 calls, 4 statuses, a ring of 2, fair | `OkMeansReady`, `InitSentOnce`, `PairEndsInit` | holds |
| `init_timeout` | 2 statuses, timeout set, fair | `InitEnds` | **violated** |
| `server` | 2 clients, one may stall, a listener, a call of the muxer, fair | `ListenerIsAhead`, `EndIsLast`, `BoundShutdownEnds`, `ListenersAnswered` | holds |
| `muxer_once` | 2 clients, fair | `EveryoneInMuxer` | **violated** |
| `frame_stream` | 3 frames of 0, 1 and 3 bytes, breaks, fair | `StreamInv`, `AllRead`, refinement of `FrameChannel` | holds |
| `connection` | 2 frames, a break, fair | `HandshakeInv`, `SameLanguage`, `HandshakeEnds` | holds |
| `id_text` | 89 values, well-formed and not, one edit | `TextInv`, `SameOrRefused`, `ReadSurvives` | holds |
| `mesh` | 2 clients, 2 requests of every operation, kind and sort of recipient list | `DeliveredAsNamed`, `OneResponse`, `AnswerFits`, refinement of `ExchangeContract` | holds |
| `mesh_responses` | 2 clients, 1 request | `ResponsePassedOn` | **violated** |

Each component's type invariant is checked in its run, in `client`, `frame_stream`,
`connection` and `id_text` as a part of `ExchangeInv`, `StreamInv`, `HandshakeInv`
and `TextInv`. The systems may stop (a connection is over, the bounds are
reached), so deadlock is not checked; that nothing hangs is what the liveness
properties are for.

### What the violated ones show

- `InitSeesResponse`: `Portal::new` awaits `ctrl.init()` (`api-client:153`)
  before it makes the portal whose `receive` could take a response, and the
  client's reading task is spawned only after that (`tcp-client:90-106`). The
  example ("send this request to itself", `api-client:491`) and the test's
  control (`api-test:356`) both await a response there.
- `InitEnds`: of each two receives in the loop of `init()` one has the timeout
  (`api-server:254`) and the other has none (277); and only the second one's
  status is looked at. A far end that sends one status in time and no more
  leaves the caller waiting, against "init timeout after '{}' seconds" (263).
- `EveryoneInMuxer`: the muxer's task has no loop (`api-server:400-488`). It
  serves one call; the next portal cannot be added, against "make sure everyone
  got chance to be in the muxer" (`api-test:347`).
- `ResponsePassedOn`: a client answers a request with a `Frame::Response` that
  names the asker (`api-client:184-311`), but the server portal looks it up in
  its own table (`api-server:166-176`), finds nothing, logs and drops it. No
  line makes a `Message::Response` of it, so the router's arm for one ("all
  inbound messages are just sent back to the outbound", `api-test:291`) is
  never reached, and an exchange of one client with another always ends in its
  timeout. In the run `mesh` this shows as exchanges that fail, which the
  contract allows; only Select and the errors are ever answered.

More limits met on the way contradict no line of the repository, or are plain from
one. `Portal::send` and `Portal::shutdown` write straight to the outlet
(`api-server:215, 235`), so the owner's frames can be ahead of the Init that the
portal task owes, and the client then gives up with "expected portal info."
(`tcp-client:114`); `OnlyOwnerAheadOfInit` says that nothing else can. The
test's control sends its greeting with an empty `to` (`api-test:366-373`), which
the server portal refuses (`api-server:144`). The text of an address always ends
in a colon, which `from_str` refuses (`serde:80`), so no address survives being
written and read; `Address::parent` panics for every address that has a segment
(`serde:53`); and a version number above `usize::MAX` panics in `from_str`
(`parse.rs:125`). A
`Shutdown` handled before the server
has bound does not end it (`tcp-server:118-122`), nor does one while a client
stalls the handshake, which has no timeout (`BoundShutdownEnds` excepts both); and two
holders of a `PortalSkel` that set the status at once can announce in the other
order of the one in which the statuses took effect.

### Bounds

- Channels of 1 place (2 in `init` for the ring): full, closed and empty channels and the order of
  two elements all occur; the code never looks at more than that of a channel.
- Two exchanges, clients or calls: interference is between pairs, and a third
  would do to either what the other does. The proofs drop this bound, and those
  on frames, capacities and portals, for what they prove.
- `MaxReplies` 2: a first and a repeated response. `Settable` is Ready alone: the
  client ignores what comes before and deals with what comes after; that it may
  stop being Ready is in the proofs, which take any statuses and any number of
  requests and responses.
- `MaxFrames` 2 in `portal`: one frame behind another at every place of the
  pipeline. A frame that is lost counts as one that was read.
- `id_text`: the numbers are 0, 1 and 10 with `MaxNumber` 10, so that one edit
  makes a number too large; releases, vendors and names with hyphens, dots,
  colons and nothing at all. One edit inserts, removes or replaces any character,
  so every text is also seen one step away from being well formed.
- `mesh`: two portals, a key, an address and a stranger to name; two requests, so
  that they meet in every channel; lists of no, one and two recipients, the same
  one twice among them.
- `RingCap` 2 with 4 statuses, so that a listener can lag; the code's ring has 8.
- Frames of 0, 1 and 3 bytes with sizes modulo 4: no body, a body that one read
  takes, and a body that a break can cut.
- `MaxStatuses`, `MaxCalls`, `MaxOut`, `MaxDirect`, `MaxMuxCalls`, `MaxSent`,
  `MaxBreaks`: how often the environment acts; each is named and commented where
  it is declared.

### Fairness

Weak fairness throughout, of what tokio and the operating system run: a task
that can go on does, a timer that is due fires. In `ApiClient` this is
the caller of an exchange and its clock; neither `receive()` nor the user's code
owes anything. In `PortalInit` the runtime may go, and nobody owes that it does.
The mesh, the transport, the muxer as seen by a portal, the
far end and the owner of a portal have none: they may stop at any point. In
`TcpServer` the handshake has fairness only while it deals with a client of
`Obliging`; the others may stall. In `Connection` both ends run, since that run
asks whether the two can block each other. `Break` never has fairness. `IdText`
and `Mesh` have none: their properties are safety, and in `Mesh` anything may be lost.

## Proofs

Every safety property of a run that passes is proved, for every value of the
constants that meets the assumptions of the module; so are the three
refinements of abstract specifications. The tables give what `PROJECT.json` lists; each
module also proves its inductive invariant (`...Invariant`), from which its
theorems follow.

`ApiClientProofs` proves of `ApiClient`, for any sets of calls, requests and
holders of the skel, any statuses, any capacity of the inlet and any bounds
(`ConstantsAssumption`):

| Theorem | States |
|---|---|
| `TypeCorrect` | `Spec => []TypeOK`, which includes that the inlet is never above its capacity |
| `ExchangeInvariant` | `Spec => []ExchangeInv` |
| `WaitingRegistered` | `Spec => []WaitingIsRegistered` |
| `ResponsesReachCallers` | `Spec => []ResponseReachesCaller` |
| `ResponsesLeaveNothing` | `Spec => []LeaksOnlyUnanswered` |
| `ImplementsContract` | `Spec => ContractSpec`: the client implements `ExchangeContract` |
| `OneResponseReachesMesh` | `Spec => []OneResponseAtMost` |

`WaitingIsRegistered` is not inductive: a response to a call that has registered
and not yet sent would take its sender away. The code is safe because nobody
outside can know the id before the request is out, and the invariant has to say
so. Nor is `ResponseReachesCaller`: between `exchanges.remove` (`api-client:315`) and
`tx.send` (317) the caller may time out, and the response is then dropped without
a word. The theorem says that this is the only way to miss it: a caller who still
waits has been answered or is about to be.

`ExchangeInv` is `TypeOK`, `TableInv` (an id that is idle is not in the
table; one whose channel is filled has left it, with a response to that id that
the mesh issued), `WireInv` (every id in the inlet, among those the mesh was
asked for and in its responses belongs to a call that has sent, and every
response on its way was issued) and `ReceiveInv` (what `receive()` has in hand was
received and issued, and a sender it has taken is no longer in the table).
`TypeStep`, `TableStep`, `WireStep` and `ReceiveStep` show that
each step preserves its part, `SendFrameKeeps` says what a send leaves of the
inlet, and the library's `SequenceTheorems` what appending to a channel and taking
from it leave. The refinement follows
from the invariant, action by action; most actions leave the table and the
calls alone, which `TableFrame` says once.

TLC checks `ExchangeInv` in `client`, so the proof starts from an
invariant that holds. `OneResponseAtMost` needs an invariant of its own,
`HandlerInv`: a request that is still in the outlet has no task yet, and is
there once; else a second copy could start a task that responds again.

`PortalInitProofs` proves of `PortalInit`, for any statuses of the far end, any
size of the broadcast ring, with and without a timeout:

| Theorem | States |
|---|---|
| `InitTypeCorrect` | `Spec => []TypeOK` |
| `OkOnlyWhenReady` | `Spec => []OkMeansReady` |
| `OneInitSent` | `Spec => []InitSentOnce` |

Neither of the two properties is inductive alone. `SentInv` adds that a portal
whose status is still `None` has sent nothing, and that a call under way has
sent just its Init; so a second `init()` can neither send nor a failing one
close twice. `ListenInv` adds that an Ok, in the oneshot channel or with the
caller, had its Ready among the statuses the listener took; that the task of an
answered call is over, so that nothing it receives later can unmake the Ready; and
that a place the listener has passed holds a status that was sent.

`ServerPortalProofs` proves of `ServerPortal`, for any number and sorts of
frames, any exchanges and any capacity of each channel:

| Theorem | States |
|---|---|
| `PortalTypeCorrect` | `Spec => []TypeOK`, which includes that no channel is above its capacity |
| `RequestsInOrder` | `Spec => []InOrder` |
| `OnlyLastIsLost` | `Spec => []LossEndsReading` |
| `ExchangesArePending` | `Spec => []ExchangePending` |
| `InitIsFirst` | `Spec => []OnlyOwnerAheadOfInit` |

The order of what reaches the muxer depends on every place a frame passes, so
`PortalInv` says of each which frames it can hold, by their number: the inlet
and the pump the last ones accepted, which are all that were read but the one that
ended the reader (`ReadInv`); the calls to the portal task those
between the ones it has received (`seen`) and the ones the pump has passed on,
ascending, and all of them while the task runs (`CallInv`); its sends, done and
to do, those it has received, each frame's in the order of its recipients
(`SentInv`). `OverInv` says what a task that is over, or not begun, does not
hold, and `SenderInv` where the sender of a waiting exchange is. `accepted`
and `seen` are history variables: of a reader that has ended nothing else says
whether its last frame was lost, nor, after the task has dropped its calls, how
far it had come.

`TcpServerProofs` proves of `TcpServer` with `PortalMuxer`, for any clients,
listeners and bounds:

| Theorem | States |
|---|---|
| `ServerTypeCorrect` | `Spec => []TypeOK` |
| `EndIsLastWord` | `Spec => []EndIsLast` |
| `ListenersAreAhead` | `Spec => ListenerIsAhead` |

`ServerInv` adds that a server whose `alive` still holds has not been woken by
its own connection, so that a client that it accepts is one, and that the task of the
calls does not outlive the runtime (`WakeInv`); that it
has not said Done or panicked while it runs (`EndInv`); and that while the task
of the calls can still take one, no Shutdown has been broadcast
(`AnnounceInv`): a listener gets its subscription from that task, hence ahead
of the Shutdown. It is ahead of Done or Panic too, unless bind or `accept()` has
failed and the runtime is not gone yet: such a listener hears neither.

`FrameStreamProofs` proves of `FrameStream`, for any frames and any sizes that
fit (`SizeAssumption`):

| Theorem | States |
|---|---|
| `StreamCorrect` | `Spec => []StreamInv` |
| `ImplementsChannel` | `Spec => ChannelSpec`: the stream implements `FrameChannel` |

That the reader reads a size where a size is says nothing inductive, since it
depends on every unit before it. `FlowInv` orders the units by their place:
each unit on the way follows the one before it (`Chain`), the first is the one
the reader needs and the last the one before the writer's next (`EndsInv`), the
writer is in its last frame (`WriterInv`), and what the reader holds is the
beginning of the next frame, after a prefix of what was sent (`ReaderInv`).

`ConnectionProofs` proves of `Connection`, for any number of frames and a break
anywhere:

| Theorem | States |
|---|---|
| `HandshakeAgrees` | `Spec => []HandshakeInv` |
| `SpeaksOneLanguage` | `Spec => []SameLanguage` |

`StepInv` says, for each step of either end, how far the other can be and what
can be on its way (`ToClientInv`, `ToServerInv`, `AnswerInv`): strings before the
last answer, frames after it, never more than one string.

`MeshProofs` proves of `Mesh`, for any portals, strangers and messages, any
requests with any lists of recipients, and any losses:

| Theorem | States |
|---|---|
| `MeshTypeCorrect` | `Spec => []TypeOK` |
| `DeliveredAsAsked` | `Spec => []DeliveredAsNamed` |
| `OneResponseEach` | `Spec => []OneResponse` |
| `AnswersFit` | `Spec => []AnswerFits` |
| `MeshImplementsContract` | `Spec => ContractSpec`: end to end, the mesh implements `ExchangeContract` |

None of these follows from what a single step does: that there is one response
depends on there being one copy of the request, wherever it is. `MeshInv` is
`PlacesInv` (each channel, task and client holds only copies of requests that
were asked, for the recipient they name, and responses that were made),
`CallerInv` (what a caller has fits what it asked), `CopyInv` (each copy, known
by its request and the recipient's place in the list, is in one place at most and
there once) and `ResponseInv` (a request that has its response is nowhere any
more, so that nobody is left to make another). The proof follows a copy: for each
of the six places there are lemmas that say what taking from it, adding to it
and leaving it alone do to every copy (`UpTaken`, `MuxCopies`, `RouterDrops`, ...);
`CopiesMove` joins them, since a copy that is new in one place has left the one
before; and each step's lemma names the move it makes. TLC found `MeshInv` to
hold in every state of `mesh` (with places in lists of one and two) before
the proof was begun. `ContractStep` shows each step to be one of the contract or
none.

`IdTextProofs` proves of `IdText`, for texts of any length with any number of
edits, any values that programs make and any `MaxNumber`:

| Theorem | States |
|---|---|
| `IdTextTyped` | `Spec => []TypeOK` |
| `ReadsTheGrammar` | `Spec => []ReadsAsGrammar` |
| `TextCorrect` | `Spec => []TextInv`, which is both |
| `ReadsTheSame` | `Spec => SameOrRefused` |
| `ReadingIsStable` | `Spec => ReadSurvives` |

`TypeOK` is inductive; the rest holds in every typed state and step, and
all the work is in what the parsers and printers compute. `Number`, `Numeral`,
`ParseAddress` and the library's `FlattenSeq` are recursive functions, and the
library's induction theorems take an operator, which the provers cannot
instantiate. The module has its own: `Smallest` (a set of numbers has a
smallest, from the well-foundedness of `<`) gives `Induction` for a set in the
place of the predicate. With it `CountsExists`, `WritesExists`, `FlatExists` and
`AddressStepsExist` show that each recursion has a solution, and `NumberCounts`,
`NumeralCounts` (a numeral's digits count to its number), `FlattenIsFlat` and
`AddressSteps` that the function is one.

The parsers take the longest run of a class at each place, the grammar allows
every cut; they agree since no separator is in the class before it (`Classes`,
`EndsOnce`), so that there is one cut at most: `VersionParsed`, `VersionRead`,
`SpecificParsed`, `SpecificRead` and `AddressParsed` say what the one and the
other do, `VersionPanics` and `SpecificPanics` that the numbers that are too
large are those of some beginning of the text (`VersionBefore`,
`SpecificBefore`; `NumberGrows`, since a beginning may cut a number short). For
what is printed, `Spells` says that a text stands in another; `VersionPrinted`
and `SpecificPrinted` give the layout, and `SpecificKept` counts colons: a
specific with a colon in a string has more of them than the parser takes, so
that it is never read to the end.

Proving it corrected `SameOrRefused`: it had allowed no panic, but the strings of a
specific may hold colons and digits that `from_str` takes for its version
(`Flooded` in `MCIdText` is one), which the values of the run had missed.

Only model-checked: all liveness (`EveryExchangeEnds`, `EveryFrameHandled`, `TasksEnd`, `ExchangesEnd`, `PairEndsInit`,
`BoundShutdownEnds`, `ListenersAnswered`, `AllRead`, `HandshakeEnds`), which needs
fairness and ENABLED and is out of the prover's reach.

## Not modelled

- Logging, formatting, and the contents of entities, http messages and config
  beyond the timeouts: no property depends on them.
- The muxer's branch for a portal whose `mux_rx` closes, with the address entries
  it leaves behind (`api-server:414-424`): the task polls only the portals it had
  before its first call, and it has none.
- Conversions, constructors and parsers that no code calls: `Into<inlet::*>`,
  `Response::from` and `Request::new` in `message.rs`, `not_whitespace` and its
  like in `parse.rs`.
- What the test's controls do with an answer, and the global events by which the
  test counts its clients (`api-test:40-110`): they end the test, not the system.
- Two notifications that overtake each other because the router spawns a task for
  each: `Mesh` has it happen, and nothing in the repository denies it.
- Frames whose bytes do not decode, at which the reader ends (`tcp-common:82`):
  what a writer writes decodes, and the stream is in step. Serialisation is
  bincode's and taken to be
  injective. Frames of 2^32 bytes and more, whose size is cut off
  (`serde:242-244`), are excluded by `SizeAssumption`.
- The events' ring of 32 in the tcp server: a listener that lags loses events.

## Plan

Done, in this order: `ExchangeContract`, `ApiClient` and its proofs (the exchange
is what the rest exists for); `ServerPortal`; `PortalInit` and its proofs; `PortalMuxer` and
`TcpServer`; `FrameStream` over `FrameChannel`; `Connection`; `IdText`; `Mesh`.

Done since: the proofs of every safety property (the `*Proofs` modules).

Next: that the operators the models are built from are what they are taken for,
such as that `Taken` yields just the sublists of the recipients, each once.
