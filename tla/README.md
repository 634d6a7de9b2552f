# universal-c in TLA+

A verification project for the transport library in `src/lib`: a client session
over a websocket, driven by a Ragel state machine. TLA+ modules translated from
the C sources, TLC configurations that check them on small instances, and proofs
for TLAPS that hold for every instance.

## The system

| Component | State | Operations | Interacts with |
| --- | --- | --- | --- |
| **session** (`universal_transport_session.c`, `.rl`) | `state`, `current_event`, `next_event`, the handler | `create`, `release`, `open`, `close`, `is_open`, `run`, `example_ping`, `example_echo`; `push_event`, `set_event` and ten Ragel actions that do something | calls websocket and reachability, is called back by both, calls the application's handler in the middle of a transition |
| **websocket** (`universal_transport_websocket.c`) | `host`, `ws_status`, `ws_context`, `ws`, the queue | `create`, `release`, `open`, `close`, `write`, `run`, and `websocket_callback` for the events of libwebsockets | libwebsockets; calls the session's open, close, fail and read callbacks |
| **queue** (`universal_transport_queue.c`) | a list with head and tail, and a list of reserved nodes | `create`, `destroy`, `push`, `pop`, `is_empty` | owned by the websocket |
| **reachability** (`universal_transport_reachability.c`) | whether it observes | `status`, `start_observing`, `stop_observing`, a callback | every platform overrides the default, which does nothing |
| **messages** (`universal_transport_messages.c`) | bytes | `create` (pack), `unpack`, `copy`, `release` | msgpack; used by the session to send, by its read callback to receive |
| **types** (`universal_transport_types.c`) | records that own copies of strings | `create`, `release` | messages, application |
| headers, code generation, tests, mock service, echo example | | | not part of the running library |

There is one thread. What makes the library hard is that it is **re-entrant**:

- A transition of the state machine runs one or two actions and assigns the new
  state only after the last. Until then everything that happens (a callback fired
  inside `lws_context_destroy`, an event an action pushes, a call the application
  makes from its handler) sees the old state, and its event goes to the *one*
  slot `next_event`.
- The state is spread over four places that must agree: the machine's state,
  the websocket's `ws_status`, the contexts of libwebsockets, and what the
  application was last told.
- The queue outlives connections. Connections fail, are closed by either side,
  and a write may fail in part.
- A Ragel machine answers an event it does not expect with its error state,
  running no action on the way.

What makes each component correct:

- *session*: callbacks alternate and agree with `is_open`; reachability is
  observed exactly while the session waits for it; a session that claims a
  connection has one; events are not lost; a chain of events ends; `close` ends
  in IDLE with the context destroyed; unexpected events are only those that are
  known.
- *websocket*: `ws_status` tells what libwebsockets says of the connection, for
  whatever sequence of calls; one connection at a time; writes go to the
  connection that is there; what is enqueued is written.
- *queue*: a FIFO, for every mix of pushes and pops; no node in both lists.
- *messages* and *types*: unpack inverts pack; a message that is not well formed is
  read as no message, or without an argument; what is allocated on the way is
  freed, once, as what it is.

## Modules

Ten modules model the code and what it promises:

| Module | Models |
| --- | --- |
| `TransportWebsocket` | the websocket, under an owner that calls anything |
| `TransportWebsocketUrl` | `transport_websocket_configure_url` |
| `TransportQueue` | the linked list and its reserved nodes |
| `FifoQueue` | what a queue promises |
| `TransportWebsocketQueue` | the websocket over that list; implements `TransportWebsocket` |
| `TransportSession` | the session, its state machine, its API and its callbacks, over `TransportWebsocket` |
| `SessionLifecycle` | what an application may rely on |
| `TransportSessionLife` | the session from `create` to `release`; implements `SessionLifecycle` |
| `TransportMessages` | pack and unpack as functions, and the objects they convert |
| `TransportRead` | the way of a message from the bytes that arrive to the event that is pushed |

`TransportWebsocket.tla` is the websocket. The variables `host`, `ws_status`,
`ws_context`, `ws` and `queue` are the fields of the struct; `link` is what
libwebsockets knows of the connection of each context, and `writable` whether a
WRITEABLE callback is to come. An action is one call of the API, or one event
that libwebsockets reports from `transport_websocket_run`. A call in which
libwebsockets may call back (open, close) takes the callback as a parameter
`cb`, so that the owner conjoins its reaction. Inside, the order is the code's:
`ws_status` is recorded before the owner is called, and `ws_context` is reset
after the context is destroyed. A callback of the *destruction* is the only one
that could notice, and the session then only stores an event (but for its
release, which `TransportSessionLife` models with the context still in place).
`Next` puts the websocket under an owner that calls anything at any time.

`TransportSession.tla` is the session. It composes the websocket
(`Websocket == INSTANCE TransportWebsocket`, shared variables) with the state
machine:

| TLA+ | code |
| --- | --- |
| `st<n>`, `tr<n>` | the labels of the generated code: the state they lead to and the actions run on the way |
| `From<State>`, `Transition` | the `switch` of each state; `Transition` is the machine of the `.rl` file |
| `SetEvent`, then one step per Ragel action (`DoConnect` ... `DidCloseSession`), then `FinishEvent` | `transport_session_state_set_event` |
| `PushEvent` | `transport_session_state_push_event` |
| `cs`, `todo` | the local variable `cs`, and where in the transition the machine is |
| `in_handler`, `HandlerReturns` | a callback of the application is running |
| `App...` | the API, between two events or from the handler (`MayCall`) |
| `Websocket...`, `ReachabilityCallback` | the callbacks, whose source is `transport_session_run` or the platform |

The recursion of `set_event` is a loop of `FinishEvent` steps: nothing follows
the recursive call. Actions whose bodies are commented out (`do_wait_and_retry`,
`do_set_timeout`, `do_cancel_timeout`, `do_check_config`) do nothing here either,
so CONNECTION_RETRY and TIMEOUT are handled and never pushed.
`opened`, `faulted` and `written` are history variables: no guard reads them.

libwebsockets, the application, the service and the platform's reachability are
external, and do whatever their interfaces allow: an attempt succeeds, fails at
once with or without a callback, or fails later; a connection is lost at any
time, a write may fail or be cut short; the service sends any message at any
time; the handler makes any call; the status is either at each question.

`TransportQueue.tla` is the queue: `head`, `tail` and `reserved` are the struct,
`next` and `object` the fields of the nodes, `allocated` the nodes calloc has
handed out. `Push` takes a reserved node, allocates one, or drops the object
because calloc failed (`PushDropped`); `Pop` is `Unlink` and `Reserve`, in the
order of the code; `Destroy` follows both lists and frees the nodes it meets
(`Walk`: at most one more than there are nodes, so that TLC would see a circle).
`enqueued` and `free` are history variables: the nodes that ought to be in each
list.
`FifoQueue.tla` is what a queue promises: a sequence, with a `Discard` for the
queue destroyed with objects in it. `FifoSpec` says that the list implements it.
`TransportWebsocket` uses the queue as that sequence. It leaves out `PushDropped`.

`TransportWebsocketQueue.tla` puts that list in the place of the sequence, and
takes the WRITEABLE callback apart: one step pops a message, one writes it or
fails, and the failing one leaves by the `return -1` in the middle of the loop.
Under the mapping `queue <- taken \o List!Contents` the loop is a single step of
`TransportWebsocket`, its last: until then the messages popped count as waiting.
`WebsocketSpec` is the refinement, fairness included.

`TransportSessionLife.tla` extends the session by its end. `stage` says how far
`transport_session_release` has come. `Release` takes everything up to
`lws_context_destroy`, whose callbacks find the machine at rest (before, in the
other modules, a context was only ever destroyed from inside a transition): so
`Unwinding` runs the machine, and the handler, on a session half freed, and
`Released` is what is left of `transport_websocket_release`. `freed` and `misused`
record what was freed and then used; `in_service` is whether `lws_service` is on
the stack below the event being processed; `asked` is the application's last call.
`SessionLifecycle.tla` has five actions (ask, leave, the two callbacks, and
`is_open` following what was told), and `LifecycleSpec` says that the session
implements it if the handler itself neither opens nor closes.

`TransportMessages.tla` has the three types and six names of message as tables,
since the code of each is generated from one template; a message is the msgpack
object its bytes stand for. `Pack` and `UnpackArg` are closed forms.
`TransportRead.tla` reads a message as the code does, step by step, with what it
allocates and frees (`heap`): the copy of the bytes, the unpacked object, the copies
of type and action, the loop over the entries of the map with its copies, the
creation of the argument, which may fail, the frees in reverse order, the switch
on the name, and the two releases.

`TransportWebsocketUrl.tla` is the four attempts of `sscanf`, in their order, each
of which takes what it can of the URL and is content if the parts it counts are
there, whatever follows them. The host ends at a colon, at the end or at the width
of `%99[^:]`, the number at the first character that is no digit or at that of
`%99d`. A number beyond `int` is undefined; `Stored` has what a build makes of it.
A URL of 256 characters or more is not looked at.

`Transport...Proofs.tla` have the theorems, and `NaturalLemmas.tla` what they need
to know of the natural numbers. The `MC...` modules are for TLC and add only
symmetry, and the sets of calls, messages and URLs that are tried.

Operators named `<A>_<Fault>` are `<A>` with a fault a programmer could make.
They are in no specification: each shows, put in the place of `<A>`, that some
property notices.

## Runs

| Run | Checks | Shows |
| --- | --- | --- |
| `websocket_owner` | `StatusTracksLink`, `QueuedIsServed`, `WritesToItsLink`, `LostWithItsLink`, `QueueDrains` | the websocket is sound under any owner; what is lost of the queue is lost with its connection, and the rest is written on a connection that lasts |
| `session_any_handler` | `OpenedIffAuthenticated`, `NotificationsAlternate`, `ObservingIffUnreachable`, `ConnectedHasLink`, `NoLinkAbandoned`, `AuthenticateNotLost`, `ErrorCauses`, `IdleIsDisconnected`, `RunsToCompletion`, `AttemptResolves` | the four places agree whatever the handler calls and the service sends; every chain of events ends, and every attempt that libwebsockets has under way is resolved (one that could not begin is not: the session stays in CONNECTING until the application closes it) |
| `life_sending_handler` | `LifecycleSpec`, `NoEventOverwritten`, `ConnectedIsTransient`, `CloseDisconnects`, `ContextOutlivesItsCallback`, `ReleasedForGood`, `DestroyedOnce` | if the handler only sends: one slot is enough, `close` does what it says from every state that expects it, CONNECTING without an attempt, CONNECTING_RETRY and AUTHENTICATING included (in IDLE and in the error state a close is an unexpected event), and a release at any moment ends with no connection and the application told |
| `queue_fifo` | `WellLinked`, `NodesOnce`, `NothingLeaks`, `FifoSpec` | the list is a FIFO and loses no node, for any mix of calls and failing allocations |
| `websocket_queue` | `WebsocketSpec` | the websocket over the list, one message at a time, is the websocket of the other modules |
| `read_unpack` | `ResultIsUnpack`, `PackedIsRead`, `ReleasedAsItsType`, `HandledLeavesNothing`, `FreesWhatItHolds` | any message, well formed or not, is read as the closed form says, what was packed as it was, released as what it is; nothing is freed twice, and a message that is handled leaves nothing allocated |
| `url_configure` | `ConfiguredAsWritten`, `SslIffAsked` | the documented forms of a URL are taken as written, and no other form turns encryption off |

All but `websocket_queue`, whose refinement includes it, also check their module's
type invariant. Five runs state what a
document, a comment or a test of the repository says, and TLC finds that the code
does something else:

| Run | The code |
| --- | --- |
| `session_event_lost` | an `open` called from `close_callback` replaces the pushed RESIGN_ACTIVE (`session.c:499`); the session stays in CONNECTED, connected and closed at once |
| `session_do_connect` | after a CONNECTION_ERROR `ws_status` is never CLOSED again, so `do_connect` does nothing from then on (`websocket.c:304`) |
| `session_loss` | CLOSE_RECEIVED keeps the connection, whose loss is then an unexpected event and ends in the error state (`session.c:351`) |
| `session_close_sent` | SESSION_CLOSE is enqueued and its context destroyed before it is written (`session.c:226`); it leaves first on the next connection |
| `read_released` | the argument of a message that `transport_session_receive_message` does not handle is never released (`session.c:659-663`), though `session.c:708` says that it must be |

Read in the code, plain to see, and without a run: `transport_websocket_release`
frees its struct and then reads the queue from it (`websocket.c:294-296`), on every
release (`ReadsFreedWebsocket`); CONNECTING_RETRY never retries
and AUTHENTICATING never times out, since `do_wait_and_retry` and `do_set_timeout`
are commented out (`session.c:273`, `:393`), so that only the application's close
leads out of them, which `CloseDisconnects` checks; a message written without a
context, or popped by a failing write, is not released (`websocket.c:360`, `:155`);
hosts of more than 99 characters are cut without an error (`websocket.c:214`);
a text whose key comes twice in a map is copied twice and freed once
(`messages.c:218`), which is why `HandledLeavesNothing` asks for no key twice.

### Bounds

- `Contexts`: a context is needed for every one that exists, and those left by
  dead connections are never destroyed. Two give a reconnection with an old
  context about; three, in the three large passing runs, a reconnection after
  that. When all are used, an attempt ends as one whose context could not be
  created. Two suffice for the counterexamples and for the list under the
  websocket, where contexts play no part.
- `MaxQueue`: bounds what the application enqueues, and `WebsocketOpens` is not
  taken with more than `MaxQueue` messages waiting, because each connection
  enqueues a SESSION_AUTHENTICATE and maybe a SESSION_CLOSE. One, as in
  `life_sending_handler`, lets a message of an earlier session wait before the
  SESSION_AUTHENTICATE of the next; `session_any_handler` has two. In the websocket
  alone, three messages show every way a write can stop half way; over the list
  two messages in two nodes do, with a node that is used again.
- `Nodes` and `Objects` of `queue_fifo`: four nodes make lists of every length up to
  four in every split between enqueued and reserved, and in every order; a push
  when all are in use is one whose calloc failed. Two objects suffice to see an
  order.
- `HandlerCalls` and `ServiceMessages` are what handler and service may do:
  everything in `session_any_handler`; a handler that only sends in
  `life_sending_handler`, because `NoEventOverwritten` is false for one that opens,
  as `session_event_lost` shows.
- `Incoming` of `read_unpack`: for every type, each of its actions and a foreign
  one, with a third element that is no map and with every map up to the size of
  the type (for the smallest, one more), whose keys are the type's and a foreign
  one in any order and repeated, and whose values are two texts and nil; and
  messages broken at each check of `unpack`. A map of another size is not looked
  into.
- `Rests` of `url_configure`: every URL of up to five characters after the scheme,
  from two letters of a host, three digits and a colon: enough for a host, a
  colon, digits and rubbish after them. `Width` is 2 instead of 99, `UrlSize` 11
  instead of 256 and `MaxInt` 49 instead of 2^31 - 1, so that hosts and numbers
  beyond the width, URLs that are too long and numbers beyond `int` occur.

The proofs need none of the bounds.

### Fairness

The websocket: an attempt under way has an outcome, and room to write comes while
it is asked for, provided `transport_websocket_run` is called in a loop, as the
tests and the example do. Over the list also the callback on the stack runs on.
The session: a transition under way runs on (`WF(Step)`: it is C code on the stack,
and a handler returns), and attempts have an outcome
(`SF(WebsocketOpens \/ WebsocketFails)`: strong, because each call of the
application disables it for a moment, and does not undo what libwebsockets has
been working on). In its whole life: the transition under way runs on, before the
release and during it; nothing obliges libwebsockets to anything there, since
`CloseDisconnects` and the lifecycle must not depend on it. Nothing is assumed of
the application, the service or reachability: none of them is ever obliged to
act, and none to release the session, so `life_sending_handler` and the reading of
one message and one URL may end, which is why they do not check for deadlock.

## Proofs

`TransportSessionProofs` proves for every set of contexts, any `MaxQueue`, any
handler and any service:

- `TypeCorrect`, `OpenedMeansAuthenticated`, `CallbacksAlternate`,
  `ObservedMeansUnreachable`, `ConnectedMeansLink`, `NoneAbandoned`,
  `ErrorsHaveCauses`.

All follow from `InductiveInvariant`: `Spec => []IInv`. The properties speak of a
machine at rest, and say nothing of the middle of a transition. `IInv` does:

- `ControlInv`: which actions are left on the way to which state;
- `NextEventInv`: an event that waits is one that the state to come expects, or a
  call of the application;
- `LinkInv`: what the state to come says of the connection, with the invariants
  of the websocket;
- `NotifyInv`, `ObserveInv`: the notification or the observer is right, or the
  action that makes it right is still pending;
- `ErrorCauses` itself, which is what keeps the first two going.

There is a lemma for each action of `Next`, and for each group of websocket
calls one that says what it does to `LinkInv`'s parts. The assumptions are those
on the constants (`NULL` is no context; handler and service stay within the
calls and messages there are; `MaxQueue` is a number). More invariants stand on
that one:

- `IdleInv` (`IdleMeansDisconnected`): on the way to IDLE the context is destroyed
  or the action that destroys it is pending, but for the way through the error
  state;
- `AuthInv` (`AuthenticationAsked`): the request is on the connection for the old
  state *and* for the state to come, unless `do_authenticate` is pending. A failed
  write may drop it only together with the connection;
- `SlotInv` (`OneSlotIsEnough`, `ConnectedIsPassed`): while an event waits, no
  action is left that pushes one, and who passes through CONNECTED has one waiting
  or about to be pushed. These two assume `HandlerCalls \subseteq {"send"}`:
  `session_event_lost` shows that they need to.
- `LevelInv` (`RecursionIsBounded`, `StepsDescend`), for any handler: each event
  has a `Level` in the state that takes it, and the one that waits, whether an
  action or the application pushed it, is of a lower level than the one being
  processed, of at most 3. So `set_event` is on the stack at most four times, and
  a `Rank` of at most 21 falls with every step of the machine, while no call of
  the handler changes it. With `WF(Step)` that is `RunsToCompletion`; it also says
  in how many steps.

The session is one owner of the websocket among others. `TransportWebsocketProofs`
proves its invariant for `OwnerNext`, an owner that calls anything and whose queue
has no bound, and `SessionOwns` is that the steps of the session are steps of such
an owner. So what holds of the websocket alone holds under the session:
`SessionIsServed` (`QueuedIsServed`) and `SessionLosesWithItsLink`
(`LostWithItsLink`), which no run of the session checks.

`TransportSessionLifeProofs` proves for the session with its release, in whatever
state it is released:

- `ReleasedEntirely`, `ContextDestroyedOnce`, for any handler. `LifeInv` is `IInv`
  while `stage = "alive"` (`AliveAsEver`), and `UnwindInv` while the context is
  being destroyed: no connection is left, and the machine is at the end or in one
  of four places (telling that the session closed, checking reachability,
  reporting it, starting the observer), which no call of the handler can add to,
  because the report takes its place in the one slot;
- `ReleaseDescends`: `Left`, from 1 to 6, falls with every step of the machine in
  there, and no call of the handler raises it: the callbacks of the destruction
  return, and the release with them;
- `LifeTypeCorrect`: the callbacks of the destruction, which find the machine at
  rest, preserve its type (`UnwindTypes`), and so does what is freed after them;
- `CallbacksAlternateToTheEnd`: also the notification of a release takes its turn;
- `QuietAfterClose`, from `IdleInv`: released at rest in IDLE, the session is not
  called back any more, unless it has been through its error state;
- `ReadsFreedWebsocket`: the queue is read from the freed struct on every release;
- `OneSlotToTheEnd`, `ConnectedIsPassedToTheEnd`, for a handler that only sends:
  `SlotInv` until the release, and `EndInv` in it: what a callback of the
  destruction pushes is pushed with the slot empty;
- `ClosedIsDisconnected`, for a handler that only sends: who has called `close`
  last, and whose machine has not been in its error state, is in IDLE without a
  context whenever the machine rests. It is what `CloseDisconnects` leads to, and
  with `StepsDescend` and `WF(Step)` the machine comes to rest;
- `ContextOutlives`, for a handler that only sends: while `lws_service` is on the
  stack no action that opens or destroys a connection is pending, nor an event
  that leads to one (`ServedInv`);
- `LifecycleSafety`, for a handler that only sends: every step is one of
  `SessionLifecycle` or none. `TellInv` says that a notification is pending only on
  the way into or out of AUTHENTICATED; `LeavingInv` that who has closed the session
  is out of it, or in CONNECTED with the RESIGN_ACTIVE waiting or about to be.

`TransportQueueProofs` proves `QueueTypeCorrect`, `QueueLinked`, `QueueNodesOnce`,
`QueueNothingLeaks` and `QueueIsFifo` for every set of nodes and objects, assuming
that `NULL` is neither and that the nodes are finitely many, as memory is. They
rest on `QueueWellFormed`: `TypeOK`, `WellLinked` and `NodesOnce` are inductive
together. A list is well formed only if no node occurs in it twice, for else
writing one `next` changes two places; and pop may hand a node to the reserved
list only because it is in no other. The history variables carry the contents of
the lists, so that no step has to follow `next`. Only `Destroy` does, and there
the history says what it meets: the first node of a list that `Walk` did not meet
would have one before it that it did (`LeastNatural`). For the refinement, the
only step that needs thought is a push: the objects of the nodes already enqueued
stay, because the node written is not one of them.

`TransportWebsocketProofs` proves, for any owner, `WebsocketTypeCorrect`,
`StatusIsLink`, `WaitingIsServed`, `AsksItsLink` and `LostOnlyWithItsLink`. The
first four are inductive only together (`WebsocketInv`): a message is served
because the request to write goes to the connection there is, and an open does not
take the place of a connection because `ws_status` tells of it. The last is a fact
of each step, from that invariant. Nothing in it needs the bound of the queue.

`TransportWebsocketQueueProofs` proves `LoopIsOneStep`, the safety part of
`WebsocketSpec`, for every set of contexts, messages and nodes. It cites the
lemmas of `TransportQueueProofs` for what a push and a pop do to the contents of
the list. `LoopInv` adds what the callback relies on from one turn of its loop to
the next: the connection is there, and what it has popped is what it has still to
account for. The list is used as `TransportQueue` allows (`UsesTheList`), so that
its theorems hold here as well: `WebsocketLeaksNoNode` is `NothingLeaks` of the
websocket's own list, whatever writes fail in the middle of the loop. And what the
refinement is for, the properties of the websocket over a list:
`WebsocketOverItsList` (`StatusTracksLink`, `QueuedIsServed`, `WritesToItsLink`),
with the messages popped counted as waiting, and `ListLosesWithItsLink`.

`TransportReadProofs` proves for every set of texts and of messages:

- `UnpackInvertsPack`: unpack returns the name and the object that pack was given,
  by the tables of types and names, with every combination of texts and nulls;
- `ReadsAsUnpack`, `ReadsWhatWasPacked`, `ReleasesAsItsType`: the invariant
  `ReadInv` says of the loop that `copied[f]` is the *last* entry before `at`
  under the key `f` with a text (`LastSeen`). No induction over the map is needed,
  since the closed form says the same of the whole map;
- `LeavesNothing` (`HandledLeavesNothing`), `FreesOnce` (`FreesWhatItHolds`):
  `HeapInv` says at each step which blocks are allocated, the texts that a later
  one replaced (`Overwritten`) and the arguments that nobody handles among them;
- `ReadTypeCorrect`, which needs `IncomingAssumption`, that the texts of incoming
  messages are texts.

`TransportWebsocketUrlProofs` proves `UrlTypeCorrect`, `UrlSslIffAsked` and
`UrlAsWritten` for every URL, every width (not zero), size of the buffer and range
of `int`, assuming that no letter of a host is a colon. They rest on
`AttemptsInOrder`: `UrlInv` says which attempts have failed, and, of one that has
not, that host, port and ssl are those of a closed form (`Configured`). What the
closed form reads is unique: a host ends somewhere and at one place only
(`HostEndsSomewhere`), and so does a number. `Decimal` is a recursive function,
whose value is a number because such a function exists (`RecursionExists`).

Only model-checked: all liveness (`RunsToCompletion`, `AttemptResolves`,
`CloseDisconnects`, `QueueDrains`, the fairness of the refinements `LifecycleSpec`
and `WebsocketSpec`), which is out of the prover's reach. What the first and third
need of safety is proved (`StepsDescend`, `ClosedIsDisconnected`). Every invariant
that a passing run checks is a theorem.

## Not modelled

- The bytes: a text is a value, a message the msgpack object it stands for, so
  neither lengths of buffers nor characters inside a text. Keys of maps are
  strings.
- In the URL: signs and blanks, which `%d` would take.
- libwebsockets' own memory: destroying a context from a callback of that context
  has its documented effect in the model. `ContextOutlivesItsCallback` shows who
  can bring that about: only a handler that closes the session.
- A handler that calls `transport_session_run`, which libwebsockets does not allow
  from a callback, or `transport_session_release`, which frees the machine that is
  running; no document says what these should do.
- Failures of `calloc` and `strdup` outside the queue and the creation of an
  argument: the session does not look at them.
- The loop over the list in the composition with the session: `WebsocketSpec` is
  what makes the sequence do. A push that fails there is left out, for the
  websocket promises nothing of it; `TransportQueue` has it.
- Logging, headers, code generation; the mock service and the tests, which are
  one service and a few applications among those the models allow; the echo
  example, another.

## Plan

1. The safety part of `AttemptResolves`: an attempt under way ends only as opened,
   failed or closed by the application.
2. The fields that `TransportRead` copies, with the lengths of their blocks.
3. The theorems of the session that need a handler that only sends, for one that
   also opens or closes, with the exceptions that `session_event_lost` shows.
