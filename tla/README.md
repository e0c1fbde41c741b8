# Verification of rspm

rspm is a Rust client library for the Polymarket central limit order book.  Its
own core, `crates/rspm`, owns an authenticated user-channel socket, decides when
the private account evidence is complete enough to trade on, and guards order
submission.  It vendors and patches the Polymarket SDK (`patches/`).  The engine
that trades on top of it is outside the repository: it reads the channel state,
runs the authenticated REST catch-up, commits the finalization and submits
orders.

Paths below are relative to `src/crates/rspm/src/` unless they start with
`patches/`.

## 1. The system

### Components

| component | code | state | operations |
|---|---|---|---|
| state cell | `auth/ws/state_cell.rs`, `state_cell/{ledger,recovery}.rs`, `state.rs` | connection, authentication, subscription, five counters, three sticky gaps, REST proof, durable frontier with its out-of-order set and dropped ranges, raw frames, permanent failures | `mark_*`, `reserve_*`, `retain_raw_frame`, `acknowledge_*`, `prepare_catch_up_finalization`, `commit_catch_up_finalization` |
| connection loop | `auth/ws/connection.rs` | the socket, the outstanding PING, reconnect attempts, the two reserved permits | connect, subscribe, PING, PONG, receive, retain, enqueue, close, reconnect |
| session and custodian | `auth/ws/session.rs`, `retirement.rs`, `retirement/failed.rs` | the task handle and its retirement slot, the shutdown flag, the command queue and counter of the process custodian, the fallback ledger | connect, shutdown, drop, transfer, join, drain |
| order submission | `clob/submission.rs`, `clob/client.rs`, `retry.rs` | revocation epoch, active authority, poison; protocol latch with its quarantine; the installed client; fence, serial section, client guard | mint, submit, prepare, revalidate, first poll, retry; revoke, acquire exclusively, refresh, activate |
| user-channel decoding | `auth/ws/{wire,frame,events,client}.rs` | none | strict decoding of frames |
| authenticated REST reads | `auth/{orders,trades,balance,client}.rs` | none | one page, one balance |
| position inventory | `clob/positions.rs` | one traversal: offset and the identities seen | offset pagination, repeated identities refused |
| fee metadata | `clob/fee_metadata.rs`, `fees.rs` | a read-through cache by token | lookup, market and details requests, insertion |
| market WebSocket | `patches/.../src/ws/connection.rs`, `clob/ws/{subscription,client,interest}.rs`, `watch.rs` | one manager per channel: loop, request queue, heartbeat, counted subscriptions, reconnection handler | subscribe, unsubscribe, reconnect, heartbeat, shutdown |
| order builder | `patches/.../src/clob/{order_builder,utilities,client}.rs` | the tick-size cache | price from the book, tick size, fee adjustment, the two signed amounts |
| settings, Gamma client, dead letters, value types | `clob/settings.rs`, `gamma/`, `dead_letter.rs`, `types/`, `utils/` | none | validation, HTTP reads, one insert, conversions |

### How they interact

- The loop, the consumer of the event stream, the session owner and the engine
  all call the one state cell.  Each call runs under one mutex.  Between two
  calls anything may happen.
- A frame takes several calls: its events' sequences are reserved, then a frame
  sequence, then the bytes are retained, the batch is sent into a bounded
  channel, and only then marked as enqueued; the gap of an undecodable frame
  comes last.
- Recovery is a conversation: a token, REST reads, a REST proof, a later PONG, a
  finalization prepared from a copy of the cell and committed by comparison.
- The custodian runs the loop inside its own task and drops it where it awaits.
  A session that is dropped sends its task to a process-wide thread through a
  bounded queue; what the queue refuses goes to a ledger that a drain polls.
- A submission holds, from the outside in, the shared fence of the controller,
  the serial section and a read guard of the client.  Recovery revokes, closes
  the latch, waits for the fence, replaces the client, and reopens both.
- Subscribers of market data count assets in a shared map; the count decides
  whether a request is queued for the manager's loop.  A handler task watches
  the manager's state and subscribes what is counted again after a reconnect.
  The client removes the manager with the last subscription.
- An order is built from two answers, a book and a tick size, and the second may
  come from a cache that is older than the first.

### What is hard

- *Interleavings*: everything above; in particular what happens between two
  calls into the cell, and between the last check of a submission and the first
  byte of its POST.
- *Old decisions applied late*: a finalization prepared before a reconnect; a
  submission that quarantines a generation that has been replaced.
- *Answers that do not come*: an ambiguous POST; a PONG; a send that hangs.
- *Bounds*: the queue, the permits, the slots, the out-of-order set, the
  counters at their maximum.
- *Answers that belong to different moments*: two pages of one inventory, the fee
  schedules of two tokens, a book and a tick size.
- *Cancellation*: a loop dropped at an await, a submission dropped by its
  caller, a drain that times out and is repeated.

### What makes each part correct

- *State cell*: readiness implies a REST proof of this socket and a later PONG;
  a gap is cleared only by a commit into readiness on an unchanged cell; the
  frontier passes only what was acknowledged or dropped and never gets stuck; a
  permanent failure is final; every loss of authority is visible in the
  recovery identity.
- *Session*: no received frame disappears; a ready channel belongs to a socket
  that is being served and has nothing in flight; after a shutdown it is never
  ready again, and the shutdown ends; an unanswered PING costs the socket.
- *Retirement*: a live task holds a slot; the counter counts exactly what the
  custodian has; a drain that succeeds has joined everything transferred before
  it; a retired session shows a terminal state; the thread serves its queue.
- *Submission*: the latch is open for the installed client only; no POST begins
  after a revocation or under a generation with an ambiguous POST; an exclusive
  lease means that nothing is in flight, and it is granted.
- *Market WebSocket*: what is counted is what the peer serves, whatever sockets
  were lost; a stream in use is never cut off; queued unsubscribe requests are
  written before the socket is closed; shutdown ends every task.
- *Positions*: a traversal that succeeds misses no more held entries than
  positions were closed while it ran.
- *Fee metadata*: the two tokens of a market show one schedule of that market.
- *Order builder*: the signed integers mean the price and size that were asked
  for, or the worst price the book requires; a purchase stays within its balance.

## 2. Modules

### UserWsState, ChannelAuthority

`UserWsState` is the state cell.  The record `ws` has the fields of
`AuthenticatedUserWsState`; `out_of_order`, `dropped_ranges` and `raw_frames`
are the ledgers beside it; `prepared` holds the finalizations callers still
have.  Since every operation runs under one mutex, each is one atomic action
with the code's guards, called by anybody in any order.  Pure helpers (state in,
state out) have the names of the code's: `RaiseGap` and `AdvanceGapVersion`
include the failure of a counter at its maximum.  Three history variables record
which sequences were acknowledged, which were ever dropped, and the gap version
of the last REST proof.

`ChannelAuthority` is the abstract promise: an epoch, five stages of trust
(untrusted, attested, confirmed, live, dead) and whether a finalization is in
force.  `UserWsState` implements it through the mapping `Status`, `Published`.

### UserWsSession

`UserWsSession` extends the cell with the loop, its custodian, the session
owner, the consumer, the server and the engine.  `loop` is the place the loop is
in: an await, or the gap between two calls into the cell.  Each action is what
the loop does between two places, including the call.  The custodian acts only
while the loop awaits, because it polls the loop inside its own task; dropping
the loop there is `CustodianCancels`.  The consumer and the engine are external
and follow the documented protocol.  `Environment` switches groups of external
events on and off, so that each run can afford the ones its question needs.

### Retirement, TaskCustody

Who owns a session's task: session, guard, transfer, process thread, fallback
ledger.  A transfer is three steps (count, send, fall back), because a drain
reads the counter and the ledger between them.  What the task does is reduced to
running, stopping and ending in one of three ways.

`TaskCustody` is what all of them promise together: a slot from before a task is
spawned until after it has ended, one hand-over at most, one retirement, and a
drain that succeeds only when what custodians had at its beginning is retired.
It has no handles, queue, counter or ledgers.  `Alive`, `Handed`, `Retired` and
`Successful` map the custody of `Retirement` to it; what a slot leaves room for
is its constant `Roomy`, given as the sets of fewer sessions than `Capacity`.

### Submission, PostingAuthority

`epoch`, `poisoned`, `active` are `SubmissionControllerState`; `gate` and
`quarantined` are the latch; `installed` the generation of the client;
`refresh`, `lease`, `barrier` what the recovery does; `call` holds one
submission or preparation per task, with the place between its awaits, its
permit and its capability.  Locks are not variables: who holds the fence, the
serial section or the client guard follows from the places, and
`authority_refresh` is held while `refresh` is not idle.  A submission passes
`authorizing`, `queued` (fence), `permitted` (serial section), `guarded` (client
guard), `building`, `signing`, `signed`, `posted`, one of the settling places,
and possibly `backoff`: a 429 answer to a version read or to the reads of the
build is retried like one to the POST.  The engine's own closures may refuse or panic in
`authorize_if` and at the first poll: both are choices.  `unknown` is a history
variable: the generations that ever had an ambiguous POST.

`PostingAuthority` is the promise without locks, permits, latches, checks and
retries: an authority is granted to the installed client when everything posted
has settled and nothing was withdrawn since that was asked for; one task at a
time posts, under the authority of the installed client, and never for a client
with a POST of unknown outcome.  The mapping reads the client off `installed`,
the authority off `active`, `fresh` off the comparison of the epoch with the
barrier, and the tasks that post off their places (`Posting`).

### MarketSocket, MarketSubscriptions

`MarketSocket` is one connection manager of the SDK: `conn` is the place of
`connection_loop`, `requests` its unbounded queue, `beat` the heartbeat task,
`changed` the unread state in the watch channel, and `served` what the peer does
with the frames that reach it.  A client may own several managers one after the
other, so each variable is a function of the manager.

`MarketSubscriptions` adds the counts, the reconnection handler (`handler`,
`was`, `resend`), the callers and the client's `channel`.  A subscribe or an
unsubscribe is a step per map entry, a step that sends, and for the latter the
step that looks the channel up again.  None of them awaits, so on a
current-thread runtime a call runs to its end before a task does, and on a
multi-thread one everything interleaves; `runtime` is chosen in `MarketInit`, and
a property that the code can promise on one thread only says so.
`HandlerKeepsUp` is the order of a single-threaded scheduler: the handler woken
by a state runs while the loop waits for its timer.

### PositionPages, FeeSchedules, OrderBuilding

Three parts of the REST client that keep state.  `PositionPages` is one
traversal: `ReadPage` is `next_offset` with the refusal of repeated identities,
`InventoryChanges` what the venue does between two pages.  `FeeSchedules` has a
place per reader (`resolving`, `detailing`, `storing`) and the cache as a partial
function; its two answers may belong to other markets, and the checks refuse
them.  `OrderBuilding` follows a request from `Begin` over the book
(`walk_levels`) and the tick size, read through the cache, to `BuildLimit` or
`BuildMarket`; prices and amounts are integers in fixed units, truncated where
the code truncates.  The number of decimals a value was written with, which the
code compares and truncates to, is its *grain*: the step of that many decimals,
in the same units.  A market amount may be zero or negative, as in the code; the
conversion of a negative one to an unsigned integer leads to `panicked`.

The fees that shrink a purchase are computed in the code with an f64 power, which
`Decimal` keeps to 15 digits, two divisions rounded to 28 digits and one more
truncation.  `OrderBuilding` has fee rates in steps of 1 / `RateOne` and the exact
quotient, and an error beside it, `Slack`: 1 / `Precision` of a unit of USDC, and none
where there is no fee.  `Adjusted` is therefore a set.  A quotient within the error
of a whole unit may be truncated on either side of it, and a balance within it of
the total cost may take either branch; everywhere else the set has one member.
With 15 digits, rates up to 0.072 and balances up to a million dollars the error
is below a thousandth of a unit (10^12 units at a relative error of 5 * 10^-15 of
the fee).

The three share no variable; `MCClobClient` runs one of them at a time (`focus`).

The MC modules extend their specification for TLC.  A definition whose comment
says "Variant" is not part of the specification: it is what a plausible slip in
the code would do, and it shows that a property can fail.

## 3. Runs

Runs that pass:

| run | instance | what it shows |
|---|---|---|
| `cell_authority` | 2 generations, 2 PONGs, 2 gap versions, 2 transport sequences of which one may be acknowledged out of order, 1 frame, an own and a foreign credential | `ReadyHasLaterPong`, `AbortsMoveIdentity`, and the refinement `ImplementsChannelAuthority`, which includes that a dead channel stays dead, also one whose acknowledgements overflow |
| `cell_ledger` | 3 transport sequences of which two may be acknowledged out of order, 1 generation; all counters reach their maximum | `TypeOK`, `FrontierAccounted`, `FrontierMaximal`, `CountersMonotone`, `GapsClearOnlyIntoReady` |
| `session_delivery` | one connection, frames of 1 and 2 events and undecodable ones, gaps, a catch-up | `SessionTypeOK`, `ReadyIsDelivered`, and that in the loop's own protocol gaps are cleared at the proof's gap version (`GapsClearOnlyAtProofGapVersion`) |
| `session_retirement` | two connections, shutdown, control frames, a catch-up, a dropped receiver, a failing clock, a poisoned owner; bare sends may hang for ever | `FramesAccounted`, `RetiredStaysDown`, `ShutdownTerminates`, and, where sends complete, `PingResolved` |
| `submission` | two submissions with a retry, one preparation, two epochs, two generations | the safety of latch, lease and POST, the refinement `ImplementsPostingAuthority`, and `ExclusiveGranted` |
| `retirement` | two sessions, two slots, a queue of two, one drain abandoned and repeated | the refinement `ImplementsTaskCustody`, which includes that a live task holds a slot, counter, drain, status, and `TransferredIsRetired` |
| `market_subscriptions` | two callers, two assets, two managers, one failure, both runtimes | `SettledExact`, `StreamsKept`, `CountsAreStreams`, `UnsubscribedBeforeClose`, `ShutdownEndsAll`, typing |
| `clob_client` | five positions in pages of two, three readers of two markets, limit and market orders over four books, three tick sizes and five fee schedules | `NothingHeldIsMissed`, `SchedulesAreTheMarkets`, `OrdersMeetTheirPrice`, `WithinBalance` |

Runs that refute a sentence of the repository (each a finding):

| run | sentence | what happens |
|---|---|---|
| `gap_cleared_after_rest` | `auth/ws/state.rs:79`: gaps are cleared only when the gap version matches the token captured before the catch-up | `mark_dropped` raises a gap but leaves the REST proof and the responsive subscription; a token taken after it clears the gap under the older proof |
| `consumer_drop_reconnects` | a test named `dropping_event_receiver_is_terminal_for_session` | the loop reconnects and submits the credentials again |
| `unsubscribe_overtakes` | `patches/.../src/clob/ws/subscription.rs:489`: an unsubscribe is sent only when no other stream uses the asset | on a multi-thread runtime it is sent after the request of a newer stream, which stays silent on a healthy socket |
| `dead_market_socket` | `patches/.../src/ws/config.rs:22`: the time "before considering connection dead" | the heartbeat task ends, the loop keeps the socket, and the state stays `Connected` |

### Bounds

Every counter of the user channel and of the controller has a maximum in the
code too (`u64::MAX`, `u32::MAX`), so the small maxima are not cuts of the state
space but the same program with smaller numbers: the runs reach them and take the
code's exhaustion paths.  Bounds of the models alone are `MaxPrepared`
(finalizations held at once), `Environment` (groups of external events), the
sizes of the sets of tasks, and the bounds named in the modules: `ManagerMax`,
`LossMax`, `CallMax`, `Lists` and their `Threaded` forms; `ChangeMax`,
`PublishMax`, `RetickMax`.

Two generations are needed for anything old to meet anything new; two transport
sequences for a hole in the frontier, and one more than the out-of-order set holds
(`MaxOutOfOrder`) for its overflow, which both cell runs reach; one slot in the event channel is the
smallest that can be full; two submissions meet in the serial section, and a
third would only queue behind.  With two sessions and two slots the queue of the
custodian overflows (barriers count) but the slots never run out; a refused
`Connect` changes nothing.  `GapMax` limits how long an instance lives before it
fails closed; each run has as many gap versions as its longest interesting
behaviour raises.

For market data, two callers with overlapping lists of assets bring a count to
two, and two managers let a removed one wind down beside its successor.  One
failure loses a socket while subscriptions change.  A multi-thread runtime
multiplies the interleavings, so there the callers share one asset and no socket
fails: what is checked there is the bookkeeping (`StreamsKept`,
`CountsAreStreams`, `ShutdownEndsAll`), which does not look at sockets.

Five positions with pages of two and offsets up to two reach a short last page,
a full one and the offset limit; three changes move an entry across a boundary
and make a repetition.  Three readers and two publications let an older schedule
be stored after a newer one.  Amounts have four decimals instead of six
(a lot of two is `LotGrain` = 100), so that numbers stay in TLC's range; prices
have two, and the requests, books and fees are chosen so that truncation, an
exhausted book, a partial fill, a balance that is just too small, and amounts and
balances of zero and below all occur.  So does a price that a tick size newer than
the book cuts off, and an amount of 53 with a balance of 56 at the price 0.53 and
the rate 0.03, where the balance is the total cost exactly and the code's rounded
divisor decides whether 53 or a unit less is signed: the run has both.  Fee rates are
thousandths (`RateOne`), among them the 0.072 of the repository's tests.

`CHECK_DEADLOCK FALSE` is set everywhere: a cell with exhausted counters, a
session whose task ended, a drained process, a client that was shut down and a
finished traversal really stop.

### Fairness

- `RetirementSpec`: the loop and the custodian make progress (tokio polls a
  ready task), but a bare `socket.send` need not complete: `connection.rs` gives
  a PING and a PONG reply no timeout.  `PingResolved` has `SendsComplete` as its
  premise: sends complete, and a tick that finds the PING too old happens if it
  can happen again and again (strong fairness), because each pass of the loop
  polls the heartbeat before anything else.
- `Submission!FairSpec`: every request is answered or fails.  The code does not
  enforce that: the SDK client is built without a request timeout
  (`patches/.../src/clob/client.rs:1495`), so a venue that never answers keeps
  the fence and the lease is not granted.  The serial section is a tokio mutex,
  served in the order of arrival, hence strong fairness of `TakePermit`; a free
  fence is granted to the waiting closer.  `Start` and the recovery's own
  decisions have no fairness.
- `Retirement!FairSpec`: a task asked to stop returns, which is what
  `ShutdownTerminates` shows of `UserWsSession`; transfers have no await; the
  thread runs.
- `MarketSpec`: the runtime does not rest while a call, a handler, a loop or a
  timer can run (weak fairness of their disjunction).  Calls and failures are
  bounded, so no step can be put off for ever by others.  The network, the peer
  and the callers' decisions have no fairness.

## 4. Proofs

The theorems are checked by TLAPS for every value of the constants, from the
named assumptions on them: `CounterAssumption`, `BoundAssumption` and
`AuthorityAssumption` (the maxima are natural numbers, the first socket has a
generation, credentials of this socket are among all credentials);
`SessionAssumption` (bounds that are natural numbers, a channel of at least one
slot, frames of at least one event);
`SubmissionAssumption` (`MaxTries` is positive, submitters are not preparers);
`RetirementAssumption` (finitely many sessions, at least one slot, drains are not
sessions); `PagesAssumption` (finitely many entries, a positive page limit);
`FeesAssumption` (each market has two tokens, markets share none);
`BuildingAssumption` (units are positive; the decimals of a tick size and of a lot
together fit in those of USDC; a number is a multiple of the grain it was written
with; a book lists its worst level first, as `utilities.rs:21` says of the venue;
fee rates are natural multiples of 1 / `RateOne`, and the error of the fees,
1 / `Precision` of a unit, is at most a third and at least 1 / `RateOne`);
`SubscriptionAssumption` and `SocketAssumption` (finitely many callers, no empty
list of assets, bounds that are natural numbers).

**State cell** (`UserWsState_proofs`).  `IInv` is the conjunction of typing;
`ProofSound` (a REST proof belongs to the connected, subscribed socket of this
generation, and a responsive subscription has answered after it); the exactness
of the frontier; the origin of dropped ranges; and the soundness of every
finalization a caller holds.  Typing and readiness are not inductive without
`ProofSound`, and a commit preserves nothing unless what was prepared described
a cell that its commit makes ready.  Every step is an operation on the control
part, an acknowledgement or a commit; each class has a lemma.  From `IInv`
follow `TypeCorrect`, `ReadyIsProven`, `FrontierIsExact`, `FrontierNeverStuck`
and, with the same case analysis, the action properties `DeathIsFinal`,
`CountersNeverGoBack`, `OnlyCommitsClearGaps` and `EveryAbortMovesIdentity`.

**Refinement** (`ChannelAuthority_proofs`).  `CellImplementsAuthority`: each
operation of the cell is a step of `ChannelAuthority` under the mapping `Status`,
`Published`, or a stutter.  `ReadyHasLaterPong`, which follows from
`IInv`, decides which step it is: as long as a channel counts as confirmed or
live, its attestation stands, so a raised gap is `Lose` when it takes the
attestation back and `Doubt` when it leaves it (`mark_dropped`).  A commit is
`Publish` because the invariant says of a held finalization that it describes a
cell its commit makes ready.

**Session** (`UserWsSession_proofs`).  `SessionImplementsCell`: each step of the
loop, its custodian, the owner, the consumer and the engine is an operation of
the cell or leaves it alone, so what is proved of the cell for arbitrary callers
holds of the session, and so does
the refinement: `SessionImplementsAuthority` composes the two, from the socket
loop to the five stages of trust.  A frame wider than the counter exhausts it like one too
wide by one, and that is the only call whose argument has to be changed.  The
invariants on top of the cell's:
- `SessionTyped`: a slot of the channel is kept from the poll of the socket to the
  delivery, so that no send finds the channel full (`SessionTypeCorrect`).
- `RetiredInv`: in the grace period the shutdown stands, so that the loop does not
  poll again; where it was polling already, its socket is down, and only a PONG
  read from a live poll makes a channel responsive (`RetiredIsDown`).
- `FramesAccounted` is inductive: each step carries on what was carried, and what
  is new is carried by the batch it came in (`NoFrameIsLost`).
- `DeliveryInv`, of a channel that is not dead: off a served socket nothing is
  responsive; batches are in the order of their sequences; their frames are
  distinct and pending while they are queued; what is in the loop's hands is
  neither acknowledged nor dropped; and after an undecodable frame was dropped,
  the finalizations and tokens in the engine's hands are too old to clear its gap.
  Without the last part a recovery begun before the drop could be committed after
  it.  `NothingUnderway` follows.
- `ProofGapInv`: the gap version of the last REST proof is not below that of a token
  proven or a finalization prepared, because only the engine prepares, and under
  a token that it compares again (`ClearedAtProof`).  For arbitrary callers it is
  false, which is what `gap_cleared_after_rest` shows.

**Submission** (`Submission_proofs`).  `IInv` is the conjunction of typing;
`LatchSound` (an open latch matches the installed client, is closed while a
client is being built, an indeterminate one is not newer than quarantine and
client, and the quarantine covers every ambiguous generation); and `CallsSound`
(one caller at most is in the serial section; whoever is there has a permit
without an ambiguous POST; from the first check on, permit, capability and
installed client agree; under the lease nobody is fenced).
`OpenMatchesInstalled` alone is not inductive: a refresh installs a client
without looking at the latch, so it needs that the latch is closed while one is
built.  That no POST begins under an ambiguous generation needs the exclusion:
`OneCallMoves` uses it for the step that makes a generation ambiguous.  The first
poll revalidates the controller under the mutex that a revocation takes, and
`OnlyFirstPollBegins` shows that no other step begins a POST.  All seven safety
properties of the run are theorems.

`SubmissionImplementsAuthority` is the refinement of `PostingAuthority`.  It needs
more than `IInv`: `GrantSound` (the barrier is not above the epoch, a poisoned
controller has no authority, and an authority is of the present epoch and of a
built client) and `MintedSound` (a fenced submission was minted under a built
client).  Two steps carry it.  `Grant`: the lease is held, so nobody is fenced and
nothing is out; the generation activated is that of the
installed client and above the quarantine, hence without an ambiguous POST; and
the comparison with the barrier is that nothing was withdrawn.
`Begin`: the epoch of the capability is the controller's, so the authority is the
one it was minted under, and by the checks before it that of the installed
client.  Everything between a permit and the first poll is invisible.

**Retirement** (`Retirement_proofs`).  The invariant says what the holder of a task
implies for its slot and its state, that the queue holds a session at most once, that the counter is the number of sessions the process
custodian or a transfer between its first two steps has, and that what a drain
waits for is either with a custodian or done.  The counter needs the cardinality
of a set that gains or loses one member.  `RetiredIsTerminal` is not inductive:
whether a terminal state may be overwritten depends on who holds the task, which
is what custody says.

`RetirementImplementsCustody` is the refinement of `TaskCustody`.  A hand-over is
the step that puts the handle into the queue or the ledger; counting, rejecting
and moving it are invisible.  A task let go of has ended and has its slot because
of who held it (`EndedIsHeld`).  A drain succeeds with the later of its two
halves, which either `CheckRetained` or `PollFailed` may be; that everything it
waits for is retired then is what the invariant says of a complete drain.  One
pass over the ledger retires any number of tasks and may complete a drain in the
same step, which is why the abstract step takes two sets.

**Positions** (`ClobReads_proofs`).  `NothingHeldIsMissed` speaks of the end
of a traversal.  The invariant says that the offset counts the entries collected,
because every page before was full and new, and that a traversal that is done has
collected at least as many entries as the venue then lists.  A list without
repetitions and the refusal of repeated entries make this a matter of
cardinalities, and the property follows by subtraction.

**Fee schedules** (`ClobReads_proofs`).  The invariant adds to
`SchedulesAreTheMarkets` that an answer about to be stored belongs to the market
of the token asked for.

**Order builder** (`OrderBuilding_proofs`).  Books of any length, any prices,
amounts, fees and tick sizes within the assumption.  The code sums the levels from
the best one down, the property sums those that are at least as good, in any
order; both are recursive functions.  The library's induction theorems take an
operator, so induction and recursion over an interval are proved first, for sets
and functions, from the well-foundedness of the natural numbers
(`InductionUpTo`, `Recursion`); from them that sums are natural, monotone in what
they add, and the same from either end (`SumMirrored`).  With a book that lists
the worst level first, the depth at a level is then what is held at that price
or better (`DepthIsTail`, `HeldWithin`, `HeldBeyond`), and the first level,
from the best on, down to which there is enough has the worst price the order
needs (`CutoffMeets`).  Exactness of the
amounts is a matter of multiples: a price on the grid and a size of whole lots
make a product that the truncation leaves alone (`TimesExact`), whereas a
quotient loses at most one grain, in favour of the fill (`OverBounds`).  A price
under another tick size than the book's is cut off by less than a step of it, so
the price found is one of `CutFrom`.  The
shrunk amount is a truncated quotient that is known up to an error, so it and its
fees cost no more than the balance and the error, and one unit more would cost more
than the balance less the error (`QuotientBuys`, `Affordable`, `AdjustedSound`);
`SlackBounds` says that the error is none without a fee, and less than a unit.  The invariant says what an order under way has
found out and what a built one says, and `OrdersSayWhatWasAsked` and
`PurchasesStayWithinBalance` follow.

**Market subscriptions** (`MarketSubscriptions_proofs`).  `CountsAreStreams` does
not hold in the middle of a call.  The invariant says at every moment what a
count is: the number of callers that hold a stream with the asset, have already
counted it up on the way to one, or still have to count it down on the way out;
and that whoever is counted uses the present channel, which is never closed under
him, so that his send does not fail.  A clean-up finds nothing counted, hence no
user.  Counting is the cardinality of a set that gains or loses one caller.  From
it follow `CountsAreStreams` and `StreamsKept`, on either runtime, for any number
of callers, assets, managers and connection failures.

`SettleInv` says the same of the peers, on the runtime of one thread, where a call,
or a handler that sends, is alone (`Alone`).  What a peer will serve of an asset is
decided by the last frame about it that it has not read (`Told`).  A peer is never
told more than is wanted: what is counted, but for what the call in progress has
counted and not yet said (`Wanted`).  The present peer is told no less as long as it
is `Synced`: before the first connection is lost, and then whenever the handler has
answered the connection there is now.  The handler has seen the first connection
before the loop can leave it, so every later one makes it resubscribe, and that
restores what a lost socket forgot; this is why no loss goes unrepaired.  Off its
socket a peer serves nothing, unless a cancelled loop has left it, and then with
everything said.  `SettledExact` and `UnsubscribedBeforeClose` follow, for any number
of callers, assets, managers and failures.

**Only model-checked.**  Liveness (`ShutdownTerminates`, `PingResolved`,
`ExclusiveGranted`, `TransferredIsRetired`, `ShutdownEndsAll`) is out of the
prover's reach.  Every invariant, action property and refinement of a passing run
is a theorem.

## 5. What is not modelled

- Wire decoding, authenticated REST reads, settings, the Gamma client, dead
  letters, value types: functions of their input, or one request, without state
  of their own.  They and the vendored SDK's request and response types, its
  builders and its other clients (Gamma, data, bridge, CTF, RTDS) are most of the
  repository's lines; there is nothing in them for a state machine, which is why
  the modules speak of a small part of the lines and of most of the behaviour.
- Of the market WebSocket: interest bits, decoding and broadcast of messages, a
  lagging stream, a limit on attempts, the option for custom features, and the
  user channel, which rspm does not use.
- The reconnect delay; the content of frames and orders; poisoned session
  mutexes in `Retirement`; the binding of a controller to its client, which is
  one of each here; the watch channel that publishes the user-channel state;
  the fee arithmetic of `fees.rs`; the digits of `Decimal` and of the floating-point
  power beyond the error `Slack`, which stands for them.  The exponent of the fee
  curve is a natural number, and a balance is a whole number of units of USDC.

Met while modelling, and left without a run:

- `auth/ws/connection.rs:262`: a PONG the server sent before the REST proof and
  read after it counts as the later PONG.
- `auth/ws/state_cell.rs:168`: the state is copied under the mutex and sent into
  the watch channel after it; two threads may send in the other order, and a
  watcher keeps an older state until the next change.
- `auth/ws/connection.rs:311`: the gap version stamped on a frame is read under
  another lock than its sequences; only consumers outside the repository read it.
- `clob/client.rs:743`: a latch closed after its last reading does not stop the
  POST; the revocation of the controller does, up to the first poll.
- `clob/client.rs:753`: a submission dropped by its caller while its POST is out
  (`Abandon`) leaves the generation unmarked and the latch open.
- `clob/fee_metadata.rs:161`: a slower reader may overwrite a newer schedule by an
  older one, and an entry is never evicted.
- `patches/.../src/clob/order_builder.rs:536,581`: a cached coarser tick size cuts
  the price off below the one the book requires, and a small purchase in USDC may
  be truncated to zero shares (`OrdersMeetTheirPrice` states how far each may go).
- `patches/.../src/clob/utilities.rs:202`: with a balance that is the total cost
  exactly, the divisor may be rounded up, and a unit less than the amount asked for is
  signed (`WithinBalance` allows for it).
- `patches/.../src/clob/order_builder.rs:647`: an expect says that `build` lets only
  positive values through; `OrderBuilder<Limit>::build` does, but a market order over
  a negative amount, or with a negative balance, gets there and panics instead of
  being refused (`panicked` in `OrderBuilding`).
- `patches/.../src/clob/order_builder.rs:412`: the fees that shrink a purchase are
  taken at the cutoff price, not at the prices of the fills.
- `patches/.../src/clob/client.rs:587`: a tick-size read in flight stores its
  answer after the caches were invalidated, and the fee cache is not among them.
- `patches/.../src/clob/ws/subscription.rs:328`: the receiver of the broadcast is
  created after the request was sent, so a first book may be missed; `:135`: on a
  multi-thread runtime the handler may miss the first `Connected`, and then does
  not resubscribe at the second; `:292`: custom features asked for an asset that
  is already subscribed are not requested; `:307`: a failed send leaves its
  counts behind, and a loop whose attempts are exhausted (`ws/connection.rs:343`)
  stays in its channel, so that every later subscription fails.
- `patches/.../src/clob/ws/client.rs:723`: on the user channel, an unsubscribe of
  the last counted market removes the channel under a stream of all markets.

## 6. What is left

The delivery of market messages to a lagging stream, and the user channel of the
SDK, whose empty list stands for all markets.  An abstract specification of the
market subscriptions, what a set of counted streams promises on one thread, is the
refinement still worth stating.
