# The queue service in TLA+

Specifications of the SpotQ queue service: the waitlist of a restaurant, its
tickets, their positions, and what the service tells guests, staff, phones and
the restaurant service. Paths are relative to the root of the repository.

## The system

A ticket (`QueueEntry`) waits, and leaves the queue once: seated, skipped,
cancelled or no-show. Each use case is an async handler of an Express server.
It loads a ticket into memory, checks and changes the copy, awaits PostgreSQL,
Redis, the restaurant service, the ETA service and BullMQ in turn, and writes
the copy back in full. There are no locks, no version columns and no unique
constraint on an active ticket: between two awaits a handler runs alone, at an
await any other handler, in this process or another, may run.

| Component | State | Operations | Talks to | What makes it correct |
|---|---|---|---|---|
| Ticket entity (`domain/entities`) | a ticket in memory | create, seat, skip, cancel, ring, updatePosition | - | a transition starts from WAITING only |
| Repository (`database/repositories`) | three tables | one transaction per method, at READ COMMITTED | PostgreSQL | status, log and table assignments commit together |
| Live cache (`redis-queue-cache`) | `queue:live:<id>` | save, remove; keys expire | Redis | holds stored, waiting tickets at their positions |
| Use cases (`application/use-cases`) | a copy of a ticket per request | register, seat, tables/assign, skip, shift, cancel, ring | all the others | leaving is final, the log is a chain, tables are accounted for, one ticket per guest |
| Recalculator (`queue-position-recalculator`) | deltas in memory | read, renumber, write, cache, announce | repository, ETA, cache, rooms | positions 1, 2, ... in order of joining |
| Events and rooms (`websocket`) | rooms of each socket | join, leave, broadcast | Socket.IO | who is told, and whether it is true |
| Push delivery (`queue`, `firebase`) | jobs, a retry counter | ring enqueues, the worker sends | BullMQ, FCM | bounded sends, every ring settled |
| Restaurant client (`external`) | a breaker | four HTTP calls | restaurant service | at most one effect per call, an answer in bounded time |
| ETA client (`external`) | a breaker | predictEta | ML service | always answers |
| Read models (`get-*.use-case`) | none | staff list, a user's ticket, people ahead, waiting time | repository | the answers agree with each other and with what was said before |
| Table split (`seat-party`, `cancel-queue-entry`, `assign-table`) | none | divide a party over tables | restaurant client | everybody has a seat, what is taken is given back |
| HTTP layer (`presentation/http`) | none | authenticate, validate, call, map errors | use cases | a status tells whether the party is in the queue |
| Lifecycle (`server.ts`) | connections | bootstrap, handleShutdown | everything | in-flight work survives, the process ends |
| Health (`health.service`) | none | three pings | PostgreSQL, Redis, BullMQ | an answer, once there can be one |
| Metrics, logging, configuration, wiring | none to speak of | | | not modelled, see below |

The hard parts are those a test hardly reaches: full-row writes of stale
copies, check-then-insert at READ COMMITTED, position batches that address rows
by id alone, a partly executed seat or cancel, recalculations that publish one
await after they wrote, two nested retry loops, a Redis that is away, a
circuit breaker shared by four operations, columns that answer later questions
about a ticket than the one they were written for, and the order in which a
shutdown closes things. `PROJECT.json` lists them at the lines where they bite,
with the properties that cover them.

## Modules

| Module | Models | Lines up with the code |
|---|---|---|
| `QueueEntry` | the entity | one operator per method, its guard apart |
| `QueueStore` | PostgreSQL, Redis, the tables held upstream | one operator per transaction or query; all changes of one commit in one step |
| `QueueService` | the use cases | `pc[r]` is the await a request is suspended at; an action is the code up to the next await; `loaded`, `previous`, `plan`, `found` are its local variables |
| `QueueProperties` | properties, and the parts of the inductive invariants | |
| `TicketLifecycle` | what a ticket promises, abstractly | `QueueService` implements it |
| `QueueEvents` | composes the use cases with what each party sees | an event goes out in the step that ends a recalculation or a request |
| `QueueSerial` | the same, one request at a time | remembers which endpoints were used |
| `QueueReads` | the queries and the time stamps they read | one operator per query; composed into `QueueSerial` |
| `TicketRooms` | the rooms of one restaurant | `join:ticket` is split at its look-up; everything else is one event handler |
| `PushDelivery` | ring's `addJob`, BullMQ, the worker, FCM | `step[h]` is where the worker's handler is in `send` |
| `CircuitBreaker` | the library both clients use | what clients and tests leave open is nondeterministic |
| `RestaurantClient` | the client | begin, response, timeout; the service's own step |
| `RemoteCall` | what a use case may rely on | `RestaurantClient` implements it |
| `TableSplit` | the division of a party over tables | pure operators |
| `TableLedger` | the handlers that seat and cancel one party, composed with `RestaurantClient` | `handler[c]` is where the handler that makes call `c` is, `asked[c]` the payload of the call |
| `EtaClient` | the client | as above, with the formula |
| `HttpStatus` | errors and their statuses | `mapDomainErrorToHttpStatus`, `errorMiddleware` |
| `QueueApi` | ETA, join and walk-in requests, composed with `EtaClient` | `stage[c]` is the await the request is at |
| `ServiceShutdown` | `handleShutdown` | `step` is the close it waits for |
| `ServiceLifecycle` | composes bootstrap, `GET /health` and Redis with it | `step` before the server listens is the connection it waits for; `ping` are the three promises of a health check |
| `MC*` | constants for TLC | |
| `QueueServiceProofs`, `QueueSerialProofs` | theorems about `QueueService` with `QueueEvents`, and about `QueueSerial` with `QueueReads` | |
| `TableLedgerProofs`, `QueueApiProofs`, `CircuitBreakerProofs` | theorems about the clients and their users, and the lemmas on the breaker both need | |
| `PushDeliveryProofs`, `TicketRoomsProofs`, `ServiceLifecycleProofs` | theorems about these components | |

How they fit together. `QueueService` sees the restaurant client as the promise
of `RemoteCall`: a call takes effect once, or is answered with an error
(`Refuse`, `Fail`), and "it happened but was reported as failed" is the step
followed by `Fail`. `TableLedger` takes the real client instead, with its late
and lost answers, and counts the people at each table where `QueueService` has
"held or not"; in return it knows one party only and leaves the queue out.
`QueueService` sees the ETA client as a call that always answers; `QueueApi`
has that client, the middleware in front of the handlers and the error mapping
behind them, and shows that it does (`EveryRequestIsAnswered`). After its save
`ring` goes on to `addJob` if the party has a device: `QueueService` has that
await as a step that may never be taken (`RingEnqueue`), `PushDelivery` has
what happens in it and after it. `QueueEvents` assumes a party is in its room,
`TicketRooms` is about how it gets there.

Choices worth knowing:

- One restaurant. Two restaurants share no row except in the check that a user
  has one ticket, which ignores the restaurant; the phone check does not.
- `Permitted`, then the change of the copy, is one step with `findById`,
  because no await lies in between. `RegisterVerify` merges the two duplicate
  queries of `createWithHistory`, which run one after the other in a
  transaction and whose results are only used together.
- An ETA is a bit, "changed or not", chosen freely at each recalculation: an
  ETA service may answer anything.
- `Fail` may end a request at any await; it stands for an exception of
  anything awaited and for a crash of the process. There is no compensation in
  the code, and none in the model. Cache writes that the code swallows may be
  lost without ending the request.
- The release branch of cancel (`release`, `unlink`) is reachable only when a
  seating overlaps the cancel: a ticket that passes the guard waits, and one
  that holds tables does not (`SeatedHoldsTables`). `TableLedger` explores
  that overlap.
- Time in `QueueReads` is counted in joins: the queries compare `seatedAt` and
  `updatedAt` with somebody's `joinedAt` only, so all that matters of a time
  stamp is between which joins it lies. `updatedAt` is touched by Prisma with
  every update of the row that does not set it, batches of positions included.
  The staff's filter by party size may select any of the tickets.
- The middleware of a request is one step: it awaits no I/O. `QueueApi` is
  about statuses; it takes the answers of the restaurant client and of the
  queries from the sets of those they can give.
- The two connections to Redis differ: the cache's gives up for good after its
  retries, BullMQ's retries for ever; with `maxRetriesPerRequest: null`
  neither fails a command while it retries.
- A socket's handshake may name a ticket in an unchecked query parameter
  (`socket-auth.middleware.ts:61`), and `BelongsTo` trusts it: whoever names a
  ticket there belongs to it, as in the code. The `stranger` of `rooms` does.
- Socket.IO 4 closes the HTTP server it is attached to. `handleShutdown` is
  written for a library that does not; `shutdown` takes both, so that the steps
  after `server.close` are reached, `socketio` the former only.
- Bootstrap goes on without RabbitMQ, so a request may be served without it;
  a connection to Redis that gives up later is not closed by anybody.
- External, and modelled from their use: PostgreSQL's isolation, BullMQ,
  ioredis, Redis, FCM, Socket.IO, the breaker library, the restaurant service.
  A resent `add` may duplicate a BullMQ job; the properties of `PushDelivery`
  are per job. A 2xx with `success: false` counts against the breaker.

## What is checked

`Exclusive` means clients that wait for the answer about a ticket, or about a
guest who joins, before they send the next request about it; requests on other
tickets interleave freely and fail. With a single slot, requests do not overlap
at all; `QueueSerial` adds which of shift and `tables/assign` were used, since
several properties hold only without them. A property holds of interleaved
requests only where a run or a theorem says so.

Type invariants are stated in every module with variables. They are part of the
invariants that are proved (of `ServiceLifecycle`, that of `ServiceShutdown`),
and no run repeats them.

| Run | Clients | Shows |
|---|---|---|
| `exclusive` | exclusive | no use case overwrites with its copy what another request did to a ticket, leaving is final, the log is a chain ending in the stored status, a ticket holds tables iff seated, upstream tables are the seated ones plus those in flight plus at most one party per failure, one ticket per guest, the lifecycle is implemented, a party told that it left did, for good |
| `overlap` | any | what survives every race: waiting parties have positions, the log never shows a use case acting on a ticket it read as gone, a stored status is an audited one, the cache holds stored tickets only; every request ends, except that a ring may wait in `addJob` for Redis, and whoever is removed is told so |
| `serial` | one request at a time | whatever fails: numbers are distinct, a shift moves one party by what was asked. Without `tables/assign` and failures: positions are 1, 2, .... Without shifts and failures: the cache and the parties' screens agree with the rows. Without either: first come, first served; and the staff's numbering is the one the customer reads. The training event counts the people the party's own prediction was asked for, and the wait of a party that left stands still |
| `push` | | repeated pushes only for lost answers and expired locks; sends within the product of the two retry limits; jobs settled for a reason; rings settled if outages end |
| `calls` | any | seating, assigning and cancelling one party over the restaurant client: it implements `RemoteCall`; "unavailable" only after trouble; a call answered with a 4xx did nothing; whoever was seated has seats for everybody; one cancellation gives back no more than was taken, and after `/seat` exactly that, up to one person per table |
| `eta` | any | every request for an ETA or a place is answered; a 201 means that this request stored a ticket, a 200 or a 4xx that it did not (after a 409 for a duplicate the party is in the queue all the same); the formula without asking only after trouble |
| `shutdown` | | from bootstrap on: no connection is closed under a request or a push job, and a request is cut off by the timer only; health checks are answered once an outage of Redis ends; the process ends |
| `rooms` | | only those who belong to a ticket are in its room, or remember it; every join is answered, also when the same ticket is being looked up already |

Runs that find a counterexample, each against a sentence of the repository
(quoted in `PROJECT.json`):

| Run | The code |
|---|---|
| `race_phone` | two registrations with one phone number at once both succeed |
| `race_terminal` | ring writes a cancelled ticket back as waiting |
| `outage` | ring hangs while Redis is away |
| `socketio` | the shutdown exits with 1 before it drains the workers |

What the restrictions hide, in short:

- `RanksAreContiguous` and `NumbersAreDistinct` fail as soon as requests on two
  tickets interleave, even exclusive ones: a batch renumbers a list that has
  changed, and two registrations count the same tickets, so that they get the
  same daily number. A batch may also give a party that has left a position.
- After `tables/assign` nobody recalculates. The next registration gets the
  position "depth + 1", which may be smaller than one a waiting party has:
  `findActiveEntries`, which orders by position, lists the newcomer first. Two
  lost recalculations have the same effect, one does not.
- A shift stores everybody's position before it recalculates, so the
  recalculation finds no difference and neither caches nor announces anything:
  the parties that moved up see and have cached their old positions.
- `AnnouncedIsTrue` is about the status a party was told, not about the order
  of events: a recalculation that listed a party before it left may still send
  it a position afterwards, and put it back into the cache until its key
  expires.
- A message FCM refuses for good (`send` logs "Skipping retries") is a failure
  like any other to the worker, which throws, and BullMQ sends it again, up to
  the limit of attempts.
- Clients in the room `queue:{id}` hear nothing: no use case calls
  `broadcastToQueue`, and `broadcastToRestaurant` addresses
  `restaurant:{id}` and `restaurant:{id}:queue`, which nobody joins.
- `TrainedAsServed` and `WaitIsOver` fail as soon as requests on two tickets
  interleave: a batch of positions that meets a row whose party has just left
  touches its `updatedAt`, so that the party counts as ahead of everybody who
  joined in between, and its wait grows.
- `PATCH .../tables` publishes the training event, `POST .../seat` does not:
  the parties seated by the latter are never learned from.
- A staff list filtered by party size counts its positions from 1 again. After
  a shift even the full list disagrees with the positions the customers read:
  it is in order of joining.
- Two cancellations of one party that read the same assignments release them
  twice upstream.
- With a table free and somebody waiting, `/eta` quotes a wait, but joining is
  refused with a 409.
- A 4xx of the restaurant service is passed on to the client as its own. A
  body that is not JSON is a 500: the parser sets no status on the response
  and `errorMiddleware` looks at nothing else. Its comment lists 400, 403, 404
  and 409 for domain errors; 401 and 503 occur too.
- While Redis is away `GET /health` does not answer 503, it does not answer:
  BullMQ's ping neither fails nor times out. Such a health check also holds a
  shutdown's drain until the 10 s timer. A cache connection that has given up
  reports DOWN until the process is restarted.
- Bootstrap ends the process when the first connection to Redis fails,
  whatever the client's retries would do, and goes on without RabbitMQ.
- A `leave:ticket` handled while a `join:ticket` looks the ticket up is
  overtaken by it.

### Bounds

- Tickets: two parties wait at first (none in `race_phone`); `Entry` leaves
  room for one or two more. Races need two tickets or two requests; orders and
  ranks need three tickets.
- `Slot`: two requests in flight. Every race found needs two. A double release
  upstream needs three overlapping ones and is in `TableLedger` only.
- `MaxRequests` is 3 in `exclusive`, 4 in `serial`, 2 in `overlap`, which also
  checks liveness and so cannot use symmetry; its four invariants are proved
  for every bound. `MaxFaults` is 1: enough for a failure to leave something
  behind, another request to meet it, and a third to expose it. `MaxShift` is
  2 in `serial`, so that a shift also runs off the end of the list.
- `Guest`s share phones and users in every way that matters: the same person,
  the same user with another phone, the same phone with another user.
- `PushDelivery`: one ring, two handlers, three attempts as configured, one
  retry inside each, one stall. Jobs share nothing but handlers; the second
  handler is there for a job that is handed out twice.
- `TableLedger`: three calls - two that seat or cancel and one more that also
  shares the breaker, or three of the party - over two tables, a party of
  three, which does not divide evenly, up to two seats a table from the staff,
  and a `VolumeThreshold` of 2 for the breaker to trip and reset. The window
  restarts at the threshold. The unevenness of any division is proved.
- `QueueApi`: two requests, nobody or one person ahead, predictions below zero
  and of a half minute; a `VolumeThreshold` of 1, so that the breaker trips
  under one request and rejects the other.
- `TicketRooms`: two tickets, a guest, a clerk, an admin and a stranger, two
  look-ups under way, of any sockets and tickets.
- `ServiceLifecycle`: a request, a health check, two push jobs; outages of
  Redis as often as they like. `ServiceShutdown`: two requests, two jobs.
- `QueueReads` rides on `serial`: four tickets, so that one can leave between
  two joins and another join after that.
- Symmetry is used in runs without liveness only, over sets nothing tells
  apart. Without it, `MCQueueEvents!MCFairSpec` fixes which ids the waiting
  parties have.

Deadlock is checked wherever the model should not stop; `QueueService` has
`Quiet` for the state in which the bound on requests is used up. The other
components stop when their calls, jobs or sockets are used up, and their runs
say `CHECK_DEADLOCK FALSE`.

### Fairness

- A request's next await is weakly fair: the event loop resumes a handler
  whose I/O settled, and all of it settles - HTTP by axios and breaker
  timeouts, ETA and cache errors by being swallowed, Prisma by answering or
  throwing. The one exception is `addJob`, for which `Resumes` assumes nothing.
  The cache's connection gives up after ten retries, so its commands
  settle too. `EveryRequestIsAnswered` is what it comes to for a request that
  asks both clients.
- Timers (`TimeOut`, `Wake`, `ForceExit`) are weakly fair; the services they
  guard against are not assumed to do anything.
- Commands to Redis are strongly fair: ioredis queues them while it is
  offline. That outages end is assumed by `push`; `outage` is the run without
  that assumption. `shutdown` assumes that an outage ends and that a
  ping then settles, strongly, because the next outage may interrupt it; no
  request, job or library is assumed to end there but by the timer.
- A look-up of `join:ticket` answers or fails.

## What is proved

Checked by TLAPS for every value of the constants - any number of tickets,
guests, tables, slots, sockets, jobs, calls, requests and failures - from the
assumptions on the constants that the modules state and TLC evaluates. Every
invariant and action property of the runs that pass is proved; the table names
what is assumed beyond that. *Apart* is `Exclusive`, or a single slot: the
clients wait for the answer about a ticket before they send the next request
about it. *One slot* is `Slot = {s}`. Both name clients, not code: without them
the code does violate properties, as `race_phone` and `race_terminal` show.
*Distinct* is `InitialGuestsDiffer`: the parties that wait in the beginning
share no phone and no user.

| Theorem | Assumes | Says |
|---|---|---|
| `TypeCorrect` | | `QueueService` has its type |
| `AuditStartsWaitingHolds`, `StatusIsAuditedHolds`, `WaitingIsRankedHolds`, `CachedIsStoredHolds` | | what survives every race (`overlap`) |
| `TerminalIsFinalHolds`, `AuditIsChainHolds`, `SeatedHoldsTablesHolds` | apart | leaving is final; the log is one chain that ends in the stored status; a ticket holds tables iff seated |
| `ImplementsLifecycleHolds` | apart | rows and assignments implement `TicketLifecycle`, step by step |
| `OneTicketPerGuestHolds` | apart, distinct | nobody waits twice |
| `TablesAreAccountedHolds` | apart, finitely many slots | tables held upstream: the seated, those in flight, one party per failure |
| `NoLostUpdatesHolds` | apart | no use case overwrites with its copy what another request did to a ticket |
| `AnnouncedIsTrueHolds` | apart | whoever is told that they left did, for good |
| `NumbersAreDistinctHolds`, `WaitIsOverHolds`, `TrainedAsServedHolds`, `ShiftIsLocalHolds` | one slot | whatever fails: distinct numbers; the wait stands still; the training event counts who was counted ahead; a shift moves one party |
| `RanksAreContiguousHolds`, `ListedChronologicallyHolds`, `CacheAgreesHolds`, `ShownIsStoredHolds` | one slot | positions are 1, 2, ...; first come, first served; cache and screens agree with the rows (each under what the property itself excludes) |
| `ViewsAgreeHolds` | one slot, distinct | staff and customers read the same positions |
| `UnavailableForAReasonHolds`, `RejectedHasNoEffectHolds`, `ImplementsRemoteCallHolds` | | the restaurant client reports trouble only after trouble, a refusal only if nothing happened, and implements `RemoteCall` |
| `LedgerReliesOnClient` | | the same of the client under the handlers of `TableLedger` |
| `SeatedIsCoveredHolds`, `GivesBackWhatItTookHolds` | | whoever is seated has seats for everybody; a cancellation gives back no more than was taken, and after `/seat` exactly that, up to one person per table |
| `ShareIsEven` | | no two tables of a party differ by more than one, none gets nobody, earlier ones get no less |
| `StatusTellsTheTruthHolds` | | 201 means that this request stored a ticket, 200 and 4xx that it did not |
| `FastFailForAReasonHolds` | | the formula without asking only after trouble |
| `PushesAreCountedHolds`, `SendsAreBoundedHolds`, `SettledForAReasonHolds` | | repeated pushes only for lost answers and expired locks; sends within the two retry limits; jobs settled for a reason |
| `RoomsAreAdmittedHolds` | | only those who belong to a ticket are in its room |
| `RequestsAreServedHolds` | | no connection is closed under a request or a push job; the timer alone cuts a request off |

None of these is inductive as it stands. The properties speak about what is
stored; what is stored next is what requests hold in memory, so the invariants
have to speak about the requests. The parts an invariant of the service is made
of are in `QueueProperties`; the others are beside the proofs. Each proof has
one step per action, and under it one per conjunct the action can disturb.

**Any clients** (`QueueServiceProofs`).

- `CopyWasWaiting`: the copy of a request that will be written was waiting
  when it was read. This gives `AuditStartsWaiting` and half of
  `StatusIsAudited`: only waiting copies are written without a log entry, and
  a row that is stored has a log whose first entry is WAITING.
- `CopyIsRanked`: a copy that will be written as waiting has a position, for
  `WaitingIsRanked`; ranks start at 1.
- `RowsHaveLogs`: a row exists exactly when its log does, a request that joins
  has a ticket of its own without a row, every other one has a row. This
  separates `RegisterInsert` from updates, and gives `CachedIsStored` together
  with `PlansAreStored`: position updates name stored tickets.

**Clients that keep apart.** `ExclusiveInvariant` adds that no two requests are
about one ticket (`Alone`), so that what was waiting when it was read is
waiting when it is written (`ActingOnWaiting`), a request finds its row as it
wrote it (`CopyIsOutcome`, `WrittenStays`), and the guest stays the same
(`CopyKeepsGuest`). `NoLostUpdates` needs in addition that the copy is, but for
its position, what the use case would make of the row as it is by now
(`CopyIsCurrent`). Position batches do change tickets of other requests, but
not these parts of them. On it rest `TicketInvariant` - log, status and tables
change together, and the release branch of cancel is never taken
(`NothingToRelease`), from which the refinement of `TicketLifecycle` follows
step by step; `JoinersDiffer`, that no two who are joining are the same guest,
and who is about to be inserted does not wait already; and `SeatingPath`, that
a request comes with tables only to seat a party. `TablesAreAccounted` counts:
a step moves one party from "in flight" to "seated" or to "failed".

**One slot** (`QueueSerialProofs`). `StepsOfOne` says what each step of the
only request may do, in six kinds of step; the rest of the module never looks
at the actions again. `SingleInvariant` has what holds whatever is asked for
and fails: positions are given up (`PlacesAreGivenUp`), copies keep number and
time of joining (`CopyKeepsStamps`), and every row was counted by the next
registration (`NumbersAreCounted`, `JoinsAreStamped`). On it are built

- ranks: `NextPlace` and `PlansAreRanks` say what the request in flight will
  write, `PlacesAreRanks` that the stored positions are the ranks unless it is
  about to. That the parties ahead are counted without gaps needs that a rank
  is an injection into a set of that size;
- order: `PlacesFollowJoins` bounds every position by the length of the queue
  plus one for each failure or recalculation to come. That is why one lost
  recalculation cannot let a newcomer in ahead, and why two can;
- cache and screens: they agree with the row of a ticket except between the
  steps of a request about it (`CacheLags`, `ShownLags`);
- time stamps: `StampsAreKept` places `updatedAt` of a ticket that left between
  the joins around its leaving, `CountedIsActive` ties the count of a
  registration to the people who wait until it inserts.

**Restaurant client and ledger** (`TableLedgerProofs`). The breaker counts a
failure, or is not closed, only if some response was trouble; the refinement
needs that a pending call has not been answered and that a served success took
effect. `RefusalsAreServed` ties an answer back to the response: a call
reported as refused saw a 404 or a 4xx, and such a response goes with no
effect. Every step of `TableLedger` is a step of the client or a stutter,
which carries these theorems over.

The people at the tables are sums over finite sets. What the proofs need of
them - that a sum exists, does not depend on the order, grows with its
summands, and may be taken table by table - is proved from the fold's
definition: were it false of some subset of a finite set, it would be false of
a least one (`LeastSubset`), which has one element more than one of which it is
true. So are the facts about division: the shares of a party add up to
it (`SharesSum`), over any listing of its tables (`SplitIsTotal`). The
invariant `LedgerInv` then says what each handler asks for and from when on
(`AskedInTime`), and bounds both the assignments and what cancellations ask to
give back by the people of the committed handlers (`Pledged`).

**HTTP and the ETA client** (`QueueApiProofs`). `StoredIsLate`: a ticket is
stored only in the last two stages, before which nothing is answered with a 201
and after which nothing can be thrown, and a request has no status before it is
answered. `HandlerErrors` and `ErrorsAreErrors` bound the statuses that errors
map to; that a failed transaction may have committed is why it has to be a 5xx.
The breaker's part is as for the restaurant client; responses are not
overwritten (`PendingIsOpen`).

**Push delivery** (`PushDeliveryProofs`). A round of a job is an attempt that
is open in a handler, or that BullMQ will still hand out; it ends in at most one
final answer, and only a stall opens a round without ending one
(`RoundsAreCounted`). `SendsAreBudgeted` counts what may still be sent without
another stall: the tries the open handlers have left, as a set of pairs, and
the product of attempts and retries for the rest.

**Rooms and lifecycle.** A socket belongs to every ticket it is in the room of
*or remembers*: a look-up may be answered after the socket left, and what it
remembers is trusted later. It takes that a ticket's room is not named like the
rooms of the restaurant. The shutdown's invariant follows `handleShutdown` step
by step: whether the HTTP server accepts, and which work has ended when a step
is reached; a connection is closed only at steps where all of it has. The one
subtle place is that a close of the HTTP server that fails cuts nothing off,
because it fails only when the close of Socket.IO has waited for the requests
already.

**Only model-checked**: liveness (`EveryRequestAnswered`, `LeavingIsAnnounced`,
`RingIsSettled`, `EveryRequestIsAnswered`, `ShutdownEnds`, `ProbesAreAnswered`,
`JoinsAreAnswered`), which is out of the prover's reach, as is `ENABLED`. The
four counterexamples are TLC's.

## Not modelled

- The routes of the other use cases: the same middleware, in front of the
  actions of `QueueService`. What validation guarantees is in its `Requests`.
  The internal routes' service token is checked by a library.
- The message broker behind the training events: published and forgotten.
- Reads that overlap writes: each is a single query, or two in one
  transaction, and answers from one state of the rows.
- Row locks: a deadlock between two batches shows as a failure of one of them.
- Metrics, logging, configuration, wiring: nothing reads them back, or they are
  fixed when the process starts.

## Plan

Done: the components above, their compositions, and a theorem for every
invariant and action property that a passing run checks.

Next, in this order:

1. Weaker hypotheses. Several theorems for one slot should hold with less:
   numbers if registrations do not overlap each other, a shift if nothing else
   writes positions meanwhile.
2. The staff's view of the events in `QueueEvents`.
3. Two restaurants, for the user check that ignores the restaurant.

Running: `tlc -config MCQueueEvents_exclusive.cfg MCQueueEvents.tla`, and
likewise for the other configurations; `tlapm QueueServiceProofs.tla`, and
likewise for the other modules of proofs.
