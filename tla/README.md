# Verification of the event ticketing system

TLA+ modules for the booking core of the ticketing back end (Go, under `src/`),
with the TLC configurations that check them on small instances and TLAPS proofs
of the main results for every instance. Around the booking core they cover the
queue of commands in front of it, the admission control and the idempotency of
requests, and the way a change reaches caches and screens.

## 1. The system

Users reserve seats of an event for a limited time and buy them; overdue
reservations go back on sale. State lives in PostgreSQL (events, seats,
bookings), Redis (expiry queue, job status, idempotency keys, rate windows,
event cache), Kafka (command topics, domain events) and Stripe (payment
intents). Several server processes may run at once and each runs many
goroutines, so every operation below interleaves with every other.

| Component | State | Operations | What makes it correct |
|---|---|---|---|
| Booking repository (`internal/repository/booking_repository.go`) | rows of events, seats, bookings; row locks | CreateReservation, ExtendReservation, CompletePurchase, RevertFailedPurchase, ReleaseExpiredReservation, CancelReservation, SetPaymentIntentID | one live booking per seat, exact `available_seats`, equal deadlines, no deadlock, no early expiry |
| Purchase (`booking_service.go`, `payment_service.go`) | progress of each attempt, Stripe's intent | PurchaseBooking and the calls it makes | charged only after the sale, success means paid, a paid purchase is not undone, retries finish the payment |
| Reservation expiry (`expiry_queue.go`, `batch_release_worker.go`, `cleanup_worker.go`) | two sorted sets, claimed batches | Add, Remove, PollDue, worker and cleanup loops | every overdue reservation is released, none before its deadline, every partition is served |
| Command queue (`queue.go`, `booking_worker.go`) | topics, offsets, job status, depth counters | enqueue, consume, retry, dead letter, commit | every accepted job is processed, a final status is true and final |
| Idempotency middleware (`idempotency.go`) | cached response, lock | lookup, lock, run, store | one execution per key |
| Rate limiter and admission control (`rate_limiter.go`) | counters in Redis with a lifetime, token buckets per process | admit, refuse, fall back | refusals spend nothing, bursts are bounded, a patient client gets in |
| WebSocket hub (`hub.go`) | clients, subscriptions, channels | register, unregister, subscribe, broadcast, pumps | no closed channel is used, no dead client stays |
| Domain events (`kafka_event_publisher.go`, `booking_event_consumer.go`, `internal/kafka`) | event topic, offsets | publish, consume, dead letter, acknowledge | no event is skipped, screens show the latest change |
| Event service, cache and catalogue (`event_service.go`, `event_repository.go`, `seat_repository.go`) | event row, seats, cached event | create, cache-aside read, invalidate, list | no half-made event, a stale entry is accounted for and short-lived |
| Bulk reservation (`booking_service.go`) | reservations made so far | reserve in chunks, roll back | all seats or none |
| Database connections and read routing (`database.go`, `repository/`) | which database a read asks | primary or replica | a stale read does no lasting harm |
| HTTP handlers and routes, users, venues, configuration, front end | single rows, requests, environment | parse, check, answer | not modelled, see section 6 |

How they interact: the handlers call the booking service directly or put a
command on Kafka, whose consumer calls the same service; the service runs one
repository transaction at a time, then tells the expiry queue, the cache and
the event topic, in calls of their own that may be late or lost; batch workers
and the cleanup job call the repository on behalf of nobody; the event consumer
invalidates caches and feeds the hub of its process, which passes the message on
to the hubs of the others through Redis.

The hard behaviours: row locks taken in two different orders; two clocks inside
one transaction (`time.Now()` and `CURRENT_TIMESTAMP`); a purchase made of seven
separate calls to two services; the queue told of a change after it was
committed; claims that outlive their worker; offsets committed late, by a
process that may have lost the partition; a client that leaves while it is being
dropped; a cache filled with what was read before the invalidation; a rollback
made of calls that may fail. `PROJECT.json` lists them as hazards, each at its
line, with the properties that cover it.

## 2. The modules

`SeatInventory` is the abstract specification: each seat has at most one holder,
is taken only when free (`Hold`), sold only to its holder (`Sell`) and given up
before it is taken again (`GiveUp`).

`BookingRows` holds the rows and what each transaction writes at its commit
(`InsertReservation`, `WritePurchase`, `WriteRevert`, `WriteExtension`,
`WriteRelease`, `WritePaymentIntent`), the conditions under which a method goes
on with the booking (`Admits`) and the seat (`SeatAdmits`) it has locked, the
invariants of the rows, and the inventory that they stand for (`HolderOf`,
`ImplementsInventory`). Names follow the columns and methods.

`BookingStore` is the repository as its callers see it: each method one atomic step
(`Reserve`, `Purchase`, `Revert`, `Extend`, `Expire`, `Cancel`, `WritePaymentIntent`),
with up to three readings of the clock, when the service computes the deadline
(`asked`), when the transaction begins (`begun`) and when the method looks at the rows
it has locked (`clock`). `DeadlineKept` is stated here. The next three modules extend
it, so they share one translation of the SQL and of the methods:

    BookingTransactions   implements BookingStore   (ImplementsStore)
    PurchaseFlow          uses BookingStore         (PurchasesUseStore)
    ExpiryRelease         uses BookingStore         (ReleasesUseStore)
    BookingStore          implements SeatInventory  (ImplementsInventory)

`BookingTransactions` runs the repository's methods concurrently, one row lock
per step. `pc[t]` is the statement connection `t` executes next; `LockBooking`,
`LockSeat` and `LockEvent` are `SELECT ... FOR UPDATE [NOWAIT]` and the row lock
an `UPDATE` takes; a method's writes appear at `Commit`; `Rollback` is any error,
a lost connection or a crash. `start[t]` is `CURRENT_TIMESTAMP`, `now` is
`time.Now()`. Identifiers from `uuid.New()` are never reused. `Inv` is the
inductive invariant.

`PurchaseFlow` is `PurchaseBooking`: the attempts `a` go from call to call
(`find`, `extend`, `prepare`, `store`, `complete`, `get`, `confirm`, `revert`);
between two calls anything may happen to the booking. Each repository method is
one step of `BookingStore`, which `BookingTransactions` justifies: its transactions
implement that store, and a method that waits for a lock may
begin earlier than it acts (`begun`). Stripe is external: one intent per booking
(the idempotency key is the booking's ID), which `Confirm` moves to succeeded,
or declines, or charges while the reply is lost. `CallFails` is an error of a
call, `Crash` the death of the process, or a commit whose acknowledgement is
lost.

`ExpiryRelease` is the expiry queue and everything that releases reservations.
The service's calls to Redis are in `calls` until they arrive, in any order, or
are lost. `PollDue` is the claim script, atomic as Lua scripts are; `Remove` is
two steps, because its pipeline is no transaction. Scores are whole seconds
(`Unix`). The hash of a booking ID is the constant function `PartitionOf`. A
worker that finds a booking not due yet removes its entry all the same, as the
code does.

`CommandQueue` is `queue.go` with the workers of `booking_worker.go`. The booking
and the purchase queue run the same code on different payloads, so one module
stands for both, and a behaviour is about one of them; but their handlers differ. A
job wants a target (`TargetOf`). For a seat, `ProcessJob` is `ReserveSeat`, one
transaction, which fails when the seat is taken, also by the same job. For a booking
it is `PurchaseBooking` up to its sale, and `SellBooking`, `ChargeBooking` and
`RevertPurchase` follow in steps of their own: a booking that has been sold meanwhile
counts as sold, so two jobs may both claim it, and the one whose charge fails reverts
the sale for both. `holders[r]` are the jobs whose claim on `r` stands, `undone` those
whose claim somebody else has undone. `TargetChanges` is what requests beside the
queue and the other workers do to a seat or a booking. `PurchaseFlow` has every call
of a purchase; here they are told apart as far as jobs can notice it. The two topics
also differ in their keys: jobs for a seat share a partition, jobs for a booking are
spread by their identifiers (`PartitionOf`). Requests go through `EnqueueJob`,
`WriteCommand` and `CountCommand` (the three calls of `Enqueue...Job`). Kafka is
external: `log[p]` is a partition, `Assign`, `EndGeneration` and `Crash` are what
the group coordinator does. `stage[p]` is what the reader of a partition does
next, from `ReadMessage` over `ProcessJob` to either `CompleteJob`, `Acknowledge`
(`DECRBY`) and `Clamp` (`SET 0`), or `HandleJobFailure` and then `WriteRetry` or
`WriteDeadLetter`. `current` is `currentOffset`, which `CommitOffsets` writes plus
one when the generation ends. Once a generation has ended its context is
cancelled, and the calls of a handler still running fail, done or not. `Readers`
are the members that call `ConsumerGroup.Next`; the others join and never do.
`handled` and `abandoned` are history: the offsets whose handler has dealt with its
command, and those whose handler returned without, because a call failed, and which
will not be read again.

`Idempotency` is the middleware in front of a purchase, for the requests of one
key: `Lookup` (GET), `Lock` (SETNX), `Handle` (the handler, for as long as it
likes), `CacheResponse` (SET) and `Release` (DEL). A key is the time at which it
expires; DEL removes the lock whoever owns it. A call to Redis may fail, done or
not, and a request may die at any step. `late`, `failed` and `retryOf` are
history for the properties.

`Admission` is the two middlewares in front of `POST /bookings/reserve`, in the
order of the route. A key is a count and a lifetime; each Lua script is one step
(`FixedWindow`, `EventAdmission`), also when its answer is lost (`LostReply`) and
the process asks its own token buckets instead. `admitted`, `recent` and `idle`
are history: who has been admitted since the key appeared, how many in the last `n`
ticks for each `n` up to a window, and how long a client has been quiet.

`Hub` is `hub.go`: `RunRegister`, `RunUnregister` and `RunBroadcast` are the three
cases of the `select` in `Run`, which takes any that is ready; `ReadFails`,
`Unregister`, `WriteMessage` and `CloseConnection` are the steps of the two pumps.
Channels have their capacities, and a send to a full one waits or drops as it does
in the code. `SeatFeed` extends it by what a message goes through before: `Publish`
by whoever has committed the change, when it comes to it; the consumer's loop, whose
`stage` is what process `i` does next with the record in its `hand`; the
acknowledgement, which `FlushCommits` commits later and whether or not the process
still owns the partition; `PublishFanout` and `ReceiveFanout` between processes; and
`DirectBroadcast` by the workers. A message of the hub is the number of the change it
announces, so that "older" has a meaning. `Rebalance` and `Crash` may come at any
step. `dealt`, `unburied`, `latest` (the record handled last), `disturbed`, `since` and
`overtaken` are history. `disturbed` is set by each step that may put a screen out of
date: a change that is not announced, one that is announced after a later one
(`Overtakes`), a record handled by a process that has lost the partition meanwhile
(`Strayed`), or an assignment behind records that were not handled last.

`EventSale` is one event from its creation on. `db` is the sequence of committed
states that the replica has yet to see: it shows the first, the primary the last.
`CreateEventRow` and `CreateBulkSeats` are the two transactions of `CreateEvent`;
`GetEventByID`, `FindByID` and `CacheEvent` a cache-aside read; `BulkReserve` runs
one goroutine per chunk (`ReserveNext`, `InvalidateNext`, `PublishNext`), `Collect`
sees the channel of outcomes closed, `CancelNext` gives one seat back. `ChangeSeat`
stands for every other transaction on a seat; that each of them may be one step is
what `BookingTransactions` shows. `AnswerLost` is a commit that has taken effect although
its caller is told of an error: nobody invalidates the cache after it (`missed`), and a
bulk reservation does not learn that it has the seat (`leaked`).

A module that others extend, or that is proved about together with another, puts its
own name before `Init`, `Next`, `Spec` and `TypeOK` (`StoreInit`, `KeyTypeOK`).

Definitions marked "Faulty" belong to no specification; each is a plausible
mistake in the definition that follows it, and `PROJECT.json` ("mutants") says
which property notices it.

## 3. What TLC checks

| Run | Instance | Shows |
|---|---|---|
| `booking_transactions` | 2 seats of one event, 2 bookings, 2 connections, clock to 2 | row invariants, no cycle of waiters, refinement of `BookingStore` and of `SeatInventory`, the inductive invariant of the proofs |
| `purchase_flow` | 1 seat, 2 bookings of it, 3 attempts, clock to 2, lost Stripe replies | charges, intents, extensions and answers; a sold booking without payment is on somebody's hands or on record |
| `purchase_revert` | 1 booking, 2 attempts, reliable Stripe | **violated**: a paid purchase is reverted |
| `expiry_release` | 1 seat, 2 bookings in 2 partitions, a scan of 1 entry, clock to 2 half-seconds, 1 failure | overdue reservations are released, deadlines are kept, every due entry is claimed |
| `queue_faults` | 1 seat and 1 booking, 1 member, 1 retry, four sets of jobs: one for the seat (1 rebalance, 1 crash, 1 failing call), two for it in 1 partition (1 crash), one for the booking (2, 1, 1), two for it in 2 partitions (1 rebalance, 1 failing call) | a completed job holds its target until another undoes that, only faults skip commands, a negative depth is about to be clamped, every accepted job settles, at rest every status is true |
| `queue_idle_member` | 2 jobs for one booking in 2 partitions, 2 members of which 1 reads, no faults | **violated**: jobs of its partitions never settle |
| `queue_commit` | 2 jobs for 1 seat in 1 partition, 2 rebalances | **violated**: a command is skipped |
| `idempotency` | 3 requests with one key, a lock of 2 ticks, clock to 5, 1 failing request | no duplicate while the original may be in flight, a success is replayed |
| `idempotency_race` | 2 requests, no failures, no time | **violated**: the handler runs again after the response was cached |
| `admission` | 2 clients, 1 process, limits 1, 3 and 2, windows of 2 ticks, 1 lost reply, Redis coming and going at will | counters count admissions, bursts are bounded, a quiet window frees |
| `seat_feed` | 2 processes, 2 clients of one of them, 2 changes, channels of 1 and 2, nine scenarios | no event skipped, screens settle, no closed channel used, clients leave |
| `event_sale` | 3 seats, 2 bulk reservations in chunks of 2, 2 other changes, 2 readers, 1 lister, five scenarios with at most 1 failing call or lost answer and 1 death | all seats or none, no half-made event, stale entries accounted for and short-lived |

Bounds. Two seats and two bookings are the least at which a booking can meet a
seat that is another's; two connections are enough for every pair of lock
orders, and longer cycles are excluded by the proof. The clock of the booking
runs has one tick before the deadline, one at it and one after it. Three
attempts are two that race and one that retries. `Second = 2` ticks makes the
truncation of scores visible. Two jobs for one target are the least at which one
can be told of the other's success, and in two partitions the least at which one can
revert the sale of the other; one retry has both a command that is written
again and a dead letter; two rebalances are an end of a generation and one of the
generation that repeats its work. Three requests are an original, a duplicate
that lost its race and a retry, and the clock lets two locks expire one after the
other. In `admission` the client's limit lies below the event's, so that either may
be the one that refuses, and the event's limit is below what two clients may ask for.

`SeatFeed` and `EventSale` have many actors whose behaviours multiply. Their
constant `Scenarios` says how often each kind of event may happen and who takes
part (as `Arrivals` and `MaxFaults` do for `CommandQueue`); a behaviour picks one scenario at its start, and the states of the run are
the sum of those of the scenarios instead of their product. The scenarios pair what
meets in the code: a crash or a rebalance with two changes (records handled twice,
commits of a former owner), a worker's broadcast with the consumer's, a silent
rollback with a failing call, leaving clients with full buffers; a creation with
readers of every kind, two changes with two readers, a bulk reservation with other
changes and a failing call, with another bulk reservation that asks for a seat twice,
and with a failing call and a death. Two clients are connected to one process, where they compete for
its channels, and the other process is where records may be handled and messages
come from. What no scenario contains, such as two crashes, is not checked, except as
section 4 proves it.

`MaxFaults` and `MaxFailures` bound faults by counting
them, so that properties can say how many they allow for. Bookings, attempts,
jobs and requests are finite: when they are used up the system may stop, which
is why those runs do not check for deadlock. Symmetry is used over connections,
attempts, bookings and requests, in safety runs only.

Fairness. `FairSpec` of `ExpiryRelease` assumes weak fairness of the workers and
of the cleanup job, which run on timers for as long as the process lives; nothing
is assumed of the service's calls to the queue. `FairSpec` of `CommandQueue`
assumes that a request that has begun to enqueue goes on, that a free partition is
assigned to some member (the coordinator's task), and that readers read and
commit, which are loops without conditions; nothing forces a job to be submitted,
and no fault has to happen. `FairSpec` of `SeatFeed` assumes that the goroutines of
a hub and of its clients go on, that the coordinator assigns a free partition and
that consumers run their loop; it assumes nothing of `WriteMessage`, which waits for
as long as the client's connection does, nothing of those who publish, and nothing
of commits. `FairSpec` of `EventSale` only assumes that Redis forgets an entry when
its lifetime is over. The transactions have no fairness: `NoWaitCycle`
says what the code contributes to their progress, and the rest is PostgreSQL's
queue of waiters.

## 4. What is proved

`BookingStoreProofs` proves what every caller of the repository relies on, for any
seats, events, bookings and timeouts. `RowStep` says what a method may write and what it
has found in the rows it writes; `StoreNextWrites` shows every step of the store to be
one, and from there on the proofs speak of rows only.

* `StoreKeepsRows`: `SeatsMatchBookings`, `AvailableSeatsExact`, `DeadlinesAgree` and
  `FreeSeatsUndated` are inductive together (`RowsInv`). Counter and deadlines rest on
  the first: a revert frees its seat only when it finds it sold, but counts it in any
  case. The counter also rests on a lemma about the cardinality of the free seats when
  one seat changes (`CounterFollowsSeat`).
* `StoreKeepsDeadlines`: `DeadlineKept`, a property of the steps.
* `StoreImplementsInventory`: a step takes, sells or gives up one seat of
  `SeatInventory` (`Concerns`) or stutters; who holds the other seats does not change
  (`OthersKeepSeats`).

`BookingTransactionsProofs` proves, for any seats, events, bookings, connections
and timeouts that satisfy the modules' ASSUMEs (finitely many seats, positive
timeouts, distinct null values):

* `InvHolds`: `Inv` is an invariant. The row invariants are not inductive by
  themselves: a commit writes what was decided when the locks were taken, so
  `Inv` adds what each transaction has locked (`LocksTaken`, `LocksOwned`) and
  what therefore stays true of its booking and seat until it commits
  (`LocalStateOK`). There is one lemma per action.
* `NoDoubleBooking`, `CounterNeverDrifts`, `DeadlinesNeverDiffer`, `TypeCorrect`
  follow from it.
* `NoDeadlock`: waiting follows the order booking, seat, event, and only
  CreateReservation holds an event while it asks for a seat, with NOWAIT. So in
  any set of transactions one of them waits for none of the others.
* `MethodsAreAtomic`: the transactions implement `BookingStore`. The step of the store
  is the commit (`CommitIsStoreStep`); what the method looked at, statements and waits
  before, still holds then, because `Inv` says that its booking and its seat are locked
  and as it found them. A creation locks its seat last, so its seat is looked at and
  written in one piece. For the store both clocks read the time at which the
  transaction began: the check at a later time only admits less.
* `ReservationKeepsDeadline` and `RefinesInventory` follow from it and from the
  theorems of the store.

`ExpiryReleaseProofs` proves, for any bookings, partitions, scan limit, clock and
failures, `ReleaseTypeCorrect` and `ReleasesUseStore`. Three callers release
reservations, each with what it read some steps before; all of them end
in `WriteRelease` under the condition that the row, locked, is due now, so each is a step
of the store whatever the queue says, and type correctness is all the invariant that
takes. `ReleasesFreeNoTakenSeat`, `ReleasesKeepCount`, `ReleasesKeepDeadlines`,
`NoEarlyRelease` (`DeadlineKept`) and `ReleasesImplementInventory` follow from the theorems of the store.

`CommandQueueProofs` proves, for any jobs, targets, partitions, members, retries and
faults,

* `CompletedJobsHoldTargets`: the invariant adds what a reader at work has in its
  hands (`ReaderOK`): its message is one that was written, one that it may write again
  has attempts left, and one that it charges for or is about to report completed got
  its target. A job that got its target stays among those that hold it or whose claim
  was undone by somebody else (`UndoKeepsGranted`, `ClaimKeepsGranted`): a job reverts
  its own sale only before it is reported completed, in whatever partitions the other
  jobs for the booking run. Who holds a target holds it as it is, taken, and a seat has
  one holder (`ClaimsOK`), so redelivery can neither give a seat away nor report a second
  job completed.
* `CommandsSkippedByFaults`: a reader has handled or given up all it has read since its
  start, and will commit what it has read, or one offset more if that is nothing
  (`ProgressOK`); the generation that ends is counted before its commit costs a command
  (`LossesOK`).
* `DepthStaysClamped`: only a reader decrements, and each that has brought the counter
  below zero is about to clamp it, has failed or has died (`DepthInv`).
* `StatusesAreTruthful`: while nothing has failed, the command of an accepted job is in
  exactly one place (`JobOK`): to be read, with the reader that handles it, or resolved,
  with the status, the claim and the dead letter agreeing at each. Two purchases of one
  booking may both end completed; none reverts the other, because no payment fails.

`MiddlewareProofs` proves `NoDuplicateRuns`, `SuccessIsReplayed` and
`IdempotencyTypeCorrect` of `Idempotency` for any number of requests, any lifetime of
the lock and any number of failures. `LockOK` says that the lock's key is that of the
one request it protects as long as nobody was late, so the DEL of a request that is
through is of its own lock; `CacheOK` that a success is cached before its request is
answered; `RetryOK` that a retry is therefore on its way to the cached response.

`PurchaseFlowProofs` proves the safety of PurchaseBooking for any number of bookings
and attempts. No property is inductive: what one attempt knows about its
booking must survive the writes of all others between its calls. The proof states
once what any write may do to a booking (`Progress`: a sale is only ever reverted,
the deadline of a reservation only moves later, the stored intent of a
reservation is never erased, Stripe's intents only move forward), shows each
repository write to be progress, and then that progress keeps what an attempt has established
(`AttemptOK`). So each step has to show only what its own attempt claims next:

* `NeverChargedBeforeSale`: an attempt confirms an intent only when `PastSale`, and
  a booking that was sold once is purchased or cancelled for ever after.
* `IntentStoredBeforeSale`: an attempt that is about to call CompletePurchase on a
  booking that is still reserved knows its intent to be stored.
* `ExtensionProtectsPurchase`: the deadline granted is never later than the
  deadline in the row, and an expiry in the row was due.
* `SuccessMeansPaid`, `TypeCorrect`, and `NoSaleForgotten`: a sold booking that is not
  paid for has an attempt that will pay or revert, or was abandoned by one that
  died or failed to revert (`InHand`).
* `PurchasesUseStore`: every step of `PurchaseFlow` is a step of `BookingStore` or leaves
  the rows alone (`StepsOfStore`). `PurchasesShareNoSeat`, `PurchasesKeepCount`,
  `PurchasesKeepDeadlines`, `PurchasesKeepPromise` and `PurchasesImplementInventory`
  follow from the theorems of the store.

`SeatFeedProofs` proves, for any number of processes and clients,

* `NoClosedChannelUsed`: a client is joining, registered or dropped, never two of
  these (`ClientsOK`), in whatever order the hub's `select` serves its channels;
* `EveryEventDealtWith`: `GroupOK` adds to the committed offset what each consumer has
  read, holds and has acknowledged, also after it has lost the partition, because
  it may still commit then: all before the record in its hand is dealt with.
* `FeedTypeCorrect`: with the capacities of all buffers, and what makes the types hold:
  no offset and no hand is past the end of the topic (`LimitsOK`), and only booking
  events are handled (`HandsOK`).
* `ScreensSettleOnLast`: while nothing is disturbed, changes are in the topic in their
  order (`OrderOK`), the owner of the partition has passed over no booking event later
  than the one handled last (`ReadOK`), and for the record of the last change each
  client is at some point of its way (`ScreensOK`): the record has not reached the
  client's process, or its message is the last on its way there, through Redis, the
  hub's channel and the client's buffer, or on the screen. When all is quiet only the
  screen is left.

`EventSaleProofs` proves, for any seats, requests, chunk size, readers and failures,

* `SeatsAppearTogether`: every committed state that the replica may yet show has no
  seat or all, and counts the free ones (`StateOK`); nothing can be sold before the
  second transaction of the creation (`RowsOK`).
* `CacheIsTruthful`: the available seats change only in a step whose actor owes the
  invalidation from then on, or leaves it out because the answer to its commit is lost
  (`AvailabilityMoves`), and an actor is rid of that debt only
  by an invalidation, or one that is on record as missed (`OwedUntilTried`).
* `BulksAreAllOrNothing`: a bulk reservation knows of every seat it holds (`BulkOK`): the
  seat is in `success`, or a goroutine that has reserved it is still to report it, or its
  cancellation failed or the answer to its reservation was lost (`leaked`); and no seat
  is given back before the last goroutine has ended.
* `SaleTypeCorrect`, which rests on the chunks dividing what was asked for
  (`ChunksOK`), a lemma about integer division.

`MiddlewareProofs` also proves, of `Admission`, for any limits, windows, clients and processes,

* `RefusalsSpendNothing` and `QuietClientsAreForgotten`: the invariant ties a key's
  remaining lifetime to the time since its client last asked (`LifetimesOK`): the two
  never exceed the window together.
* `BurstsStayBounded`: what Redis has admitted in the last window is counted in the
  event's key, but for what earlier keys had counted, which is less than the limit
  (`WindowsOK`); what a bucket has given in `n` ticks plus what it holds is at most its
  capacity plus the refill of `n - 1` ticks (`BucketOK`).
* `AdmissionTypeCorrect`.

All proofs rest on the modules' ASSUMEs only: the constants are numbers and
finite sets of the right kind, and the null values are not members of them.

So every invariant and every action property of the passing runs is a theorem as well.
Two of them were false as they were stated at first, on instances larger than the runs'.
`SkipsBounded` counted one lost command for each generation that ends, but a reader goes
on with the messages it already has: with its context cancelled it gives up several, and
a success after them commits past all (four jobs show it). So commands that were given
up are told apart, in `abandoned`, from the one that the end of a generation skips.
`ScreensSettle` left out that a process which has handled two changes and lost the
partition may commit their offset late, after the next owner has handled the first
change again and died: nobody handles the second one again, and the screens go back to
the first. The offsets are the code's, so the property now excepts it by name (`Assign`).

Only model-checked: liveness, for which the prover has no rules (`OverdueReleased`,
`DueEntriesClaimed`, `JobsSettle`, `EventsDealtWith`, `GoneClientsLeave`,
`StaleEntriesExpire`). The violated runs are counterexamples, so there is nothing to
prove about them.

## 5. What the violated runs mean

* `RevertsOnlyUnpaid`: `CompletePurchase` returns an already purchased booking as
  a success, so two attempts can both reach the payment; the one that fails
  reverts the purchase the other has paid. Nothing refunds the charge. The attempts may
  be jobs of the purchase queue, whose keys (`queue.go:297`) keep those of one booking
  apart; then one is reported completed for a booking that is cancelled, which
  `CompletedHoldsTarget` exempts by name (`undone`).
* `JobsSettle` with an idle member: `SetupRoutes` (`routes.go:46`) makes a second
  `Queue`, whose consumer groups join those of the workers and are assigned
  partitions, but nothing reads them. With members that all read the property
  holds (`queue_faults`).
* `NoCommandSkipped`: `currentOffset` starts as the next offset to read, and the
  end of a generation commits `currentOffset + 1` (`queue.go:356`); a generation
  that has read nothing skips a command. `SkipsBounded` says that this is all that
  is lost: one command for each such end, and those that a handler has given up
  because a call failed, whose error is ignored.
* `NoRunOnceCached`: the middleware looks for a response before it takes the lock
  (`idempotency.go:57`) and not again afterwards. The second run of the handler
  meets a booking that is sold and answers an error to a client whose purchase
  succeeded. A retry sent after the success was answered is safe
  (`RetryReplayed`).

Other disagreements of the code with its words, met while modelling and written
into the properties that hold instead:

* The comment at `payment_service.go:111` has retries reuse the stored intent, but
  `PurchaseBooking` refuses a booking that is no longer reserved before it looks at
  its payment: a purchase that died between the sale and the charge is never
  finished, and no cleanup looks for it. `SoldIsTended` says that only a death or a
  failing revert, which is logged as critical, can leave one behind.
* `README.md:112` speaks of sliding windows for the admission limits; the counters
  are fixed windows. `BurstBounded` gives the bound that holds: fewer than twice the
  limit within any stretch of one window's length.
* `booking_event_consumer.go:101` logs "message not acked" when the dead letter of a
  record cannot be written, but goes on, and the acknowledgement of the next record
  commits past it. `NothingSkipped` exempts exactly these (`unburied`).
* A refusal by the event's window starts the window again (`rate_limiter.go:320`), so
  an event asked for without pause beyond its limit admits nobody until all stay away.
  `QuietWindowFrees` says what a client can rely on.
* A client whose Unregister is taken before its Register stays in the hub until its
  buffer is full (`overtaken`).
* The comment on `BulkReserve` has all successful reservations rolled back if any fails.
  A reservation whose COMMIT took effect but was answered by an error
  (`booking_repository.go:144`) does not count as successful and is not rolled back, nor
  is one whose cancellation fails; both run out like any reservation.
  `BulkAllOrNothing` exempts exactly these (`leaked`).

## 6. Abstractions and limits

Prices, names, users, listing queries, logging and HTTP are left out; so is the
check that the caller owns the booking, which every attempt in the model passes.
The depth counters of the dead-letter topics and
commands that do not parse are left out, because the program only ever adds to
the former and never writes the latter; so is the time to live of a job status
(24 hours) and of a cached response, both longer than a run. In `CommandQueue`
a booking that is overdue is gone from the moment it is due, whether or not it
has been released, deadlines are not extended, and both a declined card and a Stripe
that does not answer are failing calls; the precise conditions are those of
`PurchaseFlow`. A member that has been given up never writes again. The
depth counter that commands increment is not decremented when a command fails, so
it only ever bounds the queue loosely; nothing but the metrics endpoint reads it.
All processes and the database share one clock. Row locks are those of
PostgreSQL at READ COMMITTED; the lock manager itself, Redis, Stripe and Kafka
are modelled from how the code uses them. The simulated payment that replaces an
unconfigured Stripe is not modelled.

In `Admission` there is one event, since keys of different events share nothing, and
the counter of a client that is refused by the simple limit is not followed further
than one above it. In `SeatFeed` all clients want the seats of one event, whose
records share a partition; the topic never loses what was written. In `EventSale`
the replica applies transactions whole and in order; listing all events, which only
reads, and the marks for reading one's own writes are left out: the one route that
would look a mark up (`GET /events/:id/seats`) does not authenticate, so there is
never a user to look up.

Not modelled: the HTTP handlers and routes (they parse, call one action of the
modules above and choose a status code); users, authentication and venues (single
rows and tokens that no booking depends on beyond their existence);
configuration, telemetry and start-up (no protocol state); the front end (no state
the server relies on); `VirtualWaitingRoom`, which no route uses, and the payment
helpers no caller reaches. `PROJECT.json` gives the reason for each.

## 7. Plan

Done, in this order:

1. `SeatInventory`, `BookingRows`, `BookingTransactions`, with proofs.
2. `PurchaseFlow` on `BookingRows`.
3. `ExpiryRelease` on `BookingRows`.
4. `CommandQueue`, with proofs.
5. `Idempotency`, with proofs.
6. `Hub` and `SeatFeed` on it.
7. `EventSale`.
8. `Admission`.
9. Proofs about `PurchaseFlow`, `SeatFeed` with its hub, and `Admission`.
10. Proofs about `ExpiryRelease` and `EventSale`, and of the rest of what the runs of
    `CommandQueue`, `SeatFeed` and `Admission` check.

11. `BookingStore` between the transactions and their callers: implemented by
    `BookingTransactions`, used by `PurchaseFlow` and `ExpiryRelease`, with the row
    invariants, the deadlines and `SeatInventory` proved of it once.

Left: a common module for `EventSale` and the store, so that its `ChangeSeat` becomes the
methods it stands for; the simulated payment; and the waiting room, once a route uses it.
