# TLA+ models of chameleon-common

Models, model-checking runs and machine-checked proofs for the parts of
chameleon-common that run concurrently, retry, survive failures, or compute what
must come out the same everywhere. Every
definition is translated from the Go source under `src/pkg`; `PROJECT.json`
gives, definition by definition, the lines it stands for.

    tlc -config OutboxRelay_one.cfg MCOutboxRelay.tla     # one run
    tlapm OutboxRelayProofs.tla                           # one component's proofs

## The system

chameleon-common is a library that the services of one ecosystem share. A
service records events in an outbox table inside its own transactions; the
**outbox relay** publishes them on an SQS queue; a **queue consumer** in another
service receives, handles and confirms them. Services call each other with
signed tokens through a **circuit breaker**, keep expensive answers in a Redis
**cache** that their writes invalidate, and check on every request that a
user's token was not **revoked**. Their writes run in a **unit of work**, a
**poller** measures the queue, and prices, documents and cache keys come out of
shared **computations**. The rest is plumbing around those.

| component | state | operations | interacts with | hard parts |
|---|---|---|---|---|
| outbox relay (`messaging/outbox`) | the table's statuses and attempts, wait, gauges | `Start`, `drain`, `split`, `send`, `mark`, `observe` | table, queue, context | crash between send and mark, lost answers, two relays, limits of a batch, shutdown |
| queue consumer (`messaging/consumer`) | the batch in hand; in the queue: visibility, receive count | `Start`, `process`, `delete`, `postpone`, `retryDelay` | queue, handler, context | redelivery while still held, partial confirmation, outages of what the handler needs, dead-letter queue |
| service calls (`servicecall`, `circuitbreaker`) | circuit and its counts | `Do`, `send`, `Execute` | destination, caller's context | late answers, races for the test call, what counts as a failure |
| cache (`cache`) | entries and generations in Redis | `Resolve`, `Forget`, `Generation`, `NextGeneration`, keys | Redis, the owner's writes | stores that overtake an invalidation, failing reads, ttl |
| authorization (`middleware/auth.go`, `security`) | revocations in Redis | `AuthMiddleware`, checkers, guards | auth service, Redis | revocation between two checks, Redis away |
| plan guards, service tokens | the claims of one request | guards | authorization | decisions over claims |
| unit of work (`persistence`) | the transaction in the context | `Execute`, `withTx`, `DB` | database, pool, request's context | nesting, panics, swallowed errors, lost commits, a pool that runs out |
| queue depth (`messaging/queuedepth`) | cached dead-letter URL, gauges | `Start`, `poll`, `discoverDLQ`, `pollDLQ` | queue | two reads while messages move, stale gauges, a policy that comes late |
| money, validation, cache keys | none | pure functions | | rounding and boundary cases, check digits, keys that must differ |
| HTTP server, responses, metrics, logs, Redis client | none of interest | wiring and layout | | |

What makes each correct:

- *outbox relay*: an event is never lost, never marked published without being
  in the queue, never set aside unless the queue can never take it, and every
  duplicate is paid for by a failure; one bad event does not block the others.
- *queue consumer*: only handled messages are deleted, refusals reach the
  dead-letter queue at the normal pace whatever else fails, failures in passing outlast an outage.
- *service calls*: a destination is isolated only after its limit of failures, an
  open circuit is quiet, a half-open one tests with few calls, and it closes again.
- *cache*: answers are never older than a finished invalidation, and when they
  are, not for longer than the ttl; Redis failing costs no request.
- *authorization*: a revoked token is refused from the next request on, or let
  through and counted while Redis does not answer; no such failure costs a good
  session; a request acts on its own establishment.
- *unit of work*: all of a unit happens or none of it, a success means that all
  of it did, and it ends.
- *queue depth*: no message is in neither gauge, and one that was given up shows.
- *computations*: the price is the nearest cent, a document is accepted exactly
  if its check digits are right, one question has one cache key of its own.

## Modules

| module | what it is |
|---|---|
| `OutboxDelivery` | abstract specification: what the outbox promises for each event |
| `OutboxRelay` | the relay of `relay.go`, its table and queue |
| `OutboxRelayProofs` | invariants, finality, the bound on duplicates, what attempts are counted on, the limits of a batch, the refinement of `OutboxDelivery` |
| `QueueHandling` | abstract specification: what the consumers of a queue promise |
| `QueueConsumer` | the consumer of `consumer.go`, its queue and handler |
| `QueueConsumerProofs` | invariants, the bound on duplicates, the waits, how long an outage has to last, the refinement of `QueueHandling` |
| `QueueDepth` | the poller of `queuedepth.go` |
| `Pipeline` | `OutboxDelivery`, `QueueHandling` and `QueueDepth` around one queue |
| `PipelineProofs` | that a poll misses no message |
| `AtomicUnits` | abstract specification: what a unit of work promises |
| `UnitOfWork` | `unit_of_work.go` over the transactions and the pool |
| `UnitOfWorkProofs` | its invariants and the refinement of `AtomicUnits` |
| `ServiceCall` | `servicecall.go` over `circuit_breaker.go` |
| `ServiceCallProofs` | its invariants, among them what it takes to isolate a destination |
| `ResponseCache` | `cache.go` with concurrent readers and writers |
| `ResponseCacheProofs` | its invariants |
| `Authorization` | `auth.go` and `plan.go` over `revocation_redis.go`, the auth service and Redis |
| `AuthorizationProofs` | its invariants |
| `Money`, `Documents`, `Keys` | `money.go`, `br.go` and `key.go` as operators, next to what they should compute |
| `Values` | services that ask those three |
| `ValuesProofs` | rounding, the check digits, what the validator reads in a text, what a key tells |
| `MC*` | what the configurations instantiate for TLC |

The definitions whose name has a suffix after an underscore (`Fits_AnyBytes`)
are variants of the definition next to them with a plausible mistake in it.
Nothing uses them: they document, and let one check, that the properties notice
the mistake (`mutants` in `PROJECT.json`).

### OutboxRelay

`pc[r]` is where relay `r` is in `Start`: `top` (the loop's head), `send`,
`markPublished`, `markFailed`, `incrementAttempts` (the writes of `mark`, in
order, each only if there is something to write), `observe`, and the two waits
`backoff` and `poll`. `job[r]` is the pass in hand: what `split` chose and what
`send` answered, the error of the send included, which comes out of `drain` only
after `mark`. Each call to the table or the queue is one action with an outcome
for every way it can end: applied and answered, applied and not answered, not
applied. The table is `status` and `attempts`; `copies` counts how often the
queue accepted an event, and is what the properties compare the table with.
`Crash`, `Cancel`, failing calls and outages take from the budget `faults`; calls
that fail because of a cancelled context or a queue that is away take nothing.

### QueueConsumer

`where`, `hidden` and `receives` are the queue's view of a message: place, ticks
until it shows up again, receive count. `job[c]` is the batch a consumer holds
with the receive counts it got, which stand for receipts: a receipt is current
while the count has not moved. `Handle` is `process` up to the two
confirmations: the batch came in some order, the handler treats its first
messages and returns their results in that order (`Results`), errors in passing
when what it needs is down, refusals for those of `Bad`. `Sort` matches results
to messages by position, the messages without a receipt included, and a result
that is not there counts as an error in passing (`WithResult`). `applied`
counts handlings that took effect, `downTime` the ticks of outage and
`unanswered` the messages of a batch without a result, all only for the
properties. `RefusedKeepsPace` is an action property: after a crash, a slow
handler or a failing call too, nothing but a new receive hides a refused message
again. Its one exception is a batch in which the handler gave that message no
result, so that nobody saw the refusal. `Tick` is the queue's clock. Nothing stops it while a batch is
held: handling that outlasts the visibility timeout, which the comment on
`Options.VisibilityTimeout` forbids, is one more failure out of the budget
`faults`, and the message is then in two hands.

`QueueHandling` is what remains when consumers, timers and counts are taken
away: where a message is and whether its handling succeeded. Messages move in
sets, since a receive, a deletion or a timer moves several at once.

### QueueDepth and Pipeline

`QueueDepth` is the poller: `pc` is `poll` at the tick and `pollDLQ` between the
two reads of one poll, `dlqKnown` stands for the cached URL, and a failing read
leaves the gauges. It has no queue of its own: `Pipeline` instantiates it over the
messages that `QueueHandling` moves, which in turn come from the events of
`OutboxDelivery`. The two abstract specifications stand for the code they were
shown to be implemented by, so that events, copies and messages fit in one run. An
event reaches the queue once, or twice if it is of `Repeated`; the RedrivePolicy
may be set at any time, before which nothing is given up. SQS calls its counts
approximate: here they are exact at the moment of the read, so what is shown is
about the order and the memory of the reads, and not about the counting of SQS.
`present` remembers what was there at the first read.

### UnitOfWork

A worker serves a request: it is in `depth[w]` units, one inside the other, and
runs the function of the innermost. `Begin` takes a connection of the pool,
`WithTx` is the context that the function gets, and a repository's statement goes
to `DB(ctx)`: the transaction of that context, or the base connection. The
function may go on after an error and return nil, panic (the panic goes on
through the enclosing units, each rolling back), keep a context that outlived its
unit, or call `Execute` again: gorm's `Transaction` on the base connection begins
another transaction, and so the model has one per unit. Rows are locked by the
open transaction that wrote them, a failed statement spoils its transaction, as
in Postgres, and the end of the request's context rolls back what is open, at
once or later. `data` shows who wrote each row last; `calls` is what each
function was told of its statements. In `AtomicUnits` only data, writes and
answers are left.

### Values

`Money` counts an amount in tenths of a cent and a percentage in hundredths of a
percent. The division of `shopspring/decimal` keeps 16 places, which at this
scale is exact, so that `Round` is the only rounding, a half away from zero.
`Documents` reads a text as a sequence of characters, each its code less that of
`'0'`, so that a digit of ASCII is its own number; `WideDigit` has the other ones
that `unicode.IsDigit` keeps, and what is no digit is a `Mark`. `digitsOnly`
keeps the bytes of the digits (`Bytes`, UTF-8), again less `'0'`: the lengths that
the rules compare are lengths in bytes and `value[i]` is `value[i]-'0'` of the
code, whatever the script. For digits of ASCII the bytes are the digits, and
`TextsAreReadRight` then says of a CEP that it has eight; four digits of two
bytes each pass too, and eight of them do not. `Keys` builds a key
as a text, a sequence of numbered characters, since what matters is that
different questions get different texts: `Join`, the sort of `WithSet`, its limit
and the digits of a generation are spelled out. `sort.Strings` is an arrangement
of the values that the order of texts does not contradict, whichever algorithm
finds it. The hash of a long set is the constant `Hash`, of which only
`HashAssumption` is known: the sets that services ask for do not collide, and no
short one is written like a hash. In the run it is one character, far below the
limit, as the 25 of the code are. Each of the three has beside it a definition that says
the same without the algorithm: the nearest cent of an exact price, the modulus eleven, equality of the
selections. `Values` only asks one question after the other, all of them from the
sets that `MCValues` gives.

### ServiceCall

`Admit`, `Reject` and the five ways a call ends are `Do`; they run for any
number of concurrent calls. The breaker is `sony/gobreaker`: its generation
number appears as the flag `current[c]`, true while no generation began since
the call was let through. What the repository decides is which answers are
failures (`Do`) and when they are enough (`ReadyToTrip`): `failures` counts, only
for `IsolationHasCause`, the calls that count and failed or could not be sent since the
circuit closed or the interval cleared its counts. `Broken` calls fail before anything is sent.

### ResponseCache

One cached answer, abstracted to the `version` of the data it was built from. A
request is `Generation` (when keys carry one) and `Resolve`, one action per call
to Redis; a write is the owner's own write and then `Forget` or
`NextGeneration`. Which of the two schemes a service uses is chosen by the
initial state (`generational`) and never changes, so one run covers both. `settled` is the newest version whose invalidation finished,
`asOf[r]` what it was when a request began. `lapse` remembers that the one thing
happened that each scheme does not protect against. `GenerationLost` is a Redis
that evicts the generation's key, against the requirement of `cache.go` 147-159:
readers are back at answers of generation 0, which counts as a lapse and must
end with the ttl.

### Authorization

`pc[q]` is where a request is in `AuthMiddleware`: about to read the blacklist, the
token version, or past both and before the guards of its route, which decide
from claims and touch nothing shared, so that they are one action, `Guard`. A
request that is not let through goes back to `idle` with its answer in `outcome`.
What a token says is data, the constant `Claims`: signature, type, `sub` and `jti`
are the one flag `proper`, and a permission is the sequence of its parts, so that
a wildcard is a prefix. `Issue`, `Logout` and `RevokeAll` are the auth service,
known only from the keys and comments of `revocation_redis.go`: each is one step
with its write to Redis, and keys expire only when no token they revoke is good
any more, as lines 50-53 there say. A version that is not a number, which the
middleware reads as 0, is never issued. `TypeOK` says in passing that a
request that was answered goes no further (`Abort` and the `return` after it). What the context holds of a request that
was refused is left out. `revokedBefore` and `loggedOut` remember, for the
properties, what Redis forgets when keys expire.

## Runs

| run | shows |
|---|---|
| `OutboxRelay_one` | one relay, three events, two failures: every safety property, events settle, shutdown ends, failures are reported, the abstract promise is kept |
| `OutboxRelay_outage` | (violation) the gauge of waiting events stands still during an outage |
| `QueueConsumer_one` | one consumer, two failures: every safety property, what outage a message survives, the abstract promise (messages settle), shutdown ends |
| `QueueConsumer_patience` | (violation) five deliveries do not last fifteen minutes |
| `ServiceCall_calls` | the circuit's safety with three concurrent callers; it closes and callers are served |
| `ServiceCall_notsent` | (violation) requests never sent open the circuit |
| `ResponseCache_fresh` | when an answer can be stale, with and without generations, and that it does not last |
| `ResponseCache_window` | (violation) Forget leaves a window |
| `Authorization_requests` | a request against logouts, revocations, expiring keys and Redis failing: revoked tokens are stopped or counted, good ones served, establishments kept apart, every request answered |
| `UnitOfWork_nested` | two workers, each with a unit in a unit, one failure of any kind: units are atomic, success is whole, everyone returns |
| `Pipeline_events` | three events on their way: each is handled, set aside, or seen in the gauge of the dead-letter queue; the gauges become right; no poll misses a message |
| `Values_answers` | prices, documents and keys against what they should be |

The violations are disagreements between a comment and what the code does;
`findings` in `PROJECT.json` quotes both sides. None loses an event or a message.
Two more were noticed and have no run of their own: a half-open circuit closes on
a test call that its caller abandoned, since `Do` reports it as a success
(`servicecall.go` 79; the diagram in `src/README.md` 215 speaks of a test that
passes), and one failed `Generation` call gives its reader an answer of
generation 0 while others read the one in force (`cache.go` 144 says that they
would all read the same wrong one).

### Bounds

- Outbox: `BatchSize` 2 stands for 10, four bytes for 256 KiB. Three bodies of
  1, 3 and 4 bytes share a batch exactly or fill one alone, and the first is one
  that the queue rejects; there are more pending events than a batch holds, so
  `left` and a full fetch both occur. The waits 1 to 3 double once and meet the
  cap, as 2 to 30 s do. `MaxFaults` 2 allows a failure while another is being
  made up for. `AttemptCap` saturates a counter nothing reads back. Several
  relays on one outbox are covered by the theorems, for any number of them.
- Consumer: two messages, one refused for good, in one batch or two. Three
  receives, so that the delays are 1, 2 and the cap 3, which is no multiple of the
  first, as 15 minutes is not 30 s doubled, and outages as long as the two waits
  that precede a delivery. Several consumers, and one message in two hands, are
  covered by the theorems. `QueueConsumer_patience` uses the code's own numbers:
  a tick is 30 s, delays of 1 to 30 ticks, five receives, and outages of up to 31
  ticks, the sum of all waits.
- Unit of work: two workers nest two deep; the outer functions share a row, the
  nested ones write rows of their own, one of which is also written outside of
  units. Functions write in one order and a nested function never writes a row that
  its outer one holds, since it would wait for itself in the code too (`RowsAt`).
  Three connections: with two, both outer units may hold one while both nested
  ones ask for another, and `EveryUnitEnds` fails. This is a condition on the
  pool that the code cannot enforce. One failure, at any place.
- Pipeline: one event of each kind, good, refused and undeliverable, the good one
  with a second copy; one failing read or restart of the poller.
- Values: amounts on both sides of every half cent around zero, and larger ones;
  percentages at 0, 100, next to them and beyond. Documents repeat six free
  digits of two values, which reaches every remainder, with every pair of
  check digits, plain and with a mark; one digit of two, three or four bytes takes
  the place of others at the beginning of documents, and one to eight of them are
  texts of their own or follow digits of ASCII. A field of another kind is asked for too. Selections of up to three values of
  which one is the beginning of another, and `MaxJoined` 4 for 120, so that some
  are hashed; generations of one and of two digits. Values that hold a separator are left out, as the code's own are
  identifiers.
- Service calls: three callers, one of them `Broken`, thresholds of 2, so that a
  count is kept between calls, tests can win or lose a race, and answers come
  late from a generation two changes back. Two outages, so that the circuit
  opens again after it closed.
- Cache: two readers that store over each other, one writer that writes twice,
  one failure of any kind. `MaxGeneration` is the writes plus the failures, more
  than any run reaches. Several writers are covered by the theorem, for any
  number of them.
- Authorization: one request slot, reused without end: requests write nothing
  that others read, so two of them show no more than one, and the theorems are
  for any number. Three tokens of one user: an administrator's without an
  establishment, one of a unit whose plan is blocked, one without a version. One
  revocation tells versions apart; one failure, and outages that start at any
  step, reach every way that the two reads can fail, since a check is degraded
  or is not.

### Fairness

A goroutine that can take a step eventually takes one: weak fairness on the
steps of each relay, consumer and call, whose waits all end by timers (`sleep`,
`sendTimeout`, the HTTP client's timeout, `opTimeout`). Starting a stopped
process is part of it, as a service is restarted by its platform; cancellations,
crashes, failing calls and new outages are never fair, and bounded by a budget.
Outages end where a property needs it (`QueueRecovers`, `DestinationComesUp`,
`RedisComesUp`) and `OutboxRelay_outage` drops that. The queue's timers and
dead-letter move, and Redis' ttl, are fair. Which message a receive brings is
not: `KeepsThePromise` holds because a message that waits is received, or
another one that leaves the queue is, finitely often. A handler that always
fails is no obstacle: its receives run out. Callers whose requests cannot be
built need not keep calling, and the two liveness properties of `ServiceCall`
speak of executions in which they stop in the end: while they come, they are
what opens the circuit. Writers of the cache are not fair at all: an
invalidation may never be tried again, and stale answers still end. Of
`Authorization` only the steps of a request are fair: each read ends by
`revocationOpTimeout`, so requests end although Redis may never come back. In
`UnitOfWork` a worker that can step does, and a statement that waits for a lock or
a `Begin` that waits for a connection cannot. In `Pipeline` the fairness of the
outbox and of the consumers is the `Progress` that `OutboxRelay_one` and
`QueueConsumer_one` check, the poller's ticker ticks, and someone sets the
policy in the end. Reads that fail are bounded by `MaxFaults`, so that polls
succeed again.

## Proofs

For all values of the constants that satisfy the modules' assumptions:

- **OutboxRelay.** The invariant behind `PublishedIsSafe` and `FailedIsSafe`
  adds, for a relay between the send and the writes, that what it is about to
  mark published was accepted, and what it is about to set aside is
  undeliverable, and that an undeliverable event was never accepted; without it
  the marks could not be justified, since the write comes long after the answer.
  `OutcomesAreFinal` needs that no event is in the queue and undeliverable at
  once, so two relays never write different outcomes over one event.
  `RelayImplementsDelivery` maps every step to one of `OutboxDelivery` or to a
  stutter: an event's fate is decided by the send, not by the mark.
  `DuplicatesAreBounded` is an account: for each event, the copies that the queue
  has, the relays that may still deliver it and those that were cancelled
  while sending it are together at most the relays and the failures so far
  (`Paid`). A send gives up the relay's claim for the copy, and whatever gives a
  claim back is a failure.
  `AttemptsAreOfWaiting` assumes a single relay with a queue: then what
  it is to try again is pending from the fetch to the write that counts it, and
  apart from what it marks meanwhile.
  `SendsAreWithinLimits` compares two ways to add up: `split` keeps the bytes of
  the batch as it fills it (`Load`), the property sums over the finished batch.
  One more event adds its bytes to a sum, whatever the order in which
  `MapThenSumSet` takes the events (`SumOfOneMore`), so that the two agree at
  every prefix (`LoadIsKept`).
- **QueueConsumer.** `DeletedIsSafe`: what a consumer is about to delete was
  handled. `RefusedIsSafe`: among what a consumer is about to postpone there is no
  refused message but those it has no result for (`Paced`), whatever order the
  batch had, and no other action hides a message without receiving it. `DuplicatesAreBounded` is the same kind of
  account: handlings that took effect, consumers about to handle the message, and
  one more while nobody who will delete it keeps it hidden (`Free`). Only a failure
  makes a message free again. `PromiseIsSafe` maps every step to one of
  `QueueHandling`. `RetryDelayIsWait` shows that the loop of `retryDelay` ends
  with the wait that the comment on `retryBaseDelay` gives as a power of two.
  With it `OutagesAreOutlasted`: while no call fails, a good message that was
  received is either still to be confirmed by the consumer that has its latest
  receipt (`Tends`), or has been waiting, and then the outage has lasted as long
  as the waits up to that receipt, and when the queue shows it again it will
  have lasted for the next one too, or be over (`Waited`). The theorem assumes
  one outage, since two short ones may each cost a delivery, and `MaxDown` no
  less than the waits, since `downTime` stops counting there.
- **ServiceCall.** A call that counts is in flight, the half-open circuit
  counted each of them, and an open one has none; `ProbesAreLimited` and
  `OpenIsQuiet` follow. `IsolationIsCaused`: while the circuit is closed the
  breaker's failures in a row are no more than those that happened, so that they
  were enough when it opened, and none is forgotten until it closes.
- **ResponseCache.** The entry under the generation in force is not older than
  what is settled, a reader about to look finds none older than its request, and
  what others are about to store will not change that; `StaleIsALapse` follows.
  An evicted generation loses this order, and is a lapse.
- **Authorization.** The invariant says how far a request with a revoked token can
  be: before the blacklist it is revoked, past it only by its version, past both
  not at all, unless degraded or expired; and that Redis holds every revocation of
  a token still good (`RevocationIsSafe`), and none that was not made
  (`SessionsAreSafe`). That the context holds the token's establishment until the
  guards gives `EstablishmentsAreSeparate`.
- **UnitOfWork.** A unit's transaction holds what its function was told it wrote,
  and one whose function was ever told of a failure cannot commit; the units that a
  worker is in are unanswered and have open, failed or undone transactions; a
  statement in hand is the innermost function's own, or comes too late. From these
  follow `SuccessWasWhole` and, step by step, `UnitsImplement`.
- **Pipeline.** Between its two reads the poller has counted all messages but some
  in the dead-letter queue, and nothing leaves that queue (`IsCounted`), so that
  the second read adds at least those that are missing: `PollMissesNothing`. Read
  in the other order, a message that moves between the reads would be missed.
- **Values.** `Nearest` rounds to less than half above and at most half below, and
  keeps the order; with what is left of a percentage as one product,
  `QuotesAreRight` follows for all integers. `CheckDigitsAgree`: the two
  foldings in `br.go` are the same function, and the check digit of the modulus
  eleven. `TextsAreRead` takes it to whole texts: what `digitsOnly` keeps are
  bytes, one for each digit if all digits are of ASCII (`OnlyDigitsAreKept`), the weights of `br.go` are those that the rule counts from the right,
  and so both add up the same products; and a telephone is read with or without
  its country code. `KeysTellApart` reads a key backwards: the last part of a
  join is what follows its last separator, so that two joins of texts without the
  separator are equal part by part (`JoinTellsTexts`); digits tell a number
  (`FormatIntTells`); a part tells the set it was made of, hashed or not
  (`SetPartTells`); and
  selections with the same values have the same arrangements, so that sorting
  takes them to one (`SortedTellsValues`). It needs owners without a `:`, and
  values that are not empty and have neither `,` nor `:` (`KeysAssumption`), and the hash
  not to collide (`HashAssumption`):
  `key.go` escapes nothing, and with such texts two questions can have one key.

Each proof checks that the initial states satisfy the invariant, that every
action keeps it, and that it implies the property.

The recursive functions of the models (`Load`, `RetryDelay`, `Patience`,
`digitsOnly`, `FormatInt`, the sums of `MapThenSumSet`, the joins of
`FlattenSeq`) are each a `CHOOSE` of a function that
satisfies its recursion. That there is one is shown by extending it one argument
at a time, and what it computes by induction. The induction theorems of the
library take a predicate as a parameter, which the provers cannot instantiate;
`Ascend` says the same of a set of numbers, and follows from the order of the
numbers being well-founded (`WFMin`).

Only model-checked are the liveness properties and the fair parts of the
refinements (fairness is out of the prover's reach), and the documented claims
that the code does not keep. Every safety invariant of a passing run has its
theorem. `SortSeq` and `SelectSeq` are built into the prover without a definition,
so that `Sorted` says what a sort gives and `digitsOnly` is the loop that it is.

## Not modelled

Metrics and log text, layout of responses, JSON, the cryptography of tokens,
configuration and wiring. Service tokens (`service_token.go`) are a decision over
one signed token, and the accessors of `auth.go` 159-254 only read the context.
The entry of a batch that an answer does not mention, a message without a
receive count and a Redis that loses revocations are ruled out by what the code
relies on (SQS' contract, `revocation_redis.go` 50-53). The messages of
`validator.go` and the registration of the rules in `config.go` are layout and
wiring: `SetupCustomValidator` registers them with gin's engine, while
`ValidateRequest` uses one of its own, which does not know them. The poller's reaction to a RedrivePolicy that points to another
queue is none until it is restarted (`queuedepth.go` 118), and `Pipeline` keeps
one dead-letter queue. `NewNoopUnitOfWork` and the generated mock serve tests.

## Plan

All that was planned is done: relay, consumer, service calls, cache,
authorization, their composition with the poller, the unit of work, and the
computations. What could follow:

1. The pace of a relay whose full batch the queue keeps refusing (`relay.go` 148),
   which needs passes with a duration.
2. A Redis that loses revocations, with what its operators are told.
3. Service tokens, if they become more than a decision over one token.
