# core-go in TLA+

core-go is the library every SourceHut API daemon is built from: it runs the
HTTP server, authenticates requests, talks to PostgreSQL, and does webhooks and
mail in the background. This directory holds TLA+ models of its stateful parts,
TLC configurations that check them on small instances, and proofs checked by
TLAPS. Paths below are relative to `src/`.

## The system

| Component | Source | State it keeps | Operations |
|---|---|---|---|
| Server life cycle | `server/server.go` | the listener, the signal channel, the registered queues | `NewServer`, `With...` builders, `Run`, warm shutdown |
| Native webhook queue | `webhooks/queue.go` | delivery table, tasks in memory | `Schedule`, `schedule`, `fetchSubscriptions`, `queueStage2`, `deliverPayload` |
| Legacy webhook queue | `webhooks/legacy.go` | delivery table, tasks in memory | `Schedule`, `queueStage2`, `deliverPayload` |
| Email queue | `email/worker.go`, `email/send.go` | one `bytes.Buffer` per mail, tasks in memory | `EnqueueStd`, `NewTask`, `Send`, `mailSetup` |
| Work queue (external) | `git.sr.ht/~sircmpwn/dowork` | task list, shutdown flag | `Enqueue`, `Start`, `Dispatch`, `Shutdown`, `Join` |
| Authentication | `auth/middleware.go` | the service's `user` table; per request the result channels and counters of `OAuth2` | cookie, internal, anonymous internal, OAuth 2.0, legacy OAuth |
| Bearer tokens, grants | `auth/bearer.go` | none (pure) | `DecodeBearerToken`, `DecodeGrants`, `Has`, `Encode` |
| Directives | `server/directives.go` | none | `Access`, `Internal`, `Private`, `AnonInternal` |
| Webhook authentication | `webhooks/{config,context,middleware}.go` | subscription rows | `NewAuthConfig`, `FilterWebhooks`, `WebhookContext.Exec` |
| Transactions | `database/middleware.go` | one `sql.Tx` | `WithTx` |
| Model mapping | `database/{sq,ql}.go` | cache of a model's fields | `Select`, `Columns`, `Scan`, `SelectAll`, `ScanAll` |
| Validation | `valid/valid.go` | errors of the response | `Expect`, `Optional...`, `Ok` |
| Panic recovery | `server/email.go` | none | `EmailRecover` |
| The rest | `crypto/`, `client/`, `config/`, `model/`, `redis/`, `s3/` | none, or constant after start | |

How they interact. A handler runs in a goroutine of its own, inside the
middleware chain; `auth.Middleware` decides which user its context carries.
Resolvers call `Schedule` of a webhook queue or `EnqueueStd` of the email
queue; both hand a task to a dowork queue. Each queue has one goroutine. A
`Server.Run` that is interrupted stops the listener, waits at most 30 seconds
for the handlers (`qserver.Shutdown`), then closes the queues and waits for
them (`work.Join`); a second SIGINT ends the process. Tasks live in memory
only, and nothing re-reads the delivery tables at start.

What is hard here, and what correctness means:

* **Webhooks**: the record of a delivery is committed in one step and its task
  is enqueued in another, with the error of `Enqueue` ignored. A delivery must
  not vanish without a cause, must be tried a bounded number of times and never
  after a final answer, the deliveries of one event appear together or not at
  all, and each of them must come to an end. Attempts time out, record updates fail,
  commits fail after the fact, the process dies between any two steps.
* **Legacy webhooks**: the same, but the records are prepared by a task of the
  very queue that is being closed.
* **Email**: one mutable buffer is shared by the handler, which closes an
  encoder into it, and by all the attempts to send it.
* **Authentication**: lookups race with each other (two first requests of one
  user), with revocation and suspension, with the client going away; `OAuth2`
  joins two goroutines through counters. No revoked token and no suspended user
  may be served, temporary failures must not look like refusals, each request
  gets one answer, and none waits forever. `meta.sr.ht` may answer with status 200,
  GraphQL errors and no data, which the client does not take for a failure.
* **Shutdown**: must end even if a handler hangs, and must not cut off work that
  it says it waits for. One signal and one `work.Join` serve all the queues.
* **Responses**: the fields of a query run at once and share one list of errors,
  which `valid.Ok` counts as a whole; each runs a transaction that `database/sql`
  may roll back at any moment after the client has left. What the client is told
  must be what happened, and every way to fail or to panic must end in an answer.
* **Authority**: the grants of a token travel from a request into a stored
  subscription and, later, on another request, into the context of a delivery.
  The delivery must have the token's reads and no writes, whatever the method, the
  grants and the token of the request that fired it; whose data it reads does follow
  that request, as `WebhookAuth` keeps its user. Only `Exec` looks at the expiry: no
  query may run after it, but the POST of a payload made before, and its retries, may
  follow.
* **Mapping**: the columns of a query and the destinations of its rows come from
  caches that are built at different times, in an order that `ScanAll` changes.

`PROJECT.json` lists every such hazard at its line, with the properties aimed
at it.

## Modules

| Module | What it models |
|---|---|
| `ServerRun` | The life of a daemon, `Server.Run`: running, draining (in `Shutdown`), joining (in `work.Join`), exited or killed, started again. Fragments that the queue modules conjoin with their own effects. |
| `Dowork` | One work queue: `Enqueue` until told to shut down, one task attempted at a time, retried up to a limit, memory lost with the process. External: modelled from how `webhooks/`, `email/`, `server/` and the webhook tests use it. |
| `DeliveryLedger` | The abstract specification of a webhook queue or of the mail queue: a batch of deliveries is published at once, and once; each is tried at most `MaxAttempts` times; it is settled after a try, or dropped. A mail is a batch of one. |
| `WebhookQueue` | `webhooks/queue.go` composed with `ServerRun` and `Dowork`; implements `DeliveryLedger`. |
| `LegacyQueue` | `webhooks/legacy.go` composed the same way; implements `DeliveryLedger`. |
| `EmailQueue` | `email/worker.go` and `email/send.go` composed the same way; implements `DeliveryLedger`. |
| `Auth` | `auth/middleware.go` for several concurrent requests. |
| `Daemon` | Both webhook queues in one process: `WebhookQueue` and `LegacyQueue` over one `ServerRun`. |
| `Transaction` | `WithTx` of `database/middleware.go` step by step, with as much of `database/sql` and PostgreSQL as decides its outcome. Fragments. |
| `Response` | One GraphQL operation: directive, validation, transaction and panic recovery of each root field; composed with `Transaction`. |
| `Grants` | `DecodeGrants` and `Has` (`auth/bearer.go`) and the four directives (`server/directives.go`) as operators. |
| `Subscriptions` | From a bearer token to a webhook delivery: `DecodeBearerToken`, `NewAuthConfig`, `FilterWebhooks`, `WebhookAuth`, `Exec`; uses `Grants`. |
| `ModelFields` | `database/sq.go` and `database/ql.go`: the cache of a model's fields, `Select`, `SelectAll`, `Scan`, `ScanAll`. |
| `WebhookQueueProofs` | The inductive invariant of `WebhookQueue`, the theorems that follow from it, and the proof that it implements `DeliveryLedger`. |
| `LegacyQueueProofs` | The same for `LegacyQueue`. |
| `DaemonProofs` | That each queue of `Daemon` runs as its own module says, and what follows. |
| `ModelFieldsProofs` | What sorting does to lists of names of any length, and the inductive invariant of `ModelFields`. |
| `EmailQueueProofs`, `AuthProofs`, `ResponseProofs`, `SubscriptionsProofs` | The inductive invariants of these modules and their theorems. |
| `MC...` | Model values, small sets and symmetry for TLC. |

### WebhookQueue

`pc[c]` is where the call `c` of `Schedule` is. `FetchSubscriptions` is the
first transaction (it returns any number of subscriptions up to `MaxSubs`);
`QueueStage2` is one turn of the loop in the second transaction, `Stage2Fails`
any of its failures, which rolls all of them back; `Commit` makes the records visible;
`CommitPanics` is `WithTx` panicking about `tx.Commit`, with the records there
or not; `EnqueueTask` is one turn of the loop after it, whose refused
`Enqueue` drops the task. In the goroutine of the queue, `step` goes through
`deliverPayload`: `BadRequest`, `PostFails`, `BodyUnreadable`, `PostAnswered`,
then `UpdateRecord` or `UpdateFails`, then `Return`. `Interrupt`,
`ShutdownReturns`, `JoinReturns`, `Kill` and `Restart` are the daemon's. `Shutdown`
waits for every handler of the process, and those of other queues are not in this
module: `ShutdownReturns` may find them still running (`others`), with `overran` set
though no call of `Schedule` is left.

Abstractions. A subscription fetched by a call, its record and its task are one
to one and share the name `<<c, k>>`. A response is "retry" (502, 503, 504) or
"final" (anything else); headers, bodies and signatures are left out. The
back-off between attempts is left out, so that waiting tasks come up in any
order. A panic in the goroutine of the queue (`WithTx` about a commit in
`deliverPayload`) ends the process: it is among the causes of `Kill`. `dropped`
is a history variable: recorded deliveries whose task is gone for good.

### LegacyQueue

Two kinds of tasks in one queue: `<<c, 0>>` prepares the records of call `c`
(the closure in `Schedule`), `<<c, k>>` delivers. `FetchSubscriptions` is done
by the handler, and `EnqueuePrepare` hands over the preparation task. While that
runs, `QueueStage2`, `Commit` and then `EnqueueTask` for each record are steps of the
goroutine of the queue. `deliverPayload` differs from the native one in one way
that matters: a failed update of the record returns `nil` at once.

### EmailQueue

A message consists of the parts that travel separately: `head`, which the
quoted-printable encoder has written into the buffer by the end of `io.Copy`,
and `tail`, an unterminated last line that it writes when it is closed. The
deferred `CloseBody` comes after `Enqueue`, so `Attempt` may precede it. `Send`
dials, negotiates, and copies out of the buffer (`CopyBegins`, `CopyEnds`,
`CopyBreaks`); the reply at the end may be a refusal, an acceptance, or lost.
`received` is what the SMTP server has accepted; `dropped` is a history variable, the
mails whose task was lost with the process. The data race on the buffer is
the choice of order between `CloseBody` and the two ends of the copy.

### Auth

`pc`, `lookup` and `revocation` are where a request, its `LookupUser` and its
`LookupTokenRevocation` are. `Middleware` picks the method, by a choice over
what the credentials may decode to; `LookupUser` reads the service's table,
fetches an unknown user from meta.sr.ht, and inserts it. The verdict is
`FinishLookup` for cookies and internal requests and `FinishOAuth2` after
`wg.Wait()`. `client.Execute` reports a failure of the transport, another status than
200 and a body that is no JSON (`LookupFails`, `RevocationFails`). An answer with
GraphQL errors and no data passes (`client/graphql.go:72-81`) and leaves the zero value,
"blank": a revocation status that reads "not revoked", or a profile without a name,
which is inserted and served. `Nobody` is that name, `Account` the row a request comes
to; real users have names. `WithTx` appears as its outcomes: `InsertUser` (committed),
`InsertRolledBack` (cancelled, yet reported as a success, as `ErrTxDone` is
ignored), `CommitPanics`. A panic in the goroutine of a handler ends the
request; in a goroutine of `OAuth2` it ends the process. `isMeta` says whether
the service is meta.sr.ht, which has no one to ask about an unknown user.
`ClientGone` is a step only while lookups run, where the database is asked with the
context of the request. `before` is a history variable: what was revoked, suspended and
known when the request arrived.
Suspended users are assumed to have a suspension notice, as `authForUsername`
expects. Legacy OAuth scopes are not looked at; grants are in `Grants`.

### Daemon

Both queues with their own variables and one `phase` and `overran`. The steps of
a handler or of a goroutine belong to one queue and leave the other alone;
`Interrupt`, `ShutdownReturns`, `JoinReturns`, `Kill` and `Restart` are those of
both at once: `Shutdown` waits for the handlers of both and for any others of the
process, `work.Join` closes both and waits for both. What is left of a step when one
looks only at the variables of one queue is a step of that queue's module, or none:
`ImplementsQueues`.

### Response and Transaction

`pc[f]` is where the resolver of root field `f` is: "waiting" until its turn (at
once in a query, after the fields before it in a mutation), "validating" once its
directive has let it pass, "running" in `WithTx`, "answered". `Validate` is one
`Expect`, whose failure adds `f` to `errors`, the list of the whole response;
`ValidateWithoutInput` is the panic of a validation that was given no input; `Reject` is a
resolver that finds `Ok()` false and returns null. `at[f]` is where `WithTx` is; its
function (`Fn`) may write, overlook an error of a statement, return an error or
panic. `AwaitDone` is the goroutine of `database/sql` that rolls an open
transaction back after `Cancel`. `effect[f]` is what PostgreSQL has of it, `result[f]` what
`WithTx` came to, "cancel", "fault" and "other" being panics. `EmailRecover` turns a panic
into an error of the response and, for a fault, a mail (`mailed`). What resolvers do
is that of the services: they are modelled as they have to be written, validating
first, asking `Ok()`, then running one transaction and returning what it gives.

### Grants and Subscriptions

A grant is `[service, scope, access]`; a token that names something else is
`Malformed`, and decoding it panics. A grant of another service is passed
over; one that names no access is decoded as RO; a later grant for the same scope
replaces an earlier one, as in the code's map. `Access`, `Private`, `Internal` and `AnonInternal` are
"granted" or "denied" for an `AuthContext`.

`context[r]` is the `AuthContext` of request `r`, one of `Callers`; `AuthenticateToken`
is the end of `OAuth2`. `Subscribe` stores what `NewAuthConfig` makes of it; `Fire`
prepares a delivery with a copy of the row and the context of the firing request; `Exec`
runs it later, in a context
that `WebhookAuth` has rewritten, unless the token has expired. `creator`, in a row, and
`fired`, in a delivery, are history. `Tick` passes time anywhere.

### ModelFields

A model is a sequence of fields, each with the number of its SQL column and of its
GraphQL name, 0 for none; numbers are compared like the strings they stand for.
`SelectAll` selects a column even of a field that has none, `ScanAll` leaves such a field
out (`database/sq.go:131`, `Destinations`).
`fields[i]` is the order an instance has them in, `cache[i]` the one its cache was built with.
`Selecting` and `SelectingAll` build queries, `Scanning` and `ScanningAll` the
destinations of their rows, in any order and on any instance. `sort.Slice` is not
stable: it may leave any order that is sorted. What a GraphQL query selects is a list
of names, as an alias can select a name twice. Quoting and the alias that `WithAlias`
puts before every column are left out. `SelectAll` sorts the quoted and aliased names,
`ScanAll` the bare ones; the model has one order for both, and they differ only if the
name of a column has a character below the quotation mark, a blank or "!".

## What the runs check

`webhook_safety` — two calls, up to two subscriptions each, two attempts
(415 k states). Safety of `WebhookQueue`:

* `NoSilentLoss`: a committed record has a task to come, a task, an attempt, or a
  recorded drop.
* `DropsHaveACause`: what is dropped is dropped by a death of the process, by a
  handler that overran the 30 seconds of the warm shutdown, or by a commit whose
  acknowledgement was lost. In particular no warm shutdown that keeps its
  deadline drops a delivery.
* `ImplementsLedger`: refinement of `DeliveryLedger`, with `Standing` as the
  mapping (absent, pending, settled, dropped).
* `FinalEndsDelivery`: a subscriber whose final answer is on record is not sent
  the delivery again.
* `RetryableAnswerIsRetried`: a 502, 503 or 504 leaves the task in the queue while
  there are attempts left, whatever becomes of the update of the record. An answer whose
  body cannot be read (`webhooks/queue.go:237-242`) ends the task whatever its status:
  the model has a class of answer only once the body was read.

`legacy_safety` — the legacy queue keeps the same ledger; `FinalEndsDelivery`
holds; `DropsHaveACause` holds only in the weaker form that the joining phase,
too, may drop. `legacy_shutdown` and `legacy_retry` are findings.

`daemon` — both queues in one process, one call each, two native subscriptions,
two attempts, under fairness (96 k states): `EveryRecordIsSettled` (each native delivery is
answered, given up or dropped, whatever the legacy queue does), `EveryTaskEnds`
(each task the legacy queue took is done or lost with the process),
`WarmShutdownEnds` (of both queues, also with a handler that hangs), and
`ImplementsQueues`: each queue, in the company of the other, is the one that
`WebhookQueue` or `LegacyQueue` describes alone. So what holds of it there holds in the
daemon; in particular, neither queue costs the other a task.

`email_queue` — two mails, two attempts (247 k states): `WholeAtMostOnce` (the server is never
given the whole message twice, even if its reply is lost; it holds because a retry finds
the buffer emptied, which `email_retry` is about),
`UndisturbedMailIsWhole` (a first attempt that began after the encoder was
closed sends everything), `ImplementsLedger` (the queue implements `DeliveryLedger`,
too: one delivery per mail, a bounded number of tries, none once there is a result),
`EveryMailHasAResult` (each accepted mail is sent or
given up, a warm shutdown included). `email_retry` and `email_close` are
findings, and they are what `UndisturbedMailIsWhole` excludes.

`authority` — who a request may act as and what is left of that in a delivery:
`Auth` and `Subscriptions` in one run, which share no state and run apart as in
`request_path` (1.64 M states).

* `Auth`, two requests of one user in every mix of methods, on meta.sr.ht and
  elsewhere: `RevokedTokenIsRefused` (unless meta.sr.ht gave a blank answer; a failure
  of any other kind does not let a revoked token pass), `SuspendedUserIsRefused` (a user
  the service knew as suspended when the request came), `ServedUserIsLocal` (the next
  handler finds the user in the service's table, and a user whom the service knew is
  served under his own name; a new one may become `Nobody`), `ForbiddenIsDeserved` (a
  failure that a lookup reports is a 500 and no refusal), `OneAnswer` (with the two
  exceptions the code has).
* `Subscriptions`, two requests of any kind, two subscriptions, four tokens (one
  for everything, two of one client, one that cannot be decoded), time up to 3:
  `DeliveryHasTokensReads` and `DeliveryIsUnprivileged` (the scopes a delivery may read
  are those its token may read, whoever fired it; whose data it reads follows the user
  of the firing request, and is not claimed), `NoQueryPastExpiry`,
  `SubscriptionsAreUsable` (`Exec` can dereference and decode whatever is stored; its
  panic about a query that no longer validates, `webhooks/context.go:81`, is outside),
  `ListingMatchesToken` (a token lists its own live subscriptions, a client no others,
  and nobody one that `Exec` would refuse at that moment).

`auth_upsert` and `auth_revocation` are findings.

`request_path` — three parts of serving a request, side by side in one run. They
share no state: `part` picks one in the initial state and the others stand still,
so the states are the sum of the three (69 k).

* `Auth`, one request: `EveryRequestEnds`.
* `Response`, two fields, query or mutation: `NoWriteAfterFailure` (no transaction for
  input found wrong, nor in a mutation after a field has failed),
  `AnswerMatchesStore` (data was committed; null was not, but for a commit of
  unknown outcome, which is mailed), `NullIsExplained` (a null comes with an error),
  `ResultTellsEffect` and `NothingHeld` of the transactions,
  `OperationIsAnswered` (`EveryFieldIsAnswered`, in the behaviours of this part).
* `ModelFields`, two instances, two queries: `MappingTypeOK` (its type invariant),
  `ScanFitsColumns` (a row of a query
  fits the destinations of `Scan`, on the instance that built it always, and on
  another one if `ScanAll` did not sort either before its cache was built) and
  `ScanAllFitsSelectAll` (a row of `SelectAll` fits the destinations of `ScanAll`, on
  any instance and even with equal columns, exactly if every field has a column).

### Bounds

* Two calls, or two mails: enough for two handlers to interleave with each other
  and with the one goroutine of the queue; a third is a third of the same kind.
  The proofs hold for any set.
* `MaxSubs = 2`: the smallest batch that can be partly prepared, partly enqueued
  and rolled back with one member good.
* `MaxAttempts = 2` (the code allows 5 for webhooks and 10 for mail): one retry,
  and one exhaustion. More attempts repeat the step from the first to the second.
* Two requests of one user: every race in `Auth` is between requests for the same
  row. The rows of two users never meet, but for blank profiles, which all come to the
  row of `Nobody`; there, too, two requests of one user race.
* Liveness of the webhook queues and of `Auth` runs with one call and one request:
  tasks of several calls differ in nothing that could block one of them. No run
  with a liveness property uses symmetry.
* Two root fields: one that fails and one beside or after it. Two subscriptions
  and two requests: one that subscribes and another that fires. `MaxTime = 3`
  leaves a second before, at and after each of the two expiries.
* Models: all with two fields, with and without names, and those of three with one
  GraphQL name that are out of order by column: the smallest where sorting moves a field past another
  and where two fields share a column. Selections of up to two names: one of each
  field, one name twice, a name that no field has. Two queries, so that one can be built
  before and one after a sort.
* Restarts and kills are not bounded: attempts and calls are, so the state spaces
  are finite. Requests arrive once each.

### Fairness

* The goroutine of a queue: weak fairness of `Attempt` and of each step of a task.
  `deliverPayload` posts with a client that times out after 30 seconds
  (`webhooks/queue.go:210`); the SMTP client's own timeouts and an answer or an
  error of the database are taken for granted.
* `EnqueueTask`: the call takes a lock in memory and never blocks.
* `ShutdownReturns` is enabled once `Shutdown` started, since its context has a
  deadline (`server/server.go:288`); `JoinReturns` once the queue is drained.
* `Auth`: the goroutines of a request. `middleware.Timeout` comes after
  `auth.Middleware` (`server/server.go:194`), so the code sets no limit: fairness
  stands for a database and a meta.sr.ht that answer or fail, or a client that
  leaves, which cancels the context of the lookups.
* `Response`: each resolver and each call of `WithTx` takes its next step (the
  requests have a timeout here, `server/server.go:197`), and
  `database/sql` notices a cancelled context.
* The queues of `Daemon` have a goroutine each, so each is fair on its own.
* Nothing else is fair: a handler may hang before its commit, no request, signal,
  kill or restart ever has to come.

## What is proved

Every property that a passing run checks by an invariant, as an action property or as
a refinement is a theorem for all values of the constants. The assumptions are those
named in the modules: bounds are natural numbers, positive ones where the code needs
one, `None` and `Nil` are nothing else, `Nobody` is no user, tokens have a natural number
for an expiry, and a model is a list of fields.

| Module | Theorems |
|---|---|
| `WebhookQueueProofs` | `TypeCorrect`, `NothingLostSilently`, `FinalIsFinal`, `RetryableIsRetried`, `DroppedForCause`, `Implements`: `Spec => ImplementsLedger` |
| `LegacyQueueProofs` | `TypeCorrect`, `FinalIsFinal`, `DroppedForCause`, `Implements`: `Spec => ImplementsLedger` |
| `DaemonProofs` | `QueuesAsAlone`: `Spec => ImplementsQueues` |
| `ModelFieldsProofs` | `MappingTypeCorrect`, `RowsFit`, `AllRowsFit` |
| `EmailQueueProofs` | `TypeCorrect`, `AtMostOnce`, `UndisturbedIsWhole`, `Implements`: `Spec => ImplementsLedger` |
| `AuthProofs` | `TypeCorrect`, `RevokedIsRefused`, `SuspendedIsRefused`, `ServedIsLocal`, `ForbiddenHasCause`, `AnsweredOnce` |
| `ResponseProofs` | `TypeCorrect`, `FailureStopsWrites`, `AnswersAreTrue`, `NullsAreExplained`, `ResultsAreTrue`, `TransactionsEnd` |
| `SubscriptionsProofs` | `TypeCorrect`, `TokensReads`, `Unprivileged`, `UsableByExec`, `ListingIsTrue`, `NoneRunPastExpiry` |

Each module but `Daemon` has one inductive invariant, `IInv`, and a theorem or lemma `Invariance`. The
induction step has a lemma per actor or per phase and a step per action. `IInv` was
checked by TLC before it was proved.

**WebhookQueue.** `NoSilentLoss` is not inductive: to
show that a task leaves the queue only after an attempt one has to know that the
goroutine runs a task of the queue (`WorkerInv`) that has been attempted
(`AttemptInv`); to show that a kill accounts for all the tasks to come one has to
know where the loops of the calls are (`LoopInv`) and which records they own
(`CallInv`). `FinalEndsDelivery` needs that a record with a final answer has no
task but the one about to return (`FinalInv`). `DropsHaveACause` needs that a
queue is closed under a handler only after an overrun (`DaemonInv`). `RecordInv`
ties tasks, drops and attempts to committed records, which the refinement needs so
that a published batch is new. The refinement is split alike: `ScheduleRefines`
(publish, drop or stutter), `TaskRefines` (try, settle or stutter) and
`DaemonRefines` (drop or stutter).

**LegacyQueue.** The argument is the same, but the loops run in the
goroutine of the queue. `PrepareInv` says that a call has one preparation task,
attempted once, and nothing recorded before it; without it a second preparation
could publish a batch again.

**EmailQueue.** `HeadInv` says that there is one head of each message: while it is
in the buffer or on its way, no complete copy has arrived, and when the copy ends
the buffer has none. So the whole message arrives at most once (`OnceInv`). `FirstInv`
follows a message through its first attempt: it is whole in the buffer while
dialling and on the connection afterwards. `CallInv` says when the buffer is as
`EnqueueStd` has left it. The refinement needs `LedgerInv`: a mail that is in the queue
has neither a result nor a drop, and one that was not handed over has no drop, so that
a task is published once, a try finds its mail pending, and a result ends it.

**Auth.** What was known of the user when the request came stays true, since rows are
not removed and suspensions and revocations are not taken back; so neither lookup
can come to the opposite later (`LookupInv`), but for a blank answer, which says nothing
of the user. A blank profile comes only to a user who was not known, and only the row of
`Nobody` can lack a user type. `ProgressInv` says what can have been
answered before the verdict, `AnswerInv` lists the answers the code can put together.

**Response.** `TxInv` and `ResultInv` tie the place in `WithTx` to what PostgreSQL has of the
transaction, `ResolverInv` ties the resolver to `WithTx`, and the rest says which
fields can have added to the errors of the response.

**Subscriptions.** The invariant is about origin: every `AuthContext` is one of a
decodable token or of a method without token, every row is `NewAuthConfig` of the
first kind, every delivery is `WebhookAuth` of some request and such a row. The
properties are then facts about these operators.

**Daemon.** There is no invariant: a refinement of this kind is about single steps.
Each action of the daemon is an action of the native queue (`RunIsNative`) or changes
no variable of it (`LegacyIsSilent`), and likewise for the legacy queue (`RunIsLegacy`,
`NativeIsSilent`). The steps of `Server.Run` are actions of both at once. That is why
`ShutdownReturns` of a queue has to allow for the handlers of others. By these two
theorems, those of `WebhookQueueProofs` and `LegacyQueueProofs` are about a daemon
with both queues as well.

**ModelFields.** `Sort` chooses an ascending rearrangement of a list. The proofs cannot use
induction, so they use that a set of numbers has a smallest one (`LeastNat`):
`FlattenSeqType` says that joining lists gives a list, `SortExists` is a selection sort,
and `AscendingIsUnique` counts: two ascending rearrangements that
differed would have to fit `k` names below `k`. `SortProperties` sums this up, and the
result of sorting does not depend on the order before. So `Columns` and `Scan`
depend on the order of the cache alone (`ColumnsAre`), which `IInv` follows: it stays
the declared one unless `ScanAll` sorted the fields first (`OrderInv`), and no longer changes once
a query was built from it (`QueryInv`). `FlattenSingles` and `DestinationsProperties` say
what leaving out the fields without a column does to a sorted list, and so that
`ScanAll` fits `SelectAll` in no other case than that nothing is left out.

Only model-checked: liveness, since fairness and `ENABLED` are out of the prover's
reach. Only proved: `TypeOK` of `Response` and of `EmailQueue` (`TypeCorrect`).

## Findings

1. `legacy_shutdown`: a preparation task that runs when `work.Join` closes the
   queue commits its records and has their tasks refused
   (`webhooks/legacy.go:89`), though `server/server.go:284` says that only a
   second SIGINT drops pending tasks.
2. `legacy_retry`: `webhooks/legacy.go:254` reports a retryable answer as complete
   when the record cannot be updated. The native queue retries.
3. `email_retry`: retries read the buffer that an earlier attempt has emptied, and
   report the mail as sent (`email/worker.go:31`).
4. `email_close`: the last line of a body is written after the task was enqueued
   (`email/worker.go:101`), and can miss the first attempt.
5. `auth_upsert`: two first requests of one user; the second insert panics
   (`auth/middleware.go:354`), on a goroutine that nobody recovers in `OAuth2`.
6. `auth_revocation`: a revoked token is served when meta.sr.ht answers the query for its
   status with GraphQL errors and no data (`auth/middleware.go:470`), though the comment
   at `auth/middleware.go:444-445` says that it should not be trusted.

## Not modelled

* Crypto, cursors and filters: conversions without state. Whether a payload decrypts
  or verifies is a choice.
* Configuration: read once at start, constant afterwards. Redis and S3
  middleware: a client put into the context of a request.
* The request that the GraphQL client builds: formatting; its outcome, an answer with
  data, an answer without, or an error, is in `Auth`.
* The builder calls of `Server` (`NewServer`, `WithDefaultMiddleware`, `WithSchema`):
  they run once, in the order of each service's main function, before anything
  else starts.
* The internals of dowork, PostgreSQL, SMTP and net/http: modelled from their use.
* The webhook queues with subscriptions that are created and deleted meanwhile: a
  delivery carries what was fetched. Their creation is in `Subscriptions`.
* The email queue beside the webhook queues in one daemon: it shares nothing with
  them but the process, and `Daemon` has two queues for what that means.

## Plan

Modelled and proved as planned: the three queues, authentication, transactions,
grants, subscriptions, the daemon, the mapping of models and validation. What
would come next:

1. `Auth` and `Subscriptions` against abstract specifications of their own: who may be
   served, and what a stored token may still do.
2. `ModelFields` with joins of several models, whose columns have aliases.
3. The email queue as the third queue of `Daemon`.
