# A verification project for OxidRelay

OxidRelay is a mail relay: it takes messages over SMTP, stores each of them as
one or more rows of an SQLite table, and a background dispatcher hands every row
to a transport (an SMTP server or a plugin) until it is sent or given up. These
TLA+ modules model the parts of it that keep state and the ways in which they
can be interrupted; TLC checks them on small instances, and TLAPS proves the
central invariants for every size.

File names below are relative to the repository's `crates/` unless they say
otherwise.

## 1. The system

### Components, their state and operations

| component | source | state | operations |
|---|---|---|---|
| retry policy | `dispatcher/src/retry.rs` | none | `backoff`, `is_exhausted` |
| durable queue | `queue-sqlite/src/lib.rs`, contract in `core/src/queue.rs` | the table `mails`: status, attempts, last error, transport, `updated_at`, `next_attempt_at` | `enqueue`, `fetch_due`, `mark_sending/sent/failed/dead`, `requeue_sending`, `requeue_stale_sending` |
| dispatcher | `dispatcher/src/lib.rs` | the running tick: `now`, the batch, the semaphore, the spawned tasks | `recover`, `tick`, `run`, `deliver` |
| routing | `core/src/config.rs` | configuration | `RouteRule::expand`, `is_active`, `resolve` |
| subject label | `core/src/config.rs` | configuration | `format_for`, `render`, validation of the formats |
| SMTP ingress | `ingress-smtp/src/lib.rs` | one `RelayHandler` per connection (envelope sender, recipients, data) beside the server library's own protocol state | `helo`, `mail`, `rcpt`, `data_start`, `data`, `data_end` |
| startup and lock | `oxid-relay/src/main.rs` | lock file, database, map of transports, default transport | `run_relay`, `acquire_instance_lock`, `build_plugin_transports`, shutdown |
| configuration, plugin loader | `core/src/config.rs`, `plugin/src/loader.rs` | configuration, environment | `Config::validate`, `plugin_settings`, `resolve_env`, `load_plugin`, `discover` |
| transports, bundled plugins | `transport-smtp`, `plugin/src/{transport,engine,http}.rs`, `plugins/*/script.rhai` of the repository | per call: the request that is out and its answer | `send`: `build_message`, `mail_to_map`, the scripts, `execute` |
| authentication | `core/src/config.rs`, `ingress-smtp` | configuration | `authenticate`: not reachable, AUTH is not advertised |
| logging, HTTP API, packaging | `logging`, `http-api`, `packaging/` | none that the relay decides by | |

### How they interact

`main.rs` loads and validates the configuration, takes an exclusive lock named
after the database, opens the queue, builds the transports, starts the ingress
on a thread of its own and runs the dispatcher until a signal; then `run_relay`
returns and drops the lock, and the end of `main` ends the ingress threads, for
which nobody waits. The ingress has a thread for every connection. Ingress and
dispatcher share nothing but the queue: the ingress blocks a connection's thread
on each INSERT; the dispatcher polls. A tick reclaims claims older than the
lease, fetches a batch, claims each mail (`sending`), takes a permit, spawns a
task for it, and waits for all tasks. A task resolves the transport, calls
`send` and writes the outcome.

### What is hard here

* **Interleaving.** Tasks of a tick, the loop and the ingress interleave at
  every await, and none of the UPDATEs looks at the old status: that a mail is
  not delivered by two tasks rests on the join at the end of a tick, the lease,
  the recovery and the instance lock together.
* **Stale copies.** A task judges a failure by the attempt count of a copy
  fetched before the claim; the SMTP handler keeps an envelope of its own beside
  the one of the server library.
* **Failure of one step.** Every queue statement may fail, and most failures
  are only logged; the process may die between delivery and the note of it.
* **Time.** `now`, `updated_at` and `next_attempt_at` come from a wall clock
  that can be set back, are stored as text of varying length and compared byte
  by byte; delays have no upper bound.
* **The other side.** A service may act on a request after the client has given
  up, deliver and answer with an error, or have its answer lost.
* **Waiting.** A tick waits for a permit and for every task.
* **Two processes** may be started on one database.

`PROJECT.json` lists these as hazards, each with its line and the properties
that would catch it going wrong. Three have none, and say why: rows that do not decode,
delays and leases beyond what chrono represents, and URLs that redirect.

## 2. The modules

| module | models | used by |
|---|---|---|
| `RetryPolicy` | `backoff`, `is_exhausted` with saturating arithmetic over integers of any width | `MCRetryPolicy`, `MCDispatcher` |
| `StoredTime` | times in the queue: the arithmetic of retry and lease, RFC 3339 text and its order | `MCRetryPolicy` |
| `MailQueue` | the table and every statement on it, as operators from a table to a table | `Dispatcher`, `Startup` |
| `Dispatcher` | recover, tick, run, deliver, the process around them, the clock | `MCDispatcher` |
| `DeliveryContract` | abstract: what is promised for an accepted mail | refined by `Dispatcher` |
| `Routing`, `SubjectLabel` | the choice of targets; the label in the subject | `Ingress` |
| `Ingress` | the SMTP handler under the server library's protocol, with crashes | `MCIngress` |
| `Relay` | the running process: `Ingress` and `Dispatcher` on one table | `MCRelay` |
| `Transports` | `send` of the SMTP transport and of the bundled plugins, call by call | `MCTransports` |
| `TransportContract` | abstract: what `send` promises the dispatcher | refined by `Transports` |
| `RelayConfig` | validation and what `run_relay` derives from a configuration and the environment | `Startup` |
| `Startup` | `run_relay` in several processes: lock, database, transports, recovery | `MCStartup` |
| `MailQueueProofs`, `DispatcherProofs`, `DeliveryProofs` | theorems about the queue's statements and about `Dispatcher`: its claims; its account of deliveries and its contract | `RelayProofs`, `StartupProofs` |
| `IngressProofs`, `RelayProofs` | theorems about the sessions, and about sessions and dispatcher on one table | |
| `StartupProofs`, `TransportsProofs`, `RetryPolicyProofs` | theorems about the modules they are named after; the last about the schedule in `MCRetryPolicy` | |

`PROJECT.json` (`map`) names the source lines of every definition. Operators
whose comment says "mutant" are deliberately wrong variants of the definition
below them; they are not part of the model.

### Dispatcher

One action is one piece of code between two awaits. `pc` is where the loop
stands: `recover` (inside `recover()`), `idle` (the `select!` of `run`), `fetch`
(after the reclaim), `claim` (head of the loop over the batch, or the join when
it is used up), `acquire` (claimed, waiting for a permit), `stopped` (`run` has
returned, the process and its ingress are still there). `handles` are the
spawned tasks with the copy of the mail each has; a task is `spawned`, then has
its answer (`ok`, `err`), then is `done`. `QueueWrite` is a statement that takes
effect or fails without effect; the code's reaction to a failure (log, go on) is
in each action. A failing send that is truthfully reported costs nothing;
everything else that goes wrong (a failing statement, a crash, a panic, a lost
answer, a hang) is counted in `faults`, so that properties can say what
failures may cost. The `sends` and `delivered` counters are history variables, and so
is `failed_at`, the time of a mail's last counted failure: `BackoffHonoured` measures the
backoff from there and not from the due time in the row, which may be the very thing
that was written wrongly.

A start picks a configuration, so a restart may change the transports under the
queued mails. A call of `send` is one step here, with the outcomes that
`TransportContract` leaves: delivered and Ok, an error, an error although it was
delivered; besides, a panic, and never returning (a script of a user's own).
`Transports` shows that the transports have no other outcome. A service that
delivers after the client has given up is the third one: that the copy comes
later than the error is a difference no property here can see, as they count
copies.

### Ingress

The server library (`mailin_embedded`, external) decides which callback may
come next. It is modelled by the order it enforces: HELO, MAIL, RCPT, DATA, each
only after an OK; RSET and a new HELO drop its own envelope without a callback.
`phase`, `from` and `to` are its state, `envelope_from`, `recipients` and `data`
the handler's. A refusal may or may not close the connection. `data_end` works
through the targets one INSERT at a time (`EnqueueTarget`), then answers
(`Reply`). Subjects and formats are sequences of tokens in which `%` is a token
of its own, so that placeholders can overlap as in the strings; what the
configured regular expression finds in the subject is part of the configuration, and
so is whether it matches an empty one (`matches_blank`).

A row has three history fields: the number of the target it was stored for, the
recipients of the message and its subject as it came. `FannedOut` asks, for every
target of the rule, for a row of that number with the transport and the recipients of
that target, so that two targets with one transport are told apart.

### Relay

`Relay` extends `Dispatcher` and instantiates `Ingress`; they share the table,
the process and the bound on failures. The ingress thread is `starting`,
`listening`, has `ended` (the address is taken: only logged) or is `down` with the
process. `Store` is the INSERT of one target: the row that `Ingress` counts is put
into the dispatcher's table, where it may be fetched before the next target is
stored, or while another connection stores its own. After `StopRelay` the sessions go on
storing and answering; `RelayExit` and `RelayCrash` end them wherever they are. `origin` is a history variable: the
message a row came from.

### Transports

A call is `idle`; a plugin's runs its `script` up to a request; the client is
`connecting`, `waiting` (the request is out), the service has `answered`, and the
call returns `ok` or `err`. `unhandled` is a request the service has but has not
acted on: it stays when the client gives up, so that the service may act later.
graph makes two requests (a token, then the mail), teams and ntfy one. Settings
are the keys of the plugin's `config` map: a key that is missing makes an argument
error before any request (teams, graph's form) or a request that the service
refuses. Services are external; assumed of them is that whoever answers a
request to deliver with success has delivered. `reqwest` follows redirections by
default, 301, 302 and 303 with a GET that has no body, so a channel may have a
URL that redirects.

### StoredTime

A time is an integer, a text the sequence of its bytes with every group of a
fixed number of digits as one element; so the sign of a year without four
digits, the dot of a fraction and the offset after it are compared as in the
file, and a fraction may have none, three, six or nine digits. `MCRetryPolicy` lets
a mail fail again and again and follows the time its retry was promised for
through the text that is stored.

### Startup

A process goes through `loaded`, `locked`, `connected`, `recovering`, `running`,
`stopping`; any step may fail where the code has a `?`, and the process may die
anywhere. The file lock is external: it is released by the return of `run_relay`
(`Stop`) or with the process. In `stopping` the lock is free and the ingress of the
old process may still store a mail, beside a new process (`Submit`); `Finish` ends it.
A database is named by `[scheme, path]`; the lock file by the configured text, the
store by the path alone, as `acquire_instance_lock` and `sqlite_url` do. The lock is
skipped for every text with `:memory:` in it (`unlocked`), which more than the path
`:memory:` itself has; only that is a database of the process's own (`in_memory`). A plugin section has
plain keys and `_env` keys, which `plugin_settings` resolves in the environment of
the process; a later directory's plugin replaces one of the same name. Delivery is
reduced to claim, outcome and reclaim; time is not modelled here.

## 3. What TLC checks

| run | configuration | shows |
|---|---|---|
| `dispatcher` | 2 mails, batch 2, 2 permits, 2 attempts, lease 1, clock 0..2 that can be set back, 2 faults | `NoConcurrentDelivery`, `ClaimHeld`, `BackoffHonoured`, `AttemptsBounded`, `SentMeansDelivered`, `SendsBounded`, `DuplicatesNeedFaults`, `TerminalIsFinal` |
| `ticks` | 2 mails, batch 2, 1 permit, 2 attempts, lease 1, unbounded time, 2 faults, no hanging transport | `PermitAccounting`, `TickEnds`: no permit is lost or invented, and the loop that waits for one gets it |
| `relay` | 1 client with 1 message for 2 targets, batch 1, 1 permit, 2 attempts, lease 1, unbounded time, 2 sets of transports to start with, 1 fault, no hanging transport | `ReplyIsTrue`: what the client was told is true of the table; `EveryMailSettles`; and `Contract`: the relay implements `DeliveryContract` |
| `ingress` | 2 clients, 4 configurations (no routing, a fan-out with two targets of one transport, refusal, anonymous off), 2 messages, 2 faults | the answer is truthful, the envelope current, only permitted mail queued, the subject kept |
| `retry` | all policies over a narrow integer, times around the first and the last year of four digits, fractions of every length | backoff equals its reference and never shrinks; a retry is found due, and a claim stale, at the right nanosecond by comparing text |
| `transport` | 2 concurrent calls, 2 mails (one with an address that does not parse and a subject that is no header value), 9 channels (each kind, settings missing, a URL that redirects) | `KeepsPromise`: `send` implements `TransportContract`; `AddressedInFull`, `PluginSendReturns` |
| `startup` | 2 processes, 5 configurations (one invalid, one in memory, two with a secret missing, one of them with an SMTP host that is refused), 2 faults | one relay per database, recovery touches no live claim, mails survive, secrets arrive, the same configuration gives the same transports, the relay comes back |
| `hang`, `fanout`, `subject`, `spelling`, `plugins` | | disagreements of code and documentation, section 6 |

### Why the bounds are enough

Two mails and a batch of two let a mail wait in the batch while another is
delivered. With two permits (`dispatcher`) two tasks interleave and the loop never waits
for a permit; with one (`ticks`) it holds the second mail, claimed, until the task of the
first gives its permit back, and then joins both tasks.
With two attempts there is a first failure, a retry and an exhaustion. A lease
of 1 on a clock of 0..2 lets claims become stale while held, and a clock set back
makes them look fresh again. Two faults give every pair of failures, such as
a failed write followed by a crash, or a crash during the recovery from a crash.
Two messages and two clients give a transaction after an abandoned one and
two `data_end` at a time, in `ingress` on a queue of its own. On the dispatcher's
table `relay` has one client; two fan-outs at a time are there the theorem's
(`RepliesAreTrue`, section 4), which holds for any number of clients.
In `relay` the batch is smaller than the queue, so that a
mail that fails again competes with one that was never tried, and the message
has two targets, so that a shutdown or a crash can come between its INSERTs; one
of the targets has no transport. In `retry` the type is so narrow that product and
shift both saturate, and a second has so few nanoseconds that all times around
a bound are tried. In `transport` calls share nothing, so two show what any
number does; the proof needs no bound. The mails are symmetric in `dispatcher`;
runs with liveness use no symmetry.

`retry`, whose behaviours end when the mail has no retries left, and `transport`,
which ends when every call has returned, are the only runs without deadlock
checking.

### Fairness

`relay` and `ticks` assume that time passes; that a process whose `main` returns
ends; that a relay that is down is started again; that the tokio runtime
polls the loop and every task that can go on (weak fairness); and that
`select!`, which picks at random among its ready branches, does not choose the
shutdown for ever (strong fairness of the start of a tick). Nothing is assumed
of the ingress, of faults, or of which answer a transport gives. To have
unbounded time in finitely many states, `MCDispatcher` keeps the clock still and
ages all stored times instead; its comment says why nothing can tell.

That a relay comes back is the code's doing only in part. After a crash the service
manager restarts it (`packaging/systemd/oxid-relay.service:16`,
`Restart=on-failure`; launchd's `KeepAlive`). After a clean stop systemd does not: that
the relay is started again is then an assumption about its operator. A mail that is
queued when the relay is stopped for good stays where it is, and `EveryMailSettles`
and `RelayComesBack` say nothing of that. `TickEnds` needs no restart.

Nothing is assumed of clients, nor that the ingress listens.

`PluginSendReturns` assumes that the blocking thread goes on and that the client's
timeouts run (10 s to connect, 30 s for everything, `plugin/src/http.rs:63`);
nothing of services or connections. It is not claimed for the SMTP transport:
the code sets no timeout there.

`RelayComesBack` in `startup` assumes the restart, by service manager or operator, and
that a started or stopping process goes on; faults are bounded, so only finitely many of its steps fail.

## 4. What is proved

Every safety property that a run checks is proved for every value of the
constants; one of them, `SubjectKept`, under a condition on the formats that the
code does not check. The assumptions are `ASSUME`s of the modules that declare the
constants, and TLC evaluates them on the instances it checks.

| module | theorems (property) | for |
|---|---|---|
| `DispatcherProofs` | `TypeCorrect` (`TypeOK`), `SingleDelivery` (`NoConcurrentDelivery`), `ClaimIsHeld` (`ClaimHeld`), `NeverEarly` (`BackoffHonoured`), `AttemptsAreBounded` (`AttemptsBounded`), `SettledForGood` (`TerminalIsFinal`) | any mails, transports and knobs that satisfy `DispatcherAssumption`, which says what `Config::validate` enforces |
| `DeliveryProofs` | `SentIsDelivered` (`SentMeansDelivered`), `SendsAreBounded` (`SendsBounded`), `DuplicatesArePaidFor` (`DuplicatesNeedFaults`), `PermitsAreAccounted` (`PermitAccounting`), `ContractIsKept` (`Contract`) | the same |
| `IngressProofs` | `IngressTypes` (`TypeOK`), `EnvelopesAreCurrent` (`EnvelopeIsCurrent`), `AcceptanceIsKept` (`AcceptedIsQueued`), `RefusalIsClean` (`RefusedLeavesNothing`), `OnlyThePermittedQueue` (`OnlyPermittedIsQueued`), `FanOutIsComplete` (`FanOutWithoutFaults`) | any clients, senders, messages and rules; `IngressAssumption` says that bounds are numbers, subjects, names and formats texts, and that the targets of a rule are a list, `RoutingAssumption` that no name and "reject" differ |
| `IngressProofs` | `SubjectIsKept` (`SubjectKept`) | the same under `LabelsApart(config.subject)`: every format has a `%original%` that shares no `%` with a `%name%`. `LabelsAssumption` has TLC confirm it of the formats in `ingress` and refute it of the one in `subject` |
| `RelayProofs` | `RepliesAreTrue` (`ReplyIsTrue`), `RelayDeliversSafely`, `RelaySettlesForGood` (`TerminalIsFinal`), `RelayKeepsContract` (`Contract`) | the same and `RelayAssumption`: the rules name transports the queue can store |
| `StartupProofs` | `StartupTypes` (`TypeOK`), `TransportsAreUsable` (`TransportsUsable`), `SecretsDoArrive` (`SecretsArrive`), `StartIsReproducible` (`SameConfigSameTransports`) | any processes, configurations, directories and environments; `NamesAssumption` says that names are names and that no transport is "none" |
| `StartupProofs` | `SingleRelay` (`OneRelayPerDatabase`), `RecoveryIsSafe` (`LiveClaimsUntouched`), `MailsOutliveProcesses` (`QueueSurvives`) | the same under `OneLock`: configurations that name the same file name it in the same way, and in one that is locked (`spelling` shows what happens without) |
| `TransportsProofs` | `SendKeepsPromise` (`KeepsPromise`), `NobodyIsSkipped` (`AddressedInFull`) | any calls, mails (`MailsAssumption`: they are records) and channels (`TransportsAssumption`) |
| `RetryPolicyProofs` | `DelaysDoNotShrink` (`DelaysNeverShrink`), `BackoffIsDocumented` (`BackoffIsReference`) | integers of any width that the largest shift fits into (`WidthAssumption`), so also those of the code |
| `RetryPolicyProofs` | `TextOrderIsTimeOrder`, `RetriesAreDueWhenPromised` (`DueWhenPromised`), `ClaimsDoExpireOnTime` (`ClaimsExpireOnTime`) | any policy, start and delays, seconds of any number of nanoseconds and years of any (equal) length (`StoredTimeAssumption`), so also 10^9 and 9999; `BoundsAssumption` says that times are integers |

### The arguments

**Claims.** `NoConcurrentDelivery` is not inductive: a claim writes a row without
looking at it, so one must know that a mail still waiting in the batch is in no
task and is still due. `ClaimInv` says so:

* `LoopShape`: outside the batch loop there is no batch and no task. This is
  where the join at the end of a tick enters; it makes the reclaim and the
  recovery, which take any claimed row, run only when no task has one.
* `BatchInv`: the mails of the batch are distinct, still `pending` or
  `failed` (the head is `sending` while it waits for a permit), with the attempt
  count they were fetched with, and due at the tick's `now`.
* `TaskInv`: a live task's row is `sending`, with the same count, due, in no other
  task and not in the batch.
* `AttemptsBounded`, which needs `TaskInv`: the failure is judged by the copy's
  count, so the copy's count must be the row's.

`BackoffHonoured` needs one more, as the row must be compared with the time of the
failure: `ScheduleInv` says that the due time of an open row that has failed is
`failed_at` plus the backoff, whatever requeues have come since. With `BatchInv` and
`TaskInv`, which say that what is worked on was due at `now`, the property follows.

One lemma per statement (`MailQueueProofs`) says what it does to a table; the
preservation proof has one step per action.

**Account of deliveries.** `HistoryInv` adds to `ClaimInv` what each mail has cost
so far (`Booked`): every call of `send` and every copy is either counted in the
row's attempts, or in the hands of the live task that has the row, or paid for by
a fault. The bounds on sends and copies, and that a sent mail was delivered,
follow from it. `PermitsAreAccounted` is about a cardinality and needs the finite
set of live tasks to lose or gain one member with each permit. For
`ContractIsKept` every action is matched with the step of `DeliveryContract` it
takes for one mail, or with none.

**Sessions.** `IngressInv` says of every session that its transaction is its own
and no further than the client may come (`Proper`); of a message that is being
stored, target by target, how its rows, the count of accepted targets and the
targets still to do relate (`Pending`): these are the end of the rule's targets
(`Remaining`), and without a fault every target before them has its row (`Placed`); that two sessions never have the same
message (`OwnMessage`); that nothing exists ahead of the messages ended so far
(`NothingAhead`); and that each answer is true of the rows (`Told`). The last is
what the theorems state; it is kept by `Reply` only because of `Pending`. That no
target is "reject" is a fact about the filter in `RouteRule::expand`, which is a
recursive function (`delivering`): the library's induction rules cannot be
used, so the induction is done by hand, by the least position at which it would
fail (`Induction`, from the well-foundedness of the natural numbers).

**The running relay.** `RelayInv` is `HistoryInv`, `ScheduleInv` and `IngressInv` with two
links:
`ThreadInv`, which ties the sessions to the thread and the process, and `Linked`,
which ties the rows that the sessions count to the rows of the table (every row of
the table has its message and goes where that message's row goes, every counted
row is in the table). Every step of the relay is, for the dispatcher, one of its
own steps or a mere fault, so `DeliveryProofs` apply to it; and for the ingress one
of its steps or none that it sees. Hence the refinement and the safety of the
dispatcher carry over to a table that is written by another thread.

**Processes.** `SingleRelay` rests on `LockInv`: a process past the lock holds the
lock file of its configuration until `run_relay` returns, if it takes one. Two such
processes on one store have, by `OneLock`, one lock file. `RecoveryIsSafe` adds
`DeliveryInv`: only a running process has deliveries, each with a claimed row; a
statement of process i changes i's store only, which by `SingleRelay` is nobody else's.
The one exception is the INSERT of a process that is stopping: the row it writes was
absent, so it is nobody's delivery. `MailsOutliveProcesses`
needs it as well: the UPDATE at the end of a delivery does not look at the status it
replaces, and only the claim says that it was not settled. What a start builds
(`StartInv`, `BuiltRight`) needs no lock; that the last directory that offers a
name exists is again shown by a least element (`MaxExists`).

**Calls.** `SendKeepsPromise` needs `CallInv`, which follows one request: while the
service has not acted nothing is delivered, a request is out only while the client
waits or has given up, a request for a token delivers nothing, and an answer on its
way that the client will take for success stands for a delivery. Each step of a call
or of its service is then one step of the contract or none. `NobodyIsSkipped` adds
`AddressInv`: what is about to leave, or is out, is made out to all recipients of the
mail, through `build_message` as through `mail_to_map` and graph's loop.

**Delays.** The powers of 2 are a recursive function (`power2`; TLC compares it with
`^`, which the provers do not know). `DoublesExist` and `DoublesAgree` show by least
counterexample that the recursion has exactly one solution, which gives
`power2(n + 1) = 2 * power2(n)` and monotony. `BackoffIsLeast` then reduces `backoff` to
the smaller of product and cap: the saturation never shows, since the cap fits the
type.

**Stored times.** The columns are compared as text, so what has to be shown is that
the texts of two times are ordered as the times are. A time is taken apart into the
numbers that are printed: year, second of the year and three groups of the fraction
(`Printed`), by division with remainder with the largest unit first. `ByQuotient` and
`ByPart` are the step of that order: of two numbers the one with the smaller quotient is
smaller, and with equal quotients the remainders decide. The products of the radices
are kept out of the provers' sight (`DivideTwice` and `Units` say all that is needed of
them). `TextIsShaped` lists the four shapes of a text, with no, one, two or three groups
of a fraction; `EarlierIsSmaller` goes through the pairs of shapes, and this is where
`+` < `.` < `0` matters: a fraction that ends is smaller than one that goes on.
The converse is not argued shape by shape again: `text_lt` is a strict order
(`TextOrderIsStrict`), so the later time cannot also have the smaller text.
A year before 0 is printed with a `-` and comes before everything
(`NegativeYearIsFirst`), which a lease longer than the calendar needs. The invariant of
the schedule (`PromiseInv`) then only says that the column holds the text of the
promised time, and `TextDecodes` that `parse_time` gives it back.

**The label.** `replace` is a recursive function that scans from the left; as with
`delivering`, `CourseExists` and `ReplaceIsCourse` show that it has a solution, here by
induction from the end of the text (`Downwards`). Two lemmas say what the scan leaves:
`ReplacePutsIn`, that the replacement is in the result if the pattern is anywhere in the
text, although the scan may meet another occurrence first; and `ReplaceKeeps`, that a part
of the text survives if no occurrence of the pattern shares a token with it. `RenderKeeps`
puts them together: the first `replace` (the name) keeps the `%original%` that stands
apart, the second puts the subject in, even if the name itself contains placeholders
and completes an earlier one with the text around it. Only `EnqueueTarget` adds a row,
and only with a subject that is not empty. `Config::validate` asks only that
`%original%` is there; `subject` shows that this is not enough.

### Only model-checked

Liveness (`EveryMailSettles`, `TickEnds`, `RelayComesBack`, `PluginSendReturns`): out of
this prover's reach. That `power2` is `^` is confirmed by TLC for the exponents in
`retry`.

## 5. What is not modelled

* **Authentication**: `authenticate` and `try_auth` exist, but the server does not
  advertise AUTH, so that no session is ever authenticated and there is no state
  to model; a label always comes from the subject.
* **Message parsing and building**: done by libraries; an empty message does not
  parse, a message has a subject or not, an address parses or not.
* **Scripts of a user's own**: any requests in any order, without a limit on
  operations; for the dispatcher they may fail, panic or never return.
* **The SMTP dialogue** with a server is lettre's: delivered and confirmed,
  delivered without confirmation, refused, broken off.
* **URLs that redirect** are in the model, but excepted from `KeepsPromise`:
  `reqwest` turns the POST into a GET, and teams and ntfy take the 200 of the page it
  ends at for a delivery (graph asks for 202 and is safe). A mail is then marked sent
  that nobody got; `core/src/transport.rs:21` says "Returns an error if delivery
  failed".
* **Dates beyond the year 9999** are in `StoredTime`: they do not decode, and a
  row that does not decode fails every batch it would be in. `DueWhenPromised` is
  about years of four digits and `ClaimsExpireOnTime` about bounds that chrono
  represents; `validate` sets no bound on delays and leases, and what happens beyond
  (a fallback of 60 s or 120 s, a panic) is covered by no property.
* **Parsing of TOML and manifests**, compilation of scripts: an outcome.
* **Symbolic links, relative paths and URL parameters** of a database: two names of
  one file besides the `sqlite:` prefix, and `?mode=memory`, which is locked although
  it is in memory.
* The Windows service's status protocol; logging; the empty HTTP API crate.

## 6. Where code and documentation disagree

| run | the code | the documentation |
|---|---|---|
| `hang` | a send that never returns keeps its mail claimed, and stops the dispatcher: the reclaim is at the start of a tick and the tick does not end | `dispatcher/src/lib.rs:95`, root `README.md:189`: stuck deliveries are reclaimed |
| `fanout` | 250 as soon as one target is queued; a target whose INSERT fails is logged | root `README.md:305`: each target becomes its own queue entry |
| `subject` | `%name%original%` passes validation; rendering takes the shared `%` and loses the subject | `core/src/config.rs:155`: every format must keep the original subject |
| `spelling` | `queue.db` and `sqlite:queue.db` have two lock files and one database | root `README.md:101`: a second instance refuses to start |
| `plugins` | one plugin that does not load disables all of its directory | root `README.md:356`: loads each plugin |

Two more can be read off a single place and have no run. A mail whose transport is
missing is dead at its first attempt (`Dispatcher`'s `BuryUnroutable`), while
`core/src/message.rs:44` calls a mail dead "after exhausting all retries". And a file
with `:memory:` in its path is opened without a lock (`RelayConfig`'s `unlocked`), against
root `README.md:101`; `oxid-relay/src/main.rs:208` means in-memory databases only.

## 7. Plan

1. *Done:* every component of section 1 except those of section 5; the composition
   `Relay`; both contracts and their refinements; the proofs of section 4.
2. *Authentication*, on the day AUTH is advertised.
