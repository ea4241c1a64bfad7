----------------------------- MODULE Dispatcher -----------------------------
(***************************************************************************)
(* The background dispatcher (crates/dispatcher/src/lib.rs) working on the *)
(* durable queue, inside the relay process that main.rs starts, and with   *)
(* everything that can interrupt it: transports that fail, lose their      *)
(* answer, panic or never answer, queue statements that fail, a wall clock *)
(* that is set back, shutdown, and a crash of the process at any point.    *)
(*                                                                         *)
(* The dispatcher loop is one control flow (pc); every mail it hands out   *)
(* is delivered by a task of its own, and the tasks interleave with each   *)
(* other, with the loop and with the ingress that fills the queue.  One    *)
(* action is one piece of code between two awaits.                         *)
(***************************************************************************)
EXTENDS MailQueue, FiniteSets

CONSTANTS BatchSize,    \* DispatcherConfig::batch_size
          Concurrency,  \* DispatcherConfig::concurrency
          Lease,        \* DispatcherConfig::sending_lease
          MaxAttempts,  \* RetryPolicy::max_attempts
          Backoff,      \* RetryPolicy::backoff, as a function of the attempts
          Smtp,         \* the name "smtp"
          Configs,      \* what a start of the relay may find configured
          MayHang,      \* whether a transport may never return from send
          MaxClock,     \* bound: the clock stops here
          MaxFaults     \* bound: failures of statements, tasks and processes

(* What decides the transports at a start: whether the SMTP transport was  *)
(* built, the plugins that loaded, and mail.default_transport.             *)
StartConfig == [smtp : BOOLEAN, plugins : SUBSET TransportNames,
                default_transport : MaybeTransport]

ASSUME DispatcherAssumption ==
  /\ BatchSize \in Nat \ {0}       \* Config::validate
  /\ Concurrency \in Nat \ {0}     \* Config::validate
  /\ MaxAttempts \in Nat \ {0}     \* Config::validate
  /\ Lease \in Nat
  /\ Backoff \in [1..MaxAttempts -> Nat]
  /\ Smtp \in TransportNames
  /\ Configs \subseteq StartConfig
  /\ MayHang \in BOOLEAN
  /\ MaxClock \in Nat
  /\ MaxFaults \in Nat

VARIABLES
  mails,              \* the table `mails`: survives every crash
  clock,              \* Utc::now()
  pc,                 \* where the dispatcher loop stands
  now,                \* tick's local `now` (0 outside tick)
  batch,              \* tick's `due`, without the mails the loop is done with
  handles,            \* tick's spawned delivery tasks
  permits,            \* free permits of tick's semaphore
  transports,         \* Inner::transports: the names that have a transport
  default_transport,  \* Inner::default_transport
  sends,              \* ghost: calls of Transport::send, per mail
  delivered,          \* ghost: copies that reached the recipient, per mail
  failed_at,          \* ghost: when its last counted failure was, per mail
  faults              \* ghost: failures injected so far

vars == <<mails, clock, pc, now, batch, handles, permits, transports,
          default_transport, sends, delivered, failed_at, faults>>

loopVars   == <<now, batch>>
startVars  == <<transports, default_transport>>
ghostVars  == <<sends, delivered, failed_at>>

(* down: no process; recover: inside recover(); idle: select! of run();    *)
(* fetch: tick after the reclaim; claim: head of the loop over the batch,  *)
(* or joining the tasks when the batch is used up; acquire: the head of    *)
(* the batch is claimed and waits for a permit; stopped: run has returned, *)
(* the process and its ingress threads are still there.                    *)
PC == {"down", "recover", "idle", "fetch", "claim", "acquire", "stopped"}

(* spawned: send not answered yet; ok, err: it returned, the outcome is    *)
(* not written yet; hung: it will never return; done: task ended.          *)
Stage == {"spawned", "ok", "err", "hung", "done"}

Task == [mail : Mail, stage : Stage]

Live(i) == handles[i].stage # "done"

InitAt(t) ==
  /\ mails = [m \in MailIds |-> NoRow]
  /\ clock = t
  /\ pc = "down"
  /\ now = 0
  /\ batch = <<>>
  /\ handles = <<>>
  /\ permits = 0
  /\ transports = {}
  /\ default_transport = NoTransport
  /\ sends = [m \in MailIds |-> 0]
  /\ delivered = [m \in MailIds |-> 0]
  /\ failed_at = [m \in MailIds |-> 0]
  /\ faults = 0

Init == InitAt(0)
-----------------------------------------------------------------------------
Fault == faults < MaxFaults /\ faults' = faults + 1

(* A queue statement: it leaves the table t, or fails and changes nothing. *)
QueueWrite(t) ==
  \/ mails' = t /\ UNCHANGED faults
  \/ mails' = mails /\ Fault

PassTime ==
  /\ clock < MaxClock
  /\ clock' = clock + 1
  /\ UNCHANGED <<mails, pc, loopVars, handles, permits, startVars, ghostVars, faults>>

(* Utc::now() is the wall clock: it can be set back. *)
SetClockBack ==
  /\ \E t \in 0..(clock - 1) : clock' = t
  /\ UNCHANGED <<mails, pc, loopVars, handles, permits, startVars, ghostVars, faults>>

(* The ingress, on its own thread, stores a mail: as long as the process    *)
(* is there, also after run has returned.                                   *)
Submit(m) ==
  /\ pc # "down"
  /\ mails[m].status = "absent"
  /\ \E transport \in MaybeTransport :
       mails' = enqueue(mails, m, transport, clock)
  /\ UNCHANGED <<clock, pc, loopVars, handles, permits, startVars, ghostVars, faults>>
-----------------------------------------------------------------------------
Start(c) ==
  /\ pc = "down"
  /\ pc' = "recover"
  /\ transports' = c.plugins \cup (IF c.smtp THEN {Smtp} ELSE {})
  /\ default_transport' = IF c.default_transport = NoTransport /\ c.smtp
                          THEN Smtp ELSE c.default_transport
  /\ UNCHANGED <<mails, clock, loopVars, handles, permits, ghostVars, faults>>

(* A failing requeue is logged and the dispatcher goes on. *)
Recover ==
  /\ pc = "recover"
  /\ pc' = "idle"
  /\ QueueWrite(requeue_sending(mails, clock))
  /\ UNCHANGED <<clock, loopVars, handles, permits, startVars, ghostVars>>

(* select! polls shutdown between two ticks only.  run returns, and main    *)
(* does not wait for the ingress.                                           *)
Shutdown ==
  /\ pc = "idle"
  /\ pc' = "stopped"
  /\ UNCHANGED <<mails, clock, loopVars, handles, permits, startVars, ghostVars, faults>>

(* main returns. *)
Exit ==
  /\ pc = "stopped"
  /\ pc' = "down"
  /\ UNCHANGED <<mails, clock, loopVars, handles, permits, startVars, ghostVars, faults>>

(* The process dies: what it held in memory is gone. *)
Crash ==
  /\ pc # "down"
  /\ Fault
  /\ pc' = "down"
  /\ now' = 0
  /\ batch' = <<>>
  /\ handles' = <<>>
  /\ permits' = 0
  /\ UNCHANGED <<mails, clock, startVars, ghostVars>>
-----------------------------------------------------------------------------
TickStart_lease_as_now ==              \* mutant: now is overwritten by now - lease
  /\ pc = "idle"
  /\ pc' = "fetch"
  /\ now' = clock - Lease
  /\ QueueWrite(requeue_stale_sending(mails, clock - Lease, clock))
  /\ UNCHANGED <<clock, batch, handles, permits, startVars, ghostVars>>

(* tick, up to the first await that reads mails: take the time and reclaim *)
(* claims older than the lease; a failure is logged and the tick goes on.  *)
TickStart ==
  /\ pc = "idle"
  /\ pc' = "fetch"
  /\ now' = clock
  /\ QueueWrite(requeue_stale_sending(mails, clock - Lease, clock))
  /\ UNCHANGED <<clock, batch, handles, permits, startVars, ghostVars>>

(* The batch, with a fresh semaphore; nothing due ends the tick. *)
FetchDue ==
  /\ pc = "fetch"
  /\ \E s \in fetch_due(mails, BatchSize, now) :
       /\ batch' = [k \in 1..Len(s) |-> row_to_mail(mails, s[k])]
       /\ pc' = IF s = <<>> THEN "idle" ELSE "claim"
       /\ now' = IF s = <<>> THEN 0 ELSE now
       /\ permits' = IF s = <<>> THEN permits ELSE Concurrency
  /\ UNCHANGED <<mails, clock, handles, startVars, ghostVars, faults>>

FetchFails ==
  /\ pc = "fetch"
  /\ Fault
  /\ pc' = "idle"
  /\ now' = 0
  /\ UNCHANGED <<mails, clock, batch, handles, permits, startVars, ghostVars>>

(* mark_sending of the next mail. *)
Claim ==
  /\ pc = "claim"
  /\ batch # <<>>
  /\ pc' = "acquire"
  /\ mails' = mark_sending(mails, Head(batch).id, clock)
  /\ UNCHANGED <<clock, loopVars, handles, permits, startVars, ghostVars, faults>>

(* "could not claim mail": the loop continues with the one after it. *)
ClaimFails ==
  /\ pc = "claim"
  /\ batch # <<>>
  /\ Fault
  /\ batch' = Tail(batch)
  /\ UNCHANGED <<mails, clock, pc, now, handles, permits, startVars, ghostVars>>

Spawn_without_permit ==                \* mutant: the permit is dropped, not moved into the task
  /\ pc = "acquire"
  /\ permits > 0
  /\ handles' = Append(handles, [mail |-> Head(batch), stage |-> "spawned"])
  /\ batch' = Tail(batch)
  /\ pc' = "claim"
  /\ UNCHANGED <<mails, clock, now, permits, startVars, ghostVars, faults>>

(* acquire_owned, then tokio::spawn: the task holds the permit. *)
Spawn ==
  /\ pc = "acquire"
  /\ permits > 0
  /\ permits' = permits - 1
  /\ handles' = Append(handles, [mail |-> Head(batch), stage |-> "spawned"])
  /\ batch' = Tail(batch)
  /\ pc' = "claim"
  /\ UNCHANGED <<mails, clock, now, startVars, ghostVars, faults>>

Join_without_waiting ==                \* mutant: the tick leaves its tasks running
  /\ pc = "claim"
  /\ batch = <<>>
  /\ pc' = "idle"
  /\ now' = 0
  /\ handles' = SelectSeq(handles, LAMBDA h : h.stage # "done")
  /\ permits' = 0
  /\ UNCHANGED <<mails, clock, batch, startVars, ghostVars, faults>>

(* The tick ends when every task it spawned has ended. *)
Join ==
  /\ pc = "claim"
  /\ batch = <<>>
  /\ \A i \in DOMAIN handles : ~ Live(i)
  /\ pc' = "idle"
  /\ now' = 0
  /\ handles' = <<>>
  /\ permits' = 0
  /\ UNCHANGED <<mails, clock, batch, startVars, ghostVars, faults>>
-----------------------------------------------------------------------------
(* deliver(mail), task i. *)
SetStage(i, stage) == handles' = [handles EXCEPT ![i].stage = stage]

Finish_keeping_permit(i) ==            \* mutant: the permit is not dropped
  SetStage(i, "done") /\ UNCHANGED permits

(* The task ends and drops its permit. *)
Finish(i) == SetStage(i, "done") /\ permits' = permits + 1

transport_name(mail) ==
  IF mail.transport = NoTransport THEN default_transport ELSE mail.transport

has_transport(mail) == transport_name(mail) \in transports

(* No such transport: buried at once, whatever the attempts. *)
BuryUnroutable(i) ==
  /\ handles[i].stage = "spawned"
  /\ ~ has_transport(handles[i].mail)
  /\ QueueWrite(mark_dead(mails, handles[i].mail.id, clock))
  /\ Finish(i)
  /\ UNCHANGED <<clock, pc, loopVars, startVars, ghostVars>>

(* send has been called: the recipient got `copies` of the mail. *)
Sent(i, copies) ==
  /\ handles[i].stage = "spawned"
  /\ has_transport(handles[i].mail)
  /\ sends' = [sends EXCEPT ![handles[i].mail.id] = @ + 1]
  /\ delivered' = [delivered EXCEPT ![handles[i].mail.id] = @ + copies]
  /\ UNCHANGED <<mails, clock, pc, loopVars, startVars, failed_at>>

SendOk(i)  == Sent(i, 1) /\ SetStage(i, "ok")  /\ UNCHANGED <<permits, faults>>

SendErr(i) == Sent(i, 0) /\ SetStage(i, "err") /\ UNCHANGED <<permits, faults>>

(* The mail went out but the answer was lost: the transport reports an error. *)
SendAnswerLost(i) == Sent(i, 1) /\ SetStage(i, "err") /\ Fault /\ UNCHANGED permits

(* A panic ends the task; tick ignores the join error. *)
SendPanics(i) == Sent(i, 0) /\ Finish(i) /\ Fault

SendHangs(i) == /\ MayHang
                /\ Sent(i, 0) /\ SetStage(i, "hung") /\ Fault /\ UNCHANGED permits

RecordSent_any_answer(i) ==            \* mutant: an error counts as delivered
  /\ handles[i].stage \in {"ok", "err"}
  /\ QueueWrite(mark_sent(mails, handles[i].mail.id, clock))
  /\ Finish(i)
  /\ UNCHANGED <<clock, pc, loopVars, startVars, ghostVars>>

RecordSent_unwritten(i) ==             \* mutant: the outcome is not written
  /\ handles[i].stage = "ok"
  /\ Finish(i)
  /\ UNCHANGED <<mails, faults, clock, pc, loopVars, startVars, ghostVars>>

RecordSent(i) ==
  /\ handles[i].stage = "ok"
  /\ QueueWrite(mark_sent(mails, handles[i].mail.id, clock))
  /\ Finish(i)
  /\ UNCHANGED <<clock, pc, loopVars, startVars, ghostVars>>

is_exhausted_off_by_one(attempts) == attempts > MaxAttempts   \* mutant

(* RetryPolicy::is_exhausted *)
is_exhausted(attempts) == attempts >= MaxAttempts

(* The attempt count is that of the copy fetched before the claim. *)
RecordFailure(i) ==
  LET mail     == handles[i].mail
      attempts == mail.attempts + 1
  IN  /\ handles[i].stage = "err"
      /\ QueueWrite(IF is_exhausted(attempts)
                    THEN mark_dead(mails, mail.id, clock)
                    ELSE mark_failed(mails, mail.id, clock + Backoff[attempts], clock))
      /\ failed_at' = IF mails' = mails THEN failed_at
                      ELSE [failed_at EXCEPT ![mail.id] = clock]
      /\ Finish(i)
      /\ UNCHANGED <<clock, pc, loopVars, startVars, sends, delivered>>
-----------------------------------------------------------------------------
Deliver(i) ==
  \/ BuryUnroutable(i) \/ SendOk(i) \/ SendErr(i) \/ SendAnswerLost(i)
  \/ SendPanics(i) \/ SendHangs(i) \/ RecordSent(i) \/ RecordFailure(i)

Loop ==
  \/ Recover \/ TickStart \/ FetchDue \/ FetchFails \/ Claim \/ ClaimFails
  \/ Spawn \/ Join

Environment ==
  \/ \E m \in MailIds : Submit(m)
  \/ \E c \in Configs : Start(c)
  \/ Shutdown \/ Exit \/ Crash

Next ==
  \/ PassTime \/ SetClockBack \/ Environment \/ Loop
  \/ \E i \in DOMAIN handles : Deliver(i)

Spec == Init /\ [][Next]_vars
-----------------------------------------------------------------------------
InTick == pc \in {"claim", "acquire"}

(* The mails of the tick that no task has yet: claimed already or not. *)
Waiting == {batch[k].id : k \in DOMAIN batch}

(* Every variable has its type. *)
TypeOK ==
  /\ mails \in Table
  /\ clock \in Nat
  /\ pc \in PC
  /\ now \in Nat
  /\ batch \in Seq(Mail)
  /\ handles \in Seq(Task)
  /\ permits \in Nat
  /\ transports \in SUBSET TransportNames
  /\ default_transport \in MaybeTransport
  /\ sends \in [MailIds -> Nat]
  /\ delivered \in [MailIds -> Nat]
  /\ failed_at \in [MailIds -> Nat]
  /\ faults \in Nat

(* A mail is never in the hands of two delivery tasks, and a mail that a   *)
(* task has is not waiting in the batch either: the claim and the join of  *)
(* tick keep the ticks, the lease and the restarts out of each other's way.*)
NoConcurrentDelivery ==
  \A i \in DOMAIN handles :
    Live(i) => /\ handles[i].mail.id \notin Waiting
               /\ \A j \in DOMAIN handles :
                    Live(j) /\ handles[i].mail.id = handles[j].mail.id => i = j

(* While a task works on a mail its row stays claimed and the attempt count *)
(* it was fetched with stays true, although nothing in the UPDATEs checks   *)
(* either: neither the lease nor a recovery takes the row away.             *)
ClaimHeld ==
  \A i \in DOMAIN handles :
    Live(i) => LET mail == handles[i].mail
               IN  /\ mails[mail.id].status = "sending"
                   /\ mails[mail.id].attempts = mail.attempts

(* After a failure a mail waits for its backoff: whatever tick works on was *)
(* due when the tick began, and at least the delay that its attempts ask    *)
(* for had passed since the failure that was counted last, although a       *)
(* crash, a recovery or a reclaim may have put the row back to pending in   *)
(* between and the clock may have been set back.                            *)
BackoffHonoured ==
  LET Due(m) == /\ mails[m].next_attempt_at <= now
                /\ mails[m].attempts > 0 =>
                     failed_at[m] + Backoff[mails[m].attempts] <= now
  IN  /\ \A m \in Waiting : Due(m)
      /\ \A i \in DOMAIN handles : Live(i) => Due(handles[i].mail.id)

(* The attempt counter stops at max_attempts, and a mail that has reached   *)
(* it is dead: it is never left where the dispatcher would pick it up.      *)
AttemptsBounded ==
  \A m \in MailIds : /\ mails[m].attempts <= MaxAttempts
                     /\ mails[m].attempts = MaxAttempts => mails[m].status = "dead"

(* At most `concurrency` deliveries run, and no permit is lost: when all    *)
(* tasks of a tick have ended, all permits are free again.                  *)
PermitAccounting ==
  InTick => permits + Cardinality({i \in DOMAIN handles : Live(i)}) = Concurrency

(* A mail that the queue calls sent has reached its recipient. *)
SentMeansDelivered ==
  \A m \in MailIds : mails[m].status = "sent" => delivered[m] >= 1

(* However often the relay crashes, restarts or fails to write an outcome,  *)
(* each such event costs at most one delivery attempt beyond max_attempts.  *)
SendsBounded == \A m \in MailIds : sends[m] <= MaxAttempts + faults

(* At-least-once delivery: every copy beyond the first is paid for by a     *)
(* failure (a crash, a lost answer or a failed write).                      *)
DuplicatesNeedFaults == \A m \in MailIds : delivered[m] <= 1 + faults

(* A row that is sent or dead never changes again. *)
TerminalIsFinal ==
  [][\A m \in MailIds :
       mails[m].status \in {"sent", "dead"} => mails'[m] = mails[m]]_vars
-----------------------------------------------------------------------------
(* The contract, seen through the table. *)
ContractState ==
  [m \in MailIds |-> CASE mails[m].status = "absent" -> "new"
                       [] mails[m].status \in {"sent", "dead"} -> mails[m].status
                       [] OTHER -> "queued"]

Promise == INSTANCE DeliveryContract
             WITH state    <- ContractState,
                  tries    <- [m \in MailIds |-> mails[m].attempts],
                  received <- delivered

(* The dispatcher keeps the contract of every accepted mail through all     *)
(* ticks, failures, reclaims, crashes and restarts.                         *)
Contract == Promise!ContractSpec
-----------------------------------------------------------------------------
(* Every mail the queue has accepted is sent or dead in the end. *)
EveryMailSettles ==
  \A m \in MailIds :
    (mails[m].status # "absent") ~> (mails[m].status \in {"sent", "dead"})

(* Every tick ends, so that the next one runs and shutdown is looked at. *)
TickEnds == (pc \in {"fetch", "claim", "acquire"}) ~> (pc \in {"idle", "down"})

(* What the comment of tick says (crates/dispatcher/src/lib.rs:95): a mail  *)
(* "left in-flight by a crashed or stuck delivery" is reclaimed "instead of *)
(* staying claimed forever".                                                *)
StuckDeliveryReclaimed ==
  \A m \in MailIds :
    (mails[m].status = "sending") ~> (mails[m].status # "sending")
=============================================================================
