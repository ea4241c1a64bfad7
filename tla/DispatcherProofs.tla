-------------------------- MODULE DispatcherProofs --------------------------
(***************************************************************************)
(* Proofs about Dispatcher, for every set of mails, every batch size,      *)
(* concurrency, lease, retry policy and configuration, and any number of   *)
(* failures.                                                               *)
(***************************************************************************)
EXTENDS Dispatcher, MailQueueProofs, SequenceTheorems, TLAPS

(* Setting the stage of one task changes nothing else in the handles. *)
LEMMA SetStageEffect ==
  ASSUME handles \in Seq(Task), NEW i \in DOMAIN handles, NEW stage \in Stage,
         SetStage(i, stage)
  PROVE  /\ handles' \in Seq(Task)
         /\ DOMAIN handles' = DOMAIN handles
         /\ \A j \in DOMAIN handles :
              /\ handles'[j].mail = handles[j].mail
              /\ handles'[j].stage = IF j = i THEN stage ELSE handles[j].stage
  <1>1. handles[i] \in Task /\ i \in 1..Len(handles)
    OBVIOUS
  <1> DEFINE new == [handles[i] EXCEPT !.stage = stage]
  <1>2. new \in Task /\ new.mail = handles[i].mail /\ new.stage = stage
    BY <1>1 DEF Task
  <1>3. handles' = [handles EXCEPT ![i] = new]
    BY DEF SetStage
  <1>4. handles' \in Seq(Task) /\ Len(handles') = Len(handles)
    BY <1>1, <1>2, <1>3, ExceptSeq
  <1> HIDE DEF new
  <1>5. \A j \in DOMAIN handles : handles'[j] = IF j = i THEN new ELSE handles[j]
    BY <1>1, <1>3
  <1> QED  BY <1>2, <1>4, <1>5
-----------------------------------------------------------------------------
(* Type correctness.  A claimed mail is still in the batch, so that Spawn   *)
(* has a mail to hand over.                                                 *)
TypeInv == TypeOK /\ (pc = "acquire" => batch # <<>>)

(* The first state is well typed. *)
LEMMA TypeInit == Init => TypeInv
  BY DispatcherAssumption
  DEF Init, InitAt, TypeInv, TypeOK, Table, Row, NoRow, PC, MaybeTransport, Task, Mail

(* A counter of the history stays one. *)
LEMMA CounterGrows ==
  ASSUME NEW f \in [MailIds -> Nat], NEW m \in MailIds, NEW k \in Nat
  PROVE  [f EXCEPT ![m] = @ + k] \in [MailIds -> Nat]
  OBVIOUS

(* The table after any statement of the queue, or after its failure. *)
LEMMA QueueWriteType ==
  ASSUME TypeOK, NEW t \in Table, QueueWrite(t)
  PROVE  mails' \in Table /\ faults' \in Nat
  BY DEF TypeOK, QueueWrite, Fault

(* Every step keeps the types; one case per action. *)
LEMMA TypeNext == TypeInv /\ [Next]_vars => TypeInv'
<1> SUFFICES ASSUME TypeInv, [Next]_vars PROVE TypeInv'
  OBVIOUS
<1> USE DispatcherAssumption DEF TypeInv
<1>0. /\ mails \in Table /\ clock \in Nat /\ pc \in PC /\ now \in Nat
      /\ batch \in Seq(Mail) /\ handles \in Seq(Task) /\ permits \in Nat
      /\ transports \in SUBSET TransportNames /\ default_transport \in MaybeTransport
      /\ sends \in [MailIds -> Nat] /\ delivered \in [MailIds -> Nat] /\ faults \in Nat
      /\ failed_at \in [MailIds -> Nat]
  BY DEF TypeOK
<1>1. CASE PassTime
  BY <1>0, <1>1 DEF TypeOK, PassTime, loopVars, startVars, ghostVars
<1>2. CASE SetClockBack
  BY <1>0, <1>2 DEF TypeOK, SetClockBack, loopVars, startVars, ghostVars
<1>3. ASSUME NEW m \in MailIds, Submit(m) PROVE TypeInv'
  <2>1. mails' \in Table
    BY <1>0, <1>3, EnqueueEffect DEF Submit
  <2> QED  BY <1>0, <1>3, <2>1 DEF TypeOK, Submit, loopVars, startVars, ghostVars
<1>4. ASSUME NEW c \in Configs, Start(c) PROVE TypeInv'
  <2>1. c \in StartConfig
    OBVIOUS
  <2>2. transports' \in SUBSET TransportNames /\ default_transport' \in MaybeTransport
    BY <1>4, <2>1 DEF Start, StartConfig, MaybeTransport
  <2> QED  BY <1>0, <1>4, <2>2 DEF TypeOK, Start, loopVars, ghostVars, PC
<1>5. CASE Shutdown \/ Exit
  BY <1>0, <1>5 DEF TypeOK, Shutdown, Exit, loopVars, startVars, ghostVars, PC
<1>6. CASE Crash
  BY <1>0, <1>6 DEF TypeOK, Crash, Fault, startVars, ghostVars, PC
<1>7. CASE Recover
  <2>1. requeue_sending(mails, clock) \in Table
    BY <1>0, RecoverEffect
  <2>2. mails' \in Table /\ faults' \in Nat
    BY <1>7, <2>1, QueueWriteType DEF Recover
  <2> QED  BY <1>0, <1>7, <2>2 DEF TypeOK, Recover, loopVars, startVars, ghostVars, PC
<1>8. CASE TickStart
  <2>0. clock - Lease \in Int
    BY <1>0
  <2>1. requeue_stale_sending(mails, clock - Lease, clock) \in Table
    BY <1>0, <2>0, ReclaimEffect, Zenon
  <2>2. mails' \in Table /\ faults' \in Nat
    BY <1>8, <2>1, QueueWriteType DEF TickStart
  <2> QED  BY <1>0, <1>8, <2>2 DEF TypeOK, TickStart, startVars, ghostVars, PC
<1>9. CASE FetchDue
  <2>1. PICK s \in fetch_due(mails, BatchSize, now) :
          /\ batch' = [k \in 1..Len(s) |-> row_to_mail(mails, s[k])]
          /\ pc' = IF s = <<>> THEN "idle" ELSE "claim"
          /\ now' = IF s = <<>> THEN 0 ELSE now
          /\ permits' = IF s = <<>> THEN permits ELSE Concurrency
    BY <1>9 DEF FetchDue
  <2>2. s \in Seq(MailIds)
    BY ONLY <1>0, BatchSize \in Nat, s \in fetch_due(mails, BatchSize, now),
       FetchEffect, Zenon
  <2>3. ASSUME NEW k \in 1..Len(s) PROVE row_to_mail(mails, s[k]) \in Mail
    <3>1. s[k] \in MailIds
      BY <2>2
    <3>2. mails[s[k]] \in Row
      BY <1>0, <3>1 DEF Table
    <3> QED  BY <3>1, <3>2 DEF row_to_mail, Mail, Row
  <2>4. batch' \in Seq(Mail)
    BY <2>1, <2>2, <2>3
  <2> QED  BY <1>0, <1>9, <2>1, <2>4 DEF TypeOK, FetchDue, startVars, ghostVars, PC
<1>10. CASE FetchFails
  BY <1>0, <1>10 DEF TypeOK, FetchFails, Fault, startVars, ghostVars, PC
<1>11. CASE Claim
  <2>0. Head(batch) \in Mail
    BY <1>0, <1>11 DEF Claim
  <2>1. Head(batch).id \in MailIds
    BY <2>0 DEF Mail
  <2>2. mails' \in Table
    BY <1>0, <1>11, <2>1, MarkSendingEffect DEF Claim
  <2> QED  BY <1>0, <1>11, <2>2 DEF TypeOK, Claim, loopVars, startVars, ghostVars, PC
<1>12. CASE ClaimFails
  <2>1. batch' \in Seq(Mail)
    BY <1>0, <1>12 DEF ClaimFails
  <2> QED  BY <1>0, <1>12, <2>1 DEF TypeOK, ClaimFails, Fault, startVars, ghostVars
<1>13. CASE Spawn
  <2>1. Head(batch) \in Mail /\ batch' \in Seq(Mail)
    BY <1>0, <1>13 DEF Spawn
  <2>2. [mail |-> Head(batch), stage |-> "spawned"] \in Task
    BY <2>1 DEF Task, Stage
  <2>3. handles' \in Seq(Task)
    BY <1>0, <1>13, <2>2 DEF Spawn
  <2> QED  BY <1>0, <1>13, <2>1, <2>3 DEF TypeOK, Spawn, startVars, ghostVars, PC
<1>14. CASE Join
  BY <1>0, <1>14 DEF TypeOK, Join, startVars, ghostVars, PC
<1>15. ASSUME NEW i \in DOMAIN handles, Deliver(i) PROVE TypeInv'
  <2> DEFINE mail == handles[i].mail
  <2>1. handles[i] \in Task
    BY <1>0
  <2>2. /\ mail \in Mail /\ mail.id \in MailIds /\ mail.attempts \in Nat
    BY <2>1 DEF Task, Mail
  <2>3. ASSUME NEW t \in Table, QueueWrite(t), Finish(i),
               UNCHANGED <<clock, pc, loopVars, startVars, sends, delivered>>,
               failed_at' \in [MailIds -> Nat]
        PROVE  TypeInv'
    <3>1. mails' \in Table /\ faults' \in Nat
      BY <2>3, QueueWriteType
    <3>2. handles' \in Seq(Task)
      BY <1>0, <2>3, SetStageEffect DEF Finish, Stage
    <3> QED  BY <1>0, <2>3, <3>1, <3>2 DEF TypeOK, Finish, loopVars, startVars
  <2>4. ASSUME NEW copies \in Nat, Sent(i, copies), NEW stage \in Stage,
               SetStage(i, stage), permits' \in Nat, faults' \in Nat
        PROVE  TypeInv'
    <3>1. handles' \in Seq(Task)
      BY <1>0, <2>4, SetStageEffect
    <3>2. sends' \in [MailIds -> Nat] /\ delivered' \in [MailIds -> Nat]
      <4>1. /\ sends' = [sends EXCEPT ![mail.id] = @ + 1]
            /\ delivered' = [delivered EXCEPT ![mail.id] = @ + copies]
        BY <2>4 DEF Sent
      <4> HIDE DEF mail
      <4>2. [sends EXCEPT ![mail.id] = @ + 1] \in [MailIds -> Nat]
        BY ONLY <1>0, <2>2, CounterGrows DEF TypeOK
      <4>3. [delivered EXCEPT ![mail.id] = @ + copies] \in [MailIds -> Nat]
        BY ONLY <1>0, <2>2, copies \in Nat, CounterGrows DEF TypeOK
      <4> QED  BY <4>1, <4>2, <4>3
    <3> QED  BY <1>0, <2>4, <3>1, <3>2 DEF TypeOK, Sent, loopVars, startVars
  <2>5. CASE BuryUnroutable(i)
    <3>1. mark_dead(mails, mail.id, clock) \in Table
      BY <1>0, <2>2, MarkDeadEffect
    <3> QED  BY <1>0, <2>3, <2>5, <3>1 DEF BuryUnroutable, ghostVars
  <2>6. CASE SendOk(i)
    BY <1>0, <2>4, <2>6 DEF SendOk, Stage
  <2>7. CASE SendErr(i)
    BY <1>0, <2>4, <2>7 DEF SendErr, Stage
  <2>8. CASE SendAnswerLost(i)
    BY <1>0, <2>4, <2>8 DEF SendAnswerLost, Fault, Stage
  <2>9. CASE SendPanics(i)
    BY <1>0, <2>4, <2>9 DEF SendPanics, Finish, Fault, Stage
  <2>10. CASE SendHangs(i)
    BY <1>0, <2>4, <2>10 DEF SendHangs, Fault, Stage
  <2>11. CASE RecordSent(i)
    <3>1. mark_sent(mails, mail.id, clock) \in Table
      BY <1>0, <2>2, MarkSentEffect
    <3> QED  BY <1>0, <2>3, <2>11, <3>1 DEF RecordSent, ghostVars
  <2>12. CASE RecordFailure(i)
    <3>1. mark_dead(mails, mail.id, clock) \in Table
      BY <1>0, <2>2, MarkDeadEffect
    <3>2. ~ is_exhausted(mail.attempts + 1) =>
             mark_failed(mails, mail.id, clock + Backoff[mail.attempts + 1], clock) \in Table
      <4> SUFFICES ASSUME ~ is_exhausted(mail.attempts + 1)
                   PROVE  mark_failed(mails, mail.id, clock + Backoff[mail.attempts + 1], clock)
                            \in Table
        OBVIOUS
      <4>1. mail.attempts + 1 \in 1..MaxAttempts
        BY <2>2 DEF is_exhausted
      <4>2. clock + Backoff[mail.attempts + 1] \in Nat
        BY <1>0, <4>1
      <4> DEFINE retry_at == clock + Backoff[mail.attempts + 1]
      <4> HIDE DEF mail, retry_at
      <4>3. mark_failed(mails, mail.id, retry_at, clock) \in Table
        <5>1. retry_at \in Nat
          BY <4>2 DEF retry_at
        <5> QED  BY ONLY <1>0, <2>2, <5>1, MarkFailedEffect, Zenon
      <4> QED  BY <4>3 DEF retry_at
    <3> DEFINE t == IF is_exhausted(mail.attempts + 1)
                    THEN mark_dead(mails, mail.id, clock)
                    ELSE mark_failed(mails, mail.id,
                                     clock + Backoff[mail.attempts + 1], clock)
    <3>3. t \in Table
      BY <3>1, <3>2
    <3>4. /\ QueueWrite(t) /\ Finish(i)
          /\ UNCHANGED <<clock, pc, loopVars, startVars, sends, delivered>>
      BY <2>12 DEF RecordFailure
    <3>5. failed_at' \in [MailIds -> Nat]
      BY <1>0, <2>2, <2>12 DEF RecordFailure
    <3> HIDE DEF t
    <3> QED  BY <2>3, <3>3, <3>4, <3>5
  <2> QED  BY <1>15, <2>5, <2>6, <2>7, <2>8, <2>9, <2>10, <2>11, <2>12 DEF Deliver
<1>16. CASE UNCHANGED vars
  BY <1>0, <1>16 DEF TypeOK, vars
<1> QED
  BY <1>1, <1>2, <1>3, <1>4, <1>5, <1>6, <1>7, <1>8, <1>9, <1>10, <1>11, <1>12,
     <1>13, <1>14, <1>15, <1>16 DEF Next, Environment, Loop

(* In every reachable state every variable of the dispatcher has its type. *)
THEOREM TypeCorrect == Spec => []TypeOK
<1>1. Init => TypeInv
  BY TypeInit
<1>2. TypeInv /\ [Next]_vars => TypeInv'
  BY TypeNext
<1>3. TypeInv => TypeOK
  BY DEF TypeInv
<1> QED  BY <1>1, <1>2, <1>3, PTL DEF Spec
-----------------------------------------------------------------------------
(***************************************************************************)
(* The claim discipline.  Nothing in the queue's UPDATEs protects a mail   *)
(* that is being delivered; what does is the shape of tick.  The invariant *)
(* says so: outside a tick there is neither a batch nor a task, the mails  *)
(* still waiting in the batch are unclaimed (but for the head while it     *)
(* waits for its permit), distinct, and unchanged since the fetch.         *)
(***************************************************************************)
LoopShape ==
  /\ pc = "acquire" => batch # <<>>
  /\ pc \in {"down", "recover", "idle", "fetch", "stopped"} =>
       batch = <<>> /\ handles = <<>>

Unclaimed(k) == ~ (pc = "acquire" /\ k = 1)

BatchInv ==
  \A k \in DOMAIN batch :
    /\ IF Unclaimed(k) THEN mails[batch[k].id].status \in {"pending", "failed"}
                       ELSE mails[batch[k].id].status = "sending"
    /\ mails[batch[k].id].attempts = batch[k].attempts
    /\ mails[batch[k].id].next_attempt_at <= now
    /\ \A l \in DOMAIN batch : batch[k].id = batch[l].id => k = l

TaskInv ==
  \A i \in DOMAIN handles : Live(i) =>
    /\ mails[handles[i].mail.id].status = "sending"
    /\ mails[handles[i].mail.id].attempts = handles[i].mail.attempts
    /\ mails[handles[i].mail.id].next_attempt_at <= now
    /\ \A k \in DOMAIN batch : batch[k].id # handles[i].mail.id
    /\ \A j \in DOMAIN handles :
         Live(j) /\ handles[i].mail.id = handles[j].mail.id => i = j

ClaimInv == TypeOK /\ LoopShape /\ BatchInv /\ TaskInv /\ AttemptsBounded

(* The claim discipline holds before the relay is started. *)
LEMMA ClaimInit == Init => ClaimInv
<1> SUFFICES ASSUME Init PROVE ClaimInv
  OBVIOUS
<1>1. TypeOK
  BY TypeInit DEF TypeInv
<1>2. batch = <<>> /\ handles = <<>> /\ pc = "down"
  BY DEF Init, InitAt
<1>4. LoopShape
  BY <1>2 DEF LoopShape
<1>5. BatchInv
  BY <1>2 DEF BatchInv
<1>6. TaskInv
  BY <1>2 DEF TaskInv
<1>3. AttemptsBounded
  <2>1. ASSUME NEW m \in MailIds
        PROVE  mails[m].attempts <= MaxAttempts /\ mails[m].attempts # MaxAttempts
    <3>1. mails[m].attempts = 0
      BY DEF Init, InitAt, NoRow
    <3> QED  BY <3>1, DispatcherAssumption
  <2> QED  BY <2>1, Zenon DEF AttemptsBounded
<1> QED  BY <1>1, <1>3, <1>4, <1>5, <1>6 DEF ClaimInv

(* What the task of a delivery may do: its own mail is the only one it      *)
(* touches, and it is done with the mail when it writes the row.  A failure *)
(* that is counted is due again after the delay of its attempt.             *)
TaskStep(i) ==
  LET m == handles[i].mail.id
  IN  /\ Live(i)
      /\ UNCHANGED <<clock, pc, now, batch>>
      /\ DOMAIN handles' = DOMAIN handles
      /\ \A j \in DOMAIN handles :
           /\ handles'[j].mail = handles[j].mail
           /\ j # i => handles'[j].stage = handles[j].stage
      /\ \A n \in MailIds : n # m => mails'[n] = mails[n] /\ failed_at'[n] = failed_at[n]
      /\ \/ mails'[m] = mails[m] /\ failed_at'[m] = failed_at[m]
         \/ /\ handles'[i].stage = "done"
            /\ \/ /\ mails'[m].status = "sent"
                  /\ mails'[m].attempts = mails[m].attempts
                  /\ handles[i].stage = "ok"
               \/ /\ mails'[m].status = "dead"
                  /\ mails'[m].attempts = mails[m].attempts + 1
               \/ /\ mails'[m].status = "failed"
                  /\ mails'[m].attempts = mails[m].attempts + 1
                  /\ handles[i].mail.attempts + 1 < MaxAttempts
                  /\ failed_at'[m] = clock
                  /\ mails'[m].next_attempt_at =
                       clock + Backoff[handles[i].mail.attempts + 1]

(* A step of a delivery task touches at most the row of its own mail. *)
LEMMA DeliverIsTaskStep ==
  ASSUME TypeOK, NEW i \in DOMAIN handles, Deliver(i)
  PROVE  TaskStep(i)
<1> DEFINE mail == handles[i].mail
           m == mail.id
<1> USE DispatcherAssumption
<1>1. /\ mails \in Table /\ clock \in Nat /\ handles \in Seq(Task)
  BY DEF TypeOK
<1>2. /\ mail \in Mail /\ m \in MailIds /\ mail.attempts \in Nat
      /\ handles[i].stage \in Stage
  <2>1. handles[i] \in Task
    BY <1>1
  <2> QED  BY <2>1 DEF Task, Mail
<1>3. ASSUME NEW stage \in Stage, SetStage(i, stage), handles[i].stage # "done"
      PROVE  /\ Live(i)
             /\ DOMAIN handles' = DOMAIN handles
             /\ handles'[i].stage = stage
             /\ \A j \in DOMAIN handles :
                  /\ handles'[j].mail = handles[j].mail
                  /\ j # i => handles'[j].stage = handles[j].stage
  BY <1>1, <1>3, SetStageEffect DEF Live
<1>4. ASSUME NEW stage \in Stage, SetStage(i, stage), NEW copies, Sent(i, copies)
      PROVE  TaskStep(i)
  BY <1>3, <1>4 DEF Sent, TaskStep, loopVars
<1>5. ASSUME NEW t, QueueWrite(t), Finish(i), handles[i].stage # "done",
             UNCHANGED <<clock, pc, loopVars>>,
             \A n \in MailIds : n # m => t[n] = mails[n] /\ failed_at'[n] = failed_at[n],
             mails' = mails => failed_at'[m] = failed_at[m],
             \/ /\ t[m].status = "sent"
                /\ t[m].attempts = mails[m].attempts
                /\ handles[i].stage = "ok"
             \/ /\ t[m].status = "dead"
                /\ t[m].attempts = mails[m].attempts + 1
             \/ /\ t[m].status = "failed"
                /\ t[m].attempts = mails[m].attempts + 1
                /\ mail.attempts + 1 < MaxAttempts
                /\ t[m].next_attempt_at = clock + Backoff[mail.attempts + 1]
                /\ mails' # mails => failed_at'[m] = clock
      PROVE  TaskStep(i)
  <2>1. /\ Live(i)
        /\ DOMAIN handles' = DOMAIN handles
        /\ handles'[i].stage = "done"
        /\ \A j \in DOMAIN handles :
             /\ handles'[j].mail = handles[j].mail
             /\ j # i => handles'[j].stage = handles[j].stage
    BY <1>3, <1>5 DEF Finish, Stage
  <2>2. mails' = t \/ mails' = mails
    BY <1>5 DEF QueueWrite
  <2>3. UNCHANGED <<clock, pc, now, batch>>
    BY <1>5 DEF loopVars
  <2> QED  BY <1>5, <2>1, <2>2, <2>3 DEF TaskStep
<1>6. CASE BuryUnroutable(i)
  <2> DEFINE t == mark_dead(mails, m, clock)
  <2>1. /\ \A n \in MailIds : n # m => t[n] = mails[n]
        /\ t[m].status = "dead" /\ t[m].attempts = mails[m].attempts + 1
    <3> HIDE DEF mail, m
    <3> QED  BY ONLY <1>1, <1>2, MarkDeadEffect, Zenon
  <2>2. /\ QueueWrite(t) /\ Finish(i) /\ handles[i].stage = "spawned"
        /\ UNCHANGED <<clock, pc, loopVars, startVars, ghostVars>>
    BY <1>6 DEF BuryUnroutable
  <2> HIDE DEF t
  <2> QED  BY <1>5, <2>1, <2>2 DEF ghostVars
<1>7. CASE SendOk(i)
  BY <1>4, <1>7 DEF SendOk, Stage
<1>8. CASE SendErr(i)
  BY <1>4, <1>8 DEF SendErr, Stage
<1>9. CASE SendAnswerLost(i)
  BY <1>4, <1>9 DEF SendAnswerLost, Stage
<1>10. CASE SendPanics(i)
  BY <1>4, <1>10 DEF SendPanics, Finish, Stage
<1>11. CASE SendHangs(i)
  BY <1>4, <1>11 DEF SendHangs, Stage
<1>12. CASE RecordSent(i)
  <2> DEFINE t == mark_sent(mails, m, clock)
  <2>1. /\ \A n \in MailIds : n # m => t[n] = mails[n]
        /\ t[m].status = "sent" /\ t[m].attempts = mails[m].attempts
    <3> HIDE DEF mail, m
    <3> QED  BY ONLY <1>1, <1>2, MarkSentEffect, Zenon
  <2>2. /\ QueueWrite(t) /\ Finish(i) /\ handles[i].stage = "ok"
        /\ UNCHANGED <<clock, pc, loopVars, startVars, ghostVars>>
    BY <1>12 DEF RecordSent
  <2> HIDE DEF t
  <2> QED  BY <1>5, <2>1, <2>2 DEF ghostVars
<1>13. CASE RecordFailure(i)
  <2>0. /\ \A n \in MailIds : n # m => failed_at'[n] = failed_at[n]
        /\ mails' = mails => failed_at'[m] = failed_at[m]
        /\ mails' # mails => failed_at'[m] = clock
    BY <1>2, <1>13 DEF RecordFailure, TypeOK
  <2>1. CASE is_exhausted(mail.attempts + 1)
    <3> DEFINE t == mark_dead(mails, m, clock)
    <3>1. /\ QueueWrite(t) /\ Finish(i) /\ handles[i].stage = "err"
          /\ UNCHANGED <<clock, pc, loopVars>>
      BY <1>13, <2>1 DEF RecordFailure
    <3>2. /\ \A n \in MailIds : n # m => t[n] = mails[n]
          /\ t[m].status = "dead" /\ t[m].attempts = mails[m].attempts + 1
      <4> HIDE DEF mail, m
      <4> QED  BY ONLY <1>1, <1>2, MarkDeadEffect, Zenon
    <3> HIDE DEF t
    <3> QED  BY <1>5, <2>0, <3>1, <3>2
  <2>2. CASE ~ is_exhausted(mail.attempts + 1)
    <3> DEFINE r == clock + Backoff[mail.attempts + 1]
               t == mark_failed(mails, m, r, clock)
    <3>1. /\ QueueWrite(t) /\ Finish(i) /\ handles[i].stage = "err"
          /\ UNCHANGED <<clock, pc, loopVars>>
      BY <1>13, <2>2 DEF RecordFailure
    <3>2. mail.attempts + 1 < MaxAttempts /\ mail.attempts + 1 \in 1..MaxAttempts
      BY <1>2, <2>2 DEF is_exhausted
    <3>3. r \in Nat
      BY <1>1, <3>2
    <3> HIDE DEF r
    <3>4. /\ \A n \in MailIds : n # m => t[n] = mails[n]
          /\ t[m].status = "failed" /\ t[m].attempts = mails[m].attempts + 1
          /\ t[m].next_attempt_at = r
      <4> HIDE DEF m, mail
      <4>1. \A n \in MailIds : n # m => t[n] = mails[n]
        BY <1>1, <1>2, <3>3, MarkFailedEffect
      <4>2. t[m].status = "failed"
        BY <1>1, <1>2, <3>3, MarkFailedEffect
      <4>3. t[m].attempts = mails[m].attempts + 1
        BY <1>1, <1>2, <3>3, MarkFailedEffect
      <4>4. t[m].next_attempt_at = r
        BY ONLY <1>1, <1>2, <3>3, MarkFailedDue
      <4> QED  BY <4>1, <4>2, <4>3, <4>4
    <3>5. r = clock + Backoff[mail.attempts + 1]
      BY DEF r
    <3> HIDE DEF t
    <3> QED  BY <1>5, <2>0, <3>1, <3>2, <3>4, <3>5
  <2> QED  BY <2>1, <2>2
<1> QED
  BY <1>6, <1>7, <1>8, <1>9, <1>10, <1>11, <1>12, <1>13 DEF Deliver

(* Between ticks the claim discipline only asks that nothing is left over. *)
LEMMA EmptyTick ==
  ASSUME batch' = <<>>, handles' = <<>>, pc' # "acquire"
  PROVE  LoopShape' /\ BatchInv' /\ TaskInv'
  BY DEF LoopShape, BatchInv, TaskInv

(* Every step keeps the claim discipline; one case per action. *)
LEMMA ClaimNext == ClaimInv /\ [Next]_vars => ClaimInv'
<1> SUFFICES ASSUME ClaimInv, [Next]_vars PROVE ClaimInv'
  OBVIOUS
<1> USE DispatcherAssumption
<1>a. TypeOK /\ LoopShape /\ BatchInv /\ TaskInv /\ AttemptsBounded
  BY DEF ClaimInv
<1>b. TypeOK'
  BY <1>a, TypeNext DEF TypeInv, LoopShape
<1>0. /\ mails \in Table /\ clock \in Nat /\ now \in Nat
      /\ batch \in Seq(Mail) /\ handles \in Seq(Task)
      /\ \A k \in DOMAIN batch : batch[k] \in Mail /\ batch[k].id \in MailIds
      /\ \A i \in DOMAIN handles : handles[i].mail.id \in MailIds
      /\ \A m \in MailIds : mails[m].attempts \in Nat
  <2>1. /\ mails \in Table /\ clock \in Nat /\ now \in Nat
        /\ batch \in Seq(Mail) /\ handles \in Seq(Task)
    BY <1>a DEF TypeOK
  <2>2. ASSUME NEW k \in DOMAIN batch PROVE batch[k] \in Mail /\ batch[k].id \in MailIds
    <3>1. batch[k] \in Mail
      BY <2>1
    <3> QED  BY <3>1 DEF Mail
  <2>3. ASSUME NEW i \in DOMAIN handles PROVE handles[i].mail.id \in MailIds
    <3>1. handles[i] \in Task
      BY <2>1
    <3> QED  BY <3>1 DEF Task, Mail
  <2>4. \A m \in MailIds : mails[m].attempts \in Nat
    BY <2>1 DEF Table, Row
  <2> QED  BY <2>1, <2>2, <2>3, <2>4
<1>t. mails \in Table /\ clock \in Nat /\ now \in Nat
  BY <1>0
<1> SUFFICES LoopShape' /\ BatchInv' /\ TaskInv' /\ AttemptsBounded'
  BY <1>b DEF ClaimInv
<1>c. ASSUME UNCHANGED <<mails, pc, now, batch, handles>>
      PROVE  LoopShape' /\ BatchInv' /\ TaskInv' /\ AttemptsBounded'
  BY <1>a, <1>c DEF LoopShape, BatchInv, Unclaimed, TaskInv, Live, AttemptsBounded
<1>1. CASE PassTime
  BY <1>c, <1>1 DEF PassTime, loopVars
<1>2. CASE SetClockBack
  BY <1>c, <1>2 DEF SetClockBack, loopVars
<1>3. ASSUME NEW m \in MailIds, Submit(m)
      PROVE  LoopShape' /\ BatchInv' /\ TaskInv' /\ AttemptsBounded'
  <2>1. /\ \A n \in MailIds : n # m => mails'[n] = mails[n]
        /\ mails[m].status = "absent"
        /\ mails'[m].attempts = 0
        /\ UNCHANGED <<pc, now, batch, handles>>
    <3>1. PICK tr \in MaybeTransport : mails' = enqueue(mails, m, tr, clock)
      BY <1>3 DEF Submit
    <3>2. LET t == enqueue(mails, m, tr, clock)
          IN  t[m].attempts = 0 /\ \A n \in MailIds : n # m => t[n] = mails[n]
      BY ONLY <1>t, m \in MailIds, tr \in MaybeTransport, EnqueueEffect, Zenon
    <3> QED  BY <1>3, <3>1, <3>2 DEF Submit, loopVars
  <2>2. LoopShape'
    BY <1>a, <2>1 DEF LoopShape
  <2>3. BatchInv'
    <3>1. \A k \in DOMAIN batch : mails'[batch[k].id] = mails[batch[k].id]
      BY <1>a, <1>0, <2>1 DEF BatchInv, Unclaimed
    <3> QED  BY <1>a, <2>1, <3>1 DEF BatchInv, Unclaimed
  <2>4. TaskInv'
    <3>1. \A j \in DOMAIN handles :
            Live(j) => mails'[handles[j].mail.id] = mails[handles[j].mail.id]
      <4> SUFFICES ASSUME NEW j \in DOMAIN handles, Live(j)
                   PROVE  mails'[handles[j].mail.id] = mails[handles[j].mail.id]
        OBVIOUS
      <4>1. handles[j].mail.id \in MailIds
        BY <1>0
      <4>2. handles[j].mail.id # m
        BY <1>a, <2>1 DEF TaskInv
      <4> QED  BY <2>1, <4>1, <4>2
    <3> QED  BY <1>a, <2>1, <3>1 DEF TaskInv, Live
  <2>5. AttemptsBounded'
    BY <1>a, <1>0, <2>1 DEF AttemptsBounded
  <2> QED  BY <2>2, <2>3, <2>4, <2>5
<1>4. ASSUME NEW c \in Configs, Start(c)
      PROVE  LoopShape' /\ BatchInv' /\ TaskInv' /\ AttemptsBounded'
  <2>1. batch' = <<>> /\ handles' = <<>> /\ pc' # "acquire" /\ mails' = mails
    BY <1>a, <1>4 DEF Start, LoopShape, loopVars
  <2> QED  BY <1>a, <2>1, EmptyTick DEF AttemptsBounded
<1>5. CASE Shutdown \/ Exit
  <2>1. batch' = <<>> /\ handles' = <<>> /\ pc' # "acquire" /\ mails' = mails
    BY <1>a, <1>5 DEF Shutdown, Exit, LoopShape, loopVars
  <2> QED  BY <1>a, <2>1, EmptyTick DEF AttemptsBounded
<1>6. CASE Crash
  <2>1. batch' = <<>> /\ handles' = <<>> /\ pc' # "acquire" /\ mails' = mails
    BY <1>6 DEF Crash
  <2> QED  BY <1>a, <2>1, EmptyTick DEF AttemptsBounded
<1>d. ASSUME NEW u, QueueWrite(u),
             \A m \in MailIds :
               /\ u[m].attempts = mails[m].attempts
               /\ u[m] = mails[m] \/ (mails[m].status = "sending" /\ u[m].status = "pending")
      PROVE  AttemptsBounded'
  <2>1. mails' = u \/ mails' = mails
    BY <1>d DEF QueueWrite
  <2> QED  BY <1>a, <1>d, <2>1 DEF AttemptsBounded
<1>7. CASE Recover
  <2>1. batch' = <<>> /\ handles' = <<>> /\ pc' # "acquire"
    BY <1>a, <1>7 DEF Recover, LoopShape, loopVars
  <2>2. AttemptsBounded'
    <3> DEFINE u == requeue_sending(mails, clock)
    <3>1. \A m \in MailIds :
            /\ u[m].attempts = mails[m].attempts
            /\ u[m] = mails[m] \/ (mails[m].status = "sending" /\ u[m].status = "pending")
      BY <1>0, RecoverEffect
    <3>2. QueueWrite(u)
      BY <1>7 DEF Recover
    <3> HIDE DEF u
    <3> QED  BY <1>d, <3>1, <3>2
  <2> QED  BY <2>1, <2>2, EmptyTick
<1>8. CASE TickStart
  <2>1. batch' = <<>> /\ handles' = <<>> /\ pc' # "acquire"
    BY <1>a, <1>8 DEF TickStart, LoopShape
  <2>2. AttemptsBounded'
    <3> DEFINE older == clock - Lease
               u == requeue_stale_sending(mails, older, clock)
    <3>0. older \in Int
      BY <1>0
    <3>2. QueueWrite(u)
      BY <1>8 DEF TickStart
    <3> HIDE DEF older
    <3>1. \A m \in MailIds :
            /\ u[m].attempts = mails[m].attempts
            /\ u[m] = mails[m] \/ (mails[m].status = "sending" /\ u[m].status = "pending")
      <4>1. ASSUME NEW m \in MailIds
            PROVE  u[m].attempts = mails[m].attempts
        BY <1>0, <3>0, ReclaimEffect
      <4>2. ASSUME NEW m \in MailIds
            PROVE  u[m] = mails[m] \/ (mails[m].status = "sending" /\ u[m].status = "pending")
        BY <1>0, <3>0, ReclaimEffect
      <4> QED  BY <4>1, <4>2
    <3> HIDE DEF u
    <3> QED  BY <1>d, <3>1, <3>2
  <2> QED  BY <2>1, <2>2, EmptyTick
<1>9. CASE FetchDue
  <2>1. PICK s \in fetch_due(mails, BatchSize, now) :
          /\ batch' = [k \in 1..Len(s) |-> row_to_mail(mails, s[k])]
          /\ pc' = IF s = <<>> THEN "idle" ELSE "claim"
          /\ now' = IF s = <<>> THEN 0 ELSE now
    BY <1>9 DEF FetchDue
  <2>2. /\ s \in Seq(MailIds)
        /\ \A k \in 1..Len(s) : is_due(mails[s[k]], now)
        /\ \A k, l \in 1..Len(s) : s[k] = s[l] => k = l
    BY ONLY <1>t, BatchSize \in Nat, s \in fetch_due(mails, BatchSize, now),
       FetchEffect
  <2>3. mails' = mails /\ handles' = <<>>
    BY <1>a, <1>9 DEF FetchDue, LoopShape
  <2>4. CASE s = <<>>
    <3>1. batch' = <<>> /\ pc' = "idle"
      BY <2>1, <2>4
    <3> QED  BY <1>a, <2>3, <3>1, EmptyTick DEF AttemptsBounded
  <2>5. CASE s # <<>>
    <3>1. pc' = "claim" /\ now' = now
      BY <2>1, <2>5
    <3>2. LoopShape'
      BY <3>1 DEF LoopShape
    <3>3. /\ DOMAIN batch' = 1..Len(s)
          /\ \A k \in 1..Len(s) : /\ batch'[k].id = s[k]
                                   /\ batch'[k].attempts = mails[s[k]].attempts
      BY <2>1, <2>2 DEF row_to_mail
    <3>4. BatchInv'
      BY <2>2, <2>3, <3>1, <3>3 DEF BatchInv, Unclaimed, is_due
    <3>5. TaskInv'
      BY <2>3 DEF TaskInv
    <3> QED  BY <1>a, <2>3, <3>2, <3>4, <3>5 DEF AttemptsBounded
  <2> QED  BY <2>4, <2>5
<1>10. CASE FetchFails
  <2>1. batch' = <<>> /\ handles' = <<>> /\ pc' # "acquire" /\ mails' = mails
    BY <1>a, <1>10 DEF FetchFails, LoopShape
  <2> QED  BY <1>a, <2>1, EmptyTick DEF AttemptsBounded
<1>11. CASE Claim
  <2> DEFINE m == batch[1].id
  <2>1. /\ pc = "claim" /\ batch # <<>> /\ 1 \in DOMAIN batch /\ Head(batch) = batch[1]
        /\ pc' = "acquire" /\ UNCHANGED <<now, batch, handles>>
    BY <1>0, <1>11 DEF Claim, loopVars
  <2>2. m \in MailIds /\ mails' = mark_sending(mails, m, clock)
    BY <1>0, <1>11, <2>1 DEF Claim
  <2>3. /\ \A n \in MailIds : n # m => mails'[n] = mails[n]
        /\ mails'[m].status = "sending"
        /\ mails'[m].attempts = mails[m].attempts
        /\ mails'[m].next_attempt_at = mails[m].next_attempt_at
    <3> HIDE DEF m
    <3> DEFINE t == mark_sending(mails, m, clock)
    <3>1. /\ \A n \in MailIds : n # m => t[n] = mails[n]
          /\ t[m].status = "sending"
      BY ONLY <1>t, <2>2, MarkSendingEffect, Zenon
    <3>2. /\ t[m].attempts = mails[m].attempts
          /\ t[m].next_attempt_at = mails[m].next_attempt_at
      BY ONLY <1>t, <2>2, MarkSendingEffect, Zenon
    <3> QED  BY <2>2, <3>1, <3>2
  <2>4. mails[m].status \in {"pending", "failed"}
    BY <1>a, <2>1 DEF BatchInv, Unclaimed
  <2>5. LoopShape'
    BY <2>1 DEF LoopShape
  <2>6. BatchInv'
    <3>1. \A k \in DOMAIN batch : k # 1 => batch[k].id # m
      BY <1>a, <2>1 DEF BatchInv
    <3>2. \A k \in DOMAIN batch : k # 1 => mails'[batch[k].id] = mails[batch[k].id]
      BY <1>0, <2>3, <3>1
    <3> QED  BY <1>a, <2>1, <2>3, <3>2 DEF BatchInv, Unclaimed
  <2>7. TaskInv'
    <3>1. \A j \in DOMAIN handles :
            Live(j) => mails'[handles[j].mail.id] = mails[handles[j].mail.id]
      <4> SUFFICES ASSUME NEW j \in DOMAIN handles, Live(j)
                   PROVE  mails'[handles[j].mail.id] = mails[handles[j].mail.id]
        OBVIOUS
      <4>1. handles[j].mail.id \in MailIds
        BY <1>0
      <4>2. handles[j].mail.id # m
        BY <1>a, <2>1 DEF TaskInv
      <4> QED  BY <2>3, <4>1, <4>2
    <3> QED  BY <1>a, <2>1, <3>1 DEF TaskInv, Live
  <2>8. AttemptsBounded'
    <3>1. \A n \in MailIds : /\ mails'[n].attempts = mails[n].attempts
                             /\ n # m => mails'[n].status = mails[n].status
      BY <2>3
    <3>2. mails[m].attempts # MaxAttempts
      BY <1>a, <2>2, <2>4 DEF AttemptsBounded
    <3> HIDE DEF m
    <3> QED  BY <1>a, <3>1, <3>2 DEF AttemptsBounded
  <2> QED  BY <2>5, <2>6, <2>7, <2>8
<1>e. ASSUME batch # <<>>, batch' = Tail(batch)
      PROVE  /\ \A k \in DOMAIN batch' : k + 1 \in DOMAIN batch /\ batch'[k] = batch[k + 1]
             /\ \A k \in DOMAIN batch' : k \in Nat /\ k # 0
  BY <1>0, <1>e
<1>12. CASE ClaimFails
  <2>1. /\ pc = "claim" /\ pc' = "claim" /\ batch # <<>> /\ batch' = Tail(batch)
        /\ UNCHANGED <<mails, now, handles>>
    BY <1>12 DEF ClaimFails
  <2>2. LoopShape'
    BY <2>1 DEF LoopShape
  <2>3. BatchInv'
    BY <1>a, <1>e, <2>1 DEF BatchInv, Unclaimed
  <2>4. TaskInv'
    BY <1>a, <1>e, <2>1 DEF TaskInv, Live
  <2> QED  BY <1>a, <2>1, <2>2, <2>3, <2>4 DEF AttemptsBounded
<1>13. CASE Spawn
  <2> DEFINE n == Len(handles) + 1
  <2>1. /\ pc = "acquire" /\ pc' = "claim" /\ batch # <<>> /\ batch' = Tail(batch)
        /\ UNCHANGED <<mails, now>> /\ 1 \in DOMAIN batch /\ Head(batch) = batch[1]
    BY <1>a, <1>0, <1>13 DEF Spawn, LoopShape
  <2>2. /\ DOMAIN handles' = DOMAIN handles \cup {n}
        /\ n \notin DOMAIN handles
        /\ \A i \in DOMAIN handles : handles'[i] = handles[i]
        /\ handles'[n].mail = batch[1]
    BY <1>0, <1>13, <2>1 DEF Spawn
  <2> HIDE DEF n
  <2>3. LoopShape'
    BY <2>1 DEF LoopShape
  <2>4. BatchInv'
    BY <1>a, <1>e, <2>1 DEF BatchInv, Unclaimed
  <2>5. /\ mails[batch[1].id].status = "sending"
        /\ mails[batch[1].id].attempts = batch[1].attempts
        /\ mails[batch[1].id].next_attempt_at <= now
        /\ \A k \in DOMAIN batch : batch[k].id = batch[1].id => k = 1
    BY <1>a, <2>1 DEF BatchInv, Unclaimed
  <2>6. TaskInv'
    <3>1. \A k \in DOMAIN batch' : batch'[k].id # batch[1].id
      BY <1>e, <2>1, <2>5
    <3>2. \A i \in DOMAIN handles : Live(i) => batch[1].id # handles[i].mail.id
      BY <1>a, <2>1 DEF TaskInv
    <3> QED  BY <1>a, <1>e, <2>1, <2>2, <2>5, <3>1, <3>2 DEF TaskInv, Live
  <2> QED  BY <1>a, <2>1, <2>3, <2>4, <2>6 DEF AttemptsBounded
<1>14. CASE Join
  <2>1. batch' = <<>> /\ handles' = <<>> /\ pc' # "acquire" /\ mails' = mails
    BY <1>14 DEF Join
  <2> QED  BY <1>a, <2>1, EmptyTick DEF AttemptsBounded
<1>15. ASSUME NEW i \in DOMAIN handles, Deliver(i)
       PROVE  LoopShape' /\ BatchInv' /\ TaskInv' /\ AttemptsBounded'
  <2> DEFINE m == handles[i].mail.id
  <2>1. TaskStep(i)
    BY <1>a, <1>15, DeliverIsTaskStep
  <2>2. /\ Live(i) /\ m \in MailIds
        /\ UNCHANGED <<pc, now, batch>>
        /\ DOMAIN handles' = DOMAIN handles
        /\ \A j \in DOMAIN handles :
             /\ handles'[j].mail = handles[j].mail
             /\ j # i => handles'[j].stage = handles[j].stage
        /\ \A n \in MailIds : n # m => mails'[n] = mails[n]
        /\ mails'[m] = mails[m] \/ handles'[i].stage = "done"
    BY <1>0, <2>1 DEF TaskStep
  <2>3. handles # <<>>
    BY <2>2
  <2>4. LoopShape'
    BY <1>a, <2>2, <2>3 DEF LoopShape
  <2>5. /\ \A k \in DOMAIN batch : batch[k].id # m
        /\ \A j \in DOMAIN handles : Live(j) /\ j # i => handles[j].mail.id # m
        /\ mails[m].status = "sending"
        /\ mails[m].attempts = handles[i].mail.attempts
    BY <1>a, <2>2 DEF TaskInv
  <2>6. BatchInv'
    <3>1. \A k \in DOMAIN batch : mails'[batch[k].id] = mails[batch[k].id]
      BY <1>0, <2>2, <2>5
    <3> QED  BY <1>a, <2>2, <3>1 DEF BatchInv, Unclaimed
  <2>7. TaskInv'
    <3>1. \A j \in DOMAIN handles :
            handles'[j].stage # "done" =>
              Live(j) /\ mails'[handles[j].mail.id] = mails[handles[j].mail.id]
      BY <1>0, <2>2, <2>5 DEF Live
    <3> QED  BY <1>a, <2>2, <3>1 DEF TaskInv, Live
  <2>8. AttemptsBounded'
    <3>1. mails[m].attempts < MaxAttempts
      BY <1>a, <1>0, <2>2, <2>5 DEF AttemptsBounded
    <3>2. \/ mails'[m] = mails[m]
          \/ mails'[m].attempts < MaxAttempts
          \/ mails'[m].attempts <= MaxAttempts /\ mails'[m].status = "dead"
      BY <1>0, <2>1, <2>2, <2>5, <3>1 DEF TaskStep
    <3>3. mails'[m].attempts \in Nat
      BY <1>b, <2>2 DEF TypeOK, Table, Row
    <3>4. \A n \in MailIds : n = m \/ mails'[n] = mails[n]
      BY <2>2
    <3> HIDE DEF m
    <3> SUFFICES ASSUME NEW n \in MailIds
                 PROVE  /\ mails'[n].attempts <= MaxAttempts
                        /\ mails'[n].attempts = MaxAttempts => mails'[n].status = "dead"
      BY DEF AttemptsBounded
    <3>5. CASE mails'[n] = mails[n]
      BY <1>a, <3>5 DEF AttemptsBounded
    <3>6. CASE n = m /\ mails'[m] # mails[m]
      BY <3>2, <3>3, <3>6
    <3> QED  BY <3>4, <3>5, <3>6
  <2> QED  BY <2>4, <2>6, <2>7, <2>8
<1>16. CASE UNCHANGED vars
  BY <1>c, <1>16 DEF vars
<1> QED
  BY <1>1, <1>2, <1>3, <1>4, <1>5, <1>6, <1>7, <1>8, <1>9, <1>10, <1>11, <1>12,
     <1>13, <1>14, <1>15, <1>16 DEF Next, Environment, Loop

(* The claim discipline is an invariant. *)
LEMMA ClaimInvariant == Spec => []ClaimInv
<1>1. Init => ClaimInv
  BY ClaimInit
<1>2. ClaimInv /\ [Next]_vars => ClaimInv'
  BY ClaimNext
<1> QED  BY <1>1, <1>2, PTL DEF Spec
-----------------------------------------------------------------------------
(* A mail is never with two delivery tasks, nor with one and in the batch,  *)
(* whatever the lease, the batch size and the number of permits are.        *)
THEOREM SingleDelivery == Spec => []NoConcurrentDelivery
<1>1. ClaimInv => NoConcurrentDelivery
  BY DEF ClaimInv, TaskInv, NoConcurrentDelivery, Waiting
<1> QED  BY <1>1, ClaimInvariant, PTL

(* The row of a mail stays claimed, and the attempts its task has copied    *)
(* stay true, until the task is done with it.                               *)
THEOREM ClaimIsHeld == Spec => []ClaimHeld
<1>1. ClaimInv => ClaimHeld
  BY DEF ClaimInv, TaskInv, ClaimHeld
<1> QED  BY <1>1, ClaimInvariant, PTL

(***************************************************************************)
(* The schedule.  What the row says about its next attempt is at least the *)
(* delay after the failure that was counted last, and whatever puts an     *)
(* open row back (claim, recovery, reclaim) leaves that alone.             *)
(***************************************************************************)
Open == {"pending", "failed", "sending"}

Scheduled(m) ==
  mails[m].status \in Open /\ mails[m].attempts > 0 =>
    failed_at[m] + Backoff[mails[m].attempts] <= mails[m].next_attempt_at

ScheduleInv == \A m \in MailIds : Scheduled(m)

(* Nothing has been tried at first. *)
LEMMA ScheduleInit == Init => ScheduleInv
  BY DEF Init, InitAt, NoRow, ScheduleInv, Scheduled, Open

(* Every step keeps the schedule: only a task that counts a failure sets a  *)
(* due time again.                                                          *)
LEMMA ScheduleNext ==
  ASSUME ClaimInv, ScheduleInv, [Next]_vars
  PROVE  ScheduleInv'
<1> USE DispatcherAssumption
<1>0. /\ mails \in Table /\ clock \in Nat /\ clock - Lease \in Int
      /\ batch \in Seq(Mail) /\ handles \in Seq(Task)
      /\ \A m \in MailIds : mails[m].attempts \in Nat
  BY DEF ClaimInv, TypeOK, Table, Row
<1>k. ASSUME NEW m \in MailIds, failed_at'[m] = failed_at[m],
             mails'[m].attempts = mails[m].attempts,
             mails'[m].next_attempt_at = mails[m].next_attempt_at,
             mails'[m].status \in Open => mails[m].status \in Open
      PROVE  Scheduled(m)'
  BY <1>k DEF ScheduleInv, Scheduled
<1>1. CASE UNCHANGED <<mails, failed_at>>
  BY <1>1 DEF ScheduleInv, Scheduled
<1>2. ASSUME NEW n \in MailIds, Submit(n), NEW m \in MailIds PROVE Scheduled(m)'
  <2>1. PICK tr \in MaybeTransport : mails' = enqueue(mails, n, tr, clock)
    BY <1>2 DEF Submit
  <2>2. /\ n # m => mails'[m] = mails[m]
        /\ mails'[n].attempts = 0
    BY <1>0, <2>1, EnqueueEffect
  <2>3. failed_at' = failed_at
    BY <1>2 DEF Submit, ghostVars
  <2>4. CASE m = n
    BY <2>2, <2>4 DEF Scheduled
  <2> QED  BY <1>k, <2>2, <2>3, <2>4
<1>d. ASSUME NEW u, QueueWrite(u), failed_at' = failed_at,
             \A m \in MailIds :
               /\ u[m].attempts = mails[m].attempts
               /\ u[m].next_attempt_at = mails[m].next_attempt_at
               /\ u[m] = mails[m] \/ (mails[m].status = "sending" /\ u[m].status = "pending"),
             NEW m \in MailIds
      PROVE  Scheduled(m)'
  <2>1. mails' = u \/ mails' = mails
    BY <1>d DEF QueueWrite
  <2> QED  BY <1>d, <1>k, <2>1 DEF Open
<1>3. ASSUME Recover, NEW m \in MailIds PROVE Scheduled(m)'
  <2> DEFINE u == requeue_sending(mails, clock)
  <2>1. QueueWrite(u) /\ failed_at' = failed_at
    BY <1>3 DEF Recover, ghostVars
  <2>2. \A n \in MailIds :
          /\ u[n].attempts = mails[n].attempts
          /\ u[n].next_attempt_at = mails[n].next_attempt_at
          /\ u[n] = mails[n] \/ (mails[n].status = "sending" /\ u[n].status = "pending")
    BY <1>0, RecoverEffect
  <2> HIDE DEF u
  <2> QED  BY <1>d, <2>1, <2>2
<1>4. ASSUME TickStart, NEW m \in MailIds PROVE Scheduled(m)'
  <2> DEFINE older == clock - Lease
             u == requeue_stale_sending(mails, older, clock)
  <2>0. older \in Int
    BY <1>0
  <2>1. QueueWrite(u) /\ failed_at' = failed_at
    BY <1>4 DEF TickStart, ghostVars
  <2> HIDE DEF older
  <2>2. \A n \in MailIds :
          /\ u[n].attempts = mails[n].attempts
          /\ u[n].next_attempt_at = mails[n].next_attempt_at
          /\ u[n] = mails[n] \/ (mails[n].status = "sending" /\ u[n].status = "pending")
    <3>0. mails \in Table /\ clock \in Nat
      BY <1>0
    <3>1. ASSUME NEW n \in MailIds
          PROVE  /\ u[n].attempts = mails[n].attempts
                 /\ u[n].next_attempt_at = mails[n].next_attempt_at
      BY ONLY <2>0, <3>0, n \in MailIds, ReclaimEffect, Zenon
    <3>2. ASSUME NEW n \in MailIds
          PROVE  u[n] = mails[n] \/ (mails[n].status = "sending" /\ u[n].status = "pending")
      BY ONLY <2>0, <3>0, n \in MailIds, ReclaimEffect
    <3> QED  BY <3>1, <3>2
  <2> HIDE DEF u
  <2> QED  BY <1>d, <2>1, <2>2
<1>5. ASSUME Claim, NEW m \in MailIds PROVE Scheduled(m)'
  <2> DEFINE n == batch[1].id
  <2>1. /\ 1 \in DOMAIN batch /\ batch[1] \in Mail /\ pc = "claim"
        /\ mails' = mark_sending(mails, n, clock) /\ failed_at' = failed_at
    BY <1>0, <1>5 DEF Claim, ghostVars
  <2>2. mails[n].status \in Open
    BY <2>1 DEF ClaimInv, BatchInv, Unclaimed, Open
  <2>3. n \in MailIds
    BY <2>1 DEF Mail
  <2> HIDE DEF n
  <2>4. /\ n # m => mails'[m] = mails[m]
        /\ mails'[n].attempts = mails[n].attempts
        /\ mails'[n].next_attempt_at = mails[n].next_attempt_at
    <3> DEFINE t == mark_sending(mails, n, clock)
    <3>0. mails \in Table /\ clock \in Nat
      BY <1>0
    <3>1. \A k \in MailIds : k # n => t[k] = mails[k]
      BY ONLY <2>3, <3>0, MarkSendingEffect, Zenon
    <3>2. /\ t[n].attempts = mails[n].attempts
          /\ t[n].next_attempt_at = mails[n].next_attempt_at
      BY ONLY <2>3, <3>0, MarkSendingEffect, Zenon
    <3> QED  BY <2>1, <3>1, <3>2
  <2> QED  BY <1>k, <2>1, <2>2, <2>4
<1>6. ASSUME NEW i \in DOMAIN handles, Deliver(i), NEW m \in MailIds PROVE Scheduled(m)'
  <2>1. TaskStep(i)
    BY <1>6, DeliverIsTaskStep DEF ClaimInv
  <2>2. CASE \/ m # handles[i].mail.id
             \/ mails'[m] = mails[m] /\ failed_at'[m] = failed_at[m]
    BY <1>k, <2>1, <2>2 DEF TaskStep
  <2>3. CASE /\ m = handles[i].mail.id
             /\ mails'[m].status = "failed"
             /\ mails'[m].attempts = mails[m].attempts + 1
             /\ failed_at'[m] = clock
             /\ mails'[m].next_attempt_at = clock + Backoff[handles[i].mail.attempts + 1]
             /\ handles[i].mail.attempts + 1 < MaxAttempts
    <3>1. mails[m].attempts = handles[i].mail.attempts
      BY <2>1, <2>3 DEF ClaimInv, TaskInv, TaskStep
    <3>2. mails[m].attempts + 1 \in 1..MaxAttempts
      BY <1>0, <2>3, <3>1
    <3>3. clock + Backoff[mails'[m].attempts] <= mails'[m].next_attempt_at
      BY <1>0, <2>3, <3>1, <3>2
    <3> QED  BY <2>3, <3>3 DEF Scheduled
  <2>4. CASE m = handles[i].mail.id /\ mails'[m].status \in {"sent", "dead"}
    BY <2>4 DEF Scheduled, Open
  <2> QED  BY <2>1, <2>2, <2>3, <2>4 DEF TaskStep
<1>7. CASE PassTime \/ SetClockBack \/ Shutdown \/ Exit \/ Crash \/ FetchDue \/ FetchFails
           \/ ClaimFails \/ Spawn \/ Join \/ (\E c \in Configs : Start(c))
  BY <1>1, <1>7 DEF PassTime, SetClockBack, Shutdown, Exit, Crash, FetchDue, FetchFails,
                    ClaimFails, Spawn, Join, Start, ghostVars
<1>8. CASE UNCHANGED vars
  BY <1>1, <1>8 DEF vars
<1> QED
  BY <1>2, <1>3, <1>4, <1>5, <1>6, <1>7, <1>8 DEF Next, Environment, Loop, ScheduleInv

(* A mail whose row is due according to the schedule has waited. *)
LEMMA ScheduleIsWaiting == ClaimInv /\ ScheduleInv => BackoffHonoured
<1> SUFFICES ASSUME ClaimInv, ScheduleInv PROVE BackoffHonoured
  OBVIOUS
<1>1. ASSUME NEW m \in MailIds, mails[m].status \in Open, mails[m].next_attempt_at <= now,
             mails[m].attempts > 0
      PROVE  failed_at[m] + Backoff[mails[m].attempts] <= now
  <2>1. /\ mails[m].attempts \in Nat /\ mails[m].next_attempt_at \in Nat
        /\ failed_at[m] \in Nat /\ now \in Nat
    BY DEF ClaimInv, TypeOK, Table, Row
  <2>2. mails[m].attempts \in 1..MaxAttempts
    BY <1>1, <2>1, DispatcherAssumption DEF ClaimInv, AttemptsBounded
  <2>3. Backoff[mails[m].attempts] \in Nat
    BY <2>2, DispatcherAssumption
  <2>4. failed_at[m] + Backoff[mails[m].attempts] <= mails[m].next_attempt_at
    BY <1>1 DEF ScheduleInv, Scheduled
  <2> QED  BY <1>1, <2>1, <2>3, <2>4
<1>2. ASSUME NEW k \in DOMAIN batch
      PROVE  /\ batch[k].id \in MailIds /\ mails[batch[k].id].status \in Open
             /\ mails[batch[k].id].next_attempt_at <= now
  <2>1. batch[k] \in Mail
    BY DEF ClaimInv, TypeOK
  <2> QED  BY <2>1 DEF ClaimInv, BatchInv, Open, Mail
<1>3. ASSUME NEW i \in DOMAIN handles, Live(i)
      PROVE  /\ handles[i].mail.id \in MailIds /\ mails[handles[i].mail.id].status \in Open
             /\ mails[handles[i].mail.id].next_attempt_at <= now
  <2>1. handles[i] \in Task
    BY DEF ClaimInv, TypeOK
  <2> QED  BY <1>3, <2>1 DEF ClaimInv, TaskInv, Open, Task, Mail
<1> QED  BY <1>1, <1>2, <1>3 DEF BackoffHonoured, Waiting

(* Nothing is worked on before the backoff after its last failure is over,  *)
(* for any retry policy.                                                    *)
THEOREM NeverEarly == Spec => []BackoffHonoured
<1>1. Init => ScheduleInv
  BY ScheduleInit
<1>2. ClaimInv /\ ScheduleInv /\ [Next]_vars => ScheduleInv'
  BY ScheduleNext
<1>3. ClaimInv /\ ScheduleInv => BackoffHonoured
  BY ScheduleIsWaiting
<1> QED  BY <1>1, <1>2, <1>3, ClaimInvariant, PTL DEF Spec

(* The counter never passes max_attempts, and reaching it means dead. *)
THEOREM AttemptsAreBounded == Spec => []AttemptsBounded
<1>1. ClaimInv => AttemptsBounded
  BY DEF ClaimInv
<1> QED  BY <1>1, ClaimInvariant, PTL

(* No step of the dispatcher, of a task, of a recovery or of the ingress    *)
(* touches a settled row.                                                   *)
LEMMA SettledRowStays ==
  ASSUME ClaimInv, [Next]_vars, NEW m \in MailIds, mails[m].status \in {"sent", "dead"}
  PROVE  mails'[m] = mails[m]
<1> USE DispatcherAssumption
<1>0. mails \in Table /\ clock \in Nat /\ batch \in Seq(Mail) /\ clock - Lease \in Int
  BY DEF ClaimInv, TypeOK
<1>1. CASE UNCHANGED mails
  BY <1>1
<1>2. ASSUME NEW n \in MailIds, Submit(n) PROVE mails'[m] = mails[m]
  <2>1. PICK tr \in MaybeTransport : mails' = enqueue(mails, n, tr, clock)
    BY <1>2 DEF Submit
  <2>2. mails[n].status = "absent"
    BY <1>2 DEF Submit
  <2>3. n # m
    BY <2>2
  <2>4. enqueue(mails, n, tr, clock)[m] = mails[m]
    BY ONLY <1>0, <2>3, m \in MailIds, n \in MailIds, tr \in MaybeTransport,
       EnqueueEffect, Zenon
  <2> QED  BY <2>1, <2>4
<1>3. CASE Recover
  <2>0. mails[m].status # "sending"
    OBVIOUS
  <2>1. requeue_sending(mails, clock)[m] = mails[m]
    <3> DEFINE u == requeue_sending(mails, clock)
    <3>1. u[m] = mails[m] \/ (mails[m].status = "sending" /\ u[m].status = "pending")
      BY <1>0, RecoverEffect
    <3> QED  BY <2>0, <3>1
  <2> QED  BY <1>3, <2>1 DEF Recover, QueueWrite
<1>4. CASE TickStart
  <2> DEFINE older == clock - Lease
  <2>1. older \in Int
    BY <1>0
  <2>2. mails' = requeue_stale_sending(mails, older, clock) \/ mails' = mails
    BY <1>4 DEF TickStart, QueueWrite
  <2> HIDE DEF older
  <2>0. mails[m].status # "sending"
    OBVIOUS
  <2>3. requeue_stale_sending(mails, older, clock)[m] = mails[m]
    <3> DEFINE u == requeue_stale_sending(mails, older, clock)
    <3>1. u[m] = mails[m] \/ (mails[m].status = "sending" /\ u[m].status = "pending")
      BY <1>0, <2>1, ReclaimEffect
    <3> QED  BY <2>0, <3>1
  <2> QED  BY <2>2, <2>3
<1>5. CASE Claim
  <2> DEFINE n == batch[1].id
  <2>1. /\ 1 \in DOMAIN batch /\ batch[1] \in Mail /\ pc = "claim"
        /\ mails' = mark_sending(mails, n, clock)
    BY <1>0, <1>5 DEF Claim
  <2>2. mails[n].status \in {"pending", "failed"}
    BY <2>1 DEF ClaimInv, BatchInv, Unclaimed
  <2>3. n \in MailIds /\ n # m
    BY <2>1, <2>2 DEF Mail
  <2> HIDE DEF n
  <2>4. mark_sending(mails, n, clock)[m] = mails[m]
    BY <1>0, <2>3, MarkSendingEffect
  <2> QED  BY <2>1, <2>4
<1>6. ASSUME NEW i \in DOMAIN handles, Deliver(i) PROVE mails'[m] = mails[m]
  <2>1. TaskStep(i)
    BY <1>6, DeliverIsTaskStep DEF ClaimInv
  <2>2. handles[i].mail.id # m
    BY <2>1 DEF ClaimInv, TaskInv, TaskStep
  <2> QED  BY <2>1, <2>2 DEF TaskStep
<1>7. CASE PassTime \/ SetClockBack \/ Shutdown \/ Exit \/ Crash \/ FetchDue \/ FetchFails
           \/ ClaimFails \/ Spawn \/ Join \/ (\E c \in Configs : Start(c))
  BY <1>1, <1>7 DEF PassTime, SetClockBack, Shutdown, Exit, Crash, FetchDue, FetchFails,
                    ClaimFails, Spawn, Join, Start
<1>8. CASE UNCHANGED vars
  BY <1>1, <1>8 DEF vars
<1> QED
  BY <1>2, <1>3, <1>4, <1>5, <1>6, <1>7, <1>8 DEF Next, Environment, Loop

(* A row that is sent or dead never changes again. *)
THEOREM SettledForGood == Spec => TerminalIsFinal
<1>1. ClaimInv /\ [Next]_vars =>
        [\A m \in MailIds : mails[m].status \in {"sent", "dead"} => mails'[m] = mails[m]]_vars
  BY SettledRowStays
<1> QED  BY <1>1, ClaimInvariant, PTL DEF Spec, TerminalIsFinal
=============================================================================
