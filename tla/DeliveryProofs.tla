--------------------------- MODULE DeliveryProofs ---------------------------
(***************************************************************************)
(* What the dispatcher owes to the senders and recipients of the mails,    *)
(* for every set of mails, batch size, concurrency, retry policy and any   *)
(* number of failures: how often a mail is tried and how often it arrives, *)
(* that its permits are never lost, and that all of it implements          *)
(* DeliveryContract.  The claim discipline of DispatcherProofs is what     *)
(* makes the counting possible: a mail has one live task at most.          *)
(***************************************************************************)
EXTENDS DispatcherProofs, FiniteSetTheorems

(* A task of the mail has an answer that is not written yet. *)
Answered(m) ==
  \E i \in DOMAIN handles : handles[i].mail.id = m /\ handles[i].stage \in {"ok", "err"}

(* A task of the mail has delivered it and has not written so yet. *)
Arrived(m) ==
  \E i \in DOMAIN handles : handles[i].mail.id = m /\ handles[i].stage = "ok"

(* Where the calls and the copies of a mail went.  A call of send is booked *)
(* on the attempt counter, on the status "sent" or on the task that has yet *)
(* to write it down; a copy that arrived on the last two only.  Whatever is *)
(* booked on none of them was paid for by a failure.                        *)
Booked(m) ==
  /\ sends[m] <= mails[m].attempts + faults + 1
  /\ sends[m] > mails[m].attempts + faults => mails[m].status = "sent" \/ Answered(m)
  /\ delivered[m] <= faults + 1
  /\ delivered[m] > faults => mails[m].status = "sent" \/ Arrived(m)
  /\ mails[m].status = "sent" \/ Arrived(m) => delivered[m] >= 1
  /\ mails[m].status = "absent" =>
       mails[m].attempts = 0 /\ sends[m] = 0 /\ delivered[m] = 0

HistoryInv == ClaimInv /\ \A m \in MailIds : Booked(m)

(* Nothing has been sent before the relay is started. *)
LEMMA HistoryInit == Init => HistoryInv
<1> SUFFICES ASSUME Init PROVE HistoryInv
  OBVIOUS
<1>1. ClaimInv
  BY ClaimInit
<1>2. ASSUME NEW m \in MailIds PROVE Booked(m)
  <2>1. mails[m] = NoRow /\ sends[m] = 0 /\ delivered[m] = 0 /\ faults = 0 /\ handles = <<>>
    BY DEF Init, InitAt
  <2>2. mails[m].status = "absent" /\ mails[m].attempts = 0
    BY <2>1 DEF NoRow
  <2>3. ~ Arrived(m) /\ ~ Answered(m)
    BY <2>1 DEF Arrived, Answered
  <2> QED  BY <2>1, <2>2, <2>3 DEF Booked
<1> QED  BY <1>1, <1>2 DEF HistoryInv

(* The counters of a well-typed state are numbers. *)
LEMMA CountersAreNumbers ==
  ASSUME TypeOK, NEW m \in MailIds
  PROVE  /\ mails[m].attempts \in Nat /\ sends[m] \in Nat /\ delivered[m] \in Nat
         /\ faults \in Nat
  BY DEF TypeOK, Table, Row

(* A step that changes neither the history of a mail nor how it is booked. *)
LEMMA StaysBooked ==
  ASSUME TypeOK, TypeOK', NEW m \in MailIds, Booked(m),
         faults' >= faults, sends'[m] = sends[m], delivered'[m] = delivered[m],
         mails'[m].attempts = mails[m].attempts,
         mails'[m].status = "sent" <=> mails[m].status = "sent",
         mails'[m].status = "absent" => mails[m].status = "absent",
         Answered(m) => Answered(m)', Arrived(m)' <=> Arrived(m)
  PROVE  Booked(m)'
<1>1. /\ mails[m].attempts \in Nat /\ sends[m] \in Nat /\ delivered[m] \in Nat
      /\ faults \in Nat /\ faults' \in Nat
  BY CountersAreNumbers DEF TypeOK
<1> QED  BY <1>1 DEF Booked

(* Whatever a failure takes out of the books it pays for itself. *)
LEMMA FaultPays ==
  ASSUME TypeOK, TypeOK', NEW m \in MailIds, Booked(m),
         faults' = faults + 1, sends'[m] = sends[m], delivered'[m] = delivered[m],
         mails'[m] = mails[m], Arrived(m)' => Arrived(m)
  PROVE  Booked(m)'
<1>1. /\ mails[m].attempts \in Nat /\ sends[m] \in Nat /\ delivered[m] \in Nat
      /\ faults \in Nat
  BY CountersAreNumbers
<1> QED  BY <1>1 DEF Booked
-----------------------------------------------------------------------------
(* A step of task i leaves the bookings of every other mail alone. *)
LEMMA OtherMails ==
  ASSUME TypeOK, NEW i \in DOMAIN handles, NEW stage \in Stage, SetStage(i, stage),
         NEW m, m # handles[i].mail.id
  PROVE  (Answered(m)' <=> Answered(m)) /\ (Arrived(m)' <=> Arrived(m))
<1>1. /\ DOMAIN handles' = DOMAIN handles
      /\ \A j \in DOMAIN handles :
           /\ handles'[j].mail = handles[j].mail
           /\ j # i => handles'[j].stage = handles[j].stage
  BY SetStageEffect DEF TypeOK
<1> QED  BY <1>1 DEF Answered, Arrived

(* Task i has the only unwritten answer of its mail. *)
LEMMA OnlyTask ==
  ASSUME HistoryInv, NEW i \in DOMAIN handles, Live(i), NEW m, m = handles[i].mail.id
  PROVE  /\ m \in MailIds /\ mails[m].status = "sending"
         /\ mails[m].attempts < MaxAttempts
         /\ mails[m].attempts = handles[i].mail.attempts
         /\ Answered(m) <=> handles[i].stage \in {"ok", "err"}
         /\ Arrived(m) <=> handles[i].stage = "ok"
<1>1. TypeOK /\ TaskInv /\ AttemptsBounded
  BY DEF HistoryInv, ClaimInv
<1>2. handles[i] \in Task
  BY <1>1 DEF TypeOK
<1>3. m \in MailIds
  BY <1>2 DEF Task, Mail
<1>4. /\ mails[m].status = "sending" /\ mails[m].attempts = handles[i].mail.attempts
      /\ \A j \in DOMAIN handles : Live(j) /\ m = handles[j].mail.id => i = j
  BY <1>1 DEF TaskInv
<1>5. mails[m].attempts < MaxAttempts
  BY <1>1, <1>3, <1>4, CountersAreNumbers, DispatcherAssumption DEF AttemptsBounded
<1>6. Answered(m) <=> handles[i].stage \in {"ok", "err"}
  BY <1>4 DEF Answered, Live
<1>7. Arrived(m) <=> handles[i].stage = "ok"
  BY <1>4 DEF Arrived, Live
<1> QED  BY <1>3, <1>4, <1>5, <1>6, <1>7

(* After the step of task i the books of its mail show what it did. *)
LEMMA AfterTask ==
  ASSUME HistoryInv, NEW i \in DOMAIN handles, Live(i),
         NEW stage \in Stage, SetStage(i, stage), NEW m, m = handles[i].mail.id
  PROVE  /\ Answered(m)' <=> stage \in {"ok", "err"}
         /\ Arrived(m)' <=> stage = "ok"
<1>1. TypeOK /\ TaskInv
  BY DEF HistoryInv, ClaimInv
<1>2. /\ DOMAIN handles' = DOMAIN handles
      /\ \A j \in DOMAIN handles :
           /\ handles'[j].mail = handles[j].mail
           /\ handles'[j].stage = IF j = i THEN stage ELSE handles[j].stage
  BY <1>1, SetStageEffect DEF TypeOK
<1>3. \A j \in DOMAIN handles : Live(j) /\ m = handles[j].mail.id => i = j
  BY <1>1 DEF TaskInv
<1>4. Answered(m)' <=> stage \in {"ok", "err"}
  BY <1>2, <1>3 DEF Answered, Live
<1>5. Arrived(m)' <=> stage = "ok"
  BY <1>2, <1>3 DEF Arrived, Live
<1> QED  BY <1>4, <1>5

(* A call of send: an answer that is true stays with the task until it is   *)
(* written; a lie, a panic or a hang is a failure.                          *)
LEMMA SendIsBooked ==
  ASSUME HistoryInv, TypeOK', NEW i \in DOMAIN handles, NEW copies \in {0, 1},
         Sent(i, copies), NEW stage \in Stage, SetStage(i, stage),
         \/ faults' = faults /\ stage = "ok" /\ copies = 1
         \/ faults' = faults /\ stage = "err" /\ copies = 0
         \/ faults' = faults + 1 /\ stage # "ok"
  PROVE  \A m \in MailIds : Booked(m)'
<1>0. PICK mine : mine = handles[i].mail.id
  OBVIOUS
<1>1. TypeOK /\ handles[i].stage = "spawned" /\ Live(i)
  BY DEF HistoryInv, ClaimInv, Sent, Live
<1>2. /\ mine \in MailIds /\ mails[mine].status = "sending"
      /\ ~ Answered(mine) /\ ~ Arrived(mine)
  BY <1>0, <1>1, OnlyTask
<1>3. /\ Answered(mine)' <=> stage \in {"ok", "err"}
      /\ Arrived(mine)' <=> stage = "ok"
  BY <1>0, <1>1, AfterTask
<1>4. /\ mails' = mails
      /\ sends' = [sends EXCEPT ![mine] = @ + 1]
      /\ delivered' = [delivered EXCEPT ![mine] = @ + copies]
  BY <1>0 DEF Sent
<1>5. sends \in [MailIds -> Nat] /\ delivered \in [MailIds -> Nat] /\ faults \in Nat
  BY <1>1 DEF TypeOK
<1>6. ASSUME NEW m \in MailIds, m # mine PROVE Booked(m)'
  <2>1. sends'[m] = sends[m] /\ delivered'[m] = delivered[m]
    BY <1>0, <1>4, <1>5, <1>6
  <2>2. (Answered(m)' <=> Answered(m)) /\ (Arrived(m)' <=> Arrived(m))
    BY <1>0, <1>1, <1>6, OtherMails
  <2>3. Booked(m) /\ faults' >= faults
    BY <1>5 DEF HistoryInv
  <2> QED  BY <1>1, <1>4, <2>1, <2>2, <2>3, StaysBooked
<1>7. Booked(mine)'
  <2>1. sends'[mine] = sends[mine] + 1 /\ delivered'[mine] = delivered[mine] + copies
    BY <1>2, <1>4, <1>5
  <2>2. /\ mails[mine].attempts \in Nat /\ sends[mine] \in Nat /\ delivered[mine] \in Nat
    BY <1>1, <1>2, CountersAreNumbers
  <2>3. Booked(mine)
    BY <1>2 DEF HistoryInv
  <2> QED  BY <1>2, <1>3, <1>4, <1>5, <2>1, <2>2, <2>3 DEF Booked
<1> QED  BY <1>6, <1>7

(* The task writes the outcome and ends: the call moves from the task to    *)
(* the row; a write that fails is paid for.                                 *)
LEMMA WriteIsBooked ==
  ASSUME HistoryInv, TypeOK', NEW i \in DOMAIN handles, Live(i), NEW t, QueueWrite(t),
         Finish(i), UNCHANGED <<sends, delivered>>,
         \A n \in MailIds : n # handles[i].mail.id => t[n] = mails[n],
         LET m == handles[i].mail.id
         IN  \/ /\ t[m].status = "sent" /\ t[m].attempts = mails[m].attempts
                /\ handles[i].stage = "ok"
             \/ /\ t[m].status \in {"dead", "failed"}
                /\ t[m].attempts = mails[m].attempts + 1
                /\ handles[i].stage # "ok"
  PROVE  \A m \in MailIds : Booked(m)'
<1>0. PICK mine : mine = handles[i].mail.id
  OBVIOUS
<1>1. TypeOK /\ SetStage(i, "done") /\ "done" \in Stage
  BY DEF HistoryInv, ClaimInv, Finish, Stage
<1>2. /\ mine \in MailIds /\ mails[mine].status = "sending"
      /\ Answered(mine) <=> handles[i].stage \in {"ok", "err"}
      /\ Arrived(mine) <=> handles[i].stage = "ok"
  BY <1>0, OnlyTask
<1>3. ~ Answered(mine)' /\ ~ Arrived(mine)'
  BY <1>0, <1>1, AfterTask
<1>4. sends' = sends /\ delivered' = delivered /\ faults \in Nat
  BY <1>1 DEF TypeOK
<1>5. \/ mails' = t /\ faults' = faults
      \/ mails' = mails /\ faults' = faults + 1
  BY DEF QueueWrite, Fault
<1>6. ASSUME NEW m \in MailIds, m # mine PROVE Booked(m)'
  <2>1. mails'[m] = mails[m] /\ faults' >= faults
    BY <1>0, <1>4, <1>5, <1>6
  <2>2. (Answered(m)' <=> Answered(m)) /\ (Arrived(m)' <=> Arrived(m))
    BY <1>0, <1>1, <1>6, OtherMails
  <2>3. Booked(m)
    BY DEF HistoryInv
  <2> QED  BY <1>1, <1>4, <2>1, <2>2, <2>3, StaysBooked
<1>7. Booked(mine)'
  <2>1. Booked(mine)
    BY <1>2 DEF HistoryInv
  <2>2. CASE mails' = mails /\ faults' = faults + 1
    BY <1>1, <1>2, <1>3, <1>4, <2>1, <2>2, FaultPays
  <2>3. CASE mails' = t /\ faults' = faults
    <3>1. /\ mails[mine].attempts \in Nat /\ sends[mine] \in Nat /\ delivered[mine] \in Nat
      BY <1>1, <1>2, CountersAreNumbers
    <3>2. CASE /\ t[mine].status = "sent" /\ t[mine].attempts = mails[mine].attempts
               /\ handles[i].stage = "ok"
      BY <1>2, <1>3, <1>4, <2>1, <2>3, <3>1, <3>2 DEF Booked
    <3>3. CASE /\ t[mine].status \in {"dead", "failed"}
               /\ t[mine].attempts = mails[mine].attempts + 1
               /\ handles[i].stage # "ok"
      BY <1>2, <1>3, <1>4, <2>1, <2>3, <3>1, <3>3 DEF Booked
    <3> QED  BY <1>0, <3>2, <3>3
  <2> QED  BY <1>5, <2>2, <2>3
<1> QED  BY <1>6, <1>7
-----------------------------------------------------------------------------
(* What the loop does to the rows: counters and settled rows stay, and what *)
(* is to be delivered is still to be delivered.                             *)
RowsCalm ==
  \A m \in MailIds :
    \/ mails'[m] = mails[m]
    \/ /\ mails'[m].attempts = mails[m].attempts
       /\ mails[m].status \notin {"absent", "sent", "dead"}
       /\ mails'[m].status \notin {"absent", "sent", "dead"}

Quiet ==
  \/ PassTime \/ SetClockBack \/ Shutdown \/ Exit \/ Crash \/ (\E c \in Configs : Start(c))
  \/ Loop \/ UNCHANGED vars

(* The INSERT adds one row. *)
LEMMA SubmitEffect ==
  ASSUME ClaimInv, NEW n \in MailIds, Submit(n)
  PROVE  /\ \A m \in MailIds : m # n => mails'[m] = mails[m]
         /\ mails[n].status = "absent"
         /\ mails'[n].attempts = 0 /\ mails'[n].status = "pending"
         /\ UNCHANGED <<sends, delivered, handles, faults>>
<1>0. mails \in Table /\ clock \in Nat
  BY DEF ClaimInv, TypeOK
<1>1. PICK tr \in MaybeTransport : mails' = enqueue(mails, n, tr, clock)
  BY DEF Submit
<1>2. LET t == enqueue(mails, n, tr, clock)
      IN  /\ t[n].attempts = 0 /\ t[n].status = "pending"
          /\ \A m \in MailIds : m # n => t[m] = mails[m]
  BY ONLY <1>0, n \in MailIds, tr \in MaybeTransport, EnqueueEffect, Zenon
<1> QED  BY <1>1, <1>2 DEF Submit, ghostVars

(* Every step but an INSERT and those of the tasks is calm. *)
LEMMA LoopIsCalm ==
  ASSUME ClaimInv, Quiet
  PROVE  RowsCalm /\ UNCHANGED <<sends, delivered>>
<1> USE DispatcherAssumption
<1>0. mails \in Table /\ clock \in Nat /\ batch \in Seq(Mail) /\ clock - Lease \in Int
  BY DEF ClaimInv, TypeOK
<1>1. CASE UNCHANGED <<mails, sends, delivered>>
  BY <1>1 DEF RowsCalm
<1>3. ASSUME NEW u, QueueWrite(u), UNCHANGED ghostVars,
             \A m \in MailIds :
               /\ u[m].attempts = mails[m].attempts
               /\ u[m] = mails[m] \/ (mails[m].status = "sending" /\ u[m].status = "pending")
      PROVE  RowsCalm /\ UNCHANGED <<sends, delivered>>
  <2>1. mails' = u \/ mails' = mails
    BY <1>3 DEF QueueWrite
  <2> QED  BY <1>3, <2>1 DEF RowsCalm, ghostVars
<1>4. CASE Recover
  <2> DEFINE u == requeue_sending(mails, clock)
  <2>1. \A m \in MailIds :
          /\ u[m].attempts = mails[m].attempts
          /\ u[m] = mails[m] \/ (mails[m].status = "sending" /\ u[m].status = "pending")
    BY <1>0, RecoverEffect
  <2>2. QueueWrite(u) /\ UNCHANGED ghostVars
    BY <1>4 DEF Recover
  <2> HIDE DEF u
  <2> QED  BY <1>3, <2>1, <2>2
<1>5. CASE TickStart
  <2> DEFINE older == clock - Lease
             u == requeue_stale_sending(mails, older, clock)
  <2>1. older \in Int
    BY <1>0
  <2>2. QueueWrite(u) /\ UNCHANGED ghostVars
    BY <1>5 DEF TickStart
  <2> HIDE DEF older
  <2>3. ASSUME NEW m \in MailIds PROVE u[m].attempts = mails[m].attempts
    BY <1>0, <2>1, ReclaimEffect
  <2>4. ASSUME NEW m \in MailIds
        PROVE  u[m] = mails[m] \/ (mails[m].status = "sending" /\ u[m].status = "pending")
    BY <1>0, <2>1, ReclaimEffect
  <2> HIDE DEF u
  <2> QED  BY <1>3, <2>2, <2>3, <2>4
<1>6. CASE Claim
  <2>1. PICK n : n = batch[1].id
    OBVIOUS
  <2>2. /\ 1 \in DOMAIN batch /\ batch[1] \in Mail /\ pc = "claim"
        /\ mails' = mark_sending(mails, n, clock) /\ UNCHANGED <<sends, delivered>>
    BY <1>0, <1>6, <2>1 DEF Claim, ghostVars
  <2>3. mails[n].status \in {"pending", "failed"}
    BY <2>1, <2>2 DEF ClaimInv, BatchInv, Unclaimed
  <2>4. n \in MailIds
    BY <2>1, <2>2 DEF Mail
  <2>5. LET t == mark_sending(mails, n, clock)
        IN  /\ t[n].attempts = mails[n].attempts /\ t[n].status = "sending"
            /\ \A m \in MailIds : m # n => t[m] = mails[m]
    BY ONLY <1>0, <2>4, MarkSendingEffect, Zenon
  <2> QED  BY <2>2, <2>3, <2>5 DEF RowsCalm
<1>7. CASE PassTime \/ SetClockBack \/ Shutdown \/ Exit \/ Crash \/ FetchDue \/ FetchFails
           \/ ClaimFails \/ Spawn \/ Join \/ (\E c \in Configs : Start(c))
  BY <1>1, <1>7 DEF PassTime, SetClockBack, Shutdown, Exit, Crash, FetchDue, FetchFails,
                    ClaimFails, Spawn, Join, Start, ghostVars
<1>8. CASE UNCHANGED vars
  BY <1>1, <1>8 DEF vars
<1> QED  BY <1>4, <1>5, <1>6, <1>7, <1>8 DEF Quiet, Loop

(* No step but those of the tasks takes an answer from a task, unless the   *)
(* process dies.                                                            *)
LEMMA AnswersStay ==
  ASSUME ClaimInv, Quiet
  PROVE  \/ /\ faults' >= faults
            /\ \A m : (Answered(m)' <=> Answered(m)) /\ (Arrived(m)' <=> Arrived(m))
         \/ /\ faults' = faults + 1 /\ mails' = mails
            /\ \A m : ~ Arrived(m)'
<1>0. faults \in Nat /\ handles \in Seq(Task) /\ LoopShape
  BY DEF ClaimInv, TypeOK
<1>1. ASSUME handles' = handles, faults' \in {faults, faults + 1}
      PROVE  /\ faults' >= faults
             /\ \A m : (Answered(m)' <=> Answered(m)) /\ (Arrived(m)' <=> Arrived(m))
  BY <1>0, <1>1 DEF Answered, Arrived
<1>2. CASE Crash
  BY <1>2 DEF Crash, Fault, Arrived
<1>3. CASE Spawn
  <2>1. /\ faults' = faults
        /\ \E x : handles' = Append(handles, x) /\ x \in Task /\ x.stage = "spawned"
    <3>1. Head(batch) \in Mail
      BY <1>3 DEF Spawn, ClaimInv, LoopShape, TypeOK
    <3>2. [mail |-> Head(batch), stage |-> "spawned"] \in Task
      BY <3>1 DEF Task, Stage
    <3> QED  BY <1>3, <3>2 DEF Spawn
  <2>2. /\ \A i \in DOMAIN handles : i \in DOMAIN handles' /\ handles'[i] = handles[i]
        /\ \A i \in DOMAIN handles' \ DOMAIN handles : handles'[i].stage = "spawned"
    BY <1>0, <2>1
  <2> QED  BY <1>0, <2>1, <2>2 DEF Answered, Arrived
<1>4. CASE Join
  BY <1>0, <1>4 DEF Join, Answered, Arrived, Live
<1>5. CASE PassTime \/ SetClockBack \/ Shutdown \/ Exit \/ FetchDue \/ FetchFails \/ Claim
           \/ ClaimFails \/ Recover \/ TickStart \/ (\E c \in Configs : Start(c))
           \/ UNCHANGED vars
  <2>1. handles' = handles /\ faults' \in {faults, faults + 1}
    BY <1>5 DEF PassTime, SetClockBack, Shutdown, Exit, FetchDue, FetchFails, Claim, ClaimFails,
                Recover, TickStart, Start, QueueWrite, Fault, vars
  <2> QED  BY <1>1, <2>1
<1> QED  BY <1>2, <1>3, <1>4, <1>5 DEF Quiet, Loop

(* Every step keeps the books. *)
LEMMA HistoryNext == HistoryInv /\ [Next]_vars => HistoryInv'
<1> SUFFICES ASSUME HistoryInv, [Next]_vars PROVE HistoryInv'
  OBVIOUS
<1>0. ClaimInv /\ TypeOK /\ \A m \in MailIds : Booked(m)
  BY DEF HistoryInv, ClaimInv
<1>1. ClaimInv' /\ TypeOK'
  BY <1>0, ClaimNext DEF ClaimInv
<1> SUFFICES \A m \in MailIds : Booked(m)'
  BY <1>1 DEF HistoryInv
<1>2. CASE Quiet
  <2>1. RowsCalm /\ UNCHANGED <<sends, delivered>>
    BY <1>0, <1>2, LoopIsCalm
  <2> SUFFICES ASSUME NEW m \in MailIds PROVE Booked(m)'
    OBVIOUS
  <2>2. /\ mails[m].attempts \in Nat /\ sends[m] \in Nat /\ delivered[m] \in Nat
        /\ faults \in Nat
    BY <1>0, CountersAreNumbers
  <2>3. /\ mails'[m].attempts = mails[m].attempts
        /\ mails'[m].status = "sent" <=> mails[m].status = "sent"
        /\ mails'[m].status = "absent" => mails[m].status = "absent"
    BY <1>0, <2>1 DEF RowsCalm, Booked
  <2>4. CASE /\ faults' >= faults
             /\ (Answered(m)' <=> Answered(m)) /\ (Arrived(m)' <=> Arrived(m))
    BY <1>0, <1>1, <2>1, <2>3, <2>4, StaysBooked
  <2>5. CASE faults' = faults + 1 /\ mails' = mails /\ ~ Arrived(m)'
    BY <1>0, <1>1, <2>1, <2>5, FaultPays
  <2> QED  BY <1>0, <1>2, <2>4, <2>5, AnswersStay
<1>3. ASSUME NEW i \in DOMAIN handles, Deliver(i) PROVE \A m \in MailIds : Booked(m)'
  <2> USE DEF Stage
  <2>1. faults \in Nat
    BY <1>0 DEF TypeOK
  <2>2. CASE SendOk(i)
    BY <1>1, <2>2, SendIsBooked DEF SendOk
  <2>3. CASE SendErr(i)
    BY <1>1, <2>3, SendIsBooked DEF SendErr
  <2>4. CASE SendAnswerLost(i)
    BY <1>1, <2>4, SendIsBooked DEF SendAnswerLost, Fault
  <2>5. CASE SendPanics(i)
    BY <1>1, <2>5, SendIsBooked DEF SendPanics, Fault, Finish
  <2>6. CASE SendHangs(i)
    BY <1>1, <2>6, SendIsBooked DEF SendHangs, Fault
  <2>7. PICK m : m = handles[i].mail.id
    OBVIOUS
  <2>8. mails \in Table /\ clock \in Nat /\ m \in MailIds /\ handles[i].mail.attempts \in Nat
    <3>1. handles[i] \in Task
      BY <1>0 DEF TypeOK
    <3> QED  BY <1>0, <2>7, <3>1 DEF TypeOK, Task, Mail
  <2>9. CASE BuryUnroutable(i)
    <3> DEFINE t == mark_dead(mails, m, clock)
    <3>1. /\ \A n \in MailIds : n # m => t[n] = mails[n]
          /\ t[m].status = "dead" /\ t[m].attempts = mails[m].attempts + 1
      BY ONLY <2>8, MarkDeadEffect, Zenon
    <3>2. /\ QueueWrite(t) /\ Finish(i) /\ handles[i].stage = "spawned"
          /\ Live(i) /\ UNCHANGED <<sends, delivered>>
      BY <2>7, <2>9 DEF BuryUnroutable, Live, ghostVars
    <3> HIDE DEF t
    <3> QED  BY <1>1, <2>7, <3>1, <3>2, WriteIsBooked
  <2>10. CASE RecordSent(i)
    <3> DEFINE t == mark_sent(mails, m, clock)
    <3>1. /\ \A n \in MailIds : n # m => t[n] = mails[n]
          /\ t[m].status = "sent" /\ t[m].attempts = mails[m].attempts
      BY ONLY <2>8, MarkSentEffect, Zenon
    <3>2. /\ QueueWrite(t) /\ Finish(i) /\ handles[i].stage = "ok"
          /\ Live(i) /\ UNCHANGED <<sends, delivered>>
      BY <2>7, <2>10 DEF RecordSent, Live, ghostVars
    <3> HIDE DEF t
    <3> QED  BY <1>1, <2>7, <3>1, <3>2, WriteIsBooked
  <2>11. CASE RecordFailure(i)
    <3> DEFINE a == handles[i].mail.attempts + 1
               r == clock + Backoff[a]
               t == IF is_exhausted(a) THEN mark_dead(mails, m, clock)
                                       ELSE mark_failed(mails, m, r, clock)
    <3>1. /\ QueueWrite(t) /\ Finish(i) /\ handles[i].stage = "err"
          /\ Live(i) /\ UNCHANGED <<sends, delivered>>
      BY <2>7, <2>11 DEF RecordFailure, Live
    <3>2. ~ is_exhausted(a) => r \in Nat
      BY <2>8, DispatcherAssumption DEF is_exhausted
    <3> HIDE DEF a, r
    <3>3. /\ \A n \in MailIds : n # m => t[n] = mails[n]
          /\ t[m].status \in {"dead", "failed"} /\ t[m].attempts = mails[m].attempts + 1
      <4>1. CASE is_exhausted(a)
        <5>1. t = mark_dead(mails, m, clock)
          BY <4>1
        <5>2. LET u == mark_dead(mails, m, clock)
              IN  /\ \A n \in MailIds : n # m => u[n] = mails[n]
                  /\ u[m].status = "dead" /\ u[m].attempts = mails[m].attempts + 1
          BY ONLY <2>8, MarkDeadEffect, Zenon
        <5> HIDE DEF t
        <5> QED  BY <5>1, <5>2
      <4>2. CASE ~ is_exhausted(a)
        <5>1. t = mark_failed(mails, m, r, clock) /\ r \in Nat
          BY <3>2, <4>2
        <5>2. r \in Nat
          BY <5>1
        <5> DEFINE u == mark_failed(mails, m, r, clock)
        <5>3. \A n \in MailIds : n # m => u[n] = mails[n]
          BY <2>8, <5>2, MarkFailedEffect
        <5>4. u[m].status = "failed"
          BY <2>8, <5>2, MarkFailedEffect
        <5>5. u[m].attempts = mails[m].attempts + 1
          BY <2>8, <5>2, MarkFailedEffect
        <5> HIDE DEF t
        <5> QED  BY <5>1, <5>3, <5>4, <5>5
      <4> QED  BY <4>1, <4>2
    <3> HIDE DEF t
    <3> QED  BY <1>1, <2>7, <3>1, <3>3, WriteIsBooked
  <2> QED  BY <1>3, <2>2, <2>3, <2>4, <2>5, <2>6, <2>9, <2>10, <2>11 DEF Deliver
<1>4. ASSUME NEW n \in MailIds, Submit(n) PROVE \A m \in MailIds : Booked(m)'
  <2>1. /\ \A m \in MailIds : m # n => mails'[m] = mails[m]
        /\ mails[n].status = "absent"
        /\ mails'[n].attempts = 0 /\ mails'[n].status = "pending"
        /\ UNCHANGED <<sends, delivered, handles, faults>>
    BY <1>0, <1>4, SubmitEffect
  <2> SUFFICES ASSUME NEW m \in MailIds PROVE Booked(m)'
    OBVIOUS
  <2>2. (Answered(m)' <=> Answered(m)) /\ (Arrived(m)' <=> Arrived(m)) /\ faults' >= faults
    BY <1>0, <2>1 DEF Answered, Arrived, TypeOK
  <2>3. /\ mails'[m].attempts = mails[m].attempts
        /\ mails'[m].status = "sent" <=> mails[m].status = "sent"
        /\ mails'[m].status = "absent" => mails[m].status = "absent"
    BY <1>0, <2>1 DEF Booked
  <2> QED  BY <1>0, <1>1, <2>1, <2>2, <2>3, StaysBooked
<1> QED  BY <1>2, <1>3, <1>4 DEF Next, Environment, Quiet

(* The books are right in every reachable state. *)
LEMMA HistoryInvariant == Spec => []HistoryInv
<1>1. Init => HistoryInv
  BY HistoryInit
<1>2. HistoryInv /\ [Next]_vars => HistoryInv'
  BY HistoryNext
<1> QED  BY <1>1, <1>2, PTL DEF Spec
-----------------------------------------------------------------------------
(* What the books say of the three counters, for any state. *)
LEMMA HistoryBounds ==
  ASSUME HistoryInv
  PROVE  SentMeansDelivered /\ SendsBounded /\ DuplicatesNeedFaults
<1> SUFFICES ASSUME NEW m \in MailIds
             PROVE  /\ mails[m].status = "sent" => delivered[m] >= 1
                    /\ sends[m] <= MaxAttempts + faults
                    /\ delivered[m] <= 1 + faults
  BY DEF SentMeansDelivered, SendsBounded, DuplicatesNeedFaults
<1>1. Booked(m) /\ TypeOK /\ AttemptsBounded /\ TaskInv
  BY DEF HistoryInv, ClaimInv
<1>2. /\ mails[m].attempts \in Nat /\ sends[m] \in Nat /\ delivered[m] \in Nat
      /\ faults \in Nat /\ MaxAttempts \in Nat
  BY <1>1, CountersAreNumbers, DispatcherAssumption
<1>3. mails[m].status = "sent" \/ Answered(m) => mails[m].attempts < MaxAttempts
  <2>1. Answered(m) => mails[m].status = "sending"
    BY <1>1 DEF Answered, TaskInv, Live
  <2> QED  BY <1>1, <1>2, <2>1 DEF AttemptsBounded
<1>4. mails[m].attempts <= MaxAttempts
  BY <1>1 DEF AttemptsBounded
<1> QED  BY <1>1, <1>2, <1>3, <1>4 DEF Booked

(* A mail is called sent only after a copy of it has arrived. *)
THEOREM SentIsDelivered == Spec => []SentMeansDelivered
<1>1. HistoryInv => SentMeansDelivered
  BY HistoryBounds
<1> QED  BY <1>1, HistoryInvariant, PTL

(* Crashes, lost answers and failed writes cost one call of send each, and  *)
(* nothing else goes beyond max_attempts.                                   *)
THEOREM SendsAreBounded == Spec => []SendsBounded
<1>1. HistoryInv => SendsBounded
  BY HistoryBounds
<1> QED  BY <1>1, HistoryInvariant, PTL

(* Without a failure no mail arrives twice. *)
THEOREM DuplicatesArePaidFor == Spec => []DuplicatesNeedFaults
<1>1. HistoryInv => DuplicatesNeedFaults
  BY HistoryBounds
<1> QED  BY <1>1, HistoryInvariant, PTL
-----------------------------------------------------------------------------
(***************************************************************************)
(* The semaphore.  Every tick makes one of its own, so that its count      *)
(* starts right; what has to be shown is that no way out of a task keeps   *)
(* a permit: neither an error, nor a panic, nor a failing write.           *)
(***************************************************************************)
LiveTasks == {i \in DOMAIN handles : Live(i)}

(* The tasks of a tick are finitely many, and are counted by a number. *)
LEMMA LiveTasksFinite ==
  ASSUME handles \in Seq(Task)
  PROVE  IsFiniteSet(LiveTasks) /\ Cardinality(LiveTasks) \in Nat
<1>1. Len(handles) \in Nat /\ LiveTasks \in SUBSET (1..Len(handles))
  BY DEF LiveTasks
<1>2. IsFiniteSet(1..Len(handles))
  BY <1>1, FS_Interval
<1>3. IsFiniteSet(LiveTasks)
  BY <1>1, <1>2, FS_Subset
<1> QED  BY <1>3, FS_CardinalityType

(* A task that ends gives its permit back; one that goes on keeps it. *)
LEMMA TaskReturnsPermit ==
  ASSUME TypeOK, NEW i \in DOMAIN handles, Live(i), NEW stage \in Stage,
         SetStage(i, stage),
         permits' = IF stage = "done" THEN permits + 1 ELSE permits
  PROVE  permits' + Cardinality(LiveTasks') = permits + Cardinality(LiveTasks)
<1>1. /\ DOMAIN handles' = DOMAIN handles
      /\ \A j \in DOMAIN handles :
           handles'[j].stage = IF j = i THEN stage ELSE handles[j].stage
  BY SetStageEffect DEF TypeOK
<1>2. IsFiniteSet(LiveTasks) /\ Cardinality(LiveTasks) \in Nat
  BY LiveTasksFinite DEF TypeOK
<1>3. permits \in Nat /\ i \in LiveTasks
  BY DEF TypeOK, LiveTasks
<1>4. CASE stage = "done"
  <2>1. LiveTasks' = LiveTasks \ {i}
    BY <1>1, <1>4 DEF LiveTasks, Live
  <2>2. Cardinality(LiveTasks') = Cardinality(LiveTasks) - 1
    BY <1>2, <1>3, <2>1, FS_RemoveElement
  <2> QED  BY <1>2, <1>3, <1>4, <2>2
<1>5. CASE stage # "done"
  <2>1. LiveTasks' = LiveTasks
    BY <1>1, <1>5 DEF LiveTasks, Live
  <2> QED  BY <1>5, <2>1
<1> QED  BY <1>4, <1>5

(* Every step keeps the account of the permits. *)
LEMMA PermitNext ==
  ASSUME ClaimInv, PermitAccounting, [Next]_vars
  PROVE  PermitAccounting'
<1>0. /\ TypeOK /\ LoopShape /\ handles \in Seq(Task) /\ permits \in Nat
      /\ InTick => permits + Cardinality(LiveTasks) = Concurrency
  BY DEF ClaimInv, TypeOK, PermitAccounting, LiveTasks
<1> SUFFICES ASSUME InTick' PROVE permits' + Cardinality(LiveTasks') = Concurrency
  BY DEF PermitAccounting, LiveTasks, Live
<1>1. CASE UNCHANGED <<handles, permits>> /\ InTick
  BY <1>0, <1>1 DEF LiveTasks, Live
<1>2. CASE PassTime \/ SetClockBack \/ Claim \/ ClaimFails \/ UNCHANGED vars
           \/ (\E m \in MailIds : Submit(m))
  BY <1>1, <1>2 DEF PassTime, SetClockBack, Claim, ClaimFails, vars, Submit, InTick
<1>3. CASE Shutdown \/ Exit \/ Crash \/ (\E c \in Configs : Start(c)) \/ Recover \/ TickStart
           \/ FetchFails \/ Join
  BY <1>3 DEF Shutdown, Exit, Crash, Start, Recover, TickStart, FetchFails, Join, InTick
<1>4. CASE FetchDue
  <2>1. permits' = Concurrency
    BY <1>4 DEF FetchDue, InTick
  <2>2. handles' = <<>>
    BY <1>0, <1>4 DEF FetchDue, LoopShape
  <2>3. LiveTasks' = {}
    BY <2>2 DEF LiveTasks
  <2> QED  BY <2>1, <2>3, FS_EmptySet, DispatcherAssumption
<1>5. CASE Spawn
  <2> DEFINE n == Len(handles) + 1
  <2>1. /\ DOMAIN handles' = DOMAIN handles \cup {n}
        /\ n \notin DOMAIN handles
        /\ \A i \in DOMAIN handles : handles'[i] = handles[i]
        /\ handles'[n].stage = "spawned"
    BY <1>0, <1>5 DEF Spawn
  <2>2. permits' = permits - 1 /\ InTick
    BY <1>5 DEF Spawn, InTick
  <2> HIDE DEF n
  <2>3. LiveTasks' = LiveTasks \cup {n} /\ n \notin LiveTasks
    BY <2>1 DEF LiveTasks, Live
  <2>4. IsFiniteSet(LiveTasks) /\ Cardinality(LiveTasks) \in Nat
    BY <1>0, LiveTasksFinite
  <2>5. Cardinality(LiveTasks') = Cardinality(LiveTasks) + 1
    BY <2>3, <2>4, FS_AddElement
  <2> QED  BY <1>0, <2>2, <2>4, <2>5
<1>6. ASSUME NEW i \in DOMAIN handles, Deliver(i)
      PROVE  permits' + Cardinality(LiveTasks') = Concurrency
  <2>1. InTick
    BY <1>6, <1>0, DeliverIsTaskStep DEF TaskStep, InTick
  <2>2. Live(i) /\ \E stage \in Stage :
          /\ SetStage(i, stage)
          /\ permits' = IF stage = "done" THEN permits + 1 ELSE permits
    BY <1>6 DEF Deliver, BuryUnroutable, SendOk, SendErr, SendAnswerLost, SendPanics,
                SendHangs, RecordSent, RecordFailure, Sent, Finish, Live, Stage
  <2> QED  BY <1>0, <2>1, <2>2, TaskReturnsPermit
<1> QED  BY <1>2, <1>3, <1>4, <1>5, <1>6 DEF Next, Environment, Loop

(* No permit is lost and no more than `concurrency` deliveries run. *)
THEOREM PermitsAreAccounted == Spec => []PermitAccounting
<1>1. Init => PermitAccounting
  BY DEF Init, InitAt, PermitAccounting, InTick
<1>2. ClaimInv /\ PermitAccounting /\ [Next]_vars => PermitAccounting'
  BY PermitNext
<1> QED  BY <1>1, <1>2, ClaimInvariant, PTL DEF Spec
-----------------------------------------------------------------------------
(***************************************************************************)
(* The contract.  A step of the loop, of a recovery or of a reclaim moves  *)
(* rows between states that are all "queued" in the contract, an INSERT    *)
(* accepts, and every step of a task is one step of the contract or none.  *)
(***************************************************************************)
Seen(row) == CASE row.status = "absent" -> "new"
               [] row.status \in {"sent", "dead"} -> row.status
               [] OTHER -> "queued"

(* A row is new, sent or dead in the contract if it is so in the table. *)
LEMMA SeenCases ==
  ASSUME NEW row
  PROVE  /\ row.status = "absent" => Seen(row) = "new"
         /\ row.status = "sent" => Seen(row) = "sent"
         /\ row.status = "dead" => Seen(row) = "dead"
         /\ row.status \notin {"absent", "sent", "dead"} => Seen(row) = "queued"
  BY DEF Seen

(* The variables of the contract, as functions of the dispatcher's. *)
LEMMA ContractIs ==
  /\ ContractState = [m \in MailIds |-> Seen(mails[m])]
  /\ ContractState' = [m \in MailIds |-> Seen(mails'[m])]
  BY DEF ContractState, Seen

Tries == [m \in MailIds |-> mails[m].attempts]

(* A step that changes one row only. *)
LEMMA OneRow ==
  ASSUME NEW m \in MailIds, \A n \in MailIds : n # m => mails'[n] = mails[n]
  PROVE  /\ ContractState' = [ContractState EXCEPT ![m] = Seen(mails'[m])]
         /\ ContractState[m] = Seen(mails[m])
         /\ Tries' = [Tries EXCEPT ![m] = mails'[m].attempts]
         /\ Tries[m] = mails[m].attempts
<1>1. ContractState' = [ContractState EXCEPT ![m] = Seen(mails'[m])]
  BY ContractIs, Zenon
<1>2. Tries' = [Tries EXCEPT ![m] = mails'[m].attempts]
  BY Zenon DEF Tries
<1>3. ContractState[m] = Seen(mails[m]) /\ Tries[m] = mails[m].attempts
  BY ContractIs DEF Tries
<1> QED  BY <1>1, <1>2, <1>3

(* A step that the contract does not see. *)
LEMMA ContractStutters ==
  ASSUME delivered' = delivered,
         \A m \in MailIds : /\ Seen(mails'[m]) = Seen(mails[m])
                            /\ mails'[m].attempts = mails[m].attempts
  PROVE  UNCHANGED Promise!contractVars
<1>1. ContractState' = ContractState
  BY ContractIs, Zenon
<1>2. Tries' = Tries
  BY Zenon DEF Tries
<1> QED  BY <1>1, <1>2 DEF Promise!contractVars, Tries

(* An INSERT accepts. *)
LEMMA SubmitAccepts ==
  ASSUME HistoryInv, NEW m \in MailIds, Submit(m)
  PROVE  Promise!Accept(m)
<1>1. /\ \A n \in MailIds : n # m => mails'[n] = mails[n]
      /\ mails[m].status = "absent"
      /\ mails'[m].attempts = 0 /\ mails'[m].status = "pending"
      /\ delivered' = delivered
  BY SubmitEffect DEF HistoryInv
<1>2. mails[m].attempts = 0
  BY <1>1 DEF HistoryInv, Booked
<1>3. Seen(mails[m]) = "new" /\ Seen(mails'[m]) = "queued"
  BY <1>1, SeenCases
<1>4. /\ ContractState' = [ContractState EXCEPT ![m] = "queued"] /\ ContractState[m] = "new"
      /\ Tries' = [Tries EXCEPT ![m] = Tries[m]]
  BY <1>1, <1>2, <1>3, OneRow
<1>5. Tries' = Tries
  BY <1>4 DEF Tries
<1> QED  BY <1>1, <1>4, <1>5 DEF Promise!Accept, Tries

(* A call of send hands a copy over, or none. *)
LEMMA SendHandsOver ==
  ASSUME HistoryInv, NEW i \in DOMAIN handles, NEW copies \in {0, 1}, Sent(i, copies)
  PROVE  Promise!ContractNext \/ UNCHANGED Promise!contractVars
<1>0. PICK m : m = handles[i].mail.id
  OBVIOUS
<1>1. m \in MailIds /\ mails[m].status = "sending"
  BY <1>0, OnlyTask DEF Sent, Live
<1>2. mails' = mails /\ delivered' = [delivered EXCEPT ![m] = @ + copies]
  BY <1>0 DEF Sent
<1>3. delivered \in [MailIds -> Nat]
  BY DEF HistoryInv, ClaimInv, TypeOK
<1>4. CASE copies = 0
  <2>1. delivered' = delivered
    BY <1>1, <1>2, <1>3, <1>4
  <2> QED  BY <1>2, <2>1, ContractStutters
<1>5. CASE copies = 1
  <2>1. ContractState[m] = "queued"
    BY <1>1, SeenCases, ContractIs
  <2>2. ContractState' = ContractState /\ Tries' = Tries
    BY <1>2, ContractIs DEF Tries
  <2>3. Promise!HandOver(m)
    BY <1>2, <1>5, <2>1, <2>2 DEF Promise!HandOver, Tries
  <2> QED  BY <1>1, <2>3 DEF Promise!ContractNext
<1> QED  BY <1>4, <1>5

(* A task that writes an outcome confirms, counts a failure or buries. *)
LEMMA WriteSettles ==
  ASSUME HistoryInv, NEW i \in DOMAIN handles, TaskStep(i), delivered' = delivered
  PROVE  Promise!ContractNext \/ UNCHANGED Promise!contractVars
<1>0. PICK m : m = handles[i].mail.id
  OBVIOUS
<1>1. /\ m \in MailIds /\ mails[m].status = "sending"
      /\ mails[m].attempts < MaxAttempts /\ mails[m].attempts = handles[i].mail.attempts
      /\ Arrived(m) <=> handles[i].stage = "ok"
  BY <1>0, OnlyTask DEF TaskStep
<1>2. \A n \in MailIds : n # m => mails'[n] = mails[n]
  BY <1>0 DEF TaskStep
<1>3. /\ ContractState' = [ContractState EXCEPT ![m] = Seen(mails'[m])]
      /\ ContractState[m] = "queued"
      /\ Tries' = [Tries EXCEPT ![m] = mails'[m].attempts]
      /\ Tries[m] = mails[m].attempts
  BY <1>1, <1>2, OneRow, SeenCases
<1>4. delivered[m] \in Nat /\ mails[m].attempts \in Nat /\ Booked(m)
  BY <1>1, CountersAreNumbers DEF HistoryInv, ClaimInv
<1>5. CASE mails'[m] = mails[m]
  <2>1. \A n \in MailIds : mails'[n] = mails[n]
    BY <1>2, <1>5
  <2> QED  BY <2>1, ContractStutters
<1>6. CASE /\ mails'[m].status = "sent" /\ mails'[m].attempts = mails[m].attempts
           /\ handles[i].stage = "ok"
  <2>1. ContractState' = [ContractState EXCEPT ![m] = "sent"]
    BY <1>3, <1>6, SeenCases
  <2>2. Tries' = Tries
    BY <1>3, <1>6 DEF Tries
  <2>3. delivered[m] > 0
    BY <1>1, <1>4, <1>6 DEF Booked
  <2>4. Promise!Confirm(m)
    BY <1>3, <2>1, <2>2, <2>3 DEF Promise!Confirm, Tries
  <2> QED  BY <1>1, <2>4 DEF Promise!ContractNext
<1>7. CASE mails'[m].status = "dead" /\ mails'[m].attempts = mails[m].attempts + 1
  <2>1. ContractState' = [ContractState EXCEPT ![m] = "dead"]
    BY <1>3, <1>7, SeenCases
  <2>2. Tries' = [Tries EXCEPT ![m] = @ + 1] /\ Tries[m] < MaxAttempts
    BY <1>1, <1>3, <1>7
  <2>3. Promise!Bury(m)
    BY <1>3, <2>1, <2>2 DEF Promise!Bury, Tries
  <2> QED  BY <1>1, <2>3 DEF Promise!ContractNext
<1>8. CASE /\ mails'[m].status = "failed" /\ mails'[m].attempts = mails[m].attempts + 1
           /\ handles[i].mail.attempts + 1 < MaxAttempts
  <2>1. ContractState' = [ContractState EXCEPT ![m] = ContractState[m]]
    BY <1>3, <1>8, SeenCases
  <2>2. ContractState' = ContractState
    BY <2>1, ContractIs
  <2>3. Tries' = [Tries EXCEPT ![m] = @ + 1] /\ Tries[m] + 1 < MaxAttempts
    BY <1>1, <1>3, <1>8
  <2>4. Promise!Fail(m)
    BY <1>3, <2>2, <2>3 DEF Promise!Fail, Tries
  <2> QED  BY <1>1, <2>4 DEF Promise!ContractNext
<1> QED  BY <1>0, <1>5, <1>6, <1>7, <1>8 DEF TaskStep

(* Every step of the dispatcher is one of the contract or none. *)
LEMMA StepIsContracted ==
  ASSUME HistoryInv, [Next]_vars
  PROVE  Promise!ContractNext \/ UNCHANGED Promise!contractVars
<1>1. CASE Quiet
  <2>1. RowsCalm /\ delivered' = delivered
    BY <1>1, LoopIsCalm DEF HistoryInv
  <2>2. ASSUME NEW m \in MailIds
        PROVE  Seen(mails'[m]) = Seen(mails[m]) /\ mails'[m].attempts = mails[m].attempts
    BY <2>1, SeenCases DEF RowsCalm
  <2> QED  BY <2>1, <2>2, ContractStutters
<1>2. ASSUME NEW m \in MailIds, Submit(m) PROVE Promise!ContractNext
  BY <1>2, SubmitAccepts DEF Promise!ContractNext
<1>3. ASSUME NEW i \in DOMAIN handles, Deliver(i)
      PROVE  Promise!ContractNext \/ UNCHANGED Promise!contractVars
  <2>1. TaskStep(i)
    BY <1>3, DeliverIsTaskStep DEF HistoryInv, ClaimInv
  <2>2. CASE BuryUnroutable(i) \/ RecordSent(i) \/ RecordFailure(i)
    <3>1. delivered' = delivered
      BY <2>2 DEF BuryUnroutable, RecordSent, RecordFailure, ghostVars
    <3> QED  BY <2>1, <3>1, WriteSettles
  <2>3. CASE SendOk(i) \/ SendErr(i) \/ SendAnswerLost(i) \/ SendPanics(i) \/ SendHangs(i)
    <3>1. Sent(i, 0) \/ Sent(i, 1)
      BY <2>3 DEF SendOk, SendErr, SendAnswerLost, SendPanics, SendHangs
    <3> QED  BY <3>1, SendHandsOver
  <2> QED  BY <1>3, <2>2, <2>3 DEF Deliver
<1> QED  BY <1>1, <1>2, <1>3 DEF Next, Environment, Quiet

(* Before the relay is started nothing is promised. *)
LEMMA InitIsContracted == Init => Promise!ContractInit
<1> SUFFICES ASSUME Init PROVE Promise!ContractInit
  OBVIOUS
<1>1. \A m \in MailIds : mails[m] = NoRow
  BY DEF Init, InitAt
<1>2. ASSUME NEW m \in MailIds PROVE Seen(mails[m]) = "new" /\ mails[m].attempts = 0
  <2>1. mails[m].status = "absent" /\ mails[m].attempts = 0
    BY <1>1 DEF NoRow
  <2> QED  BY <2>1, SeenCases
<1>3. ContractState = [m \in MailIds |-> "new"] /\ Tries = [m \in MailIds |-> 0]
  BY <1>2, ContractIs DEF Tries
<1>4. delivered = [m \in MailIds |-> 0]
  BY DEF Init, InitAt
<1> QED  BY <1>3, <1>4 DEF Promise!ContractInit, Tries

(* The dispatcher implements the contract of the queue and the transports   *)
(* (crates/core/src/queue.rs, transport.rs) for every accepted mail.        *)
THEOREM ContractIsKept == Spec => Contract
<1>1. Init => Promise!ContractInit
  BY InitIsContracted
<1>2. HistoryInv /\ [Next]_vars => [Promise!ContractNext]_Promise!contractVars
  BY StepIsContracted
<1> QED  BY <1>1, <1>2, HistoryInvariant, PTL DEF Spec, Contract, Promise!ContractSpec
=============================================================================
