----------------------------- MODULE RelayProofs -----------------------------
(***************************************************************************)
(* Theorems about Relay: the ingress and the dispatcher keep what each of  *)
(* them keeps alone when they share the table and the process, and what a  *)
(* client was told about a message stays true in the table.                *)
(*                                                                         *)
(* The invariants of the parts are taken over.  Every step of the relay is *)
(* a step of the dispatcher, or an INSERT that fails; and it is a step of  *)
(* the ingress, or one that the ingress does not notice.  What is new is   *)
(* the link between the rows the ingress counts and the rows of the table. *)
(***************************************************************************)
EXTENDS Relay, DeliveryProofs

SmtpdProofs == INSTANCE IngressProofs WITH up <- Listening

(* The thread and the process, and where sessions can be. *)
ThreadInv ==
  /\ ingress \in {"down", "starting", "listening", "ended"}
  /\ pc = "down" <=> ingress = "down"
  /\ \A c \in Clients : session[c].phase # "closed" => ingress = "listening"

(* Every row of the table comes from a message, and is among those that the *)
(* ingress counted for it; and what it counted is in the table.             *)
Linked ==
  /\ origin \in [MailIds -> Nat]
  /\ \A m \in MailIds :
       /\ origin[m] = 0 <=> mails[m].status = "absent"
       /\ mails[m].status # "absent" =>
            \E row \in queued : row.txn = origin[m] /\ row.transport = mails[m].transport
  /\ \A row \in queued : \E m \in MailIds : origin[m] = row.txn

RelayInv ==
  HistoryInv /\ ScheduleInv /\ SmtpdProofs!IngressInv /\ ThreadInv /\ Linked
-----------------------------------------------------------------------------
(***************************************************************************)
(* Relay and the proofs about Ingress instantiate the same module under    *)
(* two names: their definitions agree.                                     *)
(***************************************************************************)
LEMMA SameConstants == SmtpdProofs!IngressConstants /\ NoTransport # Reject
<1>1. \A r : Smtpd!RulesOf(r) = SmtpdProofs!RulesOf(r)
  BY DEF Smtpd!RulesOf, SmtpdProofs!RulesOf
<1>2. \A s : Smtpd!ToSet(s) = SmtpdProofs!ToSet(s)
  BY DEF Smtpd!ToSet, SmtpdProofs!ToSet
<1>3. ASSUME NEW s PROVE Smtpd!SubSeqs(s) = SmtpdProofs!SubSeqs(s)
  <2>1. ASSUME NEW x \in Smtpd!SubSeqs(s) PROVE x \in SmtpdProofs!SubSeqs(s)
    <3>1. PICK i \in 0..Len(s), j \in 0..Len(s) : x = SubSeq(s, i+1, j)
      BY DEF Smtpd!SubSeqs
    <3> QED BY <3>1 DEF SmtpdProofs!SubSeqs
  <2>2. ASSUME NEW x \in SmtpdProofs!SubSeqs(s) PROVE x \in Smtpd!SubSeqs(s)
    <3>1. PICK i \in 0..Len(s), j \in 0..Len(s) : x = SubSeq(s, i+1, j)
      BY DEF SmtpdProofs!SubSeqs
    <3> QED BY <3>1 DEF Smtpd!SubSeqs
  <2> QED BY <2>1, <2>2
<1>4. \A s : Smtpd!formats_valid(s) <=> SmtpdProofs!formats_valid(s)
  BY <1>3 DEF Smtpd!formats_valid, SmtpdProofs!formats_valid,
              Smtpd!contains, SmtpdProofs!contains,
              Smtpd!OriginalPlaceholder, SmtpdProofs!OriginalPlaceholder
<1>5. \A s : Smtpd!FormatsOf(s) = SmtpdProofs!FormatsOf(s)
  BY Zenon DEF Smtpd!FormatsOf, SmtpdProofs!FormatsOf
<1>6. Smtpd!IngressConstants => SmtpdProofs!IngressConstants
  BY <1>1, <1>2, <1>4, <1>5 DEF SmtpdProofs!IngressConstants, Smtpd!IngressConstants
<1> QED BY <1>6, RelayAssumption

(* The commands of a session are the same in both instances, *)
LEMMA SameCommands ==
  ASSUME NEW c, Smtpd!Command(c)
  PROVE  SmtpdProofs!Command(c)
BY Zenon DEF Smtpd!Command, SmtpdProofs!Command,
              Smtpd!Connect, SmtpdProofs!Connect,
              Smtpd!helo, SmtpdProofs!helo,
              Smtpd!Rset, SmtpdProofs!Rset,
              Smtpd!data_start, SmtpdProofs!data_start,
              Smtpd!Disconnect, SmtpdProofs!Disconnect,
              Smtpd!mail, SmtpdProofs!mail,
              Smtpd!rcpt, SmtpdProofs!rcpt,
              Smtpd!data, SmtpdProofs!data,
              Smtpd!SessionStep, SmtpdProofs!SessionStep,
              Smtpd!Refuse, SmtpdProofs!Refuse,
              Smtpd!NewSession, SmtpdProofs!NewSession,
              Smtpd!is_allowed, SmtpdProofs!is_allowed

(* so are the targets of a sender, *)
LEMMA SameTargets == \A r, f : Smtpd!TargetsFor(r, f) = SmtpdProofs!TargetsFor(r, f)
<1>1. \A t : Smtpd!delivering(t) = SmtpdProofs!delivering(t)
  BY Zenon DEF Smtpd!delivering, SmtpdProofs!delivering
<1>2. \A rule : Smtpd!expand(rule) = SmtpdProofs!expand(rule)
  BY <1>1 DEF Smtpd!expand, SmtpdProofs!expand, Smtpd!RouteTarget, SmtpdProofs!RouteTarget
<1>3. \A r, f : Smtpd!resolve(r, f) = SmtpdProofs!resolve(r, f)
  BY <1>2 DEF Smtpd!resolve, SmtpdProofs!resolve, Smtpd!RejectRoute, SmtpdProofs!RejectRoute
<1>4. \A r : Smtpd!is_active(r) <=> SmtpdProofs!is_active(r)
  BY DEF Smtpd!is_active, SmtpdProofs!is_active
<1> QED BY <1>3, <1>4 DEF Smtpd!TargetsFor, SmtpdProofs!TargetsFor,
                          Smtpd!RouteTarget, SmtpdProofs!RouteTarget

(* the end of a message, *)
LEMMA SameDataEnd ==
  ASSUME NEW c, Smtpd!data_end(c)
  PROVE  SmtpdProofs!data_end(c)
BY SameTargets DEF Smtpd!data_end, SmtpdProofs!data_end, Smtpd!parses, SmtpdProofs!parses,
                   Smtpd!RejectRoute, SmtpdProofs!RejectRoute,
                   Smtpd!Answered, SmtpdProofs!Answered

(* the INSERT of a target *)
LEMMA SameEnqueue ==
  ASSUME NEW c, Smtpd!EnqueueTarget(c)
  PROVE  SmtpdProofs!EnqueueTarget(c)
<1>1. \A t, p, b : Smtpd!replace(t, p, b) = SmtpdProofs!replace(t, p, b)
  BY Zenon DEF Smtpd!replace, SmtpdProofs!replace
<1>4. \A s : Smtpd!original_of(s) = SmtpdProofs!original_of(s)
  BY Zenon DEF Smtpd!original_of, SmtpdProofs!original_of, Smtpd!ToSet, SmtpdProofs!ToSet
<1>2. \A s : Smtpd!subject_of(s) = SmtpdProofs!subject_of(s)
  BY <1>1, <1>4, Zenon DEF Smtpd!subject_of, SmtpdProofs!subject_of,
                     Smtpd!render, SmtpdProofs!render,
                     Smtpd!format_for, SmtpdProofs!format_for,
                     Smtpd!extract_name, SmtpdProofs!extract_name,
                     Smtpd!NamePlaceholder, SmtpdProofs!NamePlaceholder,
                     Smtpd!OriginalPlaceholder, SmtpdProofs!OriginalPlaceholder
<1>3. \A s, t : Smtpd!validate(s, t) <=> SmtpdProofs!validate(s, t)
  BY <1>2 DEF Smtpd!validate, SmtpdProofs!validate, Smtpd!payload_to, SmtpdProofs!payload_to
<1> QED BY <1>2, <1>3, <1>4, SameTargets DEF Smtpd!EnqueueTarget, SmtpdProofs!EnqueueTarget,
                          Smtpd!RowFor, SmtpdProofs!RowFor,
                          Smtpd!payload_to, SmtpdProofs!payload_to,
                          Smtpd!Fault, SmtpdProofs!Fault

(* and the answer. *)
LEMMA SameReply ==
  ASSUME NEW c, Smtpd!Reply(c)
  PROVE  SmtpdProofs!Reply(c)
BY Zenon DEF Smtpd!Reply, SmtpdProofs!Reply, Smtpd!Answered, SmtpdProofs!Answered
-----------------------------------------------------------------------------
(* What the steps of a session do to the rest of the relay. *)
SessionOf(c) ==
  /\ \E s : session' = [session EXCEPT ![c] = s]
  /\ session[c].phase # "closed" \/ Listening

(* A command concerns one session and stores nothing. *)
LEMMA CommandEffect ==
  ASSUME NEW c, Smtpd!Command(c)
  PROVE  SessionOf(c) /\ UNCHANGED <<queued, faults>>
<1>1. ASSUME NEW s, Smtpd!SessionStep(c, s)
      PROVE  (\E t : session' = [session EXCEPT ![c] = t]) /\ UNCHANGED <<queued, faults>>
  BY <1>1 DEF Smtpd!SessionStep
<1>2. ASSUME NEW s, Smtpd!Refuse(c, s)
      PROVE  (\E t : session' = [session EXCEPT ![c] = t]) /\ UNCHANGED <<queued, faults>>
  BY <1>1, <1>2 DEF Smtpd!Refuse
<1>3. CASE Smtpd!Connect(c)
  BY <1>1, <1>3 DEF Smtpd!Connect, SessionOf
<1>4. CASE Smtpd!helo(c)
  BY <1>1, <1>2, <1>4 DEF Smtpd!helo, SessionOf
<1>5. CASE Smtpd!Rset(c) \/ Smtpd!data_start(c) \/ Smtpd!Disconnect(c)
  BY <1>1, <1>5 DEF Smtpd!Rset, Smtpd!data_start, Smtpd!Disconnect, SessionOf
<1>6. ASSUME NEW from, Smtpd!mail(c, from)
      PROVE  SessionOf(c) /\ UNCHANGED <<queued, faults>>
  BY <1>1, <1>2, <1>6 DEF Smtpd!mail, SessionOf
<1>7. ASSUME NEW to, Smtpd!rcpt(c, to)
      PROVE  SessionOf(c) /\ UNCHANGED <<queued, faults>>
  BY <1>1, <1>7 DEF Smtpd!rcpt, SessionOf
<1>8. ASSUME NEW buf, Smtpd!data(c, buf)
      PROVE  SessionOf(c) /\ UNCHANGED <<queued, faults>>
  BY <1>1, <1>8 DEF Smtpd!data, SessionOf
<1> QED BY <1>3, <1>4, <1>5, <1>6, <1>7, <1>8 DEF Smtpd!Command

(* So does the answer to a message, *)
LEMMA ReplyEffect ==
  ASSUME NEW c, Smtpd!Reply(c)
  PROVE  SessionOf(c) /\ UNCHANGED <<queued, faults>>
BY DEF Smtpd!Reply, SessionOf

(* and its end, before the first INSERT. *)
LEMMA DataEndEffect ==
  ASSUME NEW c, Smtpd!data_end(c)
  PROVE  SessionOf(c) /\ UNCHANGED <<queued, faults>>
BY DEF Smtpd!data_end, SessionOf

(* A target that is stored names a transport, or leaves it open. *)
LEMMA TargetIsTyped ==
  ASSUME SmtpdProofs!IngressInv, NEW c \in Clients,
         session[c].phase = "queueing", session[c].todo # <<>>
  PROVE  Head(session[c].todo).transport \in MaybeTransport
<1>1. config \in IngressConfigs /\ SmtpdProofs!Pending(c)
  BY DEF SmtpdProofs!IngressInv, SmtpdProofs!Typed
<1>2. PICK s, ts : s = session[c] /\ ts = SmtpdProofs!TargetsFor(config.routing, s.envelope_from)
  OBVIOUS
<1>3. s.todo \in Seq(SmtpdProofs!ToSet(ts)) /\ s.todo # <<>>
  BY <1>1, <1>2 DEF SmtpdProofs!Pending, SmtpdProofs!TargetsOf
<1>4. Head(s.todo) \in SmtpdProofs!ToSet(ts)
  BY <1>3
<1>5. Head(s.todo).transport \in SmtpdProofs!RuleNames(config.routing) \ {Reject}
  BY <1>1, <1>2, <1>4, SmtpdProofs!TargetsDeliver, SameConstants
<1>6. SmtpdProofs!RuleNames(config.routing) \subseteq MaybeTransport \cup {Reject}
  BY <1>1, RelayAssumption DEF SmtpdProofs!RuleNames, MaybeTransport,
     Smtpd!RulesOf, SmtpdProofs!RulesOf, Smtpd!ToSet, SmtpdProofs!ToSet
<1> QED BY <1>2, <1>5, <1>6

(* An INSERT puts a row into the table and into the ingress's count, or     *)
(* fails, or is not tried: then neither changes.                            *)
LEMMA StoreEffect ==
  ASSUME SmtpdProofs!IngressInv, NEW c \in Clients, Store(c)
  PROVE  /\ SessionOf(c) /\ session[c].phase = "queueing"
         /\ \/ /\ UNCHANGED <<mails, dispatcherVars, ingress, origin, queued>>
               /\ faults' = faults \/ Fault
            \/ \E m \in Fresh, transport \in MaybeTransport : \E row :
                 /\ mails' = enqueue(mails, m, transport, clock)
                 /\ origin' = [origin EXCEPT ![m] = session[c].txn]
                 /\ queued' = queued \cup {row}
                 /\ row.txn = session[c].txn /\ row.transport = transport
                 /\ UNCHANGED <<dispatcherVars, ingress, faults>>
<1>1. PICK s, rest : s = session[c] /\ rest = [s EXCEPT !.todo = Tail(s.todo)]
  OBVIOUS
<1>2. s \in SmtpdProofs!Session /\ session \in [Clients -> SmtpdProofs!Session]
  BY <1>1 DEF SmtpdProofs!IngressInv, SmtpdProofs!Typed
<1>3. Smtpd!EnqueueTarget(c) /\ UNCHANGED <<dispatcherVars, ingress>>
  BY DEF Store
<1>4. s.phase = "queueing" /\ s.todo # <<>>
  BY <1>1, <1>3 DEF Smtpd!EnqueueTarget
<1>5. s.accepted \in Nat /\ rest.accepted = s.accepted
  BY <1>1, <1>2 DEF SmtpdProofs!Session
<1>6. CASE /\ session' = [session EXCEPT ![c] = rest]
           /\ UNCHANGED queued
           /\ faults' = faults \/ Smtpd!Fault
  <2>1. session'[c] = rest
    BY <1>2, <1>6
  <2>2. ~ (session'[c].accepted > session[c].accepted)
    BY <1>1, <1>5, <2>1
  <2>3. UNCHANGED <<mails, origin>>
    BY <2>2 DEF Store
  <2>4. faults' = faults \/ Fault
    BY <1>6 DEF Fault, Smtpd!Fault
  <2> QED BY <1>1, <1>3, <1>4, <1>6, <2>3, <2>4 DEF SessionOf
<1>7. CASE /\ session' = [session EXCEPT ![c] = [rest EXCEPT !.accepted = @ + 1]]
           /\ queued' = queued \cup {Smtpd!RowFor(c, Head(s.todo))}
           /\ UNCHANGED faults
  <2>1. session'[c].accepted = s.accepted + 1
    <3>1. session'[c] = [rest EXCEPT !.accepted = @ + 1]
      BY <1>2, <1>7
    <3> QED BY <1>1, <1>2, <3>1 DEF SmtpdProofs!Session
  <2>2. session'[c].accepted > session[c].accepted
    BY <1>1, <1>5, <2>1
  <2>3. PICK m \in Fresh :
          /\ mails' = enqueue(mails, m, Head(session[c].todo).transport, clock)
          /\ origin' = [origin EXCEPT ![m] = session[c].txn]
    BY <2>2 DEF Store
  <2>4. PICK row : row = Smtpd!RowFor(c, Head(s.todo))
    OBVIOUS
  <2>5. row.txn = session[c].txn /\ row.transport = Head(s.todo).transport
    BY <2>4 DEF Smtpd!RowFor
  <2>6. Head(s.todo).transport \in MaybeTransport
    BY <1>1, <1>4, TargetIsTyped
  <2> QED BY <1>1, <1>3, <1>4, <1>7, <2>3, <2>4, <2>5, <2>6 DEF SessionOf
<1> QED BY <1>1, <1>3, <1>6, <1>7 DEF Smtpd!EnqueueTarget
-----------------------------------------------------------------------------
(* The dispatcher's part. *)

(* A failure outside the dispatcher: an INSERT that did not succeed. *)
OnlyFault ==
  /\ Fault
  /\ UNCHANGED <<mails, clock, pc, now, batch, handles, permits, transports,
                 default_transport, sends, delivered, failed_at>>

(* Every step of the relay is one of the dispatcher or such a failure. *)
LEMMA RelayStepIsDispatcherStep ==
  ASSUME SmtpdProofs!IngressInv, ThreadInv, [RelayNext]_relayVars
  PROVE  [Next]_vars \/ OnlyFault
<1>1. CASE \E c \in Configs : Launch(c)
  BY <1>1 DEF Launch, Next, Environment
<1>2. CASE Serve \/ ServeFails
  BY <1>2 DEF Serve, ServeFails
<1>3. CASE StopRelay \/ RelayExit \/ RelayCrash
  BY <1>3 DEF StopRelay, RelayExit, RelayCrash, Next, Environment
<1>4. ASSUME NEW c \in Clients, Converse(c) PROVE UNCHANGED vars
  BY <1>4, CommandEffect, ReplyEffect DEF Converse, dispatcherVars, vars,
     loopVars, startVars, ghostVars
<1>5. ASSUME NEW c \in Clients, EndOfData(c) PROVE UNCHANGED vars
  BY <1>5, DataEndEffect DEF EndOfData, dispatcherVars, vars, loopVars, startVars, ghostVars
<1>6. ASSUME NEW c \in Clients, Store(c) PROVE [Next]_vars \/ OnlyFault
  <2>1. pc # "down"
    BY <1>6, StoreEffect DEF ThreadInv
  <2>2. CASE /\ UNCHANGED <<mails, dispatcherVars, ingress, origin, queued>>
             /\ faults' = faults \/ Fault
    BY <2>2 DEF OnlyFault, dispatcherVars, vars, loopVars, startVars, ghostVars
  <2>3. ASSUME NEW m \in Fresh, NEW transport \in MaybeTransport,
               mails' = enqueue(mails, m, transport, clock),
               UNCHANGED <<dispatcherVars, faults>>
        PROVE  Next
    <3>1. Submit(m)
      BY <2>1, <2>3 DEF Submit, Fresh, dispatcherVars
    <3> QED BY <3>1 DEF Next, Environment, Fresh
  <2> QED BY <1>6, <2>2, <2>3, StoreEffect
<1>7. CASE Dispatch(Loop) \/ Dispatch(PassTime \/ SetClockBack)
  BY <1>7 DEF Dispatch, Next
<1>8. ASSUME NEW i, Work(i) PROVE Next
  BY <1>8 DEF Work, Dispatch, Next
<1>9. CASE UNCHANGED relayVars
  BY <1>9 DEF relayVars
<1> QED BY <1>1, <1>2, <1>3, <1>4, <1>5, <1>6, <1>7, <1>8, <1>9 DEF RelayNext, RelayStep

(* Such a failure pays for nothing, and changes nothing that was booked. *)
LEMMA OnlyFaultKeeps ==
  ASSUME HistoryInv, OnlyFault
  PROVE  HistoryInv'
<1>1. ClaimInv /\ TypeOK
  BY DEF HistoryInv, ClaimInv
<1>2. TypeOK' /\ faults' = faults + 1
  BY <1>1 DEF OnlyFault, Fault, TypeOK
<1>3. ClaimInv'
  <2>1. LoopShape' /\ AttemptsBounded'
    BY <1>1 DEF OnlyFault, ClaimInv, LoopShape, AttemptsBounded
  <2>2. BatchInv'
    BY <1>1 DEF OnlyFault, ClaimInv, BatchInv, Unclaimed
  <2>3. TaskInv'
    BY <1>1 DEF OnlyFault, ClaimInv, TaskInv, Live
  <2> QED BY <1>2, <2>1, <2>2, <2>3 DEF ClaimInv
<1>4. ASSUME NEW m \in MailIds PROVE Booked(m)'
  <2>1. Arrived(m)' => Arrived(m)
    BY DEF OnlyFault, Arrived
  <2> QED BY <1>1, <1>2, <2>1, FaultPays DEF OnlyFault, HistoryInv
<1> QED BY <1>3, <1>4 DEF HistoryInv

(* A fault is never forgotten. *)
LEMMA FaultsGrow ==
  ASSUME TypeOK, [Next]_vars \/ OnlyFault
  PROVE  faults' \in Nat /\ (faults' = 0 => faults = 0)
<1>1. SUFFICES faults' = faults \/ Fault
  BY DEF TypeOK, Fault
<1>2. CASE PassTime \/ SetClockBack \/ Environment
  BY <1>2 DEF PassTime, SetClockBack, Environment, Submit, Start, Shutdown, Exit, Crash
<1>3. CASE Loop
  BY <1>3 DEF Loop, Recover, TickStart, FetchDue, FetchFails, Claim, ClaimFails, Spawn, Join,
              QueueWrite
<1>4. ASSUME NEW i \in DOMAIN handles, Deliver(i) PROVE faults' = faults \/ Fault
  BY <1>4 DEF Deliver, BuryUnroutable, SendOk, SendErr, SendAnswerLost, SendPanics, SendHangs,
              RecordSent, RecordFailure, QueueWrite
<1>5. CASE UNCHANGED vars \/ OnlyFault
  BY <1>5 DEF vars, OnlyFault
<1> QED BY <1>2, <1>3, <1>4, <1>5 DEF Next

(* A row that is there stays, under its transport; no other comes. *)
RowsPersist ==
  \A m \in MailIds : /\ mails'[m].status = "absent" <=> mails[m].status = "absent"
                     /\ mails'[m].transport = mails[m].transport

(* No statement of the queue but the INSERT writes the transport column. *)
LEMMA TransportIsKept ==
  ASSUME mails \in Table, NEW m \in MailIds, NEW k \in MailIds
  PROVE  /\ mark_sending(mails, m, clock)[k].transport = mails[k].transport
         /\ mark_sent(mails, m, clock)[k].transport = mails[k].transport
         /\ mark_dead(mails, m, clock)[k].transport = mails[k].transport
         /\ \A r : mark_failed(mails, m, r, clock)[k].transport = mails[k].transport
         /\ \A S : Requeue(mails, S, clock)[k].transport = mails[k].transport
<1>1. mark_sending(mails, m, clock)[k].transport = mails[k].transport
  BY DEF mark_sending, set_status, Table
<1>2. mark_sent(mails, m, clock)[k].transport = mails[k].transport
  BY DEF mark_sent, set_status, Table
<1>3. mark_dead(mails, m, clock)[k].transport = mails[k].transport
  BY DEF mark_dead, set_status, Table
<1>4. \A r : mark_failed(mails, m, r, clock)[k].transport = mails[k].transport
  BY DEF mark_failed, set_status, Table
<1>5. \A S : Requeue(mails, S, clock)[k].transport = mails[k].transport
  BY DEF Requeue, Table, Row
<1> QED BY <1>1, <1>2, <1>3, <1>4, <1>5

(* The loop of the dispatcher, a start and an end leave the rows that exist. *)
LEMMA QuietKeepsRows ==
  ASSUME HistoryInv, Quiet
  PROVE  RowsPersist
<1>1. ClaimInv /\ mails \in Table /\ batch \in Seq(Mail)
  BY DEF HistoryInv, ClaimInv, TypeOK
<1>2. \A m \in MailIds : mails'[m].status = "absent" <=> mails[m].status = "absent"
  BY <1>1, LoopIsCalm DEF RowsCalm
<1>3. ASSUME NEW m \in MailIds PROVE mails'[m].transport = mails[m].transport
  <2>1. CASE Recover \/ TickStart
    BY <1>1, <2>1, TransportIsKept DEF Recover, TickStart, QueueWrite,
       requeue_sending, requeue_stale_sending
  <2>2. CASE Claim
    <3>1. Head(batch) \in Mail
      BY <1>1, <2>2 DEF Claim
    <3>2. Head(batch).id \in MailIds
      BY <3>1 DEF Mail
    <3> QED BY <1>1, <2>2, <3>2, TransportIsKept DEF Claim
  <2>3. CASE FetchDue \/ FetchFails \/ ClaimFails \/ Spawn \/ Join
    BY <2>3 DEF FetchDue, FetchFails, ClaimFails, Spawn, Join
  <2>4. CASE \/ PassTime \/ SetClockBack \/ Shutdown \/ Exit \/ Crash
            \/ \E c \in Configs : Start(c)
    BY <2>4 DEF PassTime, SetClockBack, Shutdown, Exit, Crash, Start
  <2>5. CASE UNCHANGED vars
    BY <2>5 DEF vars
  <2> QED BY <2>1, <2>2, <2>3, <2>4, <2>5 DEF Quiet, Loop
<1> QED BY <1>2, <1>3 DEF RowsPersist

(* A delivery task changes the status of its row, not where it goes. *)
LEMMA TaskKeepsRows ==
  ASSUME HistoryInv, NEW i \in DOMAIN handles, Deliver(i)
  PROVE  RowsPersist
<1>1. ClaimInv /\ mails \in Table
  BY DEF HistoryInv, ClaimInv, TypeOK
<1>2. TaskStep(i)
  BY <1>1, DeliverIsTaskStep DEF ClaimInv
<1>3. PICK m : m = handles[i].mail.id
  OBVIOUS
<1>4. m \in MailIds /\ mails[m].status = "sending"
  BY <1>2, <1>3, OnlyTask DEF TaskStep
<1>5. \A k \in MailIds : mails'[k].status = "absent" <=> mails[k].status = "absent"
  BY <1>2, <1>3, <1>4 DEF TaskStep
<1>6. ASSUME NEW k \in MailIds PROVE mails'[k].transport = mails[k].transport
  <2>1. CASE BuryUnroutable(i)
    BY <1>1, <1>3, <1>4, <2>1, TransportIsKept DEF BuryUnroutable, QueueWrite
  <2>2. CASE RecordSent(i)
    BY <1>1, <1>3, <1>4, <2>2, TransportIsKept DEF RecordSent, QueueWrite
  <2>3. CASE RecordFailure(i)
    BY <1>1, <1>3, <1>4, <2>3, TransportIsKept DEF RecordFailure, QueueWrite
  <2>4. CASE SendOk(i) \/ SendErr(i) \/ SendAnswerLost(i) \/ SendPanics(i) \/ SendHangs(i)
    BY <2>4 DEF SendOk, SendErr, SendAnswerLost, SendPanics, SendHangs, Sent
  <2> QED BY <2>1, <2>2, <2>3, <2>4 DEF Deliver
<1> QED BY <1>5, <1>6 DEF RowsPersist

(* The dispatcher's account survives every step of the relay. *)
LEMMA HistoryKept ==
  ASSUME RelayInv, [RelayNext]_relayVars
  PROVE  HistoryInv'
BY RelayStepIsDispatcherStep, HistoryNext, OnlyFaultKeeps DEF RelayInv

(* So does its schedule: an INSERT writes the due time of a new row only. *)
LEMMA ScheduleKept ==
  ASSUME RelayInv, [RelayNext]_relayVars
  PROVE  ScheduleInv'
<1>1. ClaimInv /\ ScheduleInv /\ ([Next]_vars \/ OnlyFault)
  BY RelayStepIsDispatcherStep DEF RelayInv, HistoryInv
<1>2. CASE [Next]_vars
  BY <1>1, <1>2, ScheduleNext
<1>3. CASE OnlyFault
  BY <1>1, <1>3 DEF OnlyFault, ScheduleInv, Scheduled
<1> QED BY <1>1, <1>2, <1>3
-----------------------------------------------------------------------------
(* The ingress's part: the steps of its sessions, and those it does not see. *)
LEMMA IngressKept ==
  ASSUME RelayInv, [RelayNext]_relayVars
  PROVE  SmtpdProofs!IngressInv'
<1>1. SmtpdProofs!IngressInv /\ ThreadInv /\ TypeOK /\ Listening' \in BOOLEAN
  BY DEF RelayInv, HistoryInv, ClaimInv, Listening
<1>2. faults' \in Nat /\ (faults' = 0 => faults = 0)
  BY <1>1, RelayStepIsDispatcherStep, FaultsGrow
<1>3. CASE UNCHANGED ingressVars
  BY <1>1, <1>2, <1>3, SmtpdProofs!StutterKeeps, SameConstants DEF ingressVars
<1>4. CASE RelayExit \/ RelayCrash
  BY <1>1, <1>2, <1>4, SmtpdProofs!EndKeeps, SameConstants
     DEF RelayExit, RelayCrash, SessionsEnd, Smtpd!NewSession, SmtpdProofs!NewSession
<1>5. ASSUME NEW c \in Clients, Converse(c) \/ EndOfData(c) \/ Store(c)
      PROVE  SmtpdProofs!IngressInv'
  <2>1. CASE Smtpd!Command(c)
    BY <1>1, <2>1, SameCommands, SmtpdProofs!CommandKeeps, SameConstants
  <2>2. CASE Smtpd!Reply(c)
    BY <1>1, <2>2, SameReply, SmtpdProofs!ReplyKeeps, SameConstants
  <2>3. CASE Smtpd!data_end(c)
    BY <1>1, <2>3, SameDataEnd, SmtpdProofs!DataEndKeeps, SameConstants
  <2>4. CASE Smtpd!EnqueueTarget(c)
    BY <1>1, <2>4, SameEnqueue, SmtpdProofs!EnqueueKeeps, SameConstants
  <2> QED BY <1>5, <2>1, <2>2, <2>3, <2>4 DEF Converse, EndOfData, Store
<1>6. CASE (\E c \in Configs : Launch(c)) \/ Serve \/ ServeFails \/ StopRelay
  BY <1>3, <1>6 DEF Launch, Serve, ServeFails, StopRelay
<1>7. CASE Dispatch(Loop) \/ Dispatch(PassTime \/ SetClockBack) \/ (\E i : Work(i))
  BY <1>3, <1>7 DEF Dispatch, Work
<1>8. CASE UNCHANGED relayVars
  BY <1>3, <1>8 DEF relayVars
<1> QED BY <1>4, <1>5, <1>6, <1>7, <1>8 DEF RelayNext, RelayStep

(* The sessions live and die with the thread that serves them. *)
LEMMA ThreadKept ==
  ASSUME RelayInv, [RelayNext]_relayVars
  PROVE  ThreadInv'
<1>1. ThreadInv /\ SmtpdProofs!IngressInv /\ session \in [Clients -> SmtpdProofs!Session]
  BY DEF RelayInv, SmtpdProofs!IngressInv, SmtpdProofs!Typed
<1>2. ASSUME NEW c \in Configs, Launch(c) PROVE ThreadInv'
  BY <1>1, <1>2 DEF ThreadInv, Launch, Start, ingressVars
<1>3. CASE Serve \/ ServeFails
  BY <1>1, <1>3 DEF ThreadInv, Serve, ServeFails, vars, ingressVars
<1>4. CASE RelayExit \/ RelayCrash
  BY <1>1, <1>4 DEF ThreadInv, RelayExit, RelayCrash, Exit, Crash, SessionsEnd,
     Smtpd!NewSession
<1>10. CASE StopRelay
  BY <1>1, <1>10 DEF ThreadInv, StopRelay, Shutdown, ingressVars
<1>5. ASSUME NEW c \in Clients, Converse(c) \/ EndOfData(c) \/ Store(c)
      PROVE  ThreadInv'
  <2>1. SessionOf(c) /\ ingress' = ingress /\ pc' = pc
    BY <1>1, <1>5, CommandEffect, ReplyEffect, DataEndEffect, StoreEffect
       DEF Converse, EndOfData, Store, dispatcherVars
  <2>2. ingress = "listening"
    BY <1>1, <2>1 DEF SessionOf, ThreadInv, Listening
  <2> QED BY <1>1, <2>1, <2>2 DEF ThreadInv
<1>6. CASE Dispatch(Loop)
  <2>1. pc # "down" /\ pc' # "down"
    BY <1>6 DEF Dispatch, Loop, Recover, TickStart, FetchDue, FetchFails, Claim, ClaimFails,
                Spawn, Join
  <2> QED BY <1>1, <1>6, <2>1 DEF ThreadInv, Dispatch, ingressVars
<1>7. CASE Dispatch(PassTime \/ SetClockBack)
  BY <1>1, <1>7 DEF ThreadInv, Dispatch, PassTime, SetClockBack, ingressVars
<1>8. ASSUME NEW i, Work(i) PROVE ThreadInv'
  <2>1. pc' = pc
    BY <1>8 DEF Work, Dispatch, Deliver, BuryUnroutable, SendOk, SendErr, SendAnswerLost,
                SendPanics, SendHangs, RecordSent, RecordFailure, Sent
  <2> QED BY <1>1, <1>8, <2>1 DEF ThreadInv, Work, Dispatch, ingressVars
<1>9. CASE UNCHANGED relayVars
  BY <1>1, <1>9 DEF ThreadInv, relayVars, vars, ingressVars
<1> QED BY <1>2, <1>3, <1>4, <1>5, <1>6, <1>7, <1>8, <1>9, <1>10 DEF RelayNext, RelayStep
-----------------------------------------------------------------------------
(* The link between the two. *)
LEMMA PersistKeepsLink ==
  ASSUME Linked, RowsPersist, UNCHANGED <<origin, queued>>
  PROVE  Linked'
BY DEF Linked, RowsPersist

(* Counted rows and stored rows stay the same rows. *)
LEMMA LinkKept ==
  ASSUME RelayInv, [RelayNext]_relayVars
  PROVE  Linked'
<1>1. HistoryInv /\ SmtpdProofs!IngressInv /\ Linked /\ mails \in Table /\ clock \in Nat
  BY DEF RelayInv, HistoryInv, ClaimInv, TypeOK
<1>2. CASE mails' = mails /\ UNCHANGED <<origin, queued>>
  BY <1>1, <1>2, PersistKeepsLink DEF RowsPersist
<1>3. CASE Quiet /\ UNCHANGED <<origin, queued>>
  BY <1>1, <1>3, QuietKeepsRows, PersistKeepsLink
<1>4. ASSUME NEW c \in Clients, Converse(c) \/ EndOfData(c) PROVE Linked'
  BY <1>2, <1>4, CommandEffect, ReplyEffect, DataEndEffect DEF Converse, EndOfData
<1>5. ASSUME NEW c \in Clients, Store(c) PROVE Linked'
  <2>1. CASE UNCHANGED <<mails, origin, queued>>
    BY <1>2, <2>1
  <2>2. ASSUME NEW m \in Fresh, NEW transport \in MaybeTransport, NEW row,
               mails' = enqueue(mails, m, transport, clock),
               origin' = [origin EXCEPT ![m] = session[c].txn],
               queued' = queued \cup {row},
               row.txn = session[c].txn, row.transport = transport
        PROVE  Linked'
    <3>1. m \in MailIds /\ mails[m].status = "absent" /\ origin[m] = 0
      BY <1>1 DEF Fresh, Linked
    <3>2. session[c].txn \in Nat /\ session[c].txn # 0
      <4>1. session[c].phase = "queueing"
        BY <1>1, <1>5, StoreEffect
      <4>2. txns \in 0..MaxTxns /\ MaxTxns \in Nat
        BY <1>1, SameConstants DEF SmtpdProofs!IngressInv, SmtpdProofs!Typed,
           SmtpdProofs!IngressConstants
      <4> QED BY <1>1, <4>1, <4>2 DEF SmtpdProofs!IngressInv, SmtpdProofs!Pending
    <3>3. /\ mails'[m].status = "pending" /\ mails'[m].transport = transport
          /\ \A k \in MailIds : k # m => mails'[k] = mails[k]
      BY <1>1, <2>2, <3>1 DEF enqueue, Table
    <3>4. origin' \in [MailIds -> Nat] /\ origin'[m] = row.txn
            /\ \A k \in MailIds : k # m => origin'[k] = origin[k]
      BY <1>1, <2>2, <3>1, <3>2 DEF Linked
    <3>5. ASSUME NEW k \in MailIds
          PROVE  /\ origin'[k] = 0 <=> mails'[k].status = "absent"
                 /\ mails'[k].status # "absent" =>
                      \E r \in queued' : r.txn = origin'[k] /\ r.transport = mails'[k].transport
      <4>1. CASE k = m
        BY <2>2, <3>2, <3>3, <3>4, <4>1
      <4>2. CASE k # m
        BY <1>1, <2>2, <3>3, <3>4, <4>2 DEF Linked
      <4> QED BY <4>1, <4>2
    <3>6. ASSUME NEW r \in queued' PROVE \E k \in MailIds : origin'[k] = r.txn
      <4>1. CASE r = row
        BY <3>1, <3>4, <4>1
      <4>2. CASE r \in queued
        <5>1. PICK k \in MailIds : origin[k] = r.txn
          BY <1>1, <4>2 DEF Linked
        <5>2. k # m
          <6>1. r.txn # 0
            BY <1>1, <4>2 DEF SmtpdProofs!IngressInv, SmtpdProofs!NothingAhead
          <6> QED BY <3>1, <5>1, <6>1
        <5> QED BY <3>4, <5>1, <5>2
      <4> QED BY <2>2, <4>1, <4>2
    <3> QED BY <3>4, <3>5, <3>6 DEF Linked
  <2> QED BY <1>1, <1>5, <2>1, <2>2, StoreEffect
<1>6. CASE (\E c \in Configs : Launch(c)) \/ Serve \/ ServeFails
  BY <1>2, <1>6 DEF Launch, Serve, ServeFails, Start, vars, ingressVars
<1>7. CASE StopRelay \/ RelayExit \/ RelayCrash
  BY <1>3, <1>7 DEF StopRelay, RelayExit, RelayCrash, SessionsEnd, Quiet, ingressVars
<1>8. CASE Dispatch(Loop) \/ Dispatch(PassTime \/ SetClockBack)
  BY <1>3, <1>8 DEF Dispatch, Quiet, ingressVars
<1>9. ASSUME NEW i, Work(i) PROVE Linked'
  BY <1>1, <1>9, TaskKeepsRows, PersistKeepsLink DEF Work, Dispatch, ingressVars
<1>10. CASE UNCHANGED relayVars
  BY <1>2, <1>10 DEF relayVars, vars, ingressVars
<1> QED BY <1>4, <1>5, <1>6, <1>7, <1>8, <1>9, <1>10 DEF RelayNext, RelayStep

(* The relay starts with nothing in the table and nobody connected. *)
LEMMA RelayStarts == RelayInit => RelayInv
<1> SUFFICES ASSUME RelayInit PROVE RelayInv
  OBVIOUS
<1>1. Init /\ Smtpd!InitUp(FALSE) /\ ingress = "down" /\ origin = [m \in MailIds |-> 0]
  BY DEF RelayInit, RelayInitAt, Init
<1>2. HistoryInv
  BY <1>1, HistoryInit
<1>3. /\ session = [c \in Clients |-> SmtpdProofs!NewSession("closed")]
      /\ queued = {} /\ txns = 0 /\ faults = 0 /\ config \in IngressConfigs
      /\ reply = [x \in 1..MaxTxns |-> "none"]
  BY <1>1 DEF Smtpd!InitUp, Smtpd!NewSession, SmtpdProofs!NewSession
<1>4. /\ SmtpdProofs!NewSession("closed") \in SmtpdProofs!Session
      /\ SmtpdProofs!NewSession("closed").phase = "closed"
      /\ SmtpdProofs!NewSession("closed").txn = 0
  BY SmtpdProofs!FreshSession, SameConstants DEF SmtpdProofs!Phases, SmtpdProofs!NewSession
<1>5. SmtpdProofs!IngressInv
  <2>1. SmtpdProofs!Typed
    BY <1>3, <1>4, SameConstants DEF SmtpdProofs!Typed, SmtpdProofs!Replies, Listening,
       SmtpdProofs!IngressConstants
  <2>2. \A c \in Clients : SmtpdProofs!Proper(c, session[c]) /\ SmtpdProofs!Pending(c)
    BY <1>3, <1>4 DEF SmtpdProofs!Proper, SmtpdProofs!Pending
  <2>3. SmtpdProofs!OwnMessage
    BY <1>3, <1>4 DEF SmtpdProofs!OwnMessage
  <2>4. /\ SmtpdProofs!NothingAhead /\ SmtpdProofs!OnlyPermittedIsQueued
        /\ \A x \in 1..MaxTxns : SmtpdProofs!Told(x)
    BY <1>3 DEF SmtpdProofs!NothingAhead, SmtpdProofs!OnlyPermittedIsQueued, SmtpdProofs!Told
  <2> QED BY <2>1, <2>2, <2>3, <2>4 DEF SmtpdProofs!IngressInv
<1>6. ThreadInv
  BY <1>1, <1>3, <1>4 DEF ThreadInv, Init, InitAt
<1>7. Linked
  BY <1>1, <1>3 DEF Linked, Init, InitAt, NoRow
<1> QED BY <1>1, <1>2, <1>5, <1>6, <1>7, ScheduleInit DEF RelayInv

(* What every reachable state of the running relay satisfies. *)
THEOREM RelayInvariant == RelaySpec => []RelayInv
<1>1. RelayInv /\ [RelayNext]_relayVars => RelayInv'
  BY HistoryKept, ScheduleKept, IngressKept, ThreadKept, LinkKept DEF RelayInv
<1> QED BY <1>1, RelayStarts, PTL DEF RelaySpec

(* For any number of clients, messages, targets and restarts: an accepted   *)
(* message has a row in the table, a refused one has none and reaches       *)
(* nobody, and every row goes where the rule of its message sends it.       *)
THEOREM RepliesAreTrue == RelaySpec => []ReplyIsTrue
<1>1. ASSUME RelayInv PROVE ReplyIsTrue
  <2>1. /\ Linked /\ SmtpdProofs!IngressInv /\ \A m \in MailIds : Booked(m)
        /\ delivered \in [MailIds -> Nat] /\ MaxTxns \in Nat /\ txns \in 0..MaxTxns
        /\ reply \in [1..MaxTxns -> SmtpdProofs!Replies]
    BY <1>1, SameConstants DEF RelayInv, HistoryInv, ClaimInv, TypeOK, SmtpdProofs!IngressInv,
       SmtpdProofs!Typed, SmtpdProofs!IngressConstants
  <2>2. ASSUME NEW m \in MailIds, mails[m].status # "absent"
        PROVE  origin[m] \in 1..MaxTxns /\ SmtpdProofs!RowsOf(origin[m]) # {}
    <3>1. PICK row \in queued : row.txn = origin[m]
      BY <2>1, <2>2 DEF Linked
    <3>2. row.txn \in 1..txns
      BY <2>1 DEF SmtpdProofs!IngressInv, SmtpdProofs!NothingAhead
    <3>3. row \in SmtpdProofs!RowsOf(origin[m])
      BY <3>1 DEF SmtpdProofs!RowsOf
    <3> QED BY <2>1, <3>1, <3>2, <3>3
  <2>3. ASSUME NEW x \in 1..MaxTxns, reply[x] = "250"
        PROVE  \E m \in RowsFrom(x) : mails[m].status # "absent"
    <3>1. PICK row \in queued : row.txn = x
      BY <2>1, <2>3 DEF SmtpdProofs!IngressInv, SmtpdProofs!Told, SmtpdProofs!RowsOf
    <3>2. PICK m \in MailIds : origin[m] = x
      BY <2>1, <3>1 DEF Linked
    <3>3. x # 0
      BY <2>1
    <3>4. origin[m] = 0 <=> mails[m].status = "absent"
      BY <2>1 DEF Linked
    <3>5. mails[m].status # "absent" /\ m \in RowsFrom(x)
      BY <3>2, <3>3, <3>4 DEF RowsFrom
    <3> QED BY <3>5
  <2>4. ASSUME NEW x \in 1..MaxTxns, reply[x] \in {"451", "550", "554"}
        PROVE  RowsFrom(x) = {}
    <3>1. SmtpdProofs!RowsOf(x) = {}
      BY <2>1, <2>4 DEF SmtpdProofs!IngressInv, SmtpdProofs!Told
    <3>2. ASSUME NEW m \in MailIds, origin[m] = x PROVE FALSE
      BY <2>1, <2>2, <3>1, <3>2 DEF Linked
    <3> QED BY <3>2 DEF RowsFrom
  <2>5. ASSUME NEW m \in MailIds, delivered[m] > 0
        PROVE  origin[m] # 0 /\ reply[origin[m]] \in {"250", "none"}
    <3>1. mails[m].status # "absent"
      BY <2>1, <2>5 DEF Booked
    <3>2. origin[m] \in 1..MaxTxns /\ m \in RowsFrom(origin[m])
      BY <2>2, <3>1 DEF RowsFrom
    <3>3. reply[origin[m]] \notin {"451", "550", "554"}
      BY <2>4, <3>2
    <3> QED BY <2>1, <3>2, <3>3 DEF SmtpdProofs!Replies
  <2> QED BY <2>1, <2>3, <2>4, <2>5 DEF ReplyIsTrue, Linked
<1> QED BY <1>1, RelayInvariant, PTL

(* With the ingress writing into the same table at any moment, the          *)
(* dispatcher still never delivers a mail in two tasks, holds its claims,   *)
(* and counts as it does alone.                                             *)
THEOREM RelayDeliversSafely ==
  RelaySpec => [](/\ NoConcurrentDelivery /\ ClaimHeld /\ BackoffHonoured /\ AttemptsBounded
                  /\ SentMeansDelivered /\ SendsBounded /\ DuplicatesNeedFaults)
<1>1. ASSUME RelayInv
      PROVE  /\ NoConcurrentDelivery /\ ClaimHeld /\ BackoffHonoured /\ AttemptsBounded
             /\ SentMeansDelivered /\ SendsBounded /\ DuplicatesNeedFaults
  <2>1. HistoryInv /\ ClaimInv /\ ScheduleInv
    BY <1>1 DEF RelayInv, HistoryInv
  <2>2. NoConcurrentDelivery
    BY <2>1 DEF ClaimInv, TaskInv, NoConcurrentDelivery, Waiting
  <2>3. ClaimHeld /\ AttemptsBounded
    BY <2>1 DEF ClaimInv, TaskInv, ClaimHeld
  <2>4. BackoffHonoured
    BY <2>1, ScheduleIsWaiting
  <2> QED BY <2>1, <2>2, <2>3, <2>4, HistoryBounds
<1> QED BY <1>1, RelayInvariant, PTL

(* Neither the ingress nor a tick, a shutdown or a crash of the relay ever  *)
(* reopens a mail that is sent or dead.                                     *)
THEOREM RelaySettlesForGood == RelaySpec => TerminalIsFinal
<1>1. RelayInv /\ [RelayNext]_relayVars =>
        [\A m \in MailIds : mails[m].status \in {"sent", "dead"} => mails'[m] = mails[m]]_vars
  <2> SUFFICES ASSUME RelayInv, [RelayNext]_relayVars, NEW m \in MailIds,
                      mails[m].status \in {"sent", "dead"}
               PROVE  mails'[m] = mails[m]
    OBVIOUS
  <2>1. ClaimInv /\ ([Next]_vars \/ OnlyFault)
    BY RelayStepIsDispatcherStep DEF RelayInv, HistoryInv
  <2> QED BY <2>1, SettledRowStays DEF OnlyFault
<1> QED BY <1>1, RelayInvariant, PTL DEF RelaySpec, TerminalIsFinal

(* The running relay keeps the contract of every mail it accepted. *)
THEOREM RelayKeepsContract == RelaySpec => Contract
<1>1. RelayInit => Promise!ContractInit
  BY InitIsContracted DEF RelayInit, RelayInitAt, Init
<1>2. RelayInv /\ [RelayNext]_relayVars => [Promise!ContractNext]_Promise!contractVars
  <2> SUFFICES ASSUME RelayInv, [RelayNext]_relayVars
               PROVE  Promise!ContractNext \/ UNCHANGED Promise!contractVars
    OBVIOUS
  <2>1. CASE [Next]_vars
    BY <2>1, StepIsContracted DEF RelayInv
  <2>2. CASE OnlyFault
    BY <2>2, ContractStutters DEF OnlyFault
  <2> QED BY <2>1, <2>2, RelayStepIsDispatcherStep DEF RelayInv
<1> QED BY <1>1, <1>2, RelayInvariant, PTL DEF RelaySpec, Contract, Promise!ContractSpec
=============================================================================
