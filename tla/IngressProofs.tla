---------------------------- MODULE IngressProofs ----------------------------
(***************************************************************************)
(* Theorems about Ingress, for any number of clients, any configuration    *)
(* and any interleaving of their sessions: what a client is told about a   *)
(* message agrees with the rows that are stored.                           *)
(***************************************************************************)
EXTENDS Ingress, SequenceTheorems, WellFoundedInduction, TLAPS

(* Every target of every sender, under any configuration. *)
AnyTarget ==
  UNION {ToSet(TargetsFor(k.routing, from)) :
           k \in IngressConfigs, from \in Senders \cup {NullSender}}

Session ==
  [phase : Phases, from : Senders \cup {NullSender}, to : Seq(Recipients),
   envelope_from : Senders \cup {NullSender}, recipients : Seq(Recipients),
   data : Seq(Chunks), todo : Seq(AnyTarget), accepted : Nat, txn : Nat]

Typed ==
  /\ config \in IngressConfigs
  /\ up \in BOOLEAN
  /\ session \in [Clients -> Session]
  /\ reply \in [1..MaxTxns -> Replies]
  /\ txns \in 0..MaxTxns
  /\ faults \in Nat

(* What a session of c is at any time: its transaction is its own, and it  *)
(* has come no further than c may.                                         *)
Proper(c, s) ==
  /\ s.phase \in {"mail", "rcpt", "data", "queueing"} =>
       /\ s.envelope_from = s.from /\ s.recipients = s.to
       /\ config.anonymous_enabled
  /\ s.phase \in {"rcpt", "data", "queueing"} => s.to # <<>>
  /\ s.phase \in {"hello", "mail", "rcpt", "data", "queueing"} => is_allowed(c)
  /\ s.txn \in 0..txns

(* The part of validate that is the same for every target of a message. *)
Worthy(s) == s.envelope_from # NullSender /\ subject_of(s) # <<>>

TargetsOf(s) == TargetsFor(config.routing, s.envelope_from)

(* What is left to do of the targets: their end. *)
Remaining(todo, targets) ==
  /\ Len(todo) <= Len(targets)
  /\ \A k \in 1..Len(todo) : todo[k] = targets[Len(targets) - Len(todo) + k]

(* Target k has its row. *)
Placed(rows, targets, k) == \E row \in rows : row.nth = k /\ Serves(row, targets[k])

(* A message while its targets are stored, one after the other: it has not *)
(* been answered, it is counted as accepted when a row exists, and unless  *)
(* an INSERT failed every target is stored or still to come.               *)
Pending(c) ==
  LET s == session[c]
  IN  s.phase = "queueing" =>
        /\ s.txn \in 1..txns /\ reply[s.txn] = "none"
        /\ s.accepted = 0 <=> RowsOf(s.txn) = {}
        /\ \A row \in RowsOf(s.txn) : row.sender = s.envelope_from
        /\ RowsOf(s.txn) # {} => Worthy(s)
        /\ s.todo \in Seq(ToSet(TargetsOf(s)))
        /\ Remaining(s.todo, TargetsOf(s))
        /\ faults = 0 /\ Worthy(s) =>
             \A k \in 1..(Len(TargetsOf(s)) - Len(s.todo)) :
               Placed(RowsOf(s.txn), TargetsOf(s), k)

(* A message belongs to one session. *)
OwnMessage ==
  \A c, d \in Clients :
    /\ session[c].phase = "queueing" /\ session[d].phase = "queueing"
    /\ session[c].txn = session[d].txn
    => c = d

(* Nothing is stored or answered for a message that has not ended. *)
NothingAhead ==
  /\ \A row \in queued : row.txn \in 1..txns
  /\ \A x \in 1..MaxTxns : x > txns => reply[x] = "none"

(* What message x was told is so. *)
Told(x) ==
  /\ reply[x] = "250" => RowsOf(x) # {} /\ (faults = 0 => FannedOut(x))
  /\ reply[x] \in {"451", "550", "554"} => RowsOf(x) = {}

IngressInv ==
  /\ Typed
  /\ \A c \in Clients : Proper(c, session[c]) /\ Pending(c)
  /\ OwnMessage
  /\ NothingAhead
  /\ \A x \in 1..MaxTxns : Told(x)
  /\ OnlyPermittedIsQueued
-----------------------------------------------------------------------------
(* Induction on the positions of a sequence: a set that has 0 and, with a   *)
(* position, the next one, has all of them.  (The least position outside    *)
(* it would have a predecessor inside.)                                     *)
LEMMA Induction ==
  ASSUME NEW n \in Nat, NEW S, 0 \in S,
         \A k \in 0..n : k \in S /\ k < n => k + 1 \in S
  PROVE  0..n \subseteq S
<1> DEFINE Missing == (0..n) \ S
<1>1. SUFFICES ASSUME Missing # {} PROVE FALSE
  OBVIOUS
<1>2. Missing \subseteq Nat
  OBVIOUS
<1>3. PICK k \in Missing : \A j \in Missing : ~ (<<j, k>> \in OpToRel(<, Nat))
  <2> HIDE DEF Missing
  <2> QED BY <1>1, <1>2, NatLessThanWellFounded, WFMin
<1>4. \A j \in Missing : ~ (j < k)
  BY <1>2, <1>3 DEF OpToRel
<1>5. k # 0 /\ k - 1 \in 0..n /\ k - 1 < n
  OBVIOUS
<1>6. k - 1 \in S
  BY <1>4, <1>5
<1> QED BY <1>5, <1>6

(* One more target of the filter. *)
Keep(done, target) == IF target.transport # Reject THEN Append(done, target) ELSE done

(* f is the course of the filter over the first n targets. *)
Filters(f, targets, n) ==
  f = [k \in 0..n |-> IF k = 0 THEN <<>> ELSE Keep(f[k - 1], targets[k])]

(* The filter has a course over every list of targets. *)
LEMMA FilterExists ==
  ASSUME NEW targets, NEW n \in Nat
  PROVE  \E f : Filters(f, targets, n)
<1> DEFINE S == {k \in 0..n : \E f : Filters(f, targets, k)}
<1>1. 0 \in S
  <2>1. Filters([k \in 0..0 |-> <<>>], targets, 0)
    BY DEF Filters
  <2> QED BY <2>1
<1>2. ASSUME NEW k \in 0..n, k \in S, k < n
      PROVE  k + 1 \in S
  <2>1. PICK f : Filters(f, targets, k)
    BY <1>2
  <2>2. k \in Nat /\ \A j \in 0..k : f[j] = IF j = 0 THEN <<>> ELSE Keep(f[j - 1], targets[j])
    BY <2>1 DEF Filters
  <2> DEFINE g == [j \in 0..(k + 1) |-> IF j = k + 1 THEN Keep(f[k], targets[k + 1]) ELSE f[j]]
  <2>3. ASSUME NEW j \in 0..(k + 1)
        PROVE  g[j] = IF j = 0 THEN <<>> ELSE Keep(g[j - 1], targets[j])
    <3>1. CASE j = k + 1
      BY <2>2, <3>1
    <3>2. CASE j # k + 1
      <4>1. j \in 0..k
        BY <3>2, <2>2
      <4>2. g[j] = f[j] /\ (j # 0 => g[j - 1] = f[j - 1])
        BY <2>2, <4>1
      <4> QED BY <2>2, <4>1, <4>2
    <3> QED BY <3>1, <3>2
  <2>4. Filters(g, targets, k + 1)
    <3>1. g = [j \in 0..(k + 1) |-> g[j]]
      OBVIOUS
    <3> HIDE DEF g
    <3> QED BY <2>3, <3>1 DEF Filters
  <2>5. \E x : Filters(x, targets, k + 1)
    BY <2>4
  <2> QED BY <1>2, <2>5
<1>3. 0..n \subseteq S
  <2> HIDE DEF S
  <2> QED BY <1>1, <1>2, Induction
<1> QED BY <1>3

(* What is left of a rule's targets delivers. *)
LEMMA DeliveringDelivers ==
  ASSUME NEW targets, targets \in Seq(ToSet(targets))
  PROVE  delivering(targets) \in Seq({t \in ToSet(targets) : t.transport # Reject})
<1> DEFINE n == Len(targets)
           T == {t \in ToSet(targets) : t.transport # Reject}
           upto == CHOOSE f : Filters(f, targets, n)
           S == {k \in 0..n : upto[k] \in Seq(T)}
<1>1. n \in Nat /\ \A k \in 1..n : targets[k] \in ToSet(targets)
  BY DEF ToSet
<1>2. Filters(upto, targets, n)
  <2> HIDE DEF n
  <2> QED BY <1>1, FilterExists
<1>3. delivering(targets) = upto[n]
  BY DEF delivering, Filters, Keep
<1> HIDE DEF upto, n
<1>4. \A k \in 0..n : upto[k] = IF k = 0 THEN <<>> ELSE Keep(upto[k - 1], targets[k])
  BY <1>2 DEF Filters
<1>5. 0 \in S
  <2>1. upto[0] = <<>>
    BY <1>1, <1>4
  <2>2. upto[0] \in Seq(T)
    <3> HIDE DEF T
    <3> QED BY <2>1
  <2> QED BY <1>1, <2>2
<1>6. ASSUME NEW k \in 0..n, k \in S, k < n
      PROVE  k + 1 \in S
  <2>1. upto[k] \in Seq(T) /\ k + 1 \in 1..n /\ targets[k + 1] \in ToSet(targets)
    BY <1>1, <1>6
  <2>2. upto[k + 1] = Keep(upto[k], targets[k + 1])
    BY <1>1, <1>4, <2>1
  <2>3. Keep(upto[k], targets[k + 1]) \in Seq(T)
    <3>1. CASE targets[k + 1].transport # Reject
      <4>1. targets[k + 1] \in T
        BY <2>1, <3>1
      <4> HIDE DEF T
      <4> QED BY <2>1, <3>1, <4>1 DEF Keep
    <3>2. CASE targets[k + 1].transport = Reject
      BY <2>1, <3>2 DEF Keep
    <3> QED BY <3>1, <3>2
  <2> QED BY <1>1, <2>1, <2>2, <2>3
<1>7. 0..n \subseteq S
  <2> HIDE DEF S
  <2> QED BY <1>1, <1>5, <1>6, Induction
<1> QED BY <1>1, <1>3, <1>7

(* A sequence over anything is one over its own elements. *)
LEMMA OwnElements ==
  ASSUME NEW T, NEW s \in Seq(T)
  PROVE  s \in Seq(ToSet(s)) /\ ToSet(s) \subseteq T
<1>1. \A i \in 1..Len(s) : s[i] \in ToSet(s) /\ s[i] \in T
  BY DEF ToSet
<1>2. s \in [1..Len(s) -> ToSet(s)]
  BY <1>1
<1>3. s \in Seq(ToSet(s))
  BY <1>2
<1> QED BY <1>1, <1>3 DEF ToSet

(* The transports that the rules name. *)
RuleNames(routing) ==
  {NoTransport} \cup UNION {{rule.transport} \cup {t.transport : t \in ToSet(rule.targets)} :
                             rule \in RulesOf(routing)}

(* The targets of a sender are a list; none of them is "reject", and all    *)
(* are named by the rules.                                                  *)
LEMMA TargetsDeliver ==
  ASSUME NEW k \in IngressConfigs, NEW from, NEW ts, ts = TargetsFor(k.routing, from)
  PROVE  /\ ts \in Seq(ToSet(ts))
         /\ \A t \in ToSet(ts) : t.transport \in RuleNames(k.routing) \ {Reject}
<1>1. CASE ~ is_active(k.routing)
  <2>1. ts = <<RouteTarget(NoTransport, <<>>)>>
    BY <1>1 DEF TargetsFor
  <2>2. ts \in Seq({RouteTarget(NoTransport, <<>>)})
    BY <2>1
  <2>3. ToSet(ts) \subseteq {RouteTarget(NoTransport, <<>>)} /\ ts \in Seq(ToSet(ts))
    BY <2>2, OwnElements
  <2> QED BY <2>3, RoutingAssumption DEF RouteTarget, RuleNames
<1>2. ASSUME NEW rule \in RulesOf(k.routing), ts = expand(rule)
      PROVE  /\ ts \in Seq(ToSet(ts))
             /\ \A t \in ToSet(ts) : t.transport \in RuleNames(k.routing) \ {Reject}
  <2>1. CASE rule.targets # <<>>
    <3> DEFINE T == {t \in ToSet(rule.targets) : t.transport # Reject}
    <3>1. rule.targets \in Seq(ToSet(rule.targets))
      BY IngressAssumption DEF IngressConstants
    <3>2. ts \in Seq(T)
      BY <1>2, <2>1, <3>1, DeliveringDelivers DEF expand
    <3>3. ToSet(ts) \subseteq T /\ ts \in Seq(ToSet(ts))
      <4> HIDE DEF T
      <4> QED BY <3>2, OwnElements
    <3> QED BY <3>3 DEF RuleNames
  <2>2. CASE rule.targets = <<>> /\ rule.transport \in {NoTransport, Reject}
    BY <1>2, <2>2 DEF expand, ToSet
  <2>3. CASE rule.targets = <<>> /\ rule.transport \notin {NoTransport, Reject}
    <3> DEFINE t0 == RouteTarget(rule.transport, rule.recipients)
    <3>1. ts = <<t0>> /\ t0.transport = rule.transport /\ t0.transport # Reject
      BY <1>2, <2>3 DEF expand, RouteTarget
    <3> HIDE DEF t0
    <3>2. ts \in Seq({t0})
      BY <3>1
    <3>3. ToSet(ts) \subseteq {t0} /\ ts \in Seq(ToSet(ts))
      BY <3>2, OwnElements
    <3> QED BY <3>1, <3>3 DEF RuleNames
  <2> QED BY <2>1, <2>2, <2>3
<1>3. CASE is_active(k.routing)
  <2>1. ts = resolve(k.routing, from)
    BY <1>3 DEF TargetsFor
  <2>2. ts = RejectRoute \/ \E rule \in RulesOf(k.routing) : ts = expand(rule)
    BY <2>1 DEF resolve, RulesOf
  <2>3. CASE ts = RejectRoute
    BY <2>3 DEF RejectRoute, ToSet
  <2> QED BY <1>2, <2>2, <2>3
<1> QED BY <1>1, <1>3

(* The first of the remaining targets, and what remains after it. *)
LEMMA HeadAndTail ==
  ASSUME NEW T, NEW s \in Seq(T), s # <<>>, NEW ts \in Seq(T), Remaining(s, ts)
  PROVE  /\ Head(s) \in T /\ Tail(s) \in Seq(T)
         /\ Remaining(Tail(s), ts) /\ Len(Tail(s)) = Len(s) - 1
         /\ Len(ts) - Len(s) + 1 \in DOMAIN ts /\ Head(s) = ts[Len(ts) - Len(s) + 1]
<1>1. /\ Head(s) \in T /\ Tail(s) \in Seq(T) /\ Head(s) = s[1]
      /\ Len(s) \in Nat \ {0} /\ Len(ts) \in Nat /\ Len(Tail(s)) = Len(s) - 1
      /\ DOMAIN ts = 1..Len(ts)
      /\ \A k \in 1..(Len(s) - 1) : Tail(s)[k] = s[k + 1]
  OBVIOUS
<1>2. Len(s) <= Len(ts) /\ \A k \in 1..Len(s) : s[k] = ts[Len(ts) - Len(s) + k]
  BY DEF Remaining
<1>3. ASSUME NEW k \in 1..Len(Tail(s))
      PROVE  Tail(s)[k] = ts[Len(ts) - Len(Tail(s)) + k]
  <2>1. k + 1 \in 1..Len(s) /\ Tail(s)[k] = s[k + 1]
    BY <1>1
  <2>2. Len(ts) - Len(s) + (k + 1) = Len(ts) - Len(Tail(s)) + k
    BY <1>1
  <2> QED BY <1>2, <2>1, <2>2
<1>4. Remaining(Tail(s), ts)
  BY <1>1, <1>2, <1>3 DEF Remaining
<1> QED BY <1>1, <1>2, <1>4
-----------------------------------------------------------------------------
(* What a session begins with. *)
LEMMA NothingYet ==
  <<>> \in Seq(Recipients) /\ <<>> \in Seq(Chunks) /\ <<>> \in Seq(AnyTarget)
OBVIOUS

(* A session at its start is a session. *)
LEMMA FreshSession ==
  ASSUME NEW phase \in Phases
  PROVE  NewSession(phase) \in Session
BY DEF NewSession, Session

(* Nobody is connected and nothing is stored at first. *)
LEMMA IngressInit == Init => IngressInv
<1> SUFFICES ASSUME Init PROVE IngressInv
  OBVIOUS
<1> USE DEF Init, InitUp
<1>1. NewSession("closed") \in Session /\ NewSession("closed").phase = "closed"
        /\ NewSession("closed").txn = 0
  BY FreshSession DEF Phases, NewSession
<1>2. Typed
  BY <1>1, IngressAssumption DEF IngressConstants, Typed, Replies
<1>3. \A c \in Clients : Proper(c, session[c]) /\ Pending(c)
  BY <1>1 DEF Proper, Pending
<1>4. OwnMessage
  BY <1>1 DEF OwnMessage
<1>5. NothingAhead /\ (\A x \in 1..MaxTxns : Told(x)) /\ OnlyPermittedIsQueued
  BY DEF NothingAhead, Told, OnlyPermittedIsQueued
<1> QED BY <1>2, <1>3, <1>4, <1>5 DEF IngressInv

(* A message on its way is not touched by what happens to the others. *)
LEMMA PendingStays ==
  ASSUME IngressInv, NEW d \in Clients,
         session'[d] = session[d], config' = config, txns' \in Nat, txns <= txns',
         faults' = 0 => faults = 0,
         session[d].phase = "queueing" =>
           /\ reply'[session[d].txn] = reply[session[d].txn]
           /\ \A row : row.txn = session[d].txn => (row \in queued' <=> row \in queued)
  PROVE  Pending(d)'
<1>1. CASE session[d].phase # "queueing"
  BY <1>1 DEF Pending
<1>2. CASE session[d].phase = "queueing"
  <2>1. PICK s : s = session[d]
    OBVIOUS
  <2>2. Worthy(s)' = Worthy(s) /\ TargetsOf(s)' = TargetsOf(s)
    BY DEF Worthy, TargetsOf, subject_of, original_of, extract_name
  <2>3. RowsOf(s.txn)' = RowsOf(s.txn)
    BY <1>2, <2>1 DEF RowsOf
  <2>5. Pending(d) /\ txns \in Nat
    BY IngressAssumption DEF IngressConstants, IngressInv, Typed
  <2>6. s.txn \in 1..txns /\ reply[s.txn] = "none"
    BY <1>2, <2>1, <2>5 DEF Pending
  <2>7. s.txn \in 1..txns' /\ reply'[s.txn] = "none"
    BY <1>2, <2>1, <2>5, <2>6
  <2> QED BY <1>2, <2>1, <2>2, <2>3, <2>5, <2>7 DEF Pending
<1> QED BY <1>1, <1>2

(* So is what a message was told before. *)
LEMMA ToldStays ==
  ASSUME NEW x, Told(x), reply'[x] = reply[x], config' = config, faults' = 0 => faults = 0,
         reply[x] # "none" => RowsOf(x)' = RowsOf(x)
  PROVE  Told(x)'
BY DEF Told, FannedOut

(* A step of one session that stores and answers nothing. *)
LEMMA SessionStepKeeps ==
  ASSUME IngressInv, NEW c \in Clients, NEW s \in Session,
         Proper(c, s), s.phase # "queueing", SessionStep(c, s)
  PROVE  IngressInv'
<1> USE DEF IngressInv, SessionStep
<1>1. Typed'
  BY DEF Typed
<1>2. session' \in [Clients -> Session] /\ session'[c] = s
        /\ \A d \in Clients : d # c => session'[d] = session[d]
  BY DEF Typed
<1>3. ASSUME NEW d \in Clients PROVE Proper(d, session[d])' /\ Pending(d)'
  <2>1. CASE d = c
    BY <1>2, <2>1 DEF Proper, Pending, is_allowed
  <2>2. CASE d # c
    <3>1. Proper(d, session[d])'
      BY <1>2, <2>2 DEF Proper, is_allowed
    <3>2. Pending(d)'
      BY <1>2, <2>2, PendingStays, IngressAssumption DEF IngressConstants, Typed
    <3> QED BY <3>1, <3>2
  <2> QED BY <2>1, <2>2
<1>4. OwnMessage'
  BY <1>2 DEF OwnMessage
<1>5. NothingAhead' /\ (\A x \in 1..MaxTxns : Told(x)') /\ OnlyPermittedIsQueued'
  BY ToldStays DEF NothingAhead, OnlyPermittedIsQueued, RowsOf
<1> QED BY <1>1, <1>3, <1>4, <1>5

(* A connection that is cut off. *)
LEMMA ClosingKeeps ==
  ASSUME IngressInv, NEW c \in Clients, SessionStep(c, NewSession("closed"))
  PROVE  IngressInv'
<1>1. PICK s : s = NewSession("closed")
  OBVIOUS
<1>2. s \in Session /\ s.phase = "closed" /\ s.txn = 0 /\ txns \in Nat
  BY <1>1, FreshSession, IngressAssumption DEF IngressConstants, NewSession, Phases, IngressInv, Typed
<1>3. Proper(c, s)
  BY <1>2 DEF Proper
<1> QED BY <1>1, <1>2, <1>3, SessionStepKeeps

(* A command that is refused. *)
LEMMA RefusalKeeps ==
  ASSUME IngressInv, NEW c \in Clients, NEW s \in Session,
         Proper(c, s), s.phase # "queueing", Refuse(c, s)
  PROVE  IngressInv'
BY SessionStepKeeps, ClosingKeeps DEF Refuse

(* The commands of a client. *)
LEMMA CommandKeeps ==
  ASSUME IngressInv, NEW c \in Clients, Command(c)
  PROVE  IngressInv'
<1>1. session[c] \in Session /\ Proper(c, session[c])
  BY DEF IngressInv, Typed
<1>2. CASE Connect(c)
  <2>1. PICK s : s = NewSession("connected")
    OBVIOUS
  <2>2. s \in Session /\ s.phase = "connected" /\ s.txn = 0 /\ txns \in Nat
    BY <2>1, FreshSession, IngressAssumption DEF IngressConstants, NewSession, Phases, IngressInv, Typed
  <2>3. Proper(c, s)
    BY <2>2 DEF Proper
  <2> QED BY <1>2, <2>1, <2>2, <2>3, SessionStepKeeps DEF Connect
<1>3. CASE helo(c)
  <2>1. CASE ~ is_allowed(c)
    BY <1>1, <1>3, <2>1, RefusalKeeps DEF helo
  <2>2. CASE is_allowed(c)
    <3>1. PICK s : s = [session[c] EXCEPT !.phase = "hello", !.from = NullSender, !.to = <<>>]
      OBVIOUS
    <3>2. s \in Session /\ s.phase = "hello" /\ s.txn = session[c].txn
      BY <1>1, <3>1, NothingYet DEF Session, Phases
    <3>3. Proper(c, s)
      BY <1>1, <2>2, <3>2 DEF Proper
    <3>4. SessionStep(c, s)
      BY <1>3, <2>2, <3>1 DEF helo
    <3> QED BY <3>2, <3>3, <3>4, SessionStepKeeps
  <2> QED BY <2>1, <2>2
<1>4. CASE Rset(c)
  <2>1. PICK s : s = [session[c] EXCEPT !.phase = "hello", !.from = NullSender, !.to = <<>>]
    OBVIOUS
  <2>2. s \in Session /\ s.phase = "hello" /\ s.txn = session[c].txn
    BY <1>1, <2>1, NothingYet DEF Session, Phases
  <2>3. Proper(c, s)
    BY <1>1, <1>4, <2>2 DEF Proper, Rset
  <2>4. SessionStep(c, s)
    BY <1>4, <2>1 DEF Rset
  <2> QED BY <2>2, <2>3, <2>4, SessionStepKeeps
<1>5. CASE data_start(c)
  <2>1. PICK s : s = [session[c] EXCEPT !.phase = "data", !.data = <<>>]
    OBVIOUS
  <2>2. /\ s \in Session /\ s.phase = "data" /\ s.txn = session[c].txn
        /\ s.from = session[c].from /\ s.to = session[c].to
        /\ s.envelope_from = session[c].envelope_from
        /\ s.recipients = session[c].recipients
    BY <1>1, <2>1, NothingYet DEF Session, Phases
  <2>3. Proper(c, s)
    BY <1>1, <1>5, <2>2 DEF Proper, data_start
  <2>4. SessionStep(c, s)
    BY <1>5, <2>1 DEF data_start
  <2> QED BY <2>2, <2>3, <2>4, SessionStepKeeps
<1>6. CASE Disconnect(c)
  BY <1>6, ClosingKeeps DEF Disconnect
<1>7. ASSUME NEW from \in Senders \cup {NullSender}, mail(c, from)
      PROVE  IngressInv'
  <2>1. session[c].phase = "hello" /\ "mail" \in Phases
    BY <1>7 DEF mail, Phases
  <2>2. CASE ~ is_allowed(c)
    BY <1>1, <1>7, <2>1, <2>2, RefusalKeeps DEF mail
  <2>3. CASE is_allowed(c)
    <3>1. PICK fresh : fresh = [session[c] EXCEPT !.envelope_from = from,
                                                  !.recipients = <<>>, !.data = <<>>]
      OBVIOUS
    <3>2. fresh \in Session /\ fresh.phase = "hello" /\ fresh.txn = session[c].txn
      BY <1>1, <2>1, <3>1, NothingYet DEF Session
    <3>3. CASE ~ config.anonymous_enabled
      <4>1. Proper(c, fresh)
        BY <1>1, <2>3, <3>2 DEF Proper
      <4>2. Refuse(c, fresh)
        BY <1>7, <2>3, <3>1, <3>3 DEF mail
      <4> QED BY <3>2, <4>1, <4>2, RefusalKeeps
    <3>4. CASE config.anonymous_enabled
      <4>1. PICK s : s = [fresh EXCEPT !.phase = "mail", !.from = from, !.to = <<>>]
        OBVIOUS
      <4>2. /\ s \in Session /\ s.phase = "mail" /\ s.txn = session[c].txn
            /\ s.from = from /\ s.to = <<>>
            /\ s.envelope_from = from /\ s.recipients = <<>>
        BY <1>1, <2>1, <3>1, <4>1, NothingYet DEF Session
      <4>3. Proper(c, s)
        BY <1>1, <2>3, <3>4, <4>2 DEF Proper
      <4>4. SessionStep(c, s)
        BY <1>7, <2>3, <3>1, <3>4, <4>1 DEF mail
      <4> QED BY <4>2, <4>3, <4>4, SessionStepKeeps
    <3> QED BY <3>3, <3>4
  <2> QED BY <2>2, <2>3
<1>8. ASSUME NEW to \in Recipients, rcpt(c, to)
      PROVE  IngressInv'
  <2>1. PICK s : s = [session[c] EXCEPT !.phase = "rcpt", !.to = Append(@, to),
                                        !.recipients = Append(@, to)]
    OBVIOUS
  <2>2. session[c].to \in Seq(Recipients) /\ session[c].recipients \in Seq(Recipients)
    BY <1>1 DEF Session
  <2>3. /\ Append(session[c].to, to) \in Seq(Recipients)
        /\ Append(session[c].recipients, to) \in Seq(Recipients)
    BY <2>2
  <2>4. /\ s \in Session /\ s.phase = "rcpt" /\ s.txn = session[c].txn
        /\ s.from = session[c].from /\ s.to = Append(session[c].to, to)
        /\ s.envelope_from = session[c].envelope_from
        /\ s.recipients = Append(session[c].recipients, to)
    BY <1>1, <2>1, <2>3 DEF Session, Phases
  <2>5. s.to # <<>>
    BY <2>2, <2>4
  <2>6. Proper(c, s)
    BY <1>1, <1>8, <2>4, <2>5 DEF Proper, rcpt
  <2>7. SessionStep(c, s)
    BY <1>8, <2>1 DEF rcpt
  <2> QED BY <2>4, <2>6, <2>7, SessionStepKeeps
<1>9. ASSUME NEW buf \in Chunks, data(c, buf)
      PROVE  IngressInv'
  <2>1. PICK s : s = [session[c] EXCEPT !.data = Append(@, buf)]
    OBVIOUS
  <2>2. session[c].data \in Seq(Chunks)
    BY <1>1 DEF Session
  <2>3. Append(session[c].data, buf) \in Seq(Chunks)
    BY <2>2
  <2>4. /\ s \in Session /\ s.phase = session[c].phase /\ s.txn = session[c].txn
        /\ s.from = session[c].from /\ s.to = session[c].to
        /\ s.envelope_from = session[c].envelope_from
        /\ s.recipients = session[c].recipients
    BY <1>1, <2>1, <2>3 DEF Session
  <2>5. Proper(c, s) /\ s.phase # "queueing"
    BY <1>1, <1>9, <2>4 DEF Proper, data
  <2>6. SessionStep(c, s)
    BY <1>9, <2>1 DEF data
  <2> QED BY <2>4, <2>5, <2>6, SessionStepKeeps
<1> QED BY <1>2, <1>3, <1>4, <1>5, <1>6, <1>7, <1>8, <1>9 DEF Command

(* The session that has been answered. *)
LEMMA AnsweredIsProper ==
  ASSUME IngressInv, NEW c \in Clients, session[c].phase \in {"data", "queueing"},
         NEW a, a = Answered(session[c])
  PROVE  a \in Session /\ a.phase = "hello" /\ a.txn = 0 /\ is_allowed(c)
<1>1. session[c] \in Session /\ Proper(c, session[c])
  BY DEF IngressInv, Typed
<1>2. is_allowed(c)
  BY <1>1 DEF Proper
<1>3. a \in Session /\ a.phase = "hello" /\ a.txn = 0
  BY <1>1, NothingYet DEF Answered, Session, Phases
<1> QED BY <1>2, <1>3

(* The end of a message: it is refused, or its targets are worked through. *)
LEMMA DataEndKeeps ==
  ASSUME IngressInv, NEW c \in Clients, data_end(c)
  PROVE  IngressInv'
<1>1. PICK s, x : s = session[c] /\ x = txns + 1
  OBVIOUS
<1>2. PICK targets : targets = TargetsFor(config.routing, s.envelope_from)
  OBVIOUS
<1>3. /\ s \in Session /\ Proper(c, s) /\ s.phase = "data"
      /\ session \in [Clients -> Session]
  BY <1>1 DEF IngressInv, Typed, data_end
<1>4. /\ txns \in Nat /\ x \in 1..MaxTxns /\ MaxTxns \in Nat /\ txns' = x
      /\ UNCHANGED <<config, up, queued, faults>>
  BY <1>1, IngressAssumption DEF IngressConstants, IngressInv, Typed, data_end
<1>5. RowsOf(x) = {} /\ RowsOf(x)' = {}
  BY <1>1, <1>4 DEF IngressInv, NothingAhead, RowsOf
<1>6. \A d \in Clients : session[d].phase = "queueing" => session[d].txn \in 1..txns
  BY DEF IngressInv, Pending
<1>7. ASSUME NEW y, RowsOf(y)' # RowsOf(y) PROVE FALSE
  BY <1>4, <1>7 DEF RowsOf
<1>8. ASSUME NEW new \in Session, session' = [session EXCEPT ![c] = new],
             reply' \in [1..MaxTxns -> Replies],
             \A y \in 1..MaxTxns : y # x => reply'[y] = reply[y],
             Told(x)', Proper(c, new)', Pending(c)',
             new.phase = "queueing" => new.txn = x
      PROVE  IngressInv'
  <2>1. Typed'
    BY <1>3, <1>4, <1>8 DEF IngressInv, Typed
  <2>2. ASSUME NEW d \in Clients, d # c PROVE session'[d] = session[d]
    BY <1>3, <1>8, <2>2
  <2>3. session'[c] = new
    BY <1>3, <1>8
  <2>4. ASSUME NEW d \in Clients PROVE Proper(d, session[d])' /\ Pending(d)'
    <3>1. CASE d = c
      <4>1. Proper(c, session[c])'
        BY <1>8, <2>3 DEF Proper, is_allowed
      <4> QED BY <1>8, <3>1, <4>1
    <3>2. CASE d # c
      <4>1. session'[d] = session[d]
        BY <2>2, <3>2
      <4>2. Proper(d, session[d])'
        <5>1. Proper(d, session[d])
          BY DEF IngressInv
        <5> QED BY <1>1, <1>4, <4>1, <5>1 DEF Proper, is_allowed
      <4>3. session[d].phase = "queueing" =>
              /\ reply'[session[d].txn] = reply[session[d].txn]
              /\ \A row : row.txn = session[d].txn => (row \in queued' <=> row \in queued)
        BY <1>1, <1>4, <1>6, <1>8
      <4>4. Pending(d)'
        BY <1>1, <1>4, <4>1, <4>3, PendingStays
      <4> QED BY <4>2, <4>4
    <3> QED BY <3>1, <3>2
  <2>5. OwnMessage'
    <3>1. ASSUME NEW d \in Clients, d # c, session'[d].phase = "queueing"
          PROVE  session'[d].txn # x
      BY <1>1, <1>4, <1>6, <2>2, <3>1
    <3>2. ASSUME NEW d \in Clients, NEW e \in Clients,
                 session'[d].phase = "queueing", session'[e].phase = "queueing",
                 session'[d].txn = session'[e].txn
          PROVE  d = e
      <4>1. CASE d = c \/ e = c
        BY <1>8, <2>3, <3>1, <3>2, <4>1
      <4>2. CASE d # c /\ e # c
        BY <2>2, <3>2, <4>2 DEF IngressInv, OwnMessage
      <4> QED BY <4>1, <4>2
    <3> QED BY <3>2 DEF OwnMessage
  <2>6. NothingAhead'
    BY <1>1, <1>4, <1>8 DEF IngressInv, NothingAhead
  <2>7. ASSUME NEW y \in 1..MaxTxns PROVE Told(y)'
    <3>1. CASE y = x
      BY <1>8, <3>1
    <3>2. CASE y # x
      BY <1>4, <1>7, <1>8, <3>2, ToldStays DEF IngressInv
    <3> QED BY <3>1, <3>2
  <2>8. OnlyPermittedIsQueued'
    BY <1>4 DEF IngressInv, OnlyPermittedIsQueued
  <2> QED BY <2>1, <2>4, <2>5, <2>6, <2>7, <2>8 DEF IngressInv
<1>9. CASE ~ parses(s) \/ targets = RejectRoute
  <2>1. PICK new : new = Answered(s)
    OBVIOUS
  <2>2. new \in Session /\ new.phase = "hello" /\ new.txn = 0 /\ is_allowed(c)
    BY <1>1, <1>3, <2>1, AnsweredIsProper
  <2>3. PICK refusal \in {"550", "554"} : reply' = [reply EXCEPT ![x] = refusal]
    BY <1>1, <1>2, <1>9 DEF data_end
  <2>4. reply \in [1..MaxTxns -> Replies]
    BY DEF IngressInv, Typed
  <2>5. session' = [session EXCEPT ![c] = new]
    BY <1>1, <1>2, <1>9, <2>1 DEF data_end
  <2>6. /\ reply' \in [1..MaxTxns -> Replies] /\ reply'[x] \in {"550", "554"}
        /\ \A y \in 1..MaxTxns : y # x => reply'[y] = reply[y]
    BY <1>4, <2>3, <2>4 DEF Replies
  <2>7. Told(x)'
    BY <1>5, <2>6 DEF Told
  <2>8. Proper(c, new)'
    BY <1>4, <2>2 DEF Proper, is_allowed
  <2>9. Pending(c)'
    BY <1>3, <2>2, <2>5 DEF Pending
  <2> QED BY <1>8, <2>2, <2>5, <2>6, <2>7, <2>8, <2>9
<1>10. CASE ~ (~ parses(s) \/ targets = RejectRoute)
  <2>1. PICK new : new = [s EXCEPT !.phase = "queueing", !.todo = targets,
                                   !.accepted = 0, !.txn = x]
    OBVIOUS
  <2>2. /\ targets \in Seq(ToSet(targets)) /\ config \in IngressConfigs
        /\ s.envelope_from \in Senders \cup {NullSender}
    BY <1>2, <1>3, TargetsDeliver DEF IngressInv, Typed, Session
  <2>3. targets \in Seq(AnyTarget)
    <3>1. ToSet(targets) \subseteq AnyTarget
      BY <1>2, <2>2 DEF AnyTarget
    <3>2. \A i \in 1..Len(targets) : targets[i] \in AnyTarget
      BY <2>2, <3>1
    <3> QED BY <2>2, <3>2
  <2>4. /\ new \in Session /\ new.phase = "queueing" /\ new.txn = x /\ new.accepted = 0
        /\ new.todo = targets /\ new.from = s.from /\ new.to = s.to
        /\ new.envelope_from = s.envelope_from /\ new.recipients = s.recipients
    <3>1. x \in Nat /\ s \in Session /\ "queueing" \in Phases
      BY <1>3, <1>4 DEF Phases
    <3>2. new \in Session
      BY ONLY <2>1, <2>3, <3>1 DEF Session
    <3>3. /\ new.phase = "queueing" /\ new.txn = x /\ new.accepted = 0
          /\ new.todo = targets /\ new.from = s.from /\ new.to = s.to
          /\ new.envelope_from = s.envelope_from /\ new.recipients = s.recipients
      BY ONLY <2>1, <3>1 DEF Session
    <3> QED BY <3>2, <3>3
  <2>5. session' = [session EXCEPT ![c] = new] /\ reply' = reply
    BY <1>1, <1>2, <1>10, <2>1 DEF data_end
  <2>6. reply' \in [1..MaxTxns -> Replies] /\ reply'[x] = "none"
    BY <1>1, <1>4, <2>5 DEF IngressInv, Typed, NothingAhead
  <2>7. Told(x)'
    BY <2>6 DEF Told
  <2>8. Proper(c, new)'
    BY <1>3, <1>4, <2>4 DEF Proper, is_allowed
  <2>9. Pending(c)'
    <3>1. session'[c] = new
      BY <1>3, <2>5
    <3>2. TargetsOf(new)' = targets
      BY <1>2, <1>4, <2>4 DEF TargetsOf
    <3>3. Remaining(targets, targets) /\ 1..(Len(targets) - Len(targets)) = {}
      BY <2>2 DEF Remaining
    <3>4. new.txn \in 1..txns'
      BY <1>4, <2>4
    <3> QED BY <1>5, <2>2, <2>4, <2>6, <3>1, <3>2, <3>3, <3>4 DEF Pending
  <2> QED BY <1>8, <2>4, <2>5, <2>6, <2>7, <2>8, <2>9
<1> QED BY <1>9, <1>10

(* The rest of a session that stores the rows of its message. *)
LEMMA OthersWait ==
  ASSUME IngressInv, NEW c \in Clients, session[c].phase = "queueing",
         NEW new \in Session, session' = [session EXCEPT ![c] = new],
         reply' \in [1..MaxTxns -> Replies], faults' \in Nat, faults' = 0 => faults = 0,
         UNCHANGED <<config, up, txns>>,
         new.phase = "queueing" => new.txn = session[c].txn,
         \A y \in 1..MaxTxns : y # session[c].txn => reply'[y] = reply[y],
         \A row : row.txn # session[c].txn => (row \in queued' <=> row \in queued),
         Proper(c, new), Pending(c)', NEW x, x = session[c].txn, Told(x)',
         OnlyPermittedIsQueued'
  PROVE  IngressInv'
<1>1. /\ session \in [Clients -> Session] /\ txns \in Nat /\ txns <= MaxTxns /\ MaxTxns \in Nat
      /\ Pending(c)
  BY IngressAssumption DEF IngressConstants, IngressInv, Typed
<1>2. x \in 1..txns /\ reply[x] = "none"
  BY <1>1 DEF Pending
<1>3. session'[c] = new /\ \A d \in Clients : d # c => session'[d] = session[d]
  BY <1>1
<1>4. Typed'
  BY <1>1 DEF IngressInv, Typed
<1>5. ASSUME NEW d \in Clients, d # c, session[d].phase = "queueing"
      PROVE  session[d].txn \in 1..txns /\ session[d].txn # x
  BY <1>5 DEF IngressInv, Pending, OwnMessage
<1>6. ASSUME NEW d \in Clients PROVE Proper(d, session[d])' /\ Pending(d)'
  <2>1. CASE d = c
    <3>1. Proper(c, session[c])'
      BY <1>3 DEF Proper, is_allowed
    <3> QED BY <2>1, <3>1
  <2>2. CASE d # c
    <3>1. session'[d] = session[d] /\ Proper(d, session[d])
      BY <1>3, <2>2 DEF IngressInv
    <3>2. Proper(d, session[d])'
      BY <3>1 DEF Proper, is_allowed
    <3>3. session[d].phase = "queueing" =>
            /\ reply'[session[d].txn] = reply[session[d].txn]
            /\ \A row : row.txn = session[d].txn => (row \in queued' <=> row \in queued)
      BY <1>1, <1>5, <2>2
    <3>4. Pending(d)'
      BY <1>1, <3>1, <3>3, PendingStays
    <3> QED BY <3>2, <3>4
  <2> QED BY <2>1, <2>2
<1>7. OwnMessage'
  <2>1. ASSUME NEW d \in Clients, NEW e \in Clients,
               session'[d].phase = "queueing", session'[e].phase = "queueing",
               session'[d].txn = session'[e].txn
        PROVE  d = e
    <3>1. ASSUME NEW f \in Clients, session'[f].phase = "queueing"
          PROVE  session[f].phase = "queueing" /\ session'[f].txn = session[f].txn
      BY <1>3, <3>1
    <3> QED BY <2>1, <3>1 DEF IngressInv, OwnMessage
  <2> QED BY <2>1 DEF OwnMessage
<1>8. NothingAhead'
  <2>1. ASSUME NEW row \in queued' PROVE row.txn \in 1..txns'
    BY <1>2 DEF IngressInv, NothingAhead
  <2>2. ASSUME NEW y \in 1..MaxTxns, y > txns' PROVE reply'[y] = "none"
    BY <1>1, <1>2, <2>2 DEF IngressInv, NothingAhead
  <2> QED BY <2>1, <2>2 DEF NothingAhead
<1>9. ASSUME NEW y \in 1..MaxTxns PROVE Told(y)'
  <2>1. CASE y = x
    BY <2>1
  <2>2. CASE y # x
    <3>1. RowsOf(y)' = RowsOf(y)
      BY <2>2 DEF RowsOf
    <3> QED BY <2>2, <3>1, ToldStays DEF IngressInv
  <2> QED BY <2>1, <2>2
<1> QED BY <1>4, <1>6, <1>7, <1>8, <1>9 DEF IngressInv

(* A target that is not stored: its payload is not valid, and then no other *)
(* is, or the INSERT failed.                                                *)
LEMMA SkipKeeps ==
  ASSUME IngressInv, NEW c \in Clients, session[c].phase = "queueing",
         NEW x, x = session[c].txn, session[c].todo # <<>>,
         session' = [session EXCEPT ![c] = [session[c] EXCEPT !.todo = Tail(session[c].todo)]],
         faults' \in Nat, faults' = 0 => faults = 0 /\ ~ Worthy(session[c]),
         UNCHANGED <<config, up, queued, reply, txns>>
  PROVE  IngressInv'
<1>1. PICK s, new : s = session[c] /\ new = [s EXCEPT !.todo = Tail(s.todo)]
  OBVIOUS
<1>2. /\ s \in Session /\ Proper(c, s) /\ Pending(c) /\ txns \in Nat /\ txns <= MaxTxns
      /\ reply \in [1..MaxTxns -> Replies] /\ session \in [Clients -> Session]
      /\ MaxTxns \in Nat
  BY <1>1, IngressAssumption DEF IngressConstants, IngressInv, Typed
<1>3. s.todo \in Seq(AnyTarget) /\ Tail(s.todo) \in Seq(AnyTarget)
  BY <1>1, <1>2 DEF Session
<1>4. /\ s.todo \in Seq(ToSet(TargetsOf(s))) /\ TargetsOf(s) \in Seq(ToSet(TargetsOf(s)))
      /\ Remaining(s.todo, TargetsOf(s))
  BY <1>1, <1>2, TargetsDeliver DEF Pending, TargetsOf, IngressInv, Typed
<1>5. Tail(s.todo) \in Seq(ToSet(TargetsOf(s))) /\ Remaining(Tail(s.todo), TargetsOf(s))
  BY <1>1, <1>4, HeadAndTail
<1>6. new \in Session
  BY ONLY <1>1, <1>2, <1>3 DEF Session
<1>7. /\ new.phase = s.phase /\ new.from = s.from /\ new.to = s.to /\ new.txn = s.txn
      /\ new.envelope_from = s.envelope_from /\ new.recipients = s.recipients
      /\ new.accepted = s.accepted /\ new.data = s.data /\ new.todo = Tail(s.todo)
  BY ONLY <1>1, <1>2 DEF Session
<1>8. Proper(c, new)
  BY <1>2, <1>7 DEF Proper
<1>9. x \in 1..MaxTxns /\ Told(x)'
  <2>1. x \in 1..MaxTxns /\ reply[x] = "none"
    BY <1>1, <1>2 DEF Pending
  <2> QED BY <2>1 DEF Told
<1>10. Pending(c)'
  <2>1. session'[c] = new
    BY <1>1, <1>2
  <2>2. TargetsOf(new)' = TargetsOf(s) /\ Worthy(new)' = Worthy(s)
    BY <1>7 DEF TargetsOf, Worthy, subject_of, original_of, extract_name
  <2>3. RowsOf(s.txn)' = RowsOf(s.txn)
    BY DEF RowsOf
  <2>5. /\ s.txn \in 1..txns /\ reply[s.txn] = "none"
        /\ s.accepted = 0 <=> RowsOf(s.txn) = {}
        /\ \A row \in RowsOf(s.txn) : row.sender = s.envelope_from
        /\ RowsOf(s.txn) # {} => Worthy(s)
    BY <1>1, <1>2 DEF Pending
  <2>6. ~ (faults' = 0 /\ Worthy(s))
    BY <1>1
  <2> QED BY <1>5, <1>7, <2>1, <2>2, <2>3, <2>5, <2>6 DEF Pending
<1>11. OnlyPermittedIsQueued'
  BY DEF IngressInv, OnlyPermittedIsQueued
<1> QED BY <1>1, <1>2, <1>6, <1>7, <1>8, <1>9, <1>10, <1>11, OthersWait

(* The targets of a message are all valid or none is: only the recipients   *)
(* could differ, and a message has some of its own.                         *)
LEMMA AllOrNone ==
  ASSUME NEW c, NEW s, Proper(c, s), s.phase = "queueing", NEW target
  PROVE  validate(s, target) <=> Worthy(s)
BY DEF Proper, validate, Worthy, payload_to

(* A target that is stored. *)
LEMMA StoreKeeps ==
  ASSUME IngressInv, NEW c \in Clients, NEW s, s = session[c], s.phase = "queueing",
         NEW x, x = s.txn, s.todo # <<>>, NEW target, target = Head(s.todo),
         validate(s, target), NEW new,
         new = [[s EXCEPT !.todo = Tail(s.todo)] EXCEPT !.accepted = @ + 1],
         session' = [session EXCEPT ![c] = new],
         NEW row, row = RowFor(c, target), queued' = queued \cup {row},
         UNCHANGED <<config, up, reply, txns, faults>>
  PROVE  IngressInv'
<1>1. /\ s \in Session /\ Proper(c, s) /\ Pending(c) /\ txns \in Nat /\ txns <= MaxTxns
      /\ reply \in [1..MaxTxns -> Replies] /\ session \in [Clients -> Session]
      /\ MaxTxns \in Nat /\ faults \in Nat /\ config \in IngressConfigs
  BY IngressAssumption DEF IngressConstants, IngressInv, Typed
<1>2. PICK ts : ts = TargetsOf(s) /\ ts \in Seq(ToSet(ts))
  BY <1>1, TargetsDeliver DEF TargetsOf
<1>3. /\ x \in 1..txns /\ reply[x] = "none"
      /\ \A r \in RowsOf(x) : r.sender = s.envelope_from
      /\ s.todo \in Seq(ToSet(ts)) /\ Remaining(s.todo, ts)
      /\ faults = 0 /\ Worthy(s) =>
           \A k \in 1..(Len(ts) - Len(s.todo)) : Placed(RowsOf(x), ts, k)
  BY <1>1, <1>2 DEF Pending
<1>4. /\ target \in ToSet(ts) /\ Tail(s.todo) \in Seq(ToSet(ts))
      /\ Remaining(Tail(s.todo), ts) /\ Len(Tail(s.todo)) = Len(s.todo) - 1
      /\ target = ts[Len(ts) - Len(s.todo) + 1]
      /\ Len(s.todo) \in Nat /\ Len(ts) \in Nat
  <2>1. Len(s.todo) \in Nat /\ Len(ts) \in Nat
    BY <1>2, <1>3
  <2>2. PICK T, todo : T = ToSet(ts) /\ todo = s.todo
    OBVIOUS
  <2>3. ts \in Seq(T) /\ todo \in Seq(T) /\ todo # <<>> /\ Remaining(todo, ts)
          /\ target = Head(todo)
    BY <1>2, <1>3, <2>2
  <2>4. /\ Head(todo) \in T /\ Tail(todo) \in Seq(T)
        /\ Remaining(Tail(todo), ts) /\ Len(Tail(todo)) = Len(todo) - 1
        /\ Head(todo) = ts[Len(ts) - Len(todo) + 1]
    BY <2>3, HeadAndTail
  <2> QED BY <2>1, <2>2, <2>3, <2>4
<1>5. /\ row.txn = x /\ row.client = c /\ row.sender = s.envelope_from
      /\ row.to = payload_to(s, target) /\ row.transport = target.transport
      /\ row.nth = Len(ts) - Len(s.todo) + 1 /\ row.envelope = s.to
  BY <1>2 DEF RowFor, TargetsOf
<1>6. s.todo \in Seq(AnyTarget) /\ Tail(s.todo) \in Seq(AnyTarget) /\ s.accepted \in Nat
  BY <1>1 DEF Session
<1>7. s.accepted + 1 \in Nat /\ s.accepted + 1 # 0
  BY <1>6
<1>8. new \in Session
  BY ONLY <1>1, <1>6, <1>7, new = [[s EXCEPT !.todo = Tail(s.todo)] EXCEPT !.accepted = @ + 1]
     DEF Session
<1>9. /\ new.phase = s.phase /\ new.from = s.from /\ new.to = s.to /\ new.txn = x
      /\ new.envelope_from = s.envelope_from /\ new.recipients = s.recipients
      /\ new.accepted = s.accepted + 1 /\ new.data = s.data /\ new.todo = Tail(s.todo)
  BY <1>1 DEF Session
<1>10. Proper(c, new)
  BY <1>1, <1>9 DEF Proper
<1>11. Told(x)'
  BY <1>3 DEF Told
<1>12. RowsOf(x)' = RowsOf(x) \cup {row}
  BY <1>5 DEF RowsOf
<1>13. Pending(c)'
  <2>1. session'[c] = new
    BY <1>1
  <2>2. TargetsOf(new)' = ts /\ Worthy(new)' = Worthy(s)
    BY <1>2, <1>9 DEF TargetsOf, Worthy, subject_of, original_of, extract_name
  <2>4. Serves(row, target)
    BY <1>1, <1>5 DEF Serves, payload_to, Proper
  <2>6. ASSUME faults = 0, Worthy(s), NEW k \in 1..(Len(ts) - Len(Tail(s.todo)))
        PROVE  Placed(RowsOf(x)', ts, k)
    <3>1. CASE k = Len(ts) - Len(s.todo) + 1
      BY <1>4, <1>5, <1>12, <2>4, <3>1 DEF Placed
    <3>2. CASE k # Len(ts) - Len(s.todo) + 1
      <4>1. k \in 1..(Len(ts) - Len(s.todo))
        <5>1. PICK n, m : n = Len(ts) /\ m = Len(s.todo)
          OBVIOUS
        <5>2. n \in Nat /\ m \in Nat /\ k \in 1..(n - (m - 1)) /\ k # n - m + 1
          BY ONLY <1>4, <3>2, <5>1, k \in 1..(Len(ts) - Len(Tail(s.todo)))
        <5>3. k \in 1..(n - m)
          BY ONLY <5>2
        <5> QED BY <5>1, <5>3
      <4> QED BY <1>3, <1>12, <2>6, <4>1 DEF Placed
    <3> QED BY <3>1, <3>2
  <2>7. Worthy(s)
    BY <1>1, AllOrNone
  <2>8. \A r \in RowsOf(x)' : r.sender = s.envelope_from
    BY <1>3, <1>5, <1>12
  <2>9. RowsOf(x)' # {} /\ new.accepted # 0 /\ new.txn = x
    BY <1>7, <1>9, <1>12
  <2>10. /\ new.todo \in Seq(ToSet(ts)) /\ Remaining(new.todo, ts)
         /\ faults' = 0 /\ Worthy(new)' =>
              \A k \in 1..(Len(ts) - Len(new.todo)) : Placed(RowsOf(x)', ts, k)
    BY <1>4, <1>9, <2>2, <2>6
  <2>11. x \in 1..txns' /\ reply'[x] = "none"
    BY <1>3
  <2>12. new.envelope_from = s.envelope_from
    BY <1>9
  <2> QED BY ONLY <2>1, <2>2, <2>7, <2>8, <2>9, <2>10, <2>11, <2>12 DEF Pending
<1>14. OnlyPermittedIsQueued'
  <2>1. c \in config.whitelist /\ config.anonymous_enabled
    BY <1>1 DEF Proper, is_allowed
  <2>2. PICK k \in DOMAIN ts : target = ts[k]
    BY <1>4 DEF ToSet
  <2>3. target.transport # Reject
    BY <1>1, <1>2, <1>4, TargetsDeliver DEF TargetsOf
  <2>4. target.recipients # <<>> => row.to = target.recipients
    BY <1>5 DEF payload_to
  <2>5. ts = TargetsFor(config.routing, row.sender)
    BY <1>2, <1>5 DEF TargetsOf
  <2> QED BY <1>5, <2>1, <2>2, <2>3, <2>4, <2>5 DEF IngressInv, OnlyPermittedIsQueued
<1>15. \A r : r.txn # x => (r \in queued' <=> r \in queued)
  BY <1>5
<1> QED BY <1>1, <1>8, <1>9, <1>10, <1>11, <1>13, <1>14, <1>15, OthersWait

(* One turn of the loop over the targets. *)
LEMMA EnqueueKeeps ==
  ASSUME IngressInv, NEW c \in Clients, EnqueueTarget(c)
  PROVE  IngressInv'
<1>1. PICK s, target : s = session[c] /\ target = Head(s.todo)
  OBVIOUS
<1>2. /\ s.phase = "queueing" /\ s.todo # <<>> /\ Proper(c, s) /\ faults \in Nat
      /\ UNCHANGED <<config, up, reply, txns>>
  BY <1>1 DEF EnqueueTarget, IngressInv, Typed
<1>3. PICK rest : rest = [s EXCEPT !.todo = Tail(s.todo)]
  OBVIOUS
<1>4. CASE /\ ~ validate(s, target)
           /\ session' = [session EXCEPT ![c] = rest]
           /\ UNCHANGED <<queued, faults>>
  BY <1>1, <1>2, <1>3, <1>4, AllOrNone, SkipKeeps
<1>5. CASE /\ validate(s, target)
           /\ session' = [session EXCEPT ![c] = [rest EXCEPT !.accepted = @ + 1]]
           /\ queued' = queued \cup {RowFor(c, target)}
           /\ UNCHANGED faults
  BY <1>1, <1>2, <1>3, <1>5, StoreKeeps
<1>6. CASE /\ Fault
           /\ session' = [session EXCEPT ![c] = rest]
           /\ UNCHANGED queued
  <2>1. faults' \in Nat /\ faults' # 0
    BY <1>2, <1>6 DEF Fault
  <2> QED BY <1>1, <1>2, <1>3, <1>6, <2>1, SkipKeeps
<1> QED BY <1>1, <1>3, <1>4, <1>5, <1>6 DEF EnqueueTarget

(* The answer: every target has been worked through. *)
LEMMA ReplyKeeps ==
  ASSUME IngressInv, NEW c \in Clients, Reply(c)
  PROVE  IngressInv'
<1>1. PICK s, x : s = session[c] /\ x = s.txn
  OBVIOUS
<1>2. PICK new : new = Answered(s)
  OBVIOUS
<1>3. /\ s \in Session /\ Proper(c, s) /\ Pending(c) /\ txns \in Nat /\ txns <= MaxTxns
      /\ reply \in [1..MaxTxns -> Replies] /\ session \in [Clients -> Session]
      /\ MaxTxns \in Nat /\ faults \in Nat
  BY <1>1, IngressAssumption DEF IngressConstants, IngressInv, Typed
<1>4. /\ s.phase = "queueing" /\ s.todo = <<>> /\ session' = [session EXCEPT ![c] = new]
      /\ reply' = [reply EXCEPT ![x] = IF s.accepted = 0 THEN "451" ELSE "250"]
      /\ UNCHANGED <<config, up, queued, txns, faults>>
  BY <1>1, <1>2 DEF Reply
<1>5. new \in Session /\ new.phase = "hello" /\ new.txn = 0 /\ is_allowed(c)
  BY <1>1, <1>2, <1>4, AnsweredIsProper
<1>6. Proper(c, new)
  BY <1>3, <1>5 DEF Proper
<1>7. Pending(c)'
  BY <1>3, <1>4, <1>5 DEF Pending
<1>8. PICK ts : ts = TargetsOf(s) /\ ts \in Seq(ToSet(ts))
  BY <1>1, TargetsDeliver DEF TargetsOf, IngressInv, Typed
<1>9. /\ x \in 1..txns
      /\ s.accepted = 0 <=> RowsOf(x) = {}
      /\ \A r \in RowsOf(x) : r.sender = s.envelope_from
      /\ RowsOf(x) # {} => Worthy(s)
      /\ faults = 0 /\ Worthy(s) =>
           \A k \in 1..(Len(ts) - Len(s.todo)) : Placed(RowsOf(x), ts, k)
  BY <1>1, <1>3, <1>4, <1>8 DEF Pending
<1>10. /\ reply' \in [1..MaxTxns -> Replies]
       /\ reply'[x] = IF s.accepted = 0 THEN "451" ELSE "250"
       /\ \A y \in 1..MaxTxns : y # x => reply'[y] = reply[y]
  BY <1>3, <1>4, <1>9 DEF Replies
<1>11. RowsOf(x)' = RowsOf(x)
  BY <1>4 DEF RowsOf
<1>12. Told(x)'
  <2>1. CASE RowsOf(x) = {}
    BY <1>9, <1>10, <1>11, <2>1 DEF Told
  <2>2. CASE RowsOf(x) # {}
    <3>1. Len(ts) - Len(s.todo) = Len(ts) /\ DOMAIN ts = 1..Len(ts)
      BY <1>4, <1>8
    <3>2. faults = 0 => \A k \in DOMAIN ts : Placed(RowsOf(x), ts, k)
      BY <1>9, <2>2, <3>1
    <3>3. faults = 0 => FannedOut(x)
      BY <1>8, <1>9, <3>2 DEF FannedOut, Placed, TargetsOf
    <3>4. FannedOut(x)' = FannedOut(x)
      BY <1>4, <1>11 DEF FannedOut
    <3> QED BY <1>4, <1>9, <1>10, <1>11, <2>2, <3>3, <3>4 DEF Told
  <2> QED BY <2>1, <2>2
<1>13. OnlyPermittedIsQueued'
  BY <1>4 DEF IngressInv, OnlyPermittedIsQueued
<1> QED BY <1>1, <1>3, <1>4, <1>5, <1>6, <1>7, <1>10, <1>12, <1>13, OthersWait

(* The process ends, whether it failed or not: the sessions go, the rows    *)
(* and the answers stay.                                                    *)
LEMMA EndKeeps ==
  ASSUME IngressInv, session' = [c \in Clients |-> NewSession("closed")],
         UNCHANGED <<config, queued, reply, txns>>, up' \in BOOLEAN,
         faults' \in Nat, faults' = 0 => faults = 0
  PROVE  IngressInv'
<1>1. /\ NewSession("closed") \in Session
      /\ NewSession("closed").phase = "closed" /\ NewSession("closed").txn = 0
  BY FreshSession DEF Phases, NewSession
<1>2. txns \in Nat
  BY IngressAssumption DEF IngressConstants, IngressInv, Typed
<1>3. Typed'
  <2>1. session' \in [Clients -> Session]
    BY <1>1
  <2> QED BY <2>1 DEF IngressInv, Typed
<1>4. ASSUME NEW c \in Clients PROVE Proper(c, session[c])' /\ Pending(c)'
  BY <1>1, <1>2 DEF Proper, Pending
<1>5. OwnMessage'
  BY <1>1 DEF OwnMessage
<1>6. ASSUME NEW x \in 1..MaxTxns PROVE Told(x)'
  BY ToldStays DEF IngressInv, RowsOf
<1>7. NothingAhead' /\ OnlyPermittedIsQueued'
  BY DEF IngressInv, NothingAhead, OnlyPermittedIsQueued
<1> QED BY <1>3, <1>4, <1>5, <1>6, <1>7 DEF IngressInv

(* A step outside the sessions, which may be a failure elsewhere. *)
LEMMA StutterKeeps ==
  ASSUME IngressInv, UNCHANGED <<config, session, queued, reply, txns>>, up' \in BOOLEAN,
         faults' \in Nat, faults' = 0 => faults = 0
  PROVE  IngressInv'
<1>1. Typed' /\ OwnMessage' /\ NothingAhead' /\ OnlyPermittedIsQueued'
  BY DEF IngressInv, Typed, OwnMessage, NothingAhead, OnlyPermittedIsQueued
<1>2. ASSUME NEW c \in Clients PROVE Proper(c, session[c])' /\ Pending(c)'
  <2>1. Proper(c, session[c])'
    BY DEF IngressInv, Proper, is_allowed
  <2>2. Pending(c)'
    BY PendingStays, IngressAssumption DEF IngressConstants, IngressInv, Typed
  <2> QED BY <2>1, <2>2
<1>3. ASSUME NEW x \in 1..MaxTxns PROVE Told(x)'
  BY ToldStays DEF IngressInv, RowsOf
<1> QED BY <1>1, <1>2, <1>3 DEF IngressInv

(* Every step of every session keeps the invariant. *)
LEMMA IngressNext == IngressInv /\ [Next]_vars => IngressInv'
<1> SUFFICES ASSUME IngressInv, [Next]_vars PROVE IngressInv'
  OBVIOUS
<1>1. ASSUME NEW c \in Clients, Command(c) \/ data_end(c) \/ EnqueueTarget(c) \/ Reply(c)
      PROVE  IngressInv'
  BY <1>1, CommandKeeps, DataEndKeeps, EnqueueKeeps, ReplyKeeps
<1>2. CASE Crash
  <2>1. faults' \in Nat /\ faults' # 0
    BY <1>2 DEF Crash, Fault, IngressInv, Typed
  <2>2. up' \in BOOLEAN
    BY <1>2, Zenon DEF Crash
  <2> QED BY <1>2, <2>1, <2>2, EndKeeps DEF Crash
<1>3. CASE Restart
  <2>1. up' \in BOOLEAN
    BY <1>3, Zenon DEF Restart
  <2> QED BY <1>3, <2>1, StutterKeeps DEF Restart, IngressInv, Typed
<1>4. CASE UNCHANGED vars
  BY <1>4, StutterKeeps DEF vars, IngressInv, Typed
<1> QED BY <1>1, <1>2, <1>3, <1>4 DEF Next

(* What every reachable state of the ingress satisfies. *)
THEOREM IngressInvariant == Spec => []IngressInv
BY IngressInit, IngressNext, PTL DEF Spec

(* What the runs check follows from the invariant. *)
LEMMA IngressConsequences ==
  IngressInv => /\ TypeOK /\ EnvelopeIsCurrent /\ AcceptedIsQueued
                /\ RefusedLeavesNothing /\ FanOutWithoutFaults
<1> SUFFICES ASSUME IngressInv
             PROVE  /\ TypeOK /\ EnvelopeIsCurrent /\ AcceptedIsQueued
                    /\ RefusedLeavesNothing /\ FanOutWithoutFaults
  OBVIOUS
<1>1. ASSUME NEW c \in Clients
      PROVE  session[c] \in Session /\ Proper(c, session[c])
  BY DEF IngressInv, Typed
<1>2. TypeOK
  BY <1>1 DEF IngressInv, Typed, TypeOK, Session, Proper
<1>3. EnvelopeIsCurrent
  BY <1>1 DEF EnvelopeIsCurrent, Proper
<1>4. AcceptedIsQueued /\ RefusedLeavesNothing /\ FanOutWithoutFaults
  BY DEF IngressInv, Told, AcceptedIsQueued, RefusedLeavesNothing, FanOutWithoutFaults
<1> QED BY <1>2, <1>3, <1>4

(* The variables of the ingress keep their types, whatever the clients send *)
(* and in whatever order.                                                   *)
THEOREM IngressTypes == Spec => []TypeOK
BY IngressInvariant, IngressConsequences, PTL

(* However RSET, HELO, refused commands and earlier messages are mixed, the *)
(* handler's envelope is the server's one from MAIL FROM to the answer.     *)
THEOREM EnvelopesAreCurrent == Spec => []EnvelopeIsCurrent
BY IngressInvariant, IngressConsequences, PTL

(* A message that data_end answers with 250 has a row, for any number of    *)
(* sessions that store their targets at the same time and any failures.     *)
THEOREM AcceptanceIsKept == Spec => []AcceptedIsQueued
BY IngressInvariant, IngressConsequences, PTL

(* A message that data_end answers with 451, 550 or 554 has no row. *)
THEOREM RefusalIsClean == Spec => []RefusedLeavesNothing
BY IngressInvariant, IngressConsequences, PTL

(* Every row comes from a permitted client, and goes to a target of its     *)
(* sender's rule that is not "reject", under any routing configuration.     *)
THEOREM OnlyThePermittedQueue == Spec => []OnlyPermittedIsQueued
<1>1. IngressInv => OnlyPermittedIsQueued
  BY DEF IngressInv
<1> QED BY <1>1, IngressInvariant, PTL

(* Without a failing INSERT an accepted message has a row for every target  *)
(* of its sender's rule, however many there are.                            *)
THEOREM FanOutIsComplete == Spec => []FanOutWithoutFaults
BY IngressInvariant, IngressConsequences, PTL
-----------------------------------------------------------------------------
(***************************************************************************)
(* The subject label: what str::replace leaves of a text.                  *)
(***************************************************************************)

(* Induction downwards, from the end of a text to its start. *)
LEMMA Downwards ==
  ASSUME NEW n \in Nat, NEW S, n \in S,
         \A k \in 1..n : k + 1 \in S /\ k < n => k \in S
  PROVE  1..n \subseteq S
<1> DEFINE T == {i \in 0..n : n - i \in S \/ i = n}
<1>1. 0 \in T
  OBVIOUS
<1>2. ASSUME NEW i \in 0..n, i \in T, i < n PROVE i + 1 \in T
  <2>1. CASE i + 1 = n
    BY <2>1
  <2>2. CASE i + 1 < n
    <3>1. /\ n - (i + 1) \in 1..n /\ n - (i + 1) < n
          /\ (n - (i + 1)) + 1 = n - i /\ n - i \in S /\ i + 1 \in 0..n
      BY <1>2, <2>2
    <3>2. n - (i + 1) \in S
      BY <3>1
    <3> QED BY <3>1, <3>2
  <2> QED BY <1>2, <2>1, <2>2
<1>3. 0..n \subseteq T
  <2> HIDE DEF T
  <2> QED BY <1>1, <1>2, Induction
<1>4. ASSUME NEW k \in 1..n PROVE k \in S
  <2>1. n - k \in T /\ n - k # n /\ n - (n - k) = k
    BY <1>3
  <2> QED BY <2>1
<1> QED BY <1>4

(* Nothing is contained in everything. *)
LEMMA ContainsNothing ==
  ASSUME NEW S, NEW s \in Seq(S)
  PROVE  contains(s, <<>>)
<1>1. 0 \in 0..Len(s) /\ SubSeq(s, 0 + 1, 0) = <<>>
  OBVIOUS
<1>2. SubSeq(s, 0 + 1, 0) \in SubSeqs(s)
  BY <1>1 DEF SubSeqs
<1> QED BY <1>1, <1>2 DEF contains

(* contains, spelled out. *)
LEMMA ContainsIsOccurs ==
  ASSUME NEW S, NEW s \in Seq(S), NEW p \in Seq(S), p # <<>>
  PROVE  contains(s, p) <=> \E i \in Nat : OccursAt(s, p, i)
<1>0. Len(s) \in Nat /\ Len(p) \in Nat \ {0}
  BY EmptySeq
<1>1. ASSUME NEW i \in Nat, OccursAt(s, p, i) PROVE contains(s, p)
  <2> DEFINE j == i + Len(p)
  <2>1. i \in 0..Len(s) /\ j \in 0..Len(s) /\ i + 1 \in Int /\ j \in Int
    BY <1>0, <1>1 DEF OccursAt
  <2>2. \A k \in (i + 1)..j : s[k] \in S
    BY <1>0, <2>1, ElementOfSeq
  <2> HIDE DEF j
  <2>3. /\ SubSeq(s, i + 1, j) \in Seq(S)
        /\ Len(SubSeq(s, i + 1, j)) = IF i + 1 <= j THEN j - (i + 1) + 1 ELSE 0
        /\ \A k \in 1..(j - (i + 1) + 1) : SubSeq(s, i + 1, j)[k] = s[(i + 1) + k - 1]
    BY <2>1, <2>2, SubSeqProperties
  <2>4. Len(SubSeq(s, i + 1, j)) = Len(p)
    BY <1>0, <2>1, <2>3 DEF j
  <2>5. ASSUME NEW k \in 1..Len(p) PROVE SubSeq(s, i + 1, j)[k] = p[k]
    <3>1. k \in 1..(j - (i + 1) + 1) /\ (i + 1) + k - 1 = i + k
      BY <1>0 DEF j
    <3> QED BY <1>1, <2>3, <3>1 DEF OccursAt
  <2>6. SubSeq(s, i + 1, j) = p
    BY <2>3, <2>4, <2>5, SeqEqual
  <2> QED BY <2>1, <2>6 DEF contains, SubSeqs
<1>2. ASSUME contains(s, p) PROVE \E i \in Nat : OccursAt(s, p, i)
  <2>1. PICK i \in 0..Len(s), j \in 0..Len(s) : p = SubSeq(s, i + 1, j)
    BY <1>2 DEF contains, SubSeqs
  <2>2. \A k \in (i + 1)..j : s[k] \in S
    BY <1>0, ElementOfSeq
  <2>3. /\ Len(p) = IF i + 1 <= j THEN j - (i + 1) + 1 ELSE 0
        /\ \A k \in 1..(j - (i + 1) + 1) : p[k] = s[(i + 1) + k - 1]
    <3>1. i + 1 \in Int /\ j \in Int
      BY <1>0
    <3> QED BY <2>1, <2>2, <3>1, SubSeqProperties
  <2>4. Len(p) = j - i /\ i \in Nat /\ i + Len(p) <= Len(s)
    BY <1>0, <2>3
  <2>5. ASSUME NEW k \in 1..Len(p) PROVE s[i + k] = p[k]
    <3>1. k \in 1..(j - (i + 1) + 1) /\ (i + 1) + k - 1 = i + k
      BY <1>0, <2>4
    <3> QED BY <2>3, <3>1
  <2> QED BY <2>4, <2>5 DEF OccursAt
<1> QED BY <1>1, <1>2

(* What is put before a text moves what stands in it. *)
LEMMA OccursAfter ==
  ASSUME NEW S, NEW a \in Seq(S), NEW b \in Seq(S), NEW p \in Seq(S),
         NEW i \in Nat, OccursAt(b, p, i)
  PROVE  OccursAt(a \o b, p, i + Len(a))
<1>1. /\ Len(a) \in Nat /\ Len(b) \in Nat /\ Len(p) \in Nat
      /\ Len(a \o b) = Len(a) + Len(b)
      /\ \A k \in 1..(Len(a) + Len(b)) :
           (a \o b)[k] = IF k <= Len(a) THEN a[k] ELSE b[k - Len(a)]
  BY ConcatProperties
<1>2. i + Len(p) <= Len(b)
  BY DEF OccursAt
<1>3. ASSUME NEW k \in 1..Len(p) PROVE (a \o b)[(i + Len(a)) + k] = p[k]
  <2>1. /\ (i + Len(a)) + k \in 1..(Len(a) + Len(b)) /\ ~ ((i + Len(a)) + k <= Len(a))
        /\ ((i + Len(a)) + k) - Len(a) = i + k
    BY <1>1, <1>2
  <2>2. (a \o b)[(i + Len(a)) + k] = b[i + k]
    BY <1>1, <2>1
  <2> QED BY <2>2 DEF OccursAt
<1> QED BY <1>1, <1>2, <1>3 DEF OccursAt

(* A text stands at the start of what begins with it. *)
LEMMA OccursFirst ==
  ASSUME NEW S, NEW a \in Seq(S), NEW b \in Seq(S)
  PROVE  OccursAt(a \o b, a, 0)
<1>1. /\ Len(a) \in Nat /\ Len(b) \in Nat
      /\ Len(a \o b) = Len(a) + Len(b)
      /\ \A k \in 1..(Len(a) + Len(b)) :
           (a \o b)[k] = IF k <= Len(a) THEN a[k] ELSE b[k - Len(a)]
  BY ConcatProperties
<1>2. ASSUME NEW k \in 1..Len(a) PROVE (a \o b)[0 + k] = a[k]
  BY <1>1
<1> QED BY <1>1, <1>2 DEF OccursAt

(* The pattern is found at the k-th token. *)
Found(text, pattern, k) ==
  k + Len(pattern) - 1 <= Len(text) /\ SubSeq(text, k, k + Len(pattern) - 1) = pattern

(* What replace makes of the text from the k-th token on, by what f says it *)
(* makes of later parts.                                                    *)
From(f, text, pattern, by, k) ==
  CASE k > Len(text) -> <<>>
    [] Found(text, pattern, k) -> by \o f[k + Len(pattern)]
    [] OTHER -> <<text[k]>> \o f[k + 1]

(* f is the course of replace from the end of the text back to token j. *)
Course(f, text, pattern, by, j) ==
  f = [k \in j..(Len(text) + 1) |-> From(f, text, pattern, by, k)]

(* The three cases of From. *)
LEMMA FromEnd ==
  ASSUME NEW f, NEW text, NEW pattern, NEW by, NEW k,
         k > Len(text), ~ Found(text, pattern, k)
  PROVE  From(f, text, pattern, by, k) = <<>>
BY Zenon DEF From

(* From where the pattern is found. *)
LEMMA FromMatch ==
  ASSUME NEW f, NEW text, NEW pattern, NEW by, NEW k,
         ~ (k > Len(text)), Found(text, pattern, k)
  PROVE  From(f, text, pattern, by, k) = by \o f[k + Len(pattern)]
BY Zenon DEF From

(* From where it is not. *)
LEMMA FromToken ==
  ASSUME NEW f, NEW text, NEW pattern, NEW by, NEW k,
         ~ (k > Len(text)), ~ Found(text, pattern, k)
  PROVE  From(f, text, pattern, by, k) = <<text[k]>> \o f[k + 1]
BY Zenon DEF From

(* A function with the values of From is a course. *)
LEMMA CourseByValues ==
  ASSUME NEW text, NEW pattern, NEW by, NEW j, NEW f,
         f = [k \in j..(Len(text) + 1) |-> f[k]],
         \A k \in j..(Len(text) + 1) : f[k] = From(f, text, pattern, by, k)
  PROVE  Course(f, text, pattern, by, j)
<1> DEFINE D == j..(Len(text) + 1)
           V(k) == From(f, text, pattern, by, k)
<1>1. f = [k \in D |-> f[k]] /\ \A k \in D : f[k] = V(k)
  OBVIOUS
<1>2. f = [k \in D |-> V(k)]
  <2> HIDE DEF D, V
  <2> QED BY <1>1
<1> QED BY <1>2 DEF Course

(* There is a course for every text. *)
LEMMA CourseExists ==
  ASSUME NEW S, NEW text \in Seq(S), NEW pattern \in Seq(S), pattern # <<>>, NEW by
  PROVE  \E f : Course(f, text, pattern, by, 1)
<1> DEFINE n == Len(text) + 1
           Has == {j \in 1..n : \E f : Course(f, text, pattern, by, j)}
<1>0. Len(text) \in Nat /\ n \in Nat \ {0} /\ Len(pattern) \in Nat \ {0}
  BY EmptySeq
<1>1. n \in Has
  <2> DEFINE f == [k \in n..n |-> <<>>]
  <2>1. \A k \in n..(Len(text) + 1) : From(f, text, pattern, by, k) = <<>>
    <3> SUFFICES ASSUME NEW k \in n..(Len(text) + 1)
                 PROVE  From(f, text, pattern, by, k) = <<>>
      OBVIOUS
    <3>1. k > Len(text) /\ ~ Found(text, pattern, k)
      BY <1>0 DEF Found
    <3> HIDE DEF f
    <3> QED BY <3>1, FromEnd, Zenon
  <2>2. Course(f, text, pattern, by, n)
    <3>1. f = [k \in n..(Len(text) + 1) |-> f[k]]
      OBVIOUS
    <3>2. \A k \in n..(Len(text) + 1) : f[k] = <<>>
      OBVIOUS
    <3> HIDE DEF f, n
    <3> QED BY <2>1, <3>1, <3>2, CourseByValues
  <2>3. \E g : Course(g, text, pattern, by, n)
    BY <2>2
  <2> QED BY <1>0, <2>3
<1>2. ASSUME NEW k \in 1..n, k + 1 \in Has, k < n PROVE k \in Has
  <2>1. PICK f : Course(f, text, pattern, by, k + 1)
    BY <1>2
  <2> DEFINE g == [i \in k..n |-> IF i = k THEN From(f, text, pattern, by, k) ELSE f[i]]
  <2>2. \A i \in (k + 1)..n : g[i] = f[i] /\ f[i] = From(f, text, pattern, by, i)
    <3>1. ASSUME NEW i \in (k + 1)..n PROVE g[i] = f[i]
      BY <1>0
    <3>2. \A i \in (k + 1)..(Len(text) + 1) : f[i] = From(f, text, pattern, by, i)
      BY <2>1, Zenon DEF Course
    <3> QED BY <3>1, <3>2
  <2>3. ASSUME NEW i \in k..n
        PROVE  From(g, text, pattern, by, i) = From(f, text, pattern, by, i)
    <3>1. CASE i > Len(text)
      <4>1. ~ Found(text, pattern, i)
        BY <1>0, <3>1 DEF Found
      <4> HIDE DEF g
      <4>2. From(g, text, pattern, by, i) = <<>>
        BY <3>1, <4>1, FromEnd, Zenon
      <4>3. From(f, text, pattern, by, i) = <<>>
        BY <3>1, <4>1, FromEnd, Zenon
      <4> QED BY <4>2, <4>3, Zenon
    <3>2. CASE ~ (i > Len(text)) /\ Found(text, pattern, i)
      <4>1. i + Len(pattern) \in (k + 1)..n
        BY <1>0, <3>2 DEF Found
      <4>2. g[i + Len(pattern)] = f[i + Len(pattern)]
        BY <2>2, <4>1
      <4> HIDE DEF g
      <4>3. From(g, text, pattern, by, i) = by \o g[i + Len(pattern)]
        BY <3>2, FromMatch, Zenon
      <4>4. From(f, text, pattern, by, i) = by \o f[i + Len(pattern)]
        BY <3>2, FromMatch, Zenon
      <4> QED BY <4>2, <4>3, <4>4, Zenon
    <3>3. CASE ~ (i > Len(text)) /\ ~ Found(text, pattern, i)
      <4>1. i + 1 \in (k + 1)..n
        BY <1>0, <3>3
      <4>2. g[i + 1] = f[i + 1]
        BY <2>2, <4>1
      <4> HIDE DEF g
      <4>3. From(g, text, pattern, by, i) = <<text[i]>> \o g[i + 1]
        BY <3>3, FromToken, Zenon
      <4>4. From(f, text, pattern, by, i) = <<text[i]>> \o f[i + 1]
        BY <3>3, FromToken, Zenon
      <4> QED BY <4>2, <4>3, <4>4, Zenon
    <3> QED BY <3>1, <3>2, <3>3
  <2>4. \A i \in k..n : g[i] = From(g, text, pattern, by, i)
    <3> SUFFICES ASSUME NEW i \in k..n PROVE g[i] = From(g, text, pattern, by, i)
      OBVIOUS
    <3>1. CASE i = k
      BY <2>3, <3>1
    <3>2. CASE i # k
      <4>1. i \in (k + 1)..n
        BY <1>0, <3>2
      <4> QED BY <2>2, <2>3, <4>1
    <3> QED BY <3>1, <3>2
  <2>5. Course(g, text, pattern, by, k)
    <3>1. g = [i \in k..n |-> g[i]]
      OBVIOUS
    <3> HIDE DEF g
    <3> QED BY <2>4, <3>1, CourseByValues
  <2>6. \E h : Course(h, text, pattern, by, k)
    BY <2>5
  <2> QED BY <1>2, <2>6
<1>3. 1..n \subseteq Has
  <2> HIDE DEF Has, n
  <2> QED BY <1>0, <1>1, <1>2, Downwards
<1>4. 1 \in Has
  <2> HIDE DEF Has
  <2> QED BY <1>0, <1>3
<1> QED BY <1>4

(* replace is the start of such a course. *)
LEMMA ReplaceIsCourse ==
  ASSUME NEW S, NEW text \in Seq(S), NEW pattern \in Seq(S), pattern # <<>>, NEW by
  PROVE  \E f : Course(f, text, pattern, by, 1) /\ replace(text, pattern, by) = f[1]
<1> DEFINE from == CHOOSE f : Course(f, text, pattern, by, 1)
<1>1. Course(from, text, pattern, by, 1)
  BY CourseExists
<1>2. replace(text, pattern, by) = from[1]
  BY DEF replace, Course, From, Found
<1> HIDE DEF from
<1> QED BY <1>1, <1>2

(* The parts of a course are texts. *)
LEMMA CourseIsText ==
  ASSUME NEW S, NEW text \in Seq(S), NEW pattern \in Seq(S), pattern # <<>>,
         NEW by \in Seq(S), NEW f, Course(f, text, pattern, by, 1)
  PROVE  \A k \in 1..(Len(text) + 1) : f[k] \in Seq(S)
<1> DEFINE n == Len(text) + 1
           Texts == {k \in 1..n : f[k] \in Seq(S) /\ \A i \in k..n : f[i] \in Seq(S)}
<1>0. Len(text) \in Nat /\ n \in Nat \ {0} /\ Len(pattern) \in Nat \ {0}
  BY EmptySeq
<1>1. \A k \in 1..n : f[k] = From(f, text, pattern, by, k)
  BY DEF Course
<1>2. n \in Texts
  <2>1. n > Len(text) /\ ~ Found(text, pattern, n) /\ n \in 1..n
    BY <1>0 DEF Found
  <2>2. f[n] = <<>>
    <3>1. From(f, text, pattern, by, n) = <<>>
      BY <2>1, FromEnd, Zenon
    <3> QED BY <1>1, <2>1, <3>1
  <2>3. f[n] \in Seq(S)
    BY <2>2
  <2>4. \A i \in n..n : i = n
    BY <1>0
  <2> QED BY <1>0, <2>3, <2>4
<1>3. ASSUME NEW k \in 1..n, k + 1 \in Texts, k < n PROVE k \in Texts
  <2>1. \A i \in (k + 1)..n : f[i] \in Seq(S)
    BY <1>3
  <2>2. f[k] \in Seq(S)
    <3>1. k \in 1..Len(text)
      BY <1>0, <1>3
    <3>2. CASE Found(text, pattern, k)
      <4>1. k + Len(pattern) \in (k + 1)..n
        BY <1>0, <3>1, <3>2 DEF Found
      <4>2. f[k] = by \o f[k + Len(pattern)]
        <5>1. k \in 1..n /\ ~ (k > Len(text))
          BY <1>0, <3>1
        <5>2. f[k] = From(f, text, pattern, by, k)
          BY <1>1, <5>1
        <5> QED BY <3>2, <5>1, <5>2, FromMatch, Zenon
      <4>3. f[k + Len(pattern)] \in Seq(S)
        BY <2>1, <4>1
      <4> QED BY <4>2, <4>3, ConcatProperties
    <3>3. CASE ~ Found(text, pattern, k)
      <4>1. f[k] = <<text[k]>> \o f[k + 1]
        <5>1. k \in 1..n /\ ~ (k > Len(text))
          BY <1>0, <3>1
        <5>2. f[k] = From(f, text, pattern, by, k)
          BY <1>1, <5>1
        <5> QED BY <3>3, <5>1, <5>2, FromToken, Zenon
      <4>2. f[k + 1] \in Seq(S) /\ text[k] \in S
        BY <1>0, <2>1, <3>1, ElementOfSeq
      <4>3. <<text[k]>> \in Seq(S)
        BY <4>2
      <4> QED BY <4>1, <4>2, <4>3, ConcatProperties
    <3> QED BY <3>2, <3>3
  <2>3. ASSUME NEW i \in k..n PROVE f[i] \in Seq(S)
    <3>1. i = k \/ i \in (k + 1)..n
      BY <1>0
    <3> QED BY <2>1, <2>2, <3>1
  <2> QED BY <2>2, <2>3
<1>4. 1..n \subseteq Texts
  <2> HIDE DEF Texts, n
  <2> QED BY <1>0, <1>2, <1>3, Downwards
<1> QED BY <1>4

(* A course where the pattern is found. *)
LEMMA CourseMatch ==
  ASSUME NEW S, NEW text \in Seq(S), NEW pattern \in Seq(S), pattern # <<>>,
         NEW by \in Seq(S), NEW f, Course(f, text, pattern, by, 1),
         NEW k \in 1..Len(text), Found(text, pattern, k)
  PROVE  /\ k + Len(pattern) \in 1..(Len(text) + 1)
         /\ f[k + Len(pattern)] \in Seq(S)
         /\ f[k] = by \o f[k + Len(pattern)]
<1>1. Len(text) \in Nat /\ Len(pattern) \in Nat \ {0}
  BY EmptySeq
<1>2. k \in 1..(Len(text) + 1) /\ ~ (k > Len(text))
  BY <1>1
<1>3. k + Len(pattern) \in 1..(Len(text) + 1)
  BY <1>1 DEF Found
<1>4. f[k] = From(f, text, pattern, by, k)
  BY <1>2, Zenon DEF Course
<1>5. f[k] = by \o f[k + Len(pattern)]
  BY <1>2, <1>4, FromMatch, Zenon
<1>6. f[k + Len(pattern)] \in Seq(S)
  BY <1>3, CourseIsText
<1> QED BY <1>3, <1>5, <1>6

(* A course where it is not. *)
LEMMA CourseToken ==
  ASSUME NEW S, NEW text \in Seq(S), NEW pattern \in Seq(S), pattern # <<>>,
         NEW by \in Seq(S), NEW f, Course(f, text, pattern, by, 1),
         NEW k \in 1..Len(text), ~ Found(text, pattern, k)
  PROVE  /\ <<text[k]>> \in Seq(S) /\ f[k + 1] \in Seq(S)
         /\ f[k] = <<text[k]>> \o f[k + 1]
<1>1. Len(text) \in Nat
  OBVIOUS
<1>2. k \in 1..(Len(text) + 1) /\ ~ (k > Len(text)) /\ k + 1 \in 1..(Len(text) + 1)
  BY <1>1
<1>3. f[k] = From(f, text, pattern, by, k)
  BY <1>2, Zenon DEF Course
<1>4. f[k] = <<text[k]>> \o f[k + 1]
  BY <1>2, <1>3, FromToken, Zenon
<1>5. f[k + 1] \in Seq(S)
  BY <1>2, CourseIsText
<1>6. text[k] \in S
  BY ElementOfSeq
<1>7. <<text[k]>> \in Seq(S)
  BY <1>6
<1> QED BY <1>4, <1>5, <1>7

(* Where a pattern is found is where it stands. *)
LEMMA FoundIsOccurs ==
  ASSUME NEW S, NEW text \in Seq(S), NEW pattern \in Seq(S), pattern # <<>>,
         NEW i \in Nat
  PROVE  Found(text, pattern, i + 1) <=> OccursAt(text, pattern, i)
<1>1. Len(text) \in Nat /\ Len(pattern) \in Nat \ {0}
  BY EmptySeq
<1> DEFINE j == i + Len(pattern)
<1>2. j \in Nat /\ (i + 1) + Len(pattern) - 1 = j /\ i + 1 \in Int /\ i + 1 <= j
      /\ j - (i + 1) + 1 = Len(pattern)
  BY <1>1
<1>3. SUFFICES ASSUME j <= Len(text)
               PROVE  SubSeq(text, i + 1, j) = pattern
                        <=> \A k \in 1..Len(pattern) : text[i + k] = pattern[k]
  BY <1>2 DEF Found, OccursAt
<1>4. \A k \in (i + 1)..j : text[k] \in S
  BY <1>1, <1>3, ElementOfSeq
<1> HIDE DEF j
<1>5. /\ SubSeq(text, i + 1, j) \in Seq(S)
      /\ Len(SubSeq(text, i + 1, j)) = IF i + 1 <= j THEN j - (i + 1) + 1 ELSE 0
      /\ \A k \in 1..(j - (i + 1) + 1) : SubSeq(text, i + 1, j)[k] = text[(i + 1) + k - 1]
  BY <1>2, <1>4, SubSeqProperties
<1>6. Len(SubSeq(text, i + 1, j)) = Len(pattern)
  BY <1>2, <1>5
<1>7. ASSUME NEW k \in 1..Len(pattern) PROVE SubSeq(text, i + 1, j)[k] = text[i + k]
  <2>1. k \in 1..(j - (i + 1) + 1) /\ (i + 1) + k - 1 = i + k
    BY <1>1, <1>2
  <2> QED BY <1>5, <2>1
<1>8. SubSeq(text, i + 1, j) = pattern
        <=> \A k \in 1..Len(pattern) : SubSeq(text, i + 1, j)[k] = pattern[k]
  BY <1>5, <1>6, SeqEqual
<1> QED BY <1>7, <1>8

(* If the pattern stands anywhere in the text, what it is replaced by is in *)
(* the result, wherever the scan meets it first.                            *)
LEMMA ReplacePutsIn ==
  ASSUME NEW S, NEW text \in Seq(S), NEW pattern \in Seq(S), pattern # <<>>,
         NEW by \in Seq(S), NEW p \in Nat, OccursAt(text, pattern, p)
  PROVE  /\ replace(text, pattern, by) \in Seq(S)
         /\ \E j \in Nat : OccursAt(replace(text, pattern, by), by, j)
<1>0. Len(text) \in Nat /\ Len(pattern) \in Nat \ {0} /\ Len(by) \in Nat
  BY EmptySeq
<1>1. PICK f : Course(f, text, pattern, by, 1) /\ replace(text, pattern, by) = f[1]
  BY ReplaceIsCourse
<1> DEFINE Holds(k) == \E j \in Nat : OccursAt(f[k], by, j)
           n == p + 1
           Good == {k \in 1..n : Holds(k)}
<1>2. n \in 1..Len(text) /\ n \in Nat
  BY <1>0 DEF OccursAt
<1>3. ASSUME NEW k \in 1..Len(text), Found(text, pattern, k) PROVE Holds(k)
  <2>1. f[k + Len(pattern)] \in Seq(S) /\ f[k] = by \o f[k + Len(pattern)]
    BY <1>1, <1>3, CourseMatch
  <2>2. OccursAt(by \o f[k + Len(pattern)], by, 0)
    BY <2>1, OccursFirst
  <2> QED BY <2>1, <2>2
<1>4. n \in Good
  <2>1. Found(text, pattern, n)
    BY FoundIsOccurs
  <2>2. Holds(n)
    BY <1>2, <1>3, <2>1
  <2> HIDE DEF Holds
  <2> QED BY <1>2, <2>2
<1>5. ASSUME NEW k \in 1..n, k + 1 \in Good, k < n PROVE k \in Good
  <2>1. k \in 1..Len(text)
    BY <1>0, <1>2
  <2>2. CASE Found(text, pattern, k)
    <3>1. Holds(k)
      BY <1>3, <2>1, <2>2
    <3> HIDE DEF Holds
    <3> QED BY <3>1
  <2>3. CASE ~ Found(text, pattern, k)
    <3>1. /\ <<text[k]>> \in Seq(S) /\ f[k + 1] \in Seq(S)
          /\ f[k] = <<text[k]>> \o f[k + 1]
      BY <1>1, <2>1, <2>3, CourseToken
    <3>2. PICK j \in Nat : OccursAt(f[k + 1], by, j)
      BY <1>5
    <3>3. OccursAt(<<text[k]>> \o f[k + 1], by, j + Len(<<text[k]>>))
      BY <3>1, <3>2, OccursAfter
    <3>4. j + Len(<<text[k]>>) \in Nat
      BY <3>1
    <3>5. Holds(k)
      BY <3>1, <3>3, <3>4
    <3> HIDE DEF Holds
    <3> QED BY <3>5
  <2> QED BY <2>2, <2>3
<1>6. 1..n \subseteq Good
  <2> HIDE DEF Good, n
  <2> QED BY <1>2, <1>4, <1>5, Downwards
<1>7. Holds(1)
  <2> HIDE DEF Holds
  <2>1. 1 \in 1..n
    BY <1>2
  <2> QED BY <1>6, <2>1
<1>8. f[1] \in Seq(S)
  <2>1. 1 \in 1..(Len(text) + 1)
    BY <1>0
  <2> QED BY <1>1, <2>1, CourseIsText
<1> QED BY <1>1, <1>7, <1>8

(* The scan copies q token by token when no match begins inside it. *)
LEMMA CopiedWhole ==
  ASSUME NEW S, NEW text \in Seq(S), NEW pattern \in Seq(S), pattern # <<>>,
         NEW by \in Seq(S), NEW q \in Seq(S), NEW p \in Nat,
         ApartAt(text, q, pattern, p),
         NEW f, Course(f, text, pattern, by, 1)
  PROVE  OccursAt(f[p + 1], q, 0)
<1>0. Len(text) \in Nat /\ Len(pattern) \in Nat \ {0} /\ Len(q) \in Nat
  BY EmptySeq
<1> DEFINE n == p + Len(q) + 1
           Begins(k) == /\ n - k <= Len(f[k])
                        /\ \A m \in 1..(n - k) : f[k][m] = text[(k - 1) + m]
           Good == {k \in 1..n : k <= p \/ Begins(k)}
<1>1. n \in Nat /\ n \in 1..(Len(text) + 1)
  BY <1>0 DEF ApartAt, OccursAt
<1>2. n \in Good
  <2>1. f[n] \in Seq(S)
    BY <1>1, CourseIsText
  <2>2. n - n <= Len(f[n]) /\ 1..(n - n) = {}
    BY <1>1, <2>1
  <2>3. Begins(n)
    BY <2>2
  <2> HIDE DEF Begins
  <2> QED BY <1>1, <2>3
<1>3. ASSUME NEW k \in 1..n, k + 1 \in Good, k < n PROVE k \in Good
  <2>1. SUFFICES ASSUME p < k PROVE Begins(k)
    <3> HIDE DEF Begins
    <3> QED BY <2>1, <1>1
  <2>2. k \in 1..Len(text) /\ k - 1 \in Nat /\ k - 1 \in 0..Len(text)
        /\ (k - 1) + 1 = k /\ ~ (k + 1 <= p)
    BY <1>0, <1>1, <1>3, <2>1
  <2>3. ~ Found(text, pattern, k)
    <3>1. ~ ((k - 1) + Len(pattern) <= p \/ p + Len(q) <= k - 1)
      BY <1>0, <1>3, <2>1
    <3>2. ~ OccursAt(text, pattern, k - 1)
      BY <2>2, <3>1 DEF ApartAt
    <3>3. Found(text, pattern, (k - 1) + 1) <=> OccursAt(text, pattern, k - 1)
      BY <2>2, FoundIsOccurs
    <3> QED BY <2>2, <3>2, <3>3
  <2>4. /\ <<text[k]>> \in Seq(S) /\ f[k + 1] \in Seq(S)
        /\ f[k] = <<text[k]>> \o f[k + 1]
    BY <2>2, <2>3, CourseToken
  <2>5. Begins(k + 1)
    BY <1>3, <2>2
  <2>6. /\ Len(f[k]) = 1 + Len(f[k + 1]) /\ Len(f[k + 1]) \in Nat
        /\ \A m \in 1..(1 + Len(f[k + 1])) :
             f[k][m] = IF m <= 1 THEN <<text[k]>>[m] ELSE f[k + 1][m - 1]
    <3>1. Len(<<text[k]>>) = 1
      OBVIOUS
    <3> QED BY <2>4, <3>1, ConcatProperties
  <2>7. n - k <= Len(f[k])
    BY <1>1, <2>2, <2>5, <2>6
  <2>8. ASSUME NEW m \in 1..(n - k) PROVE f[k][m] = text[(k - 1) + m]
    <3>1. m \in 1..(1 + Len(f[k + 1])) /\ m \in Nat \ {0}
      BY <1>1, <2>2, <2>5, <2>6
    <3>2. CASE m = 1
      <4>1. f[k][m] = <<text[k]>>[1]
        BY <2>6, <3>1, <3>2
      <4>2. (k - 1) + m = k /\ <<text[k]>>[1] = text[k]
        BY <3>2
      <4> QED BY <4>1, <4>2
    <3>3. CASE m # 1
      <4>1. m - 1 \in 1..(n - (k + 1)) /\ ~ (m <= 1) /\ ((k + 1) - 1) + (m - 1) = (k - 1) + m
        BY <1>1, <3>1, <3>3
      <4>2. f[k][m] = f[k + 1][m - 1]
        BY <2>6, <3>1, <4>1
      <4>3. f[k + 1][m - 1] = text[((k + 1) - 1) + (m - 1)]
        BY <2>5, <4>1
      <4> QED BY <4>1, <4>2, <4>3
    <3> QED BY <3>2, <3>3
  <2> QED BY <2>7, <2>8
<1>4. 1..n \subseteq Good
  <2> HIDE DEF Good, n
  <2> QED BY <1>1, <1>2, <1>3, Downwards
<1>5. Begins(p + 1)
  <2> HIDE DEF Begins
  <2>1. p + 1 \in 1..n /\ ~ (p + 1 <= p)
    BY <1>0
  <2> QED BY <1>4, <2>1
<1>6. n - (p + 1) = Len(q) /\ (p + 1) - 1 = p
  BY <1>0
<1>7. ASSUME NEW m \in 1..Len(q) PROVE f[p + 1][0 + m] = q[m]
  <2>1. f[p + 1][m] = text[p + m]
    BY <1>5, <1>6
  <2>2. text[p + m] = q[m] /\ 0 + m = m
    BY <1>0 DEF ApartAt, OccursAt
  <2> QED BY <2>1, <2>2
<1>8. 0 + Len(q) <= Len(f[p + 1])
  BY <1>0, <1>5, <1>6
<1> QED BY <1>7, <1>8 DEF OccursAt

(* What stands apart from every match is still there after replace. *)
LEMMA ReplaceKeeps ==
  ASSUME NEW S, NEW text \in Seq(S), NEW pattern \in Seq(S), pattern # <<>>,
         NEW by \in Seq(S), NEW q \in Seq(S), q # <<>>, NEW p \in Nat,
         ApartAt(text, q, pattern, p)
  PROVE  /\ replace(text, pattern, by) \in Seq(S)
         /\ \E j \in Nat : OccursAt(replace(text, pattern, by), q, j)
<1>0. Len(text) \in Nat /\ Len(pattern) \in Nat \ {0} /\ Len(q) \in Nat \ {0}
  BY EmptySeq
<1>1. PICK f : Course(f, text, pattern, by, 1) /\ replace(text, pattern, by) = f[1]
  BY ReplaceIsCourse
<1> DEFINE n == p + 1
           Holds(k) == \A i \in 1..n : k <= i => \E j \in Nat : OccursAt(f[i], q, j)
           Good == {k \in 1..n : Holds(k)}
<1>2. n \in 1..Len(text) /\ n \in Nat
  BY <1>0 DEF ApartAt, OccursAt
<1>3. n \in Good
  <2>1. OccursAt(f[n], q, 0)
    BY <1>1, CopiedWhole
  <2>2. \A i \in 1..n : n <= i => i = n
    BY <1>2
  <2>3. Holds(n)
    <3> HIDE DEF n
    <3> QED BY <2>1, <2>2
  <2> HIDE DEF Holds
  <2> QED BY <1>2, <2>3
<1>4. ASSUME NEW k \in 1..n, k + 1 \in Good, k < n PROVE k \in Good
  <2>1. k \in 1..Len(text) /\ k - 1 \in Nat /\ (k - 1) + 1 = k /\ k - 1 \in 0..Len(text)
    BY <1>0, <1>2
  <2>2. Holds(k + 1)
    BY <1>4
  <2>3. \E j \in Nat : OccursAt(f[k], q, j)
    <3>1. CASE Found(text, pattern, k)
      <4>1. /\ f[k + Len(pattern)] \in Seq(S)
            /\ f[k] = by \o f[k + Len(pattern)]
        BY <1>1, <2>1, <3>1, CourseMatch
      <4>2. OccursAt(text, pattern, k - 1)
        <5>1. Found(text, pattern, (k - 1) + 1) <=> OccursAt(text, pattern, k - 1)
          BY <2>1, FoundIsOccurs
        <5> QED BY <2>1, <3>1, <5>1
      <4>3. (k - 1) + Len(pattern) <= p \/ p + Len(q) <= k - 1
        BY <2>1, <4>2 DEF ApartAt
      <4>4. k + Len(pattern) \in 1..n /\ k + 1 <= k + Len(pattern)
        BY <1>0, <1>4, <4>3
      <4>5. PICK j \in Nat : OccursAt(f[k + Len(pattern)], q, j)
        BY <2>2, <4>4
      <4>6. OccursAt(by \o f[k + Len(pattern)], q, j + Len(by))
        BY <4>1, <4>5, OccursAfter
      <4>7. j + Len(by) \in Nat
        OBVIOUS
      <4> QED BY <4>1, <4>6, <4>7
    <3>2. CASE ~ Found(text, pattern, k)
      <4>1. /\ <<text[k]>> \in Seq(S) /\ f[k + 1] \in Seq(S)
            /\ f[k] = <<text[k]>> \o f[k + 1]
        BY <1>1, <2>1, <3>2, CourseToken
      <4>2. k + 1 \in 1..n /\ k + 1 <= k + 1
        BY <1>2, <1>4
      <4>3. PICK j \in Nat : OccursAt(f[k + 1], q, j)
        BY <2>2, <4>2
      <4>4. OccursAt(<<text[k]>> \o f[k + 1], q, j + Len(<<text[k]>>))
        BY <4>1, <4>3, OccursAfter
      <4>5. j + Len(<<text[k]>>) \in Nat
        BY <4>1
      <4> QED BY <4>1, <4>4, <4>5
    <3> QED BY <3>1, <3>2
  <2>4. Holds(k)
    <3>1. \A i \in 1..n : k <= i => i = k \/ k + 1 <= i
      BY <1>2
    <3> HIDE DEF n
    <3> QED BY <2>2, <2>3, <3>1
  <2> HIDE DEF Holds
  <2> QED BY <2>4
<1>5. 1..n \subseteq Good
  <2> HIDE DEF Good, n
  <2> QED BY <1>2, <1>3, <1>4, Downwards
<1>6. \E j \in Nat : OccursAt(f[1], q, j)
  <2>1. 1 \in 1..n /\ 1 <= 1
    BY <1>2
  <2>2. Holds(1)
    <3> HIDE DEF Holds
    <3> QED BY <1>5, <2>1
  <2> QED BY <2>1, <2>2
<1>7. f[1] \in Seq(S)
  <2>1. 1 \in 1..(Len(text) + 1)
    BY <1>0
  <2> QED BY <1>1, <2>1, CourseIsText
<1> QED BY <1>1, <1>6, <1>7

(* A text over some tokens is one over more of them. *)
LEMMA WiderText ==
  ASSUME NEW S, NEW T, S \subseteq T, NEW s \in Seq(S)
  PROVE  s \in Seq(T)
<1>1. Len(s) \in Nat /\ s \in [1..Len(s) -> S]
  BY LenProperties
<1>2. s \in [1..Len(s) -> T]
  <2>1. \A k \in 1..Len(s) : s[k] \in T
    BY <1>1
  <2> QED BY <1>1, <2>1
<1> QED BY <1>1, <1>2, SeqDef

(* What texts are made of; the provers do not know a literal for a STRING. *)
Token == STRING \cup {"%", "name", "original"}

(* A label that keeps the placeholders apart keeps the subject, whatever    *)
(* the sender is called and whatever the subject says.                      *)
LEMMA RenderKeeps ==
  ASSUME NEW subject, NEW sender \in Seq(Token), NEW original \in Seq(Token),
         FormatsOf(subject) \subseteq Seq(Token), LabelsApart(subject)
  PROVE  contains(render(subject, sender, original), original)
<1> DEFINE format == format_for(subject, sender)
           named  == replace(format, NamePlaceholder, sender)
<1>1. format \in FormatsOf(subject)
  BY DEF format_for, FormatsOf
<1>2. /\ NamePlaceholder \in Seq(Token) /\ NamePlaceholder # <<>>
      /\ OriginalPlaceholder \in Seq(Token) /\ OriginalPlaceholder # <<>>
  <2>1. ASSUME NEW a \in Token, NEW b \in Token
        PROVE  <<a, b, a>> \in Seq(Token) /\ <<a, b, a>> # <<>>
    OBVIOUS
  <2>2. "%" \in Token /\ "name" \in Token /\ "original" \in Token
    BY DEF Token
  <2> QED BY <2>1, <2>2 DEF NamePlaceholder, OriginalPlaceholder
<1>3. format \in Seq(Token)
  BY <1>1
<1>4. PICK i \in 0..Len(format) : ApartAt(format, OriginalPlaceholder, NamePlaceholder, i)
  BY <1>1 DEF LabelsApart
<1> HIDE DEF format
<1>5. i \in Nat
  BY <1>3
<1>6. /\ named \in Seq(Token)
      /\ \E j \in Nat : OccursAt(named, OriginalPlaceholder, j)
  BY <1>2, <1>3, <1>4, <1>5, ReplaceKeeps
<1> HIDE DEF named
<1>7. PICK j \in Nat : OccursAt(named, OriginalPlaceholder, j)
  BY <1>6
<1>8. /\ replace(named, OriginalPlaceholder, original) \in Seq(Token)
      /\ \E k \in Nat : OccursAt(replace(named, OriginalPlaceholder, original), original, k)
  BY <1>2, <1>6, <1>7, ReplacePutsIn
<1>9. contains(replace(named, OriginalPlaceholder, original), original)
  BY <1>8, ContainsIsOccurs, ContainsNothing
<1> QED BY <1>9 DEF render, named, format

(* What build_new_mail makes of the subject has the subject in it. *)
LEMMA SubjectOfKeeps ==
  ASSUME config \in IngressConfigs, LabelsApart(config.subject), NEW s
  PROVE  contains(subject_of(s), original_of(s))
<1>1. PICK original : original = original_of(s)
  OBVIOUS
<1>2. PICK sender : sender = extract_name(original)
  OBVIOUS
<1>3. /\ original \in Seq(Token) /\ FormatsOf(config.subject) \subseteq Seq(Token)
      /\ sender = NoName \/ sender \in Seq(Token)
  <2>1. /\ OriginalSubject \in Seq(STRING)
        /\ FormatsOf(config.subject) \subseteq Seq(STRING)
        /\ config.extracted = NoName \/ config.extracted \in Seq(STRING)
    BY IngressAssumption DEF IngressConstants
  <2>2. <<>> \in Seq(STRING)
    OBVIOUS
  <2>3. /\ original \in Seq(STRING)
        /\ sender = NoName \/ sender \in Seq(STRING)
    BY <1>1, <1>2, <2>1, <2>2 DEF original_of, extract_name
  <2>4. STRING \subseteq Token
    BY DEF Token
  <2>5. \A t \in Seq(STRING) : t \in Seq(Token)
    BY <2>4, WiderText
  <2> QED BY <2>1, <2>3, <2>5
<1>4. CASE sender = NoName
  <2>1. subject_of(s) = original
    BY <1>1, <1>2, <1>4 DEF subject_of
  <2>2. OccursAt(original, original, 0)
    BY <1>3 DEF OccursAt
  <2> QED BY <1>1, <1>3, <2>1, <2>2, ContainsIsOccurs, ContainsNothing
<1>5. CASE sender # NoName
  <2>1. subject_of(s) = render(config.subject, sender, original)
    BY <1>1, <1>2, <1>5 DEF subject_of
  <2> QED BY <1>1, <1>3, <1>5, <2>1, RenderKeeps
<1> QED BY <1>4, <1>5

(* The subject is kept by every step under a configuration whose labels are *)
(* apart; only EnqueueTarget adds a row.                                    *)
LEMMA SubjectNext ==
  ASSUME config \in IngressConfigs, LabelsApart(config.subject), SubjectKept, [Next]_vars
  PROVE  LabelsApart(config.subject)' /\ SubjectKept'
<1>1. CASE queued' = queued /\ config' = config
  BY <1>1 DEF SubjectKept
<1>2. ASSUME NEW c \in Clients, EnqueueTarget(c)
      PROVE  LabelsApart(config.subject)' /\ SubjectKept'
  <2>1. config' = config
    BY <1>2 DEF EnqueueTarget
  <2>2. \/ queued' = queued
        \/ /\ validate(session[c], Head(session[c].todo))
           /\ queued' = queued \cup {RowFor(c, Head(session[c].todo))}
    BY <1>2 DEF EnqueueTarget
  <2>3. CASE queued' # queued
    <3>2. contains(subject_of(session[c]), original_of(session[c]))
      BY SubjectOfKeeps
    <3>3. /\ RowFor(c, Head(session[c].todo)).subject = subject_of(session[c])
          /\ RowFor(c, Head(session[c].todo)).original = original_of(session[c])
      BY DEF RowFor
    <3> QED BY <2>1, <2>2, <2>3, <3>2, <3>3 DEF SubjectKept
  <2> QED BY <1>1, <2>1, <2>3
<1>3. ASSUME NEW c \in Clients, Command(c) \/ data_end(c) \/ Reply(c)
      PROVE  queued' = queued /\ config' = config
  BY <1>3 DEF Command, Connect, helo, Rset, data_start, Disconnect, mail, rcpt, data,
              Refuse, SessionStep, data_end, Reply
<1>4. Crash \/ Restart \/ UNCHANGED vars => queued' = queued /\ config' = config
  BY DEF Crash, Restart, vars
<1> QED BY <1>1, <1>2, <1>3, <1>4 DEF Next

(* build_new_mail never loses the subject of a mail to the label, for any   *)
(* names, subjects and formats in which some %original% shares no "%" with  *)
(* a %name%.  Config::validate only asks that %original% is there, and that *)
(* is not enough (the run MCSubject).                                       *)
THEOREM SubjectIsKept == Spec /\ LabelsApart(config.subject) => []SubjectKept
<1>1. Init => SubjectKept
  BY DEF Init, InitUp, SubjectKept
<1>2. IngressInv => config \in IngressConfigs
  BY DEF IngressInv, Typed
<1>3. /\ config \in IngressConfigs /\ LabelsApart(config.subject) /\ SubjectKept
      /\ [Next]_vars
      => LabelsApart(config.subject)' /\ SubjectKept'
  BY SubjectNext
<1> QED BY <1>1, <1>2, <1>3, IngressInvariant, PTL DEF Spec
=============================================================================
