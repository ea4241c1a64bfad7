------------------------------- MODULE Ingress -------------------------------
(***************************************************************************)
(* The SMTP ingress (crates/ingress-smtp/src/lib.rs): sessions of several  *)
(* clients, each with its own RelayHandler, that turn accepted messages    *)
(* into rows of the queue, one row per routing target.                     *)
(*                                                                         *)
(* The order in which the handler's callbacks are called is decided by the *)
(* server library (mailin_embedded, external): it keeps its own protocol   *)
(* state (phase) and envelope (from, to), forgets the envelope on RSET or  *)
(* a new HELO without telling the handler, and goes on only after an OK.   *)
(* A refusal may also close the connection.  AUTH is not advertised        *)
(* (configured_server), so authenticated_as stays None.                    *)
(*                                                                         *)
(* The queue is seen through its INSERT only: `queued` is the set of rows  *)
(* the ingress has stored.  What becomes of a row is Dispatcher's matter.  *)
(***************************************************************************)
EXTENDS Routing, SubjectLabel

CONSTANTS Clients,     \* connections, by the address they come from
          Senders,     \* envelope senders
          NullSender,  \* MAIL FROM:<>, empty once the brackets are stripped
          Recipients,  \* envelope recipients
          Chunks,      \* what a piece of DATA may be
          Subject,     \* the chunk with a Subject header that is not blank
          OriginalSubject, \* the text of that header
          NoName,      \* no sender name found in the subject
          IngressConfigs, \* configurations the relay may run with
          MaxRcpts,    \* bound: recipients of a transaction
          MaxChunks,   \* bound: pieces of a message
          MaxTxns,     \* bound: messages sent to the end
          MaxFaults    \* bound: failing statements and crashes

(* What holds of the constants in every program: the server's own kinds of  *)
(* data, and a configuration that Config::validate let through.             *)
IngressConstants ==
  /\ Subject \in Chunks
  /\ NullSender \notin Senders
  /\ OriginalSubject \in Seq(STRING) \ {<<>>}
  /\ {MaxRcpts, MaxChunks, MaxTxns, MaxFaults} \subseteq Nat
  /\ \A c \in IngressConfigs :
       /\ c.whitelist \subseteq Clients
       /\ formats_valid(c.subject) /\ FormatsOf(c.subject) \subseteq Seq(STRING)
       /\ c.extracted = NoName \/ c.extracted \in Seq(STRING)
       /\ c.matches_blank \in BOOLEAN
       /\ \A rule \in RulesOf(c.routing) : rule.targets \in Seq(ToSet(rule.targets))

ASSUME IngressAssumption == IngressConstants

VARIABLES
  config,   \* Context: whitelist, anonymous_enabled, routing, subject, the name
            \* that subject_matcher finds in OriginalSubject (extracted), and
            \* whether it matches an empty subject (matches_blank)
  up,       \* whether the relay process runs
  session,  \* per connection: the server's state and the RelayHandler
  queued,   \* the rows stored so far
  reply,    \* per message: the answer to its end of data
  txns,     \* messages sent to the end so far
  faults    \* ghost: failures injected so far

vars == <<config, up, session, queued, reply, txns, faults>>

Phases == {"closed", "connected", "hello", "mail", "rcpt", "data", "queueing"}

(* phase, from and to belong to the server; envelope_from, recipients and   *)
(* data are the fields of RelayHandler; todo, accepted and txn the locals   *)
(* of data_end while it works through the targets.                          *)
NewSession(phase) ==
  [phase |-> phase, from |-> NullSender, to |-> <<>>,
   envelope_from |-> NullSender, recipients |-> <<>>, data |-> <<>>,
   todo |-> <<>>, accepted |-> 0, txn |-> 0]

InitUp(is_up) ==
  /\ config \in IngressConfigs
  /\ up = is_up
  /\ session = [c \in Clients |-> NewSession("closed")]
  /\ queued = {}
  /\ reply = [x \in 1..MaxTxns |-> "none"]
  /\ txns = 0
  /\ faults = 0

Init == InitUp(TRUE)

Fault == faults < MaxFaults /\ faults' = faults + 1

(* The session of c becomes s; nothing is queued or answered. *)
SessionStep(c, s) ==
  /\ session' = [session EXCEPT ![c] = s]
  /\ UNCHANGED <<config, up, queued, reply, txns, faults>>

(* A refused command: the client may go on in the same phase or is cut off. *)
Refuse(c, s) == SessionStep(c, s) \/ SessionStep(c, NewSession("closed"))

is_allowed(c) == c \in config.whitelist
-----------------------------------------------------------------------------
Connect(c) ==
  /\ up
  /\ session[c].phase = "closed"
  /\ SessionStep(c, NewSession("connected"))

(* HELO starts over; 421 when the address is not in the whitelist. *)
helo(c) ==
  /\ session[c].phase \in {"connected", "hello", "mail", "rcpt"}
  /\ IF is_allowed(c)
     THEN SessionStep(c, [session[c] EXCEPT !.phase = "hello",
                                            !.from = NullSender, !.to = <<>>])
     ELSE Refuse(c, session[c])

mail_keeping_recipients(c, from) ==    \* mutant: the last transaction is not cleared
  /\ session[c].phase = "hello"
  /\ IF config.anonymous_enabled
     THEN SessionStep(c, [session[c] EXCEPT !.envelope_from = from, !.data = <<>>,
                                            !.phase = "mail", !.from = from, !.to = <<>>])
     ELSE Refuse(c, session[c])

(* MAIL FROM: the handler starts a fresh transaction, then asks for AUTH if *)
(* anonymous submission is off.                                             *)
mail(c, from) ==
  /\ session[c].phase = "hello"
  /\ IF ~ is_allowed(c)
     THEN Refuse(c, session[c])
     ELSE LET fresh == [session[c] EXCEPT !.envelope_from = from,
                                          !.recipients = <<>>, !.data = <<>>]
          IN  IF ~ config.anonymous_enabled
              THEN Refuse(c, fresh)
              ELSE SessionStep(c, [fresh EXCEPT !.phase = "mail",
                                                !.from = from, !.to = <<>>])

rcpt_with_brackets(c, to) ==           \* mutant: strip_brackets is not applied
  /\ session[c].phase \in {"mail", "rcpt"}
  /\ Len(session[c].to) < MaxRcpts
  /\ SessionStep(c, [session[c] EXCEPT !.phase = "rcpt",
                                       !.to = Append(@, to),
                                       !.recipients = Append(@, <<to>>)])

(* RCPT TO.  The handler keeps the address as it came and build_new_mail    *)
(* strips its brackets; addresses here are the stripped ones.               *)
rcpt(c, to) ==
  /\ session[c].phase \in {"mail", "rcpt"}
  /\ Len(session[c].to) < MaxRcpts
  /\ SessionStep(c, [session[c] EXCEPT !.phase = "rcpt",
                                       !.to = Append(@, to),
                                       !.recipients = Append(@, to)])

(* RSET: the server forgets the envelope, the handler is not called. *)
Rset(c) ==
  /\ session[c].phase \in {"hello", "mail", "rcpt"}
  /\ SessionStep(c, [session[c] EXCEPT !.phase = "hello",
                                       !.from = NullSender, !.to = <<>>])

data_start(c) ==
  /\ session[c].phase = "rcpt"
  /\ SessionStep(c, [session[c] EXCEPT !.phase = "data", !.data = <<>>])

data(c, buf) ==
  /\ session[c].phase = "data"
  /\ Len(session[c].data) < MaxChunks
  /\ SessionStep(c, [session[c] EXCEPT !.data = Append(@, buf)])

(* The connection ends before the message does: the handler is dropped. *)
Disconnect(c) ==
  /\ session[c].phase \in {"connected", "hello", "mail", "rcpt", "data"}
  /\ SessionStep(c, NewSession("closed"))
-----------------------------------------------------------------------------
(* data_end, which takes the targets one by one and blocks on every INSERT. *)

(* An empty message does not parse. *)
parses(s) == s.data # <<>>

(* The subject as it came: empty when the message has none. *)
original_of(s) == IF Subject \in ToSet(s.data) THEN OriginalSubject ELSE <<>>

(* What the pattern captures.  In an empty subject that is an empty name,   *)
(* if the pattern matches there at all.                                     *)
extract_name(original) ==
  IF original # <<>> THEN config.extracted
  ELSE IF config.matches_blank THEN <<>>
  ELSE NoName

(* build_new_mail: the subject with the sender's label, if there is a name *)
(* (nobody is authenticated).                                              *)
subject_of(s) ==
  LET original == original_of(s)
      sender   == extract_name(original)
  IN  IF sender = NoName THEN original ELSE render(config.subject, sender, original)

payload_to(s, target) ==
  IF target.recipients = <<>> THEN s.recipients ELSE target.recipients

(* NewMail::validate of the payload for one target. *)
validate(s, target) ==
  /\ s.envelope_from # NullSender
  /\ payload_to(s, target) # <<>>
  /\ subject_of(s) # <<>>

Answered(s) == [s EXCEPT !.phase = "hello", !.from = NullSender, !.to = <<>>,
                         !.todo = <<>>, !.accepted = 0, !.txn = 0]

(* 554 for a message that does not parse, 550 for a refused sender. *)
data_end(c) ==
  LET s       == session[c]
      targets == TargetsFor(config.routing, s.envelope_from)
      refusal == IF ~ parses(s) THEN "554" ELSE "550"
  IN  /\ s.phase = "data"
      /\ txns < MaxTxns
      /\ txns' = txns + 1
      /\ IF ~ parses(s) \/ targets = RejectRoute
         THEN /\ reply' = [reply EXCEPT ![txns + 1] = refusal]
              /\ session' = [session EXCEPT ![c] = Answered(s)]
         ELSE /\ session' = [session EXCEPT ![c] = [s EXCEPT !.phase = "queueing",
                                                             !.todo = targets,
                                                             !.accepted = 0,
                                                             !.txn = txns + 1]]
              /\ UNCHANGED reply
      /\ UNCHANGED <<config, up, queued, faults>>

(* The row of a target; nth (its place among the targets), client, envelope *)
(* (the recipients that the server knows) and original are ghosts.          *)
RowFor(c, target) ==
  LET s == session[c]
  IN  [txn |-> s.txn, client |-> c, sender |-> s.envelope_from,
       to |-> payload_to(s, target), subject |-> subject_of(s),
       transport |-> target.transport,
       nth |-> Len(TargetsFor(config.routing, s.envelope_from)) - Len(s.todo) + 1,
       envelope |-> s.to, original |-> original_of(s)]

EnqueueTarget_first_only(c) ==         \* mutant: the loop ends with the first success
  LET s      == session[c]
      target == Head(s.todo)
  IN  /\ s.phase = "queueing"
      /\ s.todo # <<>>
      /\ IF validate(s, target)
         THEN /\ session' = [session EXCEPT ![c] = [s EXCEPT !.todo = <<>>,
                                                             !.accepted = 1]]
              /\ queued' = queued \cup {RowFor(c, target)}
         ELSE /\ session' = [session EXCEPT ![c] = [s EXCEPT !.todo = Tail(@)]]
              /\ UNCHANGED queued
      /\ UNCHANGED <<config, up, reply, txns, faults>>

(* The next target: an invalid payload is skipped, a failing INSERT only    *)
(* logged.                                                                  *)
EnqueueTarget(c) ==
  LET s      == session[c]
      target == Head(s.todo)
      rest   == [s EXCEPT !.todo = Tail(s.todo)]
  IN  /\ s.phase = "queueing"
      /\ s.todo # <<>>
      /\ \/ /\ ~ validate(s, target)
            /\ session' = [session EXCEPT ![c] = rest]
            /\ UNCHANGED <<queued, faults>>
         \/ /\ validate(s, target)
            /\ session' = [session EXCEPT ![c] = [rest EXCEPT !.accepted = @ + 1]]
            /\ queued' = queued \cup {RowFor(c, target)}
            /\ UNCHANGED faults
         \/ /\ validate(s, target)
            /\ Fault
            /\ session' = [session EXCEPT ![c] = rest]
            /\ UNCHANGED queued
      /\ UNCHANGED <<config, up, reply, txns>>

Reply_always_ok(c) ==                  \* mutant: accepted is not looked at
  /\ session[c].phase = "queueing"
  /\ session[c].todo = <<>>
  /\ reply' = [reply EXCEPT ![session[c].txn] = "250"]
  /\ session' = [session EXCEPT ![c] = Answered(session[c])]
  /\ UNCHANGED <<config, up, queued, txns, faults>>

Reply_early_error(c) ==                \* mutant: one failed target refuses the message
  /\ session[c].phase = "queueing"
  /\ session[c].todo = <<>>
  /\ reply' = [reply EXCEPT ![session[c].txn] =
                 IF session[c].accepted < Len(TargetsFor(config.routing,
                                                         session[c].envelope_from))
                 THEN "451" ELSE "250"]
  /\ session' = [session EXCEPT ![c] = Answered(session[c])]
  /\ UNCHANGED <<config, up, queued, txns, faults>>

(* 250 as soon as one target is queued, 451 if none is. *)
Reply(c) ==
  /\ session[c].phase = "queueing"
  /\ session[c].todo = <<>>
  /\ reply' = [reply EXCEPT ![session[c].txn] =
                 IF session[c].accepted = 0 THEN "451" ELSE "250"]
  /\ session' = [session EXCEPT ![c] = Answered(session[c])]
  /\ UNCHANGED <<config, up, queued, txns, faults>>
-----------------------------------------------------------------------------
(* The process ends at any point; the rows stay, the sessions do not. *)
Crash ==
  /\ up
  /\ Fault
  /\ up' = FALSE
  /\ session' = [c \in Clients |-> NewSession("closed")]
  /\ UNCHANGED <<config, queued, reply, txns>>

Restart ==
  /\ ~ up
  /\ up' = TRUE
  /\ UNCHANGED <<config, session, queued, reply, txns, faults>>

(* A command of the client or a piece of its message. *)
Command(c) ==
  \/ Connect(c) \/ helo(c) \/ Rset(c) \/ data_start(c) \/ Disconnect(c)
  \/ \E from \in Senders \cup {NullSender} : mail(c, from)
  \/ \E to \in Recipients : rcpt(c, to)
  \/ \E buf \in Chunks : data(c, buf)

Next ==
  \/ \E c \in Clients : Command(c) \/ data_end(c) \/ EnqueueTarget(c) \/ Reply(c)
  \/ Crash \/ Restart

Spec == Init /\ [][Next]_vars
-----------------------------------------------------------------------------
RowsOf(x) == {row \in queued : row.txn = x}

Replies == {"none", "250", "451", "550", "554"}

(* Every variable has its type. *)
TypeOK ==
  /\ config \in IngressConfigs
  /\ up \in BOOLEAN
  /\ \A c \in Clients :
       LET s == session[c]
       IN  /\ s.phase \in Phases
           /\ s.from \in Senders \cup {NullSender}
           /\ s.envelope_from \in Senders \cup {NullSender}
           /\ s.to \in Seq(Recipients) /\ s.recipients \in Seq(Recipients)
           /\ s.data \in Seq(Chunks)
           /\ s.accepted \in Nat /\ s.txn \in 0..txns
  /\ reply \in [1..MaxTxns -> Replies]
  /\ txns \in 0..MaxTxns

(* The envelope the handler works with is the one of the current            *)
(* transaction: neither RSET, a new HELO, a refused MAIL nor an earlier     *)
(* message on the connection leaves anything behind in it.                  *)
EnvelopeIsCurrent ==
  \A c \in Clients :
    session[c].phase \in {"mail", "rcpt", "data", "queueing"} =>
      /\ session[c].envelope_from = session[c].from
      /\ session[c].recipients = session[c].to

(* A message answered with 250 is in the queue: the client may forget it. *)
AcceptedIsQueued == \A x \in 1..MaxTxns : reply[x] = "250" => RowsOf(x) # {}

(* A message that was refused or deferred has left nothing in the queue:    *)
(* the client may send it again, or give up, without a copy on its way.     *)
RefusedLeavesNothing ==
  \A x \in 1..MaxTxns : reply[x] \in {"451", "550", "554"} => RowsOf(x) = {}

(* Only clients in the whitelist, in anonymous mode, and senders that the   *)
(* routing does not refuse ever get a row; and it names one of the targets  *)
(* of the sender's own rule.                                                *)
OnlyPermittedIsQueued ==
  \A row \in queued :
    /\ row.client \in config.whitelist
    /\ config.anonymous_enabled
    /\ \E k \in DOMAIN TargetsFor(config.routing, row.sender) :
         LET target == TargetsFor(config.routing, row.sender)[k]
         IN  /\ row.transport = target.transport /\ target.transport # Reject
             /\ target.recipients # <<>> => row.to = target.recipients

(* The row goes where the target says, to the target's own recipients or,   *)
(* if it has none, to those of the message's envelope.                      *)
Serves(row, target) ==
  /\ row.transport = target.transport
  /\ row.to = IF target.recipients = <<>> THEN row.envelope ELSE target.recipients

(* Every target of the sender's rule has a row of its own of message x. *)
FannedOut(x) ==
  \A row \in RowsOf(x) :
    LET targets == TargetsFor(config.routing, row.sender)
    IN  \A k \in DOMAIN targets :
          \E r \in RowsOf(x) : r.nth = k /\ Serves(r, targets[k])

(* As long as no INSERT fails and the process lives, a message answered     *)
(* with 250 has a row for every target of its sender's rule, also for two   *)
(* targets that share a transport.                                          *)
FanOutWithoutFaults ==
  \A x \in 1..MaxTxns : reply[x] = "250" /\ faults = 0 => FannedOut(x)

(* The label never costs the subject: what was sent as the subject is part  *)
(* of what is delivered ("Every subject format must keep the original       *)
(* subject somewhere", Config::validate, crates/core/src/config.rs:155).    *)
SubjectKept == \A row \in queued : contains(row.subject, row.original)

(* What README.md:305 says of a rule with several targets: "Each target     *)
(* becomes its own queue entry".                                            *)
EachTargetQueued == \A x \in 1..MaxTxns : reply[x] = "250" => FannedOut(x)
=============================================================================
