-------------------------------- MODULE Relay --------------------------------
(***************************************************************************)
(* The running relay: the SMTP ingress and the dispatcher in one process,  *)
(* on one table (run_relay, crates/oxid-relay/src/main.rs).  The ingress   *)
(* has a thread of its own, which may end while the dispatcher goes on, and *)
(* one for every connection; after a shutdown they go on until the process *)
(* ends.  A crash of the process takes everything, wherever the sessions   *)
(* and the deliveries are.                                                 *)
(*                                                                         *)
(* The dispatcher is extended, the ingress instantiated: its INSERT is the *)
(* enqueue on the dispatcher's table, and takes the place of Dispatcher's  *)
(* Submit.  They share the table, the process and the bound on failures.   *)
(***************************************************************************)
EXTENDS Dispatcher

CONSTANTS Clients, Senders, NullSender, Recipients, Chunks, Subject,
          OriginalSubject, NoName, Reject, NoRule, IngressConfigs,
          MaxRcpts, MaxChunks, MaxTxns

VARIABLES
  ingress,   \* where the ingress thread stands
  config, session, queued, reply, txns,   \* those of Ingress
  origin     \* ghost: the message a row was made from, 0 for no row

ingressVars == <<config, session, queued, reply, txns>>

relayVars == <<vars, ingress, ingressVars, origin>>

Listening == ingress = "listening"

Smtpd == INSTANCE Ingress WITH up <- Listening

(* A rule names transports that the rows of the table can have. *)
ASSUME RelayAssumption ==
  /\ NoTransport # Reject
  /\ Smtpd!IngressConstants
  /\ \A c \in IngressConfigs : \A rule \in Smtpd!RulesOf(c.routing) :
       /\ rule.transport \in MaybeTransport \cup {Reject}
       /\ \A target \in Smtpd!ToSet(rule.targets) :
            target.transport \in MaybeTransport \cup {Reject}

RelayInitAt(t) ==
  /\ InitAt(t)
  /\ ingress = "down"
  /\ Smtpd!InitUp(FALSE)
  /\ origin = [m \in MailIds |-> 0]

RelayInit == RelayInitAt(0)

(* What the dispatcher owns, the table and the failures aside. *)
dispatcherVars == <<clock, pc, loopVars, handles, permits, startVars, ghostVars>>
-----------------------------------------------------------------------------
(* The process starts: the ingress thread is spawned before the dispatcher  *)
(* runs.  (A relay without an [ingress.smtp] section is one whose thread    *)
(* ends at once.)                                                           *)
Launch(c) ==
  /\ Start(c)
  /\ ingress' = "starting"
  /\ UNCHANGED <<ingressVars, origin>>

(* serve binds the address and listens.  Bound: as long as a client may     *)
(* still end a message.                                                     *)
Serve ==
  /\ ingress = "starting"
  /\ txns < MaxTxns
  /\ ingress' = "listening"
  /\ UNCHANGED <<vars, ingressVars, origin>>

ServeFails_stops_relay ==              \* mutant: the error ends run_relay
  /\ ingress = "starting"
  /\ ingress' = "down"
  /\ pc' = "down" /\ now' = 0 /\ batch' = <<>> /\ handles' = <<>> /\ permits' = 0
  /\ UNCHANGED <<mails, clock, startVars, ghostVars, faults, ingressVars, origin>>

(* The address is taken or not valid: the thread logs and ends, the         *)
(* dispatcher does not notice.                                              *)
ServeFails ==
  /\ ingress = "starting"
  /\ ingress' = "ended"
  /\ UNCHANGED <<vars, ingressVars, origin>>

(* The process is gone, and with it thread, sessions and their handlers. *)
SessionsEnd ==
  /\ ingress' = "down"
  /\ session' = [c \in Clients |-> Smtpd!NewSession("closed")]
  /\ UNCHANGED <<config, queued, reply, txns, origin>>

(* run returns: nobody tells the sessions, and nobody waits for them. *)
StopRelay == Shutdown /\ UNCHANGED <<ingress, ingressVars, origin>>

(* The process ends, in the middle of whatever the sessions are doing. *)
RelayExit == Exit /\ SessionsEnd

RelayCrash == Crash /\ SessionsEnd
-----------------------------------------------------------------------------
(* Steps of the ingress that leave the table alone.  Bound: a client talks  *)
(* as long as it may still end a message.                                   *)
Converse(c) ==
  /\ txns < MaxTxns \/ session[c].phase = "queueing"
  /\ UNCHANGED <<mails, dispatcherVars, ingress, origin>>
  /\ Smtpd!Command(c) \/ Smtpd!Reply(c)

EndOfData(c) ==
  /\ UNCHANGED <<mails, dispatcherVars, ingress, origin>>
  /\ Smtpd!data_end(c)

Fresh == {m \in MailIds : mails[m].status = "absent"}

Store_not_awaited(c) ==                \* mutant: the future of the INSERT is dropped
  /\ UNCHANGED <<dispatcherVars, ingress, mails, origin>>
  /\ Smtpd!EnqueueTarget(c)

(* The INSERT for one target, on the thread of its connection: what the     *)
(* ingress counts as accepted is a row of the table, with an id of its own. *)
(* Bound: there is an id left.                                              *)
Store(c) ==
  /\ UNCHANGED <<dispatcherVars, ingress>>
  /\ Smtpd!EnqueueTarget(c)
  /\ IF session'[c].accepted > session[c].accepted
     THEN \E m \in Fresh :
            /\ mails' = enqueue(mails, m, Head(session[c].todo).transport, clock)
            /\ origin' = [origin EXCEPT ![m] = session[c].txn]
     ELSE UNCHANGED <<mails, origin>>

(* A step of the dispatcher. *)
Dispatch(A) == A /\ UNCHANGED <<ingress, ingressVars, origin>>

Work(i) == Dispatch(i \in DOMAIN handles /\ Deliver(i))

RelayStep ==
  \/ \E c \in Configs : Launch(c)
  \/ Serve \/ ServeFails \/ StopRelay \/ RelayExit \/ RelayCrash
  \/ \E c \in Clients : Converse(c) \/ EndOfData(c) \/ Store(c)
  \/ Dispatch(Loop)
  \/ \E i \in 1..BatchSize : Work(i)

RelayNext == Dispatch(PassTime \/ SetClockBack) \/ RelayStep

RelaySpec == RelayInit /\ [][RelayNext]_relayVars
-----------------------------------------------------------------------------
RowsFrom(x) == {m \in MailIds : origin[m] = x}

(* What a client was told about a message stays true in the table, through  *)
(* ticks, fan-outs of other sessions, crashes and shutdowns in the middle   *)
(* of a fan-out: an accepted message has a row, a refused one has none and  *)
(* reaches nobody, and a row goes where the rule of the message's sender    *)
(* sends it.                                                                *)
ReplyIsTrue ==
  /\ \A x \in 1..MaxTxns :
       /\ reply[x] = "250" => \E m \in RowsFrom(x) : mails[m].status # "absent"
       /\ reply[x] \in {"451", "550", "554"} => RowsFrom(x) = {}
  /\ \A m \in MailIds :
       /\ delivered[m] > 0 => origin[m] # 0 /\ reply[origin[m]] \in {"250", "none"}
       /\ mails[m].status # "absent" =>
            \E row \in queued : row.txn = origin[m] /\ row.transport = mails[m].transport
=============================================================================
