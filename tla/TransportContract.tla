-------------------------- MODULE TransportContract --------------------------
(***************************************************************************)
(* What Transport::send promises the dispatcher (crates/core/src/          *)
(* transport.rs: "Delivers a single mail.  Returns an error if delivery    *)
(* failed"), call by call.  These are the outcomes that Dispatcher knows:  *)
(* SendOk is a delivery and AnswerOk, SendErr is AnswerErr, SendAnswerLost *)
(* is AnswerErr with a delivery before or after it.                        *)
(***************************************************************************)
EXTENDS Naturals

CONSTANT Calls

VARIABLES
  outcome,  \* per call: "pending", then "ok" or "err"
  copies,   \* per call: copies of the mail that the service has got
  astray    \* per call: its service sends clients elsewhere

contractVars == <<outcome, copies, astray>>

Init ==
  /\ outcome = [c \in Calls |-> "pending"]
  /\ copies = [c \in Calls |-> 0]
  /\ astray \in [Calls -> BOOLEAN]

(* At most once in a call; also after it has failed, but never after it has *)
(* succeeded.                                                               *)
Deliver(c) ==
  /\ outcome[c] \in {"pending", "err"}
  /\ copies[c] = 0
  /\ copies' = [copies EXCEPT ![c] = 1]
  /\ UNCHANGED <<outcome, astray>>

AnswerOk(c) ==
  /\ outcome[c] = "pending"
  /\ copies[c] = 1 \/ astray[c]
  /\ outcome' = [outcome EXCEPT ![c] = "ok"]
  /\ UNCHANGED <<copies, astray>>

AnswerErr(c) ==
  /\ outcome[c] = "pending"
  /\ outcome' = [outcome EXCEPT ![c] = "err"]
  /\ UNCHANGED <<copies, astray>>

Next == \E c \in Calls : Deliver(c) \/ AnswerOk(c) \/ AnswerErr(c)

Spec == Init /\ [][Next]_contractVars
=============================================================================
