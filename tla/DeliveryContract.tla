-------------------------- MODULE DeliveryContract --------------------------
(***************************************************************************)
(* What the relay promises for an accepted mail, without queue rows,       *)
(* claims, ticks, tasks, leases or restarts:                               *)
(*  - an accepted mail is never forgotten: it stays queued until the relay *)
(*    settles it, once, as sent or as dead;                                *)
(*  - it is called sent only after a copy has reached the recipient;       *)
(*  - a settled mail is never handed out again;                            *)
(*  - failures are counted one by one, and max_attempts of them settle it. *)
(* crates/core/src/queue.rs and the README state these promises.           *)
(***************************************************************************)
EXTENDS Naturals

CONSTANTS MailIds, MaxAttempts

VARIABLES state,     \* what the relay has promised about each mail
          tries,     \* failures counted so far
          received   \* copies that reached the recipient

contractVars == <<state, tries, received>>

ContractInit ==
  /\ state = [m \in MailIds |-> "new"]
  /\ tries = [m \in MailIds |-> 0]
  /\ received = [m \in MailIds |-> 0]

Accept(m) ==
  /\ state[m] = "new"
  /\ state' = [state EXCEPT ![m] = "queued"]
  /\ UNCHANGED <<tries, received>>

HandOver(m) ==
  /\ state[m] = "queued"
  /\ received' = [received EXCEPT ![m] = @ + 1]
  /\ UNCHANGED <<state, tries>>

Fail(m) ==
  /\ state[m] = "queued"
  /\ tries[m] + 1 < MaxAttempts
  /\ tries' = [tries EXCEPT ![m] = @ + 1]
  /\ UNCHANGED <<state, received>>

Bury(m) ==
  /\ state[m] = "queued"
  /\ tries[m] < MaxAttempts
  /\ tries' = [tries EXCEPT ![m] = @ + 1]
  /\ state' = [state EXCEPT ![m] = "dead"]
  /\ UNCHANGED received

Confirm(m) ==
  /\ state[m] = "queued"
  /\ received[m] > 0
  /\ state' = [state EXCEPT ![m] = "sent"]
  /\ UNCHANGED <<tries, received>>

ContractNext ==
  \E m \in MailIds : Accept(m) \/ HandOver(m) \/ Fail(m) \/ Bury(m) \/ Confirm(m)

ContractSpec == ContractInit /\ [][ContractNext]_contractVars
=============================================================================
