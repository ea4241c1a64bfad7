------------------------------ MODULE MailQueue ------------------------------
(***************************************************************************)
(* The durable queue: the Queue trait (crates/core/src/queue.rs) as        *)
(* SqliteQueue implements it (crates/queue-sqlite/src/lib.rs).             *)
(*                                                                         *)
(* Every operation of the queue is ONE SQL statement, so it is modelled as *)
(* an operator from the table to the table it leaves (or, for fetch_due,   *)
(* to the set of answers it may give).  The modules that use the queue say *)
(* when the statement runs and what happens when it fails.                 *)
(*                                                                         *)
(* The table is a function on MailIds; an id nobody has inserted yet has   *)
(* the row NoRow.  Times are natural numbers (the RFC 3339 text columns    *)
(* are compared as times); last_error records whether the column is set.   *)
(* sender, recipients, subject, body and created_at are never read by the  *)
(* queue's own logic and are left out.                                     *)
(***************************************************************************)
EXTENDS Integers, Sequences

CONSTANTS MailIds,         \* the UUIDs the program ever draws
          TransportNames,  \* names a transport can have
          NoTransport      \* the NULL of the transport column

ASSUME NoTransportAssumption == NoTransport \notin TransportNames

MaybeTransport == TransportNames \cup {NoTransport}

MailStatus == {"pending", "sending", "sent", "failed", "dead"}

Row == [status          : MailStatus \cup {"absent"},
        attempts        : Nat,
        last_error      : BOOLEAN,
        transport       : MaybeTransport,
        updated_at      : Nat,
        next_attempt_at : Nat]

NoRow == [status |-> "absent", attempts |-> 0, last_error |-> FALSE,
          transport |-> NoTransport, updated_at |-> 0, next_attempt_at |-> 0]

Table == [MailIds -> Row]

(* What row_to_mail hands to the caller: a copy that does not follow later *)
(* changes of the row.                                                     *)
Mail == [id : MailIds, attempts : Nat, transport : MaybeTransport]

row_to_mail(t, m) ==
  [id |-> m, attempts |-> t[m].attempts, transport |-> t[m].transport]
-----------------------------------------------------------------------------
(* INSERT of a mail built by Mail::from_new: due at once, never tried. *)
enqueue(t, m, transport, utc_now) ==
  [t EXCEPT ![m] = [status |-> "pending", attempts |-> 0,
                    last_error |-> FALSE, transport |-> transport,
                    updated_at |-> utc_now, next_attempt_at |-> utc_now]]

set_status_keeps_attempts(t, m, status, last_error, bump_attempts, next_attempt_at, utc_now) ==
  [t EXCEPT ![m] = [@ EXCEPT !.status = status, !.last_error = last_error,
                             !.updated_at = utc_now,
                             !.next_attempt_at = next_attempt_at]]  \* mutant: no bump

(* The UPDATE every status change goes through.  It names the row by its   *)
(* id only: the old status is not looked at.  bump_attempts is the 0 or 1  *)
(* bound into the statement, next_attempt_at the value COALESCE leaves.    *)
set_status(t, m, status, last_error, bump_attempts, next_attempt_at, utc_now) ==
  [t EXCEPT ![m] = [status          |-> status,
                    attempts        |-> t[m].attempts + bump_attempts,
                    last_error      |-> last_error,
                    transport       |-> t[m].transport,
                    updated_at      |-> utc_now,
                    next_attempt_at |-> next_attempt_at]]

mark_sending(t, m, utc_now) ==
  set_status(t, m, "sending", FALSE, 0, t[m].next_attempt_at, utc_now)

mark_sent(t, m, utc_now) ==
  set_status(t, m, "sent", FALSE, 0, t[m].next_attempt_at, utc_now)

mark_failed_due_at_once(t, m, retry_at, utc_now) ==   \* mutant: retry_at is not bound
  set_status(t, m, "failed", TRUE, 1, t[m].next_attempt_at, utc_now)

mark_failed(t, m, retry_at, utc_now) ==
  set_status(t, m, "failed", TRUE, 1, retry_at, utc_now)

mark_dead(t, m, utc_now) ==
  set_status(t, m, "dead", TRUE, 1, t[m].next_attempt_at, utc_now)

(* Back to 'pending'; the attempt counter, the error and the due time stay. *)
Requeue(t, claimed, utc_now) ==
  [m \in MailIds |->
     IF m \in claimed
     THEN [t[m] EXCEPT !.status = "pending", !.updated_at = utc_now]
     ELSE t[m]]

requeue_sending_resets_attempts(t, utc_now) ==   \* mutant: retries start over
  [m \in MailIds |-> IF t[m].status = "sending"
                     THEN [t[m] EXCEPT !.status = "pending", !.attempts = 0]
                     ELSE t[m]]

requeue_sending(t, utc_now) ==
  Requeue(t, {m \in MailIds : t[m].status = "sending"}, utc_now)

requeue_stale_any_status(t, older_than, utc_now) ==  \* mutant: status not tested
  Requeue(t, {m \in MailIds : /\ t[m].status # "absent"
                              /\ t[m].updated_at < older_than}, utc_now)

requeue_stale_sending(t, older_than, utc_now) ==
  Requeue(t, {m \in MailIds : /\ t[m].status = "sending"
                              /\ t[m].updated_at < older_than}, utc_now)
-----------------------------------------------------------------------------
(* The WHERE clause of fetch_due. *)
is_due(row, now) ==
  /\ row.status \in {"pending", "failed"}
  /\ row.next_attempt_at <= now

(* The ids fetch_due may answer with: due rows, no row twice, by due time, *)
(* and a due row is left out only when LIMIT cuts it off, behind all that  *)
(* are returned.  Rows that are due at the same time come in any order.    *)
fetch_due(t, limit, now) ==
  LET due == {m \in MailIds : is_due(t[m], now)}
  IN  UNION {{s \in [1..n -> due] :
                /\ \A i, j \in 1..n :
                     i < j => /\ s[i] # s[j]
                              /\ t[s[i]].next_attempt_at <= t[s[j]].next_attempt_at
                /\ \A m \in due :
                     \/ \E i \in 1..n : s[i] = m
                     \/ /\ n = limit
                        /\ \A i \in 1..n :
                             t[s[i]].next_attempt_at <= t[m].next_attempt_at} :
             n \in 0..limit}
=============================================================================
