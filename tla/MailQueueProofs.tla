-------------------------- MODULE MailQueueProofs ---------------------------
(***************************************************************************)
(* What the statements of the queue do to the table, for every table: the  *)
(* facts that the proofs about the modules using the queue rest on.        *)
(***************************************************************************)
EXTENDS MailQueue, TLAPS

(* mark_sending changes one row: its status and nothing that is counted. *)
LEMMA MarkSendingEffect ==
  ASSUME NEW t \in Table, NEW m \in MailIds, NEW c \in Nat
  PROVE  LET u == mark_sending(t, m, c)
         IN  /\ u \in Table
             /\ \A n \in MailIds : n # m => u[n] = t[n]
             /\ u[m].status = "sending"
             /\ u[m].attempts = t[m].attempts
             /\ u[m].next_attempt_at = t[m].next_attempt_at
  BY DEF mark_sending, set_status, Table, Row, MailStatus

(* mark_sent changes one row and counts no attempt. *)
LEMMA MarkSentEffect ==
  ASSUME NEW t \in Table, NEW m \in MailIds, NEW c \in Nat
  PROVE  LET u == mark_sent(t, m, c)
         IN  /\ u \in Table
             /\ \A n \in MailIds : n # m => u[n] = t[n]
             /\ u[m].status = "sent"
             /\ u[m].attempts = t[m].attempts
  BY DEF mark_sent, set_status, Table, Row, MailStatus

(* mark_failed changes one row and counts one attempt. *)
LEMMA MarkFailedEffect ==
  ASSUME NEW t \in Table, NEW m \in MailIds, NEW r \in Nat, NEW c \in Nat
  PROVE  LET u == mark_failed(t, m, r, c)
         IN  /\ u \in Table
             /\ \A n \in MailIds : n # m => u[n] = t[n]
             /\ u[m].status = "failed"
             /\ u[m].attempts = t[m].attempts + 1
  BY DEF mark_failed, set_status, Table, Row, MailStatus

(* It sets the due time of that row. *)
LEMMA MarkFailedDue ==
  ASSUME NEW t \in Table, NEW m \in MailIds, NEW r \in Nat, NEW c \in Nat
  PROVE  mark_failed(t, m, r, c)[m].next_attempt_at = r
  BY DEF mark_failed, set_status, Table, Row, MailStatus

(* mark_dead changes one row and counts one attempt. *)
LEMMA MarkDeadEffect ==
  ASSUME NEW t \in Table, NEW m \in MailIds, NEW c \in Nat
  PROVE  LET u == mark_dead(t, m, c)
         IN  /\ u \in Table
             /\ \A n \in MailIds : n # m => u[n] = t[n]
             /\ u[m].status = "dead"
             /\ u[m].attempts = t[m].attempts + 1
  BY DEF mark_dead, set_status, Table, Row, MailStatus

(* A requeue makes claimed rows pending and leaves all others alone; it     *)
(* keeps every counter and due time.                                        *)
LEMMA RequeueEffect ==
  ASSUME NEW t \in Table, NEW c \in Nat, NEW u,
         NEW S \in SUBSET {m \in MailIds : t[m].status = "sending"},
         u = Requeue(t, S, c)
  PROVE  /\ u \in Table
         /\ \A m \in MailIds :
              /\ u[m].attempts = t[m].attempts
              /\ u[m].next_attempt_at = t[m].next_attempt_at
              /\ u[m] = t[m] \/ (t[m].status = "sending" /\ u[m].status = "pending")
  <1>1. \A m \in MailIds : t[m] \in Row
    BY DEF Table
  <1>2. ASSUME NEW m \in MailIds
        PROVE  /\ u[m] \in Row
               /\ u[m].attempts = t[m].attempts
               /\ u[m].next_attempt_at = t[m].next_attempt_at
               /\ u[m] = t[m] \/ (t[m].status = "sending" /\ u[m].status = "pending")
    BY <1>1 DEF Requeue, Row, MailStatus
  <1>3. u \in Table
    BY <1>2 DEF Requeue, Table
  <1> QED  BY <1>2, <1>3

(* requeue_sending is such a requeue. *)
LEMMA RecoverEffect ==
  ASSUME NEW t \in Table, NEW c \in Nat
  PROVE  LET u == requeue_sending(t, c)
         IN  /\ u \in Table
             /\ \A m \in MailIds :
                  /\ u[m].attempts = t[m].attempts
                  /\ u[m].next_attempt_at = t[m].next_attempt_at
                  /\ u[m] = t[m] \/ (t[m].status = "sending" /\ u[m].status = "pending")
  <1> DEFINE S == {m \in MailIds : t[m].status = "sending"}
             u == requeue_sending(t, c)
  <1>1. S \in SUBSET {m \in MailIds : t[m].status = "sending"} /\ u = Requeue(t, S, c)
    BY DEF requeue_sending
  <1> HIDE DEF S, u
  <1>2. /\ u \in Table
        /\ \A m \in MailIds :
             /\ u[m].attempts = t[m].attempts
             /\ u[m].next_attempt_at = t[m].next_attempt_at
             /\ u[m] = t[m] \/ (t[m].status = "sending" /\ u[m].status = "pending")
    BY <1>1, RequeueEffect
  <1> QED  BY <1>2 DEF u

(* requeue_stale_sending is one too, whatever the lease. *)
LEMMA ReclaimEffect ==
  ASSUME NEW t \in Table, NEW c \in Nat, NEW older \in Int
  PROVE  LET u == requeue_stale_sending(t, older, c)
         IN  /\ u \in Table
             /\ \A m \in MailIds :
                  /\ u[m].attempts = t[m].attempts
                  /\ u[m].next_attempt_at = t[m].next_attempt_at
                  /\ u[m] = t[m] \/ (t[m].status = "sending" /\ u[m].status = "pending")
  <1> DEFINE S == {m \in MailIds : t[m].status = "sending" /\ t[m].updated_at < older}
             u == requeue_stale_sending(t, older, c)
  <1>1. S \in SUBSET {m \in MailIds : t[m].status = "sending"} /\ u = Requeue(t, S, c)
    BY DEF requeue_stale_sending
  <1> HIDE DEF S, u
  <1>2. /\ u \in Table
        /\ \A m \in MailIds :
             /\ u[m].attempts = t[m].attempts
             /\ u[m].next_attempt_at = t[m].next_attempt_at
             /\ u[m] = t[m] \/ (t[m].status = "sending" /\ u[m].status = "pending")
    BY <1>1, RequeueEffect
  <1> QED  BY <1>2 DEF u

(* The INSERT adds one pending row that was never tried. *)
LEMMA EnqueueEffect ==
  ASSUME NEW t \in Table, NEW m \in MailIds, NEW tr \in MaybeTransport, NEW c \in Nat
  PROVE  LET u == enqueue(t, m, tr, c)
         IN  /\ u \in Table
             /\ \A n \in MailIds : n # m => u[n] = t[n]
             /\ u[m].status = "pending" /\ u[m].attempts = 0
  BY DEF enqueue, Table, Row, MailStatus

(* fetch_due answers with distinct rows, each due. *)
LEMMA FetchEffect ==
  ASSUME NEW t \in Table, NEW limit \in Nat, NEW c \in Nat,
         NEW s \in fetch_due(t, limit, c)
  PROVE  /\ s \in Seq(MailIds)
         /\ \A i \in 1..Len(s) : is_due(t[s[i]], c)
         /\ \A i, j \in 1..Len(s) : s[i] = s[j] => i = j
  <1> DEFINE due == {m \in MailIds : is_due(t[m], c)}
  <1>1. PICK n \in 0..limit :
          /\ s \in [1..n -> due]
          /\ \A i, j \in 1..n : i < j => s[i] # s[j]
    BY DEF fetch_due
  <1>2. n \in Nat /\ s \in [1..n -> MailIds]
    BY <1>1
  <1>3. s \in Seq(MailIds) /\ Len(s) = n
    BY <1>2
  <1>4. \A i \in 1..n : is_due(t[s[i]], c)
    BY <1>1
  <1>5. \A i, j \in 1..n : s[i] = s[j] => i = j
    BY <1>1, <1>2
  <1> QED  BY <1>3, <1>4, <1>5
=============================================================================
