---- MODULE MCDispatcher ----
(***************************************************************************)
(* Small instances of Dispatcher for TLC.                                  *)
(***************************************************************************)
EXTENDS Dispatcher, TLC

CONSTANTS m1, m2, smtp

(* base_delay = 1 s and max_delay = 1 s, as RetryPolicy computes it with 16 *)
(* bits.                                                                    *)
Retry == INSTANCE RetryPolicy WITH Max_u64 <- 65535, MaxShift <- 7

MCBackoff ==
  [n \in 1..MaxAttempts |->
     Retry!backoff([max_attempts |-> MaxAttempts, base_delay |-> 1, max_delay |-> 1], n)]

MCMails == {m1, m2}

(* Only a plugin is configured, and no default. *)
PluginOnly == {
  [smtp |-> FALSE, plugins |-> {smtp}, default_transport |-> NoTransport]}

MailSymmetry == Permutations(MCMails)
-----------------------------------------------------------------------------
(***************************************************************************)
(* Liveness needs a clock without end.  Here the clock stays at Horizon    *)
(* and time passes by ageing every stored time; a time that is Horizon or  *)
(* more in the past stays at 0.  A comparison with the clock or with       *)
(* clock - Lease cannot tell the difference, nor can one with tick's `now` *)
(* as long as that has not aged to 0 itself, which the guard sees to: at   *)
(* most Horizon units pass between the start of a tick and its fetch.      *)
(***************************************************************************)
Horizon == Lease + 1

Aged(t) == IF t = 0 THEN 0 ELSE t - 1

Age ==
  /\ pc = "fetch" => now > 0
  /\ mails' = [m \in MailIds |->
                 [mails[m] EXCEPT !.updated_at = Aged(@), !.next_attempt_at = Aged(@)]]
  /\ now' = Aged(now)
  /\ UNCHANGED <<clock, pc, batch, handles, permits, startVars, ghostVars, faults>>

LiveNext ==
  \/ Age \/ Environment \/ Loop
  \/ \E i \in DOMAIN handles : Deliver(i)

(* Time passes, a process whose main returns ends, the relay is started    *)
(* again when it is down, the runtime polls the loop and every task, and   *)
(* select! picks among its ready branches at random, so that a shutdown    *)
(* does not win for ever.                                                  *)
Fairness ==
  /\ WF_vars(Age) /\ WF_vars(Exit)
  /\ WF_vars(\E c \in Configs : Start(c))
  /\ SF_vars(TickStart)
  /\ WF_vars(Recover) /\ WF_vars(FetchDue) /\ WF_vars(Claim)
  /\ WF_vars(Spawn) /\ WF_vars(Join)
  /\ \A i \in 1..BatchSize : WF_vars(i \in DOMAIN handles /\ Deliver(i))

LiveSpec == InitAt(Horizon) /\ [][LiveNext]_vars /\ Fairness
=============================================================================
