------------------------------- MODULE Routing -------------------------------
(***************************************************************************)
(* Routing by sender (RoutingConfig, crates/core/src/config.rs): which     *)
(* transports a mail goes to, with which recipients, or that its sender is *)
(* refused.  A rule is the record [transport, recipients, targets], a      *)
(* target the record [transport, recipients]; recipients = <<>> means "no  *)
(* override".  rule.transport = NoTransport is the absent (None) one; the  *)
(* empty name that data_end uses for "no transport chosen" is NoTransport  *)
(* too, and every spelling of "reject" is the one value Reject.  Names     *)
(* written in a rule are taken to be non-empty.                            *)
(***************************************************************************)
EXTENDS Integers, Sequences, SequencesExt

CONSTANTS NoTransport,  \* no transport named
          Reject,       \* the transport name that refuses
          NoRule        \* no rule configured

ASSUME RoutingAssumption == NoTransport # Reject

RejectRoute == <<>>     \* Route::Reject; Route::Deliver has at least one target

RouteTarget(transport, recipients) ==
  [transport |-> transport, recipients |-> recipients]

expand_keeping_reject(rule) ==         \* mutant: a "reject" target is delivered
  IF rule.targets # <<>> THEN rule.targets
  ELSE IF rule.transport \in {NoTransport, Reject} THEN <<>>
  ELSE <<RouteTarget(rule.transport, rule.recipients)>>

(* The filter of expand: the targets that are not "reject", in their order. *)
delivering(targets) ==
  LET upto[k \in 0..Len(targets)] ==
        IF k = 0 THEN <<>>
        ELSE IF targets[k].transport # Reject THEN Append(upto[k - 1], targets[k])
        ELSE upto[k - 1]
  IN  upto[Len(targets)]

(* The targets of a rule; `targets` wins over the single transport. *)
expand(rule) ==
  IF rule.targets # <<>> THEN delivering(rule.targets)
  ELSE IF rule.transport \in {NoTransport, Reject} THEN <<>>
  ELSE <<RouteTarget(rule.transport, rule.recipients)>>

is_active(routing) ==
  \/ routing.default # NoRule
  \/ \E sender \in DOMAIN routing.senders : routing.senders[sender] # NoRule

(* The rules of a configuration. *)
RulesOf(routing) ==
  ({routing.default} \cup {routing.senders[s] : s \in DOMAIN routing.senders}) \ {NoRule}

(* A rule of the sender wins over the default; no rule refuses. *)
resolve(routing, sender) ==
  LET own  == sender \in DOMAIN routing.senders /\ routing.senders[sender] # NoRule
      rule == IF own THEN routing.senders[sender] ELSE routing.default
  IN  IF rule = NoRule THEN RejectRoute ELSE expand(rule)

(* The targets data_end works through: without any rule, one delivery that *)
(* leaves the transport to the dispatcher and keeps the recipients.        *)
TargetsFor(routing, sender) ==
  IF is_active(routing) THEN resolve(routing, sender)
  ELSE <<RouteTarget(NoTransport, <<>>)>>
=============================================================================
