---- MODULE MCIngress ----
(***************************************************************************)
(* Small instances of Ingress for TLC.                                     *)
(***************************************************************************)
EXTENDS Ingress

CONSTANTS c1, c2, alice, rita, ron, teams

Single(transport) == [transport |-> transport, recipients |-> <<>>, targets |-> <<>>]

(* One sender fans out twice to one channel, once with recipients of its   *)
(* own; a "reject" entry stands between them.                              *)
FanOut == [transport |-> NoTransport, recipients |-> <<>>,
           targets |-> <<RouteTarget(teams, <<ron>>), RouteTarget(Reject, <<>>),
                         RouteTarget(teams, <<>>)>>]

Rules(default, own) == [default |-> default, senders |-> [s \in {alice} |-> own]]

(* "[%name%] %original%" for everybody, "%original% (%name%)" for bo. *)
Labels == [format  |-> <<"[">> \o NamePlaceholder \o <<"]">> \o OriginalPlaceholder,
           senders |-> [n \in {<<"bo">>} |-> OriginalPlaceholder \o NamePlaceholder]]

(* "%name%original%": both placeholders are in it, and share a "%". *)
OverlappingLabel == [format  |-> <<"%", "name", "%", "original", "%">>,
                     senders |-> [n \in {} |-> <<>>]]

(* A subject that has two names and a placeholder in it. *)
MCSubject == <<"bo", "cy">> \o NamePlaceholder

Config(whitelist, anonymous, routing, extracted, matches_blank, subject) ==
  [whitelist |-> whitelist, anonymous_enabled |-> anonymous, routing |-> routing,
   extracted |-> extracted, matches_blank |-> matches_blank, subject |-> subject]

(* No routing, and a pattern that matches anything; fan-out with everybody  *)
(* else refused; a refused sender with a default for the others; anonymous  *)
(* submission off.                                                          *)
MCConfigs == {
  Config({c1},     TRUE,  Rules(NoRule, NoRule), <<"bo">>, TRUE, Labels),
  Config({c1, c2}, TRUE,  Rules(NoRule, FanOut), <<"cy">>, FALSE, Labels),
  Config({c1},     TRUE,  Rules(Single(teams), Single(Reject)), NoName, FALSE, Labels),
  Config({c1, c2}, FALSE, Rules(NoRule, NoRule), NoName, FALSE, Labels)}

(* The labels of these configurations are the ones that SubjectIsKept is    *)
(* about, the overlapping label is not.                                     *)
ASSUME LabelsAssumption ==
  LabelsApart(Labels) /\ ~ LabelsApart(OverlappingLabel)

OverlapConfigs == {
  Config({c1}, TRUE, Rules(NoRule, NoRule), <<"bo">>, FALSE, OverlappingLabel)}
====
