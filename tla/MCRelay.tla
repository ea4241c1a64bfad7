------------------------------- MODULE MCRelay -------------------------------
(***************************************************************************)
(* A small instance of Relay for TLC, with the ageing clock of             *)
(* MCDispatcher.                                                           *)
(***************************************************************************)
EXTENDS Relay, MCDispatcher

CONSTANTS alice, teams

Target(transport) == [transport |-> transport, recipients |-> <<>>]

(* alice's mail goes to the SMTP server and to a transport that is not there; *)
(* nobody else is routed.                                                     *)
MCRouting ==
  [default |-> NoRule,
   senders |-> [s \in {alice} |->
                  [transport |-> NoTransport, recipients |-> <<>>,
                   targets |-> <<Target(smtp), Target(teams)>>]]]

MCIngressConfigs == {
  [whitelist |-> Clients, anonymous_enabled |-> TRUE, routing |-> MCRouting,
   extracted |-> NoName, matches_blank |-> FALSE,
   subject |-> [format |-> <<"%", "original", "%">>, senders |-> [n \in {} |-> <<>>]]]}

MCOriginalSubject == <<"job">>

(* The plugin answers to "smtp", or its secret is missing at this start. *)
MCStarts == PluginOnly \cup {
  [smtp |-> FALSE, plugins |-> {}, default_transport |-> NoTransport]}

LiveRelayNext == Dispatch(Age) \/ RelayStep

(* As in MCDispatcher; nothing is asked of the clients or of the ingress.   *)
RelayFairness ==
  /\ WF_relayVars(Dispatch(Age))
  /\ WF_relayVars(\E c \in Configs : Launch(c)) /\ WF_relayVars(RelayExit)
  /\ SF_relayVars(Dispatch(TickStart))
  /\ WF_relayVars(Dispatch(Recover)) /\ WF_relayVars(Dispatch(FetchDue))
  /\ WF_relayVars(Dispatch(Claim)) /\ WF_relayVars(Dispatch(Spawn))
  /\ WF_relayVars(Dispatch(Join))
  /\ \A i \in 1..BatchSize : WF_relayVars(Work(i))

LiveRelaySpec ==
  RelayInitAt(Horizon) /\ [][LiveRelayNext]_relayVars /\ RelayFairness
=============================================================================
