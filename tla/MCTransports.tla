----------------------------- MODULE MCTransports -----------------------------
(***************************************************************************)
(* A small instance of Transports for TLC: two calls at a time, each of    *)
(* any mail on any channel.                                                *)
(***************************************************************************)
EXTENDS Transports

Address(email, name) == [email |-> email, name |-> name]

Anna == Address("anna", TRUE)
Bert == Address("bert", FALSE)
Odd  == Address("odd", TRUE)     \* lettre does not parse "odd name <odd>"

MCUnparsable == {Odd}

MCMails == {
  [from |-> Bert, to |-> <<Anna, Bert>>, title_ok |-> TRUE],
  [from |-> Bert, to |-> <<Anna, Odd>>, title_ok |-> FALSE]}

Channel(kind, settings) == [kind |-> kind, settings |-> settings, redirects |-> FALSE]

GraphKeys == {"tenant_id", "client_id", "client_secret", "sender"}

(* Every kind, each plugin also without a setting, and a redirecting URL. *)
MCChannels == {
  Channel("smtp", {}),
  Channel("graph", GraphKeys),
  Channel("graph", GraphKeys \ {"client_secret"}),
  Channel("graph", GraphKeys \ {"tenant_id"}),
  Channel("teams", {"webhook_url"}),
  Channel("teams", {}),
  Channel("ntfy", {}),
  [Channel("ntfy", {"topic"}) EXCEPT !.redirects = TRUE],
  Channel("ntfy", {"topic"})}
=============================================================================
