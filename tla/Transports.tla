------------------------------ MODULE Transports ------------------------------
(***************************************************************************)
(* Transport::send from the call to its answer, for the SMTP transport     *)
(* (crates/transport-smtp) and for a plugin (crates/plugin: transport.rs,  *)
(* engine.rs, http.rs) that runs one of the bundled scripts (plugins/).    *)
(*                                                                         *)
(* The other side (an SMTP server, Graph, a webhook, an ntfy server) is    *)
(* external: it acts on a request at any time, or never, also when the     *)
(* client has given up, and its answer may not arrive.  Assumed of it:     *)
(* whoever answers a request to deliver with a status of success has       *)
(* delivered; with any other status it may have.                           *)
(*                                                                         *)
(* A mail is [from, to, title_ok], to a sequence of addresses              *)
(* [email, name], title_ok whether its subject is a legal header value.    *)
(* A channel is [kind, settings, redirects]: the kind of transport, the    *)
(* keys of its `config` map, and whether the configured URL answers with a *)
(* redirection of which reqwest makes a GET (301, 302, 303).               *)
(***************************************************************************)
EXTENDS Naturals, Sequences

CONSTANTS Calls,       \* calls of send, each with a mail and a channel
          Mails,       \* mails they may be given
          Channels,    \* transports they may be made on
          Unparsable   \* addresses that lettre does not parse

Kinds == {"smtp", "graph", "teams", "ntfy"}

ASSUME TransportsAssumption ==
  \A ch \in Channels :
    /\ ch.kind \in Kinds /\ ch.redirects \in BOOLEAN
    /\ ch.redirects => ch.kind \in {"teams", "ntfy"}

ASSUME MailsAssumption ==
  \A m \in Mails : m = [from |-> m.from, to |-> m.to, title_ok |-> m.title_ok]

VARIABLES
  at,         \* per call: where it stands
  mail,       \* per call: the mail it was given
  channel,    \* per call: the transport it was made on
  request,    \* per call: what it asks for, "token" or "deliver"
  to,         \* per call: the recipients that the message is made out to
  token,      \* per call: whether an access token was obtained
  unhandled,  \* per call: the service has a request that it has not acted on
  status,     \* per call: the status of the service's answer
  body,       \* per call: what the answer's text holds
  got         \* ghost, per call: the messages the service delivered

vars == <<at, mail, channel, request, to, token, unhandled, status, body, got>>

Returned(c) == at[c] \in {"ok", "err"}

Init ==
  /\ at = [c \in Calls |-> "idle"]
  /\ mail \in [Calls -> Mails]
  /\ channel \in [Calls -> Channels]
  /\ request = [c \in Calls |-> "deliver"]
  /\ to = [c \in Calls |-> <<>>]
  /\ token = [c \in Calls |-> FALSE]
  /\ unhandled = [c \in Calls |-> FALSE]
  /\ status = [c \in Calls |-> 0]
  /\ body = [c \in Calls |-> "empty"]
  /\ got = [c \in Calls |-> <<>>]

Goto(c, p) == at' = [at EXCEPT ![c] = p]
-----------------------------------------------------------------------------
(* SmtpTransport *)

mailbox(addr) == addr \notin Unparsable

build_message_skipping(m) ==           \* mutant: an address that does not parse is left out
  SelectSeq(m.to, mailbox)

(* Every address of the mail, or nothing if one of them does not parse or   *)
(* there is none.                                                           *)
build_message(m) ==
  IF mailbox(m.from) /\ \A i \in DOMAIN m.to : mailbox(m.to[i])
  THEN m.to ELSE <<>>

SmtpSend(c) ==
  /\ at[c] = "idle"
  /\ channel[c].kind = "smtp"
  /\ to' = [to EXCEPT ![c] = build_message(mail[c])]
  /\ Goto(c, IF to'[c] = <<>> THEN "err" ELSE "connecting")
  /\ UNCHANGED <<mail, channel, request, token, unhandled, status, body, got>>
-----------------------------------------------------------------------------
(* RhaiTransport: the script runs on a thread of its own *)

(* The addresses as the script sees them: the key "name" only if there is   *)
(* a name.                                                                  *)
mail_to_map(m) ==
  [m EXCEPT !.to = [i \in DOMAIN m.to |->
     IF m.to[i].name THEN [email |-> m.to[i].email, name |-> TRUE]
                     ELSE [email |-> m.to[i].email]]]

RhaiSend(c) ==
  /\ at[c] = "idle"
  /\ channel[c].kind # "smtp"
  /\ Goto(c, "script")
  /\ request' = [request EXCEPT ![c] =
                   IF channel[c].kind = "graph" THEN "token" ELSE "deliver"]
  /\ UNCHANGED <<mail, channel, to, token, unhandled, status, body, got>>

(* The recipients in the script's payload: graph loops over them and takes  *)
(* the email, teams and ntfy post to a channel.                             *)
payload_to(kind, map) ==
  IF kind = "graph" THEN [i \in DOMAIN map.to |-> [email |-> map.to[i].email]] ELSE <<>>

(* A setting that is not there is (): no value for the URL parameter of     *)
(* http_post nor, in map_to_pairs, for a field of a form.                   *)
has_arguments(ch, r) ==
  CASE ch.kind = "teams" -> "webhook_url" \in ch.settings
    [] ch.kind = "graph" /\ r = "token" -> {"client_id", "client_secret"} \subseteq ch.settings
    [] OTHER -> TRUE

(* The script up to its next request.  An error of a host function, or a    *)
(* panic in the blocking task (JoinError), is an error of send.             *)
Script(c) ==
  /\ at[c] = "script"
  /\ \/ /\ has_arguments(channel[c], request[c])
        /\ to' = [to EXCEPT ![c] = payload_to(channel[c].kind, mail_to_map(mail[c]))]
        /\ Goto(c, "connecting")
     \/ Goto(c, "err") /\ UNCHANGED to
  /\ UNCHANGED <<mail, channel, request, token, unhandled, status, body, got>>
-----------------------------------------------------------------------------
(* The request goes out.  reqwest finds a header value that is none when it *)
(* is told to send: the subject, as ntfy's title.                           *)
Connect(c) ==
  /\ at[c] = "connecting"
  /\ IF channel[c].kind = "ntfy" => mail[c].title_ok
     THEN Goto(c, "waiting") /\ unhandled' = [unhandled EXCEPT ![c] = TRUE]
     ELSE Goto(c, "err") /\ UNCHANGED unhandled
  /\ UNCHANGED <<mail, channel, request, to, token, status, body, got>>

(* The connection fails or breaks, before the answer or while its text is   *)
(* read: an error.                                                          *)
Breaks(c) ==
  /\ at[c] \in {"connecting", "waiting", "answered"}
  /\ Goto(c, "err")
  /\ UNCHANGED <<mail, channel, request, to, token, unhandled, status, body, got>>

execute_times_out_connecting(c) ==     \* mutant: only the time to connect is limited
  /\ at[c] = "connecting"
  /\ channel[c].kind # "smtp"
  /\ Goto(c, "err")
  /\ UNCHANGED <<mail, channel, request, to, token, unhandled, status, body, got>>

(* 10 s to connect and 30 s for all of it, the text of the answer included. *)
(* Nothing in the code limits an SMTP exchange.                             *)
execute_times_out(c) ==
  /\ at[c] \in {"connecting", "waiting", "answered"}
  /\ channel[c].kind # "smtp"
  /\ Goto(c, "err")
  /\ UNCHANGED <<mail, channel, request, to, token, unhandled, status, body, got>>
-----------------------------------------------------------------------------
(* The service *)

Answered(c, s, b) ==
  /\ unhandled' = [unhandled EXCEPT ![c] = FALSE]
  /\ status' = [status EXCEPT ![c] = s]
  /\ body' = [body EXCEPT ![c] = b]
  /\ at' = IF at[c] = "waiting" THEN [at EXCEPT ![c] = "answered"] ELSE at
  /\ UNCHANGED <<mail, channel, request, to, token>>

(* A page that a redirection leads to gets a GET without the message. *)
Redirected(c) ==
  /\ unhandled[c] /\ channel[c].redirects
  /\ \E s \in {200, 404} : Answered(c, s, "page")
  /\ UNCHANGED got

(* The login service; its success may hold a token, an object without one,  *)
(* or no JSON object.                                                       *)
IssueToken(c) ==
  /\ unhandled[c] /\ request[c] = "token"
  /\ \/ /\ "tenant_id" \in channel[c].settings
        /\ \E b \in {"token", "object", "other"} : Answered(c, 200, b)
     \/ Answered(c, 400, "other")
  /\ UNCHANGED got

Successes(kind) == CASE kind = "smtp"  -> {250}
                     [] kind = "graph" -> {202}
                     [] kind = "teams" -> {200, 202}
                     [] kind = "ntfy"  -> {200}

(* The request names a mailbox or topic and, for Graph, has a token. *)
Admitted(c) ==
  CASE channel[c].kind = "graph" -> token[c] /\ "sender" \in channel[c].settings
    [] channel[c].kind = "ntfy" -> "topic" \in channel[c].settings
    [] OTHER -> TRUE

(* Delivered and confirmed; delivered, with an answer that says otherwise;  *)
(* or refused.  An SMTP server that refuses one recipient gets no message.  *)
Handle(c) ==
  /\ unhandled[c] /\ request[c] = "deliver" /\ ~ channel[c].redirects
  /\ \/ /\ Admitted(c)
        /\ got' = [got EXCEPT ![c] = Append(@, to[c])]
        /\ \E s \in Successes(channel[c].kind) \cup {500} : Answered(c, s, "other")
     \/ Answered(c, 500, "other") /\ UNCHANGED got

Service(c) == Redirected(c) \/ IssueToken(c) \/ Handle(c)
-----------------------------------------------------------------------------
accepted_any(kind, s) ==               \* mutant: an answer is a success
  TRUE

(* The scripts' tests of a status; lettre takes any 2xx. *)
accepted(kind, s) ==
  IF kind = "graph" THEN s = 202 ELSE s >= 200 /\ s < 300

(* The answer to a request to deliver is the end of the call. *)
Conclude(c) ==
  /\ at[c] = "answered" /\ request[c] = "deliver"
  /\ Goto(c, IF accepted(channel[c].kind, status[c]) THEN "ok" ELSE "err")
  /\ UNCHANGED <<mail, channel, request, to, token, unhandled, status, body, got>>

(* graph goes on only with 200 and a JSON object; an object without a token *)
(* makes an empty one.                                                      *)
TakeToken(c) ==
  /\ at[c] = "answered" /\ request[c] = "token"
  /\ IF status[c] = 200 /\ body[c] # "other"
     THEN /\ Goto(c, "script")
          /\ request' = [request EXCEPT ![c] = "deliver"]
          /\ token' = [token EXCEPT ![c] = body[c] = "token"]
     ELSE Goto(c, "err") /\ UNCHANGED <<request, token>>
  /\ UNCHANGED <<mail, channel, to, unhandled, status, body, got>>

Step(c) ==
  \/ SmtpSend(c) \/ RhaiSend(c) \/ Script(c) \/ Connect(c) \/ Breaks(c)
  \/ execute_times_out(c) \/ Conclude(c) \/ TakeToken(c)

Next == \E c \in Calls : Step(c) \/ Service(c)

(* The blocking thread goes on, and the timeouts of the client run.         *)
(* Nothing is asked of services or connections.                             *)
Fairness ==
  \A c \in Calls :
    /\ WF_vars(Script(c)) /\ WF_vars(Connect(c)) /\ WF_vars(Conclude(c))
    /\ WF_vars(TakeToken(c)) /\ WF_vars(execute_times_out(c))

Spec == Init /\ [][Next]_vars

FairSpec == Spec /\ Fairness
-----------------------------------------------------------------------------
Promise == INSTANCE TransportContract WITH
  outcome <- [c \in Calls |-> IF Returned(c) THEN at[c] ELSE "pending"],
  copies <- [c \in Calls |-> Len(got[c])],
  astray <- [c \in Calls |-> channel[c].redirects]

(* A call delivers at most once and answers Ok only if it has, wherever a   *)
(* connection breaks, a timeout strikes or a service answers late, except   *)
(* on a URL that redirects: there reqwest follows with a GET, and the       *)
(* page's 200 passes for a delivery.                                        *)
KeepsPromise == Promise!Spec

(* Whatever reaches a mail server is addressed to every recipient of the    *)
(* mail: an address that cannot be used fails the mail, it is not skipped,  *)
(* and the one answer to a call is the answer for all recipients.           *)
AddressedInFull ==
  \A c \in Calls : channel[c].kind \in {"smtp", "graph"} =>
    \A k \in DOMAIN got[c] :
      {got[c][k][i].email : i \in DOMAIN got[c][k]} =
        {mail[c].to[i].email : i \in DOMAIN mail[c].to}

(* A plugin's send comes back, whatever the services do or fail to do: with *)
(* the bundled scripts, what stops a tick is not a plugin.                  *)
PluginSendReturns ==
  \A c \in Calls : channel[c].kind # "smtp" =>
    (at[c] # "idle" ~> Returned(c))
=============================================================================
