--------------------------- MODULE TransportsProofs ---------------------------
(***************************************************************************)
(* Transports implements TransportContract for any calls, mails and        *)
(* channels.  That a call answers Ok only after a delivery is seen at the  *)
(* end of it, but decided earlier: CallInv follows one request from the    *)
(* client to the service and back.                                         *)
(***************************************************************************)
EXTENDS Transports, TLAPS

(* Every function is one over the calls. *)
Shape ==
  /\ channel \in [Calls -> Channels]
  /\ DOMAIN at = Calls /\ DOMAIN request = Calls /\ DOMAIN unhandled = Calls
  /\ DOMAIN status = Calls /\ DOMAIN got = Calls

(* Nothing is delivered while the service has not acted, nor for a token; a *)
(* request is out only while the client waits or has given up; and a        *)
(* success that is on its way to the client stands for a delivery.          *)
CallInv(c) ==
  /\ at[c] \in {"idle", "script", "connecting", "waiting", "answered", "ok", "err"}
  /\ unhandled[c] \in BOOLEAN
  /\ got[c] = <<>> \/ Len(got[c]) = 1
  /\ at[c] = "waiting" => unhandled[c]
  /\ unhandled[c] => at[c] \in {"waiting", "err"} /\ got[c] = <<>>
  /\ at[c] \in {"idle", "script", "connecting"} => got[c] = <<>>
  /\ request[c] = "token" => got[c] = <<>>
  /\ \/ at[c] = "answered" /\ request[c] = "deliver" /\ accepted(channel[c].kind, status[c])
     \/ at[c] = "ok"
     => Len(got[c]) = 1 \/ channel[c].redirects

PromiseInv == Shape /\ \A c \in Calls : CallInv(c)
-----------------------------------------------------------------------------
(* A delivery makes one copy of none. *)
LEMMA OneCopy ==
  ASSUME NEW x
  PROVE  Len(Append(<<>>, x)) = 1 /\ Len(<<>>) = 0
OBVIOUS

(* No service answers with a status that the client takes for a success     *)
(* unless it has delivered.                                                 *)
LEMMA FailureIsNoSuccess ==
  ASSUME NEW kind
  PROVE  ~ accepted(kind, 500)
BY DEF accepted

(* Initially no call has been made. *)
LEMMA PromiseInvInit == Init => PromiseInv
BY OneCopy DEF Init, PromiseInv, Shape, CallInv

(* A step of one call leaves the other calls alone. *)
LEMMA OtherCalls ==
  ASSUME PromiseInv, NEW c \in Calls, Step(c) \/ Service(c), NEW d \in Calls, d # c
  PROVE  CallInv(d)'
<1> USE DEF PromiseInv, Shape, CallInv, Goto
<1>1. CASE Step(c)
  BY <1>1 DEF Step, SmtpSend, RhaiSend, Script, Connect, Breaks, execute_times_out,
              Conclude, TakeToken
<1>2. CASE Service(c)
  BY <1>2 DEF Service, Redirected, IssueToken, Handle, Answered
<1> QED BY <1>1, <1>2

(* Every function keeps its domain. *)
LEMMA ShapeKept ==
  ASSUME PromiseInv, NEW c \in Calls, Step(c) \/ Service(c)
  PROVE  Shape'
<1> USE DEF PromiseInv, Shape, Goto
<1>1. CASE Step(c)
  BY <1>1 DEF Step, SmtpSend, RhaiSend, Script, Connect, Breaks, execute_times_out,
              Conclude, TakeToken
<1>2. CASE Service(c)
  BY <1>2 DEF Service, Redirected, IssueToken, Handle, Answered
<1> QED BY <1>1, <1>2

(* The step of a call preserves the invariant of that call. *)
LEMMA CallKept ==
  ASSUME PromiseInv, NEW c \in Calls, Step(c) \/ Service(c)
  PROVE  CallInv(c)'
<1> USE DEF PromiseInv, Shape, CallInv, Goto
<1>1. CASE SmtpSend(c)          BY <1>1 DEF SmtpSend
<1>2. CASE RhaiSend(c)          BY <1>2 DEF RhaiSend
<1>3. CASE Script(c)            BY <1>3 DEF Script
<1>4. CASE Connect(c)           BY <1>4 DEF Connect
<1>5. CASE Breaks(c)            BY <1>5 DEF Breaks
<1>6. CASE execute_times_out(c) BY <1>6 DEF execute_times_out
<1>7. CASE Conclude(c)          BY <1>7 DEF Conclude
<1>8. CASE TakeToken(c)         BY <1>8 DEF TakeToken
<1>9. CASE Redirected(c)        BY <1>9 DEF Redirected, Answered
<1>10. CASE IssueToken(c)
  <2>1. /\ at[c] \in {"waiting", "err"} /\ request[c] = "token" /\ got[c] = <<>>
        /\ at'[c] \in {"answered", "err"} /\ unhandled'[c] = FALSE
        /\ request' = request /\ got' = got
    BY <1>10 DEF IssueToken, Answered
  <2> QED BY <2>1
<1>11. CASE Handle(c)
  <2>1. CASE got' = [got EXCEPT ![c] = Append(@, to[c])]
    <3>1. got'[c] = Append(<<>>, to[c])
      BY <1>11, <2>1 DEF Handle
    <3>2. Len(got'[c]) = 1
      BY <3>1, OneCopy
    <3>3. /\ at[c] \in {"waiting", "err"} /\ request[c] = "deliver"
          /\ at'[c] \in {"answered", "err"} /\ unhandled'[c] = FALSE
          /\ request' = request /\ channel' = channel
      BY <1>11 DEF Handle, Answered
    <3> QED BY <3>2, <3>3
  <2>2. CASE Answered(c, 500, "other") /\ UNCHANGED got
    BY <1>11, <2>2, FailureIsNoSuccess DEF Answered
  <2> QED BY <1>11, <2>1, <2>2 DEF Handle
<1> QED BY <1>1, <1>2, <1>3, <1>4, <1>5, <1>6, <1>7, <1>8, <1>9, <1>10, <1>11
        DEF Step, Service

(* Every step preserves the invariant. *)
LEMMA PromiseInvNext == PromiseInv /\ [Next]_vars => PromiseInv'
<1> SUFFICES ASSUME PromiseInv, [Next]_vars PROVE PromiseInv'
  OBVIOUS
<1>1. CASE Next
  <2>1. PICK c \in Calls : Step(c) \/ Service(c)
    BY <1>1 DEF Next
  <2> QED BY <2>1, OtherCalls, ShapeKept, CallKept DEF PromiseInv
<1>2. CASE UNCHANGED vars
  BY <1>2 DEF vars, PromiseInv, Shape, CallInv
<1> QED BY <1>1, <1>2

(* From call to answer, a request to a service is answered with success     *)
(* only for a delivery (execute, the scripts' tests of the status).         *)
THEOREM AlwaysPromiseInv == Spec => []PromiseInv
BY PromiseInvInit, PromiseInvNext, PTL DEF Spec
-----------------------------------------------------------------------------
Active == {"idle", "script", "connecting", "waiting", "answered"}

(* A step within a call is none of the contract. *)
LEMMA GoesOn ==
  ASSUME PromiseInv, NEW c \in Calls, NEW p \in Active, at[c] \in Active,
         at' = [at EXCEPT ![c] = p], got' = got, channel' = channel
  PROVE  UNCHANGED Promise!contractVars
BY DEF PromiseInv, Shape, CallInv, Active, Returned, Promise!contractVars

(* An error ends a call, whether the service has delivered or not. *)
LEMMA Fails ==
  ASSUME PromiseInv, NEW c \in Calls, at[c] \in Active,
         at' = [at EXCEPT ![c] = "err"], got' = got, channel' = channel
  PROVE  Promise!AnswerErr(c)
BY DEF PromiseInv, Shape, CallInv, Active, Returned, Promise!AnswerErr

(* A success ends a call that has delivered, or was sent elsewhere. *)
LEMMA Succeeds ==
  ASSUME PromiseInv, NEW c \in Calls, at[c] \in Active,
         Len(got[c]) = 1 \/ channel[c].redirects,
         at' = [at EXCEPT ![c] = "ok"], got' = got, channel' = channel
  PROVE  Promise!AnswerOk(c)
BY DEF PromiseInv, Shape, CallInv, Active, Returned, Promise!AnswerOk

(* What the service does without delivering is none of the contract. *)
LEMMA ServiceRefuses ==
  ASSUME PromiseInv, NEW c \in Calls, NEW s, NEW b, unhandled[c],
         Answered(c, s, b), got' = got
  PROVE  UNCHANGED Promise!contractVars
BY DEF PromiseInv, Shape, CallInv, Answered, Returned, Promise!contractVars

(* The service delivers, for a client that waits or has given up. *)
LEMMA ServiceDelivers ==
  ASSUME PromiseInv, NEW c \in Calls, NEW s, NEW b, unhandled[c],
         Answered(c, s, b), got' = [got EXCEPT ![c] = Append(@, to[c])]
  PROVE  Promise!Deliver(c)
<1>1. got[c] = <<>> /\ got'[c] = Append(<<>>, to[c])
  BY DEF PromiseInv, Shape, CallInv
<1>2. Len(got[c]) = 0 /\ Len(got'[c]) = 1
  BY <1>1, OneCopy
<1>3. \A d \in Calls : d # c => got'[d] = got[d]
  BY DEF PromiseInv, Shape
<1>4. \A d \in Calls : Len(got'[d]) = IF d = c THEN 1 ELSE Len(got[d])
  BY <1>2, <1>3
<1>5. at[c] \in {"waiting", "err"}
  BY DEF PromiseInv, CallInv
<1>6. \A d \in Calls : (IF at'[d] \in {"ok", "err"} THEN at'[d] ELSE "pending") =
                      (IF at[d] \in {"ok", "err"} THEN at[d] ELSE "pending")
  <2>1. CASE at[c] = "waiting"
    BY <2>1 DEF PromiseInv, Shape, Answered
  <2>2. CASE at[c] = "err"
    BY <2>2 DEF Answered
  <2> QED BY <1>5, <2>1, <2>2
<1>7. channel' = channel
  BY DEF Answered
<1> DEFINE copies == [d \in Calls |-> Len(got[d])]
<1>8. copies' = [copies EXCEPT ![c] = 1]
  BY <1>4, Zenon
<1> HIDE DEF copies
<1>9. copies[c] = 0
  BY <1>2 DEF copies
<1> QED
  BY <1>5, <1>6, <1>7, <1>8, <1>9 DEF Returned, Promise!Deliver, copies

(* Every step of a call or of its service is one of the contract. *)
LEMMA StepIsPromised ==
  ASSUME PromiseInv, NEW c \in Calls, Step(c) \/ Service(c)
  PROVE  Promise!Next \/ UNCHANGED Promise!contractVars
<1> USE DEF Goto
<1>e. ASSUME at[c] \in Active, at' = [at EXCEPT ![c] = "err"], got' = got, channel' = channel
      PROVE  Promise!Next
  BY <1>e, Fails DEF Promise!Next
<1>1. CASE SmtpSend(c)
  BY <1>1, <1>e, GoesOn DEF SmtpSend, Active
<1>2. CASE RhaiSend(c)
  BY <1>2, GoesOn DEF RhaiSend, Active
<1>3. CASE Script(c)
  BY <1>3, <1>e, GoesOn DEF Script, Active
<1>4. CASE Connect(c)
  BY <1>4, <1>e, GoesOn DEF Connect, Active
<1>5. CASE Breaks(c)
  BY <1>5, <1>e DEF Breaks, Active
<1>6. CASE execute_times_out(c)
  BY <1>6, <1>e DEF execute_times_out, Active
<1>7. CASE Conclude(c)
  <2>1. CASE accepted(channel[c].kind, status[c])
    <3>1. Len(got[c]) = 1 \/ channel[c].redirects
      BY <1>7, <2>1 DEF Conclude, PromiseInv, CallInv
    <3>2. Promise!AnswerOk(c)
      BY <1>7, <2>1, <3>1, Succeeds DEF Conclude, Active
    <3> QED BY <3>2 DEF Promise!Next
  <2>2. CASE ~ accepted(channel[c].kind, status[c])
    BY <1>7, <2>2, <1>e DEF Conclude, Active
  <2> QED BY <2>1, <2>2
<1>8. CASE TakeToken(c)
  BY <1>8, <1>e, GoesOn DEF TakeToken, Active
<1>9. CASE Redirected(c)
  BY <1>9, ServiceRefuses DEF Redirected
<1>10. CASE IssueToken(c)
  BY <1>10, ServiceRefuses DEF IssueToken
<1>11. CASE Handle(c)
  <2>1. ASSUME NEW s, Answered(c, s, "other"), got' = [got EXCEPT ![c] = Append(@, to[c])]
        PROVE  Promise!Next
    BY <1>11, <2>1, ServiceDelivers DEF Handle, Promise!Next
  <2>2. CASE Answered(c, 500, "other") /\ UNCHANGED got
    BY <1>11, <2>2, ServiceRefuses DEF Handle
  <2> QED BY <1>11, <2>1, <2>2 DEF Handle
<1> QED BY <1>1, <1>2, <1>3, <1>4, <1>5, <1>6, <1>7, <1>8, <1>9, <1>10, <1>11
        DEF Step, Service

(* The initial states are the contract's. *)
LEMMA InitIsPromised == Init => Promise!Init
BY OneCopy, TransportsAssumption DEF Init, Returned, Promise!Init

(* Transport::send keeps what core/src/transport.rs promises of it, for any *)
(* number of concurrent calls, mails and services: at most one copy in a    *)
(* call, and Ok only for a delivery, unless the URL redirects.              *)
THEOREM SendKeepsPromise == Spec => KeepsPromise
<1>1. Init => Promise!Init
  BY InitIsPromised
<1>2. PromiseInv /\ [Next]_vars => [Promise!Next]_Promise!contractVars
  <2> SUFFICES ASSUME PromiseInv, [Next]_vars
               PROVE  Promise!Next \/ UNCHANGED Promise!contractVars
    OBVIOUS
  <2>1. CASE Next
    BY <2>1, StepIsPromised DEF Next
  <2>2. CASE UNCHANGED vars
    BY <2>2 DEF vars, Returned, Promise!contractVars
  <2> QED BY <2>1, <2>2
<1> QED BY <1>1, <1>2, AlwaysPromiseInv, PTL DEF Spec, KeepsPromise, Promise!Spec
-----------------------------------------------------------------------------
(* The addresses of a message are those of the mail. *)
InFull(message, m) ==
  {message[i].email : i \in DOMAIN message} = {m.to[i].email : i \in DOMAIN m.to}

(* What leaves for a mail server, or has arrived there, is made out to all; *)
(* scripts and their tokens are for plugins.                                *)
FullCall(c) ==
  /\ at[c] = "script" \/ request[c] = "token" => channel[c].kind # "smtp"
  /\ channel[c].kind \in {"smtp", "graph"} =>
       /\ at[c] = "connecting" \/ unhandled[c] => InFull(to[c], mail[c])
       /\ \A k \in DOMAIN got[c] : InFull(got[c][k], mail[c])

AddressInv ==
  /\ mail \in [Calls -> Mails] /\ DOMAIN to = Calls
  /\ \A c \in Calls : FullCall(c)

(* An SMTP message that can be built is made out to all. *)
LEMMA SmtpInFull ==
  ASSUME NEW m, build_message(m) # <<>>
  PROVE  InFull(build_message(m), m)
BY DEF build_message, InFull

(* The map of a mail has its addresses in the order of the mail, with the   *)
(* same email whether they have a name or not.                              *)
LEMMA MapKeepsEmails ==
  ASSUME NEW m \in Mails
  PROVE  /\ DOMAIN mail_to_map(m).to = DOMAIN m.to
         /\ \A i \in DOMAIN m.to : mail_to_map(m).to[i].email = m.to[i].email
<1>1. mail_to_map(m).to = [i \in DOMAIN m.to |->
                             IF m.to[i].name THEN [email |-> m.to[i].email, name |-> TRUE]
                                             ELSE [email |-> m.to[i].email]]
  BY MailsAssumption DEF mail_to_map
<1> QED BY <1>1

(* So has the payload that graph makes of the map. *)
LEMMA GraphInFull ==
  ASSUME NEW m \in Mails
  PROVE  InFull(payload_to("graph", mail_to_map(m)), m)
<1>1. PICK map : map = mail_to_map(m)
  OBVIOUS
<1>2. DOMAIN map.to = DOMAIN m.to /\ \A i \in DOMAIN m.to : map.to[i].email = m.to[i].email
  BY <1>1, MapKeepsEmails
<1>3. PICK message : message = payload_to("graph", map)
  OBVIOUS
<1>4. DOMAIN message = DOMAIN m.to /\ \A i \in DOMAIN m.to : message[i].email = m.to[i].email
  BY <1>2, <1>3 DEF payload_to
<1> QED BY <1>1, <1>3, <1>4 DEF InFull

(* A step of one call keeps the addresses of that call ... *)
LEMMA OwnAddressesKept ==
  ASSUME PromiseInv, AddressInv, NEW c \in Calls, Step(c) \/ Service(c)
  PROVE  FullCall(c)'
<1>0. /\ FullCall(c) /\ CallInv(c) /\ mail[c] \in Mails /\ DOMAIN to = Calls
      /\ DOMAIN at = Calls /\ DOMAIN unhandled = Calls /\ DOMAIN got = Calls
      /\ DOMAIN request = Calls
  BY DEF PromiseInv, Shape, AddressInv
<1>1. ASSUME UNCHANGED <<mail, channel, to, got>>,
             at'[c] # "connecting", unhandled'[c] => unhandled[c],
             at'[c] = "script" \/ request'[c] = "token" => channel[c].kind # "smtp"
      PROVE  FullCall(c)'
  BY <1>0, <1>1 DEF FullCall
<1>2. CASE SmtpSend(c)
  <2>1. /\ UNCHANGED <<mail, channel, request, unhandled, got>> /\ to'[c] = build_message(mail[c])
        /\ at'[c] = "connecting" => to'[c] # <<>>
        /\ at[c] = "idle" /\ at'[c] # "script"
    BY <1>0, <1>2 DEF SmtpSend, Goto
  <2>2. ~ unhandled[c]
    BY <1>0, <2>1 DEF CallInv
  <2> QED BY <1>0, <2>1, <2>2, SmtpInFull DEF FullCall
<1>3. CASE RhaiSend(c)
  BY <1>0, <1>1, <1>3 DEF RhaiSend, Goto, FullCall
<1>4. CASE Script(c)
  <2>1. ~ unhandled[c] /\ UNCHANGED <<mail, channel, request, unhandled, got>>
    BY <1>0, <1>4 DEF Script, CallInv
  <2>0. channel[c].kind # "smtp"
    BY <1>0, <1>4 DEF Script, FullCall
  <2>2. CASE at'[c] = "connecting"
    <3>1. to'[c] = payload_to(channel[c].kind, mail_to_map(mail[c]))
      BY <1>0, <1>4, <2>2 DEF Script, Goto
    <3>2. CASE channel[c].kind = "graph"
      BY <1>0, <2>0, <2>1, <3>1, <3>2, GraphInFull DEF FullCall
    <3>3. CASE channel[c].kind # "graph"
      BY <2>0, <2>1, <3>3 DEF FullCall
    <3> QED BY <3>2, <3>3
  <2>3. CASE at'[c] # "connecting"
    BY <1>0, <2>0, <2>1, <2>3 DEF FullCall
  <2> QED BY <2>2, <2>3
<1>5. CASE Connect(c)
  BY <1>0, <1>5 DEF Connect, Goto, FullCall
<1>6. CASE Breaks(c) \/ execute_times_out(c) \/ Conclude(c) \/ TakeToken(c)
  BY <1>0, <1>1, <1>6 DEF Breaks, execute_times_out, Conclude, TakeToken, Goto, FullCall
<1>7. ASSUME NEW s, NEW b, Answered(c, s, b), UNCHANGED got PROVE FullCall(c)'
  BY <1>0, <1>1, <1>7 DEF Answered, FullCall
<1>8. CASE Redirected(c) \/ IssueToken(c)
  BY <1>7, <1>8 DEF Redirected, IssueToken
<1>9. CASE Handle(c)
  <2>1. CASE UNCHANGED got
    BY <1>7, <1>9, <2>1 DEF Handle
  <2>2. CASE got' = [got EXCEPT ![c] = Append(@, to[c])]
    <3>1. got[c] = <<>> /\ unhandled[c] /\ UNCHANGED <<mail, channel, to, request>>
      BY <1>0, <1>9 DEF Handle, Answered, CallInv
    <3>2. got'[c] = <<to[c]>>
      BY <1>0, <2>2, <3>1
    <3>3. at'[c] \notin {"connecting", "script"} /\ ~ unhandled'[c]
      BY <1>0, <1>9, <3>1 DEF Handle, Answered, CallInv
    <3> QED BY <1>0, <3>1, <3>2, <3>3 DEF FullCall
  <2> QED BY <1>9, <2>1, <2>2 DEF Handle
<1> QED BY <1>2, <1>3, <1>4, <1>5, <1>6, <1>8, <1>9 DEF Step, Service

(* ... and those of every other. *)
LEMMA OtherAddressesKept ==
  ASSUME PromiseInv, AddressInv, NEW c \in Calls, Step(c) \/ Service(c),
         NEW d \in Calls, d # c
  PROVE  FullCall(d)'
<1>1. /\ UNCHANGED <<mail, channel>>
      /\ at'[d] = at[d] /\ unhandled'[d] = unhandled[d] /\ to'[d] = to[d] /\ got'[d] = got[d]
      /\ request'[d] = request[d]
  <2> USE DEF PromiseInv, Shape, AddressInv, Goto
  <2>1. CASE Step(c)
    BY <2>1 DEF Step, SmtpSend, RhaiSend, Script, Connect, Breaks, execute_times_out,
                Conclude, TakeToken
  <2>2. CASE Service(c)
    BY <2>2 DEF Service, Redirected, IssueToken, Handle, Answered
  <2> QED BY <2>1, <2>2
<1> QED BY <1>1 DEF AddressInv, FullCall

(* Every step keeps the addresses of all calls. *)
LEMMA AddressInvNext ==
  ASSUME PromiseInv, AddressInv, [Next]_vars
  PROVE  AddressInv'
<1>1. CASE Next
  <2>1. PICK c \in Calls : Step(c) \/ Service(c)
    BY <1>1 DEF Next
  <2>2. mail' = mail /\ DOMAIN to' = Calls
    BY <2>1 DEF AddressInv, Step, SmtpSend, RhaiSend, Script, Connect, Breaks,
       execute_times_out, Conclude, TakeToken, Service, Redirected, IssueToken, Handle, Answered
  <2> QED BY <2>1, <2>2, OwnAddressesKept, OtherAddressesKept DEF AddressInv
<1>2. CASE UNCHANGED vars
  BY <1>2 DEF vars, AddressInv, FullCall
<1> QED BY <1>1, <1>2

(* No recipient is dropped between the mail and the service, by any number  *)
(* of calls with any mails, whether an address parses, has a name or not.   *)
THEOREM NobodyIsSkipped == Spec => []AddressedInFull
<1>1. Init => AddressInv
  BY DEF Init, AddressInv, FullCall
<1>2. PromiseInv /\ AddressInv /\ [Next]_vars => AddressInv'
  BY AddressInvNext
<1>3. AddressInv => AddressedInFull
  BY DEF AddressInv, FullCall, InFull, AddressedInFull
<1> QED BY <1>1, <1>2, <1>3, AlwaysPromiseInv, PTL DEF Spec
=============================================================================
