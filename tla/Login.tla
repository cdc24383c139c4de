------------------------------- MODULE Login -------------------------------
(***************************************************************************)
(* Logging in to a target, asking it, and logging out: the stages of       *)
(* iSCSISession.c and iSCSIAuth.c, the login queries of iSCSIQueryTarget.c *)
(* they are made of, and the transfer of PDUs and their numbers by the     *)
(* kernel (iSCSIHBAUserClient.cpp, iSCSIVirtualHBA.cpp), with a target     *)
(* that keeps to the protocol, as far as it answers.                       *)
(*                                                                         *)
(* Each thread of the daemon works on a session of its own, with one       *)
(* connection.  Module SessionManager has what threads do to each other's  *)
(* sessions; an exchange is one step there, and is taken apart here.       *)
(***************************************************************************)
EXTENDS Negotiation, Sequences

CONSTANTS
    Threads,        \* the main run loop, and the discovery thread
    Jobs,           \* what a thread may be asked to do
    Preferences,    \* what targets prefer, per key
    MaxRetryCount,  \* of a login query
    Modulus,        \* of the sequence numbers (2^32)
    InitialStatSNs, \* that targets begin with
    MaxCmdSN,       \* bound on the commands of a session
    None

ASSUME LoginConstants ==
    /\ MaxRetryCount \in Nat \ {0} /\ Modulus \in Nat \ {0} /\ MaxCmdSN \in Nat
    /\ InitialStatSNs \subseteq 0 .. Modulus - 1
    /\ None \notin Threads
    /\ None \notin {"None", "CHAP", "right", "wrong", "loggedIn", "command"}

VARIABLES
    thread,         \* per thread, the functions it is in, and their variables
    bhsBuffer,      \* the user client's buffer for the header of a PDU
    kernel,         \* per thread, its session in the kernel
    target,         \* per thread, the target at the other end
    wire            \* per thread, requests and responses on their way

vars == <<thread, bhsBuffer, kernel, target, wire>>

Stages == {"security", "operational", "full"}
Methods == {"None", "CHAP"}
Next1(n) == (n + 1) % Modulus

(***************************************************************************)
(* Data.                                                                   *)
(***************************************************************************)
\* What the data segments of one query say: methods to authenticate with, a
\* portal group tag, the proof of a secret, and the operational keys.
NoKeys == [auth |-> None, group |-> FALSE, proof |-> None, settings |-> <<>>]

IdleThread ==
    [job |-> None, at |-> "idle", pc |-> "idle", from |-> "security", to |-> "security",
     retrying |-> FALSE, retries |-> 0, transit |-> FALSE, statSN |-> 0, tsih |-> FALSE,
     rsp |-> NoKeys, status |-> "invalid", error |-> FALSE, outcome |-> None]

NewSession ==
    [cmdSN |-> 0, expStatSN |-> 0, tsih |-> FALSE, settings |-> Defaults, active |-> FALSE]

\* A target and a connection to it.
NewTarget(sn) ==
    [stage |-> "security", statSN |-> sn, expCmdSN |-> 0, method |-> None,
     trusts |-> FALSE, proof |-> None, settings |-> <<>>]

NoWire == [reqs |-> <<>>, rsps |-> <<>>, lost |-> FALSE]

\* What may be offered, and what may come to be in force at a target.
Offers == {Offer(job.cfg, job.kind = "discover") : job \in Jobs}
Agreements == {<<>>} \cup {Answer(offer, prefs) : offer \in Offers, prefs \in Preferences}

Session ==
    [cmdSN : 0 .. Modulus - 1, expStatSN : 0 .. Modulus - 1, tsih : BOOLEAN,
     settings : [Keys -> Nat \cup BOOLEAN], active : BOOLEAN]
Target ==
    [stage : Stages \cup {"closed"}, statSN : 0 .. Modulus - 1, expCmdSN : 0 .. Modulus - 1,
     method : Methods \cup {None}, trusts : BOOLEAN, proof : {None, "right", "wrong"},
     settings : Agreements]

ASSUME NoneIsNoRecord == None \notin Session /\ None \notin Target

ASSUME JobTypes ==
    Jobs \subseteq
        [kind : {"login", "discover", "interrogate"}, initiator : Methods, target : Methods,
         cfg : [MaxConnections : Nat, ErrorRecoveryLevel : Nat, DataDigest : BOOLEAN, HeaderDigest : BOOLEAN],
         portals : Nat]

ASSUME PreferenceTypes ==
    \A prefs \in Preferences : \A k \in Keys : prefs[k] \in IF k \in Switches THEN BOOLEAN ELSE Nat

Normal(t) == thread[t].job.kind = "login"
Mutual(job) == job.initiator = "CHAP" /\ job.target = "CHAP"

At(t, at, pc) == thread[t].at = at /\ thread[t].pc = pc
Update(t, th) == thread' = [thread EXCEPT ![t] = th]
UpdateKernel(t, k) == kernel' = [kernel EXCEPT ![t] = k]

\* The requests of a login, whatever function sends them.
LoginSteps == {"auth", "blank", "chapStart", "chapAnswer", "negotiate", "interrogate"}

(***************************************************************************)
(* Queries.                                                                *)
(***************************************************************************)
\* The thread begins to ask, with an empty dictionary for the answer.
Ask(th, at, from, to) ==
    [th EXCEPT !.at = at, !.pc = "header", !.from = from, !.to = to, !.retrying = FALSE,
               !.retries = 0, !.transit = FALSE, !.error = FALSE, !.rsp = NoKeys]

\* The thread begins to ask, within the same function.
AskOn(th, at, from, to) == [Ask(th, at, from, to) EXCEPT !.rsp = th.rsp]

Returned(th) == [th EXCEPT !.pc = "return"]

\* Mutant: a target that has not moved on yet is taken to have.
NeverAsksAgain(th) == Returned(th)

\* Mutant: the target is asked again and again.
AsksForEver(th) ==
    IF th.at \notin LoginSteps \/ th.transit \/ th.from = th.to THEN Returned(th)
    ELSE IF ~th.retrying /\ (th.error \/ th.status # "success") THEN Returned(th)
    ELSE [th EXCEPT !.retrying = TRUE, !.pc = "header"]

\* Mutant: the retries are counted up to one more.
OneMoreRetry(th) ==
    IF th.at \notin LoginSteps \/ th.transit \/ th.from = th.to THEN Returned(th)
    ELSE IF ~th.retrying
      THEN IF th.error \/ th.status # "success" THEN Returned(th)
           ELSE [th EXCEPT !.retrying = TRUE, !.pc = "header"]
    ELSE IF th.retries = MaxRetryCount
      THEN [Returned(th) EXCEPT !.retries = @ + 1, !.status = "invalidRequest"]
    ELSE [th EXCEPT !.retries = @ + 1, !.pc = "header"]

\* iSCSISessionLoginQuery: when a single query is over, the target may have to be
\* asked again, until it moves on to the next stage.  What a further query reports
\* is not looked at.
SingleQueryReturns(th) ==
    IF th.at \notin LoginSteps THEN Returned(th)
    ELSE IF th.transit \/ th.from = th.to THEN Returned(th)
    ELSE IF ~th.retrying
      THEN IF th.error \/ th.status # "success" THEN Returned(th)
           ELSE [th EXCEPT !.retrying = TRUE, !.pc = "header"]
    ELSE IF th.retries + 1 = MaxRetryCount
      THEN [Returned(th) EXCEPT !.retries = MaxRetryCount, !.status = "invalidRequest"]
    ELSE [th EXCEPT !.retries = @ + 1, !.pc = "header"]

Fails(th) == SingleQueryReturns([th EXCEPT !.error = TRUE])

(***************************************************************************)
(* The methods of the user client.  A PDU is sent by two of them.          *)
(***************************************************************************)
Op(at) == IF at \in LoginSteps THEN "login" ELSE at

SendBHS(t) ==
    /\ thread[t].pc = "header"
    /\ bhsBuffer' = [owner |-> t, op |-> Op(thread[t].at), from |-> thread[t].from,
                     to |-> thread[t].to]
    /\ Update(t, [thread[t] EXCEPT !.pc = "data", !.error = FALSE])
    /\ UNCHANGED <<kernel, target, wire>>

\* The methods that iSCSIAuthNegotiateBuildDict offers.
MethodsOffered(job) ==
    IF job.kind = "interrogate" THEN Methods
    ELSE IF job.initiator = "None" THEN {"None"}
    ELSE IF Mutual(job) THEN {"CHAP"} ELSE Methods

\* The data segment; that of a further query is empty.
Data(th) ==
    [methods |-> IF th.at \in {"auth", "interrogate"} /\ ~th.retrying
                   THEN MethodsOffered(th.job) ELSE {},
     answer |-> th.at = "chapAnswer" /\ ~th.retrying,
     challenge |-> th.at = "chapAnswer" /\ ~th.retrying /\ Mutual(th.job),
     offer |-> IF th.at = "negotiate" /\ ~th.retrying
                 THEN Offer(th.job.cfg, th.job.kind = "discover") ELSE <<>>]

\* Mutant: every PDU is numbered.
NumbersEveryPDU(t, header, data, immediate) ==
    /\ wire' = [wire EXCEPT ![t].reqs =
                  Append(@, [header |-> header, data |-> data, immediate |-> immediate,
                             cmdSN |-> kernel[t].cmdSN, expStatSN |-> kernel[t].expStatSN])]
    /\ UpdateKernel(t, [kernel[t] EXCEPT !.cmdSN = Next1(@)])

\* iSCSIVirtualHBA::SendPDU on a connection that is not lost.
SendPDU(t, header, data, immediate) ==
    /\ wire' = [wire EXCEPT ![t].reqs =
                  Append(@, [header |-> header, data |-> data, immediate |-> immediate,
                             cmdSN |-> kernel[t].cmdSN, expStatSN |-> kernel[t].expStatSN])]
    /\ UpdateKernel(t, [kernel[t] EXCEPT !.cmdSN = IF immediate THEN @ ELSE Next1(@)])

SendData(t) ==
    /\ thread[t].pc = "data"
    /\ \/ /\ kernel[t] = None \/ wire[t].lost
          /\ Update(t, Fails(thread[t]))
          /\ UNCHANGED <<kernel, wire>>
       \/ /\ kernel[t] # None /\ ~wire[t].lost
          /\ SendPDU(t, bhsBuffer, Data(thread[t]), TRUE)
          /\ Update(t, [thread[t] EXCEPT !.pc = "receive"])
    /\ UNCHANGED <<bhsBuffer, target>>

\* Mutant: a NOP-In of the target, too, counts.
CountsEveryPDU(t) ==
    /\ wire[t].rsps # <<>>
    /\ wire' = [wire EXCEPT ![t].rsps = Tail(@)]
    /\ UpdateKernel(t, [kernel[t] EXCEPT !.expStatSN = Next1(@)])

\* PDUs without an initiator task tag are not counted, nor is number 2^32 - 1.
Counts(pdu) == pdu.tagged /\ pdu.statSN # Modulus - 1

\* iSCSIVirtualHBA::RecvPDUHeader.
RecvPDU(t) ==
    /\ wire[t].rsps # <<>>
    /\ wire' = [wire EXCEPT ![t].rsps = Tail(@)]
    /\ UpdateKernel(t, [kernel[t] EXCEPT !.expStatSN = IF Counts(Head(wire[t].rsps)) THEN Next1(@) ELSE @])

\* The socket's time-out, or the end of the connection.
ReceiveFails(t) ==
    /\ thread[t].pc = "receive"
    /\ wire[t].rsps = <<>>
    /\ Update(t, Fails(thread[t]))
    /\ UNCHANGED <<bhsBuffer, kernel, target, wire>>

\* The loop of iSCSISessionLoginSingleQuery.
LoginResponse(th, pdu) ==
    IF pdu.op = "reject" THEN Fails(th)
    ELSE IF pdu.status # "success" THEN SingleQueryReturns([th EXCEPT !.status = pdu.status])
    ELSE LET next == [th EXCEPT
                !.status = "success", !.transit = pdu.transit, !.statSN = pdu.statSN,
                !.tsih = @ \/ (th.to = "full" /\ pdu.tsih),
                !.rsp = IF th.retrying \/ pdu.keys = NoKeys THEN @ ELSE pdu.keys]
         IN  IF pdu.more THEN next ELSE SingleQueryReturns(next)

ReceiveLoginResponse(t) ==
    /\ thread[t].pc = "receive" /\ thread[t].at \in LoginSteps
    /\ RecvPDU(t)
    /\ Update(t, LoginResponse(thread[t], Head(wire[t].rsps)))
    /\ UNCHANGED <<bhsBuffer, target>>

\* The loop of iSCSIQueryPortalForTargets; anything but a text response ends it.
ReceiveTextResponse(t) ==
    /\ At(t, "text", "receive")
    /\ RecvPDU(t)
    /\ Update(t, IF Head(wire[t].rsps).more THEN thread[t] ELSE Returned(thread[t]))
    /\ UNCHANGED <<bhsBuffer, target>>

\* iSCSISessionLogoutCommon takes one PDU, whatever it is.
ReceiveLogoutResponse(t) ==
    /\ At(t, "logout", "receive")
    /\ RecvPDU(t)
    /\ Update(t, Returned(thread[t]))
    /\ UNCHANGED <<bhsBuffer, target>>

(***************************************************************************)
(* A session begins and ends.                                              *)
(***************************************************************************)
Begin(t, th, sn) ==
    /\ Update(t, th)
    /\ UpdateKernel(t, NewSession)
    /\ target' = [target EXCEPT ![t] = NewTarget(sn)]
    /\ wire' = [wire EXCEPT ![t] = NoWire]

\* iSCSISessionLogin, or iSCSIQueryTargetForAuthMethod: a session in the kernel, and
\* the first query.  Without anything to authenticate with, the initiator moves on.
Start(t, job) ==
    LET th == [IdleThread EXCEPT !.job = job]
        at == IF job.kind = "interrogate" THEN "interrogate" ELSE "auth"
        to == IF at = "auth" /\ job.initiator = "None" THEN "operational" ELSE "security"
    IN  /\ thread[t].pc = "idle" /\ kernel[t] = None
        /\ \/ /\ Update(t, [th EXCEPT !.outcome = "failed"])
              /\ UNCHANGED <<kernel, target, wire>>
           \/ \E sn \in InitialStatSNs :
                 Begin(t, Ask(th, at, "security", to), sn)
        /\ UNCHANGED bhsBuffer

Release(t) ==
    /\ UpdateKernel(t, None)
    /\ target' = [target EXCEPT ![t] = None]
    /\ wire' = [wire EXCEPT ![t] = NoWire]

Ended(th, outcome) == [IdleThread EXCEPT !.job = th.job, !.outcome = outcome]

\* The end of iSCSISessionLogin when there is an error or another status than
\* success.  A discovery without an error goes on, with no session.
LoginFails(t, error) ==
    /\ Release(t)
    /\ Update(t, IF thread[t].job.kind = "discover" /\ ~error
                   THEN Ask(thread[t], "text", "full", "full")
                   ELSE Ended(thread[t], "failed"))

Succeeded(th) == ~th.error /\ th.status = "success"

(***************************************************************************)
(* iSCSIAuthNegotiate, and iSCSIAuthNegotiateCHAP.                         *)
(***************************************************************************)
Negotiates(th) == Ask(th, "negotiate", "operational", "full")

\* Mutant: what the target chose need not have been offered.
AnyMethod(th) == (th.job.kind = "login") => th.rsp.group

\* The portal group tag of a normal session, and a method that was offered.
Acceptable(th) ==
    /\ (th.job.kind = "login") => th.rsp.group
    /\ th.rsp.auth \in MethodsOffered(th.job)

AuthReturns(t) ==
    LET th == thread[t]
    IN  /\ At(t, "auth", "return")
        /\ \/ ~Succeeded(th) /\ LoginFails(t, th.error)
           \/ Succeeded(th) /\ ~Acceptable(th) /\ LoginFails(t, TRUE)
           \/ /\ Succeeded(th) /\ Acceptable(th)
              /\ UpdateKernel(t, [kernel[t] EXCEPT !.expStatSN = Next1(th.statSN)])
              /\ Update(t, CASE th.rsp.auth = "CHAP" -> Ask(th, "chapStart", "security", "security")
                              [] th.job.initiator = "None" -> Negotiates(th)
                              [] OTHER -> Ask(th, "blank", "security", "operational"))
              /\ UNCHANGED <<target, wire>>
        /\ UNCHANGED bhsBuffer

\* The error of this query is dropped, its status is not.
BlankReturns(t) ==
    LET th == thread[t]
    IN  /\ At(t, "blank", "return")
        /\ \/ th.status # "success" /\ LoginFails(t, FALSE)
           \/ /\ th.status = "success"
              /\ Update(t, Negotiates(th))
              /\ UNCHANGED <<kernel, target, wire>>
        /\ UNCHANGED bhsBuffer

ChapStartReturns(t) ==
    LET th == thread[t]
    IN  /\ At(t, "chapStart", "return")
        /\ \/ ~Succeeded(th) /\ LoginFails(t, th.error)
           \/ /\ Succeeded(th)
              /\ Update(t, AskOn(th, "chapAnswer", "security", "operational"))
              /\ UNCHANGED <<kernel, target, wire>>
        /\ UNCHANGED bhsBuffer

\* Mutant: a target that says nothing of the challenge is believed.
ProvenUnlessWrong(th) == Mutual(th.job) => th.rsp.proof # "wrong"

Proven(th) == Mutual(th.job) => th.rsp.proof = "right"

ChapAnswerReturns(t) ==
    LET th == thread[t]
    IN  /\ At(t, "chapAnswer", "return")
        /\ \/ ~(Succeeded(th) /\ Proven(th)) /\ LoginFails(t, TRUE)
           \/ /\ Succeeded(th) /\ Proven(th)
              /\ Update(t, Negotiates(th))
              /\ UNCHANGED <<kernel, target, wire>>
        /\ UNCHANGED bhsBuffer

(***************************************************************************)
(* iSCSINegotiateSession, and the end of iSCSISessionLogin.                *)
(***************************************************************************)
OfferOf(th) == Offer(th.job.cfg, th.job.kind = "discover")

\* iSCSIDLoginAllPortals goes on with further portals as far as connections are
\* allowed.  They are never logged in, but the status is no longer success.
Reported(settings, job) ==
    IF job.portals > 1 /\ settings["MaxConnections"] > 1 THEN "failed" ELSE "loggedIn"

\* The connection is activated last.  That its target can be mounted is taken for
\* granted here: a failure, of which the daemon is not told, is in module Requests.
LoggedIn(t) ==
    LET th == thread[t]
        settings == Store(kernel[t].settings, OfferOf(th), th.rsp.settings)
        session == [kernel[t] EXCEPT !.settings = settings, !.tsih = th.tsih]
    IN  IF th.job.kind = "discover"
          THEN /\ UpdateKernel(t, session)
               /\ Update(t, Ask(th, "text", "full", "full"))
          ELSE /\ UpdateKernel(t, [session EXCEPT !.active = TRUE])
               /\ Update(t, Ended(th, Reported(settings, th.job)))

Agreed(th) == Succeeded(th) /\ ~NotSupported(OfferOf(th), th.rsp.settings)

\* Mutant: the session stays when its parameters are not supported.
KeepsSession(t) ==
    LET th == thread[t]
    IN  /\ At(t, "negotiate", "return")
        /\ \/ ~Agreed(th) /\ ~Succeeded(th) /\ LoginFails(t, th.error)
           \/ /\ ~Agreed(th) /\ Succeeded(th)
              /\ Update(t, Ended(th, "failed")) /\ UNCHANGED <<kernel, target, wire>>
           \/ Agreed(th) /\ LoggedIn(t) /\ UNCHANGED <<target, wire>>
        /\ UNCHANGED bhsBuffer

NegotiateReturns(t) ==
    LET th == thread[t]
    IN  /\ At(t, "negotiate", "return")
        /\ \/ ~Agreed(th) /\ LoginFails(t, th.error \/ th.status = "success")
           \/ Agreed(th) /\ LoggedIn(t) /\ UNCHANGED <<target, wire>>
        /\ UNCHANGED bhsBuffer

(***************************************************************************)
(* The other queries, and logging out.                                     *)
(***************************************************************************)
\* iSCSIQueryTargetForAuthMethod releases the session in any case.
InterrogateReturns(t) ==
    /\ At(t, "interrogate", "return")
    /\ Release(t)
    /\ Update(t, Ended(thread[t], "ended"))
    /\ UNCHANGED bhsBuffer

\* iSCSISessionLogout deactivates the connection first.
LogsOut(t) ==
    /\ UpdateKernel(t, [kernel[t] EXCEPT !.active = FALSE])
    /\ Update(t, Ask(thread[t], "logout", "full", "full"))
    /\ UNCHANGED <<target, wire>>

\* iSCSIQueryPortalForTargets logs out in any case; with no session, it fails.
TextReturns(t) ==
    /\ At(t, "text", "return")
    /\ \/ kernel[t] # None /\ LogsOut(t)
       \/ kernel[t] = None /\ Update(t, Ended(thread[t], "ended")) /\ UNCHANGED <<kernel, target, wire>>
    /\ UNCHANGED bhsBuffer

Logout(t) ==
    /\ thread[t].pc = "idle" /\ kernel[t] # None
    /\ LogsOut(t)
    /\ UNCHANGED bhsBuffer

LogoutReturns(t) ==
    /\ At(t, "logout", "return")
    /\ Release(t)
    /\ Update(t, Ended(thread[t], "ended"))
    /\ UNCHANGED bhsBuffer

(***************************************************************************)
(* The kernel, while the session is active.                                *)
(***************************************************************************)
NoData == [methods |-> {}, answer |-> FALSE, challenge |-> FALSE, offer |-> <<>>]

\* iSCSIVirtualHBA::BeginTaskOnWorkloopThread, as far as the numbers go.
BeginTask(t) ==
    /\ kernel[t] # None /\ ~wire[t].lost /\ wire[t] = NoWire
    /\ kernel[t].active /\ kernel[t].cmdSN < MaxCmdSN
    /\ SendPDU(t, [owner |-> t, op |-> "command", from |-> "full", to |-> "full"], NoData, FALSE)
    /\ UNCHANGED <<thread, bhsBuffer, target>>

\* iSCSIVirtualHBA::CompleteTaskOnWorkloopThread receives the PDU.
ProcessPDU(t) ==
    /\ kernel[t] # None /\ wire[t].rsps # <<>>
    /\ kernel[t].active
    /\ RecvPDU(t)
    /\ UNCHANGED <<thread, bhsBuffer, target>>

(***************************************************************************)
(* The target.                                                             *)
(***************************************************************************)
Request(t) == Head(wire[t].reqs)
Asked(t, op) == wire[t].reqs # <<>> /\ Request(t).header.op = op

\* A PDU that is tagged with the request it answers.
Response(op, keys) ==
    [op |-> op, status |-> "success", transit |-> FALSE, more |-> FALSE, statSN |-> 0,
     tsih |-> FALSE, tagged |-> TRUE, keys |-> keys]

Numbered(pdus, sn) == [i \in DOMAIN pdus |-> [pdus[i] EXCEPT !.statSN = (sn + i - 1) % Modulus]]

Answers(t, tgt, pdus) ==
    /\ target' = [target EXCEPT ![t] = [tgt EXCEPT !.statSN = (@ + Len(pdus)) % Modulus]]
    /\ wire' = [wire EXCEPT ![t] = [wire[t] EXCEPT !.reqs = Tail(@), !.rsps = @ \o Numbered(pdus, target[t].statSN)]]
    /\ UNCHANGED <<thread, bhsBuffer, kernel>>

\* The target's part of a query: what it is then, and the keys that it says.
Becomes(new, keys) == [target |-> new, keys |-> keys]
Chooses(tgt, m, g) == Becomes([tgt EXCEPT !.method = m], [NoKeys EXCEPT !.auth = m, !.group = g])
Settles(tgt, a, said) == Becomes([tgt EXCEPT !.settings = a], [NoKeys EXCEPT !.settings = said])
Trusts(tgt, p) == Becomes([tgt EXCEPT !.trusts = TRUE, !.proof = p], [NoKeys EXCEPT !.proof = p])

Part(answer) == [k \in DOMAIN answer \ {"ErrorRecoveryLevel"} |-> answer[k]]

\* What a target may make of a request.  Any method may be chosen; an answer may lack
\* a key, but the proof of a secret may not.
Considered(t) ==
    LET data == Request(t).data
        answers == {Answer(data.offer, p) : p \in Preferences}
        groups == IF Normal(t) THEN BOOLEAN ELSE {FALSE}
        proofs == IF data.challenge THEN {"right", "wrong", None} ELSE {None}
    IN  IF data.methods # {}
          THEN UNION {{Chooses(target[t], m, g) : m \in Methods} : g \in groups}
        ELSE IF data.offer # <<>>
          THEN UNION {{Settles(target[t], a, a), Settles(target[t], a, Part(a))} : a \in answers}
        ELSE IF data.answer
          THEN {Trusts(target[t], p) : p \in proofs}
        ELSE {Becomes(target[t], NoKeys)}

\* The target may move on with the initiator.
Ready(tgt, header) ==
    /\ header.from # header.to
    /\ tgt.stage = "security" => tgt.method = "None" \/ tgt.trusts
    /\ tgt.stage = "operational" => tgt.settings # <<>>

\* An answer in one PDU, or in two, the keys in either; or in two, the second after
\* an empty request.
Parts(pdu) ==
    LET first == [pdu EXCEPT !.more = TRUE, !.transit = FALSE, !.tsih = FALSE]
    IN  {<<pdu>>, <<first, [pdu EXCEPT !.keys = NoKeys]>>, <<[first EXCEPT !.keys = NoKeys], pdu>>}
        \cup (IF pdu.transit THEN {} ELSE {<<first>>})

TargetAnswersLogin(t) ==
    /\ Asked(t, "login") /\ Request(t).header.from = target[t].stage
    /\ \E c \in Considered(t), moves \in BOOLEAN :
          LET pdu == [Response("login", c.keys) EXCEPT
                        !.transit = moves, !.tsih = moves /\ Request(t).header.to = "full"]
          IN  /\ moves => Ready(c.target, Request(t).header)
              /\ \E pdus \in Parts(pdu) :
                    Answers(t, [c.target EXCEPT !.stage = IF moves THEN Request(t).header.to ELSE @], pdus)

\* Another status than success, or a reject, and the target closes the connection.
TargetRefusesLogin(t) ==
    /\ Asked(t, "login") /\ target[t].stage # "closed"
    /\ \E pdu \in {[Response("login", NoKeys) EXCEPT !.status = "refused"],
                    [Response("reject", NoKeys) EXCEPT !.tagged = FALSE]} :
          Answers(t, [target[t] EXCEPT !.stage = "closed"], <<pdu>>)

TargetAnswersText(t) ==
    /\ Asked(t, "text") /\ target[t].stage = "full"
    /\ \E pdus \in Parts(Response("text", NoKeys)) : Answers(t, target[t], pdus)

TargetAnswersLogout(t) ==
    /\ Asked(t, "logout") /\ target[t].stage = "full"
    /\ Answers(t, [target[t] EXCEPT !.stage = "closed"], <<Response("logout", NoKeys)>>)

TargetAnswersCommand(t) ==
    /\ Asked(t, "command") /\ Request(t).cmdSN = target[t].expCmdSN
    /\ Answers(t, [target[t] EXCEPT !.expCmdSN = Next1(@)], <<Response("command", NoKeys)>>)

\* A NOP-In that asks for nothing says the next number, and does not use it.
TargetSendsNOPIn(t) ==
    /\ kernel[t] # None /\ ~wire[t].lost /\ wire[t].rsps = <<>>
    /\ kernel[t].active
    /\ wire' = [wire EXCEPT ![t].rsps =
                  <<[Response("NOPIn", NoKeys) EXCEPT !.tagged = FALSE, !.statSN = target[t].statSN]>>]
    /\ UNCHANGED <<thread, bhsBuffer, kernel, target>>

\* The connection is lost during an exchange.
Lost(t) ==
    /\ kernel[t] # None /\ ~wire[t].lost /\ thread[t].pc # "idle"
    /\ wire' = [wire EXCEPT ![t] = [NoWire EXCEPT !.lost = TRUE]]
    /\ UNCHANGED <<thread, bhsBuffer, kernel, target>>

(***************************************************************************)
(* The specification.                                                      *)
(***************************************************************************)
Init ==
    /\ thread = [t \in Threads |-> IdleThread]
    /\ bhsBuffer = [owner |-> None, op |-> None, from |-> "security", to |-> "security"]
    /\ kernel = [t \in Threads |-> None]
    /\ target = [t \in Threads |-> None]
    /\ wire = [t \in Threads |-> NoWire]

ThreadStep(t) ==
    \/ SendBHS(t) \/ SendData(t) \/ ReceiveFails(t)
    \/ ReceiveLoginResponse(t) \/ ReceiveTextResponse(t) \/ ReceiveLogoutResponse(t)
    \/ AuthReturns(t) \/ BlankReturns(t) \/ ChapStartReturns(t) \/ ChapAnswerReturns(t)
    \/ NegotiateReturns(t) \/ InterrogateReturns(t) \/ TextReturns(t) \/ LogoutReturns(t)

KernelStep(t) == BeginTask(t) \/ ProcessPDU(t)

TargetStep(t) ==
    \/ TargetAnswersLogin(t) \/ TargetRefusesLogin(t) \/ TargetAnswersText(t)
    \/ TargetAnswersLogout(t) \/ TargetAnswersCommand(t) \/ TargetSendsNOPIn(t) \/ Lost(t)

Next ==
    \E t \in Threads :
        \/ \E job \in Jobs : Start(t, job)
        \/ Logout(t) \/ ThreadStep(t) \/ KernelStep(t) \/ TargetStep(t)

Spec == Init /\ [][Next]_vars

\* The code goes on by itself: receiving ends by an answer, or by the time-out.
FairSpec == Spec /\ \A t \in Threads : WF_vars(ThreadStep(t))

(***************************************************************************)
(* Properties.                                                             *)
(***************************************************************************)
ThreadType ==
    [job : Jobs \cup {None}, at : LoginSteps \cup {"idle", "text", "logout"},
     pc : {"idle", "header", "data", "receive", "return"}, from : Stages, to : Stages,
     retrying : BOOLEAN, retries : 0 .. MaxRetryCount, transit : BOOLEAN,
     statSN : 0 .. Modulus - 1, tsih : BOOLEAN, status : {"invalid", "success", "refused", "invalidRequest"},
     error : BOOLEAN, outcome : {None, "failed", "loggedIn", "ended"}]

Without(record, field) == [f \in DOMAIN record \ {field} |-> record[f]]

\* The threads, sessions and targets are of their types, and a thread without a
\* query has no use for the answers.
TypeOK ==
    \A t \in Threads :
        /\ Without(thread[t], "rsp") \in ThreadType
        /\ thread[t].pc = "idle" => thread[t] = Ended(thread[t], thread[t].outcome)
        /\ kernel[t] # None => kernel[t].cmdSN \in 0 .. Modulus - 1 /\ kernel[t].expStatSN \in 0 .. Modulus - 1
        /\ kernel[t] # None => target[t] # None /\ target[t].stage \in Stages \cup {"closed"}
        /\ kernel[t] = None => target[t] = None /\ wire[t] = NoWire

\* A session that the kernel uses is one that its target agreed to: the target has
\* entered the full feature phase (it may have closed the connection since), and each
\* parameter that it answered for has the value that is in force at the target.
\* (iSCSISessionLogin activates the connection when iSCSINegotiateSession returns.)
ActiveIsAgreed ==
    \A t \in Threads :
        kernel[t] # None /\ kernel[t].active =>
            /\ target[t].stage \in {"full", "closed"}
            /\ kernel[t].tsih
            /\ \A k \in Counted(OfferOf(thread[t]), target[t].settings) :
                  kernel[t].settings[k] = target[t].settings[k]

\* When the initiator is to authenticate the target, no session is used whose target
\* did not prove that it knows the secret: choosing another method, saying nothing,
\* or moving on late does not get past iSCSIAuthNegotiateCHAP.
MutualIsKept ==
    \A t \in Threads :
        kernel[t] # None /\ kernel[t].active /\ Mutual(thread[t].job) => target[t].proof = "right"

\* The daemon and the kernel count the same numbers, in turns: once the first query
\* has been answered and nothing is on its way, the next status number that the
\* kernel expects is the one that the target has next, and likewise for commands.
NumbersAgree ==
    \A t \in Threads :
        /\ kernel[t] # None /\ wire[t] = NoWire
        /\ thread[t].at \notin {"auth", "interrogate"} /\ target[t].stage # "closed"
        => kernel[t].expStatSN = target[t].statSN /\ kernel[t].cmdSN = target[t].expCmdSN

\* A command to log in reports success exactly when there is a session, which the
\* kernel uses: one that failed at any stage leaves none behind.
OutcomeIsReported ==
    \A t \in Threads : thread[t].pc = "idle" =>
        /\ thread[t].outcome = "loggedIn" <=> kernel[t] # None
        /\ kernel[t] # None => kernel[t].active

\* The basic header segment that is sent over a connection is the one that its
\* thread gave to SendBHS.
HeaderIsOwn ==
    \A t \in Threads : \A i \in DOMAIN wire[t].reqs : wire[t].reqs[i].header.owner = t

\* Whatever a target answers, or does not, an exchange ends: no retry, no answer in
\* parts and no loss of the connection keeps the thread for ever.
EveryLoginEnds == \A t \in Threads : thread[t].pc # "idle" ~> thread[t].pc = "idle"
=============================================================================
