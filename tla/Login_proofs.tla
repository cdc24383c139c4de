----------------------------- MODULE Login_proofs -----------------------------
(***************************************************************************)
(* Machine-checked facts about Login, for any number of threads, any jobs, *)
(* any preferences of targets and any number of retries: the types of its  *)
(* variables, what a login reports, that targets are authenticated, that   *)
(* sequence numbers are counted alike, and that what is agreed is stored.  *)
(*                                                                         *)
(* Every action is first shown to be a Step: what it does to one thread,   *)
(* its session, its target and its wire, whichever function it is in.  The *)
(* invariants are about those four, and are shown for each kind of Step.   *)
(***************************************************************************)
EXTENDS Login, SequenceTheorems, TLAPS

(***************************************************************************)
(* Types.                                                                  *)
(***************************************************************************)
Numbers == 0 .. Modulus - 1
Asking(th) == th.pc \in {"header", "data", "receive"}

\* What a target may say that was offered those keys.
Sayable(offer) ==
    {<<>>} \cup {Answer(offer, prefs) : prefs \in Preferences}
           \cup {Part(Answer(offer, prefs)) : prefs \in Preferences}
Saying == [auth : Methods \cup {None}, group : BOOLEAN, proof : {None, "right", "wrong"},
           settings : UNION {Sayable(offer) : offer \in Offers \cup {<<>>}}]
Thread ==
    [job : Jobs \cup {None}, at : LoginSteps \cup {"idle", "text", "logout"},
     pc : {"idle", "header", "data", "receive", "return"}, from : Stages, to : Stages,
     retrying : BOOLEAN, retries : 0 .. MaxRetryCount, transit : BOOLEAN,
     statSN : Numbers, tsih : BOOLEAN, rsp : Saying,
     status : {"invalid", "success", "refused", "invalidRequest"},
     error : BOOLEAN, outcome : {None, "failed", "loggedIn", "ended"}]
Buffer == [owner : Threads \cup {None}, op : {None, "login", "text", "logout"}, from : Stages, to : Stages]
Header == [owner : Threads \cup {None}, op : {None, "login", "text", "logout", "command"},
           from : Stages, to : Stages]
Contents == [methods : SUBSET Methods, answer : BOOLEAN, challenge : BOOLEAN, offer : {<<>>} \cup Offers]
Requests == [header : Header, data : Contents, immediate : BOOLEAN, cmdSN : Numbers, expStatSN : Numbers]
Responses ==
    [op : {"login", "reject", "text", "logout", "command", "NOPIn"}, status : {"success", "refused"},
     transit : BOOLEAN, more : BOOLEAN, statSN : Numbers, tsih : BOOLEAN, tagged : BOOLEAN, keys : Saying]
Wire == [reqs : Seq(Requests), rsps : Seq(Responses), lost : BOOLEAN]

\* What a thread and its session and connection have to do with each other.
Rests(th, k, tgt, w) ==
    /\ th.pc = "idle" <=> th.at = "idle"
    /\ th.pc = "idle" => th = Ended(th, th.outcome)
    /\ th.at # "idle" \/ k # None => th.job \in Jobs
    /\ Asking(th) => th.retries < MaxRetryCount
    /\ th.at \in LoginSteps => k # None
    /\ k # None => /\ tgt # None
                   /\ th.rsp.settings \in Sayable(OfferOf(th))
                   /\ \A i \in 1 .. Len(w.reqs) : w.reqs[i].data.offer \in {<<>>, OfferOf(th)}
                   /\ \A i \in 1 .. Len(w.rsps) : w.rsps[i].keys.settings \in Sayable(OfferOf(th))
    /\ k = None => tgt = None /\ w = NoWire

TypeInv ==
    /\ bhsBuffer \in Buffer
    /\ thread \in [Threads -> Thread] /\ kernel \in [Threads -> Session \cup {None}]
    /\ target \in [Threads -> Target \cup {None}] /\ wire \in [Threads -> Wire]
    /\ \A t \in Threads : Rests(thread[t], kernel[t], target[t], wire[t])

LEMMA KeysAreApart ==
  /\ Switches \subseteq Keys /\ CommonKeys \subseteq Keys /\ CommonKeys \cap Switches = {}
  /\ "MaxConnections" \in Keys \ Switches /\ "FirstBurstLength" \in Keys \ Switches
  /\ "ErrorRecoveryLevel" \in Keys \ Switches /\ "MaxRecvDataSegmentLength" \in Keys \ Switches
  /\ "DefaultTime2Wait" \in Keys \ Switches
  /\ DigestKeys \subseteq Switches /\ OrKeys \subseteq Switches /\ AndKeys \subseteq Switches
  /\ DigestKeys \cap (OrKeys \cup AndKeys) = {} /\ OrKeys \cap AndKeys = {}
  /\ AndKeys = {"DataPDUInOrder", "DataSequenceInOrder"} \cup {"ImmediateData"}
  /\ "ImmediateData" \notin OrKeys \cup {"DataPDUInOrder", "DataSequenceInOrder"}
BY DEF Switches, Keys, CommonKeys, NormalKeys, ConnectionKeys, OrKeys, AndKeys, DigestKeys, SizeKeys

\* A number, or Yes or No.
Fits(k, v) == v \in IF k \in Switches THEN BOOLEAN ELSE Nat

LEMMA DefaultsFit ==
  ASSUME NEW k \in Keys PROVE Fits(k, Defaults[k])
<1>1. CASE k \in Switches
  <2>1. Defaults[k] \in BOOLEAN
    BY <1>1, SMT DEF Defaults, DefaultNumber
  <2> QED
    BY <1>1, <2>1 DEF Fits
<1>2. CASE k \notin Switches
  <2>1. Defaults[k] \in Nat
    BY <1>2, SMT DEF Defaults, DefaultNumber
  <2> QED
    BY <1>2, <2>1 DEF Fits
<1> QED
  BY <1>1, <1>2

LEMMA OfferFits ==
  ASSUME NEW job \in Jobs, NEW discovery \in BOOLEAN
  PROVE  /\ CommonKeys \subseteq DOMAIN Offer(job.cfg, discovery) /\ DOMAIN Offer(job.cfg, discovery) \subseteq Keys
         /\ \A k \in DOMAIN Offer(job.cfg, discovery) : Fits(k, Offer(job.cfg, discovery)[k])
<1> DEFINE cfg == job.cfg
           o == Offer(cfg, discovery)
<1>1. DOMAIN o = IF discovery THEN Keys \ NormalKeys ELSE Keys
  BY SMT DEF Offer
<1>2. CommonKeys \subseteq DOMAIN o /\ DOMAIN o \subseteq Keys
  BY <1>1 DEF Keys, CommonKeys, NormalKeys, SizeKeys, OrKeys, AndKeys
<1>3. /\ cfg["MaxConnections"] \in Nat /\ cfg["ErrorRecoveryLevel"] \in Nat
      /\ \A k \in DigestKeys : cfg[k] \in BOOLEAN
  BY JobTypes DEF DigestKeys
<1>4. ASSUME NEW k \in DOMAIN o, k \in DigestKeys PROVE o[k] = cfg[k]
  BY <1>4, KeysAreApart, SMT DEF Offer
<1>5. ASSUME NEW k \in DOMAIN o, k \notin DigestKeys
      PROVE  (o[k] = cfg[k] /\ k \in {"MaxConnections", "ErrorRecoveryLevel"}) \/ o[k] = Defaults[k]
  <2>1. CASE k = "MaxConnections" /\ cfg[k] # 0
    BY <1>5, <2>1, SMT DEF Offer
  <2>2. CASE k = "ErrorRecoveryLevel" /\ cfg[k] \in 0 .. 2
    BY <1>5, <2>2, SMT DEF Offer
  <2>3. CASE ~(k = "MaxConnections" /\ cfg[k] # 0) /\ ~(k = "ErrorRecoveryLevel" /\ cfg[k] \in 0 .. 2)
    BY <1>5, <2>3, SMT DEF Offer
  <2> QED
    BY <2>1, <2>2, <2>3
<1> HIDE DEF cfg, o
<1>6. ASSUME NEW k \in DOMAIN o PROVE Fits(k, o[k])
  <2>1. Fits(k, Defaults[k])
    BY <1>2, DefaultsFit
  <2>2. CASE k \in DigestKeys
    BY <1>3, <1>4, <2>2, KeysAreApart DEF Fits
  <2>3. CASE k \notin DigestKeys
    BY <1>3, <1>5, <2>1, <2>3, KeysAreApart DEF Fits
  <2> QED
    BY <2>2, <2>3
<1> QED
  BY <1>2, <1>6 DEF o, cfg

LEMMA AnswerFits ==
  ASSUME NEW offer, DOMAIN offer \subseteq Keys, NEW prefs \in Preferences,
         \A k \in DOMAIN offer : Fits(k, offer[k])
  PROVE  /\ DOMAIN Answer(offer, prefs) = DOMAIN offer
         /\ \A k \in DOMAIN offer : Fits(k, Answer(offer, prefs)[k])
<1>1. SUFFICES ASSUME NEW k \in DOMAIN offer
               PROVE  Fits(k, Answer(offer, prefs)[k])
  BY SMT DEF Answer
<1>2. Fits(k, prefs[k]) /\ Fits(k, offer[k])
  BY PreferenceTypes DEF Fits
<1>3. CASE k \in OrKeys \cup {"DataPDUInOrder", "DataSequenceInOrder"}
  <2>1. k \in Switches
    BY <1>3, KeysAreApart
  <2>2. Answer(offer, prefs)[k] \in BOOLEAN
    BY <1>2, <1>3, <2>1, SMT DEF Answer, Fits
  <2> QED
    BY <2>1, <2>2 DEF Fits
<1>4. CASE k \in DigestKeys \cup {"ImmediateData"}
  <2>1. k \in Switches /\ k \notin OrKeys \cup {"DataPDUInOrder", "DataSequenceInOrder"}
    BY <1>4, KeysAreApart
  <2>2. Answer(offer, prefs)[k] \in BOOLEAN
    BY <1>2, <1>4, <2>1, SMT DEF Answer, Fits
  <2> QED
    BY <2>1, <2>2 DEF Fits
<1>5. CASE k \notin Switches
  <2>1. /\ k \notin DigestKeys \cup {"ImmediateData"}
        /\ k \notin OrKeys \cup {"DataPDUInOrder", "DataSequenceInOrder"}
    BY <1>5, KeysAreApart
  <2>2. Answer(offer, prefs)[k] \in Nat
    BY <1>2, <1>5, <2>1, SMT DEF Answer, Fits
  <2> QED
    BY <1>5, <2>2 DEF Fits
<1> QED
  BY <1>3, <1>4, <1>5, KeysAreApart DEF Switches

LEMMA CombineFits ==
  ASSUME NEW k \in Keys, NEW cmd, NEW rsp, Fits(k, cmd), Fits(k, rsp)
  PROVE  Fits(k, Combine(k, cmd, rsp))
<1>1. CASE k \in OrKeys
  BY <1>1, KeysAreApart, SMT DEF Combine, LVGetOr, Fits
<1>2. CASE k \in AndKeys
  BY <1>2, KeysAreApart, SMT DEF Combine, LVGetAnd, Fits
<1>3. CASE k \in DigestKeys
  BY <1>3, KeysAreApart, SMT DEF Combine, LVGetEqual, Fits
<1>4. CASE k \notin Switches
  BY <1>4, KeysAreApart, SMT DEF Combine, LVGetMin, Fits
<1> QED
  BY <1>1, <1>2, <1>3, <1>4 DEF Switches

LEMMA SayableFits ==
  ASSUME NEW offer, DOMAIN offer \subseteq Keys, \A k \in DOMAIN offer : Fits(k, offer[k]),
         NEW d \in Sayable(offer)
  PROVE  DOMAIN d \subseteq DOMAIN offer /\ \A k \in DOMAIN d : Fits(k, d[k])
<1>1. CASE d = <<>>
  <2>1. DOMAIN d = {}
    BY <1>1
  <2> QED
    BY <2>1
<1>2. CASE d \in {Answer(offer, prefs) : prefs \in Preferences}
  <2>1. PICK prefs \in Preferences : d = Answer(offer, prefs)
    BY <1>2
  <2> QED
    BY <2>1, AnswerFits
<1>3. CASE d \in {Part(Answer(offer, prefs)) : prefs \in Preferences}
  <2>1. PICK prefs \in Preferences : d = Part(Answer(offer, prefs))
    BY <1>3
  <2>2. /\ DOMAIN d = DOMAIN Answer(offer, prefs) \ {"ErrorRecoveryLevel"}
        /\ \A k \in DOMAIN d : d[k] = Answer(offer, prefs)[k]
    BY <2>1 DEF Part
  <2>3. /\ DOMAIN Answer(offer, prefs) = DOMAIN offer
        /\ \A k \in DOMAIN offer : Fits(k, Answer(offer, prefs)[k])
    BY AnswerFits
  <2> QED
    BY <2>2, <2>3
<1> QED
  BY <1>1, <1>2, <1>3 DEF Sayable

LEMMA FitsValue ==
  ASSUME NEW k, NEW v, Fits(k, v) PROVE v \in Nat \cup BOOLEAN
BY DEF Fits

LEMMA StoreTyped ==
  ASSUME NEW offer, DOMAIN offer \subseteq Keys, \A k \in DOMAIN offer : Fits(k, offer[k]),
         NEW d \in Sayable(offer), NEW settings \in [Keys -> Nat \cup BOOLEAN]
  PROVE  Store(settings, offer, d) \in [Keys -> Nat \cup BOOLEAN]
<1>1. DOMAIN d \subseteq DOMAIN offer /\ \A k \in DOMAIN d : Fits(k, d[k])
  BY SayableFits
<1>2. Counted(offer, d) \subseteq DOMAIN d
  BY DEF Counted
<1>3. ASSUME NEW k \in Keys
      PROVE  (IF k \in Counted(offer, d) THEN Combine(k, offer[k], d[k])
              ELSE IF k \in DigestKeys THEN FALSE ELSE settings[k]) \in Nat \cup BOOLEAN
  <2>1. CASE k \in Counted(offer, d)
    <3>1. Fits(k, Combine(k, offer[k], d[k]))
      BY <1>1, <1>2, <2>1, CombineFits
    <3> QED
      BY <2>1, <3>1, FitsValue
  <2>2. CASE k \notin Counted(offer, d)
    <3>1. settings[k] \in Nat \cup BOOLEAN
      OBVIOUS
    <3>2. CASE k \in DigestKeys
      BY <2>2, <3>2
    <3>3. CASE k \notin DigestKeys
      BY <2>2, <3>1, <3>3
    <3> QED
      BY <3>2, <3>3
  <2> QED
    BY <2>1, <2>2
<1> QED
  BY <1>3 DEF Store

LEMMA DefaultsTyped == Defaults \in [Keys -> Nat \cup BOOLEAN]
<1>1. \A k \in Keys : Defaults[k] \in Nat \cup BOOLEAN
  BY DefaultsFit, FitsValue
<1>2. DOMAIN Defaults = Keys /\ Defaults = [k \in DOMAIN Defaults |-> Defaults[k]]
  BY SMT DEF Defaults, DefaultNumber
<1> QED
  BY <1>1, <1>2

LEMMA JobOffer ==
  ASSUME NEW th, th.job \in Jobs
  PROVE  /\ OfferOf(th) \in Offers /\ CommonKeys \subseteq DOMAIN OfferOf(th) /\ DOMAIN OfferOf(th) \subseteq Keys
         /\ \A k \in DOMAIN OfferOf(th) : Fits(k, OfferOf(th)[k])
<1>1. (th.job.kind = "discover") \in BOOLEAN
  OBVIOUS
<1> QED
  BY <1>1, OfferFits DEF OfferOf, Offers

LEMMA NothingIsSaid ==
  /\ NoKeys \in Saying /\ \A offer : <<>> \in Sayable(offer)
  /\ NoKeys.settings = <<>> /\ NoKeys.proof = None /\ NoKeys.auth = None
<1>1. \A offer : <<>> \in Sayable(offer)
  BY DEF Sayable
<1>2. <<>> \in UNION {Sayable(offer) : offer \in Offers \cup {<<>>}}
  BY <1>1
<1>3. NoKeys.settings = <<>> /\ NoKeys.proof = None /\ NoKeys.auth = None
  BY DEF NoKeys
<1>4. NoKeys \in Saying
  BY <1>2 DEF NoKeys, Saying
<1> QED
  BY <1>1, <1>3, <1>4

LEMMA IdleTyped == IdleThread \in Thread
BY NothingIsSaid, LoginConstants DEF IdleThread, Thread, Stages, Numbers

\* A thread that begins to ask.
LEMMA AskTyped ==
  ASSUME NEW th \in Thread, NEW at \in LoginSteps \cup {"text", "logout"}, NEW from \in Stages, NEW to \in Stages,
         NEW a, a = Ask(th, at, from, to)
  PROVE  /\ a \in Thread /\ a.at = at /\ a.pc = "header" /\ a.job = th.job /\ a.retries = 0 /\ a.rsp = NoKeys
         /\ a.outcome = th.outcome /\ ~a.retrying /\ a.statSN = th.statSN /\ a.tsih = th.tsih
         /\ a.status = th.status /\ ~a.transit /\ ~a.error /\ a.from = from /\ a.to = to
<1>1. 0 \in 0 .. MaxRetryCount
  BY LoginConstants
<1>2. a \in Thread
  BY <1>1, NothingIsSaid DEF Ask, Thread
<1>3. /\ a.at = at /\ a.pc = "header" /\ a.job = th.job /\ a.retries = 0 /\ a.rsp = NoKeys
      /\ a.outcome = th.outcome /\ ~a.retrying /\ a.statSN = th.statSN
  BY DEF Ask, Thread
<1>4. /\ a.tsih = th.tsih /\ a.status = th.status /\ ~a.transit /\ ~a.error
      /\ a.from = from /\ a.to = to
  BY DEF Ask, Thread
<1> QED
  BY <1>2, <1>3, <1>4

LEMMA AskOnTyped ==
  ASSUME NEW th \in Thread, NEW at \in LoginSteps \cup {"text", "logout"}, NEW from \in Stages, NEW to \in Stages,
         NEW a, a = AskOn(th, at, from, to)
  PROVE  /\ a \in Thread /\ a.at = at /\ a.pc = "header" /\ a.job = th.job /\ a.retries = 0 /\ a.rsp = th.rsp
         /\ a.outcome = th.outcome /\ ~a.retrying /\ a.statSN = th.statSN /\ a.tsih = th.tsih
         /\ a.status = th.status /\ ~a.transit /\ ~a.error /\ a.from = from /\ a.to = to
<1> DEFINE b == Ask(th, at, from, to)
<1>1. a = [b EXCEPT !.rsp = th.rsp]
  BY DEF AskOn
<1> HIDE DEF b
<1>2. /\ b \in Thread /\ b.at = at /\ b.pc = "header" /\ b.job = th.job /\ b.retries = 0
      /\ b.outcome = th.outcome /\ ~b.retrying /\ b.statSN = th.statSN /\ b.tsih = th.tsih
      /\ b.status = th.status /\ ~b.transit /\ ~b.error /\ b.from = from /\ b.to = to
  BY AskTyped DEF b
<1>3. a \in Thread
  BY <1>1, <1>2 DEF Thread
<1> QED
  BY <1>1, <1>2, <1>3 DEF Thread

LEMMA EndedTyped ==
  ASSUME NEW th \in Thread, NEW outcome \in {"failed", "loggedIn", "ended"}
  PROVE  /\ Ended(th, outcome) \in Thread /\ Ended(th, outcome).at = "idle" /\ Ended(th, outcome).pc = "idle"
         /\ Ended(th, outcome).job = th.job /\ Ended(th, outcome).outcome = outcome
         /\ Ended(th, outcome).rsp = NoKeys
         /\ Ended(th, outcome) = Ended(Ended(th, outcome), Ended(th, outcome).outcome)
<1>1. IdleThread.at = "idle" /\ IdleThread.pc = "idle" /\ IdleThread.rsp = NoKeys
  BY DEF IdleThread
<1> DEFINE e == Ended(th, outcome)
<1>2. e \in Thread
  BY IdleTyped DEF Ended, Thread
<1>3. e.at = "idle" /\ e.pc = "idle" /\ e.job = th.job /\ e.outcome = outcome /\ e.rsp = NoKeys
  BY <1>1, IdleTyped DEF Ended, Thread
<1>4. Ended(e, e.outcome) = e
  <2>1. e.job = th.job /\ e.outcome = outcome
    BY <1>3
  <2> HIDE DEF e
  <2>2. Ended(e, e.outcome) = Ended(th, outcome)
    BY <2>1 DEF Ended
  <2> QED
    BY <2>2 DEF e
<1> QED
  BY <1>2, <1>3, <1>4

\* What becomes of a query, of those that were made of it.
SameQuery(x, th) ==
    x.job = th.job /\ x.at = th.at /\ x.rsp = th.rsp /\ x.outcome = th.outcome
    /\ x.from = th.from /\ x.to = th.to /\ x.statSN = th.statSN /\ x.tsih = th.tsih /\ x.transit = th.transit

\* It is over, or it is asked again.
Goes(x, th) ==
    /\ x \in Thread /\ SameQuery(x, th)
    /\ x.pc \in {"return", "header"}
    /\ x.pc = "header" => x.retries < MaxRetryCount /\ x.retrying
    /\ th.retrying => x.retrying

\* It is over only when the target has moved on, or when it fails.
HasMoved(x) ==
    x.pc = "return" /\ x.at \in LoginSteps /\ x.from # x.to /\ Succeeded(x) => x.transit

LEMMA QueryReturns ==
  ASSUME NEW th \in Thread, th.retries < MaxRetryCount
  PROVE  /\ Goes(SingleQueryReturns(th), th)
         /\ SingleQueryReturns(th).error = th.error
         /\ SingleQueryReturns(th).status \in {th.status, "invalidRequest"}
         /\ SingleQueryReturns(th).transit = th.transit
         /\ HasMoved(SingleQueryReturns(th))
<1> DEFINE x == SingleQueryReturns(th)
           Good == /\ Goes(x, th) /\ x.error = th.error
                   /\ x.status \in {th.status, "invalidRequest"} /\ x.transit = th.transit
<1>1. th.retries \in Nat /\ MaxRetryCount \in Nat \ {0} /\ th.retries \in 0 .. MaxRetryCount
  BY LoginConstants DEF Thread
<1>2. ASSUME x = Returned(th) PROVE Good
  <2> HIDE DEF x
  <2>1. x = [th EXCEPT !.pc = "return"]
    BY <1>2 DEF Returned
  <2>2. x \in Thread
    BY <2>1 DEF Thread
  <2>3. SameQuery(x, th) /\ x.pc = "return"
    BY <2>1 DEF Thread, SameQuery, Goes
  <2>4. x.error = th.error /\ x.retrying = th.retrying /\ x.status = th.status /\ x.transit = th.transit
    BY <2>1 DEF Thread
  <2> QED
    BY <2>2, <2>3, <2>4 DEF Goes
<1>3. ASSUME x = [th EXCEPT !.retrying = TRUE, !.pc = "header"] PROVE Good
  <2> HIDE DEF x
  <2> QED
    BY <1>1, <1>3 DEF Thread, SameQuery, Goes
<1>4. ASSUME x = [Returned(th) EXCEPT !.retries = MaxRetryCount, !.status = "invalidRequest"] PROVE Good
  <2> HIDE DEF x
  <2>1. x = [th EXCEPT !.pc = "return", !.retries = MaxRetryCount, !.status = "invalidRequest"]
    BY <1>4 DEF Returned
  <2>2. x \in Thread
    <3>1. MaxRetryCount \in 0 .. MaxRetryCount
      BY <1>1
    <3> QED
      BY <2>1, <3>1 DEF Thread
  <2>3. SameQuery(x, th) /\ x.pc = "return"
    BY <2>1 DEF Thread, SameQuery, Goes
  <2>4. x.error = th.error /\ x.retrying = th.retrying /\ x.status = "invalidRequest" /\ x.transit = th.transit
    BY <2>1 DEF Thread
  <2> QED
    BY <2>2, <2>3, <2>4 DEF Goes
<1>5. ASSUME th.retrying, th.retries + 1 # MaxRetryCount, x = [th EXCEPT !.retries = @ + 1, !.pc = "header"]
      PROVE  Good
  <2> HIDE DEF x
  <2>1. th.retries + 1 \in 0 .. MaxRetryCount /\ th.retries + 1 < MaxRetryCount
    BY <1>1, <1>5
  <2> QED
    BY <1>5, <2>1 DEF Thread, SameQuery, Goes
<1> HIDE DEF Good
<1>10. Good
  <2>6. CASE th.at \notin LoginSteps
    <3>1. x = Returned(th)
      BY <2>6 DEF SingleQueryReturns
    <3> QED
      BY <1>2, <3>1
  <2>7. CASE th.at \in LoginSteps /\ (th.transit \/ th.from = th.to)
    <3>1. x = Returned(th)
      BY <2>7 DEF SingleQueryReturns
    <3> QED
      BY <1>2, <3>1
  <2>8. CASE th.at \in LoginSteps /\ ~(th.transit \/ th.from = th.to) /\ ~th.retrying
    <3>1. CASE th.error \/ th.status # "success"
      <4>1. x = Returned(th)
        BY <2>8, <3>1 DEF SingleQueryReturns
      <4> QED
        BY <1>2, <4>1
    <3>2. CASE ~(th.error \/ th.status # "success")
      <4>1. x = [th EXCEPT !.retrying = TRUE, !.pc = "header"]
        BY <2>8, <3>2 DEF SingleQueryReturns
      <4> QED
        BY <1>3, <4>1
    <3> QED
      BY <3>1, <3>2
  <2>9. CASE th.at \in LoginSteps /\ ~(th.transit \/ th.from = th.to) /\ th.retrying
    <3>1. CASE th.retries + 1 = MaxRetryCount
      <4>1. x = [Returned(th) EXCEPT !.retries = MaxRetryCount, !.status = "invalidRequest"]
        BY <2>9, <3>1 DEF SingleQueryReturns
      <4> QED
        BY <1>4, <4>1
    <3>2. CASE th.retries + 1 # MaxRetryCount
      <4>1. x = [th EXCEPT !.retries = @ + 1, !.pc = "header"]
        BY <2>9, <3>2 DEF SingleQueryReturns
      <4> QED
        BY <1>5, <2>9, <3>2, <4>1
    <3> QED
      BY <3>1, <3>2
  <2> QED
    BY <2>6, <2>7, <2>8, <2>9
<1>11. HasMoved(x)
  <2>1. CASE th.at \in LoginSteps /\ ~(th.transit \/ th.from = th.to) /\ ~th.retrying
             /\ ~(th.error \/ th.status # "success")
    <3>1. x = [th EXCEPT !.retrying = TRUE, !.pc = "header"]
      BY <2>1 DEF SingleQueryReturns
    <3> HIDE DEF x
    <3>2. x.pc = "header"
      BY <3>1 DEF Thread
    <3> QED
      BY <3>2 DEF HasMoved
  <2>2. CASE th.at \in LoginSteps /\ ~(th.transit \/ th.from = th.to) /\ th.retrying
    <3>1. CASE th.retries + 1 = MaxRetryCount
      <4>1. x = [Returned(th) EXCEPT !.retries = MaxRetryCount, !.status = "invalidRequest"]
        BY <2>2, <3>1 DEF SingleQueryReturns
      <4> HIDE DEF x
      <4>2. x = [th EXCEPT !.pc = "return", !.retries = MaxRetryCount, !.status = "invalidRequest"]
        BY <4>1 DEF Returned
      <4>3. x.status = "invalidRequest"
        BY <4>2 DEF Thread
      <4> QED
        BY <4>3 DEF HasMoved, Succeeded
    <3>2. CASE th.retries + 1 # MaxRetryCount
      <4>1. x = [th EXCEPT !.retries = @ + 1, !.pc = "header"]
        BY <2>2, <3>2 DEF SingleQueryReturns
      <4> HIDE DEF x
      <4>2. x.pc = "header"
        BY <4>1 DEF Thread
      <4> QED
        BY <4>2 DEF HasMoved
    <3> QED
      BY <3>1, <3>2
  <2>3. CASE th.at \notin LoginSteps \/ th.transit \/ th.from = th.to
    <3>1. x.at = th.at /\ x.from = th.from /\ x.to = th.to /\ x.transit = th.transit
      BY <1>10 DEF Good, Goes, SameQuery
    <3> HIDE DEF x
    <3> QED
      BY <2>3, <3>1 DEF HasMoved
  <2>4. CASE th.at \in LoginSteps /\ ~(th.transit \/ th.from = th.to) /\ ~th.retrying
             /\ (th.error \/ th.status # "success")
    <3>1. x = Returned(th)
      BY <2>4 DEF SingleQueryReturns
    <3> HIDE DEF x
    <3>2. x.error = th.error /\ x.status = th.status
      BY <3>1 DEF Returned, Thread
    <3> QED
      BY <2>4, <3>2 DEF HasMoved, Succeeded
  <2> QED
    BY <2>1, <2>2, <2>3, <2>4
<1> QED
  BY <1>10, <1>11 DEF Good

LEMMA QueryFails ==
  ASSUME NEW th \in Thread, th.retries < MaxRetryCount
  PROVE  Goes(Fails(th), th) /\ Fails(th).error /\ Fails(th).status \in {th.status, "invalidRequest"}
<1> DEFINE y == [th EXCEPT !.error = TRUE]
<1>1. /\ y \in Thread /\ y.retries < MaxRetryCount /\ SameQuery(y, th) /\ y.error = TRUE /\ y.retrying = th.retrying
      /\ y.status = th.status
  BY DEF Thread, SameQuery
<1> HIDE DEF y
<1>2. Fails(th) = SingleQueryReturns(y)
  BY DEF Fails, y
<1> QED
  BY <1>1, <1>2, QueryReturns DEF SameQuery, Goes

\* What a thread makes of a response.
Heard(x, th, pdu) ==
    /\ x \in Thread /\ x.job = th.job /\ x.at = th.at /\ x.outcome = th.outcome
    /\ x.from = th.from /\ x.to = th.to
    /\ x.pc \in {"return", "header", "receive"}
    /\ x.pc # "return" => x.retries < MaxRetryCount
    /\ x.pc = "header" => x.retrying
    /\ x.pc = "receive" => pdu.more
    /\ th.retrying => x.retrying /\ x.rsp = th.rsp
    /\ x.rsp \in {th.rsp, pdu.keys}
    /\ x.rsp # th.rsp => pdu.op # "reject" /\ pdu.status = "success"
    /\ pdu.op # "reject" /\ pdu.status = "success" =>
          x.statSN = pdu.statSN /\ x.transit = pdu.transit /\ (pdu.tsih /\ th.to = "full" => x.tsih)
    /\ th.tsih => x.tsih
    /\ HasMoved(x)
    /\ (pdu.op = "reject" \/ pdu.status # "success") =>
          (x.pc # "return" \/ ~Succeeded(x)) /\ x.transit = th.transit

LEMMA ResponseHeard ==
  ASSUME NEW th \in Thread, th.pc = "receive", th.retries < MaxRetryCount, NEW pdu \in Responses
  PROVE  Heard(LoginResponse(th, pdu), th, pdu)
<1> DEFINE x == LoginResponse(th, pdu)
<1>1. CASE pdu.op = "reject"
  <2>1. x = Fails(th)
    BY <1>1 DEF LoginResponse
  <2>2. Goes(x, th) /\ x.error
    BY <2>1, QueryFails
  <2>3. Heard(x, th, pdu)
    <3> HIDE DEF x
    <3> QED
      BY <1>1, <2>2 DEF Goes, SameQuery, Heard, HasMoved, Succeeded
  <2> QED
    BY <2>3
<1>2. CASE pdu.op # "reject" /\ pdu.status # "success"
  <2> DEFINE y == [th EXCEPT !.status = pdu.status]
  <2>1. y \in Thread /\ y.retries < MaxRetryCount /\ SameQuery(y, th) /\ y.retrying = th.retrying
        /\ y.status = pdu.status
    BY DEF Thread, SameQuery, Responses
  <2>2. x = SingleQueryReturns(y)
    BY <1>2 DEF LoginResponse
  <2> HIDE DEF y
  <2>3. Goes(x, y) /\ HasMoved(x) /\ x.status \in {y.status, "invalidRequest"}
    BY <2>1, <2>2, QueryReturns
  <2>4. x.status # "success"
    BY <1>2, <2>1, <2>3
  <2>5. Heard(x, th, pdu)
    <3> HIDE DEF x
    <3> QED
      BY <1>2, <2>1, <2>3, <2>4 DEF Goes, SameQuery, Heard, Succeeded
  <2> QED
    BY <2>5
<1>3. CASE pdu.op # "reject" /\ pdu.status = "success"
  <2> DEFINE y == [th EXCEPT
                !.status = "success", !.transit = pdu.transit, !.statSN = pdu.statSN,
                !.tsih = @ \/ (th.to = "full" /\ pdu.tsih),
                !.rsp = IF th.retrying \/ pdu.keys = NoKeys THEN @ ELSE pdu.keys]
  <2>1. /\ pdu.transit \in BOOLEAN /\ pdu.statSN \in Numbers /\ pdu.tsih \in BOOLEAN /\ pdu.keys \in Saying
        /\ th.rsp \in Saying /\ th.tsih \in BOOLEAN /\ th.retrying \in BOOLEAN
    BY DEF Thread, Responses
  <2>2. y \in Thread
    <3>1. (th.tsih \/ (th.to = "full" /\ pdu.tsih)) \in BOOLEAN
      BY <2>1
    <3>2. (IF th.retrying \/ pdu.keys = NoKeys THEN th.rsp ELSE pdu.keys) \in Saying
      BY <2>1
    <3>3. \A tsih \in BOOLEAN, rsp \in Saying :
             [th EXCEPT !.status = "success", !.transit = pdu.transit, !.statSN = pdu.statSN,
                        !.tsih = tsih, !.rsp = rsp] \in Thread
      BY <2>1 DEF Thread
    <3> HIDE DEF Thread
    <3> QED
      BY <3>1, <3>2, <3>3
  <2>3. /\ y.job = th.job /\ y.at = th.at /\ y.outcome = th.outcome /\ y.from = th.from /\ y.to = th.to
        /\ y.retries = th.retries /\ y.retrying = th.retrying /\ y.pc = th.pc /\ y.error = th.error
    BY DEF Thread
  <2>4. /\ y.statSN = pdu.statSN /\ y.transit = pdu.transit /\ y.status = "success"
        /\ y.tsih = (th.tsih \/ (th.to = "full" /\ pdu.tsih))
        /\ y.rsp = IF th.retrying \/ pdu.keys = NoKeys THEN th.rsp ELSE pdu.keys
    BY DEF Thread
  <2>5. x = IF pdu.more THEN y ELSE SingleQueryReturns(y)
    BY <1>3 DEF LoginResponse
  <2> HIDE DEF y
  <2>6. CASE pdu.more
    <3>1. x = y
      BY <2>5, <2>6
    <3>2. Heard(x, th, pdu)
      <4> HIDE DEF x
      <4> QED
        BY <1>3, <2>2, <2>3, <2>4, <2>6, <3>1 DEF Heard, HasMoved
    <3> QED
      BY <3>2
  <2>7. CASE ~pdu.more
    <3>1. x = SingleQueryReturns(y)
      BY <2>5, <2>7
    <3>2. Goes(x, y) /\ HasMoved(x) /\ x.transit = y.transit
      BY <2>2, <2>3, <3>1, QueryReturns
    <3>3. Heard(x, th, pdu)
      <4> HIDE DEF x
      <4> QED
        BY <1>3, <2>1, <2>3, <2>4, <3>2 DEF Heard, Goes, SameQuery
    <3> QED
      BY <3>3
  <2> QED
    BY <2>6, <2>7
<1> QED
  BY <1>1, <1>2, <1>3

LEMMA DataTyped ==
  ASSUME NEW th \in Thread, th.job \in Jobs
  PROVE  /\ Data(th) \in Contents
         /\ Data(th).offer \in {<<>>, OfferOf(th)}
         /\ Data(th).offer # <<>> => th.at = "negotiate" /\ ~th.retrying
         /\ Data(th).answer = (th.at = "chapAnswer" /\ ~th.retrying)
<1>1. OfferOf(th) \in Offers
  BY JobOffer
<1>2. MethodsOffered(th.job) \subseteq Methods
  BY DEF MethodsOffered, Methods
<1>3. /\ Data(th).methods \in SUBSET Methods
      /\ Data(th).answer = (th.at = "chapAnswer" /\ ~th.retrying)
      /\ Data(th).offer = IF th.at = "negotiate" /\ ~th.retrying THEN OfferOf(th) ELSE <<>>
  BY <1>2 DEF Data, OfferOf
<1>4. Data(th).challenge \in BOOLEAN /\ Data(th).answer \in BOOLEAN
  BY DEF Data
<1>5. Data(th).offer \in {<<>>} \cup Offers
  BY <1>1, <1>3
<1>6. Data(th) = [methods |-> Data(th).methods, answer |-> Data(th).answer,
                  challenge |-> Data(th).challenge, offer |-> Data(th).offer]
  BY DEF Data
<1>7. Data(th) \in Contents
  BY <1>3, <1>4, <1>5, <1>6 DEF Contents
<1> QED
  BY <1>3, <1>7

(***************************************************************************)
(* What a step does to a thread, its session, target and wire: from th, k, *)
(* g and w to x, l, h and v.                                               *)
(***************************************************************************)
SendsHeader(th, x) == th.pc = "header" /\ x = [th EXCEPT !.pc = "data", !.error = FALSE]

QueryEnds(th, x) ==
    th.pc \in {"data", "receive"} /\ Goes(x, th) /\ x.error /\ x.status \in {th.status, "invalidRequest"}

SendsData(th, k, w, x, v) ==
    /\ th.pc = "data" /\ k # None /\ ~w.lost /\ x = [th EXCEPT !.pc = "receive"]
    /\ \E r \in Requests : /\ r.header \in Buffer /\ r.data = Data(th)
                           /\ v = [w EXCEPT !.reqs = Append(w.reqs, r)]

Receives(th, k, w, x, l, v) ==
    /\ k # None /\ w.rsps # <<>> /\ v = [w EXCEPT !.rsps = Tail(w.rsps)]
    /\ l = [k EXCEPT !.expStatSN = IF Counts(Head(w.rsps)) THEN Next1(@) ELSE @]
    /\ \/ th.at \in LoginSteps /\ th.pc = "receive" /\ Heard(x, th, Head(w.rsps))
       \/ th.at \in {"text", "logout"} /\ th.pc = "receive" /\ x \in {th, Returned(th)}
       \/ k.active /\ x = th

FailsToStart(th, k, x) ==
    th.pc = "idle" /\ k = None /\ \E job \in Jobs : x = Ended([IdleThread EXCEPT !.job = job], "failed")

Begins(th, k, x, l, h, v) ==
    /\ th.pc = "idle" /\ k = None
    /\ \E job \in Jobs, at \in {"auth", "interrogate"}, to \in {"security", "operational"} :
          /\ at = "interrogate" <=> job.kind = "interrogate"
          /\ x = Ask([IdleThread EXCEPT !.job = job], at, "security", to)
    /\ l = NewSession /\ v = NoWire /\ \E sn \in InitialStatSNs : h = NewTarget(sn)

Releases(th, x, l, h, v) ==
    /\ th.pc = "return" /\ l = None /\ h = None /\ v = NoWire
    /\ \/ \E outcome \in {"failed", "ended"} : x = Ended(th, outcome)
       \/ x = Ask(th, "text", "full", "full")

AuthPasses(th, k, x, l) ==
    /\ th.at = "auth" /\ th.pc = "return" /\ Succeeded(th) /\ Acceptable(th)
    /\ l = [k EXCEPT !.expStatSN = Next1(th.statSN)]
    /\ \/ x = Ask(th, "chapStart", "security", "security")
       \/ x = Negotiates(th) /\ th.job.initiator = "None"
       \/ x = Ask(th, "blank", "security", "operational") /\ th.rsp.auth # "CHAP"

QueryPasses(th, x) ==
    /\ th.pc = "return" /\ th.status = "success"
    /\ \/ th.at = "blank" /\ x = Negotiates(th)
       \/ th.at = "chapStart" /\ x = AskOn(th, "chapAnswer", "security", "operational")
       \/ th.at = "chapAnswer" /\ Proven(th) /\ x = Negotiates(th)

LogsIn(th, k, x, l) ==
    LET settings == Store(k.settings, OfferOf(th), th.rsp.settings)
    IN  /\ th.at = "negotiate" /\ th.pc = "return" /\ Agreed(th)
        /\ \/ /\ th.job.kind = "discover" /\ x = Ask(th, "text", "full", "full")
              /\ l = [k EXCEPT !.settings = settings, !.tsih = th.tsih]
           \/ /\ th.job.kind # "discover" /\ x = Ended(th, Reported(settings, th.job))
              /\ l = [k EXCEPT !.settings = settings, !.tsih = th.tsih, !.active = TRUE]

Leaves(th, k, x, l) ==
    /\ th.pc = "idle" \/ (th.at = "text" /\ th.pc = "return")
    /\ k # None /\ l = [k EXCEPT !.active = FALSE] /\ x = Ask(th, "logout", "full", "full")

BeginsTask(k, w, l, v) ==
    /\ k # None /\ k.active /\ w = NoWire /\ l = [k EXCEPT !.cmdSN = Next1(@)]
    /\ \E r \in Requests : /\ r.header.op = "command" /\ r.data = NoData /\ r.cmdSN = k.cmdSN
                           /\ r.header.from = "full" /\ r.header.to = "full"
                           /\ v = [w EXCEPT !.reqs = Append(w.reqs, r)]

\* A response that goes on with what was asked.
Granted(pdu) == pdu.tagged /\ pdu.status = "success" /\ pdu.op # "reject"

\* What a target makes of a request, and says.
Made(g, r, new, pdus) ==
    /\ new \in Target /\ new.statSN = g.statSN /\ pdus \in Seq(Responses) /\ Len(pdus) \in {1, 2}
    /\ \A i \in 1 .. Len(pdus) : Granted(pdus[i]) \/ new.stage = "closed"
    /\ g.stage = "closed" => new.stage = "closed"
    /\ new.expCmdSN = IF r.header.op = "command" THEN Next1(g.expCmdSN) ELSE g.expCmdSN
    /\ r.header.op = "command" => r.cmdSN = g.expCmdSN
    /\ \/ new.proof = g.proof /\ \A i \in 1 .. Len(pdus) : pdus[i].keys.proof = None
       \/ r.data.answer /\ \A i \in 1 .. Len(pdus) : pdus[i].keys.proof \in {None, new.proof}
    /\ \/ new.settings = g.settings /\ \A i \in 1 .. Len(pdus) : pdus[i].keys.settings = <<>>
       \/ /\ r.data.offer # <<>> /\ g.stage = r.header.from
          /\ \E prefs \in Preferences :
                /\ new.settings = Answer(r.data.offer, prefs)
                /\ \A i \in 1 .. Len(pdus) :
                      pdus[i].keys.settings \in {<<>>, new.settings, Part(new.settings)}
    /\ \/ new.stage \in {g.stage, "closed"} /\ \A i \in 1 .. Len(pdus) : ~pdus[i].transit /\ ~pdus[i].tsih
       \/ /\ g.stage = r.header.from /\ r.header.from # r.header.to /\ new.stage = r.header.to
          /\ g.stage = "operational" => new.settings # <<>>
          /\ \A i \in 1 .. Len(pdus) : pdus[i].transit /\ r.header.to = "full" => pdus[i].tsih

TargetAnswers(k, g, w, h, v) ==
    /\ k # None /\ w.reqs # <<>>
    /\ \E new, pdus : /\ Made(g, Head(w.reqs), new, pdus)
                      /\ h = [new EXCEPT !.statSN = (@ + Len(pdus)) % Modulus]
                      /\ v = [w EXCEPT !.reqs = Tail(w.reqs), !.rsps = w.rsps \o Numbered(pdus, g.statSN)]

TargetAsks(k, g, w, v) ==
    /\ k # None /\ k.active /\ w.rsps = <<>>
    /\ \E r \in Responses : /\ ~r.tagged /\ r.keys = NoKeys /\ r.status = "success" /\ ~r.transit
                            /\ v = [w EXCEPT !.rsps = <<r>>]

IsLost(k, w, v) == k # None /\ v = [NoWire EXCEPT !.lost = TRUE]

Step(th, k, g, w, x, l, h, v) ==
    \/ SendsHeader(th, x) /\ l = k /\ h = g /\ v = w
    \/ QueryEnds(th, x) /\ l = k /\ h = g /\ v = w
    \/ SendsData(th, k, w, x, v) /\ l = k /\ h = g
    \/ Receives(th, k, w, x, l, v) /\ h = g
    \/ FailsToStart(th, k, x) /\ l = k /\ h = g /\ v = w
    \/ Begins(th, k, x, l, h, v)
    \/ Releases(th, x, l, h, v)
    \/ k # None /\ AuthPasses(th, k, x, l) /\ h = g /\ v = w
    \/ k # None /\ QueryPasses(th, x) /\ l = k /\ h = g /\ v = w
    \/ k # None /\ LogsIn(th, k, x, l) /\ h = g /\ v = w
    \/ Leaves(th, k, x, l) /\ h = g /\ v = w
    \/ BeginsTask(k, w, l, v) /\ x = th /\ h = g
    \/ TargetAnswers(k, g, w, h, v) /\ x = th /\ l = k
    \/ TargetAsks(k, g, w, v) /\ x = th /\ l = k /\ h = g
    \/ IsLost(k, w, v) /\ x = th /\ l = k /\ h = g

\* Only one thread moves, and it and what it has keep their types.
Steps(t) ==
    /\ Step(thread[t], kernel[t], target[t], wire[t], thread'[t], kernel'[t], target'[t], wire'[t])
    /\ \A u \in Threads \ {t} : /\ thread'[u] = thread[u] /\ kernel'[u] = kernel[u]
                                /\ target'[u] = target[u] /\ wire'[u] = wire[u]

LEMMA MoveKeeps ==
  ASSUME TypeInv, NEW t \in Threads, NEW x \in Thread, NEW l \in Session \cup {None},
         NEW h \in Target \cup {None}, NEW v \in Wire,
         thread' = [thread EXCEPT ![t] = x], kernel' = [kernel EXCEPT ![t] = l],
         target' = [target EXCEPT ![t] = h], wire' = [wire EXCEPT ![t] = v],
         bhsBuffer' \in Buffer, Rests(x, l, h, v),
         Step(thread[t], kernel[t], target[t], wire[t], x, l, h, v)
  PROVE  TypeInv' /\ Steps(t)
<1>1. thread'[t] = x /\ kernel'[t] = l /\ target'[t] = h /\ wire'[t] = v
  BY DEF TypeInv
<1>2. ASSUME NEW u \in Threads \ {t}
      PROVE  thread'[u] = thread[u] /\ kernel'[u] = kernel[u] /\ target'[u] = target[u] /\ wire'[u] = wire[u]
  BY DEF TypeInv
<1>3. /\ thread' \in [Threads -> Thread] /\ kernel' \in [Threads -> Session \cup {None}]
      /\ target' \in [Threads -> Target \cup {None}] /\ wire' \in [Threads -> Wire]
  BY DEF TypeInv
<1>4. ASSUME NEW u \in Threads PROVE Rests(thread[u], kernel[u], target[u], wire[u])'
  <2>1. CASE u = t
    <3>1. Rests(thread'[t], kernel'[t], target'[t], wire'[t])
      BY <1>1
    <3> QED
      BY <2>1, <3>1 DEF Rests, OfferOf
  <2>2. CASE u # t
    <3>1. Rests(thread[u], kernel[u], target[u], wire[u])
      BY DEF TypeInv
    <3> QED
      BY <1>2, <2>2, <3>1 DEF Rests, OfferOf
  <2> QED
    BY <2>1, <2>2
<1>5. TypeInv'
  BY <1>3, <1>4 DEF TypeInv
<1>6. Steps(t)
  BY <1>1, <1>2 DEF Steps
<1> QED
  BY <1>5, <1>6

LEMMA Same ==
  ASSUME TypeInv, NEW t \in Threads
  PROVE  /\ thread[t] \in Thread /\ kernel[t] \in Session \cup {None} /\ target[t] \in Target \cup {None}
         /\ wire[t] \in Wire /\ Rests(thread[t], kernel[t], target[t], wire[t])
         /\ thread = [thread EXCEPT ![t] = thread[t]] /\ kernel = [kernel EXCEPT ![t] = kernel[t]]
         /\ target = [target EXCEPT ![t] = target[t]] /\ wire = [wire EXCEPT ![t] = wire[t]]
BY DEF TypeInv

\* A thread that is busy, with what it had.
LEMMA RestsOn ==
  ASSUME NEW th, NEW k, NEW g, NEW w, Rests(th, k, g, w), th.job \in Jobs,
         NEW x, NEW l, x.job = th.job, x.pc # "idle", x.at # "idle", k # None <=> l # None,
         Asking(x) => x.retries < MaxRetryCount, x.at \in LoginSteps => l # None,
         x.rsp = th.rsp \/ x.rsp = NoKeys
  PROVE  Rests(x, l, g, w)
<1>1. OfferOf(x) = OfferOf(th)
  BY DEF OfferOf
<1>2. l # None => x.rsp.settings \in Sayable(OfferOf(th))
  BY NothingIsSaid DEF Rests
<1> QED
  BY <1>1, <1>2 DEF Rests

LEMMA Busy ==
  ASSUME NEW th, NEW k, NEW g, NEW w, Rests(th, k, g, w), th.pc # "idle"
  PROVE  th.at # "idle" /\ th.job \in Jobs
BY DEF Rests

LEMMA SendBHSSteps ==
  ASSUME TypeInv, NEW t \in Threads, SendBHS(t)
  PROVE  TypeInv' /\ Steps(t)
<1> DEFINE th == thread[t]
           x == [th EXCEPT !.pc = "data", !.error = FALSE]
<1>1. /\ th \in Thread /\ Rests(th, kernel[t], target[t], wire[t]) /\ th.pc = "header"
      /\ thread' = [thread EXCEPT ![t] = x]
  BY Same DEF SendBHS, Update
<1>2. x \in Thread /\ x.job = th.job /\ x.pc = "data" /\ x.at = th.at /\ x.retries = th.retries /\ x.rsp = th.rsp
  BY <1>1 DEF Thread
<1>3. bhsBuffer' \in Buffer
  <2>1. Op(th.at) \in {"login", "text", "logout"}
    BY <1>1, Busy DEF Op, Thread
  <2>2. bhsBuffer' = [owner |-> t, op |-> Op(th.at), from |-> th.from, to |-> th.to]
    BY DEF SendBHS
  <2> QED
    BY <1>1, <2>1, <2>2 DEF Buffer, Thread
<1> HIDE DEF th
<1>4. Rests(x, kernel[t], target[t], wire[t])
  <2>1. th.at # "idle" /\ th.job \in Jobs
    BY <1>1, Busy
  <2>2. th.retries < MaxRetryCount /\ (th.at \in LoginSteps => kernel[t] # None)
    BY <1>1 DEF Rests, Asking
  <2> HIDE DEF x
  <2> QED
    BY <1>1, <1>2, <2>1, <2>2, RestsOn
<1>5. Step(th, kernel[t], target[t], wire[t], x, kernel[t], target[t], wire[t])
  BY <1>1 DEF Step, SendsHeader
<1>6. /\ kernel' = [kernel EXCEPT ![t] = kernel[t]] /\ target' = [target EXCEPT ![t] = target[t]]
      /\ wire' = [wire EXCEPT ![t] = wire[t]]
  BY Same DEF SendBHS
<1> HIDE DEF x
<1> QED
  BY <1>1, <1>2, <1>3, <1>4, <1>5, <1>6, Same, MoveKeeps DEF th

LEMMA EndsSteps ==
  ASSUME TypeInv, NEW t \in Threads, thread[t].pc \in {"data", "receive"},
         thread' = [thread EXCEPT ![t] = Fails(thread[t])], UNCHANGED <<bhsBuffer, kernel, target, wire>>
  PROVE  TypeInv' /\ Steps(t)
<1> DEFINE th == thread[t]
           x == Fails(th)
<1>1. /\ th \in Thread /\ Rests(th, kernel[t], target[t], wire[t]) /\ th.pc \in {"data", "receive"}
      /\ thread' = [thread EXCEPT ![t] = x]
  BY Same
<1> HIDE DEF th
<1>2. th.at # "idle" /\ th.job \in Jobs /\ th.retries < MaxRetryCount /\ (th.at \in LoginSteps => kernel[t] # None)
  BY <1>1, Busy DEF Rests, Asking
<1>3. Goes(x, th) /\ x.error /\ x.status \in {th.status, "invalidRequest"}
  BY <1>1, <1>2, QueryFails
<1> HIDE DEF x
<1>4. x \in Thread /\ Rests(x, kernel[t], target[t], wire[t])
  BY <1>1, <1>2, <1>3, RestsOn DEF Goes, SameQuery, Asking
<1>5. Step(th, kernel[t], target[t], wire[t], x, kernel[t], target[t], wire[t])
  BY <1>1, <1>3 DEF Step, QueryEnds
<1>6. /\ kernel' = [kernel EXCEPT ![t] = kernel[t]] /\ target' = [target EXCEPT ![t] = target[t]]
      /\ wire' = [wire EXCEPT ![t] = wire[t]] /\ bhsBuffer' \in Buffer
  BY Same DEF TypeInv
<1>7. /\ kernel[t] \in Session \cup {None} /\ target[t] \in Target \cup {None} /\ wire[t] \in Wire
      /\ Step(thread[t], kernel[t], target[t], wire[t], x, kernel[t], target[t], wire[t])
  BY <1>5, Same DEF th
<1> QED
  BY <1>1, <1>4, <1>6, <1>7, MoveKeeps

LEMMA WireTyped ==
  /\ NoWire \in Wire /\ [NoWire EXCEPT !.lost = TRUE] \in Wire
  /\ NoWire.reqs = <<>> /\ NoWire.rsps = <<>>
  /\ [NoWire EXCEPT !.lost = TRUE].reqs = <<>> /\ [NoWire EXCEPT !.lost = TRUE].rsps = <<>>
<1>1. <<>> \in Seq(Requests) /\ <<>> \in Seq(Responses)
  OBVIOUS
<1> QED
  BY <1>1 DEF NoWire, Wire

\* A request more.
LEMMA AppendTyped ==
  ASSUME NEW w \in Wire, NEW r \in Requests
  PROVE  /\ [w EXCEPT !.reqs = Append(w.reqs, r)] \in Wire
         /\ [w EXCEPT !.reqs = Append(w.reqs, r)].reqs = Append(w.reqs, r)
         /\ [w EXCEPT !.reqs = Append(w.reqs, r)].rsps = w.rsps
         /\ [w EXCEPT !.reqs = Append(w.reqs, r)].lost = w.lost
         /\ Len(Append(w.reqs, r)) = Len(w.reqs) + 1 /\ Len(w.reqs) \in Nat
         /\ Append(w.reqs, r)[Len(w.reqs) + 1] = r
         /\ \A i \in 1 .. Len(w.reqs) : Append(w.reqs, r)[i] = w.reqs[i]
<1>1. w.reqs \in Seq(Requests)
  BY DEF Wire
<1>2. Append(w.reqs, r) \in Seq(Requests)
  BY <1>1
<1>3. /\ Len(Append(w.reqs, r)) = Len(w.reqs) + 1 /\ Len(w.reqs) \in Nat
      /\ Append(w.reqs, r)[Len(w.reqs) + 1] = r
      /\ \A i \in 1 .. Len(w.reqs) : Append(w.reqs, r)[i] = w.reqs[i]
  BY <1>1
<1>4. /\ [w EXCEPT !.reqs = Append(w.reqs, r)] \in Wire
      /\ [w EXCEPT !.reqs = Append(w.reqs, r)].reqs = Append(w.reqs, r)
      /\ [w EXCEPT !.reqs = Append(w.reqs, r)].rsps = w.rsps
      /\ [w EXCEPT !.reqs = Append(w.reqs, r)].lost = w.lost
  BY <1>2 DEF Wire
<1> QED
  BY <1>3, <1>4

\* A response less.
LEMMA TailTyped ==
  ASSUME NEW w \in Wire, w.rsps # <<>>
  PROVE  /\ [w EXCEPT !.rsps = Tail(w.rsps)] \in Wire
         /\ [w EXCEPT !.rsps = Tail(w.rsps)].reqs = w.reqs
         /\ [w EXCEPT !.rsps = Tail(w.rsps)].rsps = Tail(w.rsps)
         /\ [w EXCEPT !.rsps = Tail(w.rsps)].lost = w.lost
         /\ Head(w.rsps) = w.rsps[1] /\ 1 \in 1 .. Len(w.rsps) /\ Head(w.rsps) \in Responses
         /\ Len(w.rsps) \in Nat \ {0} /\ Len(Tail(w.rsps)) = Len(w.rsps) - 1
         /\ \A i \in 1 .. Len(Tail(w.rsps)) : i + 1 \in 1 .. Len(w.rsps) /\ Tail(w.rsps)[i] = w.rsps[i + 1]
<1>1. w.rsps \in Seq(Responses)
  BY DEF Wire
<1>2. Tail(w.rsps) \in Seq(Responses)
  BY <1>1
<1>3. Len(w.rsps) \in Nat /\ Len(w.rsps) # 0
  BY <1>1
<1>4. Len(Tail(w.rsps)) = Len(w.rsps) - 1
  BY <1>1
<1>5. \A i \in 1 .. Len(Tail(w.rsps)) : i + 1 \in 1 .. Len(w.rsps) /\ Tail(w.rsps)[i] = w.rsps[i + 1]
  BY <1>1, <1>3, <1>4
<1>6. Head(w.rsps) = w.rsps[1] /\ 1 \in 1 .. Len(w.rsps)
  BY <1>1, <1>3
<1>7. Head(w.rsps) \in Responses
  BY <1>1, <1>6
<1>8. /\ [w EXCEPT !.rsps = Tail(w.rsps)] \in Wire
      /\ [w EXCEPT !.rsps = Tail(w.rsps)].reqs = w.reqs
      /\ [w EXCEPT !.rsps = Tail(w.rsps)].rsps = Tail(w.rsps)
      /\ [w EXCEPT !.rsps = Tail(w.rsps)].lost = w.lost
  BY <1>2 DEF Wire
<1> QED
  BY <1>3, <1>4, <1>5, <1>6, <1>7, <1>8

LEMMA NextTyped == \A n \in Numbers : Next1(n) \in Numbers
<1>1. Modulus \in Nat \ {0}
  BY LoginConstants
<1>2. ASSUME NEW n \in Nat PROVE (n + 1) % Modulus \in 0 .. Modulus - 1
  BY <1>1
<1> QED
  BY <1>1, <1>2 DEF Numbers, Next1

LEMMA SendDataSteps ==
  ASSUME TypeInv, NEW t \in Threads, SendData(t)
  PROVE  TypeInv' /\ Steps(t)
<1>1. CASE thread' = [thread EXCEPT ![t] = Fails(thread[t])] /\ UNCHANGED <<kernel, wire>>
  BY <1>1, EndsSteps DEF SendData
<1>2. CASE /\ kernel[t] # None /\ ~wire[t].lost
           /\ SendPDU(t, bhsBuffer, Data(thread[t]), TRUE)
           /\ Update(t, [thread[t] EXCEPT !.pc = "receive"])
  <2> DEFINE th == thread[t]
             w == wire[t]
             x == [th EXCEPT !.pc = "receive"]
             r == [header |-> bhsBuffer, data |-> Data(th), immediate |-> TRUE,
                   cmdSN |-> kernel[t].cmdSN, expStatSN |-> kernel[t].expStatSN]
             v == [w EXCEPT !.reqs = Append(w.reqs, r)]
  <2>1. /\ th \in Thread /\ w \in Wire /\ kernel[t] \in Session /\ Rests(th, kernel[t], target[t], w)
        /\ th.pc = "data" /\ thread' = [thread EXCEPT ![t] = x] /\ target[t] \in Target \cup {None}
    BY <1>2, Same DEF SendData, Update
  <2>2. x \in Thread /\ x.job = th.job /\ x.pc = "receive" /\ x.at = th.at /\ x.retries = th.retries /\ x.rsp = th.rsp
    BY <2>1 DEF Thread
  <2>3. th.at # "idle" /\ th.job \in Jobs /\ th.retries < MaxRetryCount
    BY <2>1, Busy DEF Rests, Asking
  <2>4. Data(th) \in Contents /\ Data(th).offer \in {<<>>, OfferOf(th)}
    BY <2>1, <2>3, DataTyped
  <2>5. r \in Requests /\ bhsBuffer \in Buffer
    BY <2>1, <2>4 DEF TypeInv, Requests, Buffer, Header, Session, Numbers
  <2>6. r.header = bhsBuffer /\ r.data = Data(th)
    OBVIOUS
  <2>7. wire' = [wire EXCEPT ![t] = v]
    BY <1>2, <2>1 DEF SendPDU, TypeInv
  <2>8. kernel' = [kernel EXCEPT ![t] = kernel[t]]
    <3>1. kernel' = [kernel EXCEPT ![t] = [kernel[t] EXCEPT !.cmdSN = kernel[t].cmdSN]]
      BY <1>2 DEF SendPDU, UpdateKernel
    <3>2. [kernel[t] EXCEPT !.cmdSN = kernel[t].cmdSN] = kernel[t]
      BY <2>1 DEF Session
    <3> QED
      BY <3>1, <3>2
  <2>9. target' = [target EXCEPT ![t] = target[t]] /\ bhsBuffer' \in Buffer
    BY Same DEF SendData, TypeInv
  <2> HIDE DEF th, w, r
  <2>10. v \in Wire /\ v.rsps = w.rsps /\ Len(v.reqs) = Len(w.reqs) + 1 /\ Len(w.reqs) \in Nat
         /\ v.reqs[Len(w.reqs) + 1] = r /\ \A i \in 1 .. Len(w.reqs) : v.reqs[i] = w.reqs[i]
    BY <2>1, <2>5, AppendTyped
  <2>11. SendsData(th, kernel[t], w, x, v)
    BY <1>2, <2>1, <2>5, <2>6 DEF SendsData, w
  <2> HIDE DEF x, v
  <2>12. Rests(x, kernel[t], target[t], v)
    <3>1. Rests(x, kernel[t], target[t], w)
      BY <2>1, <2>2, <2>3, <1>2, RestsOn
    <3>2. OfferOf(x) = OfferOf(th)
      BY <2>2 DEF OfferOf
    <3>3. \A i \in 1 .. Len(v.reqs) : v.reqs[i].data.offer \in {<<>>, OfferOf(x)}
      <4>1. \A i \in 1 .. Len(v.reqs) : i \in 1 .. Len(w.reqs) \/ i = Len(w.reqs) + 1
        BY <2>10
      <4>2. \A i \in 1 .. Len(w.reqs) : w.reqs[i].data.offer \in {<<>>, OfferOf(x)}
        BY <1>2, <3>1 DEF Rests
      <4> QED
        BY <2>4, <2>6, <2>10, <3>2, <4>1, <4>2
    <3> QED
      BY <1>2, <2>10, <3>1, <3>3 DEF Rests
  <2>13. Step(thread[t], kernel[t], target[t], wire[t], x, kernel[t], target[t], v)
    BY <2>11 DEF Step, th, w
  <2> QED
    BY <2>1, <2>2, <2>7, <2>8, <2>9, <2>10, <2>12, <2>13, MoveKeeps
<1> QED
  BY <1>1, <1>2 DEF SendData, Update

LEMMA ReceiveSteps ==
  ASSUME TypeInv, NEW t \in Threads, RecvPDU(t), NEW x \in Thread,
         thread' = [thread EXCEPT ![t] = x], UNCHANGED <<bhsBuffer, target>>,
         x = thread[t] \/ (x.job = thread[t].job /\ x.at = thread[t].at /\ x.pc # "idle" /\ thread[t].pc # "idle"
                             /\ (Asking(x) => x.retries < MaxRetryCount)
                             /\ x.rsp \in {thread[t].rsp, Head(wire[t].rsps).keys}),
         \/ thread[t].at \in LoginSteps /\ thread[t].pc = "receive" /\ Heard(x, thread[t], Head(wire[t].rsps))
         \/ thread[t].at \in {"text", "logout"} /\ thread[t].pc = "receive" /\ x \in {thread[t], Returned(thread[t])}
         \/ kernel[t].active /\ x = thread[t]
  PROVE  TypeInv' /\ Steps(t)
<1> DEFINE th == thread[t]
           w == wire[t]
           k == kernel[t]
           l == [k EXCEPT !.expStatSN = IF Counts(Head(w.rsps)) THEN Next1(@) ELSE @]
           v == [w EXCEPT !.rsps = Tail(w.rsps)]
<1>1. /\ th \in Thread /\ w \in Wire /\ k \in Session \cup {None} /\ Rests(th, k, target[t], w)
      /\ target[t] \in Target \cup {None} /\ w.rsps # <<>>
  BY Same DEF RecvPDU
<1>2. kernel' = [kernel EXCEPT ![t] = l]
  BY DEF RecvPDU, UpdateKernel
<1>3. wire' = [wire EXCEPT ![t] = v]
  BY <1>1 DEF RecvPDU, TypeInv
<1>4. target' = [target EXCEPT ![t] = target[t]] /\ bhsBuffer' \in Buffer
  BY Same DEF TypeInv
<1>5. k # None /\ k \in Session
  BY <1>1, WireTyped DEF Rests
<1>6. l \in Session
  <2>1. k.expStatSN \in Numbers /\ Next1(k.expStatSN) \in Numbers
    BY <1>5, NextTyped DEF Session, Numbers
  <2> QED
    BY <1>5, <2>1 DEF Session, Numbers
<1>7. l # None
  BY <1>6, NoneIsNoRecord
<1>8. /\ \/ th.at \in LoginSteps /\ th.pc = "receive" /\ Heard(x, th, Head(w.rsps))
         \/ th.at \in {"text", "logout"} /\ th.pc = "receive" /\ x \in {th, Returned(th)}
         \/ k.active /\ x = th
      /\ x = th \/ (x.job = th.job /\ x.at = th.at /\ x.pc # "idle" /\ th.pc # "idle"
                             /\ (Asking(x) => x.retries < MaxRetryCount)
                             /\ x.rsp \in {th.rsp, Head(w.rsps).keys})
  OBVIOUS
<1> HIDE DEF th, w, k
<1>9. Receives(th, k, w, x, l, v)
  BY <1>1, <1>5, <1>8 DEF Receives
<1>10. /\ v \in Wire /\ v.reqs = w.reqs /\ v.rsps = Tail(w.rsps) /\ Head(w.rsps) = w.rsps[1] /\ 1 \in 1 .. Len(w.rsps)
       /\ \A i \in 1 .. Len(Tail(w.rsps)) : i + 1 \in 1 .. Len(w.rsps) /\ Tail(w.rsps)[i] = w.rsps[i + 1]
  BY <1>1, TailTyped
<1> HIDE DEF l, v
<1>11. Rests(x, l, target[t], v)
  <2>1. /\ OfferOf(x) = OfferOf(th) /\ x.job = th.job /\ x.at = th.at /\ (x.pc = "idle" <=> th.pc = "idle")
        /\ (Asking(x) => x.retries < MaxRetryCount) /\ (x.pc = "idle" => x = th)
        /\ x.rsp \in {th.rsp, Head(w.rsps).keys}
    BY <1>1, <1>8 DEF OfferOf, Rests
  <2>2. Head(w.rsps).keys.settings \in Sayable(OfferOf(th)) /\ th.rsp.settings \in Sayable(OfferOf(th))
    BY <1>1, <1>5, <1>10 DEF Rests
  <2>3. x.rsp.settings \in Sayable(OfferOf(x))
    BY <2>1, <2>2
  <2>4. \A i \in 1 .. Len(v.rsps) : v.rsps[i].keys.settings \in Sayable(OfferOf(x))
    BY <1>1, <1>5, <1>10, <2>1 DEF Rests
  <2> QED
    BY <1>1, <1>5, <1>7, <1>10, <2>1, <2>3, <2>4 DEF Rests
<1>12. /\ Step(thread[t], kernel[t], target[t], wire[t], x, l, target[t], v)
  BY <1>9 DEF Step, th, w, k
<1> QED
  BY <1>1, <1>2, <1>3, <1>4, <1>6, <1>10, <1>11, <1>12, MoveKeeps

LEMMA ReceivingSteps ==
  ASSUME TypeInv, NEW t \in Threads,
         ReceiveLoginResponse(t) \/ ReceiveTextResponse(t) \/ ReceiveLogoutResponse(t) \/ ProcessPDU(t)
  PROVE  TypeInv' /\ Steps(t)
<1> DEFINE th == thread[t]
           pdu == Head(wire[t].rsps)
<1>1. th \in Thread /\ wire[t] \in Wire /\ Rests(th, kernel[t], target[t], wire[t])
  BY Same
<1>2. CASE ReceiveLoginResponse(t)
  <2> DEFINE x == LoginResponse(th, pdu)
  <2>1. /\ RecvPDU(t) /\ th.pc = "receive" /\ th.at \in LoginSteps /\ wire[t].rsps # <<>>
        /\ thread' = [thread EXCEPT ![t] = x] /\ UNCHANGED <<bhsBuffer, target>>
    BY <1>2 DEF ReceiveLoginResponse, RecvPDU, Update
  <2>2. th.retries < MaxRetryCount /\ pdu \in Responses
    BY <1>1, <2>1, TailTyped DEF Rests, Asking
  <2>3. Heard(x, th, pdu)
    BY <1>1, <2>1, <2>2, ResponseHeard
  <2> HIDE DEF x
  <2>4. x \in Thread /\ x.job = th.job /\ x.at = th.at /\ x.pc # "idle" /\ x.rsp \in {th.rsp, pdu.keys}
        /\ (Asking(x) => x.retries < MaxRetryCount)
    BY <2>3 DEF Heard, Asking
  <2> QED
    BY <2>1, <2>3, <2>4, ReceiveSteps
<1>3. CASE ReceiveTextResponse(t) \/ ReceiveLogoutResponse(t)
  <2>1. /\ RecvPDU(t) /\ th.pc = "receive" /\ th.at \in {"text", "logout"}
        /\ \E x \in {th, Returned(th)} : thread' = [thread EXCEPT ![t] = x]
        /\ UNCHANGED <<bhsBuffer, target>>
    BY <1>3 DEF ReceiveTextResponse, ReceiveLogoutResponse, Update, At
  <2>2. PICK x \in {th, Returned(th)} : thread' = [thread EXCEPT ![t] = x]
    BY <2>1
  <2>3. Returned(th) \in Thread /\ Returned(th).job = th.job /\ Returned(th).at = th.at /\ Returned(th).pc = "return"
        /\ Returned(th).rsp = th.rsp
    BY <1>1 DEF Returned, Thread
  <2> QED
    BY <1>1, <2>1, <2>2, <2>3, ReceiveSteps DEF Asking
<1>4. CASE ProcessPDU(t)
  <2>1. RecvPDU(t) /\ thread' = [thread EXCEPT ![t] = th] /\ kernel[t].active /\ UNCHANGED <<bhsBuffer, target>>
    BY <1>4, Same DEF ProcessPDU
  <2> QED
    BY <1>1, <2>1, ReceiveSteps
<1> QED
  BY <1>2, <1>3, <1>4

LEMMA NewTyped ==
  /\ NewSession \in Session /\ NewSession.settings = Defaults /\ ~NewSession.active
  /\ \A sn \in InitialStatSNs : NewTarget(sn) \in Target
<1>1. 0 \in 0 .. Modulus - 1 /\ InitialStatSNs \subseteq 0 .. Modulus - 1
  BY LoginConstants
<1>2. <<>> \in Agreements
  BY DEF Agreements
<1> QED
  BY <1>1, <1>2, DefaultsTyped DEF NewSession, Session, NewTarget, Target, Stages

LEMMA JobThread ==
  ASSUME NEW job \in Jobs
  PROVE  [IdleThread EXCEPT !.job = job] \in Thread /\ [IdleThread EXCEPT !.job = job].job = job
BY IdleTyped DEF Thread

LEMMA StartSteps ==
  ASSUME TypeInv, NEW t \in Threads, NEW job \in Jobs, Start(t, job)
  PROVE  TypeInv' /\ Steps(t)
<1> DEFINE th == [IdleThread EXCEPT !.job = job]
<1>1. /\ thread[t] \in Thread /\ Rests(thread[t], kernel[t], target[t], wire[t])
      /\ thread[t].pc = "idle" /\ kernel[t] = None /\ target[t] = None /\ wire[t] = NoWire /\ bhsBuffer' \in Buffer
  BY Same DEF Start, Rests, TypeInv
<1>2. th \in Thread /\ th.job = job
  BY JobThread
<1>3. CASE Update(t, [th EXCEPT !.outcome = "failed"]) /\ UNCHANGED <<kernel, target, wire>>
  <2> DEFINE x == Ended(th, "failed")
  <2>1. [th EXCEPT !.outcome = "failed"] = x
    BY IdleTyped DEF Ended, Thread
  <2>2. thread' = [thread EXCEPT ![t] = x]
    BY <1>3, <2>1 DEF Update
  <2>3. FailsToStart(thread[t], kernel[t], x)
    BY <1>1 DEF FailsToStart
  <2> HIDE DEF th
  <2>4. /\ x \in Thread /\ x.at = "idle" /\ x.pc = "idle" /\ x = Ended(x, x.outcome)
    BY <1>2, EndedTyped
  <2> HIDE DEF x
  <2>5. Rests(x, kernel[t], target[t], wire[t])
    BY <1>1, <2>4 DEF Rests, Asking, LoginSteps
  <2>6. /\ kernel' = [kernel EXCEPT ![t] = kernel[t]] /\ target' = [target EXCEPT ![t] = target[t]]
        /\ wire' = [wire EXCEPT ![t] = wire[t]]
        /\ kernel[t] \in Session \cup {None} /\ target[t] \in Target \cup {None} /\ wire[t] \in Wire
    BY <1>3, Same
  <2>7. Step(thread[t], kernel[t], target[t], wire[t], x, kernel[t], target[t], wire[t])
    BY <2>3 DEF Step
  <2> QED
    BY <1>1, <2>2, <2>4, <2>5, <2>6, <2>7, MoveKeeps
<1>4. ASSUME NEW sn \in InitialStatSNs, NEW at \in {"auth", "interrogate"}, NEW to \in {"security", "operational"},
             at = "interrogate" <=> job.kind = "interrogate",
             Begin(t, Ask(th, at, "security", to), sn)
      PROVE  TypeInv' /\ Steps(t)
  <2> DEFINE x == Ask(th, at, "security", to)
  <2>1. /\ thread' = [thread EXCEPT ![t] = x] /\ kernel' = [kernel EXCEPT ![t] = NewSession]
        /\ target' = [target EXCEPT ![t] = NewTarget(sn)] /\ wire' = [wire EXCEPT ![t] = NoWire]
    BY <1>4 DEF Begin, Update, UpdateKernel
  <2>2. Begins(thread[t], kernel[t], x, NewSession, NewTarget(sn), NoWire)
    BY <1>1, <1>4 DEF Begins
  <2>3. Step(thread[t], kernel[t], target[t], wire[t], x, NewSession, NewTarget(sn), NoWire)
    BY <2>2 DEF Step
  <2>4. "security" \in Stages /\ to \in Stages /\ at \in LoginSteps \cup {"text", "logout"}
    BY DEF Stages, LoginSteps
  <2> HIDE DEF th
  <2>5. x \in Thread /\ x.at = at /\ x.pc = "header" /\ x.job = job /\ x.retries = 0 /\ x.rsp = NoKeys
    BY <1>2, <2>4, AskTyped
  <2> HIDE DEF x
  <2>6. NewSession \in Session /\ NewTarget(sn) \in Target /\ NoWire \in Wire /\ NewSession # None /\ NewTarget(sn) # None
    BY NewTyped, WireTyped, NoneIsNoRecord
  <2>7. Rests(x, NewSession, NewTarget(sn), NoWire)
    <3>1. Len(NoWire.reqs) = 0 /\ Len(NoWire.rsps) = 0
      BY WireTyped
    <3>2. 0 < MaxRetryCount
      BY LoginConstants
    <3> QED
      BY <2>5, <2>6, <3>1, <3>2, NothingIsSaid DEF Rests
  <2> QED
    BY <1>1, <2>1, <2>3, <2>5, <2>6, <2>7, MoveKeeps
<1>5. CASE \E sn \in InitialStatSNs :
              Begin(t, Ask(th, IF job.kind = "interrogate" THEN "interrogate" ELSE "auth", "security",
                           IF (IF job.kind = "interrogate" THEN "interrogate" ELSE "auth") = "auth"
                                /\ job.initiator = "None" THEN "operational" ELSE "security"), sn)
  <2> HIDE DEF th
  <2> QED
    BY <1>4, <1>5
<1> QED
  BY <1>3, <1>5 DEF Start

\* Whatever ends without a session.
LEMMA ReleaseSteps ==
  ASSUME TypeInv, NEW t \in Threads, NEW x, thread[t].pc = "return",
         thread' = [thread EXCEPT ![t] = x], Release(t), bhsBuffer' = bhsBuffer,
         (\E outcome \in {"failed", "ended"} : x = Ended(thread[t], outcome)) \/ x = Ask(thread[t], "text", "full", "full")
  PROVE  TypeInv' /\ Steps(t)
<1> DEFINE th == thread[t]
<1>1. th \in Thread /\ Rests(th, kernel[t], target[t], wire[t]) /\ bhsBuffer' \in Buffer /\ th.pc = "return"
  BY Same DEF TypeInv
<1>2. /\ kernel' = [kernel EXCEPT ![t] = None] /\ target' = [target EXCEPT ![t] = None]
      /\ wire' = [wire EXCEPT ![t] = NoWire]
  BY DEF Release, UpdateKernel
<1>3. Releases(th, x, None, None, NoWire)
  BY <1>1 DEF Releases
<1>4. Step(th, kernel[t], target[t], wire[t], x, None, None, NoWire)
  BY <1>3 DEF Step
<1>5. x \in Thread /\ Rests(x, None, None, NoWire)
  <2>1. CASE \E outcome \in {"failed", "ended"} : x = Ended(th, outcome)
    <3>1. PICK outcome \in {"failed", "ended"} : x = Ended(th, outcome)
      BY <2>1
    <3> HIDE DEF th
    <3>2. x \in Thread /\ x.at = "idle" /\ x.pc = "idle" /\ x = Ended(x, x.outcome)
      BY <1>1, <3>1, EndedTyped
    <3> QED
      BY <3>2 DEF Rests, Asking, LoginSteps
  <2>2. CASE x = Ask(th, "text", "full", "full")
    <3>1. th.job \in Jobs
      BY <1>1, Busy
    <3> HIDE DEF th
    <3>2. x \in Thread /\ x.at = "text" /\ x.pc = "header" /\ x.job = th.job /\ x.retries = 0
      BY <1>1, <2>2, AskTyped DEF Stages
    <3>3. 0 < MaxRetryCount
      BY LoginConstants
    <3> QED
      BY <3>1, <3>2, <3>3 DEF Rests, LoginSteps
  <2> QED
    BY <2>1, <2>2
<1> QED
  BY <1>1, <1>2, <1>4, <1>5, WireTyped, MoveKeeps

LEMMA LoginFailsSteps ==
  ASSUME TypeInv, NEW t \in Threads, NEW error, thread[t].pc = "return", LoginFails(t, error), bhsBuffer' = bhsBuffer
  PROVE  TypeInv' /\ Steps(t)
<1>1. CASE thread[t].job.kind = "discover" /\ ~error
  BY <1>1, ReleaseSteps DEF LoginFails, Update
<1>2. CASE ~(thread[t].job.kind = "discover" /\ ~error)
  <2>1. thread' = [thread EXCEPT ![t] = Ended(thread[t], "failed")]
    BY <1>2 DEF LoginFails, Update
  <2> QED
    BY <2>1, ReleaseSteps DEF LoginFails
<1> QED
  BY <1>1, <1>2

\* A thread with a session asks the next thing.
LEMMA PassSteps ==
  ASSUME TypeInv, NEW t \in Threads, kernel[t] # None, NEW l \in Session, NEW x \in Thread,
         x.job = thread[t].job, x.pc = "header", x.at # "idle", x.retries = 0, x.rsp \in {thread[t].rsp, NoKeys},
         thread' = [thread EXCEPT ![t] = x], kernel' = [kernel EXCEPT ![t] = l], UNCHANGED <<bhsBuffer, target, wire>>,
         Step(thread[t], kernel[t], target[t], wire[t], x, l, target[t], wire[t])
  PROVE  TypeInv' /\ Steps(t)
<1>1. /\ thread[t].job \in Jobs /\ Rests(thread[t], kernel[t], target[t], wire[t]) /\ l # None
      /\ target[t] \in Target \cup {None} /\ wire[t] \in Wire
  BY Same, NoneIsNoRecord DEF Rests
<1>2. 0 < MaxRetryCount
  BY LoginConstants
<1>3. Rests(x, l, target[t], wire[t])
  BY <1>1, <1>2, RestsOn
<1>4. /\ target' = [target EXCEPT ![t] = target[t]] /\ wire' = [wire EXCEPT ![t] = wire[t]] /\ bhsBuffer' \in Buffer
  BY Same DEF TypeInv
<1> QED
  BY <1>1, <1>3, <1>4, MoveKeeps

LEMMA AuthReturnsSteps ==
  ASSUME TypeInv, NEW t \in Threads, AuthReturns(t)
  PROVE  TypeInv' /\ Steps(t)
<1> DEFINE th == thread[t]
           l == [kernel[t] EXCEPT !.expStatSN = Next1(th.statSN)]
<1>1. th \in Thread /\ Rests(th, kernel[t], target[t], wire[t]) /\ th.at = "auth" /\ th.pc = "return" /\ bhsBuffer' = bhsBuffer
  BY Same DEF AuthReturns, At
<1>2. CASE ~Succeeded(th) /\ LoginFails(t, th.error)
  BY <1>1, <1>2, LoginFailsSteps
<1>3. CASE Succeeded(th) /\ ~Acceptable(th) /\ LoginFails(t, TRUE)
  BY <1>1, <1>3, LoginFailsSteps
<1>4. CASE /\ Succeeded(th) /\ Acceptable(th) /\ UpdateKernel(t, l)
           /\ Update(t, CASE th.rsp.auth = "CHAP" -> Ask(th, "chapStart", "security", "security")
                           [] th.job.initiator = "None" -> Negotiates(th)
                           [] OTHER -> Ask(th, "blank", "security", "operational"))
           /\ UNCHANGED <<target, wire>>
  <2>1. kernel[t] \in Session /\ kernel[t] # None
    BY <1>1, Same DEF Rests, LoginSteps
  <2>2. l \in Session
    <3>1. Next1(th.statSN) \in 0 .. Modulus - 1
      BY <1>1, NextTyped DEF Thread, Numbers
    <3> QED
      BY <2>1, <3>1 DEF Session
  <2> DEFINE x == CASE th.rsp.auth = "CHAP" -> Ask(th, "chapStart", "security", "security")
                    [] th.job.initiator = "None" -> Negotiates(th)
                    [] OTHER -> Ask(th, "blank", "security", "operational")
  <2>8. thread' = [thread EXCEPT ![t] = x]
    BY <1>4 DEF Update
  <2>3. \/ x = Ask(th, "chapStart", "security", "security")
        \/ x = Negotiates(th) /\ th.job.initiator = "None"
        \/ x = Ask(th, "blank", "security", "operational") /\ th.rsp.auth # "CHAP"
    <3> HIDE DEF th
    <3> QED
      BY SMT
  <2> HIDE DEF x
  <2>4. AuthPasses(th, kernel[t], x, l)
    BY <1>1, <1>4, <2>3 DEF AuthPasses
  <2>5. Step(th, kernel[t], target[t], wire[t], x, l, target[t], wire[t])
    BY <2>1, <2>4 DEF Step
  <2>6. x \in Thread /\ x.at # "idle" /\ x.pc = "header" /\ x.job = th.job /\ x.retries = 0 /\ x.rsp = NoKeys
    <3> HIDE DEF th
    <3>1. CASE x = Ask(th, "chapStart", "security", "security")
      BY <1>1, <3>1, AskTyped DEF Stages, LoginSteps
    <3>2. CASE x = Negotiates(th)
      BY <1>1, <3>2, AskTyped DEF Stages, LoginSteps, Negotiates
    <3>3. CASE x = Ask(th, "blank", "security", "operational")
      BY <1>1, <3>3, AskTyped DEF Stages, LoginSteps
    <3> QED
      BY <2>3, <3>1, <3>2, <3>3
  <2>7. kernel' = [kernel EXCEPT ![t] = l]
    BY <1>4 DEF UpdateKernel
  <2> HIDE DEF l
  <2> QED
    BY <1>1, <1>4, <2>1, <2>2, <2>5, <2>6, <2>7, <2>8, PassSteps
<1> QED
  BY <1>2, <1>3, <1>4 DEF AuthReturns

LEMMA QueryPassesSteps ==
  ASSUME TypeInv, NEW t \in Threads, NEW x, thread[t].at \in LoginSteps, QueryPasses(thread[t], x),
         Update(t, x), UNCHANGED <<bhsBuffer, kernel, target, wire>>
  PROVE  TypeInv' /\ Steps(t)
<1> DEFINE th == thread[t]
<1>1. th \in Thread /\ kernel[t] \in Session /\ kernel[t] # None
  BY Same DEF Rests
<1>2. Step(th, kernel[t], target[t], wire[t], x, kernel[t], target[t], wire[t])
  BY <1>1 DEF Step
<1>3. x \in Thread /\ x.at # "idle" /\ x.pc = "header" /\ x.job = th.job /\ x.retries = 0 /\ x.rsp \in {th.rsp, NoKeys}
  <2> HIDE DEF th
  <2>1. CASE x = Negotiates(th)
    BY <1>1, <2>1, AskTyped DEF Stages, LoginSteps, Negotiates
  <2>2. CASE x = AskOn(th, "chapAnswer", "security", "operational")
    BY <1>1, <2>2, AskOnTyped DEF Stages, LoginSteps
  <2> QED
    BY <2>1, <2>2 DEF QueryPasses, th
<1>4. thread' = [thread EXCEPT ![t] = x] /\ kernel' = [kernel EXCEPT ![t] = kernel[t]]
  BY Same DEF Update
<1> QED
  BY <1>1, <1>2, <1>3, <1>4, PassSteps

LEMMA BlankReturnsSteps ==
  ASSUME TypeInv, NEW t \in Threads, BlankReturns(t)
  PROVE  TypeInv' /\ Steps(t)
<1>1. thread[t].at = "blank" /\ thread[t].pc = "return" /\ bhsBuffer' = bhsBuffer /\ "blank" \in LoginSteps
  BY DEF BlankReturns, At, LoginSteps
<1>2. CASE thread[t].status # "success" /\ LoginFails(t, FALSE)
  BY <1>1, <1>2, LoginFailsSteps
<1>3. CASE thread[t].status = "success" /\ Update(t, Negotiates(thread[t])) /\ UNCHANGED <<kernel, target, wire>>
  <2>1. QueryPasses(thread[t], Negotiates(thread[t]))
    BY <1>1, <1>3 DEF QueryPasses
  <2> QED
    BY <1>1, <1>3, <2>1, QueryPassesSteps
<1> QED
  BY <1>2, <1>3 DEF BlankReturns

LEMMA ChapStartReturnsSteps ==
  ASSUME TypeInv, NEW t \in Threads, ChapStartReturns(t)
  PROVE  TypeInv' /\ Steps(t)
<1> DEFINE x == AskOn(thread[t], "chapAnswer", "security", "operational")
<1>1. thread[t].at = "chapStart" /\ thread[t].pc = "return" /\ bhsBuffer' = bhsBuffer /\ "chapStart" \in LoginSteps
  BY DEF ChapStartReturns, At, LoginSteps
<1>2. CASE ~Succeeded(thread[t]) /\ LoginFails(t, thread[t].error)
  BY <1>1, <1>2, LoginFailsSteps
<1>3. CASE Succeeded(thread[t]) /\ Update(t, x) /\ UNCHANGED <<kernel, target, wire>>
  <2>1. QueryPasses(thread[t], x)
    BY <1>1, <1>3 DEF QueryPasses, Succeeded
  <2> QED
    BY <1>1, <1>3, <2>1, QueryPassesSteps
<1> QED
  BY <1>2, <1>3 DEF ChapStartReturns

LEMMA ChapAnswerReturnsSteps ==
  ASSUME TypeInv, NEW t \in Threads, ChapAnswerReturns(t)
  PROVE  TypeInv' /\ Steps(t)
<1> DEFINE th == thread[t]
<1>1. th.at = "chapAnswer" /\ th.pc = "return" /\ bhsBuffer' = bhsBuffer /\ "chapAnswer" \in LoginSteps
  BY DEF ChapAnswerReturns, At, LoginSteps
<1>2. CASE ~(Succeeded(th) /\ Proven(th)) /\ LoginFails(t, TRUE)
  BY <1>1, <1>2, LoginFailsSteps
<1>3. CASE Succeeded(th) /\ Proven(th) /\ Update(t, Negotiates(th)) /\ UNCHANGED <<kernel, target, wire>>
  <2>1. QueryPasses(th, Negotiates(th))
    BY <1>1, <1>3 DEF QueryPasses, Succeeded
  <2> QED
    BY <1>1, <1>3, <2>1, QueryPassesSteps
<1> QED
  BY <1>2, <1>3 DEF ChapAnswerReturns

LEMMA NegotiateReturnsSteps ==
  ASSUME TypeInv, NEW t \in Threads, NegotiateReturns(t)
  PROVE  TypeInv' /\ Steps(t)
<1> DEFINE th == thread[t]
           settings == Store(kernel[t].settings, OfferOf(th), th.rsp.settings)
           session == [kernel[t] EXCEPT !.settings = settings, !.tsih = th.tsih]
           active == [kernel[t] EXCEPT !.settings = settings, !.tsih = th.tsih, !.active = TRUE]
<1>1. /\ th \in Thread /\ Rests(th, kernel[t], target[t], wire[t]) /\ th.at = "negotiate" /\ th.pc = "return"
      /\ bhsBuffer' = bhsBuffer /\ th.job \in Jobs
      /\ kernel[t] \in Session /\ kernel[t] # None /\ target[t] # None /\ target[t] \in Target \cup {None} /\ wire[t] \in Wire
  BY Same, Busy DEF NegotiateReturns, At, Rests, LoginSteps
<1>2. CASE ~Agreed(th) /\ LoginFails(t, th.error \/ th.status = "success")
  BY <1>1, <1>2, LoginFailsSteps
<1>3. settings \in [Keys -> Nat \cup BOOLEAN]
  <2>1. /\ DOMAIN OfferOf(th) \subseteq Keys /\ \A k \in DOMAIN OfferOf(th) : Fits(k, OfferOf(th)[k])
    BY <1>1, JobOffer
  <2>2. th.rsp.settings \in Sayable(OfferOf(th)) /\ kernel[t].settings \in [Keys -> Nat \cup BOOLEAN]
    BY <1>1 DEF Rests, Session
  <2> HIDE DEF th
  <2> QED
    BY <2>1, <2>2, StoreTyped
<1>4. session \in Session /\ active \in Session
  <2> HIDE DEF settings
  <2>1. th.tsih \in BOOLEAN
    BY <1>1 DEF Thread
  <2> QED
    BY <1>1, <1>3, <2>1 DEF Session
<1>5. active = [session EXCEPT !.active = TRUE]
  BY <1>1 DEF Session
<1>6. CASE Agreed(th) /\ LoggedIn(t) /\ UNCHANGED <<target, wire>> /\ th.job.kind = "discover"
  <2> DEFINE x == Ask(th, "text", "full", "full")
  <2>1. Update(t, x) /\ UpdateKernel(t, session)
    BY <1>6 DEF LoggedIn
  <2>2. LogsIn(th, kernel[t], x, session)
    BY <1>1, <1>6 DEF LogsIn
  <2> HIDE DEF session, th
  <2>3. Step(th, kernel[t], target[t], wire[t], x, session, target[t], wire[t])
    BY <1>1, <2>2 DEF Step
  <2>4. x \in Thread /\ x.at # "idle" /\ x.pc = "header" /\ x.job = th.job /\ x.retries = 0 /\ x.rsp = NoKeys
    BY <1>1, AskTyped DEF Stages
  <2> HIDE DEF x
  <2>5. /\ thread' = [thread EXCEPT ![t] = x] /\ kernel' = [kernel EXCEPT ![t] = session]
        /\ UNCHANGED <<bhsBuffer, target, wire>>
    BY <1>1, <1>6, <2>1 DEF Update, UpdateKernel
  <2> QED
    BY <1>1, <1>4, <2>3, <2>4, <2>5, PassSteps DEF th
<1>7. CASE Agreed(th) /\ LoggedIn(t) /\ UNCHANGED <<target, wire>> /\ th.job.kind # "discover"
  <2> DEFINE x == Ended(th, Reported(settings, th.job))
  <2>1. Update(t, x) /\ UpdateKernel(t, active)
    BY <1>5, <1>7 DEF LoggedIn
  <2>2. LogsIn(th, kernel[t], x, active)
    BY <1>1, <1>7 DEF LogsIn
  <2> HIDE DEF active, th, settings
  <2>3. Step(th, kernel[t], target[t], wire[t], x, active, target[t], wire[t])
    BY <1>1, <2>2 DEF Step
  <2>4. Reported(settings, th.job) \in {"failed", "loggedIn", "ended"}
    BY DEF Reported
  <2>5. /\ x \in Thread /\ x.at = "idle" /\ x.pc = "idle" /\ x.job = th.job /\ x.rsp = NoKeys /\ x = Ended(x, x.outcome)
    BY <1>1, <2>4, EndedTyped
  <2> HIDE DEF x
  <2>6. Rests(x, active, target[t], wire[t])
    <3>1. active # None
      BY <1>4, NoneIsNoRecord
    <3>2. OfferOf(x) = OfferOf(th)
      BY <2>5 DEF OfferOf
    <3> QED
      BY <1>1, <2>5, <3>1, <3>2, NothingIsSaid DEF Rests, Asking, LoginSteps
  <2>7. /\ thread' = [thread EXCEPT ![t] = x] /\ kernel' = [kernel EXCEPT ![t] = active]
        /\ target' = [target EXCEPT ![t] = target[t]] /\ wire' = [wire EXCEPT ![t] = wire[t]] /\ bhsBuffer' \in Buffer
    BY <1>1, <1>7, <2>1, Same DEF Update, UpdateKernel, TypeInv
  <2>8. Step(thread[t], kernel[t], target[t], wire[t], x, active, target[t], wire[t])
    BY <2>3 DEF th
  <2> QED
    BY <1>1, <1>4, <2>5, <2>6, <2>7, <2>8, MoveKeeps
<1> QED
  BY <1>1, <1>2, <1>6, <1>7 DEF NegotiateReturns

LEMMA LeavesSteps ==
  ASSUME TypeInv, NEW t \in Threads, kernel[t] # None, LogsOut(t), bhsBuffer' = bhsBuffer,
         thread[t].pc = "idle" \/ (thread[t].at = "text" /\ thread[t].pc = "return")
  PROVE  TypeInv' /\ Steps(t)
<1> DEFINE th == thread[t]
           x == Ask(th, "logout", "full", "full")
           l == [kernel[t] EXCEPT !.active = FALSE]
<1>1. /\ th \in Thread /\ kernel[t] \in Session /\ thread' = [thread EXCEPT ![t] = x]
      /\ kernel' = [kernel EXCEPT ![t] = l] /\ UNCHANGED <<bhsBuffer, target, wire>>
  BY Same DEF LogsOut, Update, UpdateKernel
<1>2. l \in Session
  BY <1>1 DEF Session
<1>3. Step(th, kernel[t], target[t], wire[t], x, l, target[t], wire[t])
  BY DEF Step, Leaves
<1> HIDE DEF th, l
<1>4. x \in Thread /\ x.at # "idle" /\ x.pc = "header" /\ x.job = th.job /\ x.retries = 0 /\ x.rsp = NoKeys
  BY <1>1, AskTyped DEF Stages
<1> HIDE DEF x
<1> QED
  BY <1>1, <1>2, <1>3, <1>4, PassSteps DEF th

LEMMA LeavingSteps ==
  ASSUME TypeInv, NEW t \in Threads, TextReturns(t) \/ Logout(t) \/ InterrogateReturns(t) \/ LogoutReturns(t)
  PROVE  TypeInv' /\ Steps(t)
<1>1. CASE TextReturns(t) /\ kernel[t] # None
  BY <1>1, LeavesSteps DEF TextReturns, At
<1>2. CASE TextReturns(t) /\ kernel[t] = None
  <2>1. target[t] = None /\ wire[t] = NoWire
    BY <1>2, Same DEF Rests
  <2>2. Release(t)
    BY <1>2, <2>1, Same DEF TextReturns, Release, UpdateKernel
  <2>3. /\ thread[t].pc = "return" /\ thread' = [thread EXCEPT ![t] = Ended(thread[t], "ended")]
        /\ bhsBuffer' = bhsBuffer
    BY <1>2 DEF TextReturns, At, Update
  <2> QED
    BY <2>2, <2>3, ReleaseSteps
<1>3. CASE Logout(t)
  BY <1>3, LeavesSteps DEF Logout
<1>4. CASE InterrogateReturns(t) \/ LogoutReturns(t)
  <2>1. /\ thread[t].pc = "return" /\ thread' = [thread EXCEPT ![t] = Ended(thread[t], "ended")]
        /\ bhsBuffer' = bhsBuffer /\ Release(t)
    BY <1>4 DEF InterrogateReturns, LogoutReturns, At, Update
  <2> QED
    BY <2>1, ReleaseSteps
<1> QED
  BY <1>1, <1>2, <1>3, <1>4

LEMMA ReceiveFailsSteps ==
  ASSUME TypeInv, NEW t \in Threads, ReceiveFails(t)
  PROVE  TypeInv' /\ Steps(t)
BY EndsSteps DEF ReceiveFails, Update

\* The thread stays where it is, and its session.
LEMMA StaysSteps ==
  ASSUME TypeInv, NEW t \in Threads, NEW l \in Session, NEW h \in Target, NEW v \in Wire, kernel[t] # None,
         kernel' = [kernel EXCEPT ![t] = l], target' = [target EXCEPT ![t] = h], wire' = [wire EXCEPT ![t] = v],
         UNCHANGED <<thread, bhsBuffer>>,
         \A i \in 1 .. Len(v.reqs) : v.reqs[i].data.offer \in {<<>>, OfferOf(thread[t])},
         \A i \in 1 .. Len(v.rsps) : v.rsps[i].keys.settings \in Sayable(OfferOf(thread[t])),
         Step(thread[t], kernel[t], target[t], wire[t], thread[t], l, h, v)
  PROVE  TypeInv' /\ Steps(t)
<1>1. /\ thread[t] \in Thread /\ Rests(thread[t], kernel[t], target[t], wire[t])
      /\ thread' = [thread EXCEPT ![t] = thread[t]] /\ bhsBuffer' \in Buffer /\ l # None /\ h # None
  BY Same, NoneIsNoRecord DEF TypeInv
<1>2. Rests(thread[t], l, h, v)
  BY <1>1 DEF Rests
<1> QED
  BY <1>1, <1>2, MoveKeeps

LEMMA BeginTaskSteps ==
  ASSUME TypeInv, NEW t \in Threads, BeginTask(t)
  PROVE  TypeInv' /\ Steps(t)
<1> DEFINE k == kernel[t]
           w == wire[t]
           header == [owner |-> t, op |-> "command", from |-> "full", to |-> "full"]
           r == [header |-> header, data |-> NoData, immediate |-> FALSE,
                 cmdSN |-> k.cmdSN, expStatSN |-> k.expStatSN]
           l == [k EXCEPT !.cmdSN = Next1(k.cmdSN)]
           v == [w EXCEPT !.reqs = Append(w.reqs, r)]
<1>1. /\ k # None /\ k.active /\ w = NoWire /\ UNCHANGED <<thread, bhsBuffer, target>>
      /\ k \in Session /\ w \in Wire /\ Rests(thread[t], k, target[t], w) /\ target[t] \in Target
  BY Same DEF BeginTask, Rests
<1>2. SendPDU(t, header, NoData, FALSE)
  BY DEF BeginTask
<1>3. kernel' = [kernel EXCEPT ![t] = l]
  BY <1>2 DEF SendPDU, UpdateKernel
<1>4. wire' = [wire EXCEPT ![t] = v]
  BY <1>1, <1>2 DEF SendPDU, TypeInv
<1>5. k.cmdSN \in Numbers /\ Next1(k.cmdSN) \in Numbers /\ k.expStatSN \in Numbers
  BY <1>1, NextTyped DEF Session, Numbers
<1>6. l \in Session
  BY <1>1, <1>5 DEF Session, Numbers
<1>7. r \in Requests
  <2>1. NoData \in Contents
    BY DEF NoData, Contents
  <2>2. header \in Header
    BY DEF Header, Stages
  <2> HIDE DEF header
  <2> QED
    BY <1>5, <2>1, <2>2 DEF Requests
<1>8. r.header.op = "command" /\ r.header.from = "full" /\ r.header.to = "full" /\ r.data = NoData /\ r.cmdSN = k.cmdSN /\ r.data.offer = <<>>
  BY DEF NoData
<1>9. BeginsTask(k, w, l, v)
  <2> HIDE DEF k, w, r
  <2> QED
    BY <1>1, <1>7, <1>8 DEF BeginsTask
<1>10. Step(thread[t], k, target[t], w, thread[t], l, target[t], v)
  BY <1>9 DEF Step
<1> HIDE DEF r, w, k
<1>11. v \in Wire /\ v.rsps = <<>> /\ Len(v.reqs) = 1 /\ v.reqs[1] = r
  <2>1. Len(w.reqs) = 0 /\ w.rsps = <<>>
    BY <1>1, WireTyped
  <2> QED
    BY <1>1, <1>7, <2>1, AppendTyped
<1> HIDE DEF v, l
<1>12. /\ \A i \in 1 .. Len(v.reqs) : v.reqs[i].data.offer \in {<<>>, OfferOf(thread[t])}
       /\ \A i \in 1 .. Len(v.rsps) : v.rsps[i].keys.settings \in Sayable(OfferOf(thread[t]))
  <2>1. \A i \in 1 .. 1 : i = 1
    OBVIOUS
  <2>2. \A i \in 1 .. Len(v.rsps) : FALSE
    BY <1>11
  <2> QED
    BY <1>8, <1>11, <2>1, <2>2
<1>13. target' = [target EXCEPT ![t] = target[t]]
  BY <1>1, Same
<1>14. Step(thread[t], kernel[t], target[t], wire[t], thread[t], l, target[t], v) /\ kernel[t] # None
  BY <1>1, <1>10 DEF k, w
<1> QED
  BY <1>1, <1>3, <1>4, <1>6, <1>11, <1>12, <1>13, <1>14, StaysSteps

LEMMA TargetSendsNOPInSteps ==
  ASSUME TypeInv, NEW t \in Threads, TargetSendsNOPIn(t)
  PROVE  TypeInv' /\ Steps(t)
<1> DEFINE k == kernel[t]
           w == wire[t]
           r == [Response("NOPIn", NoKeys) EXCEPT !.tagged = FALSE, !.statSN = target[t].statSN]
           v == [w EXCEPT !.rsps = <<r>>]
<1>1. /\ k # None /\ k.active /\ w.rsps = <<>> /\ UNCHANGED <<thread, bhsBuffer, kernel, target>>
      /\ k \in Session /\ w \in Wire /\ Rests(thread[t], k, target[t], w) /\ target[t] \in Target
  BY Same DEF TargetSendsNOPIn, Rests
<1>2. wire' = [wire EXCEPT ![t] = v]
  BY <1>1 DEF TargetSendsNOPIn, TypeInv
<1>3. r \in Responses /\ ~r.tagged /\ r.keys = NoKeys /\ r.status = "success" /\ ~r.transit
  BY <1>1, NothingIsSaid DEF Response, Responses, Target, Numbers
<1> HIDE DEF r, w
<1>4. TargetAsks(k, target[t], w, v)
  BY <1>1, <1>3 DEF TargetAsks
<1>5. Step(thread[t], k, target[t], w, thread[t], k, target[t], v)
  BY <1>4 DEF Step
<1>6. v \in Wire /\ v.rsps = <<r>> /\ v.reqs = w.reqs
  <2>1. <<r>> \in Seq(Responses)
    BY <1>3
  <2> QED
    BY <1>1, <2>1 DEF Wire
<1> HIDE DEF v
<1>7. /\ \A i \in 1 .. Len(v.reqs) : v.reqs[i].data.offer \in {<<>>, OfferOf(thread[t])}
      /\ \A i \in 1 .. Len(v.rsps) : v.rsps[i].keys.settings \in Sayable(OfferOf(thread[t]))
  <2>1. Len(v.rsps) = 1 /\ v.rsps[1] = r /\ \A i \in 1 .. 1 : i = 1
    BY <1>6
  <2> QED
    BY <1>1, <1>3, <1>6, <2>1, NothingIsSaid DEF Rests
<1>8. target' = [target EXCEPT ![t] = target[t]] /\ kernel' = [kernel EXCEPT ![t] = kernel[t]]
  BY <1>1, Same
<1>9. Step(thread[t], kernel[t], target[t], wire[t], thread[t], kernel[t], target[t], v)
  BY <1>5 DEF w
<1> QED
  BY <1>1, <1>2, <1>6, <1>7, <1>8, <1>9, StaysSteps

LEMMA LostSteps ==
  ASSUME TypeInv, NEW t \in Threads, Lost(t)
  PROVE  TypeInv' /\ Steps(t)
<1> DEFINE v == [NoWire EXCEPT !.lost = TRUE]
<1>1. /\ kernel[t] # None /\ UNCHANGED <<thread, bhsBuffer, kernel, target>> /\ wire' = [wire EXCEPT ![t] = v]
      /\ kernel[t] \in Session /\ Rests(thread[t], kernel[t], target[t], wire[t]) /\ target[t] \in Target
  BY Same DEF Lost, Rests
<1>2. Step(thread[t], kernel[t], target[t], wire[t], thread[t], kernel[t], target[t], v)
  BY <1>1 DEF Step, IsLost
<1>3. v \in Wire /\ v.reqs = <<>> /\ v.rsps = <<>>
  BY WireTyped
<1> HIDE DEF v
<1>4. /\ \A i \in 1 .. Len(v.reqs) : v.reqs[i].data.offer \in {<<>>, OfferOf(thread[t])}
      /\ \A i \in 1 .. Len(v.rsps) : v.rsps[i].keys.settings \in Sayable(OfferOf(thread[t]))
  BY <1>3
<1>5. target' = [target EXCEPT ![t] = target[t]] /\ kernel' = [kernel EXCEPT ![t] = kernel[t]]
  BY <1>1, Same
<1> QED
  BY <1>1, <1>2, <1>3, <1>4, <1>5, StaysSteps

LEMMA NumberedTyped ==
  ASSUME NEW pdus \in Seq(Responses), NEW sn \in Numbers
  PROVE  /\ Numbered(pdus, sn) \in Seq(Responses) /\ Len(Numbered(pdus, sn)) = Len(pdus)
         /\ \A i \in 1 .. Len(pdus) : Numbered(pdus, sn)[i] = [pdus[i] EXCEPT !.statSN = (sn + i - 1) % Modulus]
         /\ \A i \in 1 .. Len(pdus) : Numbered(pdus, sn)[i].keys = pdus[i].keys
<1> DEFINE q == Numbered(pdus, sn)
           n == Len(pdus)
<1>1. n \in Nat /\ DOMAIN pdus = 1 .. n /\ \A i \in 1 .. n : pdus[i] \in Responses
  OBVIOUS
<1> HIDE DEF n
<1>2. q = [i \in 1 .. n |-> [pdus[i] EXCEPT !.statSN = (sn + i - 1) % Modulus]]
  BY <1>1 DEF Numbered
<1> HIDE DEF q
<1>3. ASSUME NEW i \in 1 .. n PROVE q[i] \in Responses /\ q[i].keys = pdus[i].keys
  <2>1. (sn + i - 1) % Modulus \in Numbers
    <3>1. Modulus \in Nat \ {0} /\ sn \in Nat /\ i \in Nat \ {0}
      BY <1>1, LoginConstants DEF Numbers
    <3>2. sn + i - 1 \in Nat
      BY <3>1
    <3>3. ASSUME NEW a \in Nat PROVE a % Modulus \in 0 .. Modulus - 1
      BY <3>1
    <3> QED
      BY <3>2, <3>3 DEF Numbers
  <2>2. q[i] = [pdus[i] EXCEPT !.statSN = (sn + i - 1) % Modulus]
    BY <1>2
  <2> QED
    BY <1>1, <2>1, <2>2 DEF Responses
<1>4. q \in [1 .. n -> Responses]
  BY <1>2, <1>3
<1>5. q \in Seq(Responses)
  BY <1>1, <1>4 DEF n
<1>6. Len(q) = n
  BY <1>1, <1>2, <1>5, LenProperties
<1> QED
  BY <1>2, <1>3, <1>5, <1>6 DEF q, n

LEMMA Joined ==
  ASSUME NEW S, NEW a \in Seq(S), NEW b \in Seq(S)
  PROVE  /\ a \o b \in Seq(S) /\ Len(a) \in Nat /\ Len(b) \in Nat /\ Len(a \o b) = Len(a) + Len(b)
         /\ \A i \in 1 .. Len(a \o b) :
               \/ i \in 1 .. Len(a) /\ (a \o b)[i] = a[i]
               \/ i - Len(a) \in 1 .. Len(b) /\ (a \o b)[i] = b[i - Len(a)]
<1>1. Len(a) \in Nat /\ Len(b) \in Nat
  OBVIOUS
<1>2. a \o b \in Seq(S)
  OBVIOUS
<1>3. /\ Len(a \o b) = Len(a) + Len(b)
      /\ \A i \in 1 .. Len(a) + Len(b) : (a \o b)[i] = IF i <= Len(a) THEN a[i] ELSE b[i - Len(a)]
  BY <1>1, ConcatProperties
<1> QED
  BY <1>1, <1>2, <1>3

\* A target that has made something of a request.
LEMMA AnswersSteps ==
  ASSUME TypeInv, NEW t \in Threads, wire[t].reqs # <<>>, NEW new \in Target, NEW pdus,
         Made(target[t], Head(wire[t].reqs), new, pdus), Answers(t, new, pdus)
  PROVE  TypeInv' /\ Steps(t)
<1> DEFINE k == kernel[t]
           g == target[t]
           w == wire[t]
           q == Numbered(pdus, g.statSN)
           h == [new EXCEPT !.statSN = (@ + Len(pdus)) % Modulus]
           v == [w EXCEPT !.reqs = Tail(w.reqs), !.rsps = w.rsps \o q]
           r == Head(w.reqs)
<1>1. /\ w \in Wire /\ Rests(thread[t], k, g, w) /\ w.reqs # <<>>
      /\ k \in Session \cup {None} /\ g \in Target \cup {None}
  BY Same
<1>2. k # None /\ g # None /\ k \in Session /\ g \in Target
  BY <1>1, WireTyped DEF Rests
<1>3. target' = [target EXCEPT ![t] = h] /\ UNCHANGED <<thread, bhsBuffer, kernel>>
  BY DEF Answers
<1>4. wire' = [wire EXCEPT ![t] = v]
  <2> DEFINE z == [w EXCEPT !.reqs = Tail(@), !.rsps = @ \o q]
  <2>1. wire' = [wire EXCEPT ![t] = z]
    BY DEF Answers
  <2>2. z = v
    <3> HIDE DEF w, q
    <3> QED
      BY <1>1 DEF Wire
  <2> HIDE DEF z, v
  <2> QED
    BY <2>1, <2>2
<1>5. Made(g, r, new, pdus)
  OBVIOUS
<1>6. TargetAnswers(k, g, w, h, v)
  BY <1>1, <1>2, <1>5 DEF TargetAnswers
<1>7. Step(thread[t], kernel[t], target[t], wire[t], thread[t], kernel[t], h, v)
  BY <1>6 DEF Step
<1>8. pdus \in Seq(Responses) /\ Len(pdus) \in {1, 2}
  BY <1>5 DEF Made
<1>9. h \in Target
  <2>1. Modulus \in Nat \ {0} /\ new.statSN \in Nat /\ Len(pdus) \in Nat
    BY <1>8, LoginConstants DEF Target
  <2>2. (new.statSN + Len(pdus)) % Modulus \in 0 .. Modulus - 1
    BY <2>1
  <2> QED
    BY <2>2 DEF Target
<1>10. g.statSN \in Numbers
  BY <1>2 DEF Target, Numbers
<1>11. /\ q \in Seq(Responses) /\ Len(q) = Len(pdus)
       /\ \A i \in 1 .. Len(pdus) : q[i].keys = pdus[i].keys
  BY <1>8, <1>10, NumberedTyped
<1> HIDE DEF h, q, g, k, w
<1>12. /\ w.reqs \in Seq(Requests) /\ w.rsps \in Seq(Responses)
  BY <1>1 DEF Wire
<1>13. /\ Tail(w.reqs) \in Seq(Requests) /\ Len(w.reqs) \in Nat \ {0} /\ Len(Tail(w.reqs)) = Len(w.reqs) - 1
       /\ \A i \in 1 .. Len(Tail(w.reqs)) : i + 1 \in 1 .. Len(w.reqs) /\ Tail(w.reqs)[i] = w.reqs[i + 1]
       /\ r = w.reqs[1]
  <2>1. Len(w.reqs) \in Nat /\ Len(w.reqs) # 0
    BY <1>1, <1>12
  <2>2. Tail(w.reqs) \in Seq(Requests) /\ Len(Tail(w.reqs)) = Len(w.reqs) - 1
    BY <1>1, <1>12
  <2> QED
    BY <1>1, <1>12, <2>1, <2>2
<1>14. /\ w.rsps \o q \in Seq(Responses) /\ Len(w.rsps) \in Nat /\ Len(w.rsps \o q) = Len(w.rsps) + Len(q)
       /\ \A i \in 1 .. Len(w.rsps \o q) : \/ i \in 1 .. Len(w.rsps) /\ (w.rsps \o q)[i] = w.rsps[i]
                                           \/ i - Len(w.rsps) \in 1 .. Len(q) /\ (w.rsps \o q)[i] = q[i - Len(w.rsps)]
  <2>1. q \in Seq(Responses) /\ w.rsps \in Seq(Responses)
    BY <1>11, <1>12
  <2> QED
    BY <2>1, Joined, Zenon
<1>15. v \in Wire /\ v.reqs = Tail(w.reqs) /\ v.rsps = w.rsps \o q
  BY <1>1, <1>13, <1>14 DEF Wire
<1> HIDE DEF v
<1>16. \A i \in 1 .. Len(v.reqs) : v.reqs[i].data.offer \in {<<>>, OfferOf(thread[t])}
  BY <1>1, <1>2, <1>13, <1>15 DEF Rests
<1>17. r.data.offer \in {<<>>, OfferOf(thread[t])}
  <2>1. 1 \in 1 .. Len(w.reqs)
    BY <1>13
  <2> QED
    BY <1>1, <1>2, <1>13, <2>1 DEF Rests
<1>18. ASSUME NEW i \in 1 .. Len(pdus) PROVE pdus[i].keys.settings \in Sayable(OfferOf(thread[t]))
  <2> HIDE DEF r
  <2>1. CASE pdus[i].keys.settings = <<>>
    BY <2>1 DEF Sayable
  <2>2. CASE \E prefs \in Preferences : /\ r.data.offer # <<>>
                                        /\ pdus[i].keys.settings \in {<<>>, Answer(r.data.offer, prefs), Part(Answer(r.data.offer, prefs))}
    <3>1. r.data.offer = OfferOf(thread[t])
      BY <1>17, <2>2
    <3> QED
      BY <2>2, <3>1 DEF Sayable
  <2> QED
    BY <1>5, <2>1, <2>2 DEF Made
<1>19. \A i \in 1 .. Len(v.rsps) : v.rsps[i].keys.settings \in Sayable(OfferOf(thread[t]))
  <2>1. SUFFICES ASSUME NEW i \in 1 .. Len(v.rsps) PROVE v.rsps[i].keys.settings \in Sayable(OfferOf(thread[t]))
    OBVIOUS
  <2>2. CASE i \in 1 .. Len(w.rsps) /\ v.rsps[i] = w.rsps[i]
    BY <1>1, <1>2, <2>2 DEF Rests
  <2>3. CASE i - Len(w.rsps) \in 1 .. Len(q) /\ v.rsps[i] = q[i - Len(w.rsps)]
    BY <1>11, <1>18, <2>3
  <2> QED
    BY <1>14, <1>15, <2>2, <2>3
<1>20. kernel' = [kernel EXCEPT ![t] = kernel[t]]
  BY <1>3, Same
<1>21. kernel[t] # None /\ kernel[t] \in Session
  BY <1>2 DEF k
<1> QED
  BY <1>3, <1>4, <1>7, <1>9, <1>15, <1>16, <1>19, <1>20, <1>21, StaysSteps

LEMMA Single ==
  ASSUME NEW S, NEW a \in S, NEW q, q = <<a>>
  PROVE  q \in Seq(S) /\ Len(q) \in {1, 2} /\ \A i \in 1 .. Len(q) : q[i] = a
OBVIOUS

LEMMA Twice ==
  ASSUME NEW S, NEW a \in S, NEW b \in S, NEW q, q = <<a, b>>
  PROVE  q \in Seq(S) /\ Len(q) \in {1, 2} /\ \A i \in 1 .. Len(q) : q[i] \in {a, b}
OBVIOUS

\* What is said in parts.
LEMMA PartsTyped ==
  ASSUME NEW pdu \in Responses, NEW pdus \in Parts(pdu)
  PROVE  /\ pdus \in Seq(Responses) /\ Len(pdus) \in {1, 2}
         /\ \A i \in 1 .. Len(pdus) :
               /\ pdus[i].tagged = pdu.tagged /\ pdus[i].status = pdu.status /\ pdus[i].op = pdu.op
               /\ pdus[i].transit => pdu.transit /\ pdus[i].tsih = pdu.tsih
               /\ pdus[i].tsih => pdu.tsih
               /\ pdus[i].keys \in {pdu.keys, NoKeys}
<1> DEFINE first == [pdu EXCEPT !.more = TRUE, !.transit = FALSE, !.tsih = FALSE]
           rest == [pdu EXCEPT !.keys = NoKeys]
           before == [first EXCEPT !.keys = NoKeys]
           Of(p) == /\ p.tagged = pdu.tagged /\ p.status = pdu.status /\ p.op = pdu.op
                    /\ p.transit => pdu.transit /\ p.tsih = pdu.tsih
                    /\ p.tsih => pdu.tsih
                    /\ p.keys \in {pdu.keys, NoKeys}
<1>1. first \in Responses /\ rest \in Responses /\ before \in Responses
  BY NothingIsSaid DEF Responses
<1>2. Of(pdu)
  OBVIOUS
<1>3. Of(first) /\ Of(rest)
  BY DEF Responses
<1>4. Of(before)
  BY DEF Responses
<1>5. pdus \in {<<pdu>>, <<first, rest>>, <<before, pdu>>, <<first>>}
  BY DEF Parts
<1> HIDE DEF first, rest, before, Of
<1>6. pdus \in Seq(Responses) /\ Len(pdus) \in {1, 2} /\ \A i \in 1 .. Len(pdus) : pdus[i] \in {pdu, first, rest, before}
  <2>1. CASE pdus = <<pdu>>
    BY <2>1, Single
  <2>2. CASE pdus = <<first, rest>>
    BY <1>1, <2>2, Twice
  <2>3. CASE pdus = <<before, pdu>>
    BY <1>1, <2>3, Twice
  <2>4. CASE pdus = <<first>>
    BY <1>1, <2>4, Single
  <2> QED
    BY <1>5, <2>1, <2>2, <2>3, <2>4
<1>7. \A i \in 1 .. Len(pdus) : Of(pdus[i])
  BY <1>2, <1>3, <1>4, <1>6
<1> QED
  BY <1>6, <1>7 DEF Of

\* What a target may say to a request, when it has become new.
Says(g, r, new, keys) ==
    /\ new \in Target /\ keys \in Saying
    /\ new.stage = g.stage /\ new.statSN = g.statSN /\ new.expCmdSN = g.expCmdSN
    /\ \/ new.proof = g.proof /\ keys.proof = None
       \/ r.data.answer /\ keys.proof = new.proof
    /\ \/ new.settings = g.settings /\ keys.settings = <<>>
       \/ /\ r.data.offer # <<>>
          /\ \E prefs \in Preferences :
                /\ new.settings = Answer(r.data.offer, prefs)
                /\ keys.settings \in {new.settings, Part(new.settings)}

LEMMA SaysMethod ==
  ASSUME NEW g \in Target, NEW r \in Requests, NEW m \in Methods, NEW group \in BOOLEAN
  PROVE  Says(g, r, [g EXCEPT !.method = m], [NoKeys EXCEPT !.auth = m, !.group = group])
<1>1. [g EXCEPT !.method = m] \in Target
  BY DEF Target
<1>2. [NoKeys EXCEPT !.auth = m, !.group = group] \in Saying
  BY NothingIsSaid DEF Saying
<1>3. /\ [NoKeys EXCEPT !.auth = m, !.group = group].proof = None
      /\ [NoKeys EXCEPT !.auth = m, !.group = group].settings = <<>>
  BY DEF NoKeys
<1> QED
  BY <1>1, <1>2, <1>3 DEF Says, Target

LEMMA SaysSettings ==
  ASSUME NEW g \in Target, NEW r \in Requests, r.data.offer # <<>>, NEW prefs \in Preferences,
         NEW said \in {Answer(r.data.offer, prefs), Part(Answer(r.data.offer, prefs))}
  PROVE  Says(g, r, [g EXCEPT !.settings = Answer(r.data.offer, prefs)], [NoKeys EXCEPT !.settings = said])
<1> DEFINE a == Answer(r.data.offer, prefs)
           new == [g EXCEPT !.settings = a]
           keys == [NoKeys EXCEPT !.settings = said]
<1>1. r.data.offer \in Offers
  BY DEF Requests, Contents
<1>2. a \in Agreements
  BY <1>1 DEF Agreements
<1>3. said \in Sayable(r.data.offer)
  BY DEF Sayable
<1>4. keys \in Saying
  <2>1. said \in UNION {Sayable(offer) : offer \in Offers \cup {<<>>}}
    BY <1>1, <1>3
  <2> QED
    BY <2>1, NothingIsSaid DEF Saying
<1>5. keys.settings = said /\ keys.proof = None
  BY DEF NoKeys
<1> HIDE DEF a
<1>6. /\ new \in Target /\ new.settings = a /\ new.proof = g.proof
      /\ new.stage = g.stage /\ new.statSN = g.statSN /\ new.expCmdSN = g.expCmdSN
  BY <1>2 DEF Target
<1> HIDE DEF new, keys
<1>7. /\ new.settings = Answer(r.data.offer, prefs) /\ keys.settings \in {new.settings, Part(new.settings)}
  BY <1>5, <1>6 DEF a
<1>8. Says(g, r, new, keys)
  BY <1>4, <1>5, <1>6, <1>7 DEF Says
<1> QED
  BY <1>8 DEF new, keys, a

LEMMA SaysProof ==
  ASSUME NEW g \in Target, NEW r \in Requests, r.data.answer, NEW p \in {"right", "wrong", None}
  PROVE  Says(g, r, [g EXCEPT !.trusts = TRUE, !.proof = p], [NoKeys EXCEPT !.proof = p])
<1> DEFINE new == [g EXCEPT !.trusts = TRUE, !.proof = p]
           keys == [NoKeys EXCEPT !.proof = p]
<1>1. /\ new \in Target /\ new.proof = p /\ new.settings = g.settings
      /\ new.stage = g.stage /\ new.statSN = g.statSN /\ new.expCmdSN = g.expCmdSN
  BY DEF Target
<1>2. keys \in Saying
  BY NothingIsSaid DEF Saying
<1>3. keys.proof = p /\ keys.settings = <<>>
  BY DEF NoKeys
<1> QED
  BY <1>1, <1>2, <1>3 DEF Says

LEMMA SaysNothing ==
  ASSUME NEW g \in Target, NEW r \in Requests
  PROVE  Says(g, r, g, NoKeys)
BY NothingIsSaid DEF Says

LEMMA ConsideredSays ==
  ASSUME NEW t \in Threads, target[t] \in Target, Request(t) \in Requests, NEW c \in Considered(t)
  PROVE  Says(target[t], Request(t), c.target, c.keys)
<1> DEFINE r == Request(t)
           g == target[t]
<1>1. CASE r.data.methods # {}
  <2>1. PICK m \in Methods, group \in BOOLEAN : c = Chooses(g, m, group)
    BY <1>1 DEF Considered
  <2>2. c.target = [g EXCEPT !.method = m] /\ c.keys = [NoKeys EXCEPT !.auth = m, !.group = group]
    BY <2>1 DEF Chooses, Becomes
  <2>3. Says(g, r, [g EXCEPT !.method = m], [NoKeys EXCEPT !.auth = m, !.group = group])
    BY SaysMethod
  <2> QED
    BY <2>2, <2>3
<1>2. CASE r.data.methods = {} /\ r.data.offer # <<>>
  <2>1. PICK prefs \in Preferences : \E said \in {Answer(r.data.offer, prefs), Part(Answer(r.data.offer, prefs))} :
              c = Settles(g, Answer(r.data.offer, prefs), said)
    BY <1>2 DEF Considered
  <2>2. PICK said \in {Answer(r.data.offer, prefs), Part(Answer(r.data.offer, prefs))} :
              c = Settles(g, Answer(r.data.offer, prefs), said)
    BY <2>1
  <2>3. c.target = [g EXCEPT !.settings = Answer(r.data.offer, prefs)] /\ c.keys = [NoKeys EXCEPT !.settings = said]
    BY <2>2 DEF Settles, Becomes
  <2>4. Says(g, r, [g EXCEPT !.settings = Answer(r.data.offer, prefs)], [NoKeys EXCEPT !.settings = said])
    BY <1>2, SaysSettings
  <2> QED
    BY <2>3, <2>4
<1>3. CASE r.data.methods = {} /\ r.data.offer = <<>> /\ r.data.answer
  <2>1. PICK p \in {"right", "wrong", None} : c = Trusts(g, p)
    BY <1>3 DEF Considered
  <2>2. c.target = [g EXCEPT !.trusts = TRUE, !.proof = p] /\ c.keys = [NoKeys EXCEPT !.proof = p]
    BY <2>1 DEF Trusts, Becomes
  <2>3. Says(g, r, [g EXCEPT !.trusts = TRUE, !.proof = p], [NoKeys EXCEPT !.proof = p])
    BY <1>3, SaysProof
  <2> QED
    BY <2>2, <2>3
<1>4. CASE r.data.methods = {} /\ r.data.offer = <<>> /\ ~r.data.answer
  <2>1. c = Becomes(g, NoKeys)
    BY <1>4 DEF Considered
  <2>2. c.target = g /\ c.keys = NoKeys
    BY <2>1 DEF Becomes
  <2> QED
    BY <2>2, SaysNothing
<1> QED
  BY <1>1, <1>2, <1>3, <1>4

\* The request that is answered.
LEMMA Requested ==
  ASSUME TypeInv, NEW t \in Threads, wire[t].reqs # <<>>
  PROVE  Request(t) \in Requests /\ target[t] \in Target /\ kernel[t] \in Session /\ kernel[t] # None
<1>1. wire[t] \in Wire /\ Rests(thread[t], kernel[t], target[t], wire[t])
  BY Same
<1>2. kernel[t] # None /\ target[t] # None
  BY <1>1, WireTyped DEF Rests
<1>3. Request(t) \in Requests
  <2>1. wire[t].reqs \in Seq(Requests)
    BY <1>1 DEF Wire
  <2> QED
    BY <2>1 DEF Request
<1> QED
  BY <1>2, <1>3, Same

LEMMA TargetAnswersLoginSteps ==
  ASSUME TypeInv, NEW t \in Threads, TargetAnswersLogin(t)
  PROVE  TypeInv' /\ Steps(t)
<1> DEFINE r == Request(t)
           g == target[t]
<1>1. wire[t].reqs # <<>> /\ r.header.op = "login" /\ r.header.from = g.stage
  BY DEF TargetAnswersLogin, Asked
<1>2. r \in Requests /\ g \in Target
  BY <1>1, Requested
<1>3. PICK c \in Considered(t), moves \in BOOLEAN :
          LET pdu == [Response("login", c.keys) EXCEPT !.transit = moves, !.tsih = moves /\ r.header.to = "full"]
          IN  /\ moves => Ready(c.target, r.header)
              /\ \E pdus \in Parts(pdu) :
                    Answers(t, [c.target EXCEPT !.stage = IF moves THEN r.header.to ELSE @], pdus)
  BY DEF TargetAnswersLogin
<1> DEFINE pdu == [Response("login", c.keys) EXCEPT !.transit = moves, !.tsih = moves /\ r.header.to = "full"]
           new == [c.target EXCEPT !.stage = IF moves THEN r.header.to ELSE @]
<1>4. PICK pdus \in Parts(pdu) : Answers(t, new, pdus)
  BY <1>3
<1>5. Says(g, r, c.target, c.keys)
  BY <1>2, ConsideredSays
<1>6. moves => Ready(c.target, r.header)
  BY <1>3
<1>7. /\ pdu \in Responses /\ Granted(pdu) /\ pdu.keys = c.keys
      /\ (pdu.transit => moves) /\ (moves => pdu.transit)
      /\ (pdu.tsih => moves /\ r.header.to = "full") /\ (moves /\ r.header.to = "full" => pdu.tsih)
  <2>1. c.keys \in Saying /\ 0 \in Numbers /\ (moves /\ r.header.to = "full") \in BOOLEAN
    BY <1>5, LoginConstants DEF Says, Numbers
  <2> QED
    BY <2>1 DEF Response, Responses, Granted
<1>8. /\ r.header.from \in Stages /\ r.header.to \in Stages
  BY <1>2 DEF Requests, Header
<1>9. /\ new \in Target /\ new.statSN = g.statSN /\ new.expCmdSN = g.expCmdSN /\ new.proof = c.target.proof
      /\ new.settings = c.target.settings /\ new.stage = IF moves THEN r.header.to ELSE g.stage
  BY <1>5, <1>8 DEF Says, Target
<1> HIDE DEF pdu, new, r, g
<1>10. /\ pdus \in Seq(Responses) /\ Len(pdus) \in {1, 2}
       /\ \A i \in 1 .. Len(pdus) :
             /\ pdus[i].tagged = pdu.tagged /\ pdus[i].status = pdu.status /\ pdus[i].op = pdu.op
             /\ pdus[i].transit => pdu.transit /\ pdus[i].tsih = pdu.tsih
             /\ pdus[i].tsih => pdu.tsih
             /\ pdus[i].keys \in {pdu.keys, NoKeys}
  BY <1>4, <1>7, PartsTyped
<1>11. /\ \A i \in 1 .. Len(pdus) : Granted(pdus[i]) \/ new.stage = "closed"
       /\ g.stage = "closed" => new.stage = "closed"
  <2>1. g.stage # "closed"
    BY <1>1, <1>8 DEF r, g, Stages
  <2> QED
    BY <1>7, <1>10, <2>1 DEF Granted
<1>12. \/ new.proof = g.proof /\ \A i \in 1 .. Len(pdus) : pdus[i].keys.proof = None
       \/ r.data.answer /\ \A i \in 1 .. Len(pdus) : pdus[i].keys.proof \in {None, new.proof}
  BY <1>5, <1>7, <1>9, <1>10, NothingIsSaid DEF Says
<1>13. \/ new.settings = g.settings /\ \A i \in 1 .. Len(pdus) : pdus[i].keys.settings = <<>>
       \/ /\ r.data.offer # <<>> /\ g.stage = r.header.from
          /\ \E prefs \in Preferences :
                /\ new.settings = Answer(r.data.offer, prefs)
                /\ \A i \in 1 .. Len(pdus) :
                      pdus[i].keys.settings \in {<<>>, new.settings, Part(new.settings)}
  <2>1. CASE c.target.settings = g.settings /\ c.keys.settings = <<>>
    BY <1>7, <1>9, <1>10, <2>1, NothingIsSaid
  <2>2. CASE /\ r.data.offer # <<>>
             /\ \E prefs \in Preferences :
                   /\ c.target.settings = Answer(r.data.offer, prefs)
                   /\ c.keys.settings \in {c.target.settings, Part(c.target.settings)}
    <3>1. \A i \in 1 .. Len(pdus) : pdus[i].keys.settings \in {<<>>, new.settings, Part(new.settings)}
      BY <1>7, <1>9, <1>10, <2>2, NothingIsSaid
    <3>2. g.stage = r.header.from
      BY <1>1 DEF r, g
    <3> QED
      BY <1>9, <2>2, <3>1, <3>2
  <2> QED
    BY <1>5, <2>1, <2>2 DEF Says
<1>14. \/ new.stage \in {g.stage, "closed"} /\ \A i \in 1 .. Len(pdus) : ~pdus[i].transit /\ ~pdus[i].tsih
       \/ /\ g.stage = r.header.from /\ r.header.from # r.header.to /\ new.stage = r.header.to
          /\ g.stage = "operational" => new.settings # <<>>
          /\ \A i \in 1 .. Len(pdus) : pdus[i].transit /\ r.header.to = "full" => pdus[i].tsih
  <2>1. CASE ~moves
    BY <1>7, <1>9, <1>10, <2>1
  <2>2. CASE moves
    <3>1. r.header.from # r.header.to /\ (c.target.stage = "operational" => c.target.settings # <<>>)
      BY <1>6, <2>2 DEF Ready, r
    <3>2. c.target.stage = g.stage /\ g.stage = r.header.from
      BY <1>1, <1>5 DEF Says, r, g
    <3> QED
      BY <1>7, <1>9, <1>10, <2>2, <3>1, <3>2
  <2> QED
    BY <2>1, <2>2
<1>15. new.statSN = g.statSN /\ new.expCmdSN = g.expCmdSN /\ r.header.op # "command"
  BY <1>1, <1>9 DEF r
<1>16. Made(g, r, new, pdus)
  BY <1>9, <1>10, <1>11, <1>12, <1>13, <1>14, <1>15 DEF Made
<1>17. Made(target[t], Head(wire[t].reqs), new, pdus)
  BY <1>16 DEF r, g, Request
<1> QED
  BY <1>1, <1>4, <1>9, <1>17, AnswersSteps

\* A target that says no keys and does not move on.
LEMMA PlainSteps ==
  ASSUME TypeInv, NEW t \in Threads, wire[t].reqs # <<>>, NEW new \in Target, NEW pdus \in Seq(Responses),
         Len(pdus) \in {1, 2},
         \A i \in 1 .. Len(pdus) : /\ ~pdus[i].transit /\ ~pdus[i].tsih /\ pdus[i].keys = NoKeys
                                   /\ Granted(pdus[i]) \/ new.stage = "closed",
         new.stage \in {target[t].stage, "closed"}, new.statSN = target[t].statSN,
         new.proof = target[t].proof, new.settings = target[t].settings,
         new.expCmdSN = IF Request(t).header.op = "command" THEN Next1(target[t].expCmdSN) ELSE target[t].expCmdSN,
         Request(t).header.op = "command" => Request(t).cmdSN = target[t].expCmdSN,
         Answers(t, new, pdus)
  PROVE  TypeInv' /\ Steps(t)
<1>1. Made(target[t], Request(t), new, pdus)
  BY NothingIsSaid DEF Made
<1> QED
  BY <1>1, AnswersSteps DEF Request

LEMMA ResponseTyped ==
  ASSUME NEW op \in {"login", "reject", "text", "logout", "command", "NOPIn"}
  PROVE  /\ Response(op, NoKeys) \in Responses /\ ~Response(op, NoKeys).transit /\ ~Response(op, NoKeys).tsih
         /\ Response(op, NoKeys).keys = NoKeys /\ (op # "reject" => Granted(Response(op, NoKeys)))
<1>1. 0 \in Numbers
  BY LoginConstants DEF Numbers
<1> QED
  BY <1>1, NothingIsSaid DEF Response, Responses, Granted

LEMMA TargetRefusesLoginSteps ==
  ASSUME TypeInv, NEW t \in Threads, TargetRefusesLogin(t)
  PROVE  TypeInv' /\ Steps(t)
<1> DEFINE g == target[t]
           new == [g EXCEPT !.stage = "closed"]
           refusal == [Response("login", NoKeys) EXCEPT !.status = "refused"]
           reject == [Response("reject", NoKeys) EXCEPT !.tagged = FALSE]
<1>1. wire[t].reqs # <<>> /\ Request(t).header.op = "login"
  BY DEF TargetRefusesLogin, Asked
<1>2. PICK pdu \in {refusal, reject} : Answers(t, new, <<pdu>>)
  BY DEF TargetRefusesLogin
<1>3. g \in Target
  BY <1>1, Requested
<1>4. pdu \in Responses /\ ~pdu.transit /\ ~pdu.tsih /\ pdu.keys = NoKeys
  <2> DEFINE login == Response("login", NoKeys)
             other == Response("reject", NoKeys)
  <2>1. /\ login \in Responses /\ ~login.transit /\ ~login.tsih /\ login.keys = NoKeys
        /\ other \in Responses /\ ~other.transit /\ ~other.tsih /\ other.keys = NoKeys
    BY ResponseTyped
  <2> HIDE DEF login, other
  <2>2. refusal = [login EXCEPT !.status = "refused"] /\ reject = [other EXCEPT !.tagged = FALSE]
    BY DEF login, other
  <2> HIDE DEF refusal, reject
  <2>3. refusal \in Responses /\ ~refusal.transit /\ ~refusal.tsih /\ refusal.keys = NoKeys
    BY <2>1, <2>2 DEF Responses
  <2>4. reject \in Responses /\ ~reject.transit /\ ~reject.tsih /\ reject.keys = NoKeys
    BY <2>1, <2>2 DEF Responses
  <2> QED
    BY <2>3, <2>4
<1> HIDE DEF g
<1>5. /\ new \in Target /\ new.stage = "closed" /\ new.statSN = g.statSN /\ new.proof = g.proof
      /\ new.settings = g.settings /\ new.expCmdSN = g.expCmdSN
  BY <1>3 DEF Target
<1> HIDE DEF new, refusal, reject
<1>6. <<pdu>> \in Seq(Responses) /\ Len(<<pdu>>) \in {1, 2} /\ \A i \in 1 .. Len(<<pdu>>) : <<pdu>>[i] = pdu
  BY <1>4, Single
<1>7. /\ new.stage \in {target[t].stage, "closed"} /\ new.statSN = target[t].statSN
      /\ new.proof = target[t].proof /\ new.settings = target[t].settings /\ new.expCmdSN = target[t].expCmdSN
  BY <1>5 DEF g
<1> QED
  BY <1>1, <1>2, <1>4, <1>5, <1>6, <1>7, PlainSteps

LEMMA TargetAnswersTextSteps ==
  ASSUME TypeInv, NEW t \in Threads, TargetAnswersText(t)
  PROVE  TypeInv' /\ Steps(t)
<1> DEFINE pdu == Response("text", NoKeys)
<1>1. wire[t].reqs # <<>> /\ Request(t).header.op = "text"
  BY DEF TargetAnswersText, Asked
<1>2. PICK pdus \in Parts(pdu) : Answers(t, target[t], pdus)
  BY DEF TargetAnswersText
<1>3. target[t] \in Target
  BY <1>1, Requested
<1>4. pdu \in Responses /\ Granted(pdu) /\ ~pdu.transit /\ ~pdu.tsih /\ pdu.keys = NoKeys
  BY ResponseTyped
<1> HIDE DEF pdu
<1>5. /\ pdus \in Seq(Responses) /\ Len(pdus) \in {1, 2}
      /\ \A i \in 1 .. Len(pdus) : /\ ~pdus[i].transit /\ ~pdus[i].tsih /\ pdus[i].keys = NoKeys
                                   /\ Granted(pdus[i])
  BY <1>4, PartsTyped DEF Granted
<1> QED
  BY <1>1, <1>2, <1>3, <1>5, PlainSteps

LEMMA TargetAnswersLogoutSteps ==
  ASSUME TypeInv, NEW t \in Threads, TargetAnswersLogout(t)
  PROVE  TypeInv' /\ Steps(t)
<1> DEFINE g == target[t]
           new == [g EXCEPT !.stage = "closed"]
           pdu == Response("logout", NoKeys)
<1>1. wire[t].reqs # <<>> /\ Request(t).header.op = "logout" /\ Answers(t, new, <<pdu>>)
  BY DEF TargetAnswersLogout, Asked
<1>2. g \in Target
  BY <1>1, Requested
<1>3. pdu \in Responses /\ ~pdu.transit /\ ~pdu.tsih /\ pdu.keys = NoKeys
  BY ResponseTyped
<1> HIDE DEF g
<1>4. /\ new \in Target /\ new.stage = "closed" /\ new.statSN = g.statSN /\ new.proof = g.proof
      /\ new.settings = g.settings /\ new.expCmdSN = g.expCmdSN
  BY <1>2 DEF Target
<1> HIDE DEF new, pdu
<1>5. <<pdu>> \in Seq(Responses) /\ Len(<<pdu>>) \in {1, 2} /\ \A i \in 1 .. Len(<<pdu>>) : <<pdu>>[i] = pdu
  BY <1>3, Single
<1>6. /\ new.stage \in {target[t].stage, "closed"} /\ new.statSN = target[t].statSN
      /\ new.proof = target[t].proof /\ new.settings = target[t].settings /\ new.expCmdSN = target[t].expCmdSN
  BY <1>4 DEF g
<1> QED
  BY <1>1, <1>3, <1>4, <1>5, <1>6, PlainSteps

LEMMA TargetAnswersCommandSteps ==
  ASSUME TypeInv, NEW t \in Threads, TargetAnswersCommand(t)
  PROVE  TypeInv' /\ Steps(t)
<1> DEFINE g == target[t]
           new == [g EXCEPT !.expCmdSN = Next1(g.expCmdSN)]
           pdu == Response("command", NoKeys)
<1>1. /\ wire[t].reqs # <<>> /\ Request(t).header.op = "command" /\ Request(t).cmdSN = target[t].expCmdSN
      /\ Answers(t, new, <<pdu>>)
  BY DEF TargetAnswersCommand, Asked
<1>2. g \in Target
  BY <1>1, Requested
<1>3. pdu \in Responses /\ Granted(pdu) /\ ~pdu.transit /\ ~pdu.tsih /\ pdu.keys = NoKeys
  BY ResponseTyped
<1> HIDE DEF g
<1>4. /\ new \in Target /\ new.stage = g.stage /\ new.statSN = g.statSN /\ new.proof = g.proof
      /\ new.settings = g.settings /\ new.expCmdSN = Next1(g.expCmdSN)
  <2>1. Next1(g.expCmdSN) \in 0 .. Modulus - 1
    BY <1>2, NextTyped DEF Target, Numbers
  <2> QED
    BY <1>2, <2>1 DEF Target
<1> HIDE DEF new, pdu
<1>5. <<pdu>> \in Seq(Responses) /\ Len(<<pdu>>) \in {1, 2} /\ \A i \in 1 .. Len(<<pdu>>) : <<pdu>>[i] = pdu
  BY <1>3, Single
<1>6. /\ new.stage \in {target[t].stage, "closed"} /\ new.statSN = target[t].statSN
      /\ new.proof = target[t].proof /\ new.settings = target[t].settings /\ new.expCmdSN = Next1(target[t].expCmdSN)
  BY <1>4 DEF g
<1> QED
  BY <1>1, <1>3, <1>4, <1>5, <1>6, PlainSteps

\* Every step is one thread's, its session's, or its target's.
Does(t) ==
    \/ \E job \in Jobs : Start(t, job)
    \/ Logout(t) \/ ThreadStep(t) \/ KernelStep(t) \/ TargetStep(t)

LEMMA OneSteps ==
  ASSUME TypeInv, NEW t \in Threads, Does(t)
  PROVE  TypeInv' /\ Steps(t)
<1>1. CASE \E job \in Jobs : Start(t, job)
  BY <1>1, StartSteps
<1>2. CASE Logout(t)
  BY <1>2, LeavingSteps
<1>3. CASE ThreadStep(t)
  <2>1. CASE SendBHS(t) \/ SendData(t) \/ ReceiveFails(t)
    BY <2>1, SendBHSSteps, SendDataSteps, ReceiveFailsSteps
  <2>2. CASE ReceiveLoginResponse(t) \/ ReceiveTextResponse(t) \/ ReceiveLogoutResponse(t)
    BY <2>2, ReceivingSteps
  <2>3. CASE AuthReturns(t) \/ BlankReturns(t) \/ ChapStartReturns(t) \/ ChapAnswerReturns(t)
    BY <2>3, AuthReturnsSteps, BlankReturnsSteps, ChapStartReturnsSteps, ChapAnswerReturnsSteps
  <2>4. CASE NegotiateReturns(t)
    BY <2>4, NegotiateReturnsSteps
  <2>5. CASE InterrogateReturns(t) \/ TextReturns(t) \/ LogoutReturns(t)
    BY <2>5, LeavingSteps
  <2> QED
    BY <1>3, <2>1, <2>2, <2>3, <2>4, <2>5 DEF ThreadStep
<1>4. CASE KernelStep(t)
  BY <1>4, BeginTaskSteps, ReceivingSteps DEF KernelStep
<1>5. CASE TargetStep(t)
  BY <1>5, TargetAnswersLoginSteps, TargetRefusesLoginSteps, TargetAnswersTextSteps, TargetAnswersLogoutSteps,
     TargetAnswersCommandSteps, TargetSendsNOPInSteps, LostSteps DEF TargetStep
<1> QED
  BY <1>1, <1>2, <1>3, <1>4, <1>5 DEF Does

LEMMA NextSteps ==
  ASSUME TypeInv, Next
  PROVE  TypeInv' /\ \E t \in Threads : Steps(t)
<1>1. PICK t \in Threads : Does(t)
  BY DEF Next, Does
<1> QED
  BY <1>1, OneSteps

\* A stuttering step changes nothing that is typed.
LEMMA StutterKeeps ==
  ASSUME TypeInv, UNCHANGED vars
  PROVE  TypeInv'
BY DEF TypeInv, vars, Rests, OfferOf

LEMMA InitTyped == Init => TypeInv
<1> SUFFICES ASSUME Init PROVE TypeInv
  OBVIOUS
<1>1. bhsBuffer \in Buffer
  BY DEF Init, Buffer, Stages
<1>2. IdleThread.pc = "idle" /\ IdleThread.at = "idle" /\ IdleThread = Ended(IdleThread, IdleThread.outcome)
  BY DEF IdleThread, Ended
<1>3. Rests(IdleThread, None, None, NoWire)
  BY <1>2 DEF Rests, Asking, LoginSteps
<1>4. /\ thread = [t \in Threads |-> IdleThread] /\ kernel = [t \in Threads |-> None]
      /\ target = [t \in Threads |-> None] /\ wire = [t \in Threads |-> NoWire]
  BY DEF Init
<1>5. \A t \in Threads : Rests(thread[t], kernel[t], target[t], wire[t])
  BY <1>3, <1>4
<1> QED
  BY <1>1, <1>4, <1>5, IdleTyped, WireTyped DEF TypeInv

LEMMA WithoutRsp == ASSUME NEW th \in Thread PROVE Without(th, "rsp") \in ThreadType
<1>1. DOMAIN th \ {"rsp"} = {"job", "at", "pc", "from", "to", "retrying", "retries", "transit", "statSN",
                             "tsih", "status", "error", "outcome"}
  BY DEF Thread
<1>2. Without(th, "rsp") =
         [job |-> th.job, at |-> th.at, pc |-> th.pc, from |-> th.from, to |-> th.to,
          retrying |-> th.retrying, retries |-> th.retries, transit |-> th.transit, statSN |-> th.statSN,
          tsih |-> th.tsih, status |-> th.status, error |-> th.error, outcome |-> th.outcome]
  BY <1>1 DEF Without
<1> QED
  BY <1>2 DEF Thread, ThreadType, Numbers

LEMMA TypeInvIsTypeOK == TypeInv => TypeOK
<1> SUFFICES ASSUME TypeInv, NEW t \in Threads
             PROVE  /\ Without(thread[t], "rsp") \in ThreadType
                    /\ thread[t].pc = "idle" => thread[t] = Ended(thread[t], thread[t].outcome)
                    /\ kernel[t] # None => kernel[t].cmdSN \in 0 .. Modulus - 1 /\ kernel[t].expStatSN \in 0 .. Modulus - 1
                    /\ kernel[t] # None => target[t] # None /\ target[t].stage \in Stages \cup {"closed"}
                    /\ kernel[t] = None => target[t] = None /\ wire[t] = NoWire
  BY DEF TypeOK
<1>1. /\ thread[t] \in Thread /\ kernel[t] \in Session \cup {None} /\ target[t] \in Target \cup {None}
      /\ Rests(thread[t], kernel[t], target[t], wire[t])
  BY Same
<1>2. Without(thread[t], "rsp") \in ThreadType
  BY <1>1, WithoutRsp
<1>3. kernel[t] # None => kernel[t].cmdSN \in 0 .. Modulus - 1 /\ kernel[t].expStatSN \in 0 .. Modulus - 1
  BY <1>1 DEF Session
<1>4. kernel[t] # None => target[t] # None /\ target[t].stage \in Stages \cup {"closed"}
  BY <1>1 DEF Rests, Target
<1> QED
  BY <1>1, <1>2, <1>3, <1>4 DEF Rests

LEMMA TypesKept == Spec => []TypeInv
<1>1. TypeInv /\ [Next]_vars => TypeInv'
  BY NextSteps, StutterKeeps
<1> QED
  BY InitTyped, <1>1, PTL DEF Spec

\* Whatever targets answer, in parts, late or not at all, threads, sessions and targets
\* keep their types: no query is retried more often than MaxRetryCount, and a session
\* of the kernel has a target, and a thread that is not idle works on its query
\* (iSCSISessionLoginQuery, iSCSISessionRelease).
THEOREM TypeCorrect == Spec => []TypeOK
BY TypesKept, TypeInvIsTypeOK, PTL

\* A session is only used when its thread is done with logging in; asking for the
\* methods is no part of that.
Idles(th, k) ==
    /\ k # None /\ k.active => th.at = "idle"
    /\ th.at \in LoginSteps \ {"interrogate"} => th.job.kind # "interrogate"

\* What the steps that begin and pass queries leave in the fields of a thread.
LEMMA BeginsGives ==
  ASSUME NEW th, NEW k, NEW x, NEW l, NEW h, NEW v, Begins(th, k, x, l, h, v)
  PROVE  /\ x.at \in {"auth", "interrogate"} /\ (x.at = "interrogate" <=> x.job.kind = "interrogate")
         /\ x.job \in Jobs /\ x.pc = "header" /\ x.rsp = NoKeys /\ x.status = "invalid" /\ ~x.retrying
         /\ x.from = "security" /\ x.to \in {"security", "operational"}
         /\ l = NewSession /\ v = NoWire /\ \E sn \in InitialStatSNs : h = NewTarget(sn)
<1>1. PICK job \in Jobs, at \in {"auth", "interrogate"}, to \in {"security", "operational"} :
         /\ at = "interrogate" <=> job.kind = "interrogate"
         /\ x = Ask([IdleThread EXCEPT !.job = job], at, "security", to)
  BY DEF Begins
<1> DEFINE q == [IdleThread EXCEPT !.job = job]
<1>2. q \in Thread /\ q.job = job
  BY JobThread
<1>3. q.status = "invalid"
  BY DEF IdleThread
<1>4. x = Ask(q, at, "security", to) /\ at \in LoginSteps \cup {"text", "logout"} /\ "security" \in Stages /\ to \in Stages
  BY <1>1 DEF Stages, LoginSteps
<1> HIDE DEF q
<1>5. /\ x.at = at /\ x.job = job /\ x.pc = "header" /\ x.rsp = NoKeys /\ x.status = "invalid" /\ ~x.retrying
      /\ x.from = "security" /\ x.to = to
  BY <1>2, <1>3, <1>4, AskTyped
<1> QED
  BY <1>1, <1>5 DEF Begins

LEMMA ReceivesGives ==
  ASSUME NEW th \in Thread, NEW k \in Session \cup {None}, NEW w, NEW x, NEW l, NEW v, Receives(th, k, w, x, l, v)
  PROVE  /\ k # None /\ k \in Session /\ l.active = k.active /\ l.settings = k.settings /\ l.cmdSN = k.cmdSN
         /\ l.expStatSN = IF Counts(Head(w.rsps)) THEN Next1(k.expStatSN) ELSE k.expStatSN
         /\ x.at = th.at /\ x.job = th.job /\ x.outcome = th.outcome /\ x.rsp \in {th.rsp, Head(w.rsps).keys}
         /\ \/ x = th
            \/ th.pc = "receive" /\ x.pc \in {"return", "header", "receive"} /\ (x.pc = "header" => x.retrying)
         /\ th.retrying => x.retrying
<1>1. k # None /\ k \in Session /\ l = [k EXCEPT !.expStatSN = IF Counts(Head(w.rsps)) THEN Next1(k.expStatSN) ELSE k.expStatSN]
  BY DEF Receives
<1>2. /\ l.active = k.active /\ l.settings = k.settings /\ l.cmdSN = k.cmdSN
      /\ l.expStatSN = IF Counts(Head(w.rsps)) THEN Next1(k.expStatSN) ELSE k.expStatSN
  BY <1>1 DEF Session
<1>3. CASE th.pc = "receive" /\ Heard(x, th, Head(w.rsps))
  BY <1>1, <1>2, <1>3 DEF Heard
<1>4. CASE x = th
  BY <1>1, <1>2, <1>4
<1>5. CASE th.pc = "receive" /\ x = Returned(th)
  <2>1. /\ x.at = th.at /\ x.job = th.job /\ x.outcome = th.outcome /\ x.rsp = th.rsp
        /\ x.pc = "return" /\ x.retrying = th.retrying
    BY <1>5 DEF Returned, Thread
  <2> QED
    BY <1>1, <1>2, <1>5, <2>1
<1> QED
  BY <1>3, <1>4, <1>5 DEF Receives

LEMMA ReleasesGives ==
  ASSUME NEW th \in Thread, NEW x, NEW l, NEW h, NEW v, Releases(th, x, l, h, v)
  PROVE  x.at \in {"idle", "text"} /\ (x.at = "idle" => x.outcome \in {"failed", "ended"}) /\ l = None
<1>1. CASE \E outcome \in {"failed", "ended"} : x = Ended(th, outcome)
  BY <1>1, EndedTyped DEF Releases
<1>2. CASE x = Ask(th, "text", "full", "full")
  BY <1>2, AskTyped DEF Stages, Releases
<1> QED
  BY <1>1, <1>2 DEF Releases

LEMMA AuthPassesGives ==
  ASSUME NEW th \in Thread, NEW k \in Session, NEW x, NEW l, AuthPasses(th, k, x, l)
  PROVE  /\ x.job = th.job /\ x.pc = "header" /\ x.rsp = NoKeys /\ ~x.retrying
         /\ \/ x.at = "chapStart"
            \/ x.at = "negotiate" /\ th.job.initiator = "None"
            \/ x.at = "blank" /\ th.rsp.auth # "CHAP"
         /\ l.active = k.active /\ l.settings = k.settings /\ l.cmdSN = k.cmdSN /\ l.expStatSN = Next1(th.statSN)
<1>1. /\ l.active = k.active /\ l.settings = k.settings /\ l.cmdSN = k.cmdSN /\ l.expStatSN = Next1(th.statSN)
  BY DEF AuthPasses, Session
<1>2. /\ "chapStart" \in LoginSteps \cup {"text", "logout"} /\ "negotiate" \in LoginSteps \cup {"text", "logout"}
      /\ "blank" \in LoginSteps \cup {"text", "logout"}
      /\ "security" \in Stages /\ "operational" \in Stages /\ "full" \in Stages
  BY DEF LoginSteps, Stages
<1>3. CASE x = Ask(th, "chapStart", "security", "security")
  <2>1. x.job = th.job /\ x.pc = "header" /\ x.rsp = NoKeys /\ ~x.retrying /\ x.at = "chapStart"
    BY <1>3, AskTyped DEF Stages, LoginSteps
  <2> QED
    BY <1>1, <2>1
<1>4. CASE x = Negotiates(th) /\ th.job.initiator = "None"
  <2>1. x = Ask(th, "negotiate", "operational", "full")
    BY <1>4 DEF Negotiates
  <2>2. x.job = th.job /\ x.pc = "header" /\ x.rsp = NoKeys /\ ~x.retrying /\ x.at = "negotiate"
    BY <2>1, AskTyped DEF Stages, LoginSteps
  <2> QED
    BY <1>1, <1>4, <2>2
<1>5. CASE x = Ask(th, "blank", "security", "operational") /\ th.rsp.auth # "CHAP"
  <2>1. x.job = th.job /\ x.pc = "header" /\ x.rsp = NoKeys /\ ~x.retrying /\ x.at = "blank"
    BY <1>5, AskTyped DEF Stages, LoginSteps
  <2> QED
    BY <1>1, <1>5, <2>1
<1> QED
  BY <1>3, <1>4, <1>5 DEF AuthPasses

LEMMA QueryPassesGives ==
  ASSUME NEW th \in Thread, NEW x, QueryPasses(th, x)
  PROVE  /\ x.job = th.job /\ x.pc = "header" /\ ~x.retrying
         /\ \/ th.at = "blank" /\ x.at = "negotiate" /\ x.rsp = NoKeys
            \/ th.at = "chapStart" /\ x.at = "chapAnswer" /\ x.rsp = th.rsp
            \/ th.at = "chapAnswer" /\ Proven(th) /\ x.at = "negotiate" /\ x.rsp = NoKeys
<1>1. /\ "chapAnswer" \in LoginSteps \cup {"text", "logout"} /\ "negotiate" \in LoginSteps \cup {"text", "logout"}
      /\ "security" \in Stages /\ "operational" \in Stages /\ "full" \in Stages
  BY DEF LoginSteps, Stages
<1>2. CASE (th.at = "blank" \/ (th.at = "chapAnswer" /\ Proven(th))) /\ x = Negotiates(th)
  <2>1. x = Ask(th, "negotiate", "operational", "full")
    BY <1>2 DEF Negotiates
  <2>2. \A a : a = Ask(th, "negotiate", "operational", "full") =>
               /\ a.job = th.job /\ a.pc = "header" /\ ~a.retrying /\ a.at = "negotiate" /\ a.rsp = NoKeys
    <3> SUFFICES ASSUME NEW a, a = Ask(th, "negotiate", "operational", "full")
                 PROVE  /\ a.job = th.job /\ a.pc = "header" /\ ~a.retrying
                        /\ a.at = "negotiate" /\ a.rsp = NoKeys
      OBVIOUS
    <3> QED
      BY <1>1, AskTyped, SMTT(30)
  <2> QED
    BY <1>2, <2>1, <2>2
<1>3. CASE th.at = "chapStart" /\ x = AskOn(th, "chapAnswer", "security", "operational")
  <2>1. x.job = th.job /\ x.pc = "header" /\ ~x.retrying /\ x.at = "chapAnswer" /\ x.rsp = th.rsp
    BY <1>1, <1>3, AskOnTyped, SMTT(30)
  <2> QED
    BY <1>3, <2>1
<1> QED
  BY <1>2, <1>3 DEF QueryPasses

LEMMA LogsInGives ==
  ASSUME NEW th \in Thread, NEW k \in Session, NEW x, NEW l, LogsIn(th, k, x, l)
  PROVE  /\ x.job = th.job /\ x.rsp = NoKeys /\ th.at = "negotiate" /\ th.pc = "return"
         /\ l.settings = Store(k.settings, OfferOf(th), th.rsp.settings)
         /\ l.cmdSN = k.cmdSN /\ l.expStatSN = k.expStatSN /\ l.tsih = th.tsih
         /\ \/ th.job.kind = "discover" /\ x.at = "text" /\ l.active = k.active
            \/ /\ th.job.kind # "discover" /\ x.at = "idle" /\ x.outcome = Reported(l.settings, th.job)
               /\ l.active
<1> DEFINE settings == Store(k.settings, OfferOf(th), th.rsp.settings)
<1> HIDE DEF settings
<1>1. th.at = "negotiate" /\ th.pc = "return"
  BY DEF LogsIn
<1>2. CASE /\ th.job.kind = "discover" /\ x = Ask(th, "text", "full", "full")
           /\ l = [k EXCEPT !.settings = settings, !.tsih = th.tsih]
  <2>1. x.job = th.job /\ x.rsp = NoKeys /\ x.at = "text"
    BY <1>2, AskTyped DEF Stages
  <2>2. l.settings = settings /\ l.cmdSN = k.cmdSN /\ l.expStatSN = k.expStatSN /\ l.tsih = th.tsih /\ l.active = k.active
    BY <1>2 DEF Session
  <2> QED
    BY <1>1, <1>2, <2>1, <2>2 DEF settings
<1>3. CASE /\ th.job.kind # "discover" /\ x = Ended(th, Reported(settings, th.job))
           /\ l = [k EXCEPT !.settings = settings, !.tsih = th.tsih, !.active = TRUE]
  <2>1. Reported(settings, th.job) \in {"failed", "loggedIn", "ended"}
    BY DEF Reported
  <2>2. x.job = th.job /\ x.rsp = NoKeys /\ x.at = "idle" /\ x.outcome = Reported(settings, th.job)
    BY <1>3, <2>1, EndedTyped
  <2>3. l.settings = settings /\ l.cmdSN = k.cmdSN /\ l.expStatSN = k.expStatSN /\ l.tsih = th.tsih /\ l.active
    BY <1>3 DEF Session
  <2> QED
    BY <1>1, <1>3, <2>2, <2>3 DEF settings
<1> QED
  BY <1>2, <1>3 DEF LogsIn, settings

LEMMA LeavesGives ==
  ASSUME NEW th \in Thread, NEW k \in Session \cup {None}, NEW x, NEW l, Leaves(th, k, x, l)
  PROVE  /\ k \in Session /\ k # None /\ x.job = th.job /\ x.rsp = NoKeys /\ x.at = "logout" /\ ~l.active
         /\ l.settings = k.settings /\ l.cmdSN = k.cmdSN /\ l.expStatSN = k.expStatSN
<1>1. x.job = th.job /\ x.rsp = NoKeys /\ x.at = "logout"
  BY AskTyped DEF Leaves, Stages
<1>2. k \in Session /\ k # None /\ l = [k EXCEPT !.active = FALSE]
  BY DEF Leaves
<1>3. ~l.active /\ l.settings = k.settings /\ l.cmdSN = k.cmdSN /\ l.expStatSN = k.expStatSN
  BY <1>2 DEF Session
<1> QED
  BY <1>1, <1>2, <1>3

LEMMA BeginsTaskGives ==
  ASSUME NEW k \in Session \cup {None}, NEW w, NEW l, NEW v, BeginsTask(k, w, l, v)
  PROVE  /\ k \in Session /\ k # None /\ k.active /\ l.active /\ l.settings = k.settings
         /\ l.cmdSN = Next1(k.cmdSN) /\ l.expStatSN = k.expStatSN
<1>1. k \in Session /\ k # None /\ k.active /\ l = [k EXCEPT !.cmdSN = Next1(k.cmdSN)]
  BY DEF BeginsTask
<1> QED
  BY <1>1 DEF Session

\* Sending, and failing to, is the query's own affair.
LEMMA SendsGives ==
  ASSUME NEW th \in Thread, NEW k, NEW w, NEW x, NEW v, SendsHeader(th, x) \/ QueryEnds(th, x) \/ SendsData(th, k, w, x, v)
  PROVE  /\ x.at = th.at /\ x.job = th.job /\ x.rsp = th.rsp /\ x.outcome = th.outcome /\ x.statSN = th.statSN
         /\ th.pc # "idle" /\ x.pc # "idle" /\ (th.retrying => x.retrying)
<1>1. CASE SendsHeader(th, x)
  BY <1>1 DEF SendsHeader, Thread
<1>2. CASE QueryEnds(th, x)
  BY <1>2 DEF QueryEnds, Goes, SameQuery
<1>3. CASE SendsData(th, k, w, x, v)
  BY <1>3 DEF SendsData, Thread
<1> QED
  BY <1>1, <1>2, <1>3

LEMMA StepIdles ==
  ASSUME NEW th \in Thread, NEW k \in Session \cup {None}, NEW g, NEW w, NEW x, NEW l, NEW h, NEW v,
         Rests(th, k, g, w), Idles(th, k), Step(th, k, g, w, x, l, h, v)
  PROVE  Idles(x, l)
<1> USE DEF Idles
<1>1. CASE (SendsHeader(th, x) \/ QueryEnds(th, x) \/ SendsData(th, k, w, x, v)) /\ l = k
  BY <1>1, SendsGives
<1>2. CASE Receives(th, k, w, x, l, v)
  BY <1>2, ReceivesGives
<1>3. CASE FailsToStart(th, k, x) /\ l = k
  <2>1. x.at = "idle"
    BY <1>3, JobThread, EndedTyped DEF FailsToStart
  <2> QED
    BY <1>3, <2>1 DEF LoginSteps
<1>4. CASE Begins(th, k, x, l, h, v)
  BY <1>4, BeginsGives, NewTyped
<1>5. CASE Releases(th, x, l, h, v)
  BY <1>5, ReleasesGives DEF LoginSteps
<1>6. CASE k # None /\ AuthPasses(th, k, x, l)
  BY <1>6, AuthPassesGives DEF AuthPasses, LoginSteps
<1>7. CASE k # None /\ QueryPasses(th, x) /\ l = k
  BY <1>7, QueryPassesGives DEF LoginSteps
<1>8. CASE k # None /\ LogsIn(th, k, x, l)
  BY <1>8, LogsInGives DEF LoginSteps
<1>9. CASE Leaves(th, k, x, l)
  BY <1>9, LeavesGives DEF LoginSteps
<1>10. CASE BeginsTask(k, w, l, v) /\ x = th
  BY <1>10, BeginsTaskGives
<1>11. CASE x = th /\ l = k
  BY <1>11
<1> QED
  BY <1>1, <1>2, <1>3, <1>4, <1>5, <1>6, <1>7, <1>8, <1>9, <1>10, <1>11 DEF Step

(***************************************************************************)
(* What a command to log in reports.                                       *)
(***************************************************************************)
\* No job has further portals to log in at and more than one connection to do it.
OnePath == \A job \in Jobs : job.portals <= 1 \/ job.cfg["MaxConnections"] <= 1

Accounted(th, k) ==
    /\ k # None /\ th.at \in LoginSteps => k.settings["MaxConnections"] = 1
    /\ th.at = "idle" => /\ th.outcome = "loggedIn" <=> k # None
                         /\ k # None => k.active

LEMMA OfferedConnections ==
  ASSUME NEW job \in Jobs, NEW discovery \in BOOLEAN, "MaxConnections" \in DOMAIN Offer(job.cfg, discovery)
  PROVE  Offer(job.cfg, discovery)["MaxConnections"] =
            IF job.cfg["MaxConnections"] # 0 THEN job.cfg["MaxConnections"] ELSE 1
<1>1. Defaults["MaxConnections"] = 1
  BY KeysAreApart, SMT DEF Defaults, DefaultNumber
<1>2. "MaxConnections" \notin DigestKeys
  BY DEF DigestKeys
<1> QED
  BY <1>1, <1>2, SMT DEF Offer

\* No more connections are agreed to than were offered.
LEMMA StoredConnections ==
  ASSUME NEW th, th.job \in Jobs, NEW settings, settings["MaxConnections"] = 1,
         NEW d \in Sayable(OfferOf(th)), th.job.cfg["MaxConnections"] <= 1
  PROVE  ~(Store(settings, OfferOf(th), d)["MaxConnections"] > 1)
<1> DEFINE n == "MaxConnections"
           o == OfferOf(th)
<1>1. n \in Keys /\ n \notin DigestKeys /\ n \notin Switches
  BY KeysAreApart
<1>2. CASE n \in Counted(o, d)
  <2>1. n \in DOMAIN d
    BY <1>2 DEF Counted
  <2>2. /\ DOMAIN o \subseteq Keys /\ \A k \in DOMAIN o : Fits(k, o[k])
    BY JobOffer
  <2>3. n \in DOMAIN o /\ Fits(n, d[n])
    BY <2>1, <2>2, SayableFits
  <2>4. d[n] \in Nat
    BY <1>1, <2>3 DEF Fits
  <2>5. (th.job.kind = "discover") \in BOOLEAN
    OBVIOUS
  <2>6. th.job.cfg[n] \in Nat
    BY JobTypes
  <2>7. o[n] = IF th.job.cfg[n] # 0 THEN th.job.cfg[n] ELSE 1
    BY <2>3, <2>5, OfferedConnections DEF OfferOf
  <2>8. o[n] = 1
    BY <2>6, <2>7
  <2>9. Combine(n, 1, d[n]) = IF 1 < d[n] THEN 1 ELSE d[n]
    BY <1>1, <2>4, KeysAreApart, SMT DEF Combine, LVGetMin
  <2>10. Store(settings, o, d)[n] = Combine(n, o[n], d[n])
    BY <1>1, <1>2 DEF Store
  <2> QED
    BY <2>4, <2>8, <2>9, <2>10
<1>3. CASE n \notin Counted(o, d)
  <2>1. Store(settings, o, d)[n] = settings[n]
    BY <1>1, <1>3 DEF Store
  <2> QED
    BY <2>1
<1> QED
  BY <1>2, <1>3

LEMMA StepAccounts ==
  ASSUME OnePath, NEW th \in Thread, NEW k \in Session \cup {None}, NEW g, NEW w, NEW x, NEW l, NEW h, NEW v,
         Rests(th, k, g, w), Rests(x, l, h, v), Accounted(th, k), Step(th, k, g, w, x, l, h, v)
  PROVE  Accounted(x, l)
<1> USE DEF Accounted
<1>12. k # None /\ h = g => l # None
  BY DEF Rests
<1>1. CASE (SendsHeader(th, x) \/ QueryEnds(th, x) \/ SendsData(th, k, w, x, v)) /\ l = k
  BY <1>1, SendsGives
<1>2. CASE Receives(th, k, w, x, l, v) /\ h = g
  <2>1. h = g => l # None
    BY <1>2, <1>12, ReceivesGives
  <2> QED
    BY <1>2, <2>1, ReceivesGives
<1>3. CASE FailsToStart(th, k, x) /\ l = k
  <2>1. x.at = "idle" /\ x.outcome = "failed" /\ k = None
    BY <1>3, JobThread, EndedTyped DEF FailsToStart
  <2> QED
    BY <1>3, <2>1 DEF LoginSteps
<1>4. CASE Begins(th, k, x, l, h, v)
  <2>1. Defaults["MaxConnections"] = 1
    BY KeysAreApart, SMT DEF Defaults, DefaultNumber
  <2> QED
    BY <1>4, <2>1, BeginsGives, NewTyped
<1>5. CASE Releases(th, x, l, h, v)
  BY <1>5, ReleasesGives DEF LoginSteps
<1>6. CASE k # None /\ AuthPasses(th, k, x, l)
  <2>1. th.at \in LoginSteps /\ x.at # "idle" /\ l.settings = k.settings
    BY <1>6, AuthPassesGives DEF AuthPasses, LoginSteps
  <2> QED
    BY <1>6, <2>1
<1>7. CASE k # None /\ QueryPasses(th, x) /\ l = k
  <2>1. th.at \in LoginSteps /\ x.at # "idle"
    BY <1>7, QueryPassesGives DEF LoginSteps
  <2> QED
    BY <1>7, <2>1
<1>8. CASE k # None /\ LogsIn(th, k, x, l) /\ h = g
  <2>1. th.at = "negotiate" /\ k.settings["MaxConnections"] = 1 /\ l.settings = Store(k.settings, OfferOf(th), th.rsp.settings)
    BY <1>8, LogsInGives DEF LoginSteps
  <2>2. CASE x.at = "text"
    BY <2>2 DEF LoginSteps
  <2>3. CASE x.at = "idle" /\ l.active /\ x.outcome = Reported(l.settings, th.job)
    <3>1. th.job \in Jobs /\ th.rsp.settings \in Sayable(OfferOf(th))
      BY <1>8, <2>1 DEF Rests
    <3>2. CASE th.job.cfg["MaxConnections"] <= 1
      <4>1. x.outcome = "loggedIn"
        BY <2>1, <2>3, <3>1, <3>2, StoredConnections DEF Reported
      <4> QED
        BY <1>8, <1>12, <2>3, <4>1 DEF LoginSteps
    <3>3. CASE th.job.portals <= 1
      <4>1. th.job.portals \in Nat
        BY <3>1, JobTypes
      <4>2. x.outcome = "loggedIn"
        BY <2>3, <3>3, <4>1 DEF Reported
      <4> QED
        BY <1>8, <1>12, <2>3, <4>2 DEF LoginSteps
    <3> QED
      BY <3>1, <3>2, <3>3 DEF OnePath
  <2> QED
    BY <1>8, <2>2, <2>3, LogsInGives
<1>9. CASE Leaves(th, k, x, l)
  BY <1>9, LeavesGives DEF LoginSteps
<1>10. CASE BeginsTask(k, w, l, v) /\ x = th /\ h = g
  BY <1>10, <1>12, BeginsTaskGives
<1>11. CASE x = th /\ l = k
  BY <1>11
<1> QED
  BY <1>1, <1>2, <1>3, <1>4, <1>5, <1>6, <1>7, <1>8, <1>9, <1>10, <1>11 DEF Step

LEMMA SameAfter ==
  ASSUME TypeInv', NEW t \in Threads
  PROVE  /\ thread'[t] \in Thread /\ kernel'[t] \in Session \cup {None} /\ target'[t] \in Target \cup {None}
         /\ wire'[t] \in Wire /\ Rests(thread'[t], kernel'[t], target'[t], wire'[t])
<1>1. Rests(thread[t], kernel[t], target[t], wire[t])'
  BY DEF TypeInv
<1>2. Rests(thread'[t], kernel'[t], target'[t], wire'[t])
  BY <1>1 DEF Rests, OfferOf
<1> QED
  BY <1>2 DEF TypeInv

AllAccounted == \A t \in Threads : Accounted(thread[t], kernel[t])

LEMMA OutcomeKept ==
  ASSUME OnePath PROVE TypeInv /\ AllAccounted /\ [Next]_vars => AllAccounted'
<1> SUFFICES ASSUME TypeInv, AllAccounted, [Next]_vars PROVE AllAccounted'
  OBVIOUS
<1>1. CASE Next
  <2>1. PICK t \in Threads : Steps(t)
    BY <1>1, NextSteps
  <2>2. TypeInv'
    BY <1>1, NextSteps
  <2>3. SUFFICES ASSUME NEW u \in Threads PROVE Accounted(thread'[u], kernel'[u])
    BY DEF AllAccounted, Accounted
  <2>4. Accounted(thread[u], kernel[u])
    BY DEF AllAccounted
  <2>5. CASE u = t
    <3>1. Step(thread[t], kernel[t], target[t], wire[t], thread'[t], kernel'[t], target'[t], wire'[t])
      BY <2>1 DEF Steps
    <3> QED
      BY <2>2, <2>4, <2>5, <3>1, Same, SameAfter, StepAccounts
  <2>6. CASE u # t
    BY <2>1, <2>4, <2>6 DEF Steps
  <2> QED
    BY <2>5, <2>6
<1>2. CASE UNCHANGED vars
  BY <1>2 DEF vars, AllAccounted, Accounted
<1> QED
  BY <1>1, <1>2

\* If no job has both several portals and several connections to use, a login reports
\* success exactly when it leaves an active session behind: whatever stage fails
\* (iSCSIAuthNegotiate, iSCSINegotiateSession), iSCSISessionLogin releases the session.
\* With several of both the report is that of a connection that is not added.
THEOREM OutcomeReported == ASSUME OnePath PROVE Spec => []OutcomeIsReported
<1>1. Init => AllAccounted
  BY LoginConstants DEF Init, AllAccounted, Accounted, IdleThread, LoginSteps
<1>2. TypeInv /\ AllAccounted /\ [Next]_vars => AllAccounted'
  BY OutcomeKept
<1>3. TypeInv /\ AllAccounted => OutcomeIsReported
  <2> SUFFICES ASSUME TypeInv, AllAccounted, NEW t \in Threads, thread[t].pc = "idle"
               PROVE  /\ thread[t].outcome = "loggedIn" <=> kernel[t] # None
                      /\ kernel[t] # None => kernel[t].active
    BY DEF OutcomeIsReported
  <2>1. thread[t].at = "idle"
    BY Same DEF Rests
  <2> QED
    BY <2>1 DEF AllAccounted, Accounted
<1> QED
  BY TypesKept, <1>1, <1>2, <1>3, PTL DEF Spec

AllIdle == \A t \in Threads : Idles(thread[t], kernel[t])

LEMMA IdlesKept == Spec => []AllIdle
<1>1. Init => AllIdle
  BY DEF Init, AllIdle, Idles, IdleThread, LoginSteps
<1>2. TypeInv /\ AllIdle /\ [Next]_vars => AllIdle'
  <2> SUFFICES ASSUME TypeInv, AllIdle, [Next]_vars PROVE AllIdle'
    OBVIOUS
  <2>1. CASE Next
    <3>1. PICK t \in Threads : Steps(t)
      BY <2>1, NextSteps
    <3>2. SUFFICES ASSUME NEW u \in Threads PROVE Idles(thread'[u], kernel'[u])
      BY DEF AllIdle, Idles
    <3>3. Idles(thread[u], kernel[u])
      BY DEF AllIdle
    <3>4. CASE u = t
      <4>1. Step(thread[t], kernel[t], target[t], wire[t], thread'[t], kernel'[t], target'[t], wire'[t])
        BY <3>1 DEF Steps
      <4> QED
        BY <3>3, <3>4, <4>1, Same, StepIdles
    <3>5. CASE u # t
      BY <3>1, <3>3, <3>5 DEF Steps
    <3> QED
      BY <3>4, <3>5
  <2>2. CASE UNCHANGED vars
    BY <2>2 DEF vars, AllIdle, Idles
  <2> QED
    BY <2>1, <2>2
<1> QED
  BY TypesKept, <1>1, <1>2, PTL DEF Spec

(***************************************************************************)
(* That a target is authenticated.                                         *)
(***************************************************************************)
Tells(w) == \E i \in 1 .. Len(w.reqs) : w.reqs[i].data.answer
Silent(w) == \A i \in 1 .. Len(w.rsps) : w.rsps[i].keys.proof = None

\* The challenge has not been sent.
Before(th) == \/ th.at \in {"auth", "chapStart", "interrogate"}
              \/ th.at = "chapAnswer" /\ ~th.retrying /\ th.pc \in {"header", "data"}

\* The challenge is sent once, and what the thread has, or is told, of the proof is
\* what the target gave.
Consistent(th, k, g, w) ==
    /\ \A i, j \in 1 .. Len(w.reqs) : w.reqs[i].data.answer /\ w.reqs[j].data.answer => i = j
    /\ Tells(w) => th.rsp.proof = None /\ Silent(w)
    /\ \A i \in 1 .. Len(w.rsps) : w.rsps[i].keys.proof \in {None, g.proof}
    /\ th.rsp.proof \in {None, g.proof}
    /\ Before(th) => ~Tells(w) /\ th.rsp.proof = None /\ Silent(w)
    /\ th.at # "blank"
    /\ th.at = "negotiate" \/ k.active => g.proof = "right" /\ ~Tells(w)

Proves(th, k, g, w) == k # None /\ Mutual(th.job) => Consistent(th, k, g, w)

LEMMA SendsProve ==
  ASSUME NEW th \in Thread, NEW k \in Session \cup {None}, NEW g, NEW w \in Wire, NEW x, NEW v, th.job \in Jobs,
         Idles(th, k), Consistent(th, k, g, w), SendsData(th, k, w, x, v)
  PROVE  Consistent(x, k, g, v)
<1>1. PICK r \in Requests : r.data = Data(th) /\ v = [w EXCEPT !.reqs = Append(w.reqs, r)]
  BY DEF SendsData
<1>2. /\ v.reqs = Append(w.reqs, r) /\ v.rsps = w.rsps /\ Len(v.reqs) = Len(w.reqs) + 1 /\ Len(w.reqs) \in Nat
      /\ v.reqs[Len(w.reqs) + 1] = r /\ \A i \in 1 .. Len(w.reqs) : v.reqs[i] = w.reqs[i]
  BY <1>1, AppendTyped
<1>3. r.data.answer <=> th.at = "chapAnswer" /\ ~th.retrying
  BY <1>1, DataTyped
<1>4. /\ x.at = th.at /\ x.job = th.job /\ x.rsp = th.rsp /\ x.pc = "receive" /\ x.retrying = th.retrying
      /\ th.pc = "data" /\ k # None
  BY DEF SendsData, Thread
<1>5. r.data.answer => Before(th)
  BY <1>3, <1>4 DEF Before
<1>6. Tells(v) => Tells(w) \/ r.data.answer
  BY <1>2 DEF Tells
<1>7. Silent(w) => Silent(v)
  BY <1>2 DEF Silent
<1>8. ASSUME NEW i \in 1 .. Len(v.reqs), NEW j \in 1 .. Len(v.reqs), v.reqs[i].data.answer, v.reqs[j].data.answer
      PROVE  i = j
  <2>1. CASE i \in 1 .. Len(w.reqs) /\ j \in 1 .. Len(w.reqs)
    BY <1>2, <1>8, <2>1 DEF Consistent
  <2>2. CASE i = Len(w.reqs) + 1 /\ j = Len(w.reqs) + 1
    BY <2>2
  <2>3. CASE i = Len(w.reqs) + 1 /\ j \in 1 .. Len(w.reqs)
    BY <1>2, <1>5, <1>8, <2>3 DEF Consistent, Tells
  <2>4. CASE j = Len(w.reqs) + 1 /\ i \in 1 .. Len(w.reqs)
    BY <1>2, <1>5, <1>8, <2>4 DEF Consistent, Tells
  <2> QED
    BY <1>2, <2>1, <2>2, <2>3, <2>4
<1>9. Tells(v) => x.rsp.proof = None /\ Silent(v)
  BY <1>4, <1>5, <1>6, <1>7 DEF Consistent
<1>10. \A i \in 1 .. Len(v.rsps) : v.rsps[i].keys.proof \in {None, g.proof}
  BY <1>2 DEF Consistent
<1>11. Before(x) => th.at \in {"auth", "chapStart", "interrogate"}
  BY <1>4 DEF Before
<1>12. Before(x) => ~Tells(v) /\ x.rsp.proof = None /\ Silent(v)
  BY <1>3, <1>4, <1>6, <1>7, <1>11 DEF Consistent, Before
<1>13. x.at = "negotiate" \/ k.active => g.proof = "right" /\ ~Tells(v)
  <2>1. k.active => th.at = "idle"
    BY <1>4 DEF Idles
  <2> QED
    BY <1>3, <1>4, <1>6, <2>1 DEF Consistent
<1>14. x.rsp.proof \in {None, g.proof} /\ x.at # "blank"
  BY <1>4 DEF Consistent
<1> QED
  BY <1>8, <1>9, <1>10, <1>12, <1>13, <1>14 DEF Consistent

LEMMA ReceivesProve ==
  ASSUME NEW th \in Thread, NEW k \in Session \cup {None}, NEW g, NEW w \in Wire, NEW x, NEW l, NEW v,
         Consistent(th, k, g, w), Receives(th, k, w, x, l, v)
  PROVE  Consistent(x, l, g, v)
<1>1. /\ l.active = k.active /\ x.at = th.at /\ x.job = th.job /\ x.rsp \in {th.rsp, Head(w.rsps).keys}
      /\ \/ x = th
         \/ th.pc = "receive" /\ x.pc \in {"return", "header", "receive"} /\ (x.pc = "header" => x.retrying)
  BY ReceivesGives
<1>2. w.rsps # <<>> /\ v = [w EXCEPT !.rsps = Tail(w.rsps)]
  BY DEF Receives
<1>3. /\ v.reqs = w.reqs /\ v.rsps = Tail(w.rsps) /\ Head(w.rsps) = w.rsps[1] /\ 1 \in 1 .. Len(w.rsps)
      /\ \A i \in 1 .. Len(Tail(w.rsps)) : i + 1 \in 1 .. Len(w.rsps) /\ Tail(w.rsps)[i] = w.rsps[i + 1]
  BY <1>2, TailTyped
<1>4. (Tells(v) => Tells(w)) /\ (Silent(w) => Silent(v))
  BY <1>3 DEF Tells, Silent
<1>5. /\ x.rsp.proof \in {None, g.proof}
      /\ Silent(w) /\ th.rsp.proof = None => x.rsp.proof = None
  BY <1>1, <1>3 DEF Consistent, Silent
<1>6. \A i \in 1 .. Len(v.rsps) : v.rsps[i].keys.proof \in {None, g.proof}
  BY <1>3 DEF Consistent
<1>7. Before(x) => Before(th)
  BY <1>1 DEF Before
<1>8. \A i, j \in 1 .. Len(v.reqs) : v.reqs[i].data.answer /\ v.reqs[j].data.answer => i = j
  BY <1>3 DEF Consistent
<1> QED
  BY <1>1, <1>4, <1>5, <1>6, <1>7, <1>8 DEF Consistent

\* A thread that begins, or asks, with nothing left to tell of.
LEMMA EmptyTells ==
  ASSUME NEW w, w.reqs = <<>>
  PROVE  ~Tells(w) /\ Len(w.reqs) = 0
BY DEF Tells

LEMMA EmptySilent ==
  ASSUME NEW w, w.rsps = <<>>
  PROVE  Silent(w) /\ Len(w.rsps) = 0
BY DEF Silent

LEMMA AnswersProve ==
  ASSUME NEW th, NEW k, NEW g \in Target, NEW w \in Wire, NEW h, NEW v,
         Consistent(th, k, g, w), TargetAnswers(k, g, w, h, v)
  PROVE  Consistent(th, k, h, v)
<1>1. PICK new, pdus : /\ Made(g, Head(w.reqs), new, pdus)
                       /\ h = [new EXCEPT !.statSN = (@ + Len(pdus)) % Modulus]
                       /\ v = [w EXCEPT !.reqs = Tail(w.reqs), !.rsps = w.rsps \o Numbered(pdus, g.statSN)]
  BY DEF TargetAnswers
<1> DEFINE q == Numbered(pdus, g.statSN)
           r == Head(w.reqs)
<1>2. /\ new \in Target /\ pdus \in Seq(Responses) /\ w.reqs # <<>>
      /\ \/ new.proof = g.proof /\ \A i \in 1 .. Len(pdus) : pdus[i].keys.proof = None
         \/ r.data.answer /\ \A i \in 1 .. Len(pdus) : pdus[i].keys.proof \in {None, new.proof}
  BY <1>1 DEF Made, TargetAnswers
<1>3. q \in Seq(Responses) /\ Len(q) = Len(pdus) /\ \A i \in 1 .. Len(pdus) : q[i].keys = pdus[i].keys
  BY <1>2, NumberedTyped DEF Target, Numbers
<1>4. h.proof = new.proof
  BY <1>1, <1>2 DEF Target
<1> HIDE DEF q
<1>5. w.reqs \in Seq(Requests) /\ w.rsps \in Seq(Responses) /\ v.reqs = Tail(w.reqs) /\ v.rsps = w.rsps \o q
  BY <1>1 DEF Wire, q
<1>6. /\ r = w.reqs[1] /\ 1 \in 1 .. Len(w.reqs) /\ Len(w.reqs) \in Nat
      /\ \A i \in 1 .. Len(v.reqs) : i \in Nat /\ i + 1 \in 1 .. Len(w.reqs) /\ i + 1 # 1 /\ v.reqs[i] = w.reqs[i + 1]
  <2>1. Len(w.reqs) \in Nat /\ Len(w.reqs) # 0
    BY <1>2, <1>5
  <2>2. Len(Tail(w.reqs)) = Len(w.reqs) - 1
    BY <1>2, <1>5
  <2>3. \A i \in 1 .. Len(Tail(w.reqs)) : i \in Nat /\ i + 1 \in 1 .. Len(w.reqs) /\ i + 1 # 1 /\ Tail(w.reqs)[i] = w.reqs[i + 1]
    BY <1>2, <1>5, <2>1, <2>2
  <2> QED
    BY <1>2, <1>5, <2>1, <2>3
<1>7. /\ Len(w.rsps) \in Nat
      /\ \A i \in 1 .. Len(v.rsps) : \/ i \in 1 .. Len(w.rsps) /\ v.rsps[i] = w.rsps[i]
                                     \/ i - Len(w.rsps) \in 1 .. Len(q) /\ v.rsps[i] = q[i - Len(w.rsps)]
  BY <1>3, <1>5, Joined
<1> HIDE DEF r
<1>8. Tells(v) => Tells(w) /\ ~r.data.answer
  <2> SUFFICES ASSUME NEW i \in 1 .. Len(v.reqs), v.reqs[i].data.answer
               PROVE  Tells(w) /\ ~r.data.answer
    BY DEF Tells
  <2>1. i + 1 \in 1 .. Len(w.reqs) /\ i + 1 # 1 /\ w.reqs[i + 1].data.answer
    BY <1>6
  <2> QED
    BY <1>6, <2>1 DEF Consistent, Tells
<1>9. r.data.answer => Tells(w) /\ ~Tells(v)
  BY <1>6, <1>8 DEF Tells
<1>10. \A i, j \in 1 .. Len(v.reqs) : v.reqs[i].data.answer /\ v.reqs[j].data.answer => i = j
  <2> SUFFICES ASSUME NEW i \in 1 .. Len(v.reqs), NEW j \in 1 .. Len(v.reqs), v.reqs[i].data.answer, v.reqs[j].data.answer
               PROVE  i = j
    OBVIOUS
  <2>1. /\ i + 1 \in 1 .. Len(w.reqs) /\ j + 1 \in 1 .. Len(w.reqs) /\ i \in Nat /\ j \in Nat
        /\ w.reqs[i + 1].data.answer /\ w.reqs[j + 1].data.answer
    BY <1>6
  <2>2. i + 1 = j + 1
    BY <2>1 DEF Consistent
  <2> QED
    BY <2>1, <2>2
<1>11. CASE r.data.answer
  <2>1. Tells(w) /\ ~Tells(v) /\ th.rsp.proof = None /\ Silent(w) /\ ~Before(th)
    BY <1>9, <1>11 DEF Consistent
  <2>2. th.at # "negotiate" /\ ~k.active /\ th.at # "blank"
    BY <2>1 DEF Consistent
  <2>3. \A i \in 1 .. Len(v.rsps) : v.rsps[i].keys.proof \in {None, h.proof}
    <3>1. \A i \in 1 .. Len(pdus) : pdus[i].keys.proof \in {None, new.proof}
      BY <1>2
    <3>2. \A i \in 1 .. Len(w.rsps) : w.rsps[i].keys.proof = None
      BY <2>1 DEF Silent
    <3>3. \A i \in 1 .. Len(q) : q[i].keys.proof \in {None, new.proof}
      BY <1>3, <3>1
    <3> SUFFICES ASSUME NEW i \in 1 .. Len(v.rsps)
                 PROVE  v.rsps[i].keys.proof \in {None, h.proof}
      OBVIOUS
    <3>4. CASE i \in 1 .. Len(w.rsps) /\ v.rsps[i] = w.rsps[i]
      BY <3>2, <3>4
    <3>5. CASE i - Len(w.rsps) \in 1 .. Len(q) /\ v.rsps[i] = q[i - Len(w.rsps)]
      BY <1>4, <3>3, <3>5
    <3> QED
      BY <1>7, <3>4, <3>5
  <2> QED
    BY <1>10, <2>1, <2>2, <2>3 DEF Consistent
<1>12. CASE ~r.data.answer
  <2>1. h.proof = g.proof /\ \A i \in 1 .. Len(pdus) : pdus[i].keys.proof = None
    BY <1>2, <1>4, <1>12 DEF r
  <2>2. \A i \in 1 .. Len(v.rsps) : v.rsps[i].keys.proof \in {None, h.proof}
    <3>1. \A i \in 1 .. Len(w.rsps) : w.rsps[i].keys.proof \in {None, h.proof}
      BY <2>1 DEF Consistent
    <3>2. \A i \in 1 .. Len(q) : q[i].keys.proof = None
      BY <1>3, <2>1
    <3> SUFFICES ASSUME NEW i \in 1 .. Len(v.rsps)
                 PROVE  v.rsps[i].keys.proof \in {None, h.proof}
      OBVIOUS
    <3>3. CASE i \in 1 .. Len(w.rsps) /\ v.rsps[i] = w.rsps[i]
      BY <3>1, <3>3
    <3>4. CASE i - Len(w.rsps) \in 1 .. Len(q) /\ v.rsps[i] = q[i - Len(w.rsps)]
      BY <3>2, <3>4
    <3> QED
      BY <1>7, <3>3, <3>4
  <2>3. Silent(w) => Silent(v)
    BY <1>3, <1>7, <2>1 DEF Silent
  <2> QED
    BY <1>8, <1>10, <2>1, <2>2, <2>3 DEF Consistent
<1> QED
  BY <1>11, <1>12

\* A thread that asks on, and a target that only moves on, are as consistent as before.
LEMMA AsksProve ==
  ASSUME NEW th, NEW k, NEW g, NEW w, NEW x, NEW l, Consistent(th, k, g, w), x.rsp \in {th.rsp, NoKeys},
         Before(x) => Before(th), x.at # "blank",
         x.at = "negotiate" \/ l.active => g.proof = "right" /\ ~Tells(w)
  PROVE  Consistent(x, l, g, w)
<1>1. /\ th.rsp.proof = None => x.rsp.proof = None
      /\ th.rsp.proof \in {None, g.proof} => x.rsp.proof \in {None, g.proof}
  BY NothingIsSaid
<1> QED
  BY <1>1 DEF Consistent

LEMMA StepProves ==
  ASSUME NEW th \in Thread, NEW k \in Session \cup {None}, NEW g \in Target \cup {None}, NEW w \in Wire,
         NEW x, NEW l, NEW h, NEW v,
         Rests(th, k, g, w), Idles(th, k), Proves(th, k, g, w), Step(th, k, g, w, x, l, h, v)
  PROVE  Proves(x, l, h, v)
<1> SUFFICES ASSUME l # None, Mutual(x.job) PROVE Consistent(x, l, h, v)
  BY DEF Proves
<1>0. /\ k # None /\ x.job = th.job => Consistent(th, k, g, w) /\ g \in Target /\ th.job \in Jobs
      /\ x.job.initiator # "None" /\ (x.job.kind # "interrogate" => MethodsOffered(x.job) = {"CHAP"})
  <2>1. k # None => g \in Target /\ th.job \in Jobs
    BY DEF Rests
  <2>2. x.job.initiator # "None" /\ (x.job.kind # "interrogate" => MethodsOffered(x.job) = {"CHAP"})
    BY DEF Mutual, MethodsOffered
  <2> QED
    BY <2>1, <2>2 DEF Proves
<1>1. CASE SendsHeader(th, x) /\ l = k /\ h = g /\ v = w
  <2>1. x.at = th.at /\ x.job = th.job /\ x.rsp = th.rsp /\ x.retrying = th.retrying /\ th.pc = "header"
    BY <1>1 DEF SendsHeader, Thread
  <2>2. Consistent(th, k, g, w) /\ (Before(x) => Before(th))
    BY <1>0, <1>1, <2>1 DEF Before
  <2>3. /\ x.at # "blank" /\ (x.at = "negotiate" \/ l.active => g.proof = "right" /\ ~Tells(w))
    BY <1>1, <2>1, <2>2 DEF Consistent
  <2> QED
    BY <1>1, <2>1, <2>2, <2>3, AsksProve
<1>2. CASE QueryEnds(th, x) /\ l = k /\ h = g /\ v = w
  <2>1. x.at = th.at /\ x.job = th.job /\ x.rsp = th.rsp /\ (x.pc = "header" => x.retrying) /\ x.pc \in {"return", "header"}
    BY <1>2 DEF QueryEnds, Goes, SameQuery
  <2>2. Consistent(th, k, g, w) /\ (Before(x) => Before(th))
    BY <1>0, <1>2, <2>1 DEF Before
  <2>3. /\ x.at # "blank" /\ (x.at = "negotiate" \/ l.active => g.proof = "right" /\ ~Tells(w))
    BY <1>2, <2>1, <2>2 DEF Consistent
  <2> QED
    BY <1>2, <2>1, <2>2, <2>3, AsksProve
<1>3. CASE SendsData(th, k, w, x, v) /\ l = k /\ h = g
  <2>1. k # None /\ x.job = th.job
    BY <1>3, SendsGives DEF SendsData
  <2> QED
    BY <1>0, <1>3, <2>1, SendsProve
<1>4. CASE Receives(th, k, w, x, l, v) /\ h = g
  <2>1. k # None /\ x.job = th.job
    BY <1>4, ReceivesGives
  <2> QED
    BY <1>0, <1>4, <2>1, ReceivesProve
<1>5. CASE FailsToStart(th, k, x) /\ l = k
  BY <1>5 DEF FailsToStart
<1>6. CASE Begins(th, k, x, l, h, v)
  <2>1. /\ x.at \in {"auth", "interrogate"} /\ x.rsp = NoKeys /\ l = NewSession /\ v = NoWire
    BY <1>6, BeginsGives
  <2>2. ~l.active
    BY <2>1, NewTyped
  <2>3. v.reqs = <<>> /\ v.rsps = <<>>
    BY <2>1, WireTyped
  <2>4. ~Tells(v) /\ Silent(v) /\ Len(v.reqs) = 0 /\ Len(v.rsps) = 0
    BY <2>3, EmptyTells, EmptySilent
  <2>5. x.rsp.proof = None
    BY <2>1, NothingIsSaid
  <2> QED
    BY <2>1, <2>2, <2>4, <2>5 DEF Consistent
<1>7. CASE Releases(th, x, l, h, v)
  BY <1>7 DEF Releases
<1>8. CASE k # None /\ AuthPasses(th, k, x, l) /\ h = g /\ v = w
  <2>1. /\ x.job = th.job /\ x.rsp = NoKeys /\ l.active = k.active
        /\ \/ x.at = "chapStart"
           \/ x.at = "negotiate" /\ th.job.initiator = "None"
           \/ x.at = "blank" /\ th.rsp.auth # "CHAP"
    BY <1>8, AuthPassesGives
  <2>2. Consistent(th, k, g, w)
    BY <1>0, <1>8, <2>1
  <2>3. th.at = "auth" /\ th.rsp.auth \in MethodsOffered(th.job)
    BY <1>8 DEF AuthPasses, Acceptable
  <2>4. th.job.kind # "interrogate" /\ ~k.active
    BY <1>8, <2>3 DEF Idles, LoginSteps
  <2>5. x.at = "chapStart"
    BY <1>0, <2>1, <2>3, <2>4
  <2>6. Before(th)
    BY <2>3 DEF Before
  <2> QED
    BY <1>8, <2>1, <2>2, <2>4, <2>5, <2>6, AsksProve
<1>9. CASE k # None /\ QueryPasses(th, x) /\ l = k /\ h = g /\ v = w
  <2>1. /\ x.job = th.job
        /\ \/ th.at = "blank" /\ x.at = "negotiate" /\ x.rsp = NoKeys
           \/ th.at = "chapStart" /\ x.at = "chapAnswer" /\ x.rsp = th.rsp
           \/ th.at = "chapAnswer" /\ Proven(th) /\ x.at = "negotiate" /\ x.rsp = NoKeys
    BY <1>9, QueryPassesGives
  <2>2. Consistent(th, k, g, w) /\ th.at # "blank"
    BY <1>0, <1>9, <2>1 DEF Consistent
  <2>3. ~k.active
    BY <1>9, <2>1 DEF Idles
  <2>4. CASE th.at = "chapStart" /\ x.at = "chapAnswer" /\ x.rsp = th.rsp
    <3>1. Before(th)
      BY <2>4 DEF Before
    <3> QED
      BY <1>9, <2>2, <2>3, <2>4, <3>1, AsksProve
  <2>5. CASE th.at = "chapAnswer" /\ Proven(th) /\ x.at = "negotiate" /\ x.rsp = NoKeys
    <3>1. th.rsp.proof = "right"
      BY <2>1, <2>5 DEF Proven
    <3>2. "right" # None
      BY LoginConstants
    <3>3. g.proof = "right" /\ ~Tells(w)
      BY <2>2, <3>1, <3>2 DEF Consistent
    <3>4. ~Before(x)
      BY <2>5 DEF Before
    <3> QED
      BY <1>9, <2>2, <2>5, <3>3, <3>4, AsksProve
  <2> QED
    BY <2>1, <2>2, <2>4, <2>5
<1>10. CASE k # None /\ LogsIn(th, k, x, l) /\ h = g /\ v = w
  <2>1. x.job = th.job /\ x.rsp = NoKeys /\ th.at = "negotiate" /\ x.at \in {"text", "idle"}
    BY <1>10, LogsInGives
  <2>2. Consistent(th, k, g, w)
    BY <1>0, <1>10, <2>1
  <2>3. g.proof = "right" /\ ~Tells(w)
    BY <2>1, <2>2 DEF Consistent
  <2>4. ~Before(x)
    BY <2>1 DEF Before
  <2> QED
    BY <1>10, <2>1, <2>2, <2>3, <2>4, AsksProve
<1>11. CASE Leaves(th, k, x, l) /\ h = g /\ v = w
  <2>1. k # None /\ x.job = th.job /\ x.rsp = NoKeys /\ x.at = "logout" /\ ~l.active
    BY <1>11, LeavesGives
  <2>2. Consistent(th, k, g, w)
    BY <1>0, <2>1
  <2>3. ~Before(x)
    BY <2>1 DEF Before
  <2> QED
    BY <1>11, <2>1, <2>2, <2>3, AsksProve
<1>12. CASE BeginsTask(k, w, l, v) /\ x = th /\ h = g
  <2>1. k # None /\ k.active /\ l.active /\ w = NoWire
    BY <1>12, BeginsTaskGives DEF BeginsTask
  <2>2. PICK r \in Requests : r.data = NoData /\ v = [w EXCEPT !.reqs = Append(w.reqs, r)]
    BY <1>12 DEF BeginsTask
  <2>3. w.reqs = <<>> /\ w.rsps = <<>> /\ Len(w.reqs) = 0
    BY <2>1, WireTyped
  <2>4. v.rsps = <<>> /\ Len(v.reqs) = 1 /\ v.reqs[1] = r
    BY <2>2, <2>3, AppendTyped
  <2>5. ~r.data.answer
    BY <2>2 DEF NoData
  <2>6. ~Tells(v) /\ \A i, j \in 1 .. Len(v.reqs) : i = j
    BY <2>4, <2>5 DEF Tells
  <2>7. Silent(v) /\ Len(v.rsps) = 0 /\ Silent(w) /\ ~Tells(w)
    BY <2>3, <2>4, EmptySilent, EmptyTells
  <2>8. Consistent(th, k, g, w)
    BY <1>0, <1>12, <2>1
  <2> QED
    BY <1>12, <2>1, <2>6, <2>7, <2>8 DEF Consistent
<1>13. CASE TargetAnswers(k, g, w, h, v) /\ x = th /\ l = k
  BY <1>0, <1>13, AnswersProve DEF TargetAnswers
<1>14. CASE TargetAsks(k, g, w, v) /\ x = th /\ l = k /\ h = g
  <2>1. Consistent(th, k, g, w)
    BY <1>0, <1>14 DEF TargetAsks
  <2>2. PICK r \in Responses : r.keys = NoKeys /\ v = [w EXCEPT !.rsps = <<r>>]
    BY <1>14 DEF TargetAsks
  <2>3. v.reqs = w.reqs /\ v.rsps = <<r>>
    BY <2>2 DEF Wire
  <2>4. Len(v.rsps) = 1 /\ \A i \in 1 .. Len(v.rsps) : v.rsps[i].keys.proof = None
    BY <2>2, <2>3, NothingIsSaid
  <2>5. Silent(v) /\ (Tells(v) => Tells(w))
    BY <2>3, <2>4 DEF Silent, Tells
  <2> QED
    BY <1>14, <2>1, <2>3, <2>4, <2>5 DEF Consistent
<1>15. CASE IsLost(k, w, v) /\ x = th /\ l = k /\ h = g
  <2>1. Consistent(th, k, g, w)
    BY <1>0, <1>15 DEF IsLost
  <2>2. v.reqs = <<>> /\ v.rsps = <<>>
    BY <1>15, WireTyped DEF IsLost
  <2>3. ~Tells(v) /\ Silent(v) /\ Len(v.reqs) = 0 /\ Len(v.rsps) = 0
    BY <2>2, EmptyTells, EmptySilent
  <2> QED
    BY <1>15, <2>1, <2>3 DEF Consistent
<1> QED
  BY <1>1, <1>2, <1>3, <1>4, <1>5, <1>6, <1>7, <1>8, <1>9, <1>10, <1>11, <1>12, <1>13, <1>14, <1>15 DEF Step

AllProve == \A t \in Threads : Proves(thread[t], kernel[t], target[t], wire[t])

\* No session is used, whose initiator is to authenticate the target, unless the target
\* has proved that it knows the secret: there is no answer, and no order of answers,
\* that leads past iSCSIAuthNegotiateCHAP.
THEOREM MutualKept == Spec => []MutualIsKept
<1>1. Init => AllProve
  BY DEF Init, AllProve, Proves
<1>2. TypeInv /\ AllIdle /\ AllProve /\ [Next]_vars => AllProve'
  <2> SUFFICES ASSUME TypeInv, AllIdle, AllProve, [Next]_vars PROVE AllProve'
    OBVIOUS
  <2>1. CASE Next
    <3>1. PICK t \in Threads : Steps(t)
      BY <2>1, NextSteps
    <3>2. SUFFICES ASSUME NEW u \in Threads PROVE Proves(thread'[u], kernel'[u], target'[u], wire'[u])
      BY DEF AllProve, Proves, Consistent, Before, Tells, Silent, Mutual
    <3>3. Proves(thread[u], kernel[u], target[u], wire[u]) /\ Idles(thread[u], kernel[u])
      BY DEF AllProve, AllIdle
    <3>4. CASE u = t
      <4>1. Step(thread[t], kernel[t], target[t], wire[t], thread'[t], kernel'[t], target'[t], wire'[t])
        BY <3>1 DEF Steps
      <4> QED
        <5>1. /\ thread[t] \in Thread /\ kernel[t] \in Session \cup {None} /\ target[t] \in Target \cup {None}
              /\ wire[t] \in Wire /\ Rests(thread[t], kernel[t], target[t], wire[t])
          BY Same
        <5>2. Proves(thread[t], kernel[t], target[t], wire[t]) /\ Idles(thread[t], kernel[t])
          BY <3>3, <3>4
        <5>3. Proves(thread'[t], kernel'[t], target'[t], wire'[t])
          BY <4>1, <5>1, <5>2, StepProves
        <5> QED
          BY <3>4, <5>3
    <3>5. CASE u # t
      BY <3>1, <3>3, <3>5 DEF Steps
    <3> QED
      BY <3>4, <3>5
  <2>2. CASE UNCHANGED vars
    BY <2>2 DEF vars, AllProve, Proves, Consistent, Before, Tells, Silent, Mutual
  <2> QED
    BY <2>1, <2>2
<1>3. AllProve => MutualIsKept
  BY DEF AllProve, Proves, Consistent, MutualIsKept
<1> QED
  BY TypesKept, IdlesKept, <1>1, <1>2, <1>3, PTL DEF Spec

(***************************************************************************)
(* The numbers that the daemon, the kernel and the target count.           *)
(***************************************************************************)
\* No status number has come round to where it is not counted.
Low(g) == g # None => g.statSN + 2 < Modulus
Unwrapped == \A t \in Threads : Low(target[t])

\* Only the first response may be one that is not counted, and only in the full
\* feature phase; the others are numbered one after the other.
InOrder(th, k, g, w) ==
    /\ \A i \in 1 .. Len(w.rsps) :
          IF w.rsps[i].tagged THEN Granted(w.rsps[i]) /\ w.rsps[i].statSN = g.statSN - 1 - (Len(w.rsps) - i)
          ELSE i = 1
    /\ ~(k.active \/ th.at = "logout") => \A i \in 1 .. Len(w.rsps) : w.rsps[i].tagged

\* How many of the responses are still to be counted.
InFlight(w) == IF Len(w.rsps) # 0 /\ ~w.rsps[1].tagged THEN Len(w.rsps) - 1 ELSE Len(w.rsps)

Expected(th, k, g, w) ==
    /\ th.at \notin {"auth", "interrogate"} => k.expStatSN + InFlight(w) = g.statSN
    /\ th.at = "auth" /\ th.status = "success" => th.statSN + 1 + Len(w.rsps) = g.statSN

\* A command is asked alone, and is the one that the target expects.
Commands(k, g, w) ==
    /\ \A i \in 1 .. Len(w.reqs) : w.reqs[i].header.op = "command" => i = 1 /\ w.reqs[1].cmdSN = g.expCmdSN
    /\ k.cmdSN = IF Len(w.reqs) # 0 /\ w.reqs[1].header.op = "command" THEN Next1(g.expCmdSN) ELSE g.expCmdSN

InTurn(th, k, g, w) ==
    k # None /\ ~w.lost /\ g.stage # "closed" => InOrder(th, k, g, w) /\ Expected(th, k, g, w) /\ Commands(k, g, w)

LEMMA SendsInTurn ==
  ASSUME NEW th \in Thread, NEW k, NEW g, NEW w \in Wire, NEW x, NEW v,
         InOrder(th, k, g, w), Expected(th, k, g, w), Commands(k, g, w), SendsData(th, k, w, x, v)
  PROVE  InOrder(x, k, g, v) /\ Expected(x, k, g, v) /\ Commands(k, g, v)
<1>1. PICK r \in Requests : r.header \in Buffer /\ v = [w EXCEPT !.reqs = Append(w.reqs, r)]
  BY DEF SendsData
<1>2. /\ v.reqs = Append(w.reqs, r) /\ v.rsps = w.rsps /\ Len(v.reqs) = Len(w.reqs) + 1 /\ Len(w.reqs) \in Nat
      /\ v.reqs[Len(w.reqs) + 1] = r /\ \A i \in 1 .. Len(w.reqs) : v.reqs[i] = w.reqs[i]
  BY <1>1, AppendTyped
<1>3. x.at = th.at /\ x.status = th.status /\ x.statSN = th.statSN
  BY DEF SendsData, Thread
<1>4. r.header.op # "command"
  BY <1>1, LoginConstants DEF Buffer
<1>5. InOrder(x, k, g, v)
  BY <1>2, <1>3 DEF InOrder
<1>6. Expected(x, k, g, v)
  BY <1>2, <1>3 DEF Expected, InFlight
<1>7. \A i \in 1 .. Len(v.reqs) : i \in 1 .. Len(w.reqs) \/ i = Len(w.reqs) + 1
  BY <1>2
<1>8. Len(v.reqs) # 0 /\ (Len(w.reqs) = 0 => v.reqs[1] = r) /\ (Len(w.reqs) # 0 => v.reqs[1] = w.reqs[1])
  <2>1. Len(w.reqs) # 0 => 1 \in 1 .. Len(w.reqs)
    BY <1>2
  <2> QED
    BY <1>2, <2>1
<1>9. k.cmdSN = IF Len(v.reqs) # 0 /\ v.reqs[1].header.op = "command" THEN Next1(g.expCmdSN) ELSE g.expCmdSN
  BY <1>4, <1>8 DEF Commands
<1>10. ASSUME NEW i \in 1 .. Len(v.reqs), v.reqs[i].header.op = "command"
       PROVE  i = 1 /\ v.reqs[1].cmdSN = g.expCmdSN
  <2>1. i \in 1 .. Len(w.reqs) /\ w.reqs[i].header.op = "command"
    BY <1>2, <1>4, <1>7, <1>10
  <2>2. i = 1 /\ w.reqs[1].cmdSN = g.expCmdSN
    BY <2>1 DEF Commands
  <2>3. Len(w.reqs) # 0
    BY <1>2, <2>1
  <2> QED
    BY <1>8, <2>2, <2>3
<1> QED
  BY <1>5, <1>6, <1>9, <1>10 DEF Commands

\* The daemon and the kernel take the next response.
LEMMA ReceivesInTurn ==
  ASSUME NEW th \in Thread, NEW k \in Session \cup {None}, NEW g \in Target, NEW w \in Wire, NEW x, NEW l, NEW v,
         Low(g), g # None, Idles(th, k), (th.pc = "idle" <=> th.at = "idle"),
         InOrder(th, k, g, w), Expected(th, k, g, w), Commands(k, g, w), Receives(th, k, w, x, l, v)
  PROVE  InOrder(x, l, g, v) /\ Expected(x, l, g, v) /\ Commands(l, g, v)
<1> DEFINE pdu == w.rsps[1]
           n == Len(w.rsps)
<1>1. /\ k # None /\ k \in Session /\ l.active = k.active /\ l.cmdSN = k.cmdSN /\ x.at = th.at
      /\ l.expStatSN = IF Counts(Head(w.rsps)) THEN Next1(k.expStatSN) ELSE k.expStatSN
  BY ReceivesGives
<1>2. w.rsps # <<>> /\ v = [w EXCEPT !.rsps = Tail(w.rsps)]
  BY DEF Receives
<1>3. /\ v.reqs = w.reqs /\ v.rsps = Tail(w.rsps) /\ Head(w.rsps) = pdu /\ pdu \in Responses
      /\ n \in Nat \ {0} /\ Len(v.rsps) = n - 1
      /\ \A i \in 1 .. Len(v.rsps) : i + 1 \in 1 .. n /\ v.rsps[i] = w.rsps[i + 1]
  BY <1>2, TailTyped
<1>4. g.statSN \in Nat /\ Modulus \in Nat \ {0} /\ k.expStatSN \in Nat /\ g.statSN + 2 < Modulus
  BY <1>1, LoginConstants DEF Target, Low, Session
<1>12. n \in Nat \ {0} /\ Len(v.rsps) = n - 1
  BY <1>3
<1>5. \A i \in 1 .. Len(v.rsps) : v.rsps[i].tagged
  <2> SUFFICES ASSUME NEW i \in 1 .. Len(v.rsps) PROVE v.rsps[i].tagged
    OBVIOUS
  <2>1. i \in Nat \ {0} /\ i + 1 \in 1 .. Len(w.rsps) /\ i + 1 # 1 /\ v.rsps[i] = w.rsps[i + 1]
    BY <1>3
  <2> QED
    BY <2>1 DEF InOrder
<1>6. InOrder(x, l, g, v)
  <2>1. ASSUME NEW i \in 1 .. Len(v.rsps)
        PROVE  Granted(v.rsps[i]) /\ v.rsps[i].statSN = g.statSN - 1 - (Len(v.rsps) - i)
    <3>1. i \in Nat \ {0} /\ i + 1 \in 1 .. Len(w.rsps) /\ v.rsps[i] = w.rsps[i + 1]
      BY <1>3
    <3>2. Granted(w.rsps[i + 1]) /\ w.rsps[i + 1].statSN = g.statSN - 1 - (Len(w.rsps) - (i + 1))
      BY <1>5, <3>1 DEF InOrder
    <3>3. Len(w.rsps) - (i + 1) = Len(v.rsps) - i
      BY <1>3, <3>1
    <3> QED
      BY <3>1, <3>2, <3>3
  <2> QED
    BY <1>5, <2>1 DEF InOrder
<1>7. InFlight(v) = n - 1
  <2>1. CASE n - 1 = 0
    BY <1>3, <2>1 DEF InFlight
  <2>2. CASE n - 1 # 0
    <3>1. 1 \in 1 .. Len(v.rsps)
      <4>1. ASSUME NEW a \in Nat \ {0}, NEW b, b = a - 1, a - 1 # 0 PROVE 1 \in 1 .. b
        BY <4>1
      <4> QED
        BY <1>12, <2>2, <4>1
    <3> QED
      BY <1>12, <1>5, <2>2, <3>1 DEF InFlight
  <2> QED
    BY <2>1, <2>2
<1>8. pdu.tagged => Granted(pdu) /\ pdu.statSN = g.statSN - n
  <2>1. 1 \in 1 .. Len(w.rsps)
    BY <1>3
  <2>2. pdu.tagged => Granted(pdu) /\ pdu.statSN = g.statSN - 1 - (n - 1)
    BY <2>1 DEF InOrder
  <2> HIDE DEF pdu, n
  <2>3. g.statSN - 1 - (n - 1) = g.statSN - n
    BY <1>4, <1>12
  <2> QED
    BY <2>2, <2>3
<1>9. x.at \notin {"auth", "interrogate"} => l.expStatSN + InFlight(v) = g.statSN
  <2> SUFFICES ASSUME th.at \notin {"auth", "interrogate"} PROVE l.expStatSN + (n - 1) = g.statSN
    BY <1>1, <1>7
  <2>1. k.expStatSN + InFlight(w) = g.statSN
    BY DEF Expected
  <2>2. CASE pdu.tagged
    <3>1. InFlight(w) = n
      BY <2>2 DEF InFlight
    <3>2. pdu.statSN # Modulus - 1
      BY <1>3, <1>4, <1>8, <2>2
    <3>3. k.expStatSN = g.statSN - n
      BY <1>3, <1>4, <2>1, <3>1
    <3>4. Next1(k.expStatSN) = k.expStatSN + 1
      <4>1. k.expStatSN + 1 \in 0 .. Modulus - 1
        BY <1>3, <1>4, <3>3
      <4> QED
        BY <1>4, <4>1 DEF Next1
    <3>5. l.expStatSN = k.expStatSN + 1
      BY <1>1, <1>3, <2>2, <3>2, <3>4 DEF Counts
    <3> QED
      BY <1>3, <1>4, <3>3, <3>5
  <2>3. CASE ~pdu.tagged
    <3>1. InFlight(w) = n - 1
      BY <1>3, <2>3 DEF InFlight
    <3>2. l.expStatSN = k.expStatSN
      BY <1>1, <1>3, <2>3 DEF Counts
    <3> QED
      BY <2>1, <3>1, <3>2
  <2> QED
    BY <2>2, <2>3
<1>10. x.at = "auth" /\ x.status = "success" => x.statSN + 1 + Len(v.rsps) = g.statSN
  <2> SUFFICES ASSUME th.at = "auth" PROVE x.statSN + 1 + Len(v.rsps) = g.statSN
    BY <1>1
  <2>1. ~k.active
    BY <1>1 DEF Idles
  <2>2. pdu.tagged
    <3>1. 1 \in 1 .. Len(w.rsps)
      BY <1>3
    <3> QED
      BY <2>1, <3>1 DEF InOrder
  <2>3. Heard(x, th, pdu)
    BY <1>3, <2>1 DEF Receives
  <2>4. x.statSN = pdu.statSN
    BY <1>8, <2>2, <2>3 DEF Heard, Granted
  <2>5. x.statSN = g.statSN - n
    BY <1>8, <2>2, <2>4
  <2> QED
    BY <1>4, <1>12, <2>5
<1>11. Commands(l, g, v)
  BY <1>1, <1>3 DEF Commands
<1> QED
  BY <1>6, <1>9, <1>10, <1>11 DEF Expected

LEMMA NoWrap == \A a \in 0 .. Modulus - 1 : a % Modulus = a
<1>1. Modulus \in Nat \ {0}
  BY LoginConstants
<1>2. ASSUME NEW a \in Int, NEW m \in Nat \ {0}, 0 <= a, a < m PROVE a % m = a
  BY <1>2
<1> QED
  BY <1>1, <1>2

LEMMA Few ==
  ASSUME NEW sn \in Nat, NEW j \in {0, 1, 2}, sn + 2 < Modulus
  PROVE  sn + j \in 0 .. Modulus - 1
BY LoginConstants

LEMMA AnswersInTurn ==
  ASSUME NEW th \in Thread, NEW k \in Session, NEW g \in Target, NEW w \in Wire, NEW h, NEW v, Low(g), g # None, k # None,
         ~(h.stage = "closed"), (th.at \in {"auth", "interrogate"} => ~k.active),
         InOrder(th, k, g, w), Expected(th, k, g, w), Commands(k, g, w), TargetAnswers(k, g, w, h, v)
  PROVE  InOrder(th, k, h, v) /\ Expected(th, k, h, v) /\ Commands(k, h, v)
<1>1. PICK new, pdus : /\ Made(g, Head(w.reqs), new, pdus)
                       /\ h = [new EXCEPT !.statSN = (@ + Len(pdus)) % Modulus]
                       /\ v = [w EXCEPT !.reqs = Tail(w.reqs), !.rsps = w.rsps \o Numbered(pdus, g.statSN)]
  BY DEF TargetAnswers
<1> DEFINE q == Numbered(pdus, g.statSN)
           r == Head(w.reqs)
           m == Len(pdus)
           n == Len(w.rsps)
<1>2. /\ new \in Target /\ new.statSN = g.statSN /\ pdus \in Seq(Responses) /\ m \in {1, 2}
      /\ \A i \in 1 .. m : Granted(pdus[i]) \/ new.stage = "closed"
      /\ new.expCmdSN = IF r.header.op = "command" THEN Next1(g.expCmdSN) ELSE g.expCmdSN
      /\ r.header.op = "command" => r.cmdSN = g.expCmdSN
  BY <1>1 DEF Made
<1>3. h.expCmdSN = new.expCmdSN /\ h.stage = new.stage /\ h.statSN = (g.statSN + m) % Modulus
  BY <1>1, <1>2 DEF Target
<1>4. g.statSN \in Nat /\ Modulus \in Nat \ {0} /\ g.statSN + 2 < Modulus /\ g.statSN \in Numbers
  BY LoginConstants DEF Target, Low, Numbers
<1>5. h.statSN = g.statSN + m
  <2>1. g.statSN + m \in 0 .. Modulus - 1
    <3>1. m \in {0, 1, 2}
      BY <1>2
    <3> HIDE DEF m
    <3> QED
      BY <1>4, <3>1, Few
  <2>2. (g.statSN + m) % Modulus = g.statSN + m
    BY <2>1, NoWrap
  <2> QED
    BY <1>3, <2>2
<1>6. /\ q \in Seq(Responses) /\ Len(q) = m
      /\ \A i \in 1 .. m : q[i] = [pdus[i] EXCEPT !.statSN = (g.statSN + i - 1) % Modulus]
  BY <1>2, <1>4, NumberedTyped
<1>7. \A i \in 1 .. m : pdus[i] \in Responses
  BY <1>2
<1>8. ASSUME NEW i \in 1 .. m
      PROVE  q[i].tagged /\ Granted(q[i]) /\ q[i].statSN = g.statSN + i - 1
  <2>1. pdus[i] \in Responses /\ Granted(pdus[i]) /\ q[i] = [pdus[i] EXCEPT !.statSN = (g.statSN + i - 1) % Modulus]
    BY <1>2, <1>3, <1>6, <1>7
  <2>2. (g.statSN + i - 1) % Modulus = g.statSN + i - 1
    <3>1. i - 1 \in {0, 1, 2} /\ g.statSN + i - 1 = g.statSN + (i - 1)
      <4>1. m \in {1, 2}
        BY <1>2
      <4> HIDE DEF m
      <4> QED
        BY <1>4, <4>1
    <3>2. g.statSN + i - 1 \in 0 .. Modulus - 1
      BY <1>4, <3>1, Few
    <3> QED
      BY <3>2, NoWrap
  <2> QED
    BY <2>1, <2>2 DEF Granted, Responses
<1> HIDE DEF q
<1>9. w.reqs \in Seq(Requests) /\ w.rsps \in Seq(Responses) /\ v.reqs = Tail(w.reqs) /\ v.rsps = w.rsps \o q /\ w.reqs # <<>>
  BY <1>1 DEF Wire, q, TargetAnswers
<1>10. /\ n \in Nat /\ Len(v.rsps) = n + m
       /\ \A i \in 1 .. Len(v.rsps) : \/ i \in 1 .. n /\ v.rsps[i] = w.rsps[i]
                                      \/ i - n \in 1 .. m /\ v.rsps[i] = q[i - n]
  <2> DEFINE joined == w.rsps \o q
  <2>1. /\ n \in Nat /\ Len(joined) = n + Len(q)
        /\ \A i \in 1 .. Len(joined) :
              \/ i \in 1 .. n /\ joined[i] = w.rsps[i]
              \/ i - n \in 1 .. Len(q) /\ joined[i] = q[i - n]
    <3>1. w.rsps \in Seq(Responses) /\ q \in Seq(Responses)
      BY <1>6, <1>9
    <3> DEFINE a == w.rsps
    <3> HIDE DEF a
    <3>2. /\ Len(a) \in Nat /\ Len(a \o q) = Len(a) + Len(q)
          /\ \A i \in 1 .. Len(a \o q) :
                \/ i \in 1 .. Len(a) /\ (a \o q)[i] = a[i]
                \/ i - Len(a) \in 1 .. Len(q) /\ (a \o q)[i] = q[i - Len(a)]
      <4>1. a \in Seq(Responses)
        BY <3>1 DEF a
      <4> QED
        BY <3>1, <4>1, Joined, Zenon
    <3> QED
      BY <3>2 DEF a
  <2> HIDE DEF m, n
  <2> QED
    BY <1>6, <1>9, <2>1
<1>11. /\ r = w.reqs[1] /\ 1 \in 1 .. Len(w.reqs) /\ Len(w.reqs) \in Nat /\ Len(w.reqs) # 0
       /\ \A i \in 1 .. Len(v.reqs) : i + 1 \in 1 .. Len(w.reqs) /\ i + 1 # 1 /\ v.reqs[i] = w.reqs[i + 1]
       /\ Len(v.reqs) \in Nat
  <2>1. Len(w.reqs) \in Nat /\ Len(w.reqs) # 0
    BY <1>9
  <2>2. Len(Tail(w.reqs)) = Len(w.reqs) - 1
    BY <1>9
  <2>3. \A i \in 1 .. Len(Tail(w.reqs)) : i + 1 \in 1 .. Len(w.reqs) /\ i + 1 # 1 /\ Tail(w.reqs)[i] = w.reqs[i + 1]
    BY <1>9, <2>1, <2>2
  <2> QED
    BY <1>9, <2>1, <2>2, <2>3
<1> HIDE DEF r, m, n
<1>19. k.expStatSN \in Nat /\ th.statSN \in Nat
  BY LoginConstants DEF Session, Thread, Numbers
<1>12. m \in {1, 2} /\ n \in Nat /\ Len(v.rsps) = n + m /\ h.statSN = g.statSN + m /\ g.statSN \in Nat
  BY <1>2, <1>4, <1>5, <1>10
<1>13. InOrder(th, k, h, v)
  <2>1. ASSUME NEW i \in 1 .. Len(v.rsps)
        PROVE  /\ IF v.rsps[i].tagged THEN Granted(v.rsps[i]) /\ v.rsps[i].statSN = h.statSN - 1 - (Len(v.rsps) - i)
                  ELSE i = 1
               /\ ~(k.active \/ th.at = "logout") => v.rsps[i].tagged
    <3>0. i \in Nat
      BY <1>12
    <3>1. CASE i \in 1 .. n /\ v.rsps[i] = w.rsps[i]
      <4>1. h.statSN - 1 - (Len(v.rsps) - i) = g.statSN - 1 - (n - i)
        BY <1>12, <3>0
      <4> QED
        BY <3>1, <4>1 DEF InOrder, n
    <3>2. CASE i - n \in 1 .. m /\ v.rsps[i] = q[i - n]
      <4>1. q[i - n].tagged /\ Granted(q[i - n]) /\ q[i - n].statSN = g.statSN + (i - n) - 1
        BY <1>8, <3>2
      <4>2. h.statSN - 1 - (Len(v.rsps) - i) = g.statSN + (i - n) - 1
        BY <1>12, <3>0
      <4> QED
        BY <3>2, <4>1, <4>2
    <3> QED
      BY <1>10, <3>1, <3>2
  <2> QED
    BY <2>1 DEF InOrder
<1>14. InFlight(v) = InFlight(w) + m
  <2>1. CASE n = 0
    <3>1. Len(v.rsps) = m /\ 1 \in 1 .. Len(v.rsps) /\ 1 \notin 1 .. n
      BY <1>12, <2>1
    <3>2. 1 - n \in 1 .. m /\ v.rsps[1] = q[1 - n]
      BY <1>10, <3>1
    <3>3. v.rsps[1].tagged
      BY <1>8, <3>2
    <3> QED
      BY <1>12, <2>1, <3>1, <3>3 DEF InFlight, n
  <2>2. CASE n # 0
    <3>1. 1 \in 1 .. Len(v.rsps) /\ 1 - n \notin 1 .. m /\ Len(v.rsps) # 0
      BY <1>12, <2>2
    <3>2. v.rsps[1] = w.rsps[1]
      BY <1>10, <3>1
    <3>3. InFlight(w) = IF ~w.rsps[1].tagged THEN n - 1 ELSE n
      BY <2>2 DEF InFlight, n
    <3>4. InFlight(v) = IF ~w.rsps[1].tagged THEN n + m - 1 ELSE n + m
      BY <1>12, <3>1, <3>2 DEF InFlight
    <3> QED
      BY <1>12, <3>3, <3>4
  <2> QED
    BY <2>1, <2>2
<1>15. Expected(th, k, h, v)
  <2>1. InFlight(w) \in Int
    BY <1>12 DEF InFlight, n
  <2>2. ASSUME th.at \notin {"auth", "interrogate"} PROVE k.expStatSN + InFlight(v) = h.statSN
    <3>1. k.expStatSN + InFlight(w) = g.statSN
      BY <2>2 DEF Expected
    <3> QED
      BY <1>12, <1>14, <1>19, <2>1, <3>1
  <2>3. ASSUME th.at = "auth", th.status = "success" PROVE th.statSN + 1 + Len(v.rsps) = h.statSN
    <3>1. th.statSN + 1 + n = g.statSN
      BY <2>3 DEF Expected, n
    <3> QED
      BY <1>12, <1>19, <3>1
  <2> QED
    BY <2>2, <2>3 DEF Expected
<1>16. \A i \in 1 .. Len(v.reqs) : v.reqs[i].header.op # "command"
  BY <1>11 DEF Commands
<1>17. k.cmdSN = h.expCmdSN
  BY <1>2, <1>3, <1>11 DEF Commands
<1>18. Commands(k, h, v)
  <2>1. Len(v.reqs) # 0 => 1 \in 1 .. Len(v.reqs)
    BY <1>11
  <2> QED
    BY <1>16, <1>17, <2>1 DEF Commands
<1> QED
  BY <1>13, <1>15, <1>18

\* A thread that goes on, with the same session, target and wire: if it still waits for
\* its first answer, that is as it was.
LEMMA GoesOnInTurn ==
  ASSUME NEW th, NEW k, NEW g, NEW w, NEW x, NEW l, InOrder(th, k, g, w), Expected(th, k, g, w), Commands(k, g, w),
         l.expStatSN = k.expStatSN, l.cmdSN = k.cmdSN,
         k.active \/ th.at = "logout" => l.active \/ x.at = "logout",
         x.at \notin {"auth", "interrogate"} => th.at \notin {"auth", "interrogate"},
         x.at = "auth" /\ x.status = "success" => th.at = "auth" /\ th.status = "success" /\ x.statSN = th.statSN
  PROVE  InOrder(x, l, g, w) /\ Expected(x, l, g, w) /\ Commands(l, g, w)
BY DEF InOrder, Expected, Commands

LEMMA StepInTurn ==
  ASSUME NEW th \in Thread, NEW k \in Session \cup {None}, NEW g \in Target \cup {None}, NEW w \in Wire,
         NEW x, NEW l, NEW h, NEW v, Low(g),
         Rests(th, k, g, w), Idles(th, k), InTurn(th, k, g, w), Step(th, k, g, w, x, l, h, v)
  PROVE  InTurn(x, l, h, v)
<1> SUFFICES ASSUME l # None, ~v.lost, h.stage # "closed"
             PROVE  InOrder(x, l, h, v) /\ Expected(x, l, h, v) /\ Commands(l, h, v)
  BY DEF InTurn
<1> DEFINE Was == InOrder(th, k, g, w) /\ Expected(th, k, g, w) /\ Commands(k, g, w)
<1>0. /\ k # None => k \in Session /\ g \in Target /\ g # None
      /\ k # None /\ ~w.lost /\ g.stage # "closed" => Was
      /\ th.at \in {"auth", "interrogate"} /\ k # None => ~k.active
      /\ th.pc = "idle" <=> th.at = "idle"
  BY NoneIsNoRecord DEF Rests, InTurn, Idles, LoginSteps
<1> HIDE DEF Was
<1>1. CASE SendsHeader(th, x) /\ l = k /\ h = g /\ v = w
  <2>1. x.at = th.at /\ x.status = th.status /\ x.statSN = th.statSN
    BY <1>1 DEF SendsHeader, Thread
  <2> QED
    BY <1>0, <1>1, <2>1, GoesOnInTurn DEF Was
<1>2. CASE QueryEnds(th, x) /\ l = k /\ h = g /\ v = w
  <2>1. x.at = th.at /\ x.statSN = th.statSN /\ (x.status = "success" => th.status = "success")
    BY <1>2 DEF QueryEnds, Goes, SameQuery
  <2> QED
    BY <1>0, <1>2, <2>1, GoesOnInTurn DEF Was
<1>3. CASE SendsData(th, k, w, x, v) /\ l = k /\ h = g
  <2>1. k # None /\ ~w.lost
    BY <1>3 DEF SendsData
  <2> QED
    BY <1>0, <1>3, <2>1, SendsInTurn DEF Was
<1>4. CASE Receives(th, k, w, x, l, v) /\ h = g
  <2>1. k # None /\ v.lost = w.lost
    BY <1>4, TailTyped DEF Receives
  <2> QED
    BY <1>0, <1>4, <2>1, ReceivesInTurn DEF Was
<1>5. CASE FailsToStart(th, k, x) /\ l = k
  BY <1>5 DEF FailsToStart
<1>6. CASE Begins(th, k, x, l, h, v)
  <2>1. /\ x.at \in {"auth", "interrogate"} /\ x.status = "invalid" /\ l = NewSession /\ v = NoWire
        /\ \E sn \in InitialStatSNs : h = NewTarget(sn)
    BY <1>6, BeginsGives
  <2>2. l.cmdSN = 0 /\ h.expCmdSN = 0
    BY <2>1 DEF NewSession, NewTarget
  <2>3. Len(v.reqs) = 0 /\ Len(v.rsps) = 0
    BY <2>1, WireTyped, EmptyTells, EmptySilent
  <2>4. 1 .. 0 = {}
    OBVIOUS
  <2>5. InOrder(x, l, h, v)
    BY <2>3, <2>4 DEF InOrder
  <2>6. Expected(x, l, h, v)
    BY <2>1 DEF Expected
  <2>7. Commands(l, h, v)
    BY <2>2, <2>3, <2>4 DEF Commands
  <2> QED
    BY <2>5, <2>6, <2>7
<1>7. CASE Releases(th, x, l, h, v)
  BY <1>7 DEF Releases
<1>8. CASE k # None /\ AuthPasses(th, k, x, l) /\ h = g /\ v = w
  <2>1. /\ x.at \in {"chapStart", "negotiate", "blank"}
        /\ l.active = k.active /\ l.cmdSN = k.cmdSN /\ l.expStatSN = Next1(th.statSN)
    BY <1>0, <1>8, AuthPassesGives
  <2>2. InOrder(th, k, g, w) /\ Expected(th, k, g, w) /\ Commands(k, g, w)
    BY <1>0, <1>8 DEF Was
  <2>3. th.at = "auth" /\ th.status = "success" /\ ~k.active
    BY <1>0, <1>8 DEF AuthPasses, Succeeded
  <2>4. \A i \in 1 .. Len(w.rsps) : w.rsps[i].tagged
    BY <2>2, <2>3 DEF InOrder
  <2>5. Len(w.rsps) \in Nat
    <3>1. w.rsps \in Seq(Responses)
      BY DEF Wire
    <3> QED
      BY <3>1
  <2>6. InFlight(w) = Len(w.rsps)
    <3>1. Len(w.rsps) # 0 => 1 \in 1 .. Len(w.rsps)
      BY <2>5
    <3> QED
      BY <2>4, <3>1 DEF InFlight
  <2>7. th.statSN + 1 + Len(w.rsps) = g.statSN
    BY <2>2, <2>3 DEF Expected
  <2>8. g.statSN \in Nat /\ Modulus \in Nat /\ g.statSN + 2 < Modulus /\ th.statSN \in Nat
    BY <1>0, <1>8, LoginConstants DEF Low, Target, Thread, Numbers
  <2>9. Next1(th.statSN) = th.statSN + 1
    <3>1. th.statSN + 1 \in 0 .. Modulus - 1
      BY <2>5, <2>7, <2>8
    <3> QED
      BY <3>1, NoWrap DEF Next1
  <2>10. InOrder(x, l, g, w)
    BY <2>2, <2>3, <2>4 DEF InOrder
  <2>11. Expected(x, l, g, w)
    BY <2>1, <2>6, <2>7, <2>9 DEF Expected
  <2>12. Commands(l, g, w)
    BY <2>1, <2>2 DEF Commands
  <2> QED
    BY <1>8, <2>10, <2>11, <2>12
<1>9. CASE k # None /\ QueryPasses(th, x) /\ l = k /\ h = g /\ v = w
  <2>1. th.at \in {"blank", "chapStart", "chapAnswer"} /\ x.at \in {"chapAnswer", "negotiate"}
    BY <1>9, QueryPassesGives
  <2> QED
    BY <1>0, <1>9, <2>1, GoesOnInTurn DEF Was
<1>10. CASE k # None /\ LogsIn(th, k, x, l) /\ h = g /\ v = w
  <2>1. /\ th.at = "negotiate" /\ x.at \in {"text", "idle"} /\ l.cmdSN = k.cmdSN /\ l.expStatSN = k.expStatSN
        /\ (k.active => l.active)
    BY <1>0, <1>10, LogsInGives
  <2> QED
    BY <1>0, <1>10, <2>1, GoesOnInTurn DEF Was
<1>11. CASE Leaves(th, k, x, l) /\ h = g /\ v = w
  <2>1. k # None /\ x.at = "logout" /\ l.cmdSN = k.cmdSN /\ l.expStatSN = k.expStatSN
    BY <1>11, LeavesGives
  <2>2. th.at \in {"idle", "text"}
    BY <1>0, <1>11 DEF Leaves
  <2> QED
    BY <1>0, <1>11, <2>1, <2>2, GoesOnInTurn DEF Was
<1>12. CASE BeginsTask(k, w, l, v) /\ x = th /\ h = g
  <2>1. /\ k # None /\ k.active /\ l.active /\ w = NoWire
        /\ l.cmdSN = Next1(k.cmdSN) /\ l.expStatSN = k.expStatSN
    BY <1>12, BeginsTaskGives DEF BeginsTask
  <2>2. PICK r \in Requests : /\ r.header.op = "command" /\ r.cmdSN = k.cmdSN
                              /\ v = [w EXCEPT !.reqs = Append(w.reqs, r)]
    BY <1>12 DEF BeginsTask
  <2>3. w.reqs = <<>> /\ w.rsps = <<>> /\ Len(w.reqs) = 0
    BY <2>1, WireTyped
  <2>4. v.rsps = w.rsps /\ Len(v.reqs) = 1 /\ v.reqs[1] = r /\ v.lost = w.lost
    BY <2>2, <2>3, AppendTyped
  <2>5. InOrder(th, k, g, w) /\ Expected(th, k, g, w) /\ Commands(k, g, w)
    BY <1>0, <1>12, <2>1, <2>4 DEF Was
  <2>6. k.cmdSN = g.expCmdSN
    BY <2>3, <2>5 DEF Commands
  <2>7. InOrder(x, l, g, v) /\ Expected(x, l, g, v)
    BY <1>12, <2>1, <2>4, <2>5 DEF InOrder, Expected, InFlight
  <2>8. \A i \in 1 .. Len(v.reqs) : i = 1
    BY <2>4
  <2>9. Commands(l, g, v)
    BY <2>1, <2>2, <2>4, <2>6, <2>8 DEF Commands
  <2> QED
    BY <1>12, <2>7, <2>9
<1>13. CASE TargetAnswers(k, g, w, h, v) /\ x = th /\ l = k
  <2>1. k # None /\ v.lost = w.lost /\ (g.stage = "closed" => h.stage = "closed")
    <3>1. PICK new, pdus : /\ Made(g, Head(w.reqs), new, pdus)
                           /\ h = [new EXCEPT !.statSN = (@ + Len(pdus)) % Modulus]
                           /\ v = [w EXCEPT !.reqs = Tail(w.reqs), !.rsps = w.rsps \o Numbered(pdus, g.statSN)]
      BY <1>13 DEF TargetAnswers
    <3>2. new \in Target /\ (g.stage = "closed" => new.stage = "closed")
      BY <3>1 DEF Made
    <3> QED
      BY <1>13, <3>1, <3>2 DEF TargetAnswers, Target, Wire
  <2> QED
    BY <1>0, <1>13, <2>1, AnswersInTurn DEF Was
<1>14. CASE TargetAsks(k, g, w, v) /\ x = th /\ l = k /\ h = g
  <2>1. PICK r \in Responses : ~r.tagged /\ v = [w EXCEPT !.rsps = <<r>>]
    BY <1>14 DEF TargetAsks
  <2>2. v.reqs = w.reqs /\ v.rsps = <<r>> /\ v.lost = w.lost
    BY <2>1 DEF Wire
  <2>3. Len(v.rsps) = 1 /\ (\A i \in 1 .. Len(v.rsps) : i = 1) /\ v.rsps[1] = r
    BY <2>2
  <2>4. k # None /\ k.active /\ Len(w.rsps) = 0 /\ th.at = "idle"
    BY <1>14, EmptySilent DEF TargetAsks, Idles
  <2>5. InOrder(th, k, g, w) /\ Expected(th, k, g, w) /\ Commands(k, g, w)
    BY <1>0, <1>14, <2>2, <2>4 DEF Was
  <2>6. InFlight(v) = 0 /\ InFlight(w) = 0
    BY <2>1, <2>3, <2>4 DEF InFlight
  <2>7. InOrder(x, k, g, v)
    BY <1>14, <2>1, <2>3, <2>4 DEF InOrder
  <2>8. Expected(x, k, g, v)
    BY <1>14, <2>4, <2>5, <2>6 DEF Expected
  <2>9. Commands(k, g, v)
    BY <2>2, <2>5 DEF Commands
  <2> QED
    BY <1>14, <2>7, <2>8, <2>9
<1>15. CASE IsLost(k, w, v) /\ x = th /\ l = k /\ h = g
  BY <1>15 DEF IsLost, NoWire
<1> QED
  BY <1>1, <1>2, <1>3, <1>4, <1>5, <1>6, <1>7, <1>8, <1>9, <1>10, <1>11, <1>12, <1>13, <1>14, <1>15 DEF Step

AllInTurn == \A t \in Threads : InTurn(thread[t], kernel[t], target[t], wire[t])

LEMMA TurnsKept == TypeInv /\ AllIdle /\ Unwrapped /\ AllInTurn /\ [Next]_vars => AllInTurn'
<1> SUFFICES ASSUME TypeInv, AllIdle, Unwrapped, AllInTurn, [Next]_vars PROVE AllInTurn'
  OBVIOUS
<1> USE DEF InTurn, InOrder, Expected, Commands, InFlight, Granted
<1>1. CASE Next
  <2> HIDE DEF InTurn
  <2>1. PICK t \in Threads : Steps(t)
    BY <1>1, NextSteps
  <2>2. SUFFICES ASSUME NEW u \in Threads PROVE InTurn(thread'[u], kernel'[u], target'[u], wire'[u])
    BY DEF AllInTurn, InTurn
  <2> HIDE DEF InOrder, Expected, Commands, InFlight, Granted
  <2>3. InTurn(thread[u], kernel[u], target[u], wire[u]) /\ Idles(thread[u], kernel[u]) /\ Low(target[u])
    BY DEF AllInTurn, AllIdle, Unwrapped
  <2>4. CASE u = t
    <3>1. Step(thread[t], kernel[t], target[t], wire[t], thread'[t], kernel'[t], target'[t], wire'[t])
      BY <2>1 DEF Steps
    <3> QED
      BY <2>3, <2>4, <3>1, Same, StepInTurn
  <2>5. CASE u # t
    BY <2>1, <2>3, <2>5 DEF Steps
  <2> QED
    BY <2>4, <2>5
<1>2. CASE UNCHANGED vars
  <2> HIDE DEF InOrder, Expected, Commands, InFlight, Granted
  <2>1. \A t \in Threads : /\ thread'[t] = thread[t] /\ kernel'[t] = kernel[t]
                           /\ target'[t] = target[t] /\ wire'[t] = wire[t]
    BY <1>2 DEF vars
  <2> HIDE DEF InTurn
  <2>2. SUFFICES ASSUME NEW t \in Threads PROVE InTurn(thread'[t], kernel'[t], target'[t], wire'[t])
    BY DEF AllInTurn, InTurn, InOrder, Expected, Commands, InFlight, Granted
  <2> QED
    BY <2>1, <2>2 DEF AllInTurn
<1> QED
  BY <1>1, <1>2

\* As long as no status number comes round to 2^32 - 1, which RecvPDUHeader does not
\* count, the kernel and the target expect the same numbers whenever nothing is on its
\* way, from the first answer that iSCSISessionLoginSingleQuery has taken on: neither
\* retries, answers in parts nor NOP-Ins put them out of step.
THEOREM NumbersInTurn == Spec /\ []Unwrapped => []NumbersAgree
<1>1. Init => AllInTurn
  BY DEF Init, AllInTurn, InTurn
<1>2. TypeInv /\ AllIdle /\ Unwrapped /\ AllInTurn /\ [Next]_vars => AllInTurn'
  BY TurnsKept
<1>3. TypeInv /\ AllInTurn => NumbersAgree
  <2> SUFFICES ASSUME TypeInv, AllInTurn, NEW t \in Threads, kernel[t] # None, wire[t] = NoWire,
                      thread[t].at \notin {"auth", "interrogate"}, target[t].stage # "closed"
               PROVE  kernel[t].expStatSN = target[t].statSN /\ kernel[t].cmdSN = target[t].expCmdSN
    BY DEF NumbersAgree
  <2>1. ~wire[t].lost /\ Len(wire[t].reqs) = 0 /\ Len(wire[t].rsps) = 0
    BY WireTyped, EmptyTells, EmptySilent DEF NoWire
  <2>2. Expected(thread[t], kernel[t], target[t], wire[t]) /\ Commands(kernel[t], target[t], wire[t])
    BY <2>1 DEF AllInTurn, InTurn
  <2>3. kernel[t].expStatSN + 0 = target[t].statSN
    BY <2>1, <2>2 DEF Expected, InFlight
  <2>4. kernel[t].expStatSN \in Nat
    <3>1. kernel[t] \in Session
      BY Same
    <3> QED
      BY <3>1, LoginConstants DEF Session
  <2>5. kernel[t].expStatSN = target[t].statSN
    BY <2>3, <2>4
  <2>6. kernel[t].cmdSN = target[t].expCmdSN
    BY <2>1, <2>2 DEF Commands
  <2> QED
    BY <2>5, <2>6
<1> QED
  BY TypesKept, IdlesKept, <1>1, <1>2, <1>3, PTL DEF Spec

(***************************************************************************)
(* What a session and its target agree on.                                 *)
(***************************************************************************)
\* No target asks to wait for longer than is offered.
NoLongerWait == \A prefs \in Preferences : prefs["DefaultTime2Wait"] <= Defaults["DefaultTime2Wait"]

\* The stages that a query is about.
OnPath(from, to) ==
    \/ from = "security" /\ to \in {"security", "operational"}
    \/ from \in {"operational", "full"} /\ to = "full"

Offering(w) == \E i \in 1 .. Len(w.reqs) : w.reqs[i].data.offer # <<>>
Unsaid(w) == \A i \in 1 .. Len(w.rsps) : w.rsps[i].keys.settings = <<>>

\* The keys have not been offered.
NotYet(th) == \/ th.at \in LoginSteps \ {"negotiate"}
              \/ th.at = "negotiate" /\ ~th.retrying /\ th.pc \in {"header", "data"}

\* The keys are offered once, and there is no answer before.
OfferedOnce(th, g, w) ==
    /\ \A i, j \in 1 .. Len(w.reqs) : w.reqs[i].data.offer # <<>> /\ w.reqs[j].data.offer # <<>> => i = j
    /\ NotYet(th) => ~Offering(w)
    /\ Offering(w) \/ NotYet(th) => g.settings = <<>> /\ th.rsp.settings = <<>> /\ Unsaid(w)

\* What is said is what is in force, or a part of it.
SaidOf(s, g) == s = <<>> \/ (g.settings # <<>> /\ s \in {g.settings, Part(g.settings)})

Truthful(th, g, w) ==
    /\ SaidOf(th.rsp.settings, g)
    /\ \A i \in 1 .. Len(w.rsps) : SaidOf(w.rsps[i].keys.settings, g)
    /\ g.settings # <<>> => /\ \E prefs \in Preferences : g.settings = Answer(OfferOf(th), prefs)
                            /\ g.stage # "security"

\* Each query says what it is about, and ends when the target has moved on.
Directed(th) == OnPath(th.from, th.to) /\ (th.at = "negotiate" => th.from = "operational") /\ HasMoved(th)

Carried(w) ==
    \A i \in 1 .. Len(w.reqs) : LET header == w.reqs[i].header
                                IN  OnPath(header.from, header.to) /\ (w.reqs[i].data.offer # <<>> => header.from = "operational")

\* A target that moves on after it has answered has entered the full feature phase.
Entered(g) == g.stage \in {"full", "closed"}
Moves(pdu, g) == pdu.transit => Entered(g) /\ pdu.tsih

MovesLast(th, g, w) ==
    /\ \A i, j \in 1 .. Len(w.rsps) : j <= i /\ w.rsps[j].keys.settings # <<>> => Moves(w.rsps[i], g)
    /\ th.rsp.settings # <<>> => \A i \in 1 .. Len(w.rsps) : Moves(w.rsps[i], g)
    /\ th.rsp.settings # <<>> /\ th.transit => th.at = "negotiate" /\ Entered(g) /\ th.tsih

InForce(th, k, g) ==
    k.active => /\ Entered(g) /\ k.tsih /\ g.settings # <<>>
                /\ \A n \in Counted(OfferOf(th), g.settings) : k.settings[n] = g.settings[n]

Negotiated(th, k, g, w) ==
    /\ OfferedOnce(th, g, w) /\ Truthful(th, g, w) /\ Directed(th) /\ Carried(w)
    /\ MovesLast(th, g, w) /\ InForce(th, k, g)

\* A thread that goes on, with the same target and wire.
LEMMA GoesOnNegotiated ==
  ASSUME NEW th, NEW k, NEW g, NEW w, NEW x, NEW l, Negotiated(th, k, g, w),
         x.rsp \in {th.rsp, NoKeys}, x.job = th.job, NotYet(x) => NotYet(th), Directed(x),
         x.transit => th.transit /\ x.at = th.at /\ (th.tsih => x.tsih), InForce(x, l, g)
  PROVE  Negotiated(x, l, g, w)
<1>1. x.rsp.settings \in {th.rsp.settings, <<>>} /\ OfferOf(x) = OfferOf(th)
  BY NothingIsSaid DEF OfferOf
<1>2. OfferedOnce(x, g, w)
  BY <1>1 DEF Negotiated, OfferedOnce
<1>3. Truthful(x, g, w)
  BY <1>1 DEF Negotiated, Truthful, SaidOf
<1>4. MovesLast(x, g, w)
  BY <1>1 DEF Negotiated, MovesLast
<1> QED
  BY <1>2, <1>3, <1>4 DEF Negotiated

\* A thread that begins to ask, or is idle.
LEMMA AsksDirected ==
  ASSUME NEW th \in Thread, NEW at \in LoginSteps \cup {"text", "logout"}, NEW from \in Stages, NEW to \in Stages,
         OnPath(from, to), at = "negotiate" => from = "operational", NEW x,
         x = Ask(th, at, from, to) \/ x = AskOn(th, at, from, to)
  PROVE  Directed(x) /\ ~x.transit /\ x.pc = "header" /\ x.at = at /\ x.job = th.job /\ ~x.retrying
<1>1. /\ x.from = from /\ x.to = to /\ x.at = at /\ x.pc = "header" /\ ~x.transit /\ x.job = th.job /\ ~x.retrying
  <2>1. CASE x = Ask(th, at, from, to)
    BY <2>1 DEF Ask, Thread
  <2>2. CASE x = AskOn(th, at, from, to)
    BY <2>2 DEF AskOn, Ask, Thread
  <2> QED
    BY <2>1, <2>2
<1> QED
  BY <1>1 DEF Directed, HasMoved

LEMMA EndedDirected ==
  ASSUME NEW th \in Thread, NEW outcome \in {"failed", "loggedIn", "ended"}, NEW x, x = Ended(th, outcome)
  PROVE  Directed(x) /\ ~x.transit /\ x.at = "idle" /\ x.job = th.job
<1>1. x.at = "idle" /\ x.job = th.job
  BY EndedTyped
<1>2. x.from = "security" /\ x.to = "security" /\ ~x.transit
  BY IdleTyped DEF Ended, IdleThread, Thread
<1> QED
  BY <1>1, <1>2 DEF Directed, OnPath, HasMoved, LoginSteps

\* The keys of an answer that is stored are those that were agreed to.
LEMMA AnswerTo ==
  ASSUME NEW o, NEW p, NEW n \in DOMAIN o
  PROVE  /\ n \in OrKeys \cup {"DataPDUInOrder", "DataSequenceInOrder"} => Answer(o, p)[n] = (o[n] \/ p[n])
         /\ n \in DigestKeys \cup {"ImmediateData"} => Answer(o, p)[n] = (o[n] /\ p[n])
<1>1. Answer(o, p)[n] =
           CASE n \in OrKeys \cup {"DataPDUInOrder", "DataSequenceInOrder"} -> o[n] \/ p[n]
             [] n \in DigestKeys \cup {"ImmediateData"} -> o[n] /\ p[n]
             [] n = "DefaultTime2Wait" -> IF p[n] > o[n] THEN p[n] ELSE o[n]
             [] n = "MaxRecvDataSegmentLength" -> p[n]
             [] OTHER -> IF p[n] < o[n] THEN p[n] ELSE o[n]
  BY Zenon DEF Answer
<1>2. ASSUME n \in OrKeys \cup {"DataPDUInOrder", "DataSequenceInOrder"}
      PROVE  Answer(o, p)[n] = (o[n] \/ p[n])
  <2>1. n \notin DigestKeys \cup {"ImmediateData"} /\ n # "DefaultTime2Wait" /\ n # "MaxRecvDataSegmentLength"
    BY <1>2 DEF OrKeys, DigestKeys
  <2> QED
    BY <1>1, <1>2, <2>1, Zenon
<1>3. ASSUME n \in DigestKeys \cup {"ImmediateData"}
      PROVE  Answer(o, p)[n] = (o[n] /\ p[n])
  <2>1. n \notin OrKeys \cup {"DataPDUInOrder", "DataSequenceInOrder"} /\ n # "DefaultTime2Wait" /\ n # "MaxRecvDataSegmentLength"
    BY <1>3 DEF OrKeys, DigestKeys
  <2> QED
    BY <1>1, <1>3, <2>1, Zenon
<1> QED
  BY <1>2, <1>3, Zenon

LEMMA EitherAgrees ==
  ASSUME NEW o, NEW p, NEW n \in DOMAIN o, n \in OrKeys, o[n] \in BOOLEAN, p[n] \in BOOLEAN
  PROVE  Combine(n, o[n], Answer(o, p)[n]) = Answer(o, p)[n]
<1>1. n \notin DigestKeys \cup AndKeys \cup {"ImmediateData"} /\ n # "DefaultTime2Wait" /\ n # "MaxRecvDataSegmentLength"
  BY DEF OrKeys, AndKeys, DigestKeys
<1>2. Answer(o, p)[n] = (o[n] \/ p[n])
  BY AnswerTo, Zenon
<1>3. Combine(n, o[n], o[n] \/ p[n]) = (o[n] \/ (o[n] \/ p[n]))
  BY <1>1, Zenon DEF Combine, LVGetOr
<1>4. (o[n] \/ (o[n] \/ p[n])) = (o[n] \/ p[n])
  OBVIOUS
<1> QED
  BY <1>2, <1>3, <1>4, Zenon

LEMMA OrderAgrees ==
  ASSUME NEW o, NEW p, NEW n \in DOMAIN o, n \in {"DataPDUInOrder", "DataSequenceInOrder"}, o[n] = TRUE, p[n] \in BOOLEAN
  PROVE  Combine(n, o[n], Answer(o, p)[n]) = Answer(o, p)[n]
<1>1. n \in AndKeys /\ n \notin DigestKeys \cup OrKeys \cup {"ImmediateData"} /\ n # "DefaultTime2Wait" /\ n # "MaxRecvDataSegmentLength"
  BY DEF OrKeys, AndKeys, DigestKeys
<1>2. Answer(o, p)[n] = (o[n] \/ p[n])
  BY AnswerTo, Zenon
<1>3. Combine(n, o[n], o[n] \/ p[n]) = (o[n] /\ (o[n] \/ p[n]))
  BY <1>1, Zenon DEF Combine, LVGetAnd
<1>4. (o[n] /\ (o[n] \/ p[n])) = (o[n] \/ p[n])
  OBVIOUS
<1> QED
  BY <1>2, <1>3, <1>4, Zenon

LEMMA BothAgree ==
  ASSUME NEW o, NEW p, NEW n \in DOMAIN o, n = "ImmediateData", o[n] \in BOOLEAN, p[n] \in BOOLEAN
  PROVE  Combine(n, o[n], Answer(o, p)[n]) = Answer(o, p)[n]
<1>1. n \in AndKeys /\ n \notin DigestKeys \cup OrKeys \cup {"DataPDUInOrder", "DataSequenceInOrder"}
      /\ n # "DefaultTime2Wait" /\ n # "MaxRecvDataSegmentLength"
  BY DEF OrKeys, AndKeys, DigestKeys
<1>2. Answer(o, p)[n] = (o[n] /\ p[n])
  BY AnswerTo, Zenon
<1>3. Combine(n, o[n], o[n] /\ p[n]) = (o[n] /\ (o[n] /\ p[n]))
  BY <1>1, Zenon DEF Combine, LVGetAnd
<1>4. (o[n] /\ (o[n] /\ p[n])) = (o[n] /\ p[n])
  OBVIOUS
<1> QED
  BY <1>2, <1>3, <1>4, Zenon

LEMMA DigestAgrees ==
  ASSUME NEW o, NEW p, NEW n \in DOMAIN o, n \in DigestKeys, o[n] \in BOOLEAN, p[n] \in BOOLEAN
  PROVE  Combine(n, o[n], Answer(o, p)[n]) = Answer(o, p)[n]
<1>1. n \notin AndKeys \cup OrKeys \cup {"DataPDUInOrder", "DataSequenceInOrder"}
      /\ n # "DefaultTime2Wait" /\ n # "MaxRecvDataSegmentLength"
  BY DEF OrKeys, AndKeys, DigestKeys
<1>2. Answer(o, p)[n] = (o[n] /\ p[n])
  BY AnswerTo, Zenon
<1>3. Combine(n, o[n], o[n] /\ p[n]) = ((o[n] = (o[n] /\ p[n])) /\ (o[n] /\ p[n]))
  BY <1>1, Zenon DEF Combine, LVGetEqual
<1>4. ((o[n] = (o[n] /\ p[n])) /\ (o[n] /\ p[n])) = (o[n] /\ p[n])
  OBVIOUS
<1> QED
  BY <1>2, <1>3, <1>4, Zenon

LEMMA OrderIsKept ==
  ASSUME NEW th, NEW n \in Keys, n \in DOMAIN OfferOf(th), n \in {"DataPDUInOrder", "DataSequenceInOrder"}
  PROVE  OfferOf(th)[n] = TRUE
<1>1. n \in Switches /\ n \notin DigestKeys /\ n # "MaxConnections" /\ n # "ErrorRecoveryLevel"
  BY DEF Switches, AndKeys, OrKeys, DigestKeys
<1>2. OfferOf(th)[n] = Defaults[n]
  BY <1>1, SMT DEF OfferOf, Offer
<1>3. Defaults[n] = TRUE
  <2>1. Defaults[n] = (n \notin DigestKeys)
    BY <1>1, Zenon DEF Defaults
  <2>2. (n \notin DigestKeys) = TRUE
    BY <1>1
  <2> QED
    BY <2>1, <2>2, Zenon
<1> QED
  BY <1>2, <1>3, Zenon

LEMMA Agreeing ==
  ASSUME NoLongerWait, NEW th, th.job \in Jobs, NEW prefs \in Preferences, NEW n \in DOMAIN OfferOf(th)
  PROVE  Combine(n, OfferOf(th)[n], Answer(OfferOf(th), prefs)[n]) = Answer(OfferOf(th), prefs)[n]
<1> DEFINE o == OfferOf(th)
           a == Answer(o, prefs)
<1>1. n \in Keys /\ Fits(n, o[n]) /\ Fits(n, prefs[n])
  BY JobOffer, PreferenceTypes DEF Fits
<1>2. ASSUME n \in {"DataPDUInOrder", "DataSequenceInOrder"} PROVE o[n] = TRUE
  BY <1>1, <1>2, OrderIsKept
<1>3. ASSUME n = "DefaultTime2Wait" PROVE o[n] = Defaults[n]
  <2>1. n \notin DigestKeys /\ n # "MaxConnections" /\ n # "ErrorRecoveryLevel"
    BY <1>3 DEF DigestKeys
  <2> QED
    BY <2>1, SMT DEF OfferOf, Offer
<1>4. n \in Switches => o[n] \in BOOLEAN /\ prefs[n] \in BOOLEAN
  BY <1>1 DEF Fits
<1>5. n \in Switches <=> \/ n \in OrKeys \/ n \in {"DataPDUInOrder", "DataSequenceInOrder"} \/ n = "ImmediateData"
                         \/ n \in DigestKeys
  BY DEF Switches, AndKeys
<1> HIDE DEF o
<1>6. CASE n \in OrKeys
  BY <1>4, <1>5, <1>6, EitherAgrees DEF o
<1>7. CASE n \in {"DataPDUInOrder", "DataSequenceInOrder"}
  BY <1>2, <1>4, <1>5, <1>7, OrderAgrees DEF o
<1>8. CASE n = "ImmediateData"
  BY <1>4, <1>5, <1>8, BothAgree DEF o
<1>9. CASE n \in DigestKeys
  BY <1>4, <1>5, <1>9, DigestAgrees DEF o
<1>10. CASE n \notin Switches
  <2>1. /\ n \notin OrKeys \cup {"DataPDUInOrder", "DataSequenceInOrder"} /\ n \notin DigestKeys \cup {"ImmediateData"}
        /\ n \notin AndKeys
    BY <1>10, KeysAreApart DEF Switches, AndKeys
  <2>2. o[n] \in Nat /\ prefs[n] \in Nat
    BY <1>1, <1>10 DEF Fits
  <2>3. CASE n = "DefaultTime2Wait"
    <3>1. prefs[n] <= o[n]
      BY <1>3, <2>3 DEF NoLongerWait
    <3>2. a[n] = IF prefs[n] > o[n] THEN prefs[n] ELSE o[n]
      BY <2>1, <2>3, SMT DEF Answer, o
    <3>3. a[n] = o[n]
      BY <2>2, <3>1, <3>2
    <3>4. Combine(n, o[n], a[n]) = IF o[n] < a[n] THEN o[n] ELSE a[n]
      BY <2>1, <2>3, SMT DEF Combine, LVGetMin
    <3> QED
      BY <3>3, <3>4 DEF o
  <2>4. CASE n = "MaxRecvDataSegmentLength"
    <3>1. Combine(n, o[n], a[n]) = a[n]
      BY <2>1, <2>4, SMT DEF Combine
    <3> QED
      BY <3>1 DEF o
  <2>5. CASE n \notin {"DefaultTime2Wait", "MaxRecvDataSegmentLength"}
    <3>1. a[n] = IF prefs[n] < o[n] THEN prefs[n] ELSE o[n]
      BY <2>1, <2>5, SMT DEF Answer, o
    <3>2. Combine(n, o[n], a[n]) = IF o[n] < a[n] THEN o[n] ELSE a[n]
      BY <2>1, <2>5, SMT DEF Combine, LVGetMin
    <3>3. CASE prefs[n] < o[n]
      BY <2>2, <3>1, <3>2, <3>3 DEF o
    <3>4. CASE ~(prefs[n] < o[n])
      BY <2>2, <3>1, <3>2, <3>4 DEF o
    <3> QED
      BY <3>3, <3>4
  <2> QED
    BY <2>3, <2>4, <2>5
<1> QED
  BY <1>5, <1>6, <1>7, <1>8, <1>9, <1>10

\* Steps in which the wire and the target stay as they are.
LEMMA KeepsNegotiated ==
  ASSUME NoLongerWait, NEW th \in Thread, NEW k \in Session, NEW g, NEW w, NEW x, NEW l, th.job \in Jobs,
         Idles(th, k), Negotiated(th, k, g, w),
         \/ (SendsHeader(th, x) \/ QueryEnds(th, x)) /\ l = k
         \/ AuthPasses(th, k, x, l)
         \/ QueryPasses(th, x) /\ th.at \in LoginSteps /\ l = k
         \/ Leaves(th, k, x, l)
  PROVE  Negotiated(x, l, g, w)
<1>0. OnPath(th.from, th.to) /\ (th.at = "negotiate" => th.from = "operational") /\ InForce(th, k, g)
  BY DEF Negotiated, Directed
<1>1. CASE SendsHeader(th, x) /\ l = k
  <2>1. /\ x.rsp = th.rsp /\ x.job = th.job /\ x.at = th.at /\ x.pc = "data" /\ x.retrying = th.retrying /\ th.pc = "header"
        /\ x.transit = th.transit /\ x.tsih = th.tsih /\ x.from = th.from /\ x.to = th.to
    BY <1>1 DEF SendsHeader, Thread
  <2>2. NotYet(x) => NotYet(th)
    BY <2>1 DEF NotYet
  <2>3. Directed(x)
    BY <1>0, <2>1 DEF Directed, HasMoved
  <2>4. InForce(x, l, g)
    BY <1>0, <1>1, <2>1 DEF InForce, OfferOf
  <2> QED
    BY <2>1, <2>2, <2>3, <2>4, GoesOnNegotiated
<1>2. CASE QueryEnds(th, x) /\ l = k
  <2>1. /\ x.rsp = th.rsp /\ x.job = th.job /\ x.at = th.at /\ x.transit = th.transit /\ x.tsih = th.tsih
        /\ x.from = th.from /\ x.to = th.to /\ x.pc \in {"return", "header"} /\ (x.pc = "header" => x.retrying) /\ x.error
    BY <1>2 DEF QueryEnds, Goes, SameQuery
  <2>2. NotYet(x) => NotYet(th)
    BY <2>1 DEF NotYet
  <2>3. Directed(x)
    BY <1>0, <2>1 DEF Directed, HasMoved, Succeeded
  <2>4. InForce(x, l, g)
    BY <1>0, <1>2, <2>1 DEF InForce, OfferOf
  <2> QED
    BY <2>1, <2>2, <2>3, <2>4, GoesOnNegotiated
<1>3. ASSUME NEW at \in LoginSteps, NEW from \in Stages, NEW to \in Stages, OnPath(from, to), at = "negotiate" => from = "operational",
             x = Ask(th, at, from, to) \/ x = AskOn(th, at, from, to), x.rsp \in {th.rsp, NoKeys},
             th.at \in LoginSteps \ {"negotiate"}, l.active = k.active
      PROVE  Negotiated(x, l, g, w)
  <2>1. Directed(x) /\ ~x.transit /\ x.job = th.job
    BY <1>3, AsksDirected
  <2>2. NotYet(th)
    BY <1>3 DEF NotYet
  <2>3. InForce(x, l, g)
    <3>1. ~k.active
      BY <1>3, NoneIsNoRecord DEF Idles, LoginSteps
    <3> QED
      BY <1>3, <3>1 DEF InForce
  <2> QED
    BY <1>3, <2>1, <2>2, <2>3, GoesOnNegotiated
<1>4. /\ "security" \in Stages /\ "operational" \in Stages /\ "full" \in Stages
      /\ OnPath("security", "security") /\ OnPath("security", "operational") /\ OnPath("operational", "full") /\ OnPath("full", "full")
      /\ \A at \in {"auth", "blank", "chapStart", "chapAnswer"} : at \in LoginSteps \ {"negotiate"}
      /\ "negotiate" \in LoginSteps
  BY DEF Stages, OnPath, LoginSteps
<1>5. CASE AuthPasses(th, k, x, l)
  <2>1. x.rsp = NoKeys /\ l.active = k.active /\ th.at = "auth"
    BY <1>5, AuthPassesGives DEF AuthPasses
  <2>2. \/ x = Ask(th, "chapStart", "security", "security")
        \/ x = Ask(th, "negotiate", "operational", "full")
        \/ x = Ask(th, "blank", "security", "operational")
    BY <1>5 DEF AuthPasses, Negotiates
  <2>3. CASE x = Ask(th, "chapStart", "security", "security")
    BY <1>3, <1>4, <2>1, <2>3
  <2>4. CASE x = Ask(th, "negotiate", "operational", "full")
    BY <1>3, <1>4, <2>1, <2>4
  <2>5. CASE x = Ask(th, "blank", "security", "operational")
    BY <1>3, <1>4, <2>1, <2>5
  <2> QED
    BY <2>2, <2>3, <2>4, <2>5
<1>6. CASE QueryPasses(th, x) /\ l = k
  <2>1. x.rsp \in {th.rsp, NoKeys} /\ th.at \in {"blank", "chapStart", "chapAnswer"}
    BY <1>6, QueryPassesGives
  <2>2. x = Ask(th, "negotiate", "operational", "full") \/ x = AskOn(th, "chapAnswer", "security", "operational")
    BY <1>6 DEF QueryPasses, Negotiates
  <2>3. CASE x = Ask(th, "negotiate", "operational", "full")
    BY <1>3, <1>4, <1>6, <2>1, <2>3
  <2>4. CASE x = AskOn(th, "chapAnswer", "security", "operational")
    BY <1>3, <1>4, <1>6, <2>1, <2>4
  <2> QED
    BY <2>2, <2>3, <2>4
<1>7. CASE Leaves(th, k, x, l)
  <2>1. x.rsp = NoKeys /\ x.at = "logout" /\ ~l.active /\ x.job = th.job
    BY <1>7, LeavesGives
  <2>2. Directed(x) /\ ~x.transit
    <3>1. x = Ask(th, "logout", "full", "full") /\ "logout" \in LoginSteps \cup {"text", "logout"} /\ "logout" # "negotiate"
      BY <1>7 DEF Leaves
    <3> QED
      BY <1>4, <3>1, AsksDirected
  <2>3. ~NotYet(x) /\ InForce(x, l, g)
    BY <2>1 DEF NotYet, InForce, LoginSteps
  <2> QED
    BY <2>1, <2>2, <2>3, GoesOnNegotiated
<1> QED
  BY <1>1, <1>2, <1>5, <1>6, <1>7

\* A session is put to use as its target agreed.
LEMMA LogsInNegotiated ==
  ASSUME NoLongerWait, NEW th \in Thread, NEW k \in Session, NEW g, NEW w, NEW x, NEW l, th.job \in Jobs,
         Idles(th, k), Negotiated(th, k, g, w), LogsIn(th, k, x, l)
  PROVE  Negotiated(x, l, g, w)
<1> DEFINE s == th.rsp.settings
           o == OfferOf(th)
<1>1. /\ x.job = th.job /\ x.rsp = NoKeys /\ th.at = "negotiate" /\ th.pc = "return"
      /\ l.settings = Store(k.settings, o, s) /\ l.tsih = th.tsih /\ x.at \in {"text", "idle"}
      /\ th.job.kind = "discover" => l.active = k.active
  BY LogsInGives
<1>2. Succeeded(th) /\ CommonKeys \subseteq DOMAIN s
  BY DEF LogsIn, Agreed, NotSupported
<1>3. th.from = "operational" /\ th.to = "full" /\ th.at \in LoginSteps
  BY <1>1 DEF Negotiated, Directed, OnPath, LoginSteps
<1>4. th.transit
  BY <1>1, <1>2, <1>3 DEF Negotiated, Directed, HasMoved
<1>5. "ErrorRecoveryLevel" \in DOMAIN s
  BY <1>2 DEF CommonKeys
<1>6. s # <<>> /\ s # Part(g.settings)
  <2>1. DOMAIN <<>> = {}
    OBVIOUS
  <2>2. "ErrorRecoveryLevel" \notin DOMAIN Part(g.settings)
    BY DEF Part
  <2> QED
    BY <1>5, <2>1, <2>2
<1>7. s = g.settings /\ \E prefs \in Preferences : g.settings = Answer(o, prefs)
  BY <1>6 DEF Negotiated, Truthful, SaidOf
<1>8. Entered(g) /\ th.tsih
  BY <1>4, <1>6 DEF Negotiated, MovesLast
<1>9. ASSUME NEW n \in Counted(o, s) PROVE l.settings[n] = s[n]
  <2>1. PICK prefs \in Preferences : s = Answer(o, prefs)
    BY <1>7
  <2>2. DOMAIN o \subseteq Keys /\ \A i \in DOMAIN o : Fits(i, o[i])
    BY JobOffer
  <2>3. n \in DOMAIN s /\ DOMAIN s = DOMAIN o /\ n \in Keys
    <3> HIDE DEF o, s
    <3> QED
      BY <2>1, <2>2, AnswerFits DEF Counted
  <2>4. Combine(n, o[n], s[n]) = s[n]
    BY <2>1, <2>3, Agreeing
  <2>5. Store(k.settings, o, s)[n] = Combine(n, o[n], s[n])
    <3> HIDE DEF o, s
    <3> QED
      BY <2>3 DEF Store
  <2> QED
    BY <1>1, <2>4, <2>5
<1>10. InForce(x, l, g)
  <2>1. OfferOf(x) = o
    BY <1>1 DEF OfferOf
  <2> HIDE DEF o, s
  <2> QED
    BY <1>1, <1>6, <1>7, <1>8, <1>9, <2>1 DEF InForce
<1>11. Directed(x) /\ ~x.transit
  <2>1. CASE x = Ask(th, "text", "full", "full")
    BY <2>1, AsksDirected DEF Stages, OnPath
  <2>2. CASE \E settings : x = Ended(th, Reported(settings, th.job))
    BY <2>2, EndedDirected DEF Reported
  <2> QED
    BY <2>1, <2>2 DEF LogsIn
<1>12. ~NotYet(x)
  BY <1>1 DEF NotYet, LoginSteps
<1> QED
  BY <1>1, <1>10, <1>11, <1>12, GoesOnNegotiated

LEMMA SendsNegotiated ==
  ASSUME NEW th \in Thread, NEW k, NEW g, NEW w \in Wire, NEW x, NEW v, th.job \in Jobs,
         Negotiated(th, k, g, w), SendsData(th, k, w, x, v),
         v.reqs[Len(w.reqs) + 1].header.from = th.from, v.reqs[Len(w.reqs) + 1].header.to = th.to
  PROVE  Negotiated(x, k, g, v)
<1>1. PICK r \in Requests : r.data = Data(th) /\ v = [w EXCEPT !.reqs = Append(w.reqs, r)]
  BY DEF SendsData
<1>2. /\ v.reqs = Append(w.reqs, r) /\ v.rsps = w.rsps /\ Len(v.reqs) = Len(w.reqs) + 1 /\ Len(w.reqs) \in Nat
      /\ v.reqs[Len(w.reqs) + 1] = r /\ \A i \in 1 .. Len(w.reqs) : v.reqs[i] = w.reqs[i]
  BY <1>1, AppendTyped
<1>3. r.data.offer # <<>> => th.at = "negotiate" /\ ~th.retrying
  BY <1>1, DataTyped
<1>4. /\ x.at = th.at /\ x.job = th.job /\ x.rsp = th.rsp /\ x.pc = "receive" /\ x.retrying = th.retrying
      /\ th.pc = "data" /\ x.from = th.from /\ x.to = th.to /\ x.transit = th.transit /\ x.tsih = th.tsih
  BY DEF SendsData, Thread
<1>5. r.data.offer # <<>> => NotYet(th)
  BY <1>3, <1>4 DEF NotYet
<1>6. (Offering(v) => Offering(w) \/ r.data.offer # <<>>) /\ (Unsaid(w) => Unsaid(v))
  BY <1>2 DEF Offering, Unsaid
<1>7. NotYet(x) => NotYet(th) /\ r.data.offer = <<>>
  BY <1>3, <1>4 DEF NotYet
<1>8. ASSUME NEW i \in 1 .. Len(v.reqs), NEW j \in 1 .. Len(v.reqs), v.reqs[i].data.offer # <<>>, v.reqs[j].data.offer # <<>>
      PROVE  i = j
  <2>1. CASE i \in 1 .. Len(w.reqs) /\ j \in 1 .. Len(w.reqs)
    BY <1>2, <1>8, <2>1 DEF Negotiated, OfferedOnce
  <2>2. CASE i = Len(w.reqs) + 1 /\ j = Len(w.reqs) + 1
    BY <2>2
  <2>3. CASE i = Len(w.reqs) + 1 /\ j \in 1 .. Len(w.reqs)
    BY <1>2, <1>5, <1>8, <2>3 DEF Negotiated, OfferedOnce, Offering
  <2>4. CASE j = Len(w.reqs) + 1 /\ i \in 1 .. Len(w.reqs)
    BY <1>2, <1>5, <1>8, <2>4 DEF Negotiated, OfferedOnce, Offering
  <2> QED
    BY <1>2, <2>1, <2>2, <2>3, <2>4
<1>9. OfferedOnce(x, g, v)
  BY <1>4, <1>5, <1>6, <1>7, <1>8 DEF Negotiated, OfferedOnce
<1>10. Truthful(x, g, v)
  BY <1>2, <1>4 DEF Negotiated, Truthful, OfferOf
<1>11. Directed(x)
  BY <1>4 DEF Negotiated, Directed, HasMoved
<1>12. Carried(v)
  <2> SUFFICES ASSUME NEW i \in 1 .. Len(v.reqs)
               PROVE  /\ OnPath(v.reqs[i].header.from, v.reqs[i].header.to)
                      /\ v.reqs[i].data.offer # <<>> => v.reqs[i].header.from = "operational"
    BY DEF Carried
  <2>1. CASE i \in 1 .. Len(w.reqs)
    BY <1>2, <2>1 DEF Negotiated, Carried
  <2>2. CASE i = Len(w.reqs) + 1
    BY <1>2, <1>3, <2>2 DEF Negotiated, Directed
  <2> QED
    BY <1>2, <2>1, <2>2
<1>13. MovesLast(x, g, v)
  BY <1>2, <1>4 DEF Negotiated, MovesLast
<1>14. InForce(x, k, g)
  BY <1>4 DEF Negotiated, InForce, OfferOf
<1> QED
  BY <1>9, <1>10, <1>11, <1>12, <1>13, <1>14 DEF Negotiated

LEMMA ReceivesNegotiated ==
  ASSUME NEW th \in Thread, NEW k \in Session, NEW g, NEW w \in Wire, NEW x, NEW l, NEW v,
         Negotiated(th, k, g, w), Receives(th, k, w, x, l, v)
  PROVE  Negotiated(x, l, g, v)
<1> DEFINE pdu == Head(w.rsps)
<1>1. /\ l.active = k.active /\ l.settings = k.settings /\ x.at = th.at /\ x.job = th.job /\ x.rsp \in {th.rsp, pdu.keys}
      /\ \/ x = th
         \/ th.pc = "receive" /\ x.pc \in {"return", "header", "receive"} /\ (x.pc = "header" => x.retrying)
  BY ReceivesGives
<1>2. w.rsps # <<>> /\ v = [w EXCEPT !.rsps = Tail(w.rsps)] /\ l.tsih = k.tsih
  BY DEF Receives, Session
<1>3. /\ v.reqs = w.reqs /\ v.rsps = Tail(w.rsps) /\ pdu = w.rsps[1] /\ 1 \in 1 .. Len(w.rsps)
      /\ \A i \in 1 .. Len(Tail(w.rsps)) : i + 1 \in 1 .. Len(w.rsps) /\ Tail(w.rsps)[i] = w.rsps[i + 1]
      /\ \A i, j \in 1 .. Len(Tail(w.rsps)) : (j <= i => j + 1 <= i + 1) /\ 1 <= i + 1
  BY <1>2, TailTyped
<1> HIDE DEF pdu
<1>4. (Offering(v) <=> Offering(w)) /\ (Unsaid(w) => Unsaid(v))
  BY <1>3 DEF Offering, Unsaid
<1>5. NotYet(x) => NotYet(th)
  BY <1>1 DEF NotYet
<1>6. /\ SaidOf(x.rsp.settings, g)
      /\ Unsaid(w) /\ th.rsp.settings = <<>> => x.rsp.settings = <<>>
  BY <1>1, <1>3 DEF Negotiated, Truthful, Unsaid
<1>7. OfferedOnce(x, g, v)
  <2>1. \A i, j \in 1 .. Len(v.reqs) : v.reqs[i].data.offer # <<>> /\ v.reqs[j].data.offer # <<>> => i = j
    BY <1>3 DEF Negotiated, OfferedOnce
  <2> QED
    BY <1>4, <1>5, <1>6, <2>1 DEF Negotiated, OfferedOnce
<1>8. Truthful(x, g, v)
  <2>1. \A i \in 1 .. Len(v.rsps) : SaidOf(v.rsps[i].keys.settings, g)
    BY <1>3 DEF Negotiated, Truthful
  <2>2. OfferOf(x) = OfferOf(th)
    BY <1>1 DEF OfferOf
  <2> QED
    BY <1>6, <2>1, <2>2 DEF Negotiated, Truthful
<1>9. Carried(v)
  BY <1>3 DEF Negotiated, Carried
<1>10. InForce(x, l, g)
  BY <1>1, <1>2 DEF Negotiated, InForce, OfferOf
\* What becomes of the thread's own fields.
<1>11. \/ x = th
       \/ th.at \in {"text", "logout"} /\ x.from = th.from /\ x.to = th.to
       \/ th.at \in LoginSteps /\ Heard(x, th, pdu)
  BY DEF Receives, Returned, Thread, pdu
<1>12. Directed(x)
  <2>1. x.from = th.from /\ x.to = th.to /\ HasMoved(x)
    <3>1. CASE x = th
      BY <3>1 DEF Negotiated, Directed
    <3>2. CASE th.at \in {"text", "logout"} /\ x.from = th.from /\ x.to = th.to
      BY <1>1, <3>2 DEF HasMoved, LoginSteps
    <3>3. CASE Heard(x, th, pdu)
      BY <3>3 DEF Heard
    <3> QED
      BY <1>11, <3>1, <3>2, <3>3
  <2> QED
    BY <1>1, <2>1 DEF Negotiated, Directed
<1>13. ASSUME NEW i \in 1 .. Len(v.rsps), NEW j \in 1 .. Len(v.rsps), j <= i, v.rsps[j].keys.settings # <<>>
       PROVE  Moves(v.rsps[i], g)
  BY <1>3, <1>13 DEF Negotiated, MovesLast
<1>14. ASSUME x.rsp.settings # <<>>, NEW i \in 1 .. Len(v.rsps) PROVE Moves(v.rsps[i], g)
  <2>1. CASE x.rsp = th.rsp
    BY <1>3, <1>14, <2>1 DEF Negotiated, MovesLast
  <2>2. CASE x.rsp = pdu.keys
    BY <1>3, <1>14, <2>2 DEF Negotiated, MovesLast
  <2> QED
    BY <1>1, <2>1, <2>2
<1>15. ASSUME x.rsp.settings # <<>>, x.transit PROVE x.at = "negotiate" /\ Entered(g) /\ x.tsih
  <2>1. CASE x = th
    BY <1>15, <2>1 DEF Negotiated, MovesLast
  <2>2. ~NotYet(x)
    BY <1>7, <1>15 DEF OfferedOnce
  <2>3. CASE th.at \in {"text", "logout"}
    <3>1. th.transit /\ x.rsp.settings # <<>>
      BY <1>1, <1>15, <2>3 DEF Receives, Returned, Thread, LoginSteps
    <3>2. x.rsp = th.rsp
      BY <1>1, <2>3 DEF Receives, Returned, Thread, LoginSteps
    <3>3. th.at = "negotiate"
      BY <3>1, <3>2 DEF Negotiated, MovesLast
    <3> QED
      BY <2>3, <3>3
  <2>4. CASE th.at \in LoginSteps /\ Heard(x, th, pdu)
    <3>1. x.at = "negotiate" /\ th.to = "full"
      BY <1>1, <2>2, <2>4 DEF NotYet, Negotiated, Directed, OnPath
    <3>2. CASE pdu.op # "reject" /\ pdu.status = "success"
      <4>1. pdu.transit /\ (pdu.tsih => x.tsih)
        BY <1>15, <2>4, <3>1, <3>2 DEF Heard
      <4>2. Moves(pdu, g)
        <5>1. CASE x.rsp = th.rsp
          BY <1>3, <1>15, <5>1 DEF Negotiated, MovesLast
        <5>2. CASE x.rsp = pdu.keys
          <6>1. 1 <= 1 /\ w.rsps[1].keys.settings # <<>>
            BY <1>3, <1>15, <5>2
          <6> QED
            BY <1>3, <6>1 DEF Negotiated, MovesLast
        <5> QED
          BY <1>1, <5>1, <5>2
      <4> QED
        BY <3>1, <4>1, <4>2 DEF Moves
    <3>3. CASE ~(pdu.op # "reject" /\ pdu.status = "success")
      <4>1. x.rsp = th.rsp /\ x.transit = th.transit /\ (th.tsih => x.tsih)
        BY <2>4, <3>3 DEF Heard
      <4> QED
        BY <1>1, <1>15, <4>1 DEF Negotiated, MovesLast
    <3> QED
      BY <3>2, <3>3
  <2> QED
    BY <1>11, <2>1, <2>3, <2>4
<1>16. MovesLast(x, g, v)
  BY <1>13, <1>14, <1>15 DEF MovesLast
<1> QED
  BY <1>7, <1>8, <1>9, <1>10, <1>12, <1>16 DEF Negotiated

\* A target that has entered the full feature phase does not leave it but to close.
LEMMA StaysEntered ==
  ASSUME NEW g, NEW r, NEW new, NEW pdus, Made(g, r, new, pdus), OnPath(r.header.from, r.header.to), Entered(g)
  PROVE  Entered(new)
BY DEF Made, OnPath, Entered

\* And one that has answered moves on to nothing else.
LEMMA AnsweredEnters ==
  ASSUME NEW g, NEW r, NEW new, NEW pdus, Made(g, r, new, pdus), OnPath(r.header.from, r.header.to), g.stage # "security"
  PROVE  new.stage # "security" /\ \A i \in 1 .. Len(pdus) : Moves(pdus[i], new)
<1>1. CASE new.stage \in {g.stage, "closed"} /\ \A i \in 1 .. Len(pdus) : ~pdus[i].transit /\ ~pdus[i].tsih
  BY <1>1 DEF Moves
<1>2. CASE /\ g.stage = r.header.from /\ r.header.from # r.header.to /\ new.stage = r.header.to
           /\ \A i \in 1 .. Len(pdus) : pdus[i].transit /\ r.header.to = "full" => pdus[i].tsih
  BY <1>2 DEF OnPath, Moves, Entered
<1> QED
  BY <1>1, <1>2 DEF Made

LEMMA AnswersNegotiated ==
  ASSUME NEW th, NEW k, NEW g \in Target, NEW w \in Wire, NEW h, NEW v, th.job \in Jobs,
         \A i \in 1 .. Len(w.reqs) : w.reqs[i].data.offer \in {<<>>, OfferOf(th)},
         Negotiated(th, k, g, w), TargetAnswers(k, g, w, h, v)
  PROVE  Negotiated(th, k, h, v)
<1>1. PICK new, pdus : /\ Made(g, Head(w.reqs), new, pdus)
                       /\ h = [new EXCEPT !.statSN = (@ + Len(pdus)) % Modulus]
                       /\ v = [w EXCEPT !.reqs = Tail(w.reqs), !.rsps = w.rsps \o Numbered(pdus, g.statSN)]
  BY DEF TargetAnswers
<1> DEFINE q == Numbered(pdus, g.statSN)
           r == Head(w.reqs)
<1>2. new \in Target /\ pdus \in Seq(Responses) /\ w.reqs # <<>>
  BY <1>1 DEF Made, TargetAnswers
<1>3. /\ q \in Seq(Responses) /\ Len(q) = Len(pdus)
      /\ \A i \in 1 .. Len(pdus) : q[i].keys = pdus[i].keys /\ q[i].transit = pdus[i].transit /\ q[i].tsih = pdus[i].tsih
  <2>1. /\ q \in Seq(Responses) /\ Len(q) = Len(pdus)
        /\ \A i \in 1 .. Len(pdus) : q[i] = [pdus[i] EXCEPT !.statSN = (g.statSN + i - 1) % Modulus]
    BY <1>2, NumberedTyped DEF Target, Numbers
  <2>2. \A i \in 1 .. Len(pdus) : pdus[i] \in Responses
    BY <1>2
  <2> HIDE DEF q
  <2>3. \A i \in 1 .. Len(pdus) : q[i].keys = pdus[i].keys /\ q[i].transit = pdus[i].transit /\ q[i].tsih = pdus[i].tsih
    BY <2>1, <2>2 DEF Responses
  <2> QED
    BY <2>1, <2>3
<1>4. h.settings = new.settings /\ h.stage = new.stage
  BY <1>1, <1>2 DEF Target
<1> HIDE DEF q
<1>5. w.reqs \in Seq(Requests) /\ w.rsps \in Seq(Responses) /\ v.reqs = Tail(w.reqs) /\ v.rsps = w.rsps \o q
  BY <1>1 DEF Wire, q
<1>6. /\ r = w.reqs[1] /\ 1 \in 1 .. Len(w.reqs) /\ Len(w.reqs) \in Nat
      /\ \A i \in 1 .. Len(v.reqs) : i \in Nat /\ i + 1 \in 1 .. Len(w.reqs) /\ i + 1 # 1 /\ v.reqs[i] = w.reqs[i + 1]
  <2>1. Len(w.reqs) \in Nat /\ Len(w.reqs) # 0
    BY <1>2, <1>5
  <2>2. Len(Tail(w.reqs)) = Len(w.reqs) - 1
    BY <1>2, <1>5
  <2>3. \A i \in 1 .. Len(Tail(w.reqs)) : i \in Nat /\ i + 1 \in 1 .. Len(w.reqs) /\ i + 1 # 1 /\ Tail(w.reqs)[i] = w.reqs[i + 1]
    BY <1>2, <1>5, <2>1, <2>2
  <2> QED
    BY <1>2, <1>5, <2>1, <2>3
<1>7. /\ Len(w.rsps) \in Nat
      /\ \A i \in 1 .. Len(v.rsps) : \/ i \in 1 .. Len(w.rsps) /\ v.rsps[i] = w.rsps[i]
                                     \/ i - Len(w.rsps) \in 1 .. Len(q) /\ v.rsps[i] = q[i - Len(w.rsps)]
  BY <1>3, <1>5, Joined
<1>8. OnPath(r.header.from, r.header.to) /\ (r.data.offer # <<>> => r.header.from = "operational")
  BY <1>6 DEF Negotiated, Carried
<1>9. /\ Entered(g) => Entered(h)
      /\ g.stage # "security" => h.stage # "security" /\ \A i \in 1 .. Len(q) : Moves(q[i], h)
  <2>1. Made(g, r, new, pdus)
    BY <1>1
  <2> HIDE DEF r
  <2>2. Entered(g) => Entered(new)
    BY <1>8, <2>1, StaysEntered
  <2>3. g.stage # "security" => new.stage # "security" /\ \A i \in 1 .. Len(pdus) : Moves(pdus[i], new)
    BY <1>8, <2>1, AnsweredEnters
  <2> QED
    BY <1>3, <1>4, <2>2, <2>3 DEF Moves, Entered
<1>10. \/ h.settings = g.settings /\ \A i \in 1 .. Len(q) : q[i].keys.settings = <<>>
       \/ /\ r.data.offer # <<>> /\ g.stage = r.header.from
          /\ \E prefs \in Preferences : h.settings = Answer(r.data.offer, prefs)
          /\ \A i \in 1 .. Len(q) : q[i].keys.settings \in {<<>>, h.settings, Part(h.settings)}
  BY <1>1, <1>3, <1>4 DEF Made
<1> HIDE DEF r
<1>11. Offering(v) => Offering(w) /\ r.data.offer = <<>>
  <2> SUFFICES ASSUME NEW i \in 1 .. Len(v.reqs), v.reqs[i].data.offer # <<>>
               PROVE  Offering(w) /\ r.data.offer = <<>>
    BY DEF Offering
  <2>1. i + 1 \in 1 .. Len(w.reqs) /\ i + 1 # 1 /\ w.reqs[i + 1].data.offer # <<>>
    BY <1>6
  <2> QED
    BY <1>6, <2>1 DEF Negotiated, OfferedOnce, Offering
<1>12. r.data.offer # <<>> => Offering(w) /\ ~Offering(v)
  BY <1>6, <1>11 DEF Offering
<1>13. \A i, j \in 1 .. Len(v.reqs) : v.reqs[i].data.offer # <<>> /\ v.reqs[j].data.offer # <<>> => i = j
  <2> SUFFICES ASSUME NEW i \in 1 .. Len(v.reqs), NEW j \in 1 .. Len(v.reqs), v.reqs[i].data.offer # <<>>, v.reqs[j].data.offer # <<>>
               PROVE  i = j
    OBVIOUS
  <2>1. /\ i + 1 \in 1 .. Len(w.reqs) /\ j + 1 \in 1 .. Len(w.reqs) /\ i \in Nat /\ j \in Nat
        /\ w.reqs[i + 1].data.offer # <<>> /\ w.reqs[j + 1].data.offer # <<>>
    BY <1>6
  <2>2. i + 1 = j + 1
    BY <2>1 DEF Negotiated, OfferedOnce
  <2> QED
    BY <2>1, <2>2
<1>14. Carried(v)
  BY <1>6 DEF Negotiated, Carried
<1>15. Directed(th)
  BY DEF Negotiated
<1>16. CASE h.settings = g.settings /\ \A i \in 1 .. Len(q) : q[i].keys.settings = <<>>
  <2>1. Unsaid(w) => Unsaid(v)
    BY <1>7, <1>16 DEF Unsaid
  <2>2. OfferedOnce(th, h, v)
    BY <1>11, <1>13, <1>16, <2>1 DEF Negotiated, OfferedOnce
  <2>3. Truthful(th, h, v)
    BY <1>7, <1>9, <1>16 DEF Negotiated, Truthful, SaidOf
  <2>4. \A i \in 1 .. Len(w.rsps) : Moves(w.rsps[i], g) => Moves(w.rsps[i], h)
    BY <1>9 DEF Moves
  <2>5. ASSUME NEW i \in 1 .. Len(v.rsps), NEW j \in 1 .. Len(v.rsps), j <= i, v.rsps[j].keys.settings # <<>>
        PROVE  Moves(v.rsps[i], h)
    <3>1. j \in 1 .. Len(w.rsps) /\ w.rsps[j].keys.settings # <<>>
      BY <1>7, <1>16, <2>5
    <3>2. g.stage # "security"
      BY <3>1 DEF Negotiated, Truthful, SaidOf
    <3> QED
      BY <1>7, <1>9, <2>4, <2>5, <3>1, <3>2 DEF Negotiated, MovesLast
  <2>6. ASSUME th.rsp.settings # <<>>, NEW i \in 1 .. Len(v.rsps) PROVE Moves(v.rsps[i], h)
    <3>1. g.stage # "security"
      BY <2>6 DEF Negotiated, Truthful, SaidOf
    <3> QED
      BY <1>7, <1>9, <2>4, <2>6, <3>1 DEF Negotiated, MovesLast
  <2>7. MovesLast(th, h, v)
    BY <1>9, <2>5, <2>6 DEF Negotiated, MovesLast
  <2>8. InForce(th, k, h)
    BY <1>9, <1>16 DEF Negotiated, InForce
  <2> QED
    BY <1>14, <1>15, <2>2, <2>3, <2>7, <2>8 DEF Negotiated
<1>17. CASE /\ r.data.offer # <<>> /\ g.stage = r.header.from
            /\ \E prefs \in Preferences : h.settings = Answer(r.data.offer, prefs)
            /\ \A i \in 1 .. Len(q) : q[i].keys.settings \in {<<>>, h.settings, Part(h.settings)}
  <2>1. /\ Offering(w) /\ ~Offering(v) /\ g.settings = <<>> /\ th.rsp.settings = <<>> /\ Unsaid(w) /\ ~NotYet(th)
    BY <1>12, <1>17 DEF Negotiated, OfferedOnce
  <2>2. r.data.offer = OfferOf(th) /\ g.stage # "security"
    BY <1>6, <1>8, <1>17
  <2>3. h.settings # <<>>
    <3>1. PICK prefs \in Preferences : h.settings = Answer(OfferOf(th), prefs)
      BY <1>17, <2>2
    <3>2. DOMAIN h.settings = DOMAIN OfferOf(th)
      BY <3>1, JobOffer, AnswerFits
    <3>3. "ErrorRecoveryLevel" \in DOMAIN OfferOf(th)
      BY JobOffer DEF CommonKeys
    <3>4. DOMAIN <<>> = {}
      OBVIOUS
    <3> QED
      BY <3>2, <3>3, <3>4
  <2>4. OfferedOnce(th, h, v)
    BY <1>13, <2>1 DEF OfferedOnce
  <2>5. \A i \in 1 .. Len(v.rsps) : SaidOf(v.rsps[i].keys.settings, h)
    BY <1>7, <1>17, <2>1, <2>3 DEF SaidOf, Unsaid
  <2>6. Truthful(th, h, v)
    BY <1>9, <1>17, <2>1, <2>2, <2>5 DEF Truthful, SaidOf
  <2>7. ASSUME NEW i \in 1 .. Len(v.rsps), NEW j \in 1 .. Len(v.rsps), j <= i, v.rsps[j].keys.settings # <<>>
        PROVE  Moves(v.rsps[i], h)
    <3>1. j \notin 1 .. Len(w.rsps)
      BY <1>7, <2>1, <2>7 DEF Unsaid
    <3>2. i \notin 1 .. Len(w.rsps)
      BY <1>7, <2>7, <3>1
    <3> QED
      BY <1>7, <1>9, <2>2, <3>2
  <2>8. MovesLast(th, h, v)
    BY <2>1, <2>7 DEF MovesLast
  <2>9. InForce(th, k, h)
    BY <2>1 DEF Negotiated, InForce
  <2> QED
    BY <1>14, <1>15, <2>4, <2>6, <2>8, <2>9 DEF Negotiated
<1> QED
  BY <1>10, <1>16, <1>17

\* Nothing comes that says anything of the keys, or that moves on.
LEMMA QuietNegotiated ==
  ASSUME NEW th, NEW k, NEW g, NEW w, NEW l, NEW v, Negotiated(th, k, g, w), InForce(th, l, g),
         \/ v.reqs = w.reqs
         \/ \A i \in 1 .. Len(v.reqs) : /\ v.reqs[i].data.offer = <<>>
                                       /\ OnPath(v.reqs[i].header.from, v.reqs[i].header.to),
         \A i \in 1 .. Len(v.rsps) : v.rsps[i].keys.settings = <<>> /\ ~v.rsps[i].transit
  PROVE  Negotiated(th, l, g, v)
<1>1. Unsaid(v) /\ (Offering(v) => Offering(w)) /\ Carried(v)
  BY DEF Unsaid, Offering, Carried, Negotiated
<1>2. \A i, j \in 1 .. Len(v.reqs) : v.reqs[i].data.offer # <<>> /\ v.reqs[j].data.offer # <<>> => i = j
  BY DEF Negotiated, OfferedOnce
<1>3. OfferedOnce(th, g, v)
  BY <1>1, <1>2 DEF Negotiated, OfferedOnce
<1>4. Truthful(th, g, v)
  BY DEF Negotiated, Truthful, SaidOf
<1>5. MovesLast(th, g, v)
  BY DEF Negotiated, MovesLast, Moves
<1> QED
  BY <1>1, <1>3, <1>4, <1>5 DEF Negotiated

LEMMA BeginsNegotiated ==
  ASSUME NEW th, NEW k, NEW x, NEW l, NEW h, NEW v, Begins(th, k, x, l, h, v)
  PROVE  Negotiated(x, l, h, v)
<1>1. /\ x.at \in {"auth", "interrogate"} /\ x.rsp = NoKeys /\ x.pc = "header"
      /\ x.from = "security" /\ x.to \in {"security", "operational"} /\ l = NewSession /\ v = NoWire
  BY BeginsGives
<1>2. h.settings = <<>>
  BY BeginsGives DEF NewTarget
<1>3. x.rsp.settings = <<>> /\ ~l.active
  BY <1>1, NothingIsSaid, NewTyped
<1>4. v.reqs = <<>> /\ v.rsps = <<>>
  BY <1>1, WireTyped
<1>5. Len(v.reqs) = 0 /\ Len(v.rsps) = 0
  BY <1>4
<1>6. ~Offering(v) /\ Unsaid(v) /\ Carried(v) /\ \A i, j \in 1 .. Len(v.reqs) : i = j
  BY <1>5 DEF Offering, Unsaid, Carried
<1>7. OfferedOnce(x, h, v)
  BY <1>2, <1>3, <1>6 DEF OfferedOnce
<1>8. Truthful(x, h, v)
  BY <1>2, <1>3, <1>5 DEF Truthful, SaidOf
<1>9. Directed(x)
  BY <1>1 DEF Directed, OnPath, HasMoved
<1>10. MovesLast(x, h, v)
  BY <1>3, <1>5 DEF MovesLast
<1> QED
  BY <1>3, <1>6, <1>7, <1>8, <1>9, <1>10 DEF Negotiated, InForce

\* The header of what is sent says what the query is about.
Headed(th, w, x, v) ==
    th.pc = "data" /\ x.pc = "receive" =>
        v.reqs[Len(w.reqs) + 1].header.from = th.from /\ v.reqs[Len(w.reqs) + 1].header.to = th.to

Agrees(th, k, g, w) == k # None => Negotiated(th, k, g, w)

LEMMA StepNegotiated ==
  ASSUME NoLongerWait,
         NEW th \in Thread, NEW k \in Session \cup {None}, NEW g \in Target \cup {None}, NEW w \in Wire,
         NEW x, NEW l, NEW h, NEW v, Headed(th, w, x, v),
         Rests(th, k, g, w), Idles(th, k), Agrees(th, k, g, w), Step(th, k, g, w, x, l, h, v)
  PROVE  Agrees(x, l, h, v)
<1> SUFFICES ASSUME l # None PROVE Negotiated(x, l, h, v)
  BY DEF Agrees
<1>0. k # None => Negotiated(th, k, g, w) /\ g \in Target /\ th.job \in Jobs /\ k \in Session
  BY DEF Rests, Agrees
<1>1. CASE SendsHeader(th, x) /\ l = k /\ h = g /\ v = w
  BY <1>0, <1>1, KeepsNegotiated
<1>2. CASE QueryEnds(th, x) /\ l = k /\ h = g /\ v = w
  BY <1>0, <1>2, KeepsNegotiated
<1>3. CASE SendsData(th, k, w, x, v) /\ l = k /\ h = g
  <2>1. th.pc = "data" /\ x.pc = "receive" /\ k # None
    BY <1>3 DEF SendsData, Thread
  <2> QED
    BY <1>0, <1>3, <2>1, SendsNegotiated DEF Headed
<1>4. CASE Receives(th, k, w, x, l, v) /\ h = g
  <2>1. k # None
    BY <1>4 DEF Receives
  <2> QED
    BY <1>0, <1>4, <2>1, ReceivesNegotiated
<1>5. CASE FailsToStart(th, k, x) /\ l = k
  BY <1>5 DEF FailsToStart
<1>6. CASE Begins(th, k, x, l, h, v)
  BY <1>6, BeginsNegotiated
<1>7. CASE Releases(th, x, l, h, v)
  BY <1>7 DEF Releases
<1>8. CASE k # None /\ AuthPasses(th, k, x, l) /\ h = g /\ v = w
  BY <1>0, <1>8, KeepsNegotiated
<1>9. CASE k # None /\ QueryPasses(th, x) /\ l = k /\ h = g /\ v = w
  <2>1. th.at \in LoginSteps
    BY <1>9 DEF QueryPasses, LoginSteps
  <2> QED
    BY <1>0, <1>9, <2>1, KeepsNegotiated
<1>10. CASE k # None /\ LogsIn(th, k, x, l) /\ h = g /\ v = w
  BY <1>0, <1>10, LogsInNegotiated
<1>11. CASE Leaves(th, k, x, l) /\ h = g /\ v = w
  <2>1. k # None
    BY <1>11 DEF Leaves
  <2> QED
    BY <1>0, <1>11, <2>1, KeepsNegotiated
<1>12. CASE BeginsTask(k, w, l, v) /\ x = th /\ h = g
  <2>1. k # None /\ w = NoWire /\ k.active /\ l.active /\ l.settings = k.settings
    BY <1>12, BeginsTaskGives DEF BeginsTask
  <2>2. l.tsih = k.tsih
    BY <1>0, <1>12, <2>1 DEF BeginsTask, Session
  <2>3. PICK r \in Requests : /\ r.data = NoData /\ r.header.from = "full" /\ r.header.to = "full"
                              /\ v = [w EXCEPT !.reqs = Append(w.reqs, r)]
    BY <1>12 DEF BeginsTask
  <2>4. w.reqs = <<>> /\ w.rsps = <<>> /\ Len(w.reqs) = 0
    BY <2>1, WireTyped
  <2>5. v.rsps = <<>> /\ Len(v.reqs) = 1 /\ v.reqs[1] = r
    BY <2>3, <2>4, AppendTyped
  <2>6. r.data.offer = <<>>
    BY <2>3 DEF NoData
  <2>7. \A i \in 1 .. Len(v.reqs) : v.reqs[i].data.offer = <<>> /\ OnPath(v.reqs[i].header.from, v.reqs[i].header.to)
    BY <2>3, <2>5, <2>6 DEF OnPath
  <2>8. \A i \in 1 .. Len(v.rsps) : v.rsps[i].keys.settings = <<>> /\ ~v.rsps[i].transit
    BY <2>5
  <2>9. InForce(th, l, g)
    BY <1>0, <2>1, <2>2 DEF Negotiated, InForce
  <2> QED
    BY <1>0, <1>12, <2>1, <2>7, <2>8, <2>9, QuietNegotiated
<1>13. CASE TargetAnswers(k, g, w, h, v) /\ x = th /\ l = k
  <2>1. k # None /\ \A i \in 1 .. Len(w.reqs) : w.reqs[i].data.offer \in {<<>>, OfferOf(th)}
    BY <1>13 DEF TargetAnswers, Rests
  <2> QED
    BY <1>0, <1>13, <2>1, AnswersNegotiated
<1>14. CASE TargetAsks(k, g, w, v) /\ x = th /\ l = k /\ h = g
  <2>1. k # None
    BY <1>14 DEF TargetAsks
  <2>2. PICK r \in Responses : r.keys = NoKeys /\ ~r.transit /\ v = [w EXCEPT !.rsps = <<r>>]
    BY <1>14 DEF TargetAsks
  <2>3. v.reqs = w.reqs /\ v.rsps = <<r>>
    BY <2>2 DEF Wire
  <2>4. \A i \in 1 .. Len(v.rsps) : v.rsps[i].keys.settings = <<>> /\ ~v.rsps[i].transit
    BY <2>2, <2>3, NothingIsSaid
  <2> QED
    BY <1>0, <1>14, <2>1, <2>3, <2>4, QuietNegotiated DEF Negotiated
<1>15. CASE IsLost(k, w, v) /\ x = th /\ l = k /\ h = g
  <2>1. k # None
    BY <1>15 DEF IsLost
  <2>2. v.reqs = <<>> /\ v.rsps = <<>>
    BY <1>15, WireTyped DEF IsLost
  <2> QED
    BY <1>0, <1>15, <2>1, <2>2, QuietNegotiated DEF Negotiated
<1> QED
  BY <1>1, <1>2, <1>3, <1>4, <1>5, <1>6, <1>7, <1>8, <1>9, <1>10, <1>11, <1>12, <1>13, <1>14, <1>15 DEF Step

\* The buffer holds the header that its owner is to send.
Buffered(t) == thread[t].pc = "data" => bhsBuffer.from = thread[t].from /\ bhsBuffer.to = thread[t].to
BufferInv == \A t \in Threads : bhsBuffer.owner = t => Buffered(t)

\* Only a header makes a thread send data.
LEMMA StepToData ==
  ASSUME NEW th \in Thread, NEW k \in Session \cup {None}, NEW g, NEW w, NEW x, NEW l, NEW h, NEW v,
         Rests(th, k, g, w), Step(th, k, g, w, x, l, h, v), th.pc # "header"
  PROVE  x.pc # "data" \/ x = th
<1>1. CASE SendsHeader(th, x)
  BY <1>1 DEF SendsHeader
<1>2. CASE QueryEnds(th, x)
  BY <1>2 DEF QueryEnds, Goes
<1>3. CASE SendsData(th, k, w, x, v)
  BY <1>3 DEF SendsData, Thread
<1>4. CASE Receives(th, k, w, x, l, v)
  BY <1>4, ReceivesGives
<1>5. CASE FailsToStart(th, k, x)
  <2>1. x.pc = "idle"
    BY <1>5, JobThread, EndedTyped DEF FailsToStart
  <2> QED
    BY <2>1
<1>6. CASE Begins(th, k, x, l, h, v)
  BY <1>6, BeginsGives
<1>7. CASE Releases(th, x, l, h, v)
  <2>1. CASE \E outcome \in {"failed", "ended"} : x = Ended(th, outcome)
    BY <2>1, EndedTyped
  <2>2. CASE x = Ask(th, "text", "full", "full")
    BY <2>2, AskTyped DEF Stages
  <2> QED
    BY <1>7, <2>1, <2>2 DEF Releases
<1>8. CASE k # None /\ AuthPasses(th, k, x, l)
  BY <1>8, AuthPassesGives
<1>9. CASE k # None /\ QueryPasses(th, x)
  BY <1>9, QueryPassesGives
<1>10. CASE k # None /\ LogsIn(th, k, x, l)
  <2>1. CASE x = Ask(th, "text", "full", "full")
    BY <2>1, AskTyped DEF Stages
  <2>2. CASE \E settings : x = Ended(th, Reported(settings, th.job))
    BY <2>2, EndedTyped DEF Reported
  <2> QED
    BY <1>10, <2>1, <2>2 DEF LogsIn
<1>11. CASE Leaves(th, k, x, l)
  <2>1. x = Ask(th, "logout", "full", "full")
    BY <1>11 DEF Leaves
  <2> QED
    BY <2>1, AskTyped DEF Stages
<1>12. CASE x = th
  BY <1>12
<1> QED
  BY <1>1, <1>2, <1>3, <1>4, <1>5, <1>6, <1>7, <1>8, <1>9, <1>10, <1>11, <1>12 DEF Step

\* Nothing but SendBHS and SendData is done with the buffer.
LEMMA OtherSteps ==
  ASSUME TypeInv, NEW t \in Threads, Does(t)
  PROVE  \/ SendBHS(t) \/ SendData(t)
         \/ bhsBuffer' = bhsBuffer /\ (thread[t].pc \in {"idle", "receive", "return"} \/ thread' = thread)
<1>1. CASE \E job \in Jobs : Start(t, job)
  BY <1>1 DEF Start
<1>2. CASE Logout(t)
  BY <1>2 DEF Logout
<1>3. CASE ReceiveFails(t) \/ ReceiveLoginResponse(t) \/ ReceiveTextResponse(t) \/ ReceiveLogoutResponse(t)
  BY <1>3 DEF ReceiveFails, ReceiveLoginResponse, ReceiveTextResponse, ReceiveLogoutResponse, At
<1>4. CASE AuthReturns(t) \/ BlankReturns(t) \/ ChapStartReturns(t) \/ ChapAnswerReturns(t)
  BY <1>4 DEF AuthReturns, BlankReturns, ChapStartReturns, ChapAnswerReturns, At
<1>5. CASE NegotiateReturns(t) \/ InterrogateReturns(t) \/ TextReturns(t) \/ LogoutReturns(t)
  BY <1>5 DEF NegotiateReturns, InterrogateReturns, TextReturns, LogoutReturns, At
<1>6. CASE KernelStep(t)
  BY <1>6 DEF KernelStep, BeginTask, ProcessPDU
<1>7. CASE TargetStep(t)
  BY <1>7 DEF TargetStep, TargetAnswersLogin, TargetRefusesLogin, TargetAnswersText, TargetAnswersLogout,
              TargetAnswersCommand, TargetSendsNOPIn, Lost, Answers
<1>8. CASE SendBHS(t) \/ SendData(t)
  BY <1>8
<1> QED
  BY <1>1, <1>2, <1>3, <1>4, <1>5, <1>6, <1>7, <1>8 DEF Does, ThreadStep

\* What SendBHS leaves, and what SendData makes of it.
LEMMA SendBHSGives ==
  ASSUME TypeInv, NEW t \in Threads, SendBHS(t)
  PROVE  /\ bhsBuffer'.owner = t /\ thread'[t].pc = "data" /\ thread[t].pc = "header"
         /\ bhsBuffer'.from = thread'[t].from /\ bhsBuffer'.to = thread'[t].to
<1>1. thread[t] \in Thread
  BY Same
<1>2. thread'[t] = [thread[t] EXCEPT !.pc = "data", !.error = FALSE]
  BY DEF SendBHS, Update, TypeInv
<1>3. thread'[t].from = thread[t].from /\ thread'[t].to = thread[t].to /\ thread'[t].pc = "data"
  BY <1>1, <1>2 DEF Thread
<1>4. bhsBuffer'.owner = t /\ bhsBuffer'.from = thread[t].from /\ bhsBuffer'.to = thread[t].to
  BY DEF SendBHS
<1> QED
  BY <1>3, <1>4 DEF SendBHS

LEMMA SendDataGives ==
  ASSUME TypeInv, NEW t \in Threads, SendData(t)
  PROVE  /\ bhsBuffer' = bhsBuffer /\ thread[t].pc = "data" /\ thread'[t].pc # "data"
         /\ \/ thread'[t].pc # "receive" /\ wire' = wire
            \/ \E r \in Requests : r.header = bhsBuffer /\ wire' = [wire EXCEPT ![t].reqs = Append(@, r)]
<1>1. /\ thread[t] \in Thread /\ kernel[t] \in Session \cup {None} /\ wire[t] \in Wire
      /\ Rests(thread[t], kernel[t], target[t], wire[t])
  BY Same
<1>2. bhsBuffer' = bhsBuffer /\ thread[t].pc = "data"
  BY DEF SendData
<1>3. CASE Update(t, Fails(thread[t])) /\ UNCHANGED wire
  <2>1. thread'[t] = Fails(thread[t])
    BY <1>3 DEF Update, TypeInv
  <2>2. thread[t].retries < MaxRetryCount
    BY <1>1, <1>2 DEF Rests, Asking
  <2>3. thread'[t].pc \in {"return", "header"}
    BY <1>1, <2>1, <2>2, QueryFails DEF Goes
  <2> QED
    BY <1>2, <1>3, <2>3
<1>4. CASE SendPDU(t, bhsBuffer, Data(thread[t]), TRUE) /\ Update(t, [thread[t] EXCEPT !.pc = "receive"]) /\ kernel[t] # None
  <2> DEFINE r == [header |-> bhsBuffer, data |-> Data(thread[t]), immediate |-> TRUE,
                   cmdSN |-> kernel[t].cmdSN, expStatSN |-> kernel[t].expStatSN]
  <2>1. thread'[t].pc = "receive"
    BY <1>1, <1>4 DEF Update, TypeInv, Thread
  <2>2. wire' = [wire EXCEPT ![t].reqs = Append(@, r)]
    BY <1>4 DEF SendPDU
  <2>3. r.header = bhsBuffer
    OBVIOUS
  <2>4. r \in Requests
    <3>1. Data(thread[t]) \in Contents
      BY <1>1, <1>2, <1>4, DataTyped DEF Rests
    <3>2. bhsBuffer \in Header
      BY DEF TypeInv, Buffer, Header
    <3>3. kernel[t] \in Session
      BY <1>1, <1>4
    <3>4. kernel[t].cmdSN \in Numbers /\ kernel[t].expStatSN \in Numbers
      BY <3>3 DEF Session, Numbers
    <3> QED
      BY <3>1, <3>2, <3>4 DEF Requests
  <2> HIDE DEF r
  <2> QED
    BY <1>2, <2>1, <2>2, <2>3, <2>4
<1> QED
  BY <1>3, <1>4 DEF SendData

\* What is appended is the last request.
LEMMA LastRequest ==
  ASSUME TypeInv, NEW t \in Threads, NEW r \in Requests, wire' = [wire EXCEPT ![t].reqs = Append(@, r)]
  PROVE  /\ wire'[t].reqs = Append(wire[t].reqs, r)
         /\ wire'[t].reqs[Len(wire[t].reqs) + 1] = r
         /\ DOMAIN wire'[t].reqs = 1 .. Len(wire[t].reqs) + 1
<1>1. wire[t] \in Wire
  BY Same
<1>2. wire'[t].reqs = Append(wire[t].reqs, r)
  BY <1>1 DEF TypeInv, Wire
<1>3. wire[t].reqs \in Seq(Requests)
  BY <1>1 DEF Wire
<1> QED
  BY <1>2, <1>3

LEMMA BufferKept ==
  ASSUME TypeInv, BufferInv, HeaderIsOwn', NEW t \in Threads, Does(t)
  PROVE  BufferInv' /\ Headed(thread[t], wire[t], thread'[t], wire'[t])
<1>1. \A u \in Threads \ {t} : thread'[u] = thread[u]
  BY OneSteps DEF Steps
<1>2. CASE SendBHS(t)
  <2>1. /\ bhsBuffer'.owner = t /\ thread[t].pc = "header"
        /\ bhsBuffer'.from = thread'[t].from /\ bhsBuffer'.to = thread'[t].to
    BY <1>2, SendBHSGives
  <2> QED
    BY <2>1 DEF Headed, BufferInv, Buffered
<1>3. CASE SendData(t)
  <2>1. bhsBuffer' = bhsBuffer /\ thread[t].pc = "data" /\ thread'[t].pc # "data"
    BY <1>3, SendDataGives
  <2>2. BufferInv'
    BY <1>1, <2>1 DEF BufferInv, Buffered
  <2>3. CASE thread'[t].pc # "receive"
    BY <2>2, <2>3 DEF Headed
  <2>4. CASE \E r \in Requests : r.header = bhsBuffer /\ wire' = [wire EXCEPT ![t].reqs = Append(@, r)]
    <3>1. PICK r \in Requests : r.header = bhsBuffer /\ wire' = [wire EXCEPT ![t].reqs = Append(@, r)]
      BY <2>4
    <3>2. /\ wire'[t].reqs[Len(wire[t].reqs) + 1] = r
          /\ DOMAIN wire'[t].reqs = 1 .. Len(wire[t].reqs) + 1
      BY <3>1, LastRequest
    <3>3. Len(wire[t].reqs) + 1 \in DOMAIN wire'[t].reqs
      <4>1. wire[t].reqs \in Seq(Requests)
        BY Same DEF Wire
      <4> QED
        BY <3>2, <4>1
    <3>4. bhsBuffer.owner = t
      BY <3>1, <3>2, <3>3 DEF HeaderIsOwn
    <3>5. bhsBuffer.from = thread[t].from /\ bhsBuffer.to = thread[t].to
      BY <2>1, <3>4 DEF BufferInv, Buffered
    <3> QED
      BY <2>2, <3>1, <3>2, <3>5 DEF Headed
  <2> QED
    BY <1>3, <2>3, <2>4, SendDataGives
<1>4. CASE bhsBuffer' = bhsBuffer /\ (thread[t].pc \in {"idle", "receive", "return"} \/ thread' = thread)
  <2>1. CASE thread' = thread
    BY <1>4, <2>1 DEF BufferInv, Buffered, Headed
  <2>2. CASE thread[t].pc \in {"idle", "receive", "return"}
    <3>1. Step(thread[t], kernel[t], target[t], wire[t], thread'[t], kernel'[t], target'[t], wire'[t])
      BY OneSteps DEF Steps
    <3>2. thread[t] \in Thread /\ kernel[t] \in Session \cup {None} /\ Rests(thread[t], kernel[t], target[t], wire[t])
      BY Same
    <3>3. thread'[t].pc # "data" \/ thread'[t] = thread[t]
      BY <2>2, <3>1, <3>2, StepToData
    <3> QED
      BY <1>1, <1>4, <2>2, <3>3 DEF BufferInv, Buffered, Headed
  <2> QED
    BY <1>4, <2>1, <2>2
<1> QED
  BY <1>2, <1>3, <1>4, OtherSteps

AllAgree == \A t \in Threads : Agrees(thread[t], kernel[t], target[t], wire[t])

LEMMA AgreementKept ==
  ASSUME NoLongerWait
  PROVE  TypeInv /\ AllIdle /\ AllAgree /\ BufferInv /\ HeaderIsOwn' /\ [Next]_vars => AllAgree' /\ BufferInv'
<1> SUFFICES ASSUME TypeInv, AllIdle, AllAgree, BufferInv, HeaderIsOwn', [Next]_vars PROVE AllAgree' /\ BufferInv'
  OBVIOUS
<1>1. CASE Next
  <2>1. PICK t \in Threads : Does(t)
    BY <1>1 DEF Next, Does
  <2>2. Steps(t)
    BY <2>1, OneSteps
  <2>3. BufferInv' /\ Headed(thread[t], wire[t], thread'[t], wire'[t])
    BY <2>1, BufferKept
  <2>4. SUFFICES ASSUME NEW u \in Threads PROVE Agrees(thread'[u], kernel'[u], target'[u], wire'[u])
    BY <2>3 DEF AllAgree, Agrees
  <2>5. Agrees(thread[u], kernel[u], target[u], wire[u])
    BY DEF AllAgree
  <2>6. CASE u = t
    <3>1. Idles(thread[t], kernel[t])
      BY DEF AllIdle
    <3>2. Step(thread[t], kernel[t], target[t], wire[t], thread'[t], kernel'[t], target'[t], wire'[t])
      BY <2>2 DEF Steps
    <3> QED
      BY <2>3, <2>5, <2>6, <3>1, <3>2, Same, StepNegotiated
  <2>7. CASE u # t
    BY <2>2, <2>5, <2>7 DEF Steps
  <2> QED
    BY <2>6, <2>7
<1>2. CASE UNCHANGED vars
  BY <1>2 DEF vars, AllAgree, Agrees, BufferInv, Buffered
<1> QED
  BY <1>1, <1>2

\* If no target asks to wait longer than is offered (the lesser time is stored), and
\* each header that is sent is its thread's own, a session is used only when its target
\* is in the full feature phase, and with the values that are in force there
\* (iSCSINegotiateSession, iSCSISessionLogin), for any number of threads.
THEOREM SessionsAgreed == ASSUME NoLongerWait PROVE Spec /\ []HeaderIsOwn => []ActiveIsAgreed
<1>1. Init => AllAgree /\ BufferInv
  BY DEF Init, AllAgree, Agrees, BufferInv, Buffered, IdleThread
<1>2. TypeInv /\ AllIdle /\ AllAgree /\ BufferInv /\ HeaderIsOwn' /\ [Next]_vars => AllAgree' /\ BufferInv'
  BY AgreementKept
<1>3. AllAgree => ActiveIsAgreed
  BY DEF AllAgree, Agrees, Negotiated, InForce, Entered, ActiveIsAgreed
<1> QED
  BY TypesKept, IdlesKept, <1>1, <1>2, <1>3, PTL DEF Spec

(***************************************************************************)
(* The buffer for a header, when one thread uses it.                       *)
(***************************************************************************)
OneThread == \A t, u \in Threads : t = u

OwnBuffer == \A t \in Threads : thread[t].pc = "data" => bhsBuffer.owner = t

\* What becomes of the requests that are on their way, but in SendData.
LEMMA RequestsFrom ==
  ASSUME TypeInv, NEW t \in Threads, Does(t)
  PROVE  \/ SendData(t)
         \/ wire'[t].reqs \in {wire[t].reqs, <<>>}
         \/ wire[t].reqs # <<>> /\ wire'[t].reqs = Tail(wire[t].reqs)
         \/ \E r \in Requests : r.header.owner = t /\ wire' = [wire EXCEPT ![t].reqs = Append(@, r)]
<1>1. wire[t] \in Wire /\ t \in DOMAIN wire /\ NoWire.reqs = <<>>
  BY Same DEF TypeInv, NoWire
<1>2. CASE wire' = wire \/ wire' = [wire EXCEPT ![t] = NoWire]
  BY <1>1, <1>2
<1>3. CASE RecvPDU(t) \/ TargetSendsNOPIn(t) \/ Lost(t)
  <2>1. CASE RecvPDU(t)
    BY <1>1, <2>1 DEF RecvPDU, Wire
  <2>2. CASE TargetSendsNOPIn(t)
    BY <1>1, <2>2 DEF TargetSendsNOPIn, Wire
  <2>3. CASE Lost(t)
    BY <1>1, <2>3 DEF Lost, NoWire
  <2> QED
    BY <1>3, <2>1, <2>2, <2>3
<1>4. CASE \E new, pdus : Answers(t, new, pdus) /\ wire[t].reqs # <<>>
  BY <1>1, <1>4 DEF Answers, Wire
<1>5. CASE BeginTask(t)
  <2> DEFINE header == [owner |-> t, op |-> "command", from |-> "full", to |-> "full"]
             r == [header |-> header, data |-> NoData, immediate |-> FALSE,
                   cmdSN |-> kernel[t].cmdSN, expStatSN |-> kernel[t].expStatSN]
  <2>1. wire' = [wire EXCEPT ![t].reqs = Append(@, r)]
    BY <1>5 DEF BeginTask, SendPDU
  <2>2. r.header.owner = t
    OBVIOUS
  <2>3. NoData \in Contents /\ header \in Header
    BY DEF NoData, Contents, Header, Stages
  <2>4. kernel[t].cmdSN \in Numbers /\ kernel[t].expStatSN \in Numbers
    <3>1. kernel[t] \in Session
      BY <1>5, Same DEF BeginTask
    <3> QED
      BY <3>1 DEF Session, Numbers
  <2> HIDE DEF header
  <2>5. r \in Requests
    BY <2>3, <2>4 DEF Requests
  <2> HIDE DEF r
  <2> QED
    BY <2>1, <2>2, <2>5
<1>6. CASE \E job \in Jobs : Start(t, job)
  <2>1. PICK job \in Jobs : Start(t, job)
    BY <1>6
  <2>2. wire' = wire \/ wire' = [wire EXCEPT ![t] = NoWire]
    BY <2>1 DEF Start, Begin
  <2> QED
    BY <1>2, <2>2
<1>7. CASE Logout(t)
  BY <1>2, <1>7 DEF Logout, LogsOut
<1>8. CASE SendBHS(t) \/ ReceiveFails(t)
  BY <1>2, <1>8 DEF SendBHS, ReceiveFails
<1>9. CASE ReceiveLoginResponse(t) \/ ReceiveTextResponse(t) \/ ReceiveLogoutResponse(t)
  BY <1>3, <1>9 DEF ReceiveLoginResponse, ReceiveTextResponse, ReceiveLogoutResponse
<1>10. CASE AuthReturns(t) \/ BlankReturns(t) \/ ChapStartReturns(t) \/ ChapAnswerReturns(t) \/ NegotiateReturns(t)
  <2>1. wire' = wire \/ wire' = [wire EXCEPT ![t] = NoWire]
    BY <1>10 DEF AuthReturns, BlankReturns, ChapStartReturns, ChapAnswerReturns, NegotiateReturns, LoginFails, Release
  <2> QED
    BY <1>2, <2>1
<1>11. CASE InterrogateReturns(t) \/ TextReturns(t) \/ LogoutReturns(t)
  BY <1>2, <1>11 DEF InterrogateReturns, TextReturns, LogoutReturns, Release, LogsOut
<1>12. CASE ProcessPDU(t)
  BY <1>3, <1>12 DEF ProcessPDU
<1>13. CASE TargetAnswersLogin(t)
  BY <1>4, <1>13 DEF TargetAnswersLogin, Asked
<1>14. CASE TargetRefusesLogin(t)
  BY <1>4, <1>14 DEF TargetRefusesLogin, Asked
<1>15. CASE TargetAnswersText(t)
  BY <1>4, <1>15 DEF TargetAnswersText, Asked
<1>16. CASE TargetAnswersLogout(t) \/ TargetAnswersCommand(t)
  BY <1>4, <1>16 DEF TargetAnswersLogout, TargetAnswersCommand, Asked
<1> QED
  BY <1>3, <1>5, <1>6, <1>7, <1>8, <1>9, <1>10, <1>11, <1>12, <1>13, <1>14, <1>15, <1>16
     DEF Does, ThreadStep, KernelStep, TargetStep

LEMMA OwnBufferKept ==
  ASSUME OneThread, TypeInv, OwnBuffer, NEW t \in Threads, Does(t)
  PROVE  OwnBuffer'
<1>1. \A u \in Threads : u = t
  BY DEF OneThread
<1>2. CASE SendBHS(t)
  BY <1>1, <1>2, SendBHSGives DEF OwnBuffer
<1>3. CASE SendData(t)
  BY <1>1, <1>3, SendDataGives DEF OwnBuffer
<1>4. CASE bhsBuffer' = bhsBuffer /\ (thread[t].pc \in {"idle", "receive", "return"} \/ thread' = thread)
  <2>1. Step(thread[t], kernel[t], target[t], wire[t], thread'[t], kernel'[t], target'[t], wire'[t])
    BY OneSteps DEF Steps
  <2>2. thread[t] \in Thread /\ kernel[t] \in Session \cup {None} /\ Rests(thread[t], kernel[t], target[t], wire[t])
    BY Same
  <2>3. CASE thread[t].pc \in {"idle", "receive", "return"}
    <3>1. thread'[t].pc # "data" \/ thread'[t] = thread[t]
      BY <2>1, <2>2, <2>3, StepToData
    <3> QED
      BY <1>1, <1>4, <2>3, <3>1 DEF OwnBuffer
  <2> QED
    BY <1>4, <2>3 DEF OwnBuffer
<1> QED
  BY <1>2, <1>3, <1>4, OtherSteps

LEMMA HeadersKept ==
  ASSUME OneThread, TypeInv, OwnBuffer, HeaderIsOwn, NEW t \in Threads, Does(t)
  PROVE  HeaderIsOwn'
<1>1. \A u \in Threads : u = t
  BY DEF OneThread
<1>2. wire[t].reqs \in Seq(Requests) /\ \A i \in DOMAIN wire[t].reqs : wire[t].reqs[i].header.owner = t
  BY Same DEF Wire, HeaderIsOwn
<1>3. SUFFICES \A i \in DOMAIN wire'[t].reqs : wire'[t].reqs[i].header.owner = t
  BY <1>1 DEF HeaderIsOwn
<1>4. CASE \E r \in Requests : r.header.owner = t /\ wire' = [wire EXCEPT ![t].reqs = Append(@, r)]
  <2>1. PICK r \in Requests : r.header.owner = t /\ wire' = [wire EXCEPT ![t].reqs = Append(@, r)]
    BY <1>4
  <2>2. wire'[t].reqs = Append(wire[t].reqs, r)
    BY <2>1, LastRequest
  <2> QED
    BY <1>2, <2>1, <2>2
<1>5. CASE wire'[t].reqs \in {wire[t].reqs, <<>>}
  BY <1>2, <1>5
<1>6. CASE wire[t].reqs # <<>> /\ wire'[t].reqs = Tail(wire[t].reqs)
  BY <1>2, <1>6
<1>7. CASE SendData(t)
  <2>1. bhsBuffer.owner = t
    BY <1>7, SendDataGives DEF OwnBuffer
  <2> QED
    BY <1>4, <1>5, <1>7, <2>1, SendDataGives
<1> QED
  BY <1>4, <1>5, <1>6, <1>7, RequestsFrom

\* With one thread, the header that SendData sends is the one that the thread gave to
\* SendBHS; with two it is not, as the run SharedHeader shows.
THEOREM HeaderOwned == ASSUME OneThread PROVE Spec => []HeaderIsOwn
<1>1. Init => OwnBuffer /\ HeaderIsOwn
  BY DEF Init, OwnBuffer, HeaderIsOwn, IdleThread, NoWire
<1>2. TypeInv /\ OwnBuffer /\ HeaderIsOwn /\ [Next]_vars => OwnBuffer' /\ HeaderIsOwn'
  <2> SUFFICES ASSUME TypeInv, OwnBuffer, HeaderIsOwn, [Next]_vars PROVE OwnBuffer' /\ HeaderIsOwn'
    OBVIOUS
  <2>1. CASE Next
    <3>1. PICK t \in Threads : Does(t)
      BY <2>1 DEF Next, Does
    <3> QED
      BY <3>1, OwnBufferKept, HeadersKept
  <2>2. CASE UNCHANGED vars
    BY <2>2 DEF vars, OwnBuffer, HeaderIsOwn
  <2> QED
    BY <2>1, <2>2
<1> QED
  BY TypesKept, <1>1, <1>2, PTL DEF Spec
=============================================================================
