-------------------------- MODULE LoginPageProofs --------------------------
(***************************************************************************)
(* What the login page keeps however its attempts overlap, for any number  *)
(* of attempts, faults, saves and reloads and for any clocks.              *)
(*                                                                         *)
(* An attempt asks its signer for an event made from the endpoint the page *)
(* holds and the clock it reads, and the verdict comes much later.  So the *)
(* invariant has to say what is still known of that moment when the answer *)
(* arrives: View relates the endpoint to the settings as long as none were *)
(* saved, Built relates the event to the endpoint and to the clocks until  *)
(* it is posted, and Unanswered says that no verdict precedes the event.   *)
(***************************************************************************)
EXTENDS LoginPage, TLAPS

Reasons ==
  {"none", "session", "refused", "error", "allowlist_unavailable", "expired_event",
   "url_mismatch", "method_mismatch", "invalid_event"}

FlagType == secure \in BOOLEAN /\ stored \in BOOLEAN /\ saved \in BOOLEAN

WorldType ==
  /\ now \in Instants /\ settings \in Settings /\ skew \in Skews
  /\ faults \in 0 .. MaxFaults /\ saves \in 0 .. MaxSaves /\ reloads \in 0 .. MaxReloads

AttemptType ==
  /\ pc \in [Attempts -> {"idle", "done"} \cup UnderWay] /\ path \in [Attempts -> Paths]
  /\ event \in [Attempts -> [createdAt: Int, url: Urls \cup {NoUrl}]]
  /\ reply \in [Attempts -> [status: {0, 200, 401, 500, 503}, reason: Reasons, at: Int]]
  /\ askedAt \in [Attempts -> Instants \cup {0}]
  /\ status \in {"empty", "busy", "connecting", "no signer", "opening", "unreachable", "refused",
                 "sign-in failed", "bunker failed", "relay dropped", "no response"}

(* What the page knows as its endpoint, and how fresh that is. *)
View ==
  /\ probe \in {"asked", "answered", "failed"} /\ endpoint \in Urls \cup {NoUrl}
  /\ (endpoint = NoUrl) = (probe = "asked")
  /\ saved => probe = "answered"
  /\ probe = "failed" => endpoint = PageUrl
  /\ probe = "answered" /\ ~saved => endpoint = CanonicalLoginUrl(settings, ServerUrl)

(* An event that is built and not yet posted. *)
Built ==
  \A a \in Attempts : pc[a] \in {"key", "sign", "post"} =>
    /\ event[a] = [createdAt |-> askedAt[a] + skew, url |-> endpoint]
    /\ endpoint # NoUrl /\ askedAt[a] \in Instants /\ askedAt[a] <= now

(* An attempt that has not posted has no answer. *)
Unanswered ==
  \A a \in Attempts :
    pc[a] \notin {"reply", "info", "done"} => reply[a] = NoReply

Types == FlagType /\ WorldType /\ AttemptType

Inv == Types /\ View /\ Built /\ Unanswered /\ RefusalsHaveACause

-----------------------------------------------------------------------------
(* Facts about the server's decisions *)

LEMMA Constants ==
  /\ User \in Users /\ Body \in Bodies /\ PageUrl \in Urls /\ ServerUrl \in Urls
  /\ Settings \subseteq SettingsType /\ Instants \subseteq Int /\ Skews \subseteq Int
  /\ MaxAttempts \in Nat /\ MaxFaults \in Nat /\ MaxSaves \in Nat /\ MaxReloads \in Nat
  /\ NoUrl \notin Urls /\ Body # NoBody
BY PageAssumption, DecisionsAssumption

LEMMA CanonicalType ==
  ASSUME NEW s \in Settings
  PROVE  CanonicalLoginUrl(s, ServerUrl) \in Urls
BY Constants DEF CanonicalLoginUrl, SettingsType

(* The only reasons for which an event of the page is refused. *)
LEMMA VerdictOfSigned ==
  ASSUME NEW a \in Attempts, NEW url, NEW t \in Int, event[a].createdAt \in Int
  PROVE  LET v == Verify(Signed(a), url, Body, t)
         IN  /\ v \in {"accepted", "expired_event", "url_mismatch"}
             /\ v = "expired_event" => Distance(t, event[a].createdAt) > 60
             /\ v = "url_mismatch" => event[a].url # url
<1>1. /\ Signed(a).parses = TRUE /\ Signed(a).kind = LoginKind /\ Signed(a).sigOk = TRUE
      /\ Signed(a).method = "POST" /\ Signed(a).createdAt = event[a].createdAt
      /\ Signed(a).url = event[a].url /\ Signed(a).payload = Body
  BY DEF Signed
<1>2. PayloadFits(Signed(a), Body)
  BY <1>1, Constants DEF PayloadFits
<1>3. Verify(Signed(a), url, Body, t) =
        IF ~Fresh(t, Signed(a)) THEN "expired_event"
        ELSE IF event[a].url # url THEN "url_mismatch" ELSE "accepted"
  BY <1>1, <1>2, Zenon DEF Verify
<1> QED
  BY <1>1, <1>3 DEF Fresh, FreshnessWindowSeconds, Distance

(* An event is as old as the wait for its signer and the device's clock. *)
LEMMA DistanceBound ==
  ASSUME NEW t \in Int, NEW asked \in Int, NEW s \in Int, asked <= t,
         Distance(t, asked + s) > 60
  PROVE  t - asked + Abs(s) > 60
BY DEF Distance, Abs

-----------------------------------------------------------------------------
(* Type correctness *)

LEMMA InitTypes == Init => Types
<1> SUFFICES ASSUME Init
             PROVE  Types
  OBVIOUS
<1>1. WorldType
  BY Constants DEF Init, WorldType
<1>2. AttemptType
  BY DEF Init, AttemptType, Paths, NoEvent, NoReply, Reasons
<1>3. FlagType
  BY DEF Init, FlagType
<1> QED
  BY <1>1, <1>2, <1>3 DEF Types

(* What a step of an attempt leaves alone. *)
LEMMA ActFrame ==
  ASSUME NEW a \in Attempts, Act(a)
  PROVE  /\ now' = now /\ settings' = settings /\ skew' = skew /\ secure' = secure
         /\ probe' = probe /\ endpoint' = endpoint /\ saved' = saved
         /\ saves' = saves /\ reloads' = reloads
         /\ faults' = faults \/ (faults < MaxFaults /\ faults' = faults + 1)
BY DEF Act, Press, Connect, Hash, Build, Sign, Post, PostFails, Reply, HandOff, InfoFails,
       Fault, browser, bounds

LEMMA NextFlagType ==
  ASSUME FlagType, [Next]_vars
  PROVE  FlagType'
<1>1. secure' = secure
  BY ActFrame DEF Next, vars, browser, ProbeAnswers, ProbeFails, Reload, Advance, Save
<1>2. saved' = saved \/ saved' = FALSE \/ saved' = (probe = "answered")
  BY ActFrame DEF Next, vars, ProbeAnswers, ProbeFails, Reload, Advance, Save
<1>3. stored' = stored \/ stored' = TRUE
  BY DEF Next, vars, attempt, ProbeAnswers, ProbeFails, Reload, Advance, Save, Act, Press,
         Connect, Hash, Build, Sign, Post, PostFails, Reply, HandOff, InfoFails
<1> QED
  BY <1>1, <1>2, <1>3, Zenon DEF FlagType

LEMMA NextWorldType ==
  ASSUME WorldType, [Next]_vars
  PROVE  WorldType'
<1> USE Constants DEF WorldType
<1>1. CASE ProbeAnswers
  BY <1>1 DEF ProbeAnswers, bounds
<1>2. CASE ProbeFails
  BY <1>2 DEF ProbeFails, Fault
<1>3. CASE Reload
  BY <1>3 DEF Reload
<1>4. CASE Advance
  BY <1>4 DEF Advance, browser, bounds
<1>5. CASE Save
  BY <1>5 DEF Save, browser
<1>6. ASSUME NEW a \in Attempts, Act(a)
      PROVE  WorldType'
  BY <1>6, ActFrame
<1>7. CASE UNCHANGED vars
  BY <1>7 DEF vars, browser, bounds
<1> QED
  BY <1>1, <1>2, <1>3, <1>4, <1>5, <1>6, <1>7 DEF Next

(* Every step of an attempt moves only that attempt. *)
LEMMA Moves ==
  ASSUME AttemptType, NEW a \in Attempts, NEW label, Goto(a, label)
  PROVE  /\ pc'[a] = label /\ \A b \in Attempts : b # a => pc'[b] = pc[b]
         /\ label \in {"idle", "done"} \cup UnderWay
              => pc' \in [Attempts -> {"idle", "done"} \cup UnderWay]
<1>1. /\ DOMAIN pc = Attempts /\ pc' = [pc EXCEPT ![a] = label]
      /\ pc \in [Attempts -> {"idle", "done"} \cup UnderWay]
  BY DEF AttemptType, Goto
<1> QED
  BY <1>1

Ends(a) ==
  /\ Goto(a, "done")
  /\ status' \in {"no signer", "unreachable", "refused", "sign-in failed", "bunker failed",
                  "relay dropped", "no response"}

LEMMA ThrowEnds ==
  ASSUME NEW a \in Attempts, NEW error, Throw(a, error)
  PROVE  Ends(a)
BY DEF Throw, Say, Ends

(* What a step of an attempt other than Build and Post does. *)
Walks(a) ==
  /\ UNCHANGED <<event, reply, askedAt>> /\ path' \in [Attempts -> Paths]
  /\ \/ Ends(a)
     \/ \E label \in UnderWay :
          /\ Goto(a, label)
          /\ status' = status \/ status' \in {"busy", "connecting", "opening"}
          /\ label \in {"key", "sign", "post"} => pc[a] \in {"key", "sign"}
          /\ label \in {"reply", "info"} \/ pc[a] \notin {"reply", "info", "done"}

LEMMA ActShape ==
  ASSUME AttemptType, NEW a \in Attempts, Act(a)
  PROVE  Build(a) \/ Post(a) \/ Walks(a)
<1>1. CASE Press(a)
  <2>1. \/ Goto(a, "hash") /\ status' = "busy"
        \/ Goto(a, "connect") /\ status' = "connecting"
        \/ Ends(a)
    BY <1>1 DEF Press, Say, Ends
  <2>2. PICK p \in Paths : path' = [path EXCEPT ![a] = p]
    BY <1>1 DEF Press
  <2>3. UNCHANGED <<event, reply, askedAt>> /\ path' \in [Attempts -> Paths] /\ pc[a] = "idle"
    BY <1>1, <2>2 DEF Press, AttemptType
  <2> QED
    BY <2>1, <2>3 DEF Walks, UnderWay
<1>2. CASE Connect(a)
  BY <1>2, ThrowEnds DEF Connect, Say, Walks, UnderWay, AttemptType
<1>3. CASE Hash(a)
  BY <1>3, ThrowEnds DEF Hash, Walks, UnderWay, AttemptType
<1>4. CASE Sign(a)
  BY <1>4, ThrowEnds DEF Sign, Walks, UnderWay, AttemptType
<1>5. CASE PostFails(a)
  BY <1>5, ThrowEnds DEF PostFails, Walks, AttemptType
<1>6. CASE Reply(a)
  <2>1. \/ Goto(a, "info") /\ status' = "opening"
        \/ Ends(a)
    BY <1>6, ThrowEnds DEF Reply, Say, Ends
  <2>2. UNCHANGED <<path, event, reply, askedAt>>
    BY <1>6 DEF Reply
  <2> QED
    BY <2>1, <2>2 DEF Walks, UnderWay, AttemptType
<1>7. CASE HandOff(a)
  BY <1>7, ThrowEnds DEF HandOff, WebRoot, Walks, AttemptType
<1>8. CASE InfoFails(a)
  BY <1>8, ThrowEnds DEF InfoFails, Walks, AttemptType
<1> QED
  BY <1>1, <1>2, <1>3, <1>4, <1>5, <1>6, <1>7, <1>8 DEF Act

(* The steps that are not of an attempt leave the attempts alone. *)
LEMMA WorldFrame ==
  ASSUME ProbeAnswers \/ ProbeFails \/ Advance \/ Save \/ UNCHANGED vars
  PROVE  UNCHANGED attempt
BY DEF ProbeAnswers, ProbeFails, Advance, Save, vars

(* What the server may answer to the event of a. *)
Answers(a, st, why) ==
  /\ st \in {200, 401, 500, 503}
  /\ why \in {"session", "refused", "error", "allowlist_unavailable", "expired_event",
              "url_mismatch"}
  /\ why = "expired_event" => Distance(now, event[a].createdAt) > 60
  /\ why = "url_mismatch" => event[a].url # CanonicalLoginUrl(settings, ServerUrl)

LEMMA PostAnswers ==
  ASSUME AttemptType, now \in Int, NEW a \in Attempts, Post(a)
  PROVE  \E st, why :
           /\ reply' = [reply EXCEPT ![a] = [status |-> st, reason |-> why, at |-> now]]
           /\ Answers(a, st, why)
<1> DEFINE verdict == Verify(Signed(a), CanonicalLoginUrl(settings, ServerUrl), Body, now)
<1>1. /\ verdict \in {"accepted", "expired_event", "url_mismatch"}
      /\ verdict = "expired_event" => Distance(now, event[a].createdAt) > 60
      /\ verdict = "url_mismatch" => event[a].url # CanonicalLoginUrl(settings, ServerUrl)
  <2>1. event \in [Attempts -> [createdAt: Int, url: Urls \cup {NoUrl}]]
    BY DEF AttemptType
  <2>2. event[a].createdAt \in Int
    BY <2>1
  <2> QED
    BY <2>2, VerdictOfSigned
<1>2. PICK o \in IF verdict = "accepted" THEN Outcomes ELSE {<<401, verdict>>} :
        reply' = [reply EXCEPT ![a] = [status |-> o[1], reason |-> o[2], at |-> now]]
  BY DEF Post
<1> HIDE DEF verdict
<1>3. Answers(a, o[1], o[2])
  <2>1. CASE verdict = "accepted"
    <3>1. o \in Outcomes
      BY <1>2, <2>1
    <3>2. /\ o[1] \in {200, 401, 500, 503}
          /\ o[2] \in {"session", "refused", "error", "allowlist_unavailable"}
      BY <3>1 DEF Outcomes
    <3> QED
      BY <3>2 DEF Answers
  <2>2. CASE verdict # "accepted"
    <3>1. o[1] = 401 /\ o[2] = verdict
      BY <1>2, <2>2
    <3> QED
      BY <1>1, <2>2, <3>1 DEF Answers
  <2> QED
    BY <2>1, <2>2
<1> QED
  BY <1>2, <1>3

LEMMA NextAttemptType ==
  ASSUME Types, View, [Next]_vars
  PROVE  AttemptType'
<1>1. ASSUME NEW a \in Attempts, Build(a)
      PROVE  AttemptType'
  <2>1. /\ askedAt' = [askedAt EXCEPT ![a] = now] /\ now \in Instants
        /\ event' = [event EXCEPT ![a] = [createdAt |-> now + skew, url |-> endpoint]]
        /\ now + skew \in Int /\ endpoint \in Urls \cup {NoUrl}
        /\ UNCHANGED <<path, reply, status>>
    BY <1>1, Constants DEF Build, Types, WorldType, View
  <2>2. pc' \in [Attempts -> {"idle", "done"} \cup UnderWay]
    BY <1>1, Moves DEF Build, Types, UnderWay
  <2> QED
    BY <2>1, <2>2 DEF Types, AttemptType
<1>2. ASSUME NEW a \in Attempts, Post(a)
      PROVE  AttemptType'
  <2>1. now \in Int
    BY Constants DEF Types, WorldType
  <2>2. pc' \in [Attempts -> {"idle", "done"} \cup UnderWay]
    BY <1>2, Moves DEF Post, Types, UnderWay
  <2>3. reply' \in [Attempts -> [status: {0, 200, 401, 500, 503}, reason: Reasons, at: Int]]
    <3>1. PICK st, why :
            /\ reply' = [reply EXCEPT ![a] = [status |-> st, reason |-> why, at |-> now]]
            /\ Answers(a, st, why)
      BY <1>2, <2>1, PostAnswers DEF Types
    <3>2. [status |-> st, reason |-> why, at |-> now]
            \in [status: {0, 200, 401, 500, 503}, reason: Reasons, at: Int]
      BY <3>1, <2>1 DEF Answers, Reasons
    <3>3. reply \in [Attempts -> [status: {0, 200, 401, 500, 503}, reason: Reasons, at: Int]]
      BY DEF Types, AttemptType
    <3> HIDE DEF Reasons
    <3> QED
      BY <3>1, <3>2, <3>3
  <2> QED
    BY <1>2, <2>2, <2>3 DEF Post, Types, AttemptType
<1>3. ASSUME NEW a \in Attempts, Walks(a)
      PROVE  AttemptType'
  <2>1. pc' \in [Attempts -> {"idle", "done"} \cup UnderWay]
    BY <1>3, Moves DEF Walks, Ends, Types
  <2>2. /\ UNCHANGED <<event, reply, askedAt>> /\ path' \in [Attempts -> Paths]
        /\ status' = status \/ status' \in {"busy", "connecting", "opening", "no signer",
             "unreachable", "refused", "sign-in failed", "bunker failed", "relay dropped",
             "no response"}
    BY <1>3 DEF Walks, Ends
  <2> QED
    BY <2>1, <2>2 DEF Types, AttemptType
<1>4. CASE Reload
  BY <1>4 DEF Reload, NoAttempts, AttemptType, Paths, NoEvent, NoReply, Reasons
<1>5. CASE UNCHANGED attempt
  BY <1>5 DEF attempt, Types, AttemptType
<1> QED
  BY <1>1, <1>2, <1>3, <1>4, <1>5, ActShape, WorldFrame DEF Next, Types

-----------------------------------------------------------------------------
(* The endpoint, the event and the answer *)

LEMMA NextView ==
  ASSUME Types, View, [Next]_vars
  PROVE  View'
<1> USE DEF View
<1>1. CASE ProbeAnswers
  <2>1. CanonicalLoginUrl(settings, ServerUrl) \in Urls /\ NoUrl \notin Urls
    BY CanonicalType, Constants DEF Types, WorldType
  <2> QED
    BY <1>1, <2>1 DEF ProbeAnswers
<1>2. CASE ProbeFails
  BY <1>2, Constants DEF ProbeFails
<1>3. CASE Reload
  BY <1>3 DEF Reload
<1>4. CASE Save
  <2>1. probe' = probe /\ endpoint' = endpoint /\ (saved' <=> probe = "answered")
    BY <1>4 DEF Save, browser
  <2> QED
    BY <2>1
<1>5. CASE Advance \/ (\E a \in Attempts : Act(a)) \/ UNCHANGED vars
  <2>1. probe' = probe /\ endpoint' = endpoint /\ settings' = settings /\ saved' = saved
    BY <1>5, ActFrame DEF Advance, vars, browser
  <2> QED
    BY <2>1
<1> QED
  BY <1>1, <1>2, <1>3, <1>4, <1>5 DEF Next

(* An event is built once the endpoint is known, which then stays.          *)
LEMMA NextBuilt ==
  ASSUME Types, View, Built, [Next]_vars
  PROVE  Built'
<1>1. ASSUME NEW a \in Attempts, Build(a)
      PROVE  Built'
  <2>1. /\ event' = [event EXCEPT ![a] = [createdAt |-> now + skew, url |-> endpoint]]
        /\ askedAt' = [askedAt EXCEPT ![a] = now] /\ endpoint # NoUrl
        /\ endpoint' = endpoint /\ skew' = skew /\ now' = now
    BY <1>1, ActFrame DEF Build, Act
  <2>2. \A b \in Attempts : b # a => pc'[b] = pc[b]
    BY <1>1, Moves DEF Build, Types
  <2>3. event \in [Attempts -> [createdAt: Int, url: Urls \cup {NoUrl}]]
        /\ askedAt \in [Attempts -> Instants \cup {0}] /\ now \in Instants /\ now \in Int
    BY Constants DEF Types, AttemptType, WorldType
  <2> QED
    BY <2>1, <2>2, <2>3 DEF Built
<1>2. ASSUME NEW a \in Attempts, Act(a), Post(a) \/ Walks(a)
      PROVE  Built'
  <2>1. UNCHANGED <<event, askedAt, endpoint, skew, now>>
    BY <1>2, ActFrame DEF Post, Walks
  <2>2. \A b \in Attempts : pc'[b] \in {"key", "sign", "post"} => pc[b] \in {"key", "sign", "post"}
    <3>1. CASE Post(a)
      BY <3>1, Moves DEF Post, Types
    <3>2. CASE Walks(a)
      BY <3>2, Moves DEF Walks, Ends, Types
    <3> QED
      BY <1>2, <3>1, <3>2
  <2> QED
    BY <2>1, <2>2 DEF Built
<1>3. CASE Reload
  BY <1>3 DEF Reload, NoAttempts, Built
<1>4. CASE ProbeAnswers \/ ProbeFails
  <2>1. endpoint = NoUrl
    BY <1>4 DEF ProbeAnswers, ProbeFails, View
  <2>2. pc' = pc
    BY <1>4, WorldFrame DEF attempt
  <2> QED
    BY <2>1, <2>2 DEF Built
<1>5. CASE Advance \/ Save \/ UNCHANGED vars
  <2>1. UNCHANGED <<pc, event, askedAt, endpoint, skew>>
    BY <1>5, WorldFrame DEF attempt, Advance, Save, vars, browser
  <2>2. now' \in Int /\ now \in Int /\ now <= now'
    BY <1>5, Constants DEF Advance, Save, vars, Types, WorldType
  <2>3. ASSUME NEW b \in Attempts, askedAt[b] \in Instants, askedAt[b] <= now
        PROVE  askedAt[b] <= now'
    <3>1. askedAt[b] \in Int
      BY <2>3, Constants
    <3> QED
      BY <2>2, <2>3, <3>1
  <2> QED
    BY <2>1, <2>3 DEF Built
<1> QED
  BY <1>1, <1>2, <1>3, <1>4, <1>5, ActShape DEF Next, Types, Act

LEMMA NextUnanswered ==
  ASSUME Types, Unanswered, [Next]_vars
  PROVE  Unanswered'
<1>1. ASSUME NEW a \in Attempts, Build(a)
      PROVE  Unanswered'
  <2>1. pc[a] = "endpoint" /\ reply' = reply
    BY <1>1 DEF Build
  <2>2. \A b \in Attempts : b # a => pc'[b] = pc[b]
    BY <1>1, Moves DEF Build, Types
  <2> QED
    BY <2>1, <2>2 DEF Unanswered
<1>2. ASSUME NEW a \in Attempts, Post(a)
      PROVE  Unanswered'
  <2>1. pc'[a] = "reply" /\ \A b \in Attempts : b # a => pc'[b] = pc[b]
    BY <1>2, Moves DEF Post, Types
  <2>2. PICK r : reply' = [reply EXCEPT ![a] = r]
    BY <1>2 DEF Post
  <2>3. DOMAIN reply = Attempts
    BY DEF Types, AttemptType
  <2> QED
    BY <2>1, <2>2, <2>3 DEF Unanswered
<1>3. ASSUME NEW a \in Attempts, Walks(a)
      PROVE  Unanswered'
  <2>1. reply' = reply
    BY <1>3 DEF Walks
  <2>2. /\ \A b \in Attempts : b # a => pc'[b] = pc[b]
        /\ pc'[a] \in {"reply", "info", "done"} \/ pc[a] \notin {"reply", "info", "done"}
    BY <1>3, Moves DEF Walks, Ends, Types
  <2> QED
    BY <2>1, <2>2 DEF Unanswered
<1>4. CASE Reload
  BY <1>4 DEF Reload, NoAttempts, Unanswered
<1>5. CASE UNCHANGED attempt
  BY <1>5 DEF attempt, Unanswered
<1> QED
  BY <1>1, <1>2, <1>3, <1>4, <1>5, ActShape, WorldFrame DEF Next, Types

(* The cause of a refusal is established when the answer is given and stays *)
(* until the page is reloaded.                                              *)
LEMMA NextRefusals ==
  ASSUME Types, View, Built, Unanswered, RefusalsHaveACause, [Next]_vars
  PROVE  RefusalsHaveACause'
<1> USE DEF RefusalsHaveACause
<1>1. ASSUME NEW a \in Attempts, Build(a), Act(a)
      PROVE  RefusalsHaveACause'
  <2>1. pc[a] = "endpoint" /\ reply' = reply /\ reply[a] = NoReply
    BY <1>1 DEF Build, Unanswered
  <2>2. \A b \in Attempts : b # a => event'[b] = event[b] /\ askedAt'[b] = askedAt[b]
    <3>1. DOMAIN event = Attempts /\ DOMAIN askedAt = Attempts
      BY DEF Types, AttemptType
    <3> QED
      BY <1>1, <3>1 DEF Build
  <2>3. skew' = skew /\ saved' = saved /\ probe' = probe
    BY <1>1, ActFrame
  <2> QED
    BY <2>1, <2>2, <2>3 DEF NoReply
<1>2. ASSUME NEW a \in Attempts, Post(a), Act(a)
      PROVE  RefusalsHaveACause'
  <2>1. now \in Int /\ skew \in Int /\ Instants \subseteq Int
    BY Constants DEF Types, WorldType
  <2>2. PICK st, why :
          /\ reply' = [reply EXCEPT ![a] = [status |-> st, reason |-> why, at |-> now]]
          /\ Answers(a, st, why)
    BY <1>2, <2>1, PostAnswers DEF Types
  <2>3. /\ event[a] = [createdAt |-> askedAt[a] + skew, url |-> endpoint]
        /\ endpoint # NoUrl /\ askedAt[a] \in Int /\ askedAt[a] <= now
    BY <1>2, <2>1 DEF Post, Built
  <2>4. UNCHANGED <<event, askedAt, skew, saved, probe>>
    BY <1>2, ActFrame DEF Post
  <2>5. reply'[a].reason = why /\ reply'[a].at = now /\ \A b \in Attempts : b # a => reply'[b] = reply[b]
    <3>1. DOMAIN reply = Attempts
      BY DEF Types, AttemptType
    <3> QED
      BY <2>2, <3>1
  <2>6. why = "url_mismatch" => saved \/ (probe = "failed" /\ event[a].url = PageUrl)
    BY <2>2, <2>3 DEF Answers, View
  <2>7. why = "expired_event" => now - askedAt[a] + Abs(skew) > 60
    BY <2>1, <2>2, <2>3, DistanceBound DEF Answers
  <2>8. why \notin {"invalid_event", "method_mismatch"}
    BY <2>2 DEF Answers
  <2> QED
    BY <2>4, <2>5, <2>6, <2>7, <2>8
<1>3. ASSUME NEW a \in Attempts, Walks(a), Act(a)
      PROVE  RefusalsHaveACause'
  BY <1>3, ActFrame DEF Walks
<1>4. CASE Reload
  BY <1>4 DEF Reload, NoAttempts, NoReply
<1>5. CASE ProbeAnswers \/ ProbeFails \/ Advance \/ Save \/ UNCHANGED vars
  <2>1. UNCHANGED <<reply, event, askedAt, skew>>
    BY <1>5, WorldFrame DEF attempt, ProbeAnswers, ProbeFails, Advance, Save, vars, browser
  <2>2. probe = "failed" => probe' = "failed"
    BY <1>5 DEF ProbeAnswers, ProbeFails, Advance, Save, vars, browser
  <2>3. saved => saved'
    BY <1>5 DEF ProbeAnswers, ProbeFails, Advance, Save, vars, View
  <2> QED
    BY <2>1, <2>2, <2>3
<1> QED
  BY <1>1, <1>2, <1>3, <1>4, <1>5, ActShape DEF Next, Types

LEMMA InitInv == Init => Inv
<1> SUFFICES ASSUME Init
             PROVE  Inv
  OBVIOUS
<1>1. View
  BY DEF Init, View
<1>2. Built /\ Unanswered /\ RefusalsHaveACause
  BY DEF Init, Built, Unanswered, RefusalsHaveACause, NoReply
<1> QED
  BY <1>1, <1>2, InitTypes DEF Inv

LEMMA NextInv == Inv /\ [Next]_vars => Inv'
BY NextFlagType, NextWorldType, NextAttemptType, NextView, NextBuilt, NextUnanswered, NextRefusals
   DEF Inv, Types

LEMMA SpecInv == Spec => []Inv
BY InitInv, NextInv, PTL DEF Spec

-----------------------------------------------------------------------------
(* The theorems *)

(* Every value the page keeps has its type, and whatever it signs is an     *)
(* event the server can parse (loginPage.html:76-125).                      *)
THEOREM TypeCorrect == Spec => []TypeOK
<1>1. Inv => TypeOK
  <2> SUFFICES ASSUME Inv
               PROVE  TypeOK
    OBVIOUS
  <2>1. ASSUME NEW a \in Attempts, pc[a] \in {"key", "sign", "post"}
        PROVE  Signed(a) \in AuthEvent
    <3>1. event[a].url \in Urls /\ event[a].createdAt \in Int
      <4>1. Built /\ event \in [Attempts -> [createdAt: Int, url: Urls \cup {NoUrl}]]
        BY DEF Inv, Types, AttemptType
      <4>2. event[a].url = endpoint /\ endpoint # NoUrl
        BY <2>1, <4>1 DEF Built
      <4>3. event[a] \in [createdAt: Int, url: Urls \cup {NoUrl}]
        BY <4>1
      <4> QED
        BY <4>2, <4>3
    <3> QED
      BY <3>1, Constants DEF Signed, AuthEvent, LoginKind
  <2>2. ASSUME NEW a \in Attempts PROVE reply[a].status \in {0, 200, 401, 500, 503}
    <3>1. reply \in [Attempts -> [status: {0, 200, 401, 500, 503}, reason: Reasons, at: Int]]
      BY DEF Inv, Types, AttemptType
    <3>2. reply[a] \in [status: {0, 200, 401, 500, 503}, reason: Reasons, at: Int]
      BY <3>1
    <3> QED
      BY <3>2
  <2>3. /\ now \in Instants /\ settings \in Settings /\ skew \in Skews
        /\ secure \in BOOLEAN /\ stored \in BOOLEAN /\ saved \in BOOLEAN
        /\ faults \in 0 .. MaxFaults /\ saves \in 0 .. MaxSaves /\ reloads \in 0 .. MaxReloads
    BY DEF Inv, Types, FlagType, WorldType
  <2>4. /\ probe \in {"asked", "answered", "failed"} /\ endpoint \in Urls \cup {NoUrl}
        /\ (endpoint = NoUrl) = (probe = "asked")
    BY DEF Inv, View
  <2>5. /\ pc \in [Attempts -> {"idle", "done"} \cup UnderWay] /\ path \in [Attempts -> Paths]
        /\ askedAt \in [Attempts -> Instants \cup {0}]
        /\ status \in {"empty", "busy", "connecting", "no signer", "opening", "unreachable",
                       "refused", "sign-in failed", "bunker failed", "relay dropped", "no response"}
    BY DEF Inv, Types, AttemptType
  <2> QED
    BY <2>1, <2>2, <2>3, <2>4, <2>5 DEF TypeOK
<1> QED
  BY <1>1, SpecInv, PTL

(* A login is refused for its URL only after the probe failed or settings   *)
(* were saved, and for its age only when a clock is off or the signer was   *)
(* slow; an event the page made is never invalid (loginPage.html:131-140).  *)
THEOREM RefusalsAlwaysHaveACause == Spec => []RefusalsHaveACause
<1>1. Inv => RefusalsHaveACause
  BY DEF Inv
<1> QED
  BY <1>1, SpecInv, PTL

(* The status line speaks of waiting only while an attempt is under way,    *)
(* however attempts overlap and fail (loginPage.html:142-164, 241-280).     *)
THEOREM WaitingAlwaysMeansUnderWay == Spec => []WaitingMeansUnderWay
<1> DEFINE Waiting == {"busy", "connecting", "opening"}
<1>1. Init => WaitingMeansUnderWay
  BY DEF Init, WaitingMeansUnderWay
<1>2. Inv /\ WaitingMeansUnderWay /\ [Next]_vars => WaitingMeansUnderWay'
  <2> SUFFICES ASSUME Inv, WaitingMeansUnderWay, [Next]_vars
               PROVE  WaitingMeansUnderWay'
    OBVIOUS
  <2>1. ASSUME NEW a \in Attempts, NEW label \in UnderWay, Goto(a, label)
        PROVE  WaitingMeansUnderWay'
    <3>1. pc'[a] \in UnderWay
      BY <2>1, Moves DEF Inv, Types
    <3> QED
      BY <3>1 DEF WaitingMeansUnderWay
  <2>2. ASSUME NEW a \in Attempts, Ends(a)
        PROVE  WaitingMeansUnderWay'
    BY <2>2 DEF Ends, WaitingMeansUnderWay
  <2>3. ASSUME NEW a \in Attempts, Act(a)
        PROVE  WaitingMeansUnderWay'
    <3>1. CASE Build(a)
      BY <3>1, <2>1 DEF Build, UnderWay
    <3>2. CASE Post(a)
      BY <3>2, <2>1 DEF Post, UnderWay
    <3>3. CASE Walks(a)
      BY <3>3, <2>1, <2>2 DEF Walks
    <3> QED
      BY <2>3, <3>1, <3>2, <3>3, ActShape DEF Inv, Types
  <2>4. CASE Reload
    BY <2>4 DEF Reload, NoAttempts, WaitingMeansUnderWay
  <2>5. CASE UNCHANGED attempt
    BY <2>5 DEF attempt, WaitingMeansUnderWay
  <2> QED
    BY <2>3, <2>4, <2>5, WorldFrame DEF Next
<1> QED
  BY <1>1, <1>2, SpecInv, PTL DEF Spec
=============================================================================
