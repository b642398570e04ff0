------------------------- MODULE LoginServiceProofs -------------------------
(***************************************************************************)
(* Theorems about LoginService and Dashboard for every set of users,       *)
(* requests, lists, settings and instants, any number of concurrent        *)
(* requests and every bound: type correctness, that sessions are earned    *)
(* within their request, how long one header works, when 503 is answered,  *)
(* and that the dashboard's notice agrees with what logins get.            *)
(***************************************************************************)
EXTENDS Dashboard, TLAPS

WorldType ==
  [now: Instants, snapshot: Snapshots \cup {NoSnapshot}, settings: Settings]

(* What a request has established by the time it is at a given place, in     *)
(* terms of the worlds it has seen.                                         *)
Located(q) ==
  \E w \in during[q] : url[q] = CanonicalLoginUrl(w.settings, request[q].arrivedAt)

Verified(q) ==
  /\ Verify(request[q].event, url[q], body[q], started[q]) = "accepted"
  /\ \E w \in during[q] : w.now = started[q]

Aged(q) == \E w \in during[q] : maxAge[q] = MaxListAgeSeconds(w.settings)

Listed(q) ==
  \E v \in during[q] :
    /\ v.snapshot # NoSnapshot /\ request[q].event.pubkey \in v.snapshot.pubkeys
    /\ started[q] - v.snapshot.createdAt <= maxAge[q]

Progress(q) ==
  /\ HasSession(q) => pc[q] = "done"
  /\ pc[q] \in {"verify", "age", "check", "resolve", "mint"} \/ HasSession(q) => Located(q)
  /\ pc[q] \in {"age", "check", "resolve", "mint"} \/ HasSession(q) => Verified(q)
  /\ pc[q] \in {"check", "resolve", "mint"} \/ HasSession(q) => Aged(q)
  /\ pc[q] \in {"resolve", "mint"} \/ HasSession(q) => Listed(q)

(* A request is on the way to a 503 only if nothing was cached, and gets one *)
(* only if failClosed was set as well.                                      *)
Refused(q) ==
  /\ outcome[q].status = 503 =>
       /\ pc[q] = "done"
       /\ \E w \in during[q] : w.settings.failClosed
       /\ \E w \in during[q] : w.snapshot = NoSnapshot
  /\ pc[q] = "unavailable" => \E w \in during[q] : w.snapshot = NoSnapshot

(* While a request is in progress the current world is among those it has   *)
(* seen; this is what makes the rest inductive.                             *)
Watching == \A q \in Procs : InProgress(q) => World \in during[q]

ServedFresh == \A s \in served : Fresh(s[2], s[1])

IInv ==
  /\ TypeOK
  /\ during \in [Procs -> SUBSET WorldType]
  /\ Watching
  /\ \A q \in Procs : Progress(q) /\ Refused(q)
  /\ ServedFresh

-----------------------------------------------------------------------------
(* Lemmas about the decisions *)

(* The canonical URL of a saved setting is a URL. *)
LEMMA CanonicalTyped ==
  ASSUME NEW s \in Settings, NEW r \in Requests
  PROVE  CanonicalLoginUrl(s, r.arrivedAt) \in Urls
BY LoginAssumption DEF SettingsType, RequestType, CanonicalLoginUrl

(* Verify answers "accepted" or a reason. *)
LEMMA VerifyTyped ==
  ASSUME NEW e, NEW u, NEW b, NEW t
  PROVE  Verify(e, u, b, t) \in
           {"accepted", "invalid_event", "expired_event", "url_mismatch", "method_mismatch"}
BY DEF Verify

(* Check allows or gives a reason. *)
LEMMA CheckTyped ==
  ASSUME NEW s, NEW age, NEW u, NEW t
  PROVE  Check(s, age, u, t) \in
           {"allowed", "allowlist_unavailable", "allowlist_stale", "not_in_allowlist"}
BY DEF Check

(* A saved setting has an integer max-age in seconds. *)
LEMMA MaxAgeTyped ==
  ASSUME NEW s \in Settings PROVE MaxListAgeSeconds(s) \in Int
<1>1. s.maxHours \in Int BY LoginAssumption DEF SettingsType
<1>2. QED BY <1>1 DEF MaxListAgeSeconds

(* An event that verifies is fresh, bound to the URL and the body, a POST of *)
(* the login kind, and signed.                                              *)
LEMMA AcceptedMeans ==
  ASSUME NEW e, NEW u, NEW b, NEW t, e.sigOk \in BOOLEAN, e.parses \in BOOLEAN,
         Verify(e, u, b, t) = "accepted"
  PROVE  /\ Fresh(t, e) /\ e.url = u /\ e.method = "POST" /\ e.kind = LoginKind
         /\ PayloadFits(e, b) /\ e.sigOk
BY DEF Verify

-----------------------------------------------------------------------------
(* What a step leaves alone stays established *)

(* A request that does not move keeps what it has, as the worlds it has seen *)
(* only become more.                                                        *)
LEMMA ProgressKept ==
  ASSUME NEW q \in Procs, Progress(q), Refused(q), during[q] \subseteq during'[q],
         pc'[q] = pc[q], request'[q] = request[q], body'[q] = body[q], url'[q] = url[q],
         started'[q] = started[q], maxAge'[q] = maxAge[q], outcome'[q] = outcome[q]
  PROVE  Progress(q)' /\ Refused(q)'
<1>1. HasSession(q)' = HasSession(q) BY DEF HasSession
<1>2. Located(q) => Located(q)' BY DEF Located
<1>3. Verified(q) => Verified(q)' BY DEF Verified
<1>4. Aged(q) => Aged(q)' BY DEF Aged
<1>5. Listed(q) => Listed(q)' BY DEF Listed
<1>6. Progress(q)' BY <1>1, <1>2, <1>3, <1>4, <1>5 DEF Progress
<1>7. Refused(q)' BY DEF Refused
<1>8. QED BY <1>6, <1>7

(* A request that is handled leaves the others and the world alone. *)
LEMMA OthersKept ==
  ASSUME TypeOK, during \in [Procs -> SUBSET WorldType],
         NEW q \in Procs, Handle(q), NEW p \in Procs, p # q
  PROVE  /\ pc'[p] = pc[p] /\ request'[p] = request[p] /\ body'[p] = body[p]
         /\ url'[p] = url[p] /\ started'[p] = started[p] /\ maxAge'[p] = maxAge[p]
         /\ outcome'[p] = outcome[p] /\ during'[p] = during[p]
<1>1. CASE Arrive(q) BY <1>1 DEF Arrive, TypeOK, Goto, Finish
<1>2. CASE ReadBody(q) BY <1>2 DEF ReadBody, TypeOK, Goto, Finish
<1>3. CASE ReadUrl(q) BY <1>3 DEF ReadUrl, TypeOK, Goto, Finish
<1>4. CASE VerifyEvent(q) BY <1>4 DEF VerifyEvent, TypeOK, Goto, Finish
<1>5. CASE ReadMaxAge(q) BY <1>5 DEF ReadMaxAge, TypeOK, Goto, Finish
<1>6. CASE CheckAllowlist(q) BY <1>6 DEF CheckAllowlist, TypeOK, Goto, Finish
<1>7. CASE RefuseUnavailable(q) BY <1>7 DEF RefuseUnavailable, TypeOK, Goto, Finish
<1>8. CASE Resolve(q) BY <1>8 DEF Resolve, TypeOK, Goto, Finish
<1>9. CASE Mint(q) BY <1>9 DEF Mint, TypeOK, Goto, Finish
<1>10. CASE Thrown(q) BY <1>10 DEF Thrown, TypeOK, Goto, Finish
<1>11. CASE Resend(q) BY <1>11 DEF Resend, TypeOK, Goto, Finish
<1>12. QED BY <1>1, <1>2, <1>3, <1>4, <1>5, <1>6, <1>7, <1>8, <1>9, <1>10, <1>11 DEF Handle

(* Handling a request changes neither the world nor what requests ask. *)
LEMMA WorldKept ==
  ASSUME NEW q \in Procs, Handle(q)
  PROVE  UNCHANGED <<world, request>>
BY DEF Handle, Arrive, ReadBody, ReadUrl, VerifyEvent, ReadMaxAge, CheckAllowlist, RefuseUnavailable, Resolve, Mint, Thrown, Resend

Labels ==
  {"idle", "read", "url", "verify", "age", "check", "unavailable", "resolve", "mint",
   "rejected", "failed", "done"}

Reasons ==
  {"none", "session", "error", "auth_rejected", "invalid_event", "expired_event",
   "url_mismatch", "method_mismatch", "not_in_allowlist", "allowlist_stale",
   "allowlist_unavailable"}

OutcomeType == [status: {0, 200, 401, 500, 503}, reason: Reasons]

(* A request that is moved or answered keeps the types of both. *)
LEMMA GotoTyped ==
  ASSUME pc \in [Procs -> Labels], NEW q \in Procs, NEW l \in Labels, Goto(q, l)
  PROVE  pc' \in [Procs -> Labels] /\ pc'[q] = l
BY DEF Goto

LEMMA FinishTyped ==
  ASSUME pc \in [Procs -> Labels], outcome \in [Procs -> OutcomeType], NEW q \in Procs,
         NEW s \in {0, 200, 401, 500, 503}, NEW r \in Reasons, Finish(q, s, r)
  PROVE  /\ pc' \in [Procs -> Labels] /\ pc'[q] = "done"
         /\ outcome' \in [Procs -> OutcomeType]
         /\ outcome'[q] = Answer(s, r)
<1>1. pc' \in [Procs -> Labels] /\ pc'[q] = "done" BY DEF Finish, Goto, Labels
<1>2. Answer(s, r) \in OutcomeType BY DEF Answer, OutcomeType
<1>3. outcome' = [outcome EXCEPT ![q] = Answer(s, r)] BY DEF Finish
<1> HIDE DEF Answer
<1>4. outcome'[q] = Answer(s, r) BY <1>3
<1>5. outcome' \in [Procs -> OutcomeType] BY <1>2, <1>3
<1>6. QED BY <1>1, <1>4, <1>5

(* Handling a request keeps the types of where it is and what it answers. *)
LEMMA OutcomesTyped ==
  ASSUME pc \in [Procs -> Labels], outcome \in [Procs -> OutcomeType],
         NEW q \in Procs, Handle(q)
  PROVE  pc' \in [Procs -> Labels] /\ outcome' \in [Procs -> OutcomeType]
<1>0. /\ NoOutcome \in OutcomeType
      /\ {"rejected", "failed", "done", "idle", "read", "url", "verify", "age", "check",
          "unavailable", "resolve", "mint"} \subseteq Labels
  BY DEF NoOutcome, OutcomeType, Reasons, Labels
<1>1. CASE Arrive(q) BY <1>1, <1>0, GotoTyped, FinishTyped DEF Arrive, Reasons
<1>2. CASE ReadBody(q) BY <1>2, <1>0, GotoTyped, FinishTyped DEF ReadBody, Reasons
<1>3. CASE ReadUrl(q) BY <1>3, <1>0, GotoTyped, FinishTyped DEF ReadUrl, Reasons
<1>4. CASE VerifyEvent(q) BY <1>4, <1>0, GotoTyped, FinishTyped, VerifyTyped DEF VerifyEvent, Reasons
<1>5. CASE ReadMaxAge(q) BY <1>5, <1>0, GotoTyped, FinishTyped DEF ReadMaxAge, Reasons
<1>6. CASE CheckAllowlist(q) BY <1>6, <1>0, GotoTyped, FinishTyped, CheckTyped DEF CheckAllowlist, Reasons
<1>7. CASE RefuseUnavailable(q) BY <1>7, <1>0, GotoTyped, FinishTyped DEF RefuseUnavailable, Reasons
<1>8. CASE Resolve(q) BY <1>8, <1>0, GotoTyped, FinishTyped DEF Resolve, Reasons
<1>9. CASE Mint(q) BY <1>9, <1>0, GotoTyped, FinishTyped DEF Mint, Reasons
<1>10. CASE Thrown(q) BY <1>10, <1>0, GotoTyped, FinishTyped DEF Thrown, Reasons
<1>11. CASE Resend(q) BY <1>11, <1>0, GotoTyped, FinishTyped DEF Resend, Reasons
<1>12. QED BY <1>1, <1>2, <1>3, <1>4, <1>5, <1>6, <1>7, <1>8, <1>9, <1>10, <1>11 DEF Handle

(* Handling a request keeps the types of what it has read and seen. *)
LEMMA HandleTyped ==
  ASSUME IInv, NEW q \in Procs, Handle(q)
  PROVE  TypeOK' /\ during' \in [Procs -> SUBSET WorldType]
<1> USE DEF IInv
<1>1. UNCHANGED <<world, request>> BY WorldKept
<1>2. World \in WorldType BY DEF World, WorldType, TypeOK
<1>3. during' \in [Procs -> SUBSET WorldType]
  <2>1. CASE Arrive(q) BY <2>1, <1>2 DEF Arrive
  <2>2. CASE ReadBody(q) BY <2>2, <1>2 DEF ReadBody
  <2>3. CASE ReadUrl(q) BY <2>3, <1>2 DEF ReadUrl
  <2>4. CASE VerifyEvent(q) BY <2>4, <1>2 DEF VerifyEvent
  <2>5. CASE ReadMaxAge(q) BY <2>5, <1>2 DEF ReadMaxAge
  <2>6. CASE CheckAllowlist(q) BY <2>6, <1>2 DEF CheckAllowlist
  <2>7. CASE RefuseUnavailable(q) BY <2>7, <1>2 DEF RefuseUnavailable
  <2>8. CASE Resolve(q) BY <2>8, <1>2 DEF Resolve
  <2>9. CASE Mint(q) BY <2>9, <1>2 DEF Mint
  <2>10. CASE Thrown(q) BY <2>10, <1>2 DEF Thrown
  <2>11. CASE Resend(q) BY <2>11, <1>2 DEF Resend
  <2>12. QED BY <2>1, <2>2, <2>3, <2>4, <2>5, <2>6, <2>7, <2>8, <2>9, <2>10, <2>11 DEF Handle
<1>4. pc' \in [Procs -> Labels] /\ outcome' \in [Procs -> OutcomeType]
  BY OutcomesTyped DEF TypeOK, Labels, OutcomeType, Reasons
<1>5. /\ body' \in [Procs -> Bodies \cup {NoBody}] /\ url' \in [Procs -> Urls \cup {NoUrl}]
      /\ started' \in [Procs -> Int] /\ maxAge' \in [Procs -> Int]
  <2> USE DEF TypeOK
  <2>0. \A p \in Procs : request[p] \in RequestType BY LoginAssumption
  <2>1. CASE Arrive(q) BY <2>1 DEF Arrive
  <2>2. CASE ReadBody(q) BY <2>2, LoginAssumption, <2>0 DEF ReadBody, RequestType
  <2>3. CASE ReadUrl(q) BY <2>3, CanonicalTyped DEF ReadUrl
  <2>4. CASE VerifyEvent(q) BY <2>4, LoginAssumption DEF VerifyEvent
  <2>5. CASE ReadMaxAge(q) BY <2>5, MaxAgeTyped DEF ReadMaxAge
  <2>6. CASE CheckAllowlist(q) BY <2>6 DEF CheckAllowlist
  <2>7. CASE RefuseUnavailable(q) BY <2>7 DEF RefuseUnavailable
  <2>8. CASE Resolve(q) BY <2>8 DEF Resolve
  <2>9. CASE Mint(q) BY <2>9 DEF Mint
  <2>10. CASE Thrown(q) BY <2>10 DEF Thrown
  <2>11. CASE Resend(q) BY <2>11 DEF Resend
  <2>12. QED BY <2>1, <2>2, <2>3, <2>4, <2>5, <2>6, <2>7, <2>8, <2>9, <2>10, <2>11 DEF Handle
<1>6. \A p \in Procs :
        pc'[p] \in {"verify", "age", "check", "resolve", "mint"} => url'[p] \in Urls
  <2> SUFFICES ASSUME NEW p \in Procs, pc'[p] \in {"verify", "age", "check", "resolve", "mint"}
               PROVE  url'[p] \in Urls
    OBVIOUS
  <2>1. CASE p # q BY <2>1, OthersKept DEF TypeOK
  <2>2. CASE p = q
    <3>1. CASE Arrive(q) BY <2>2, <3>1 DEF Arrive, TypeOK, Goto, Finish
    <3>2. CASE ReadBody(q) BY <2>2, <3>2 DEF ReadBody, TypeOK, Goto, Finish
    <3>3. CASE ReadUrl(q) BY <2>2, <3>3, CanonicalTyped DEF ReadUrl, TypeOK, Goto, Finish
    <3>4. CASE VerifyEvent(q) BY <2>2, <3>4 DEF VerifyEvent, TypeOK, Goto, Finish
    <3>5. CASE ReadMaxAge(q) BY <2>2, <3>5 DEF ReadMaxAge, TypeOK, Goto, Finish
    <3>6. CASE CheckAllowlist(q) BY <2>2, <3>6 DEF CheckAllowlist, TypeOK, Goto, Finish
    <3>7. CASE RefuseUnavailable(q) BY <2>2, <3>7 DEF RefuseUnavailable, TypeOK, Goto, Finish
    <3>8. CASE Resolve(q) BY <2>2, <3>8 DEF Resolve, TypeOK, Goto, Finish
    <3>9. CASE Mint(q) BY <2>2, <3>9 DEF Mint, TypeOK, Goto, Finish
    <3>10. CASE Thrown(q) BY <2>2, <3>10 DEF Thrown, TypeOK, Goto, Finish
    <3>11. CASE Resend(q) BY <2>2, <3>11 DEF Resend, TypeOK, Goto, Finish
    <3>12. QED BY <3>1, <3>2, <3>3, <3>4, <3>5, <3>6, <3>7, <3>8, <3>9, <3>10, <3>11 DEF Handle
  <2>3. QED BY <2>1, <2>2
<1>7. served' \subseteq AuthEvent \X Instants
  <2>1. CASE Mint(q)
    <3>1. request[q].event \in AuthEvent BY LoginAssumption DEF TypeOK, RequestType
    <3>2. CASE pc[q] = "mint"
      <4>1. PICK w \in during[q] : w.now = started[q] BY <3>2 DEF Progress, Verified
      <4>2. started[q] \in Instants BY <4>1 DEF WorldType
      <4>3. QED BY <2>1, <3>1, <4>2 DEF Mint, TypeOK
    <3>3. QED BY <2>1, <3>2 DEF Mint
  <2>2. CASE ~Mint(q)
    BY <2>2 DEF Handle, TypeOK, Arrive, ReadBody, ReadUrl, VerifyEvent, ReadMaxAge, CheckAllowlist, RefuseUnavailable, Resolve, Thrown, Resend
  <2>3. QED BY <2>1, <2>2
<1>8. resends' \in 0 .. MaxResends
  BY LoginAssumption DEF TypeOK, Handle, Arrive, ReadBody, ReadUrl, VerifyEvent, ReadMaxAge, CheckAllowlist, RefuseUnavailable, Resolve, Mint, Thrown, Resend
<1>9. \A p \in Procs : \A w \in during'[p] : w.now \in Instants
  BY <1>3 DEF WorldType
<1>10. QED
  BY <1>1, <1>3, <1>4, <1>5, <1>6, <1>7, <1>8, <1>9
  DEF TypeOK, Labels, OutcomeType, Reasons, world

(* The current world stays among those a request has seen. *)
LEMMA HandleWatching ==
  ASSUME IInv, NEW q \in Procs, Handle(q)
  PROVE  Watching'
<1> USE DEF IInv
<1>1. World' = World BY WorldKept DEF World, world
<1>2. SUFFICES ASSUME NEW p \in Procs, InProgress(p)' PROVE World \in during'[p]
  BY <1>1 DEF Watching
<1>3. CASE p # q BY <1>2, <1>3, OthersKept DEF Watching, InProgress
<1>4. CASE p = q
  <2>1. CASE Arrive(q) BY <1>2, <1>4, <2>1 DEF Arrive, Watching, InProgress, TypeOK, Goto, Finish
  <2>2. CASE ReadBody(q) BY <1>2, <1>4, <2>2 DEF ReadBody, Watching, InProgress, TypeOK, Goto, Finish
  <2>3. CASE ReadUrl(q) BY <1>2, <1>4, <2>3 DEF ReadUrl, Watching, InProgress, TypeOK, Goto, Finish
  <2>4. CASE VerifyEvent(q) BY <1>2, <1>4, <2>4 DEF VerifyEvent, Watching, InProgress, TypeOK, Goto, Finish
  <2>5. CASE ReadMaxAge(q) BY <1>2, <1>4, <2>5 DEF ReadMaxAge, Watching, InProgress, TypeOK, Goto, Finish
  <2>6. CASE CheckAllowlist(q) BY <1>2, <1>4, <2>6 DEF CheckAllowlist, Watching, InProgress, TypeOK, Goto, Finish
  <2>7. CASE RefuseUnavailable(q) BY <1>2, <1>4, <2>7 DEF RefuseUnavailable, Watching, InProgress, TypeOK, Goto, Finish
  <2>8. CASE Resolve(q) BY <1>2, <1>4, <2>8 DEF Resolve, Watching, InProgress, TypeOK, Goto, Finish
  <2>9. CASE Mint(q) BY <1>2, <1>4, <2>9 DEF Mint, Watching, InProgress, TypeOK, Goto, Finish
  <2>10. CASE Thrown(q) BY <1>2, <1>4, <2>10 DEF Thrown, Watching, InProgress, TypeOK, Goto, Finish
  <2>11. CASE Resend(q) BY <1>2, <1>4, <2>11 DEF Resend, Watching, InProgress, TypeOK, Goto, Finish
  <2>12. QED BY <2>1, <2>2, <2>3, <2>4, <2>5, <2>6, <2>7, <2>8, <2>9, <2>10, <2>11 DEF Handle
<1>5. QED BY <1>3, <1>4

(* Each step of a request establishes what the next ones rest on. *)
LEMMA HandleProgress ==
  ASSUME IInv, NEW q \in Procs, Handle(q)
  PROVE  \A p \in Procs : Progress(p)'
<1> USE DEF IInv
<1>1. ASSUME NEW p \in Procs, p # q PROVE Progress(p)'
  BY <1>1, OthersKept, ProgressKept
<1>2. Progress(q)'
  <2>0. Progress(q) /\ (InProgress(q) => World \in during[q]) BY DEF Watching
  <2>1. CASE Arrive(q)
    BY <2>1 DEF Arrive, TypeOK, Goto, Finish, Answer, Progress, HasSession
  <2>2. CASE ReadBody(q)
    BY <2>0, <2>2 DEF ReadBody, TypeOK, Goto, Finish, Answer, Progress, HasSession
  <2>3. CASE ReadUrl(q)
    <3>1. Located(q)'
      BY <2>0, <2>3 DEF ReadUrl, TypeOK, Located, InProgress, World
    <3>2. QED BY <2>0, <2>3, <3>1 DEF ReadUrl, TypeOK, Goto, Progress, HasSession
  <2>4. CASE VerifyEvent(q)
    <3>1. Located(q)' BY <2>0, <2>4 DEF VerifyEvent, Progress, Located
    <3>2. CASE Verify(request[q].event, url[q], body[q], now) = "accepted"
      <4>1. Verified(q)'
        BY <2>0, <2>4, <3>2 DEF VerifyEvent, TypeOK, Verified, InProgress, World
      <4>2. QED
        BY <2>0, <2>4, <3>1, <3>2, <4>1 DEF VerifyEvent, TypeOK, Goto, Progress, HasSession
    <3>3. CASE Verify(request[q].event, url[q], body[q], now) # "accepted"
      BY <2>4, <3>3, VerifyTyped
      DEF VerifyEvent, TypeOK, Goto, Finish, Answer, Progress, HasSession
    <3>4. QED BY <3>2, <3>3
  <2>5. CASE ReadMaxAge(q)
    <3>1. Located(q)' /\ Verified(q)'
      BY <2>0, <2>5 DEF ReadMaxAge, Progress, Located, Verified
    <3>2. Aged(q)'
      BY <2>0, <2>5 DEF ReadMaxAge, TypeOK, Aged, InProgress, World
    <3>3. QED
      BY <2>0, <2>5, <3>1, <3>2 DEF ReadMaxAge, TypeOK, Goto, Progress, HasSession
  <2>6. CASE CheckAllowlist(q)
    <3>1. Located(q)' /\ Verified(q)' /\ Aged(q)'
      BY <2>0, <2>6 DEF CheckAllowlist, Progress, Located, Verified, Aged
    <3> DEFINE decision == Check(snapshot, maxAge[q], request[q].event.pubkey, started[q])
    <3>2. CASE decision = "allowed"
      <4>1. /\ snapshot # NoSnapshot /\ request[q].event.pubkey \in snapshot.pubkeys
            /\ ~(started[q] - snapshot.createdAt > maxAge[q])
        BY <3>2 DEF Check
      <4>2. started[q] \in Int /\ maxAge[q] \in Int /\ snapshot.createdAt \in Int
        BY <4>1, LoginAssumption DEF TypeOK, SnapshotType
      <4>3. started[q] - snapshot.createdAt <= maxAge[q] BY <4>1, <4>2
      <4>4. Listed(q)'
        BY <2>0, <2>6, <4>1, <4>3 DEF CheckAllowlist, TypeOK, Listed, InProgress, World
      <4>5. QED
        BY <2>0, <2>6, <3>1, <3>2, <4>4
        DEF CheckAllowlist, TypeOK, Goto, Progress, HasSession
    <3>3. CASE decision # "allowed"
      BY <2>0, <2>6, <3>3, CheckTyped
      DEF CheckAllowlist, TypeOK, Goto, Finish, Answer, Progress, HasSession
    <3>4. QED BY <3>2, <3>3
  <2>7. CASE RefuseUnavailable(q)
    BY <2>0, <2>7 DEF RefuseUnavailable, TypeOK, Goto, Finish, Answer, Progress, HasSession
  <2>8. CASE Resolve(q)
    <3>1. (pc[q] = "resolve") /\ Located(q)' /\ Verified(q)' /\ Aged(q)' /\ Listed(q)'
      BY <2>0, <2>8 DEF Resolve, Progress, Located, Verified, Aged, Listed
    <3>2. QED BY <2>0, <2>8, <3>1 DEF Resolve, TypeOK, Goto, Progress, HasSession
  <2>9. CASE Mint(q)
    <3>1. Located(q)' /\ Verified(q)' /\ Aged(q)' /\ Listed(q)'
      BY <2>0, <2>9 DEF Mint, Progress, Located, Verified, Aged, Listed
    <3>2. (HasSession(q) => pc[q] = "done")' /\ pc'[q] \in {"done", "rejected", "failed"}
      BY <2>0, <2>9 DEF Mint, TypeOK, Goto, Finish, Answer, Progress, HasSession
    <3>3. QED BY <3>1, <3>2 DEF Progress
  <2>10. CASE Thrown(q)
    BY <2>0, <2>10 DEF Thrown, TypeOK, Goto, Finish, Answer, Progress, HasSession
  <2>11. CASE Resend(q)
    BY <2>11 DEF Resend, TypeOK, Goto, NoOutcome, Progress, HasSession
  <2>12. QED
    BY <2>1, <2>2, <2>3, <2>4, <2>5, <2>6, <2>7, <2>8, <2>9, <2>10, <2>11 DEF Handle
<1>3. QED BY <1>1, <1>2

(* Whatever is served was fresh when its request read the clock. *)
LEMMA HandleServed ==
  ASSUME IInv, NEW q \in Procs, Handle(q)
  PROVE  ServedFresh'
<1> USE DEF IInv
<1>1. CASE Mint(q)
  <2>1. pc[q] = "mint" BY <1>1 DEF Mint
  <2>2. request[q].event \in AuthEvent BY LoginAssumption DEF TypeOK, RequestType
  <2>3. Verify(request[q].event, url[q], body[q], started[q]) = "accepted"
    BY <2>1 DEF Progress, Verified
  <2>4. Fresh(started[q], request[q].event)
    BY <2>2, <2>3, AcceptedMeans DEF AuthEvent
  <2>5. served' \subseteq served \cup {<<request[q].event, started[q]>>}
    BY <1>1 DEF Mint
  <2>6. ASSUME NEW s \in served' PROVE Fresh(s[2], s[1])
    <3>1. CASE s \in served BY <3>1 DEF ServedFresh
    <3>2. CASE s = <<request[q].event, started[q]>> BY <3>2, <2>4
    <3>3. QED BY <2>5, <2>6, <3>1, <3>2
  <2>7. ServedFresh' = \A s \in served' : Fresh(s[2], s[1]) BY DEF ServedFresh
  <2>8. QED BY <2>6, <2>7
<1>2. CASE ~Mint(q)
  <2>1. served' = served BY <1>2 DEF Handle, Arrive, ReadBody, ReadUrl, VerifyEvent, ReadMaxAge, CheckAllowlist, RefuseUnavailable, Resolve, Thrown, Resend
  <2>2. QED BY <2>1 DEF ServedFresh
<1>3. QED BY <1>1, <1>2

(* A request is refused with 503 for what it has seen. *)
LEMMA HandleRefused ==
  ASSUME IInv, NEW q \in Procs, Handle(q)
  PROVE  \A p \in Procs : Refused(p)'
<1> USE DEF IInv
<1>1. ASSUME NEW p \in Procs, p # q PROVE Refused(p)'
  BY <1>1, OthersKept, ProgressKept
<1>2. Refused(q)'
  <2>0. Refused(q) /\ (InProgress(q) => World \in during[q]) BY DEF Watching
  <2>1. CASE Arrive(q)
    BY <2>0, <2>1 DEF Arrive, TypeOK, Goto, Finish, Answer, NoOutcome, Refused
  <2>2. CASE ReadBody(q)
    BY <2>0, <2>2 DEF ReadBody, TypeOK, Goto, Finish, Answer, NoOutcome, Refused
  <2>3. CASE ReadUrl(q)
    BY <2>0, <2>3 DEF ReadUrl, TypeOK, Goto, Finish, Answer, NoOutcome, Refused
  <2>4. CASE VerifyEvent(q)
    BY <2>0, <2>4, VerifyTyped DEF VerifyEvent, TypeOK, Goto, Finish, Answer, Refused
  <2>5. CASE ReadMaxAge(q)
    BY <2>0, <2>5 DEF ReadMaxAge, TypeOK, Goto, Finish, Answer, NoOutcome, Refused
  <2>6. CASE CheckAllowlist(q)
    <3> DEFINE decision == Check(snapshot, maxAge[q], request[q].event.pubkey, started[q])
    <3>1. CASE decision = "allowlist_unavailable"
      <4>1. snapshot = NoSnapshot BY <3>1 DEF Check
      <4>2. QED
        BY <2>0, <2>6, <3>1, <4>1
        DEF CheckAllowlist, TypeOK, Goto, Refused, InProgress, World
    <3>2. CASE decision # "allowlist_unavailable"
      BY <2>0, <2>6, <3>2, CheckTyped
      DEF CheckAllowlist, TypeOK, Goto, Finish, Answer, Refused
    <3>3. QED BY <3>1, <3>2
  <2>7. CASE RefuseUnavailable(q)
    BY <2>0, <2>7
    DEF RefuseUnavailable, TypeOK, Goto, Finish, Answer, Refused, InProgress, World
  <2>8. CASE Resolve(q)
    BY <2>0, <2>8 DEF Resolve, TypeOK, Goto, Finish, Answer, NoOutcome, Refused
  <2>9. CASE Mint(q)
    BY <2>0, <2>9 DEF Mint, TypeOK, Goto, Finish, Answer, NoOutcome, Refused
  <2>10. CASE Thrown(q)
    BY <2>0, <2>10 DEF Thrown, TypeOK, Goto, Finish, Answer, NoOutcome, Refused
  <2>11. CASE Resend(q)
    BY <2>0, <2>11 DEF Resend, TypeOK, Goto, Finish, Answer, NoOutcome, Refused
  <2>12. QED
    BY <2>1, <2>2, <2>3, <2>4, <2>5, <2>6, <2>7, <2>8, <2>9, <2>10, <2>11 DEF Handle
<1>3. QED BY <1>1, <1>2

-----------------------------------------------------------------------------
(* The world *)

(* A change of the clock, the cache or the settings is seen by the requests  *)
(* in progress and changes nothing they have established.                   *)
LEMMA WorldStep ==
  ASSUME IInv, Advance \/ Refresh \/ Save
  PROVE  IInv'
<1> USE DEF IInv
<1>1. Witnessed BY DEF Advance, Refresh, Save
<1>2. UNCHANGED local BY <1>1 DEF Witnessed
<1>3. /\ now' \in Instants /\ snapshot' \in Snapshots \cup {NoSnapshot}
      /\ settings' \in Settings /\ changes' \in 0 .. MaxChanges
  BY LoginAssumption DEF TypeOK, Advance, Refresh, Save, Change
<1>4. World' \in WorldType BY <1>3 DEF World, WorldType
<1>5. during' \in [Procs -> SUBSET WorldType] BY <1>1, <1>4 DEF Witnessed
<1>6. \A p \in Procs : during[p] \subseteq during'[p] BY <1>1 DEF Witnessed
<1>7. \A p \in Procs : \A w \in during'[p] : w.now \in Instants BY <1>5 DEF WorldType
<1>8. TypeOK' BY <1>2, <1>3, <1>7 DEF TypeOK, local
<1>9. Watching' BY <1>1, <1>2 DEF Watching, Witnessed, InProgress, local
<1>10. \A p \in Procs : Progress(p)' /\ Refused(p)'
  BY <1>2, <1>6, ProgressKept DEF local
<1>11. ServedFresh' BY <1>2 DEF ServedFresh, local
<1>12. QED BY <1>5, <1>8, <1>9, <1>10, <1>11

-----------------------------------------------------------------------------
(* The invariant and what follows from it *)

LEMMA InitInv == Init => IInv
<1> SUFFICES ASSUME Init PROVE IInv OBVIOUS
<1>1. TypeOK BY LoginAssumption DEF Init, TypeOK, NoOutcome
<1>2. during \in [Procs -> SUBSET WorldType] BY DEF Init
<1>3. Watching BY DEF Init, Watching, InProgress
<1>4. ASSUME NEW q \in Procs PROVE Progress(q) /\ Refused(q)
  BY DEF Init, Progress, Refused, HasSession, NoOutcome
<1>5. ServedFresh BY DEF Init, ServedFresh
<1>6. QED BY <1>1, <1>2, <1>3, <1>4, <1>5 DEF IInv

LEMMA StepInv == IInv /\ [Next]_vars => IInv'
<1> SUFFICES ASSUME IInv, [Next]_vars PROVE IInv' OBVIOUS
<1>1. ASSUME NEW q \in Procs, Handle(q) PROVE IInv'
  BY <1>1, HandleTyped, HandleWatching, HandleProgress, HandleRefused, HandleServed DEF IInv
<1>2. CASE Advance \/ Refresh \/ Save BY <1>2, WorldStep
<1>3. CASE UNCHANGED vars
  <2>1. UNCHANGED <<world, local, during>> BY <1>3 DEF vars
  <2>2. TypeOK' BY <2>1 DEF IInv, TypeOK, world, local
  <2>3. Watching' BY <2>1 DEF IInv, Watching, InProgress, World, world, local
  <2>4. \A p \in Procs : Progress(p)' /\ Refused(p)'
    BY <2>1, ProgressKept DEF IInv, local
  <2>5. QED BY <2>1, <2>2, <2>3, <2>4 DEF IInv, ServedFresh, local
<1>4. QED BY <1>1, <1>2, <1>3 DEF Next

LEMMA Inductive == Spec => []IInv
<1>1. QED BY InitInv, StepInv, PTL DEF Spec

(* LoginService.TypeOK for all constants: in particular a request that is    *)
(* past CanonicalLoginUrl has a URL, and Check is asked with an integer.     *)
THEOREM TypeCorrect == Spec => []TypeOK
<1>1. IInv => TypeOK BY DEF IInv
<1>2. QED BY <1>1, Inductive, PTL

(* Sessions are earned within their request, for any number of requests and  *)
(* any changes of cache, settings and clock between the reads of LoginAsync. *)
THEOREM Earned == Spec => []SessionIsEarned
<1>1. ASSUME IInv PROVE SessionIsEarned
  <2> SUFFICES ASSUME NEW q \in Procs, HasSession(q)
               PROVE  LET e == request[q].event
                      IN /\ e.sigOk /\ e.kind = LoginKind /\ e.method = "POST"
                         /\ e.payload \in {NoTag, IF body[q] = NoBody THEN Empty ELSE body[q]}
                         /\ \E w \in during[q] : w.now - e.createdAt \in -60 .. 60
                         /\ \E w \in during[q] :
                              e.url = (IF w.settings.published = NoUrl
                                       THEN request[q].arrivedAt ELSE w.settings.published)
                         /\ \E v, w \in during[q] :
                              /\ v.snapshot # NoSnapshot /\ e.pubkey \in v.snapshot.pubkeys
                              /\ \E t \in {x.now : x \in during[q]} :
                                   t - v.snapshot.createdAt <= MaxListAgeSeconds(w.settings)
    BY DEF SessionIsEarned
  <2> DEFINE e == request[q].event
  <2>1. Located(q) /\ Verified(q) /\ Aged(q) /\ Listed(q) BY <1>1 DEF IInv, Progress
  <2>2. e \in AuthEvent BY <1>1, LoginAssumption DEF IInv, TypeOK, RequestType
  <2>3. /\ Fresh(started[q], e) /\ e.url = url[q] /\ e.method = "POST"
        /\ e.kind = LoginKind /\ PayloadFits(e, body[q]) /\ e.sigOk
    BY <2>1, <2>2, AcceptedMeans DEF Verified, AuthEvent
  <2>4. e.payload \in {NoTag, IF body[q] = NoBody THEN Empty ELSE body[q]}
    BY <2>3 DEF PayloadFits
  <2>5. PICK w \in during[q] : w.now = started[q] BY <2>1 DEF Verified
  <2>6. w.now - e.createdAt \in -60 .. 60
    <3>1. started[q] \in Int /\ e.createdAt \in Int
      BY <1>1, <2>2 DEF IInv, TypeOK, AuthEvent
    <3>2. QED BY <2>3, <2>5, <3>1 DEF Fresh, Distance, FreshnessWindowSeconds
  <2>7. \E x \in during[q] :
          e.url = (IF x.settings.published = NoUrl
                   THEN request[q].arrivedAt ELSE x.settings.published)
    BY <2>1, <2>3 DEF Located, CanonicalLoginUrl
  <2>8. PICK v \in during[q] :
          /\ v.snapshot # NoSnapshot /\ e.pubkey \in v.snapshot.pubkeys
          /\ started[q] - v.snapshot.createdAt <= maxAge[q]
    BY <2>1 DEF Listed
  <2>9. PICK x \in during[q] : maxAge[q] = MaxListAgeSeconds(x.settings) BY <2>1 DEF Aged
  <2>10. started[q] \in {y.now : y \in during[q]} BY <2>5
  <2> HIDE DEF e
  <2>11. QED BY <2>3, <2>4, <2>5, <2>6, <2>7, <2>8, <2>9, <2>10 DEF e
<1>2. QED BY <1>1, Inductive, PTL

(* One header is good for two minutes at most, although no event is          *)
(* remembered and any number of requests carry it.                          *)
THEOREM ReplayBounded == Spec => []ReplayWindowBounded
<1>1. ASSUME IInv PROVE ReplayWindowBounded
  <2> SUFFICES ASSUME NEW e \in served, NEW f \in served, e[1] = f[1]
               PROVE  Distance(e[2], f[2]) <= 120
    BY DEF ReplayWindowBounded
  <2>1. /\ Fresh(e[2], e[1]) /\ Fresh(f[2], e[1])
    BY <1>1 DEF IInv, ServedFresh
  <2>2. e[1] \in AuthEvent /\ e[2] \in Instants /\ f[2] \in Instants
    BY <1>1 DEF IInv, TypeOK
  <2>3. e[1].createdAt \in Int /\ e[2] \in Int /\ f[2] \in Int
    BY <2>2, LoginAssumption DEF AuthEvent
  <2>4. QED BY <2>1, <2>3 DEF Fresh, Distance, FreshnessWindowSeconds
<1>2. QED BY <1>1, Inductive, PTL

(* 503 goes only to a request during which failClosed was set and nothing    *)
(* was cached, although the two are read in different steps.                *)
THEOREM UnavailableMeansFailClosed == Spec => []UnavailableOnlyWhenFailClosed
<1>1. IInv => UnavailableOnlyWhenFailClosed
  BY DEF IInv, Refused, UnavailableOnlyWhenFailClosed
<1>2. QED BY <1>1, Inductive, PTL

(* The notice of the dashboard agrees with what logins get, whatever lists   *)
(* are cached and settings saved, although each side computes staleness.    *)
THEOREM NoticeTrue == Spec => []NoticeIsTrue
<1>1. ASSUME TypeOK PROVE NoticeIsTrue
  <2> DEFINE notice == Notice(settings, snapshot, now)
             age == MaxListAgeSeconds(settings)
  <2>1. settings \in Settings /\ settings.maxHours \in Int /\ now \in Int
    BY <1>1, LoginAssumption DEF TypeOK, SettingsType
  <2>2. snapshot # NoSnapshot => snapshot.createdAt \in Int
    BY <1>1, LoginAssumption DEF TypeOK, SnapshotType
  <2>3. ASSUME notice \in {"fresh", "public"}, NEW u \in snapshot.pubkeys
        PROVE  Decision(u) = "allowed"
    <3>1. snapshot # NoSnapshot /\ ~Stale(settings, snapshot, now) BY <2>3 DEF Notice
    <3>2. now - snapshot.createdAt <= settings.maxHours * 3600
      BY <2>1, <2>2, <3>1 DEF Stale
    <3>3. ~(now - snapshot.createdAt > age)
      BY <2>1, <2>2, <3>1, <3>2 DEF MaxListAgeSeconds
    <3>4. QED BY <2>3, <3>1, <3>3 DEF Decision, Check
  <2>4. ASSUME notice = "stale", settings.maxHours > 0, NEW u \in Users
        PROVE  Decision(u) = "allowlist_stale"
    <3>1. snapshot # NoSnapshot /\ now - snapshot.createdAt > settings.maxHours * 3600
      BY <2>4 DEF Notice, Stale
    <3>2. now - snapshot.createdAt > age BY <2>4, <3>1 DEF MaxListAgeSeconds
    <3>3. QED BY <3>1, <3>2 DEF Decision, Check
  <2>5. ASSUME notice = "nothing fetched", NEW u \in Users
        PROVE  Decision(u) = "allowlist_unavailable"
    <3>1. snapshot = NoSnapshot BY <2>5 DEF Notice
    <3>2. QED BY <3>1 DEF Decision, Check
  <2>6. QED BY <2>3, <2>4, <2>5 DEF NoticeIsTrue
<1>2. QED BY <1>1, TypeCorrect, PTL
=============================================================================
