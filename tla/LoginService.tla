---------------------------- MODULE LoginService ----------------------------
(***************************************************************************)
(* The login endpoint: NostrAuthController.Login and                       *)
(* NostrLoginService.LoginAsync, with the decisions of LoginDecisions.     *)
(* Requests run concurrently and may be sent again; while one is handled   *)
(* the clock advances, the sync replaces the cached list and the           *)
(* administrator saves settings, so each value the pipeline reads is read  *)
(* in a step of its own.  Provisioning and minting are seams here: they    *)
(* succeed or throw.                                                       *)
(***************************************************************************)
EXTENDS LoginDecisions

CONSTANTS
  Procs,        \* concurrent requests
  Requests,     \* what a client may send
  OddBodies,    \* bodies ParseClientMetadata throws on
  Snapshots,    \* lists the sync may cache
  Settings,     \* plugin settings the administrator may save
  Instants,     \* the seconds the clock may show
  MaxChanges,   \* bound on changes of the cache and the settings
  MaxResends    \* bound on requests sent again

NoLength == -1  \* no Content-Length header

(* arrivedAt is the absolute URL of the request as the server sees it. *)
RequestType ==
  [event: AuthEvent, arrivedAt: Urls, length: Nat \cup {NoLength}, body: Bodies]

ASSUME LoginAssumption ==
  /\ OddBodies \subseteq Bodies
  /\ Snapshots \subseteq SnapshotType /\ Settings \subseteq SettingsType
  /\ Requests \subseteq RequestType
  /\ Instants \subseteq Int /\ {MaxChanges, MaxResends} \subseteq Nat

VARIABLES
  now,        \* TimeProvider.GetUtcNow
  snapshot,   \* AllowlistCache.Snapshot
  settings,   \* Plugin.Instance.Configuration
  changes,    \* spent out of MaxChanges
  pc,         \* where each request is
  request,    \* what it sent
  body,       \* the body as read
  url,        \* CanonicalLoginUrl as read
  started,    \* LoginAsync's now
  maxAge,     \* the evaluator's max-age
  outcome,    \* the response
  during,     \* history: [q -> the worlds seen while q was in progress]
  served,     \* history: <<event, time>> of every session
  resends     \* spent out of MaxResends

world == <<now, snapshot, settings, changes>>
local == <<pc, request, body, url, started, maxAge, outcome, served, resends>>
vars == <<world, local, during>>

World == [now |-> now, snapshot |-> snapshot, settings |-> settings]

NoOutcome == [status |-> 0, reason |-> "none"]
Answer(status, reason) == [status |-> status, reason |-> reason]

Init ==
  /\ now \in Instants /\ \A t \in Instants : now <= t
  /\ snapshot \in Snapshots \cup {NoSnapshot} /\ settings \in Settings
  /\ changes = 0
  /\ pc = [q \in Procs |-> "idle"]
  /\ request \in [Procs -> Requests]
  /\ body = [q \in Procs |-> NoBody] /\ url = [q \in Procs |-> NoUrl]
  /\ started = [q \in Procs |-> 0] /\ maxAge = [q \in Procs |-> 0]
  /\ outcome = [q \in Procs |-> NoOutcome]
  /\ during = [q \in Procs |-> {}] /\ served = {} /\ resends = 0

-----------------------------------------------------------------------------
(* A request *)

MaxBodyBytes == 64 * 1024

Goto(q, label) == pc' = [pc EXCEPT ![q] = label]

Finish(q, status, reason) ==
  Goto(q, "done") /\ outcome' = [outcome EXCEPT ![q] = Answer(status, reason)]

(* The request arrives; an oversized body is answered before it is read,    *)
(* with a ContentResult that sets no status code.                          *)
Arrive(q) ==
  /\ pc[q] = "idle"
  /\ during' = [during EXCEPT ![q] = {World}]
  /\ IF request[q].length > MaxBodyBytes
     THEN Finish(q, 200, "invalid_event")
     ELSE Goto(q, "read") /\ UNCHANGED outcome
  /\ UNCHANGED <<world, request, body, url, started, maxAge, served, resends>>

(* ReadBodyAsync and ParseClientMetadata: without a positive Content-Length *)
(* there is no body; JSON that is no object, or whose member is no string,  *)
(* throws.                                                                  *)
ReadBody(q) ==
  /\ pc[q] = "read"
  /\ LET b == IF request[q].length > 0 THEN request[q].body ELSE NoBody
     IN /\ body' = [body EXCEPT ![q] = b]
        /\ IF b \in OddBodies THEN Finish(q, 500, "error")
           ELSE Goto(q, "url") /\ UNCHANGED outcome
  /\ UNCHANGED <<world, request, url, started, maxAge, during, served, resends>>

ReadUrl(q) ==
  /\ pc[q] = "url"
  /\ url' = [url EXCEPT ![q] = CanonicalLoginUrl(settings, request[q].arrivedAt)]
  /\ Goto(q, "verify")
  /\ UNCHANGED <<world, request, body, started, maxAge, outcome, during, served, resends>>

VerifyEvent(q) ==
  /\ pc[q] = "verify"
  /\ started' = [started EXCEPT ![q] = now]
  /\ LET verdict == Verify(request[q].event, url[q], body[q], now)
     IN IF verdict = "accepted" THEN Goto(q, "age") /\ UNCHANGED outcome
        ELSE Finish(q, 401, verdict)
  /\ UNCHANGED <<world, request, body, url, maxAge, during, served, resends>>

ReadMaxAge(q) ==
  /\ pc[q] = "age"
  /\ maxAge' = [maxAge EXCEPT ![q] = MaxListAgeSeconds(settings)]
  /\ Goto(q, "check")
  /\ UNCHANGED <<world, request, body, url, started, outcome, during, served, resends>>

CheckAllowlist(q) ==
  /\ pc[q] = "check"
  /\ LET decision == Check(snapshot, maxAge[q], request[q].event.pubkey, started[q])
     IN CASE decision = "allowed" -> Goto(q, "resolve") /\ UNCHANGED outcome
          [] decision = "allowlist_unavailable" -> Goto(q, "unavailable") /\ UNCHANGED outcome
          [] OTHER -> Finish(q, 401, decision)
  /\ UNCHANGED <<world, request, body, url, started, maxAge, during, served, resends>>

(* Mutant: failClosed is not asked *)
RefuseAlways503(q) ==
  /\ pc[q] = "unavailable"
  /\ Finish(q, 503, "allowlist_unavailable")
  /\ UNCHANGED <<world, request, body, url, started, maxAge, during, served, resends>>

RefuseUnavailable(q) ==
  /\ pc[q] = "unavailable"
  /\ Finish(q, IF settings.failClosed THEN 503 ELSE 401, "allowlist_unavailable")
  /\ UNCHANGED <<world, request, body, url, started, maxAge, during, served, resends>>

(* The provisioner and the session manager: they succeed, refuse with a     *)
(* SecurityException or an AuthenticationException, or throw otherwise.    *)
Resolve(q) ==
  /\ pc[q] = "resolve"
  /\ Goto(q, "mint") \/ Goto(q, "rejected") \/ Goto(q, "failed")
  /\ UNCHANGED <<world, request, body, url, started, maxAge, outcome, during, served, resends>>

Mint(q) ==
  /\ pc[q] = "mint"
  /\ \/ /\ Finish(q, 200, "session")
        /\ served' = served \cup {<<request[q].event, started[q]>>}
     \/ (Goto(q, "rejected") \/ Goto(q, "failed")) /\ UNCHANGED <<outcome, served>>
  /\ UNCHANGED <<world, request, body, url, started, maxAge, during, resends>>

Thrown(q) ==
  /\ \/ pc[q] = "rejected" /\ Finish(q, 401, "auth_rejected")
     \/ pc[q] = "failed" /\ Finish(q, 500, "error")
  /\ UNCHANGED <<world, request, body, url, started, maxAge, during, served, resends>>

(* A request that got its session is sent again; the server has kept nothing *)
(* of the first.  (One that was refused might as well have come later.)     *)
Resend(q) ==
  /\ pc[q] = "done" /\ outcome[q].reason = "session" /\ resends < MaxResends
  /\ Goto(q, "idle") /\ resends' = resends + 1
  /\ body' = [body EXCEPT ![q] = NoBody] /\ url' = [url EXCEPT ![q] = NoUrl]
  /\ started' = [started EXCEPT ![q] = 0] /\ maxAge' = [maxAge EXCEPT ![q] = 0]
  /\ outcome' = [outcome EXCEPT ![q] = NoOutcome]
  /\ during' = [during EXCEPT ![q] = {}]
  /\ UNCHANGED <<world, request, served>>

Handle(q) ==
  \/ Arrive(q) \/ ReadBody(q) \/ ReadUrl(q) \/ VerifyEvent(q) \/ ReadMaxAge(q)
  \/ CheckAllowlist(q) \/ RefuseUnavailable(q) \/ Resolve(q) \/ Mint(q) \/ Thrown(q)
  \/ Resend(q)

-----------------------------------------------------------------------------
(* The world *)

InProgress(q) == pc[q] \notin {"idle", "done"}

Witnessed ==
  /\ during' = [q \in Procs |-> IF InProgress(q) THEN during[q] \cup {World'} ELSE during[q]]
  /\ UNCHANGED local

Change == changes < MaxChanges /\ changes' = changes + 1

Advance ==
  /\ \E t \in Instants : t > now /\ now' = t
  /\ UNCHANGED <<snapshot, settings, changes>>
  /\ Witnessed

(* The sync caches a list. *)
Refresh ==
  /\ Change
  /\ snapshot' \in Snapshots
  /\ UNCHANGED <<now, settings>>
  /\ Witnessed

Save ==
  /\ Change
  /\ settings' \in Settings
  /\ UNCHANGED <<now, snapshot>>
  /\ Witnessed

Next == (\E q \in Procs : Handle(q)) \/ Advance \/ Refresh \/ Save

Spec == Init /\ [][Next]_vars

-----------------------------------------------------------------------------
TypeOK ==
  /\ now \in Instants /\ snapshot \in Snapshots \cup {NoSnapshot}
  /\ settings \in Settings /\ changes \in 0 .. MaxChanges
  /\ pc \in [Procs -> {"idle", "read", "url", "verify", "age", "check", "unavailable",
                       "resolve", "mint", "rejected", "failed", "done"}]
  /\ request \in [Procs -> Requests]
  /\ body \in [Procs -> Bodies \cup {NoBody}] /\ url \in [Procs -> Urls \cup {NoUrl}]
  /\ \A q \in Procs : pc[q] \in {"verify", "age", "check", "resolve", "mint"} => url[q] \in Urls
  /\ started \in [Procs -> Int] /\ maxAge \in [Procs -> Int]
  /\ outcome \in [Procs -> [status: {0, 200, 401, 500, 503},
       reason: {"none", "session", "error", "auth_rejected", "invalid_event",
                "expired_event", "url_mismatch", "method_mismatch", "not_in_allowlist",
                "allowlist_stale", "allowlist_unavailable"}]]
  /\ \A q \in Procs : \A w \in during[q] : w.now \in Instants
  /\ served \subseteq AuthEvent \X Instants /\ resends \in 0 .. MaxResends

HasSession(q) == outcome[q].reason = "session"

(* Nobody gets a session without having earned it within the request: at    *)
(* some moment of it the event was at most 60 s off the clock, at some      *)
(* moment its URL was the canonical one, and at some moment a list that     *)
(* names the user was cached that, under a max-age in force during the     *)
(* request, had not expired when the request arrived.  The pipeline reads   *)
(* these one by one (NostrLoginService.cs:55-79), so settings, cache and    *)
(* clock may have changed in between.                                       *)
SessionIsEarned ==
  \A q \in Procs : HasSession(q) =>
    LET e == request[q].event
    IN /\ e.sigOk /\ e.kind = LoginKind /\ e.method = "POST"
       /\ e.payload \in {NoTag, IF body[q] = NoBody THEN Empty ELSE body[q]}
       /\ \E w \in during[q] : w.now - e.createdAt \in -60 .. 60
       /\ \E w \in during[q] : e.url = (IF w.settings.published = NoUrl
                                        THEN request[q].arrivedAt ELSE w.settings.published)
       /\ \E v, w \in during[q] :
            /\ v.snapshot # NoSnapshot /\ e.pubkey \in v.snapshot.pubkeys
            /\ \E t \in {x.now : x \in during[q]} :
                 t - v.snapshot.createdAt <= MaxListAgeSeconds(w.settings)

(* A header that is captured and sent again is good for two minutes at      *)
(* most, from the earliest request it serves to the latest, although the    *)
(* server remembers no event (Nip98Verifier.cs:62-66).                      *)
ReplayWindowBounded ==
  \A e, f \in served : e[1] = f[1] => Distance(e[2], f[2]) <= 120

(* 503 is answered only to a request during which failClosed was set and    *)
(* nothing was cached (NostrAuthController.cs:47-54, docs/design.md:175).   *)
UnavailableOnlyWhenFailClosed ==
  \A q \in Procs : outcome[q].status = 503 =>
    /\ \E w \in during[q] : w.settings.failClosed
    /\ \E w \in during[q] : w.snapshot = NoSnapshot

-----------------------------------------------------------------------------
(* Statements of comments and documentation that the code does not keep *)

(* NostrAuthController.cs:25 and 47-48, docs/design.md:161-175: 200 carries *)
(* an authentication result and a rejected request is a 401; the body is    *)
(* informational, so no request fails on it.                               *)
ResponsesAreDocumented ==
  \A q \in Procs :
    /\ outcome[q].status = 200 => HasSession(q)
    /\ outcome[q].status = 500 => body[q] \notin OddBodies
=============================================================================
