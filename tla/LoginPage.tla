------------------------------ MODULE LoginPage ------------------------------
(***************************************************************************)
(* The login page: it probes the canonical URL once, and each press of a   *)
(* button starts an attempt that connects a signer, builds and signs an    *)
(* event, posts it and hands the session to jellyfin-web.  No button is    *)
(* disabled meanwhile, so attempts overlap and share one status line.  A   *)
(* signer keeps the promises of RemoteSigner; the server decides as in     *)
(* LoginDecisions, and LoginService shows the interleavings inside it.     *)
(***************************************************************************)
EXTENDS LoginDecisions

CONSTANTS
  MaxAttempts,         \* bound on attempts on one page
  User, Body,          \* the user's key and the body the page posts
  PageUrl, ServerUrl,  \* the login URL as the page and as the server see it
  Settings,            \* plugin settings the administrator may save
  Instants,            \* the seconds the clock may show
  Skews,               \* by how many seconds the device's clock may be ahead
  MaxFaults, MaxSaves, MaxReloads  \* bounds

ASSUME PageAssumption ==
  /\ User \in Users /\ Body \in Bodies /\ {PageUrl, ServerUrl} \subseteq Urls
  /\ Settings \subseteq SettingsType /\ Instants \cup Skews \subseteq Int
  /\ {MaxAttempts, MaxFaults, MaxSaves, MaxReloads} \subseteq Nat

VARIABLES
  now, settings,  \* the server's clock and configuration
  skew, secure,   \* the device's clock; the page has crypto.subtle
  probe,          \* "asked", "answered", "failed"
  endpoint,       \* what loginEndpoint resolves to, or NoUrl while it has not
  pc, path,       \* where each attempt is, and the button that started it
  event,          \* what it has built
  reply,          \* what the server has answered
  status,         \* the status line
  stored,         \* jellyfin_credentials holds a session
  saved,          \* history: settings were saved after the probe was answered
  askedAt,        \* history: when each attempt asked its signer
  faults, saves, reloads  \* spent out of the bounds

browser == <<skew, secure, probe, endpoint>>
attempt == <<pc, path, event, reply, status, stored, askedAt>>
bounds == <<faults, saves, reloads>>
vars == <<now, settings, browser, attempt, saved, bounds>>

Attempts == 1 .. MaxAttempts  \* in the order of the presses

Paths == {"nip07", "bunker", "nostrconnect"}

NoEvent == [createdAt |-> 0, url |-> NoUrl]
NoReply == [status |-> 0, reason |-> "none", at |-> 0]

(* No attempt has been made.                                             *)
NoAttempts ==
  /\ pc' = [a \in Attempts |-> "idle"] /\ path' = [a \in Attempts |-> "nip07"]
  /\ event' = [a \in Attempts |-> NoEvent] /\ reply' = [a \in Attempts |-> NoReply]
  /\ askedAt' = [a \in Attempts |-> 0] /\ status' = "empty"

Init ==
  /\ now \in Instants /\ (\A t \in Instants : now <= t) /\ settings \in Settings
  /\ skew \in Skews /\ secure \in BOOLEAN
  /\ probe = "asked" /\ endpoint = NoUrl
  /\ pc = [a \in Attempts |-> "idle"] /\ path = [a \in Attempts |-> "nip07"]
  /\ event = [a \in Attempts |-> NoEvent] /\ reply = [a \in Attempts |-> NoReply]
  /\ askedAt = [a \in Attempts |-> 0] /\ status = "empty"
  /\ stored = FALSE /\ saved = FALSE /\ faults = 0 /\ saves = 0 /\ reloads = 0

Fault == faults < MaxFaults /\ faults' = faults + 1

-----------------------------------------------------------------------------
(* Loading the page *)

(* LoginEndpoint answers with what the server sees at that moment. *)
ProbeAnswers ==
  /\ probe = "asked" /\ probe' = "answered"
  /\ endpoint' = CanonicalLoginUrl(settings, ServerUrl)
  /\ UNCHANGED <<now, settings, skew, secure, attempt, saved, bounds>>

(* Mutant: a probe that fails resolves nothing *)
ProbeFailsForGood ==
  /\ probe = "asked" /\ Fault
  /\ probe' = "failed" /\ endpoint' = NoUrl
  /\ UNCHANGED <<now, settings, skew, secure, attempt, saved, saves, reloads>>

(* Without an answer the page takes its own view. *)
ProbeFails ==
  /\ probe = "asked" /\ Fault
  /\ probe' = "failed" /\ endpoint' = PageUrl
  /\ UNCHANGED <<now, settings, skew, secure, attempt, saved, saves, reloads>>

Reload ==
  /\ reloads < MaxReloads /\ reloads' = reloads + 1
  /\ probe' = "asked" /\ endpoint' = NoUrl /\ saved' = FALSE
  /\ NoAttempts
  /\ UNCHANGED <<now, settings, skew, secure, stored, faults, saves>>

-----------------------------------------------------------------------------
(* An attempt *)

Goto(a, label) == pc' = [pc EXCEPT ![a] = label]
Say(text) == status' = text

(* Mutant: an exception is swallowed *)
ThrowSilently(a, error) == Goto(a, "done") /\ UNCHANGED status

(* The catch of each button's handler: the one of nostrconnect takes every   *)
(* error that does not speak of closing for a signer that did not answer.   *)
Throw(a, error) ==
  /\ Goto(a, "done")
  /\ Say(CASE path[a] = "nip07" -> "sign-in failed"
           [] path[a] = "bunker" -> "bunker failed"
           [] OTHER -> IF error = "closed" THEN "relay dropped" ELSE "no response")

(* A button is pressed; without an extension or an input that is all. *)
Press(a) ==
  /\ pc[a] = "idle" /\ \A b \in 1 .. a - 1 : pc[b] # "idle"
  /\ \E p \in Paths :
       /\ path' = [path EXCEPT ![a] = p]
       /\ \/ p = "nip07" /\ Goto(a, "hash") /\ Say("busy")
          \/ p # "nip07" /\ Goto(a, "connect") /\ Say("connecting")
          \/ p # "nostrconnect" /\ Goto(a, "done") /\ Say("no signer")
  /\ UNCHANGED <<now, settings, browser, event, reply, stored, askedAt, saved, bounds>>

(* bunkerSignerFromInput returns a signer or throws. *)
Connect(a) ==
  /\ pc[a] = "connect"
  /\ \/ Goto(a, "hash") /\ Say("busy") /\ UNCHANGED faults
     \/ Fault /\ \E error \in {"closed", "other"} : Throw(a, error)
  /\ UNCHANGED <<now, settings, browser, path, event, reply, stored, askedAt, saved, saves, reloads>>

(* sha256Hex needs crypto.subtle, which a browser has in secure contexts. *)
Hash(a) ==
  /\ pc[a] = "hash"
  /\ IF secure THEN Goto(a, "endpoint") /\ UNCHANGED status ELSE Throw(a, "no subtle")
  /\ UNCHANGED <<now, settings, browser, path, event, reply, stored, askedAt, saved, bounds>>

(* Mutant: the promise is not awaited *)
BuildUnawaited(a) ==
  /\ pc[a] = "endpoint"
  /\ event' = [event EXCEPT ![a] = [createdAt |-> now + skew, url |-> endpoint]]
  /\ askedAt' = [askedAt EXCEPT ![a] = now]
  /\ Goto(a, "key")
  /\ UNCHANGED <<now, settings, browser, path, reply, status, stored, saved, bounds>>

(* Mutant: the page's own view *)
BuildForPage(a) ==
  /\ pc[a] = "endpoint" /\ endpoint # NoUrl
  /\ event' = [event EXCEPT ![a] = [createdAt |-> now + skew, url |-> PageUrl]]
  /\ askedAt' = [askedAt EXCEPT ![a] = now]
  /\ Goto(a, "key")
  /\ UNCHANGED <<now, settings, browser, path, reply, status, stored, saved, bounds>>

(* The event takes its time when the URL is known, before the signer is      *)
(* asked for the key and for the signature.                                 *)
Build(a) ==
  /\ pc[a] = "endpoint" /\ endpoint # NoUrl
  /\ event' = [event EXCEPT ![a] = [createdAt |-> now + skew, url |-> endpoint]]
  /\ askedAt' = [askedAt EXCEPT ![a] = now]
  /\ Goto(a, "key")
  /\ UNCHANGED <<now, settings, browser, path, reply, status, stored, saved, bounds>>

(* getPublicKey, then signEvent; the signer may refuse either. *)
Sign(a) ==
  /\ \/ pc[a] = "key" /\ Goto(a, "sign") /\ UNCHANGED <<status, faults>>
     \/ pc[a] = "sign" /\ Goto(a, "post") /\ UNCHANGED <<status, faults>>
     \/ pc[a] \in {"key", "sign"} /\ Fault /\ Throw(a, "refused")
  /\ UNCHANGED <<now, settings, browser, path, event, reply, stored, askedAt, saved, saves, reloads>>

Signed(a) ==
  [parses |-> TRUE, kind |-> LoginKind, createdAt |-> event[a].createdAt,
   url |-> event[a].url, method |-> "POST", payload |-> Body, sigOk |-> TRUE,
   pubkey |-> User]

(* What the server may make of an event that verifies: "refused" stands for  *)
(* the reasons of the allowlist, the provisioner and the session manager.   *)
Outcomes ==
  {<<200, "session">>, <<401, "refused">>, <<500, "error">>, <<503, "allowlist_unavailable">>}

Post(a) ==
  /\ pc[a] = "post" /\ Goto(a, "reply")
  /\ LET verdict == Verify(Signed(a), CanonicalLoginUrl(settings, ServerUrl), Body, now)
     IN \E o \in IF verdict = "accepted" THEN Outcomes ELSE {<<401, verdict>>} :
          reply' = [reply EXCEPT ![a] = [status |-> o[1], reason |-> o[2], at |-> now]]
  /\ UNCHANGED <<now, settings, browser, path, event, status, stored, askedAt, saved, bounds>>

(* The request or its answer is lost. *)
PostFails(a) ==
  /\ pc[a] \in {"post", "reply"} /\ Fault
  /\ Throw(a, "fetch")
  /\ UNCHANGED <<now, settings, browser, path, event, reply, stored, askedAt, saved, saves, reloads>>

(* The page tells what came of it; the body of a 500 is no JSON. *)
Reply(a) ==
  /\ pc[a] = "reply"
  /\ CASE reply[a].status = 200 -> Goto(a, "info") /\ Say("opening")
       [] reply[a].status = 500 -> Throw(a, "not JSON")
       [] reply[a].status = 503 -> Goto(a, "done") /\ Say("unreachable")
       [] OTHER -> Goto(a, "done") /\ Say("refused")
  /\ UNCHANGED <<now, settings, browser, path, event, reply, stored, askedAt, saved, bounds>>

(* webRoot is the href of the URL, a string; .href of it is undefined. *)
WebRoot == "string"

(* handOffToWebClient reads System/Info/Public, takes webRoot.href apart and *)
(* stores the credentials.                                                  *)
HandOff(a) ==
  /\ pc[a] = "info"
  /\ IF WebRoot = "URL" THEN Goto(a, "done") /\ stored' = TRUE /\ UNCHANGED status
     ELSE Throw(a, "TypeError") /\ UNCHANGED stored
  /\ UNCHANGED <<now, settings, browser, path, event, reply, askedAt, saved, bounds>>

InfoFails(a) ==
  /\ pc[a] = "info" /\ Fault
  /\ Throw(a, "fetch")
  /\ UNCHANGED <<now, settings, browser, path, event, reply, stored, askedAt, saved, saves, reloads>>

Act(a) ==
  \/ Press(a) \/ Connect(a) \/ Hash(a) \/ Build(a) \/ Sign(a) \/ Post(a) \/ PostFails(a)
  \/ Reply(a) \/ HandOff(a) \/ InfoFails(a)

-----------------------------------------------------------------------------
(* The world *)

Advance ==
  /\ \E t \in Instants : t > now /\ now' = t
  /\ UNCHANGED <<settings, browser, attempt, saved, bounds>>

Save ==
  /\ saves < MaxSaves /\ saves' = saves + 1
  /\ settings' \in Settings \ {settings}
  /\ saved' = (probe = "answered")
  /\ UNCHANGED <<now, browser, attempt, faults, reloads>>

Next ==
  \/ ProbeAnswers \/ ProbeFails \/ Reload \/ Advance \/ Save
  \/ \E a \in Attempts : Act(a)

Spec == Init /\ [][Next]_vars

(* Fetches answer or fail, and the page's own code runs.  Nobody need press  *)
(* a button, and a signer need not connect, tell the key or sign: the page  *)
(* awaits it without a time limit.                                          *)
Fairness ==
  /\ WF_vars(ProbeAnswers)
  /\ \A a \in Attempts : WF_vars(Hash(a) \/ Build(a) \/ Post(a) \/ Reply(a) \/ HandOff(a))

FairSpec == Spec /\ Fairness

-----------------------------------------------------------------------------
UnderWay == {"connect", "hash", "endpoint", "key", "sign", "post", "reply", "info"}

(* Where the page waits for a signer, without a time limit of its own. *)
AtSigner == {"connect", "key", "sign"}

TypeOK ==
  /\ now \in Instants /\ settings \in Settings /\ skew \in Skews /\ secure \in BOOLEAN
  /\ probe \in {"asked", "answered", "failed"} /\ endpoint \in Urls \cup {NoUrl}
  /\ (endpoint = NoUrl) = (probe = "asked")
  /\ pc \in [Attempts -> {"idle", "done"} \cup UnderWay] /\ path \in [Attempts -> Paths]
  /\ \A a \in Attempts : pc[a] \in {"key", "sign", "post"} => Signed(a) \in AuthEvent
  /\ \A a \in Attempts : reply[a].status \in {0, 200, 401, 500, 503}
  /\ status \in {"empty", "busy", "connecting", "no signer", "opening", "unreachable", "refused",
                 "sign-in failed", "bunker failed", "relay dropped", "no response"}
  /\ stored \in BOOLEAN /\ saved \in BOOLEAN /\ askedAt \in [Attempts -> Instants \cup {0}]
  /\ faults \in 0 .. MaxFaults /\ saves \in 0 .. MaxSaves /\ reloads \in 0 .. MaxReloads

Abs(n) == IF n < 0 THEN -n ELSE n

(* The reasons the server gives have the causes the page names              *)
(* (loginPage.html:131-140).  A URL mismatch comes from a probe that failed *)
(* while the views differ, or from settings saved since the probe, so       *)
(* reloading helps; an expired event from a clock that is off or a signer   *)
(* that took its time; a slow probe alone is no cause.  The page never      *)
(* makes an event that is invalid or names another method.  The controller  *)
(* says "the two views always agree" (NostrAuthController.cs:156-158).      *)
RefusalsHaveACause ==
  \A a \in Attempts :
    LET reason == reply[a].reason
    IN /\ reason = "url_mismatch" => saved \/ (probe = "failed" /\ event[a].url = PageUrl)
       /\ reason = "expired_event" => reply[a].at - askedAt[a] + Abs(skew) > 60
       /\ reason \notin {"invalid_event", "method_mismatch"}

(* The page never says that it waits while no attempt is under way: every    *)
(* way an attempt can end, exceptions of any await included, says what came *)
(* of it, also when attempts overlap (loginPage.html:142-164, 241-280).     *)
WaitingMeansUnderWay ==
  status \in {"busy", "connecting", "opening"} => \E a \in Attempts : pc[a] \in UnderWay

(* Only a silent signer holds an attempt up: from its own steps the page     *)
(* goes on to ask the signer or the attempt ends, whatever becomes of the   *)
(* probe it waits for.  Nothing leads back, so an attempt that has its      *)
(* signature ends (loginPage.html:76-79, 112-127, 142-164).                 *)
AttemptsEnd ==
  \A a \in Attempts :
    pc[a] \in UnderWay \ AtSigner ~> pc[a] \in AtSigner \cup {"idle", "done"}

-----------------------------------------------------------------------------
(* A statement of the documentation that the code does not keep *)

(* docs/design.md:192-197, website/docs/signing-in.md:30-34: on success the  *)
(* page writes the credentials jellyfin-web signs in with.                  *)
SessionsAreHandedOff ==
  \A a \in Attempts : reply[a].status = 200 ~> stored
=============================================================================
