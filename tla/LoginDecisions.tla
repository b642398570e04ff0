---------------------------- MODULE LoginDecisions ----------------------------
(***************************************************************************)
(* What the server decides about one login, as functions of what it has    *)
(* read: Nip98Verifier.Verify, NostrAuthController.CanonicalLoginUrl and   *)
(* AllowlistEvaluator.Check.                                               *)
(***************************************************************************)
EXTENDS Integers

CONSTANTS
  Users,        \* Nostr public keys
  Urls, NoUrl,  \* login URLs; no Published server URL
  Bodies, NoBody,  \* request bodies; no body
  NoTag, Empty, \* payload tag: absent, the empty string
  NoSnapshot    \* nothing cached

(* A NIP-98 event as the header carries it; parses is FALSE for a missing   *)
(* prefix, bad base64 or JSON and missing fields, sigOk for a signature     *)
(* that Verify refuses or throws on; payload names the body it hashes.     *)
AuthEvent ==
  [parses: BOOLEAN, kind: Nat, createdAt: Int, url: Urls, method: {"GET", "POST"},
   payload: Bodies \cup {NoTag, Empty}, sigOk: BOOLEAN, pubkey: Users]

(* public is PublicListWarning. *)
SnapshotType == [pubkeys: SUBSET Users, createdAt: Int, public: BOOLEAN]

(* configured stands for the list's npub, nsec and relays being set. *)
SettingsType ==
  [maxHours: Int, failClosed: BOOLEAN, published: Urls \cup {NoUrl}, configured: BOOLEAN]

ASSUME DecisionsAssumption ==
  /\ NoUrl \notin Urls /\ NoBody \notin Bodies
  /\ NoTag \notin Bodies /\ Empty \notin Bodies /\ NoTag # Empty
  /\ NoSnapshot \notin SnapshotType

FreshnessWindowSeconds == 60
LoginKind == 27235

Distance(a, b) == IF a >= b THEN a - b ELSE b - a

(* Mutant: only the past is bounded *)
FreshOneSided(t, e) == t - e.createdAt <= FreshnessWindowSeconds

Fresh(t, e) == Distance(t, e.createdAt) <= FreshnessWindowSeconds

(* The payload tag is optional; without a body its hash counts as "". *)
PayloadFits(e, b) ==
  e.payload # NoTag => e.payload = (IF b = NoBody THEN Empty ELSE b)

(* Nip98Verifier.Verify: the reason to reject e, or "accepted". *)
Verify(e, expectedUrl, b, t) ==
  IF ~e.parses \/ e.kind # LoginKind THEN "invalid_event"
  ELSE IF ~Fresh(t, e) THEN "expired_event"
  ELSE IF e.url # expectedUrl THEN "url_mismatch"
  ELSE IF e.method # "POST" THEN "method_mismatch"
  ELSE IF ~PayloadFits(e, b) \/ ~e.sigOk THEN "invalid_event"
  ELSE "accepted"

(* Mutant: no fallback to the request's own URL *)
CanonicalLoginUrlPublishedOnly(s, arrivedAt) == s.published

(* arrivedAt is the absolute login URL as the server sees the request. *)
CanonicalLoginUrl(s, arrivedAt) == IF s.published = NoUrl THEN arrivedAt ELSE s.published

MaxListAgeSeconds(s) == (IF s.maxHours > 0 THEN s.maxHours ELSE 24) * 3600

(* Mutant: stale lists still count *)
CheckIgnoringAge(s, age, u, t) ==
  IF s = NoSnapshot THEN "allowlist_unavailable"
  ELSE IF u \in s.pubkeys THEN "allowed" ELSE "not_in_allowlist"

(* AllowlistEvaluator.Check *)
Check(s, age, u, t) ==
  IF s = NoSnapshot THEN "allowlist_unavailable"
  ELSE IF t - s.createdAt > age THEN "allowlist_stale"
  ELSE IF u \in s.pubkeys THEN "allowed" ELSE "not_in_allowlist"
=============================================================================
