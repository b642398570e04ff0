------------------------------ MODULE Dashboard ------------------------------
(***************************************************************************)
(* What the dashboard says about the cached list:                          *)
(* NostrStatusProvider.GetStatus and the notice configPage.html makes of   *)
(* it, over the cache, the settings and the clock that logins use.         *)
(***************************************************************************)
EXTENDS LoginService

CONSTANT OffCurve  \* listed entries that are no point of the curve

(* GetStatus throws on an entry that has no npub, and the page then shows    *)
(* that it failed to read the status.                                       *)
StatusThrows(list) == list # NoSnapshot /\ list.pubkeys \cap OffCurve # {}

(* Mutant: age in whole hours *)
StaleRounded(s, list, t) ==
  list # NoSnapshot /\ (t - list.createdAt) \div 3600 > s.maxHours

(* The max-age as configured, where logins take one that is not positive    *)
(* for 24 hours.                                                           *)
Stale(s, list, t) ==
  list # NoSnapshot /\ t - list.createdAt > s.maxHours * 3600

(* The page writes one notice; the stale one replaces the public one. *)
Notice(s, list, t) ==
  CASE StatusThrows(list) -> "failed"
    [] ~StatusThrows(list) /\ ~s.configured -> "not configured"
    [] ~StatusThrows(list) /\ s.configured /\ list = NoSnapshot -> "nothing fetched"
    [] OTHER -> IF Stale(s, list, t) THEN "stale"
                ELSE IF list.public THEN "public" ELSE "fresh"

-----------------------------------------------------------------------------
Decision(u) == Check(snapshot, MaxListAgeSeconds(settings), u, now)

(* The dashboard never promises more or less than a login gets at that      *)
(* moment.  "Cached list is fresh": every listed user is admitted.  "past   *)
(* its max age; new logins are refused": nobody is, for a max-age the page  *)
(* can save (its input has a minimum of 1).  "No allowlist event has been   *)
(* fetched": nobody is.  NostrStatusProvider.cs:44-47 claims one policy for *)
(* both, but each computes its own (NostrStatusProvider.cs:79-80,           *)
(* ServiceRegistrator.cs:48-52, configPage.html:107-121).                   *)
NoticeIsTrue ==
  LET notice == Notice(settings, snapshot, now)
  IN /\ notice \in {"fresh", "public"} =>
          \A u \in snapshot.pubkeys : Decision(u) = "allowed"
     /\ notice = "stale" /\ settings.maxHours > 0 =>
          \A u \in Users : Decision(u) = "allowlist_stale"
     /\ notice = "nothing fetched" =>
          \A u \in Users : Decision(u) = "allowlist_unavailable"
=============================================================================
