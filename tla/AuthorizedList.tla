--------------------------- MODULE AuthorizedList ---------------------------
(***************************************************************************)
(* What the allowlist sync promises the login pipeline                     *)
(* (NostrAllowlistSyncService.cs:11-18, Allowlist.cs:53-59), without       *)
(* relays, polls or merging: an authenticated list, at most forgotten.     *)
(***************************************************************************)
EXTENDS AllowlistMerge

CONSTANTS Events,    \* events that may be signed
          AllConfigs \* configurations that may be in effect

VARIABLES signed,      \* events signed so far
          configured,  \* configurations in effect so far
          list,        \* the list logins are checked against
          runs         \* how often the server has been started again

vars == <<signed, configured, list, runs>>

NoList == [pubkeys |-> {}, public |-> FALSE, createdAt |-> NoTime]

(* The list that configuration c reads from event e. *)
ListOf(c, e) ==
  [pubkeys |-> Read(c.nsec, e).pubkeys, public |-> Read(c.nsec, e).public,
   createdAt |-> e.createdAt]

Init ==
  /\ signed = {} /\ list = NoList /\ runs = 0
  /\ \E c \in AllConfigs : configured = {c}

Sign ==
  /\ \E e \in Events : signed' = signed \cup {e}
  /\ UNCHANGED <<configured, list, runs>>

Configure ==
  /\ \E c \in AllConfigs : configured' = configured \cup {c}
  /\ UNCHANGED <<signed, list, runs>>

Adopt ==
  /\ \E c \in configured, e \in signed :
       e.author = c.npub /\ MatchesListShape(e) /\ list' = ListOf(c, e)
  /\ UNCHANGED <<signed, configured, runs>>

(* The list is held in memory only. *)
Forget == list' = NoList /\ runs' = runs + 1 /\ UNCHANGED <<signed, configured>>

Next == Sign \/ Configure \/ Adopt \/ Forget

Spec == Init /\ [][Next]_vars
=============================================================================
