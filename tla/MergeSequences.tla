--------------------------- MODULE MergeSequences ---------------------------
(***************************************************************************)
(* The candidates of a poll arrive one at a time, in any order and from    *)
(* several relays; these are the promises that merging them keeps whatever *)
(* the order.  Only the candidate list changes: AllowlistMerge has the     *)
(* operators.                                                              *)
(***************************************************************************)
EXTENDS AllowlistMerge, SequencesExt

CONSTANTS Candidates,    \* the events that may arrive
          MaxCandidates  \* bound on their number

ASSUME CandidatesAssumption == Candidates \subseteq EventType

VARIABLES npub, nsec,    \* the configured list identity and secret
          candidates     \* PollOnceAsync's list

vars == <<npub, nsec, candidates>>

Init == npub \in Keys /\ nsec \in Keys /\ candidates = <<>>

(* candidates.AddRange *)
Receive(e) ==
  /\ Len(candidates) < MaxCandidates
  /\ candidates' = Append(candidates, e)
  /\ UNCHANGED <<npub, nsec>>

Next == \E e \in Candidates : Receive(e)

Spec == Init /\ [][Next]_vars

-----------------------------------------------------------------------------
(* The merge throws as soon as one candidate at the owner's address does;   *)
(* it has a result otherwise.                                               *)
Returns == ~MergeThrows(npub, candidates)

Result == Merge(npub, nsec, candidates)

Authentic == {i \in DOMAIN candidates : IsAuthoritative(npub, candidates[i])}

(* Candidates no authoritative one is newer than. *)
Newest ==
  {candidates[i] : i \in {k \in Authentic :
     \A j \in Authentic : candidates[j].createdAt <= candidates[k].createdAt}}

TypeOK ==
  /\ npub \in Keys /\ nsec \in Keys /\ candidates \in Seq(Candidates)
  /\ Result \in [pubkeys: SUBSET Users, public: BOOLEAN, createdAt: Nat \cup {NoTime}]

(* A user whom the newest list does not name is not authorized, whatever    *)
(* older lists say and wherever they arrive (Allowlist.cs:77-80): removing  *)
(* an npub and publishing again revokes it.                                *)
RevocationSticks ==
  Returns => \A u \in Result.pubkeys :
               \E e \in Newest : u \in Sanitize(e.entries \cup e.pTags)

(* f lists the set S of positions in increasing order. *)
Enumerates(f, S) ==
  /\ \A i \in S : \E a \in DOMAIN f : f[a] = i
  /\ \A a, b \in DOMAIN f : a < b => f[a] < f[b]

(* Events that are not the owner's lists (another author, another kind, a   *)
(* forged signature) leave the merge exactly as if they had not been       *)
(* received (Allowlist.cs:99-102), ties included: the other candidates, in *)
(* the order in which they came, throw or not alike, and have the same     *)
(* result.  An event in the owner's name whose signature cannot even be    *)
(* parsed is not inert: it is kept on both sides, and makes both throw.    *)
ForgeriesAreInert ==
  LET own == {i \in DOMAIN candidates :
                /\ candidates[i].author = npub /\ candidates[i].sig # "forged"
                /\ MatchesListShape(candidates[i])}
  IN  \A f \in [1 .. Cardinality(own) -> own] : Enumerates(f, own) =>
        LET kept == [a \in DOMAIN f |-> candidates[f[a]]]
        IN  /\ Returns <=> ~MergeThrows(npub, kept)
            /\ Returns => Result = Merge(npub, nsec, kept)

(* The order in which relays answer shows only when the two newest lists    *)
(* carry the same created_at: exchanging any two neighbours changes nothing *)
(* otherwise.                                                              *)
OrderMattersOnlyOnTies ==
  Returns /\ Cardinality(Newest) <= 1 =>
    \A i \in 1 .. Len(candidates) - 1 :
      Result = Merge(npub, nsec,
                 [candidates EXCEPT ![i] = candidates[i + 1],
                                    ![i + 1] = candidates[i]])

(* Users that come without the warning come from content that the owner     *)
(* encrypted to the configured key, and from nothing else: p-tags are never *)
(* mixed into them, nor the content of an older list the secret does open   *)
(* when it does not open the newest (Allowlist.cs:77-88, 121-167).          *)
UnflaggedMeansPrivate ==
  Returns /\ ~Result.public /\ Result.pubkeys # {} =>
    \E e \in Newest : /\ e.author = npub /\ e.sealedTo = nsec /\ e.form # "none"
                      /\ Result.pubkeys = Sanitize(e.entries)

(* An event that arrives later takes over only if it is the owner's and     *)
(* strictly newer than the list chosen so far: a relay that replays the     *)
(* same or an older list at the end cannot change the outcome.              *)
TakesOverOnlyIfNewer ==
  [][ Returns' /\ Result' # Result =>
        /\ IsAuthoritative(npub, Last(candidates'))
        /\ \/ Last(candidates').createdAt > Result.createdAt
           \/ Authentic = {} ]_vars
=============================================================================
