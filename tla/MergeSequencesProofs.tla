----------------------- MODULE MergeSequencesProofs -----------------------
(***************************************************************************)
(* The promises of MergeSequences, for every set of candidate events and   *)
(* every number of them.                                                   *)
(*                                                                         *)
(* Merge names its winner with CHOOSE, so everything rests on two facts:   *)
(* there is a winner as soon as one candidate is authoritative, and there  *)
(* is only one.  The second is a fact about Beats.  The first would need   *)
(* an induction over sequences; it is kept as an invariant of the state    *)
(* instead (HasWinner), which the arrival of one more candidate preserves. *)
(***************************************************************************)
EXTENDS MergeSequences, FiniteSetTheorems, TLAPS

(* Some candidate wins as soon as the owner published one of them. *)
HasWinner == Authentic # {} => \E w \in DOMAIN candidates : IsWinner(npub, candidates, w)

Base == npub \in Keys /\ nsec \in Keys /\ candidates \in Seq(Candidates)

Inv == Base /\ HasWinner

Times == Nat \cup {NoTime}

(* A finite list of events with times. *)
IsTimed(cs) == \E n \in Nat : DOMAIN cs = 1 .. n /\ \A i \in 1 .. n : cs[i].createdAt \in Int

-----------------------------------------------------------------------------
(* Facts about the operators of AllowlistMerge *)

LEMMA CandidatesTimed ==
  ASSUME NEW cs \in Seq(Candidates)
  PROVE  /\ IsTimed(cs) /\ DOMAIN cs = 1 .. Len(cs) /\ Len(cs) \in Nat
         /\ \A i \in DOMAIN cs : cs[i] \in EventType /\ cs[i] \in Candidates
BY CandidatesAssumption DEF IsTimed, EventType, NoTime

(* Two winners are one: Beats is a strict total order of the positions. *)
LEMMA WinnerUnique ==
  ASSUME NEW owner, NEW cs, IsTimed(cs),
         NEW i \in DOMAIN cs, IsWinner(owner, cs, i),
         NEW j \in DOMAIN cs, IsWinner(owner, cs, j)
  PROVE  i = j
BY DEF IsTimed, IsWinner, Beats

(* The merge is read from the winner, whichever way it was found. *)
LEMMA MergeOfWinner ==
  ASSUME NEW owner, NEW secret, NEW cs, IsTimed(cs),
         NEW w \in DOMAIN cs, IsWinner(owner, cs, w)
  PROVE  Merge(owner, secret, cs) =
           [pubkeys |-> Read(secret, cs[w]).pubkeys,
            public |-> Read(secret, cs[w]).public, createdAt |-> cs[w].createdAt]
<1> DEFINE c == CHOOSE i \in DOMAIN cs : IsWinner(owner, cs, i)
<1>1. c \in DOMAIN cs /\ IsWinner(owner, cs, c)
  OBVIOUS
<1>2. c = w
  BY <1>1, WinnerUnique
<1>3. Winner(owner, cs) = cs[w]
  BY <1>2 DEF Winner
<1>4. Winners(owner, cs) # {}
  BY DEF Winners
<1> QED
  BY <1>3, <1>4 DEF Merge

LEMMA MergeOfNone ==
  ASSUME NEW owner, NEW secret, NEW cs,
         \A i \in DOMAIN cs : ~IsAuthoritative(owner, cs[i])
  PROVE  Merge(owner, secret, cs) = [pubkeys |-> {}, public |-> FALSE, createdAt |-> NoTime]
BY DEF Merge, Winners, IsWinner

LEMMA SanitizeType ==
  ASSUME NEW es
  PROVE  Sanitize(es) \subseteq Users
BY LowerAssumption DEF Sanitize

(* No authoritative candidate is newer than the winner. *)
LEMMA WinnerIsNewest ==
  ASSUME NEW w \in DOMAIN candidates, Base, IsWinner(npub, candidates, w)
  PROVE  w \in Authentic /\ candidates[w] \in Newest
<1>1. IsTimed(candidates)
  BY CandidatesTimed DEF Base
<1>2. w \in Authentic
  BY DEF Authentic, IsWinner
<1>3. ASSUME NEW j \in Authentic
      PROVE  candidates[j].createdAt <= candidates[w].createdAt
  BY <1>1, <1>3 DEF Authentic, IsWinner, Beats, IsTimed
<1> QED
  BY <1>2, <1>3 DEF Newest

(* What the merge of a reachable state returns: nothing, or the reading of *)
(* the winner.                                                             *)
LEMMA ResultCases ==
  ASSUME Inv
  PROVE  \/ Authentic = {} /\ Result = [pubkeys |-> {}, public |-> FALSE, createdAt |-> NoTime]
         \/ \E w \in DOMAIN candidates :
              /\ IsWinner(npub, candidates, w)
              /\ w \in Authentic /\ candidates[w] \in Newest
              /\ Result = [pubkeys |-> Read(nsec, candidates[w]).pubkeys,
                           public |-> Read(nsec, candidates[w]).public,
                           createdAt |-> candidates[w].createdAt]
<1>1. CASE Authentic = {}
  BY <1>1, MergeOfNone DEF Authentic, Result
<1>2. CASE Authentic # {}
  <2>1. PICK w \in DOMAIN candidates : IsWinner(npub, candidates, w)
    BY <1>2 DEF Inv, HasWinner
  <2> QED
    BY <2>1, MergeOfWinner, WinnerIsNewest, CandidatesTimed DEF Inv, Base, Result
<1> QED
  BY <1>1, <1>2

-----------------------------------------------------------------------------
(* The inductive invariant *)

LEMMA Received ==
  ASSUME Base, NEW e \in Candidates, Receive(e)
  PROVE  /\ Base' /\ npub' = npub /\ nsec' = nsec
         /\ DOMAIN candidates' = 1 .. Len(candidates) + 1
         /\ candidates'[Len(candidates) + 1] = e
         /\ \A i \in 1 .. Len(candidates) : candidates'[i] = candidates[i]
BY DEF Base, Receive

LEMMA InitInv == Init => Inv
BY DEF Init, Inv, Base, HasWinner, Authentic

LEMMA ReceiveKeepsWinner ==
  ASSUME Inv, NEW e \in Candidates, Receive(e)
  PROVE  HasWinner'
<1> DEFINE n == Len(candidates)
<1>1. /\ npub' = npub /\ DOMAIN candidates' = 1 .. n + 1 /\ candidates'[n + 1] = e
      /\ \A i \in 1 .. n : candidates'[i] = candidates[i]
  BY Received DEF Inv
<1>2. /\ DOMAIN candidates = 1 .. n /\ n \in Nat
      /\ \A i \in 1 .. n : candidates[i].createdAt \in Int
      /\ e.createdAt \in Int
  BY CandidatesTimed, CandidatesAssumption DEF Inv, Base, EventType, NoTime
<1> HIDE DEF n
<1>3. CASE Authentic = {}
  <2>1. \A i \in 1 .. n : ~IsAuthoritative(npub, candidates[i])
    BY <1>2, <1>3 DEF Authentic
  <2>2. CASE IsAuthoritative(npub, e)
    <3>1. IsWinner(npub', candidates', n + 1)
      BY <2>1, <2>2, <1>1, <1>2 DEF IsWinner, Beats
    <3> QED
      BY <3>1, <1>1, <1>2 DEF HasWinner
  <2>3. CASE ~IsAuthoritative(npub, e)
    BY <2>1, <2>3, <1>1, <1>2 DEF HasWinner, Authentic
  <2> QED
    BY <2>2, <2>3
<1>4. CASE Authentic # {}
  <2>1. PICK w \in 1 .. n : IsWinner(npub, candidates, w)
    BY <1>4, <1>2 DEF Inv, HasWinner
  <2>2. CASE IsAuthoritative(npub, e) /\ e.createdAt > candidates[w].createdAt
    <3>1. IsWinner(npub', candidates', n + 1)
      BY <2>1, <2>2, <1>1, <1>2 DEF IsWinner, Beats
    <3> QED
      BY <3>1, <1>1, <1>2 DEF HasWinner
  <2>3. CASE ~(IsAuthoritative(npub, e) /\ e.createdAt > candidates[w].createdAt)
    <3>1. IsWinner(npub', candidates', w)
      BY <2>1, <2>3, <1>1, <1>2 DEF IsWinner, Beats
    <3> QED
      BY <3>1, <1>1, <1>2 DEF HasWinner
  <2> QED
    BY <2>2, <2>3
<1> QED
  BY <1>3, <1>4

LEMMA NextInv == Inv /\ [Next]_vars => Inv'
<1> SUFFICES ASSUME Inv, [Next]_vars
             PROVE  Inv'
  OBVIOUS
<1>1. ASSUME NEW e \in Candidates, Receive(e)
      PROVE  Inv'
  BY <1>1, Received, ReceiveKeepsWinner DEF Inv
<1>2. CASE UNCHANGED vars
  BY <1>2 DEF vars, Inv, Base, HasWinner, Authentic, IsWinner, Beats
<1> QED
  BY <1>1, <1>2 DEF Next

LEMMA SpecInv == Spec => []Inv
BY InitInv, NextInv, PTL DEF Spec

-----------------------------------------------------------------------------
(* The promises *)

(* Every configuration and candidate list has its type, and a merge returns *)
(* user keys, a warning flag and a time (Allowlist.cs:60-97).               *)
THEOREM TypeCorrect == Spec => []TypeOK
<1>1. Inv => TypeOK
  <2> SUFFICES ASSUME Inv
               PROVE  Result \in [pubkeys: SUBSET Users, public: BOOLEAN, createdAt: Nat \cup {NoTime}]
    BY DEF Inv, Base, TypeOK
  <2>1. ASSUME NEW e \in EventType
        PROVE  Read(nsec, e).pubkeys \subseteq Users /\ Read(nsec, e).public \in BOOLEAN
    BY SanitizeType DEF Read
  <2>2. \A w \in DOMAIN candidates : candidates[w] \in EventType
    BY CandidatesTimed DEF Inv, Base
  <2>3. CASE Authentic = {} /\ Result = [pubkeys |-> {}, public |-> FALSE, createdAt |-> NoTime]
    BY <2>3
  <2>4. ASSUME NEW w \in DOMAIN candidates,
               Result = [pubkeys |-> Read(nsec, candidates[w]).pubkeys,
                         public |-> Read(nsec, candidates[w]).public,
                         createdAt |-> candidates[w].createdAt]
        PROVE  Result \in [pubkeys: SUBSET Users, public: BOOLEAN, createdAt: Nat \cup {NoTime}]
    <3>1. candidates[w].createdAt \in Nat \cup {NoTime}
      BY <2>2 DEF EventType
    <3>2. Read(nsec, candidates[w]).pubkeys \subseteq Users /\ Read(nsec, candidates[w]).public \in BOOLEAN
      BY <2>1, <2>2
    <3> QED
      BY <3>1, <3>2, <2>4
  <2> QED
    BY ResultCases, <2>3, <2>4
<1> QED
  BY <1>1, SpecInv, PTL

(* A user the newest list does not name is not authorized, however many     *)
(* older lists name it and wherever they arrive (Allowlist.cs:77-80).       *)
THEOREM RevocationAlwaysSticks == Spec => []RevocationSticks
<1>1. Inv => RevocationSticks
  <2> SUFFICES ASSUME Inv, Returns, NEW u \in Result.pubkeys
               PROVE  \E e \in Newest : u \in Sanitize(e.entries \cup e.pTags)
    BY DEF RevocationSticks
  <2>1. PICK w \in DOMAIN candidates :
          candidates[w] \in Newest /\ Result.pubkeys = Read(nsec, candidates[w]).pubkeys
    BY ResultCases
  <2>2. u \in Sanitize(candidates[w].entries \cup candidates[w].pTags)
    BY <2>1 DEF Read, Sanitize
  <2> QED
    BY <2>1, <2>2
<1> QED
  BY <1>1, SpecInv, PTL

(* Users without the warning are the entries of the newest list's content, *)
(* which the owner encrypted to the configured key: neither p-tags nor an   *)
(* older list take its place (Allowlist.cs:77-88, 121-167).                 *)
THEOREM UnflaggedAlwaysPrivate == Spec => []UnflaggedMeansPrivate
<1>1. Inv => UnflaggedMeansPrivate
  <2> SUFFICES ASSUME Inv, ~Result.public, Result.pubkeys # {}
               PROVE  \E e \in Newest :
                        /\ e.author = npub /\ e.sealedTo = nsec /\ e.form # "none"
                        /\ Result.pubkeys = Sanitize(e.entries)
    BY DEF UnflaggedMeansPrivate
  <2>1. PICK w \in DOMAIN candidates :
          /\ w \in Authentic /\ candidates[w] \in Newest
          /\ Result.pubkeys = Read(nsec, candidates[w]).pubkeys
          /\ Result.public = Read(nsec, candidates[w]).public
    BY ResultCases
  <2>2. ReadsPrivate(nsec, candidates[w])
    BY <2>1 DEF Read
  <2>3. /\ candidates[w].sealedTo = nsec /\ candidates[w].form # "none"
        /\ Result.pubkeys = Sanitize(candidates[w].entries)
    BY <2>1, <2>2 DEF Read, ReadsPrivate
  <2>4. candidates[w].author = npub
    BY <2>1 DEF Authentic, IsAuthoritative, IsCandidateOf
  <2> QED
    BY <2>1, <2>3, <2>4
<1> QED
  BY <1>1, SpecInv, PTL

(* Leaving out what others sent and what the owner did not sign changes     *)
(* neither whether the merge throws nor its result, whatever the times of   *)
(* the forgeries (Allowlist.cs:99-102).                                     *)
THEOREM ForgeriesStayInert == Spec => []ForgeriesAreInert
<1>1. Inv => ForgeriesAreInert
  <2> DEFINE own == {i \in DOMAIN candidates :
                       /\ candidates[i].author = npub /\ candidates[i].sig # "forged"
                       /\ MatchesListShape(candidates[i])}
             n == Cardinality(own)
  <2> SUFFICES ASSUME Inv, NEW f \in [1 .. n -> own], Enumerates(f, own)
               PROVE  LET kept == [a \in DOMAIN f |-> candidates[f[a]]]
                      IN  /\ Returns <=> ~MergeThrows(npub, kept)
                          /\ Returns => Result = Merge(npub, nsec, kept)
    BY DEF ForgeriesAreInert
  <2> DEFINE kept == [a \in DOMAIN f |-> candidates[f[a]]]
  (* Every candidate that throws is kept, and nothing else throws. *)
  <2>0. Returns <=> ~MergeThrows(npub, kept)
    <3>1. ASSUME NEW i \in DOMAIN candidates, Breaks(npub, candidates[i])
          PROVE  \E a \in DOMAIN f : f[a] = i
      BY <3>1 DEF Enumerates, Breaks, IsCandidateOf
    <3>2. \A a \in DOMAIN f : f[a] \in DOMAIN candidates
      OBVIOUS
    <3> QED
      BY <3>1, <3>2 DEF Returns, MergeThrows
  <2> SUFFICES ASSUME Returns
               PROVE  Result = Merge(npub, nsec, kept)
    BY <2>0
  <2>1. own = Authentic
    <3>1. ASSUME NEW i \in DOMAIN candidates, IsCandidateOf(npub, candidates[i])
          PROVE  candidates[i].sig \in {"valid", "forged"}
      <4>1. candidates[i].sig \in Signatures
        BY CandidatesTimed DEF Inv, Base, EventType
      <4> QED
        BY <3>1, <4>1 DEF Returns, MergeThrows, Breaks, Signatures
    <3> QED
      BY <3>1 DEF Authentic, IsAuthoritative, IsCandidateOf
  <2>2. n \in Nat
    <3>1. Len(candidates) \in Int /\ own \subseteq 1 .. Len(candidates)
      BY CandidatesTimed DEF Inv, Base
    <3> HIDE DEF own
    <3>2. IsFiniteSet(1 .. Len(candidates))
      BY <3>1, FS_Interval
    <3>3. IsFiniteSet(own)
      BY <3>1, <3>2, FS_Subset
    <3> QED
      BY <3>3, FS_CardinalityType
  <2>3. IsTimed(candidates)
    BY CandidatesTimed DEF Inv, Base
  <2> HIDE DEF own, n
  <2>4. DOMAIN kept = 1 .. n /\ \A a \in 1 .. n : kept[a] = candidates[f[a]] /\ f[a] \in Authentic
    BY <2>1
  <2>5. IsTimed(kept)
    BY <2>2, <2>3, <2>4 DEF IsTimed, Authentic
  <2> HIDE DEF kept
  <2>6. CASE Authentic = {}
    <3>1. Merge(npub, nsec, kept) = [pubkeys |-> {}, public |-> FALSE, createdAt |-> NoTime]
      BY <2>4, <2>6, MergeOfNone
    <3> QED
      BY <3>1, <2>6, MergeOfNone DEF kept, Result, Authentic
  <2>7. CASE Authentic # {}
    <3>1. PICK w \in DOMAIN candidates :
            IsWinner(npub, candidates, w) /\ w \in Authentic
      BY <2>7, WinnerIsNewest DEF Inv, HasWinner
    <3>2. PICK a \in 1 .. n : f[a] = w
      BY <3>1, <2>1 DEF Enumerates
    <3>3. IsWinner(npub, kept, a)
      <4>1. IsAuthoritative(npub, kept[a])
        BY <3>1, <3>2, <2>4 DEF IsWinner
      <4>2. ASSUME NEW b \in 1 .. n, Beats(kept, b, a)
            PROVE  FALSE
        <5>1. ~Beats(candidates, f[b], w)
          BY <3>1, <2>4 DEF IsWinner, Authentic
        <5>2. b < a => f[b] < f[a]
          BY DEF Enumerates
        <5> QED
          BY <5>1, <5>2, <4>2, <3>2, <2>4, <2>2 DEF Beats
      <4> QED
        BY <4>1, <4>2, <2>4 DEF IsWinner
    <3>4. kept[a] = candidates[w] /\ a \in DOMAIN kept
      BY <2>4, <3>2
    <3>5. Merge(npub, nsec, kept) = Result
      BY <3>1, <3>3, <3>4, <2>3, <2>5, MergeOfWinner DEF Result
    <3> QED
      BY <3>5 DEF kept
  <2> QED
    BY <2>6, <2>7
<1> QED
  BY <1>1, SpecInv, PTL

(* Exchanging two neighbours of the candidate list shows only when the two  *)
(* newest lists carry the same created_at.                                  *)
THEOREM OrderMattersOnlyOnATie == Spec => []OrderMattersOnlyOnTies
<1>1. Inv => OrderMattersOnlyOnTies
  <2> SUFFICES ASSUME Inv, Returns, Cardinality(Newest) <= 1, NEW i \in 1 .. Len(candidates) - 1
               PROVE  Result = Merge(npub, nsec,
                        [candidates EXCEPT ![i] = candidates[i + 1], ![i + 1] = candidates[i]])
    BY DEF OrderMattersOnlyOnTies
  <2> DEFINE n == Len(candidates)
             swapped == [candidates EXCEPT ![i] = candidates[i + 1], ![i + 1] = candidates[i]]
  <2>1. /\ n \in Nat /\ DOMAIN candidates = 1 .. n /\ IsTimed(candidates)
        /\ \A k \in 1 .. n : candidates[k].createdAt \in Int
    BY CandidatesTimed DEF Inv, Base, EventType, NoTime
  <2> HIDE DEF n
  <2>2. /\ i \in 1 .. n /\ i + 1 \in 1 .. n /\ DOMAIN swapped = 1 .. n
        /\ swapped[i] = candidates[i + 1] /\ swapped[i + 1] = candidates[i]
        /\ \A k \in 1 .. n : k # i /\ k # i + 1 => swapped[k] = candidates[k]
    BY <2>1 DEF n
  <2>3. IsTimed(swapped)
    BY <2>1, <2>2 DEF IsTimed
  <2> HIDE DEF swapped
  <2>4. \A e1, e2 \in Newest : e1 = e2
    <3>1. IsFiniteSet(Newest)
      <4> DEFINE best == {k \in Authentic :
                            \A j \in Authentic : candidates[j].createdAt <= candidates[k].createdAt}
                 event == [k \in best |-> candidates[k]]
      <4>1. IsFiniteSet(best)
        <5>1. n \in Int /\ best \subseteq 1 .. n
          BY <2>1 DEF Authentic
        <5> HIDE DEF best
        <5>2. IsFiniteSet(1 .. n)
          BY <5>1, FS_Interval
        <5> QED
          BY <5>1, <5>2, FS_Subset
      <4>2. Newest = {candidates[k] : k \in best}
        BY DEF Newest
      <4> HIDE DEF best
      <4>3. event \in Surjection(best, Newest)
        BY <4>2 DEF Surjection
      <4> QED
        BY <4>1, <4>3, FS_Surjection
    <3>2. Cardinality(Newest) = 0 \/ Cardinality(Newest) = 1
      BY <3>1, FS_CardinalityType
    <3> QED
      BY <3>1, <3>2, FS_EmptySet, FS_Singleton
  <2>5. CASE Authentic = {}
    <3>1. \A k \in DOMAIN swapped : ~IsAuthoritative(npub, swapped[k])
      BY <2>1, <2>2, <2>5 DEF Authentic
    <3> QED
      BY <3>1, <2>5, MergeOfNone DEF swapped, Result, Authentic
  <2>6. CASE Authentic # {}
    <3>1. PICK w \in 1 .. n : IsWinner(npub, candidates, w)
      BY <2>1, <2>6 DEF Inv, HasWinner
    <3>2. w \in Authentic /\ candidates[w] \in Newest
      BY <3>1, <2>1, WinnerIsNewest DEF Inv
    (* Whoever ties with the winner is the winner. *)
    <3>3. ASSUME NEW k \in 1 .. n, IsAuthoritative(npub, candidates[k])
          PROVE  candidates[k].createdAt < candidates[w].createdAt \/ candidates[k] = candidates[w]
      <4>1. \A j \in Authentic : candidates[j].createdAt <= candidates[w].createdAt
        BY <3>1, <2>1 DEF IsWinner, Beats, Authentic
      <4>2. k \in Authentic
        BY <3>3, <2>1 DEF Authentic
      <4>3. CASE candidates[k].createdAt = candidates[w].createdAt
        BY <4>1, <4>2, <4>3, <2>4, <3>2 DEF Newest
      <4> QED
        BY <4>1, <4>2, <4>3, <2>1
    <3>4. \A k \in 1 .. n : IsAuthoritative(npub, candidates[k]) /\ k < w
                               => candidates[k].createdAt < candidates[w].createdAt
      BY <3>1, <2>1 DEF IsWinner, Beats
    <3> DEFINE Before(v) ==
                 \A k \in 1 .. n : k < v /\ IsAuthoritative(npub, swapped[k])
                                      => swapped[k].createdAt < candidates[w].createdAt
    <3>5. ASSUME NEW v \in 1 .. n, swapped[v] = candidates[w], Before(v)
          PROVE  Merge(npub, nsec, swapped) = Result
      <4>1. \A k \in 1 .. n : IsAuthoritative(npub, swapped[k])
                                 => swapped[k].createdAt <= candidates[w].createdAt
        BY <2>1, <2>2, <3>3, <3>1
      <4>2. IsWinner(npub, swapped, v)
        BY <3>1, <3>5, <4>1, <2>1, <2>2 DEF IsWinner, Beats
      <4> QED
        BY <3>1, <3>5, <4>2, <2>1, <2>2, <2>3, MergeOfWinner DEF Result
    <3> HIDE DEF Before
    <3>6. CASE w # i /\ w # i + 1
      <4>1. swapped[w] = candidates[w]
        BY <3>6, <2>2
      <4>2. ASSUME NEW k \in 1 .. n, k < w, IsAuthoritative(npub, swapped[k])
            PROVE  swapped[k].createdAt < candidates[w].createdAt
        <5>1. (i + 1 < w) \/ (w < i)
          BY <3>6, <2>1, <2>2
        <5>2. CASE k # i /\ k # i + 1
          BY <5>2, <4>2, <3>4, <2>2
        <5>3. CASE k = i
          BY <5>1, <5>3, <4>2, <3>4, <2>2
        <5>4. CASE k = i + 1
          BY <5>1, <5>4, <4>2, <3>4, <2>2
        <5> QED
          BY <5>2, <5>3, <5>4
      <4>3. Before(w)
        BY <4>2 DEF Before
      <4> QED
        BY <4>1, <4>3, <3>5 DEF swapped
    <3>7. CASE w = i + 1
      <4>1. ASSUME NEW k \in 1 .. n, k < i, IsAuthoritative(npub, swapped[k])
            PROVE  swapped[k].createdAt < candidates[w].createdAt
        <5>1. k # i /\ k # i + 1 /\ k < w
          BY <4>1, <3>7, <2>1, <2>2
        <5> QED
          BY <5>1, <4>1, <3>4, <2>2
      <4>2. Before(i)
        BY <4>1 DEF Before
      <4> QED
        BY <4>2, <3>5, <3>7, <2>2 DEF swapped
    <3>8. CASE w = i /\ IsAuthoritative(npub, candidates[i + 1])
               /\ candidates[i + 1].createdAt = candidates[w].createdAt
      <4>1. candidates[i + 1] = candidates[w]
        BY <3>8, <3>3, <2>1, <2>2
      <4>2. ASSUME NEW k \in 1 .. n, k < i, IsAuthoritative(npub, swapped[k])
            PROVE  swapped[k].createdAt < candidates[w].createdAt
        <5>1. k # i /\ k # i + 1 /\ k < w
          BY <4>2, <3>8, <2>1, <2>2
        <5> QED
          BY <5>1, <4>2, <3>4, <2>2
      <4>3. Before(i)
        BY <4>2 DEF Before
      <4> QED
        BY <4>1, <4>3, <3>5, <2>2 DEF swapped
    <3>9. CASE w = i /\ ~(IsAuthoritative(npub, candidates[i + 1])
                          /\ candidates[i + 1].createdAt = candidates[w].createdAt)
      <4>1. IsAuthoritative(npub, candidates[i + 1])
              => candidates[i + 1].createdAt < candidates[w].createdAt
        BY <3>9, <3>3, <2>1, <2>2
      <4>2. ASSUME NEW k \in 1 .. n, k < i + 1, IsAuthoritative(npub, swapped[k])
            PROVE  swapped[k].createdAt < candidates[w].createdAt
        <5>1. CASE k = i
          BY <5>1, <4>1, <4>2, <2>2
        <5>2. CASE k # i
          <6>1. k # i + 1 /\ k < w
            BY <5>2, <4>2, <3>9, <2>1, <2>2
          <6> QED
            BY <5>2, <6>1, <4>2, <3>4, <2>2
        <5> QED
          BY <5>1, <5>2
      <4>3. Before(i + 1)
        BY <4>2 DEF Before
      <4> QED
        BY <4>3, <3>5, <3>9, <2>2 DEF swapped
    <3> QED
      BY <3>6, <3>7, <3>8, <3>9, <3>1
  <2> QED
    BY <2>5, <2>6
<1> QED
  BY <1>1, SpecInv, PTL

(* A candidate that arrives last changes the result only if it is the       *)
(* owner's and strictly newer than the list chosen so far.                  *)
THEOREM TakesOverOnlyWhenNewer == Spec => TakesOverOnlyIfNewer
<1> DEFINE Step == Returns' /\ Result' # Result =>
                     /\ IsAuthoritative(npub, Last(candidates'))
                     /\ \/ Last(candidates').createdAt > Result.createdAt
                        \/ Authentic = {}
<1>1. Inv /\ [Next]_vars => [Step]_vars
  <2> SUFFICES ASSUME Inv, NEW e \in Candidates, Receive(e), Result' # Result
               PROVE  /\ IsAuthoritative(npub, Last(candidates'))
                      /\ Last(candidates').createdAt > Result.createdAt \/ Authentic = {}
    BY DEF Next
  <2> DEFINE n == Len(candidates)
  <2>1. /\ npub' = npub /\ nsec' = nsec
        /\ DOMAIN candidates' = 1 .. n + 1 /\ candidates'[n + 1] = e
        /\ \A i \in 1 .. n : candidates'[i] = candidates[i]
        /\ Base'
    BY Received DEF Inv
  <2>2. /\ DOMAIN candidates = 1 .. n /\ n \in Nat /\ IsTimed(candidates)
        /\ \A i \in 1 .. n : candidates[i].createdAt \in Int
        /\ e.createdAt \in Int
    BY CandidatesTimed, CandidatesAssumption DEF Inv, Base, EventType, NoTime
  <2>3. IsTimed(candidates') /\ Last(candidates') = e
    <3>1. candidates' \in Seq(Candidates)
      BY <2>1 DEF Base
    <3>2. Len(candidates') = n + 1
      BY <3>1, <2>1, <2>2, CandidatesTimed
    <3> QED
      BY <3>1, <3>2, <2>1, CandidatesTimed DEF Last
  <2>4. Result' = Merge(npub, nsec, candidates')
    BY <2>1 DEF Result
  <2> HIDE DEF n
  <2>5. CASE Authentic = {}
    <3>1. IsAuthoritative(npub, e)
      <4>1. ASSUME ~IsAuthoritative(npub, e)
            PROVE  FALSE
        <5>1. \A i \in DOMAIN candidates' : ~IsAuthoritative(npub, candidates'[i])
          BY <4>1, <2>1, <2>2, <2>5 DEF Authentic
        <5> QED
          BY <5>1, <2>4, <2>5, MergeOfNone DEF Result, Authentic
      <4> QED
        BY <4>1
    <3> QED
      BY <3>1, <2>3, <2>5
  <2>6. CASE Authentic # {}
    <3>1. PICK w \in 1 .. n : IsWinner(npub, candidates, w)
      BY <2>2, <2>6 DEF Inv, HasWinner
    <3>2. Result.createdAt = candidates[w].createdAt
      BY <3>1, <2>2, MergeOfWinner DEF Result
    <3>3. ASSUME ~(IsAuthoritative(npub, e) /\ e.createdAt > candidates[w].createdAt)
          PROVE  FALSE
      <4>1. IsWinner(npub, candidates', w)
        BY <3>1, <3>3, <2>1, <2>2 DEF IsWinner, Beats
      <4>2. Merge(npub, nsec, candidates') = Result
        BY <4>1, <3>1, <2>1, <2>2, <2>3, MergeOfWinner DEF Result
      <4> QED
        BY <4>2, <2>4
    <3> QED
      BY <3>2, <3>3, <2>3
  <2> QED
    BY <2>5, <2>6
<1> QED
  BY <1>1, SpecInv, PTL DEF Spec, TakesOverOnlyIfNewer
=============================================================================
