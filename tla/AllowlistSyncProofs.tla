------------------------- MODULE AllowlistSyncProofs -------------------------
(***************************************************************************)
(* Theorems about AllowlistSync for every set of keys, entries, relays,    *)
(* configurations and events, and every bound on the environment: type     *)
(* correctness, and that the sync implements AuthorizedList.               *)
(***************************************************************************)
EXTENDS AllowlistSync, TLAPS

(* Where the loop works on a poll, its configuration was saved; and the     *)
(* configuration in effect was saved.  Together with the types (candidates  *)
(* are published events or noise) this is inductive.                       *)
PollWasSaved == config \in saved /\ poll \in saved \cup {DefaultConfig}

IInv == TypeOK /\ PollWasSaved

-----------------------------------------------------------------------------
(* Lemmas about merging *)

(* Every configuration is well typed, the default one included. *)
LEMMA ConfigsTyped ==
  ASSUME NEW c \in AllConfigs
  PROVE  c \in ConfigType
<1>1. DefaultConfig \in ConfigType
  BY DEF DefaultConfig, ConfigType, KeySetting
<1>2. QED BY <1>1, SyncAssumption DEF AllConfigs

(* Sanitize yields lower-case user keys only. *)
LEMMA SanitizeTyped ==
  ASSUME NEW es PROVE Sanitize(es) \subseteq Users
BY LowerAssumption DEF Sanitize

(* What Read returns is a set of users and a flag. *)
LEMMA ReadTyped ==
  ASSUME NEW nsec, NEW e
  PROVE  Read(nsec, e).pubkeys \subseteq Users /\ Read(nsec, e).public \in BOOLEAN
<1>1. CASE ReadsPrivate(nsec, e) BY <1>1, SanitizeTyped DEF Read
<1>2. CASE ~ReadsPrivate(nsec, e)
  <2>1. Read(nsec, e) = [pubkeys |-> Sanitize(e.pTags), public |-> Sanitize(e.pTags) # {}]
    BY <1>2 DEF Read
  <2>2. (Sanitize(e.pTags) # {}) \in BOOLEAN OBVIOUS
  <2>3. QED BY <2>1, <2>2, SanitizeTyped
<1>3. QED BY <1>1, <1>2

(* A merge that has a creation time took it, and its list, from one         *)
(* authoritative candidate.                                                *)
LEMMA MergeTakesACandidate ==
  ASSUME NEW npub, NEW nsec, NEW cs, Merge(npub, nsec, cs).createdAt # NoTime
  PROVE  \E i \in DOMAIN cs :
           /\ IsAuthoritative(npub, cs[i])
           /\ Merge(npub, nsec, cs) =
                [pubkeys |-> Read(nsec, cs[i]).pubkeys,
                 public |-> Read(nsec, cs[i]).public, createdAt |-> cs[i].createdAt]
<1>1. Winners(npub, cs) # {} BY DEF Merge
<1>2. PICK k \in DOMAIN cs : IsWinner(npub, cs, k) BY <1>1 DEF Winners
<1> DEFINE i == CHOOSE m \in DOMAIN cs : IsWinner(npub, cs, m)
<1>3. i \in DOMAIN cs /\ IsWinner(npub, cs, i) BY <1>2
<1>4. Winner(npub, cs) = cs[i] BY DEF Winner
<1>5. IsAuthoritative(npub, cs[i]) BY <1>3 DEF IsWinner
<1>6. Merge(npub, nsec, cs) =
        [pubkeys |-> Read(nsec, cs[i]).pubkeys,
         public |-> Read(nsec, cs[i]).public, createdAt |-> cs[i].createdAt]
  BY <1>1, <1>4 DEF Merge
<1> HIDE DEF i
<1>7. QED BY <1>3, <1>5, <1>6

(* An authoritative candidate of a poll was published: a relay cannot sign. *)
LEMMA AuthoritativeWasPublished ==
  ASSUME TypeOK, NEW npub, NEW i \in DOMAIN candidates,
         IsAuthoritative(npub, candidates[i])
  PROVE  candidates[i] \in published /\ candidates[i] \in EventType
<1>1. candidates[i] \in published \cup Noise BY DEF TypeOK
<1>2. candidates[i].sig = "valid" BY DEF IsAuthoritative
<1>3. candidates[i] \notin Noise BY <1>2, SyncAssumption
<1>4. QED BY <1>1, <1>3, SyncAssumption DEF TypeOK

(* The merge of a well typed poll is a well typed snapshot. *)
LEMMA MergeTyped ==
  ASSUME TypeOK, NEW npub, NEW nsec,
         Merge(npub, nsec, candidates).createdAt # NoTime
  PROVE  Merge(npub, nsec, candidates) \in SnapshotType
<1>1. PICK i \in DOMAIN candidates :
        /\ IsAuthoritative(npub, candidates[i])
        /\ Merge(npub, nsec, candidates) =
             [pubkeys |-> Read(nsec, candidates[i]).pubkeys,
              public |-> Read(nsec, candidates[i]).public,
              createdAt |-> candidates[i].createdAt]
  BY MergeTakesACandidate
<1>2. candidates[i].createdAt \in Nat \cup {NoTime}
  BY <1>1, AuthoritativeWasPublished DEF EventType
<1>3. QED BY <1>1, <1>2, ReadTyped DEF SnapshotType

-----------------------------------------------------------------------------
(* The invariant *)

(* The end of one relay's fetch keeps the types, whether it returned what   *)
(* was received or threw.                                                  *)
LEMMA EndFetchTyped ==
  ASSUME TypeOK, NEW got \in Seq(published \cup Noise), idx \in DOMAIN poll.relays,
         EndFetch(got), faults' \in 0 .. MaxFaults
  PROVE  TypeOK'
<1>1. poll.relays \in Seq(Relays)
  BY ConfigsTyped DEF TypeOK, ConfigType
<1>2. candidates' \in Seq(published' \cup Noise) /\ received' \in Seq(published' \cup Noise)
  BY DEF TypeOK, EndFetch, worldVars
<1>3. CASE idx < Len(poll.relays)
  <2>1. idx' \in DOMAIN poll'.relays /\ idx' \in Nat /\ pc' = "connect"
    BY <1>1, <1>3 DEF EndFetch, TypeOK
  <2>2. QED BY <1>2, <2>1 DEF TypeOK, EndFetch, worldVars, configVars
<1>4. CASE ~(idx < Len(poll.relays))
  <2>1. idx' = idx /\ pc' = "merge" /\ ~Subscribed'
    BY <1>4 DEF EndFetch, Subscribed
  <2>2. QED BY <1>2, <2>1 DEF TypeOK, EndFetch, worldVars, configVars
<1>5. QED BY <1>3, <1>4

(* Taking one more event keeps the types. *)
LEMMA AcceptTyped ==
  ASSUME TypeOK, NEW e \in published \cup Noise, Accept(e), faults' \in 0 .. MaxFaults
  PROVE  TypeOK'
<1>1. received' \in Seq(published' \cup Noise)
  BY DEF TypeOK, Accept, worldVars
<1>2. QED BY <1>1 DEF TypeOK, Accept, Subscribed, worldVars, configVars

LEMMA TypeInit ==
  Init => TypeOK
<1> SUFFICES ASSUME Init PROVE TypeOK OBVIOUS
<1>1. candidates \in Seq(published \cup Noise) /\ received \in Seq(published \cup Noise)
  BY DEF Init
<1>2. cache \in SnapshotType BY DEF Init, NoSnapshot, SnapshotType
<1>3. stored \in [Relays -> SUBSET published] /\ saved \subseteq AllConfigs
      /\ poll \in AllConfigs
  BY DEF Init, AllConfigs
<1>4. faults \in 0 .. MaxFaults /\ saves \in 0 .. MaxSaves /\ restarts \in 0 .. MaxRestarts
  BY SyncAssumption DEF Init
<1>5. QED BY <1>1, <1>2, <1>3, <1>4 DEF Init, TypeOK, Subscribed

(* Every step of the loop, of a relay and of the environment keeps the types. *)
LEMMA TypeStep ==
  TypeOK /\ [Next]_vars => TypeOK'
<1> SUFFICES ASSUME TypeOK, [Next]_vars PROVE TypeOK' OBVIOUS
<1> USE DEF Subscribed, worldVars, configVars, boundVars, loopVars
<1>1. CASE BeginPoll
  <2>1. CASE Configured(config) /\ Parses(config)
    <3>1. poll' = config /\ config.relays \in Seq(Relays) /\ config.relays # <<>>
      BY <1>1, <2>1, ConfigsTyped DEF BeginPoll, Configured, TypeOK, ConfigType
    <3>2. 1 \in DOMAIN poll'.relays BY <3>1
    <3>3. QED BY <1>1, <2>1, <3>2 DEF BeginPoll, TypeOK
  <2>2. CASE ~(Configured(config) /\ Parses(config))
    BY <1>1, <2>2 DEF BeginPoll, TypeOK
  <2>3. QED BY <2>1, <2>2
<1>2. CASE Connect BY <1>2 DEF Connect, TypeOK
<1>3. CASE CreateSubscription BY <1>3 DEF CreateSubscription, TypeOK
<1>4. CASE AttachEose BY <1>4 DEF AttachEose, TypeOK
<1>5. CASE EoseTimeout BY <1>5 DEF EoseTimeout, TypeOK
<1>6. CASE GraceEnds BY <1>6 DEF GraceEnds, TypeOK
<1>7. CASE Disconnect
  <2>1. received \in Seq(published \cup Noise) /\ idx \in DOMAIN poll.relays
    BY <1>7 DEF Disconnect, TypeOK
  <2>2. QED BY <1>7, <2>1, EndFetchTyped DEF Disconnect, TypeOK
<1>8. CASE MergeAndUpdate
  <2>1. cache' \in SnapshotType
    <3>1. CASE MergeThrows(poll.npub, candidates)
               \/ Merge(poll.npub, poll.nsec, candidates).createdAt = NoTime
      BY <1>8, <3>1 DEF MergeAndUpdate, TypeOK
    <3>2. CASE ~(MergeThrows(poll.npub, candidates)
                 \/ Merge(poll.npub, poll.nsec, candidates).createdAt = NoTime)
      BY <1>8, <3>2, MergeTyped DEF MergeAndUpdate
    <3>3. QED BY <3>1, <3>2
  <2>2. candidates' = <<>> /\ idx' = 0 /\ poll' = DefaultConfig /\ pc' = "delay"
        /\ UNCHANGED <<received, eoseLost, worldVars, configVars, boundVars>>
    BY <1>8 DEF MergeAndUpdate
  <2>3. candidates' \in Seq(published' \cup Noise) BY <2>2
  <2>4. QED BY <2>1, <2>2, <2>3 DEF TypeOK, AllConfigs
<1>9. CASE Delay BY <1>9 DEF Delay, TypeOK
<1>10. CASE Wake BY <1>10 DEF Wake, TypeOK
<1>11. CASE Subscribed /\ Deliver
  <2>1. PICK e \in Undelivered : Accept(e) /\ UNCHANGED faults BY <1>11 DEF Deliver
  <2>2. poll.relays[idx] \in Relays
    BY <1>11, ConfigsTyped DEF TypeOK, ConfigType
  <2>3. e \in published BY <2>1, <2>2 DEF Undelivered, TypeOK
  <2>4. QED BY <2>1, <2>3, AcceptTyped DEF TypeOK
<1>12. CASE Eose BY <1>12 DEF Eose, TypeOK
<1>13. CASE RelayFails
  <2>1. idx \in DOMAIN poll.relays /\ faults' \in 0 .. MaxFaults
    BY <1>13, SyncAssumption DEF RelayFails, TypeOK
  <2>2. <<>> \in Seq(published \cup Noise) OBVIOUS
  <2>3. QED BY <1>13, <2>1, <2>2, EndFetchTyped DEF RelayFails
<1>14. CASE RelaySlow BY <1>14, SyncAssumption DEF RelaySlow, TypeOK
<1>15. ASSUME NEW e \in published \cup Noise, RelaySends(e) PROVE TypeOK'
  <2>1. faults' \in 0 .. MaxFaults BY <1>15, SyncAssumption DEF RelaySends, TypeOK
  <2>2. QED BY <1>15, <2>1, AcceptTyped DEF RelaySends
<1>16. ASSUME NEW e \in Events, NEW rs \in SUBSET Relays \ {{}}, Publish(e, rs) PROVE TypeOK'
  <2>1. published' = published \cup {e} BY <1>16 DEF Publish
  <2>2. stored' \in [Relays -> SUBSET published']
    BY <1>16, <2>1 DEF Publish, StoreAt, TypeOK
  <2>3. candidates' \in Seq(published' \cup Noise) /\ received' \in Seq(published' \cup Noise)
    <3>1. candidates' = candidates /\ received' = received
          /\ candidates \in Seq(published \cup Noise) /\ received \in Seq(published \cup Noise)
      BY <1>16 DEF Publish, TypeOK
    <3>2. published \cup Noise \subseteq published' \cup Noise BY <2>1
    <3>3. QED BY <3>1, <3>2
  <2>4. published' \subseteq Events BY <2>1 DEF TypeOK
  <2>5. UNCHANGED <<pc, poll, idx, eoseLost, config, saved, faults, saves, restarts, cache>>
    BY <1>16 DEF Publish
  <2>6. QED BY <2>2, <2>3, <2>4, <2>5 DEF TypeOK
<1>17. ASSUME NEW c \in Configs, SaveConfig(c) PROVE TypeOK'
  BY <1>17, SyncAssumption DEF SaveConfig, TypeOK, AllConfigs
<1>18. CASE Restart
  <2>1. candidates' \in Seq(published' \cup Noise) /\ received' \in Seq(published' \cup Noise)
        /\ cache' \in SnapshotType
    BY <1>18 DEF Restart, NoSnapshot, SnapshotType
  <2>2. restarts' \in 0 .. MaxRestarts BY <1>18, SyncAssumption DEF Restart, TypeOK
  <2>3. poll' \in AllConfigs /\ idx' = 0 /\ pc' = "poll" /\ eoseLost' = FALSE
    BY <1>18 DEF Restart, AllConfigs
  <2>4. UNCHANGED <<stored, published, config, saved, faults, saves>>
    BY <1>18 DEF Restart
  <2>5. QED BY <2>1, <2>2, <2>3, <2>4 DEF TypeOK
<1>19. CASE UNCHANGED vars BY <1>19 DEF vars, TypeOK
<1>20. QED
  BY <1>1, <1>2, <1>3, <1>4, <1>5, <1>6, <1>7, <1>8, <1>9, <1>10, <1>11, <1>12,
     <1>13, <1>14, <1>15, <1>16, <1>17, <1>18, <1>19
  DEF Next, ServiceStep, RelayAnswers, Environment

(* Type correctness of the sync, for every value of the constants. *)
THEOREM TypeCorrect ==
  Spec => []TypeOK
BY TypeInit, TypeStep, PTL DEF Spec

-----------------------------------------------------------------------------
(* The sync implements AuthorizedList *)

LEMMA PollWasSavedInit ==
  Init => PollWasSaved
BY DEF Init, PollWasSaved

LEMMA PollWasSavedStep ==
  PollWasSaved /\ [Next]_vars => PollWasSaved'
<1> SUFFICES ASSUME PollWasSaved, [Next]_vars PROVE PollWasSaved' OBVIOUS
<1> USE DEF PollWasSaved, configVars
<1>1. CASE ServiceStep
  <2>1. CASE BeginPoll BY <2>1 DEF BeginPoll
  <2>2. CASE MergeAndUpdate BY <2>2 DEF MergeAndUpdate
  <2>3. CASE Connect \/ CreateSubscription \/ AttachEose \/ EoseTimeout
             \/ GraceEnds \/ Disconnect \/ Delay \/ Wake
    BY <2>3 DEF Connect, CreateSubscription, AttachEose, EoseTimeout, GraceEnds,
                Disconnect, EndFetch, Delay, Wake
  <2>4. QED BY <1>1, <2>1, <2>2, <2>3 DEF ServiceStep
<1>2. CASE RelayAnswers
  BY <1>2 DEF RelayAnswers, Deliver, Accept, Eose
<1>3. CASE Environment
  <2>1. CASE RelayFails \/ RelaySlow \/ \E e \in published \cup Noise : RelaySends(e)
    BY <2>1 DEF RelayFails, EndFetch, RelaySlow, RelaySends, Accept
  <2>2. CASE \E e \in Events, rs \in SUBSET Relays \ {{}} : Publish(e, rs)
    BY <2>2 DEF Publish, loopVars
  <2>3. CASE \E c \in Configs : SaveConfig(c) BY <2>3 DEF SaveConfig, loopVars
  <2>4. CASE Restart BY <2>4 DEF Restart
  <2>5. QED BY <1>3, <2>1, <2>2, <2>3, <2>4 DEF Environment
<1>4. CASE UNCHANGED vars BY <1>4 DEF vars, loopVars
<1>5. QED BY <1>1, <1>2, <1>3, <1>4 DEF Next

LEMMA RefinementInit ==
  Init => Abstract!Init
<1> SUFFICES ASSUME Init PROVE Abstract!Init OBVIOUS
<1>1. published = {} /\ restarts = 0 /\ cache = NoSnapshot BY DEF Init
<1>2. NoSnapshot = Abstract!NoList BY DEF NoSnapshot, Abstract!NoList, NoTime, Abstract!NoTime
<1>3. config \in AllConfigs /\ saved = {config} BY DEF Init
<1>4. QED BY <1>1, <1>2, <1>3 DEF Abstract!Init

(* A merge that changes the cache adopts one published list, read with the  *)
(* configuration that the poll captured.                                   *)
LEMMA MergeAdopts ==
  ASSUME IInv, MergeAndUpdate, cache' # cache
  PROVE  Abstract!Adopt
<1> DEFINE m == Merge(poll.npub, poll.nsec, candidates)
<1>1. m.createdAt # NoTime /\ cache' = m BY DEF MergeAndUpdate
<1>2. PICK i \in DOMAIN candidates :
        /\ IsAuthoritative(poll.npub, candidates[i])
        /\ m = [pubkeys |-> Read(poll.nsec, candidates[i]).pubkeys,
                public |-> Read(poll.nsec, candidates[i]).public,
                createdAt |-> candidates[i].createdAt]
  BY <1>1, MergeTakesACandidate
<1> DEFINE e == candidates[i]
<1>3. e \in published /\ e \in EventType
  BY <1>2, AuthoritativeWasPublished DEF IInv
<1>4. e.author = poll.npub /\ MatchesListShape(e)
  BY <1>2 DEF IsAuthoritative, IsCandidateOf
<1>5. poll \in saved
  <2>1. e.author \in Keys BY <1>3 DEF EventType
  <2>2. DefaultConfig.npub \notin Keys BY SyncAssumption DEF DefaultConfig
  <2>3. QED BY <1>4, <2>1, <2>2 DEF IInv, PollWasSaved
<1>6. Abstract!Read(poll.nsec, e) = Read(poll.nsec, e)
  BY DEF Read, Abstract!Read, ReadsPrivate, Abstract!ReadsPrivate, Sanitize, Abstract!Sanitize
<1>7. cache' = Abstract!ListOf(poll, e)
  BY <1>1, <1>2, <1>6 DEF Abstract!ListOf
<1>8. Abstract!MatchesListShape(e)
  BY <1>4 DEF MatchesListShape, Abstract!MatchesListShape, KindPrivateList,
              Abstract!KindPrivateList, KindAppData, Abstract!KindAppData
<1>9. UNCHANGED <<published, saved, restarts>>
  BY DEF MergeAndUpdate, worldVars, configVars, boundVars
<1> HIDE DEF e, m
<1>10. QED BY <1>3, <1>4, <1>5, <1>7, <1>8, <1>9 DEF Abstract!Adopt

(* Each step of the sync is a step of AuthorizedList or leaves it unchanged. *)
LEMMA RefinementStep ==
  IInv /\ [Next]_vars => [Abstract!Next]_(Abstract!vars)
<1> SUFFICES ASSUME IInv, [Next]_vars PROVE Abstract!Next \/ UNCHANGED Abstract!vars
  OBVIOUS
<1> USE DEF Abstract!vars, worldVars, configVars, boundVars
<1>1. CASE ServiceStep
  <2>1. CASE MergeAndUpdate
    <3>1. CASE cache' = cache BY <2>1, <3>1 DEF MergeAndUpdate
    <3>2. CASE cache' # cache BY <2>1, <3>2, MergeAdopts DEF Abstract!Next
    <3>3. QED BY <3>1, <3>2
  <2>2. CASE BeginPoll \/ Connect \/ CreateSubscription \/ AttachEose \/ EoseTimeout
             \/ GraceEnds \/ Disconnect \/ Delay \/ Wake
    BY <2>2 DEF BeginPoll, Connect, CreateSubscription, AttachEose, EoseTimeout,
                GraceEnds, Disconnect, EndFetch, Delay, Wake
  <2>3. QED BY <1>1, <2>1, <2>2 DEF ServiceStep
<1>2. CASE RelayAnswers BY <1>2 DEF RelayAnswers, Deliver, Accept, Eose
<1>3. CASE RelayFails \/ RelaySlow \/ \E e \in published \cup Noise : RelaySends(e)
  BY <1>3 DEF RelayFails, EndFetch, RelaySlow, RelaySends, Accept
<1>4. ASSUME NEW e \in Events, NEW rs \in SUBSET Relays \ {{}}, Publish(e, rs)
      PROVE  Abstract!Next
  BY <1>4 DEF Publish, Abstract!Next, Abstract!Sign
<1>5. ASSUME NEW c \in Configs, SaveConfig(c) PROVE Abstract!Next
  BY <1>5 DEF SaveConfig, Abstract!Next, Abstract!Configure, AllConfigs
<1>6. CASE Restart
  <2>1. cache' = Abstract!NoList /\ restarts' = restarts + 1 /\ UNCHANGED <<published, saved>>
    BY <1>6 DEF Restart, NoSnapshot, Abstract!NoList, NoTime, Abstract!NoTime
  <2>2. QED BY <2>1 DEF Abstract!Next, Abstract!Forget
<1>7. CASE UNCHANGED vars BY <1>7 DEF vars
<1>8. QED BY <1>1, <1>2, <1>3, <1>4, <1>5, <1>6, <1>7 DEF Next, Environment

(* The sync implements the abstract authorized list: for every behaviour of *)
(* relays, configurations and restarts the cached list is one a saved       *)
(* configuration reads from one event that its own list key signed.         *)
THEOREM Implements ==
  Spec => ImplementsAuthorizedList
<1>1. Init => IInv BY TypeInit, PollWasSavedInit DEF IInv
<1>2. IInv /\ [Next]_vars => IInv' BY TypeStep, PollWasSavedStep DEF IInv
<1>3. QED
  BY <1>1, <1>2, RefinementInit, RefinementStep, PTL
  DEF Spec, ImplementsAuthorizedList, Abstract!Spec
=============================================================================
