---------------------------- MODULE AllowlistSync ----------------------------
(***************************************************************************)
(* The background allowlist sync:                                          *)
(* src/Jellyfin.Plugin.NostrAuth/Sync/NostrAllowlistSyncService.cs and     *)
(* AllowlistCache.cs.  The loop polls the configured relays one after      *)
(* another, merges what they sent and replaces the cached list.  Around it *)
(* the owner publishes lists, the administrator saves configurations, the  *)
(* server restarts, and relays answer, fail, stay silent or send anything  *)
(* they like except a signature they cannot make.                          *)
(***************************************************************************)
EXTENDS AllowlistMerge, SequencesExt

CONSTANTS Relays,        \* relay URLs
          HungRelays,    \* those whose handshake never completes
          Blank, Garbled,\* an npub or nsec setting: empty, not bech32
          Configs,       \* configurations the administrator may save
          Events,        \* events their authors may sign and publish
          Noise,         \* what a relay can make up without a secret
          MaxFaults, MaxSaves, MaxRestarts   \* bounds on the environment

KeySetting == Keys \cup {Blank, Garbled}

ConfigType ==
  [npub: KeySetting, nsec: KeySetting, relays: Seq(Relays), minutes: Int,
   listKind: {KindPrivateList, KindAppData}]

(* PluginConfiguration as first created. *)
DefaultConfig ==
  [npub |-> Blank, nsec |-> Blank, relays |-> <<>>, minutes |-> 10,
   listKind |-> KindPrivateList]

AllConfigs == Configs \cup {DefaultConfig}

ASSUME SyncAssumption ==
  /\ HungRelays \subseteq Relays
  /\ Blank \notin Keys /\ Garbled \notin Keys /\ Blank # Garbled
  /\ Configs \subseteq ConfigType
  /\ Events \subseteq {e \in EventType : e.sig = "valid" /\ e.createdAt # NoTime}
  /\ Noise \subseteq {e \in EventType : e.sig # "valid"}
  /\ MaxFaults \in Nat /\ MaxSaves \in Nat /\ MaxRestarts \in Nat

VARIABLES
  config,      \* Plugin.Instance.Configuration
  saved,       \* history: every configuration that was ever in effect
  published,   \* every event that was ever signed
  stored,      \* what each relay holds
  cache,       \* AllowlistCache._snapshot
  pc,          \* where the loop waits
  poll,        \* the configuration object this poll captured
  idx,         \* the relay being fetched, a position in poll.relays
  candidates,  \* PollOnceAsync's list
  received,    \* FetchFromRelayAsync's list
  eoseLost,    \* the relay's EOSE came before its handler was attached
  faults, saves, restarts  \* spent out of their bounds

loopVars == <<pc, poll, idx, candidates, received, eoseLost>>
worldVars == <<stored, published>>
configVars == <<config, saved>>
boundVars == <<faults, saves, restarts>>
vars == <<loopVars, worldVars, configVars, boundVars, cache>>

(* No snapshot; also the result of a merge without a winner. *)
NoSnapshot == [pubkeys |-> {}, public |-> FALSE, createdAt |-> NoTime]

SnapshotType ==
  [pubkeys: SUBSET Users, public: BOOLEAN, createdAt: Nat \cup {NoTime}]

Init ==
  /\ config \in AllConfigs /\ saved = {config}
  /\ published = {} /\ stored = [r \in Relays |-> {}]
  /\ cache = NoSnapshot
  /\ pc = "poll" /\ poll = DefaultConfig /\ idx = 0
  /\ candidates = <<>> /\ received = <<>> /\ eoseLost = FALSE
  /\ faults = 0 /\ saves = 0 /\ restarts = 0

-----------------------------------------------------------------------------
(* The poll *)

MaxDelayMinutes == 71582   \* Task.Delay takes at most 2^32 - 2 milliseconds

Configured(c) == c.npub # Blank /\ c.nsec # Blank /\ c.relays # <<>>

Parses(c) == c.npub \in Keys /\ c.nsec \in Keys

(* The filters: both kinds, whatever c.listKind says. *)
Matches(c, e) == IsCandidateOf(c.npub, e)

(* PollOnceAsync up to its first await; an unconfigured poll returns, and   *)
(* a key that does not parse throws, both into the delay.                  *)
BeginPoll ==
  /\ pc = "poll"
  /\ IF Configured(config) /\ Parses(config)
     THEN pc' = "connect" /\ poll' = config /\ idx' = 1
     ELSE pc' = "delay" /\ UNCHANGED <<poll, idx>>
  /\ UNCHANGED <<candidates, received, eoseLost, worldVars, configVars, boundVars, cache>>

Connect ==
  /\ pc = "connect" /\ poll.relays[idx] \notin HungRelays
  /\ pc' = "subscribe"
  /\ UNCHANGED <<poll, idx, candidates, received, eoseLost, worldVars, configVars, boundVars, cache>>

CreateSubscription ==
  /\ pc = "subscribe"
  /\ pc' = "attach"
  /\ UNCHANGED <<poll, idx, candidates, received, eoseLost, worldVars, configVars, boundVars, cache>>

(* The EOSE handler is attached once the subscription has been sent. *)
AttachEose ==
  /\ pc = "attach"
  /\ pc' = "wait"
  /\ UNCHANGED <<poll, idx, candidates, received, eoseLost, worldVars, configVars, boundVars, cache>>

Subscribed == pc \in {"attach", "wait", "grace", "disconnect"}

(* The client's EventsReceived handler. *)
Accept(e) ==
  /\ Subscribed
  /\ received' = Append(received, e)
  /\ UNCHANGED <<pc, poll, idx, candidates, eoseLost, worldVars, configVars, saves, restarts, cache>>

Undelivered ==
  {e \in stored[poll.relays[idx]] : Matches(poll, e) /\ e \notin ToSet(received)}

(* A relay sends what it holds, then EOSE. *)
Deliver == \E e \in Undelivered : Accept(e) /\ UNCHANGED faults

(* EOSE completes the wait if the handler is attached by then. *)
Eose ==
  /\ pc \in {"attach", "wait"} /\ ~eoseLost /\ Undelivered = {}
  /\ IF pc = "wait" THEN pc' = "grace" /\ UNCHANGED eoseLost
                    ELSE eoseLost' = TRUE /\ UNCHANGED pc
  /\ UNCHANGED <<poll, idx, candidates, received, worldVars, configVars, boundVars, cache>>

(* Mutant: the wait has no timeout *)
EoseTimeoutNever == FALSE

(* Fifteen seconds without EOSE, because it was lost. *)
EoseTimeout ==
  /\ pc = "wait" /\ eoseLost
  /\ pc' = "disconnect"
  /\ UNCHANGED <<poll, idx, candidates, received, eoseLost, worldVars, configVars, boundVars, cache>>

GraceEnds ==
  /\ pc = "grace"
  /\ pc' = "disconnect"
  /\ UNCHANGED <<poll, idx, candidates, received, eoseLost, worldVars, configVars, boundVars, cache>>

(* Mutant: one relay too many *)
EndFetchPastLast(got) ==
  /\ candidates' = candidates \o got /\ received' = <<>> /\ eoseLost' = FALSE
  /\ IF idx <= Len(poll.relays) THEN pc' = "connect" /\ idx' = idx + 1
                                ELSE pc' = "merge" /\ UNCHANGED idx
  /\ UNCHANGED <<poll, worldVars, configVars, saves, restarts, cache>>

(* The end of FetchFromRelayAsync, which returned got or threw. *)
EndFetch(got) ==
  /\ candidates' = candidates \o got /\ received' = <<>> /\ eoseLost' = FALSE
  /\ IF idx < Len(poll.relays) THEN pc' = "connect" /\ idx' = idx + 1
                               ELSE pc' = "merge" /\ UNCHANGED idx
  /\ UNCHANGED <<poll, worldVars, configVars, saves, restarts, cache>>

(* Mutant: a fetch that timed out counts as failed *)
DisconnectDropsLate ==
  pc = "disconnect" /\ EndFetch(IF eoseLost THEN <<>> ELSE received) /\ UNCHANGED faults

Disconnect == pc = "disconnect" /\ EndFetch(received) /\ UNCHANGED faults

(* Mutant: a poll without a valid event clears the list *)
MergeClears ==
  /\ pc = "merge"
  /\ cache' = IF MergeThrows(poll.npub, candidates) THEN cache
              ELSE Merge(poll.npub, poll.nsec, candidates)
  /\ candidates' = <<>> /\ idx' = 0 /\ poll' = DefaultConfig /\ pc' = "delay"
  /\ UNCHANGED <<received, eoseLost, worldVars, configVars, boundVars>>

(* Merge and cache.Update; a merge that throws and one without a winner    *)
(* keep the last list.                                                     *)
MergeAndUpdate ==
  /\ pc = "merge"
  /\ LET result == Merge(poll.npub, poll.nsec, candidates)
     IN cache' = IF MergeThrows(poll.npub, candidates) \/ result.createdAt = NoTime
                 THEN cache ELSE result
  /\ candidates' = <<>> /\ idx' = 0 /\ poll' = DefaultConfig /\ pc' = "delay"
  /\ UNCHANGED <<received, eoseLost, worldVars, configVars, boundVars>>

(* The delay, read from the configuration of this moment; beyond its range  *)
(* Task.Delay throws out of the loop.                                      *)
Delay ==
  /\ pc = "delay"
  /\ pc' = IF config.minutes > MaxDelayMinutes THEN "faulted" ELSE "sleep"
  /\ UNCHANGED <<poll, idx, candidates, received, eoseLost, worldVars, configVars, boundVars, cache>>

Wake ==
  /\ pc = "sleep"
  /\ pc' = "poll"
  /\ UNCHANGED <<poll, idx, candidates, received, eoseLost, worldVars, configVars, boundVars, cache>>

-----------------------------------------------------------------------------
(* Relays that misbehave *)

(* Connect, CreateSubscription or Disconnect throws: what this relay sent   *)
(* is dropped.                                                             *)
RelayFails ==
  /\ pc \in {"connect", "subscribe", "disconnect"} /\ faults < MaxFaults
  /\ faults' = faults + 1
  /\ EndFetch(<<>>)

(* No EOSE within the timeout, whatever was sent so far. *)
RelaySlow ==
  /\ pc = "wait" /\ faults < MaxFaults
  /\ faults' = faults + 1
  /\ pc' = "disconnect"
  /\ UNCHANGED <<poll, idx, candidates, received, eoseLost, worldVars, configVars, saves, restarts, cache>>

(* A relay sends an event it was not asked for, a superseded one, one it    *)
(* sent before, or a forgery.                                              *)
RelaySends(e) ==
  /\ faults < MaxFaults /\ faults' = faults + 1
  /\ Accept(e)

-----------------------------------------------------------------------------
(* The owner, the administrator and the host *)

SameAddress(e, f) ==
  e.author = f.author /\ e.kind = f.kind /\ e.dTag = f.dTag

(* A relay keeps the newest event at an address. *)
StoreAt(held, e) ==
  IF \E f \in held : SameAddress(e, f) /\ f.createdAt > e.createdAt THEN held
  ELSE {f \in held : ~SameAddress(e, f)} \cup {e}

(* The owner signs a list and the relays in rs, at least one, take it. *)
Publish(e, rs) ==
  /\ e \notin published
  /\ published' = published \cup {e}
  /\ stored' = [r \in Relays |-> IF r \in rs THEN StoreAt(stored[r], e) ELSE stored[r]]
  /\ UNCHANGED <<loopVars, configVars, boundVars, cache>>

(* The configuration page replaces the configuration object. *)
SaveConfig(c) ==
  /\ saves < MaxSaves /\ saves' = saves + 1
  /\ config' = c /\ saved' = saved \cup {c}
  /\ UNCHANGED <<loopVars, worldVars, faults, restarts, cache>>

(* The server stops, in whatever state, and starts again: the configuration *)
(* is on disk, the list is not.                                            *)
Restart ==
  /\ restarts < MaxRestarts /\ restarts' = restarts + 1
  /\ pc' = "poll" /\ poll' = DefaultConfig /\ idx' = 0
  /\ candidates' = <<>> /\ received' = <<>> /\ eoseLost' = FALSE
  /\ cache' = NoSnapshot
  /\ UNCHANGED <<worldVars, configVars, faults, saves>>

-----------------------------------------------------------------------------
ServiceStep ==
  \/ BeginPoll \/ Connect \/ CreateSubscription \/ AttachEose \/ EoseTimeout
  \/ GraceEnds \/ Disconnect \/ MergeAndUpdate \/ Delay \/ Wake

RelayAnswers == Subscribed /\ (Deliver \/ Eose)

Environment ==
  \/ RelayFails \/ RelaySlow
  \/ \E e \in published \cup Noise : RelaySends(e)
  \/ \E e \in Events, rs \in SUBSET Relays \ {{}} : Publish(e, rs)
  \/ \E c \in Configs : SaveConfig(c)
  \/ Restart

Next == ServiceStep \/ RelayAnswers \/ Environment

Spec == Init /\ [][Next]_vars

(* Awaited calls return and relays that are not hung answer; nothing else   *)
(* is promised, and faults run out.                                        *)
FairSpec == Spec /\ WF_vars(ServiceStep) /\ WF_vars(RelayAnswers)

-----------------------------------------------------------------------------
TypeOK ==
  /\ config \in AllConfigs /\ saved \subseteq AllConfigs
  /\ published \subseteq Events /\ stored \in [Relays -> SUBSET published]
  /\ cache \in SnapshotType
  /\ pc \in {"poll", "connect", "subscribe", "attach", "wait", "grace",
             "disconnect", "merge", "delay", "sleep", "faulted"}
  /\ poll \in AllConfigs
  /\ candidates \in Seq(published \cup Noise) /\ received \in Seq(published \cup Noise)
  /\ idx \in Nat /\ (pc = "connect" \/ pc = "subscribe" \/ Subscribed => idx \in DOMAIN poll.relays)
  /\ eoseLost \in BOOLEAN
  /\ faults \in 0 .. MaxFaults /\ saves \in 0 .. MaxSaves /\ restarts \in 0 .. MaxRestarts

(* The abstract specification: whatever relays do, and however polls,       *)
(* configuration changes and restarts interleave, the cached list is one    *)
(* that one saved configuration reads from one event signed by that same    *)
(* configuration's list key; it changes only by adopting such an event, and *)
(* is lost only by a restart (NostrAllowlistSyncService.cs:11-18).          *)
Abstract == INSTANCE AuthorizedList WITH
              signed <- published, configured <- saved, list <- cache,
              runs <- restarts
ImplementsAuthorizedList == Abstract!Spec

(* Once the owner, the administrator and the faults come to rest, the cache *)
(* settles on the newest list the configured relays hold, however events    *)
(* raced EOSE and whatever was cached before: nobody who was removed stays  *)
(* in and nobody who was added stays out.                                  *)
Available ==
  {e \in UNION {stored[r] : r \in ToSet(config.relays)} : IsAuthoritative(config.npub, e)}

CacheIsCurrent ==
  \E e \in Available :
    /\ \A f \in Available : f.createdAt <= e.createdAt
    /\ cache.createdAt = e.createdAt
    /\ cache.pubkeys = Read(config.nsec, e).pubkeys

Converges ==
  <>[](Configured(config) /\ Parses(config) /\ Available # {} => CacheIsCurrent)

(* The loop comes back to sleep again and again, although EOSE may be lost, *)
(* relays fail, keys do not parse and merges throw, as long as relays are   *)
(* not hung and the interval is in Task.Delay's range                       *)
(* (docs/design.md:73, re-fetched on a poll interval).                      *)
PollsRecur == []<>(pc = "sleep")

-----------------------------------------------------------------------------
(* A statement of the documentation that the code does not keep *)

(* docs/design.md:71-73: of several versions the newest signature-valid one *)
(* wins.  One configuration, no restart: the cached list gets no older.     *)
CacheKeepsNewest ==
  [][saved = {config} /\ restarts' = restarts => cache'.createdAt >= cache.createdAt]_vars
=============================================================================
