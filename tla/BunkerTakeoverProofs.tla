------------------------ MODULE BunkerTakeoverProofs ------------------------
(***************************************************************************)
(* While no relay fails, every call is listened for, however often another *)
(* signer takes the client over or moves it to other relays: for any        *)
(* relays, links and signers.                                              *)
(***************************************************************************)
EXTENDS BunkerSignerProofs

(* A session that nothing is about to close. *)
Stays(j) ==
  /\ ~IsOffer(subs[j]) /\ ~Ended(subs[j])
  /\ j \notin closing /\ \A t \in retiring : t[1] # j

(* The signers that the client listens to and goes on listening to. *)
Audible == {s \in Signers : \E j \in DOMAIN subs : subs[j].from = s /\ Stays(j)}

Undisturbed == broken = {} /\ Placed

(* The signers that calls were sent to are heard, answered calls included,   *)
(* and so is the one that the next call will be sent to.                    *)
Heard ==
  Undisturbed =>
    /\ \A i \in DOMAIN calls : calls[i].to \in Audible
    /\ phase \in {"racing", "ready"} => peer \in Audible

(* What a move closes belongs to the signer that it subscribes to again. *)
CurrentIsPeers == current # 0 => subs[current].from = peer

-----------------------------------------------------------------------------
LEMMA Indices ==
  ASSUME Types
  PROVE  /\ Len(subs) \in Nat /\ DOMAIN subs = 1 .. Len(subs) /\ subs \in Seq(SubType)
         /\ \A j \in DOMAIN subs : subs[j] \in SubType
         /\ closing \subseteq 1 .. Len(subs) /\ retiring \subseteq (1 .. Len(subs)) \X (1 .. Len(subs))
         /\ current \in 0 .. Len(subs) /\ peer \in Signers
BY DEF Types, SubsType, ClientType

LEMMA PlacedBefore ==
  ASSUME Types, [Next]_vars, Placed'
  PROVE  Placed
<1>1. SubsGrow
  BY NextSubs DEF Types
<1>2. ASSUME NEW j \in DOMAIN subs
      PROVE  \E r \in Relays : subs[j].at[r] # "none"
  <2> DEFINE m == Len(subs')
             n == Len(subs)
  <2>1. n \in Nat /\ m \in {n, n + 1} /\ j \in 1 .. n /\ DOMAIN subs' = 1 .. m
    BY <1>1, <1>2 DEF SubsGrow
  <2> HIDE DEF m, n
  <2>2. j \in DOMAIN subs'
    BY <2>1
  <2> QED
    BY <1>1, <1>2, <2>2 DEF SubsGrow, Placed
<1> QED
  BY <1>2 DEF Placed

(* A subscription that has just been made to some relay stays. *)
LEMMA NewStays ==
  ASSUME Types, NEW s \in Signers, NEW rs \in SUBSET Relays, Placed',
         subs' = Append(subs, Subscription(s, rs)),
         closing' \subseteq 1 .. Len(subs), \A t \in retiring' : t[1] \in 1 .. Len(subs)
  PROVE  s \in Audible'
<1> DEFINE new == Subscription(s, rs)
           n == Len(subs)
<1>1. new.from = s /\ \A r \in Relays : new.at[r] \in {"none", "live", "opening"}
  BY DEF Subscription
<1>2. s # "anyone"
  BY SignerAssumption
<1>3. new \in SubType /\ subs \in Seq(SubType)
  BY SubscriptionType, Indices
<1> HIDE DEF new
<1>4. subs' = Append(subs, new)
  BY DEF new
<1>5. n \in Nat /\ DOMAIN subs' = 1 .. n + 1 /\ subs'[n + 1] = new
  BY <1>3, <1>4, AppendPointwise
<1>6. closing' \subseteq 1 .. n /\ \A t \in retiring' : t[1] \in 1 .. n
  OBVIOUS
<1> HIDE DEF n
<1>7. n + 1 \in 1 .. n + 1 /\ n + 1 \notin 1 .. n
  BY <1>5
<1>8. n + 1 \notin closing' /\ \A t \in retiring' : t[1] # n + 1
  BY <1>6, <1>7
<1>9. ~Ended(new) /\ ~IsOffer(new)
  <2>1. \E r \in Relays : new.at[r] # "none"
    BY <1>5, <1>7 DEF Placed
  <2> QED
    BY <1>1, <1>2, <2>1 DEF Ended, IsOffer
<1> QED
  BY <1>1, <1>5, <1>7, <1>8, <1>9 DEF Audible, Stays, Ended, IsOffer

(* What stays goes on to unless a step closes it. *)
LEMMA GoesOn ==
  ASSUME Types, [Next]_vars, NEW j \in DOMAIN subs, Stays(j), ~Ended(subs'[j]),
         j \notin closing', \A t \in retiring' : t[1] # j
  PROVE  subs[j].from \in Audible'
<1>1. SubsGrow
  BY NextSubs DEF Types
<1>2. j \in DOMAIN subs' /\ subs'[j].from = subs[j].from
  <2> DEFINE m == Len(subs')
             n == Len(subs)
  <2>1. n \in Nat /\ m \in {n, n + 1} /\ j \in 1 .. n /\ DOMAIN subs' = 1 .. m
    BY <1>1 DEF SubsGrow
  <2> HIDE DEF m, n
  <2>2. j \in DOMAIN subs'
    BY <2>1
  <2> QED
    BY <1>1, <2>2 DEF SubsGrow
<1>3. subs[j].from \in Signers
  <2>1. subs[j] \in SubType
    BY Indices
  <2> QED
    BY <2>1 DEF SubType, Stays, IsOffer
<1> QED
  BY <1>2, <1>3 DEF Audible, Stays, Ended, IsOffer

LEMMA AppendKeeps ==
  ASSUME Types, NEW j \in DOMAIN subs,
         NEW new, subs' = subs \/ subs' = Append(subs, new)
  PROVE  subs'[j] = subs[j]
<1>1. subs \in Seq(SubType) /\ j \in 1 .. Len(subs)
  BY Indices
<1> QED
  BY <1>1, AppendPointwise

(* Who is heard stays heard. *)
LEMMA HearsStep ==
  ASSUME Types, CurrentIsPeers, [Next]_vars, Undisturbed, Undisturbed',
         NEW s \in Audible
  PROVE  s \in Audible'
<1>0. PICK j \in DOMAIN subs : subs[j].from = s /\ Stays(j)
  BY DEF Audible
<1>1. /\ ~IsOffer(subs[j]) /\ ~Ended(subs[j]) /\ j \notin closing /\ j \in 1 .. Len(subs)
      /\ \A t \in retiring : t[1] # j
  BY <1>0, Indices DEF Stays
<1>2. ASSUME subs'[j] = subs[j], closing' \subseteq closing, retiring' \subseteq retiring
      PROVE  s \in Audible'
  BY <1>0, <1>1, <1>2, GoesOn
<1>3. ASSUME NEW w \in wire, Connected(w)
      PROVE  s \in Audible'
  <2>1. /\ closing' = closing \cup {w.sub} /\ retiring' = retiring
        /\ subs' = Append(subs, Subscription(w.signer, offered)) /\ w.call = 0
    BY <1>3 DEF Connected
  <2>2. IsOffer(subs[w.sub])
    BY <2>1 DEF Types, WireType
  <2>3. subs'[j] = subs[j]
    BY <2>1, AppendKeeps
  <2> QED
    BY <1>0, <1>1, <2>1, <2>2, <2>3, GoesOn
<1>4. ASSUME NEW w \in wire, Ignored(w) \/ Response(w)
      PROVE  s \in Audible'
  BY <1>2, <1>4 DEF Ignored, Response, pageVars
<1>5. ASSUME NEW w \in wire, SwitchRelays(w)
      PROVE  s \in Audible'
  <2>1. CASE UNCHANGED <<subs, retiring>>
    BY <1>2, <1>5, <2>1 DEF SwitchRelays
  <2>2. CASE /\ w.call # 0 /\ w.says = "result" /\ calls[w.call].method = "switch_relays"
             /\ subs' = Append(subs, Subscription(peer, w.relays))
             /\ retiring' = IF current = 0 THEN retiring
                            ELSE retiring \cup {<<current, Len(subs) + 1>>}
    <3>1. closing' = closing
      BY <1>5 DEF SwitchRelays
    <3>2. CASE s = peer
      <4>1. w.relays \in Switches \cup {offered}
        BY <2>2 DEF Types, WireType
      <4>2. w.relays \in SUBSET Relays /\ Placed'
        BY <4>1, RelaySets DEF Undisturbed, Types, ClientType
      <4>3. \A t \in retiring' : t[1] \in 1 .. Len(subs)
        <5>1. \A t \in retiring : t[1] \in 1 .. Len(subs)
          BY Indices
        <5>2. current # 0 => current \in 1 .. Len(subs)
          BY Indices
        <5> QED
          BY <2>2, <5>1, <5>2
      <4> QED
        BY <2>2, <3>1, <3>2, <4>2, <4>3, NewStays, Indices
    <3>3. CASE s # peer
      <4>1. current # 0 => current # j
        BY <1>0, <3>3 DEF CurrentIsPeers
      <4>2. \A t \in retiring' : t[1] # j
        BY <1>1, <2>2, <4>1
      <4>3. subs'[j] = subs[j]
        BY <2>2, AppendKeeps
      <4> QED
        BY <1>0, <1>1, <3>1, <4>2, <4>3, GoesOn
    <3> QED
      BY <3>2, <3>3
  <2> QED
    BY <1>5, <2>1, <2>2 DEF SwitchRelays
<1>6. ASSUME NEW i \in DOMAIN subs, CloseFinished(i)
      PROVE  s \in Audible'
  <2>1. /\ i \in closing /\ closing' = closing \ {i} /\ retiring' = retiring
        /\ subs' = [subs EXCEPT ![i] = Closed(@)]
    BY <1>6 DEF CloseFinished, Become
  <2>2. subs'[j] = subs[j]
    BY <1>1, <2>1
  <2> QED
    BY <1>2, <2>1, <2>2
<1>7. ASSUME NEW t \in retiring, Retire(t)
      PROVE  s \in Audible'
  <2>1. closing' = closing \cup {t[1]} /\ retiring' = retiring \ {t} /\ subs' = subs
    BY <1>7 DEF Retire, netVars
  <2> QED
    BY <1>0, <1>1, <2>1, GoesOn
<1>8. CASE GetPublicKey \/ SignEvent
  <2>1. /\ UNCHANGED <<closing, retiring>>
        /\ subs' = subs \/ subs' = Append(subs, Subscription(peer, bp))
    BY <1>8 DEF GetPublicKey, SignEvent, SendRequest
  <2> QED
    BY <1>2, <2>1, AppendKeeps
<1>9. ASSUME NEW r \in Relays, Opens(r)
      PROVE  s \in Audible'
  <2>1. subs'[j] = [subs[j] EXCEPT !.at[r] = IF @ = "opening" THEN "live" ELSE @]
        /\ closing' = closing /\ retiring' = retiring
    BY <1>9 DEF Opens, pageVars
  <2>2. subs[j] \in SubType
    BY Indices
  <2>3. \A q \in Relays : subs[j].at[q] \notin {"none", "closed"}
                          => subs'[j].at[q] \notin {"none", "closed"}
    BY <2>1, <2>2 DEF SubType
  <2>4. ~Ended(subs'[j])
    BY <1>1, <2>3 DEF Ended
  <2>5. j \notin closing' /\ \A t \in retiring' : t[1] # j
    BY <1>1, <2>1
  <2> QED
    BY <1>0, <2>4, <2>5, GoesOn
<1>10. ~ \/ \E r \in Relays : Drop(r)
         \/ \E i \in DOMAIN subs, r \in Relays : EndSubscription(i, r)
         \/ \E i \in DOMAIN calls, r \in Relays : Refuse(i, r)
  BY DEF Drop, EndSubscription, Refuse, Break, Undisturbed
<1>11. CASE \/ RaceTimer \/ (\E i \in DOMAIN calls, r \in Relays : Accept(i, r)) \/ Signer
            \/ UNCHANGED vars
  <2>1. UNCHANGED <<subs, closing, retiring>>
    BY <1>11 DEF RaceTimer, Accept, Signer, Scan, Stranger, Leave, Answer, Decline, SayNothing,
                 Give, pageVars, netVars, vars
  <2> QED
    BY <1>2, <2>1
<1>12. CASE Client
  BY <1>3, <1>4, <1>5, <1>6, <1>7, <1>8, <1>11, <1>12 DEF Client, Deliver
<1>13. CASE Network
  BY <1>9, <1>10, <1>11, <1>13 DEF Network
<1> QED
  BY <1>11, <1>12, <1>13 DEF Next

(* A signer that connects is heard. *)
LEMMA ConnectedHears ==
  ASSUME Types, Undisturbed', NEW w \in wire, Connected(w)
  PROVE  w.signer \in Audible'
<1>1. /\ closing' = closing \cup {w.sub} /\ retiring' = retiring
      /\ subs' = Append(subs, Subscription(w.signer, offered))
  BY DEF Connected
<1>2. w.sub \in 1 .. Len(subs) /\ w.signer \in Signers
  BY Indices DEF Types, WireType
<1>3. offered \in SUBSET Relays /\ Placed'
  BY RelaySets DEF Undisturbed, Types, ClientType
<1>4. closing' \subseteq 1 .. Len(subs) /\ \A t \in retiring' : t[1] \in 1 .. Len(subs)
  BY <1>1, <1>2, Indices
<1> QED
  BY <1>1, <1>2, <1>3, <1>4, NewStays

LEMMA PeerStays ==
  ASSUME [Next]_vars
  PROVE  peer' = peer \/ \E w \in wire : Connected(w) /\ peer' = w.signer
BY DEF Next, Client, Network, Signer, Deliver, Connected, Ignored, Response, SwitchRelays,
       CloseFinished, RaceTimer, GetPublicKey, SignEvent, Retire, Opens, Drop, EndSubscription,
       Accept, Refuse, Scan, Stranger, Leave, Answer, Decline, SayNothing, Give, pageVars, vars

LEMMA HeardStep ==
  ASSUME Types, CurrentIsPeers, Heard, [Next]_vars
  PROVE  Heard'
<1> SUFFICES ASSUME Undisturbed'
             PROVE  /\ \A i \in DOMAIN calls' : calls'[i].to \in Audible'
                    /\ phase' \in {"racing", "ready"} => peer' \in Audible'
  BY DEF Heard
<1>1. Undisturbed /\ Undisturbed'
  BY BrokenGrows, PlacedBefore DEF Undisturbed
<1>2. /\ CallsType /\ ClientType /\ WireType
      /\ Len(calls) \in Nat /\ DOMAIN calls = 1 .. Len(calls)
  BY DEF Types, CallsType
<1>3. \A i \in DOMAIN calls : calls[i].to \in Audible'
  BY <1>1, <1>2, HearsStep DEF Heard
<1>4. phase' \in {"racing", "ready"} => peer' \in Audible'
  <2> SUFFICES ASSUME phase' \in {"racing", "ready"} PROVE peer' \in Audible'
    OBVIOUS
  <2>1. CASE \E w \in wire : Connected(w) /\ peer' = w.signer
    BY <1>1, <2>1, ConnectedHears
  <2>2. CASE peer' = peer /\ ~\E w \in wire : Connected(w) /\ peer' = w.signer
    <3>1. ASSUME NEW w \in wire, Connected(w) PROVE FALSE
      BY <2>2, <3>1 DEF Connected
    <3>2. phase \in {"racing", "ready"}
      BY <1>2, <3>1, PhaseCases
    <3>3. peer \in Audible
      BY <1>1, <3>2 DEF Heard
    <3> QED
      BY <1>1, <2>2, <3>3, HearsStep
  <2> QED
    BY <2>1, <2>2, PeerStays
<1>5. \A i \in DOMAIN calls' : calls'[i].to \in Audible'
  <2>1. CASE CallsKeep
    BY <1>3, <2>1 DEF CallsKeep, Evolves
  <2>2. CASE Requests
    <3>1. PICK m \in Methods, to \in Signers, rs \in SUBSET Relays :
            Asks(m, to, rs) /\ to \in Audible'
      <4>1. ASSUME NEW w \in wire, Connected(w)
            PROVE  \E m \in Methods, to \in Signers, rs \in SUBSET Relays :
                     Asks(m, to, rs) /\ to \in Audible'
        <5>1. Asks("switch_relays", w.signer, offered) /\ w.signer \in Signers
          BY <1>2, <4>1 DEF Connected, Asks, WireType
        <5>2. offered \in SUBSET Relays
          BY <1>2, RelaySets DEF ClientType
        <5> QED
          BY <1>1, <4>1, <5>1, <5>2, ConnectedHears DEF Methods
      <4>2. CASE GetPublicKey \/ SignEvent
        <5>1. peer \in Audible /\ peer \in Signers /\ bp \in SUBSET Relays
          BY <1>1, <1>2, <4>2, RelaySets DEF Heard, GetPublicKey, SignEvent, ClientType
        <5>2. peer \in Audible'
          BY <1>1, <5>1, HearsStep
        <5>3. Asks("get_public_key", peer, bp) \/ Asks("sign_event", peer, bp)
          BY <4>2 DEF GetPublicKey, SignEvent, SendRequest, Asks
        <5> QED
          BY <5>1, <5>2, <5>3 DEF Methods
      <4> QED
        BY <2>2, <4>1, <4>2 DEF Requests
    <3> DEFINE new == Request(m, to, rs)
               n == Len(calls)
    <3>2. new.to = to
      BY DEF Request
    <3> HIDE DEF new
    <3>3. calls' = Append(calls, new) /\ calls \in Seq(CallType)
      BY <1>2, <3>1 DEF Asks, new, CallsType
    <3>4. /\ n \in Nat /\ DOMAIN calls = 1 .. n /\ DOMAIN calls' = 1 .. n + 1
          /\ calls'[n + 1] = new /\ \A k \in 1 .. n : calls'[k] = calls[k]
      BY <3>3, AppendPointwise
    <3> HIDE DEF n
    <3>5. \A i \in 1 .. n + 1 : i = n + 1 \/ i \in 1 .. n
      BY <3>4
    <3> QED
      BY <1>3, <3>1, <3>2, <3>4, <3>5
  <2> QED
    BY <1>2, <2>1, <2>2, NextCalls
<1> QED
  BY <1>4, <1>5

LEMMA CurrentStep ==
  ASSUME Types, CurrentIsPeers, [Next]_vars
  PROVE  CurrentIsPeers'
<1>0. SubsGrow
  BY NextSubs DEF Types
<1>1. ASSUME current' \in {0, current}, peer' = peer
      PROVE  CurrentIsPeers'
  <2>1. current # 0 => current \in DOMAIN subs
    BY Indices
  <2> QED
    BY <1>0, <1>1, <2>1 DEF SubsGrow, CurrentIsPeers
<1>2. ASSUME NEW s \in Signers, NEW rs, subs' = Append(subs, Subscription(s, rs)),
             current' = Len(subs) + 1, peer' = s
      PROVE  CurrentIsPeers'
  <2> DEFINE new == Subscription(s, rs)
  <2>1. new \in SubType /\ new.from = s /\ subs \in Seq(SubType)
    BY SubscriptionType, Indices
  <2> HIDE DEF new
  <2>2. subs'[Len(subs) + 1] = new
    BY <1>2, <2>1, AppendPointwise DEF new
  <2> QED
    BY <1>2, <2>1, <2>2 DEF CurrentIsPeers
<1>3. ASSUME NEW w \in wire, Deliver(w)
      PROVE  CurrentIsPeers'
  <2>1. CASE Connected(w)
    BY <1>2, <2>1 DEF Connected, Types, WireType
  <2>2. CASE Ignored(w) \/ Response(w)
    BY <1>1, <2>2 DEF Ignored, Response, pageVars
  <2>3. CASE SwitchRelays(w)
    BY <1>1, <1>2, <2>3, Indices DEF SwitchRelays
  <2> QED
    BY <1>3, <2>1, <2>2, <2>3 DEF Deliver
<1>4. CASE GetPublicKey \/ SignEvent
  BY <1>1, <1>2, <1>4, Indices DEF GetPublicKey, SignEvent, SendRequest
<1>5. CASE \/ RaceTimer \/ (\E t \in retiring : Retire(t)) \/ (\E r \in Relays : Opens(r))
           \/ (\E i \in DOMAIN calls, r \in Relays : Accept(i, r)) \/ Signer \/ UNCHANGED vars
  BY <1>1, <1>5 DEF RaceTimer, Retire, Opens, Accept, Signer, Scan, Stranger, Leave, Answer,
                    Decline, SayNothing, Give, pageVars, vars
<1>6. ASSUME \/ \E i \in DOMAIN subs : CloseFinished(i)
             \/ \E r \in Relays : Drop(r)
             \/ \E i \in DOMAIN subs, r \in Relays : EndSubscription(i, r)
             \/ \E i \in DOMAIN calls, r \in Relays : Refuse(i, r)
      PROVE  CurrentIsPeers'
  BY <1>1, <1>6 DEF CloseFinished, Drop, EndSubscription, Refuse, Become
<1> QED
  BY <1>3, <1>4, <1>5, <1>6 DEF Next, Client, Network

(* While no relay fails, a call that waits is listened for by a subscription *)
(* to the signer it was sent to, whatever other signer reads the link too   *)
(* and replaces it, and whenever answers to switch_relays arrive and timers *)
(* run: none of them takes a call its last subscription away.               *)
THEOREM CallsAlwaysHeard == Spec => []CallsStayHeard
<1> DEFINE Inv == Types /\ FlagType /\ CurrentIsPeers /\ Heard
<1>1. Init => Inv
  <2> SUFFICES ASSUME Init PROVE Inv
    OBVIOUS
  <2>1. Types /\ FlagType
    BY TypesInit
  <2>2. /\ Len(subs) = 1 /\ DOMAIN subs = {1} /\ DOMAIN calls = {}
        /\ subs[1].from = IF phase = "waiting" THEN "anyone" ELSE peer
        /\ \A r \in Relays : subs[1].at[r] = IF r \in offered THEN "opening" ELSE "none"
        /\ closing = {} /\ retiring = {} /\ current = IF phase = "waiting" THEN 0 ELSE 1
        /\ phase \in {"waiting", "ready", "failed"} /\ peer \in Signers
        /\ offered \subseteq Relays
    BY RelaySets DEF Init
  <2>3. CurrentIsPeers
    BY <2>2 DEF CurrentIsPeers
  <2>4. ASSUME Undisturbed, phase = "ready" PROVE peer \in Audible
    <3>1. ~Ended(subs[1])
      BY <2>2, <2>4 DEF Ended, Undisturbed, Placed
    <3>2. ~IsOffer(subs[1])
      BY <2>2, <2>4, SignerAssumption DEF IsOffer
    <3> QED
      BY <2>2, <2>4, <3>1, <3>2 DEF Audible, Stays
  <2> QED
    BY <2>1, <2>2, <2>3, <2>4 DEF Heard
<1>2. Inv /\ [Next]_vars => Inv'
  BY TypesStep, CurrentStep, HeardStep
<1>3. Inv => CallsStayHeard
  <2> SUFFICES ASSUME Heard, broken = {}, Placed, NEW i \in DOMAIN calls
               PROVE  \E j \in DOMAIN subs : subs[j].from = calls[i].to /\ ~Ended(subs[j])
    BY DEF CallsStayHeard
  <2> QED
    BY DEF Heard, Undisturbed, Audible, Stays
<1> QED
  BY <1>1, <1>2, <1>3, PTL DEF Spec
=============================================================================
