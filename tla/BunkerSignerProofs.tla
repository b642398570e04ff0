------------------------- MODULE BunkerSignerProofs -------------------------
(***************************************************************************)
(* What the NIP-46 client keeps for any relays, links and signers and any  *)
(* number of failures: its types, that one working relay is enough, and    *)
(* that it implements RemoteSigner.                                        *)
(***************************************************************************)
EXTENDS BunkerSigner, SequenceTheorems, TLAPS

SubType ==
  [from: Signers \cup {"anyone"}, at: [Relays -> {"none", "opening", "live", "closed"}]]

CallType ==
  [method: {"switch_relays", "get_public_key", "sign_event"}, to: Signers,
   promise: {"pending", "resolved", "rejected"}, heard: BOOLEAN, given: BOOLEAN,
   at: [Relays -> {"none", "opening", "sent", "ok", "failed"}]]

Says == {"secret", "guess", "result", "error", "nothing"}

ClientType ==
  /\ phase \in {"waiting", "racing", "ready", "failed"}
  /\ offered \in Offers /\ bp \in Offers \cup Switches /\ peer \in Signers
  /\ current \in 0 .. Len(subs) /\ closing \subseteq DOMAIN subs
  /\ retiring \subseteq (DOMAIN subs) \X (DOMAIN subs)

SubsType == subs \in Seq(SubType) /\ Len(subs) >= 1

(* A subscription is live or waits at a relay as the pool's connection is. *)
Links ==
  /\ conn \in [Relays -> {"down", "opening", "up"}]
  /\ \A i \in DOMAIN subs, r \in Relays :
       /\ subs[i].at[r] = "live" => conn[r] = "up"
       /\ subs[i].at[r] = "opening" => conn[r] = "opening"

CallsType == calls \in Seq(CallType)

(* The page has made two calls at the most. *)
AskedType ==
  /\ asked \in Seq(Nat) /\ Len(asked) <= 2
  /\ \A k \in DOMAIN asked : asked[k] \in DOMAIN calls

(* An event on its way is for a live subscription, and is an answer that the *)
(* signer has given or, with the secret, the word of one that read the link. *)
WireType ==
  \A w \in wire :
    /\ w.sub \in DOMAIN subs /\ w.relay \in Relays /\ Live(w.sub, w.relay)
    /\ w.call \in 0 .. Len(calls) /\ w.says \in Says /\ w.signer \in Signers
    /\ w.call = 0 => IsOffer(subs[w.sub])
    /\ w.call # 0 => calls[w.call].given
    /\ w.call # 0 /\ w.says = "result" /\ calls[w.call].method = "switch_relays"
         => w.relays \in Switches \cup {offered}
    /\ w.call = 0 /\ w.says = "secret" => scanned # {}

SignerType ==
  /\ signerAt \in [Signers -> SUBSET Relays] /\ broken \subseteq Relays
  /\ hit \cup lost \subseteq 0 .. Len(calls) /\ faults \in 0 .. MaxFaults

FlagType == scanned \subseteq Signers /\ unruly \in BOOLEAN

-----------------------------------------------------------------------------
(* Facts about sequences and the operators of BunkerSigner *)

LEMMA RelaySets ==
  /\ \A rs \in Offers \cup Switches : rs \in SUBSET Relays
  /\ MaxFaults \in Nat
BY SignerAssumption

(* A function on 1 .. n with values in T is a sequence over T. *)
LEMMA SeqPointwise ==
  ASSUME NEW T, NEW n \in Nat, NEW f, f = [i \in 1 .. n |-> f[i]], \A i \in 1 .. n : f[i] \in T
  PROVE  f \in Seq(T) /\ Len(f) = n /\ DOMAIN f = 1 .. n
<1>1. f \in [1 .. n -> T]
  OBVIOUS
<1>2. f \in Seq(T)
  BY <1>1, SeqDef
<1> QED
  BY <1>1, <1>2

LEMMA AppendPointwise ==
  ASSUME NEW T, NEW s \in Seq(T), NEW e
  PROVE  /\ Len(s) \in Nat /\ DOMAIN s = 1 .. Len(s)
         /\ Len(Append(s, e)) = Len(s) + 1 /\ DOMAIN Append(s, e) = 1 .. Len(s) + 1
         /\ Append(s, e)[Len(s) + 1] = e /\ \A i \in 1 .. Len(s) : Append(s, e)[i] = s[i]
         /\ Append(s, e) = [i \in 1 .. Len(s) + 1 |-> IF i \in 1 .. Len(s) THEN s[i] ELSE e]
<1> DEFINE a == Append(s, e)
<1>1. Len(s) \in Nat /\ DOMAIN s = 1 .. Len(s)
  OBVIOUS
<1>2. Len(a) = Len(s) + 1
  OBVIOUS
<1>3. DOMAIN a = 1 .. Len(s) + 1 /\ a = [i \in 1 .. Len(s) + 1 |-> a[i]]
  <2>1. s \in Seq(T \cup {e})
    OBVIOUS
  <2>2. a \in Seq(T \cup {e}) /\ Len(a) = Len(s) + 1
    BY <2>1, AppendProperties
  <2> HIDE DEF a
  <2>3. DOMAIN a = 1 .. Len(a) /\ a = [i \in 1 .. Len(a) |-> a[i]]
    BY <2>2
  <2> QED
    BY <2>2, <2>3
<1>4. a[Len(s) + 1] = e /\ \A i \in 1 .. Len(s) : a[i] = s[i]
  OBVIOUS
<1> HIDE DEF a
<1>5. \A i \in 1 .. Len(s) + 1 : a[i] = IF i \in 1 .. Len(s) THEN s[i] ELSE e
  BY <1>1, <1>4
<1>6. a = [i \in 1 .. Len(s) + 1 |-> IF i \in 1 .. Len(s) THEN s[i] ELSE e]
  BY <1>3, <1>5
<1> QED
  BY <1>1, <1>2, <1>3, <1>4, <1>6 DEF a

LEMMA SubscriptionType ==
  ASSUME NEW rs, NEW from \in Signers \cup {"anyone"}
  PROVE  Subscription(from, rs) \in SubType /\ Subscription(from, rs).from = from
BY DEF Subscription, SubType

LEMMA RequestType ==
  ASSUME NEW rs, NEW m \in {"switch_relays", "get_public_key", "sign_event"}, NEW s \in Signers
  PROVE  /\ Request(m, s, rs) \in CallType
         /\ \A r \in Relays : Request(m, s, rs).at[r] # "failed"
BY DEF Request, CallType

LEMMA ClosedType ==
  ASSUME NEW s \in SubType
  PROVE  /\ Closed(s) \in SubType /\ Closed(s).from = s.from
         /\ \A q \in Relays :
              /\ Closed(s).at[q] \notin {"live", "opening"}
              /\ Closed(s).at[q] = "none" <=> s.at[q] = "none"
<1>1. s = [from |-> s.from, at |-> s.at] /\ s.at \in [Relays -> {"none", "opening", "live", "closed"}]
  BY DEF SubType
<1>2. Closed(s) = [from |-> s.from, at |-> [q \in Relays |->
                     IF s.at[q] \in {"opening", "live"} THEN "closed" ELSE s.at[q]]]
  BY <1>1 DEF Closed
<1> QED
  BY <1>1, <1>2 DEF SubType

LEMMA ClosedAtType ==
  ASSUME NEW s \in SubType, NEW r \in Relays
  PROVE  /\ ClosedAt(s, r) \in SubType /\ ClosedAt(s, r).from = s.from
         /\ ClosedAt(s, r).at[r] \notin {"live", "opening"}
         /\ \A q \in Relays : /\ q # r => ClosedAt(s, r).at[q] = s.at[q]
                              /\ ClosedAt(s, r).at[q] = "none" <=> s.at[q] = "none"
<1>1. s = [from |-> s.from, at |-> s.at] /\ s.at \in [Relays -> {"none", "opening", "live", "closed"}]
  BY DEF SubType
<1>2. ClosedAt(s, r) = [from |-> s.from, at |-> [s.at EXCEPT ![r] =
                          IF @ \in {"opening", "live"} THEN "closed" ELSE @]]
  BY <1>1 DEF ClosedAt
<1> QED
  BY <1>1, <1>2 DEF SubType

(* What a step may do to a call that has been made. *)
Evolves(c, d, failed) ==
  /\ d \in CallType /\ d.method = c.method /\ d.to = c.to
  /\ \A r \in Relays :
       /\ d.at[r] = "none" <=> c.at[r] = "none"
       /\ d.at[r] = "failed" => c.at[r] = "failed" \/ r \in failed
  /\ c.given => d.given
  /\ \/ d.promise = c.promise
     \/ c.promise = "pending" /\ d.promise \in {"resolved", "rejected"} /\ c.given
     \/ /\ c.promise = "pending" /\ d.promise = "rejected"
        /\ \A r \in Relays : d.at[r] \in {"none", "failed"}

LEMMA EvolvesSame ==
  ASSUME NEW c \in CallType, NEW failed
  PROVE  Evolves(c, c, failed)
BY DEF Evolves

LEMMA OutcomeEvolves ==
  ASSUME NEW c \in CallType, NEW says \in Says, NEW failed, c.given
  PROVE  /\ Evolves(c, Outcome(c, says), failed) /\ Outcome(c, says).given = c.given
         /\ Outcome(c, says).promise # c.promise => c.promise = "pending"
BY DEF Outcome, Evolves, CallType, Says

LEMMA SettledEvolves ==
  ASSUME NEW c \in CallType
  PROVE  /\ Evolves(c, Settled(c), {}) /\ Settled(c).at = c.at /\ Settled(c).given = c.given
         /\ Settled(c).heard = c.heard
BY DEF Settled, Evolves, CallType

-----------------------------------------------------------------------------
(* What the steps do to subscriptions and connections *)

Subscribes(s, rs) ==
  /\ subs' = subs \/ subs' = Append(subs, Subscription(s, rs))
  /\ conn' = Dialled(rs)

LEMMA SubsCases ==
  ASSUME ClientType, WireType, Next
  PROVE  \/ UNCHANGED <<subs, conn>>
         \/ \E s \in Signers, rs \in SUBSET Relays : Subscribes(s, rs)
         \/ \E i \in DOMAIN subs : CloseFinished(i)
         \/ \E r \in Relays : Opens(r) \/ Drop(r)
         \/ \E i \in DOMAIN subs, r \in Relays : EndSubscription(i, r)
<1>0. offered \in SUBSET Relays /\ bp \in SUBSET Relays /\ peer \in Signers
  BY RelaySets DEF ClientType
<1>1. ASSUME NEW w \in wire, Deliver(w)
      PROVE  \/ UNCHANGED <<subs, conn>>
             \/ \E s \in Signers, rs \in SUBSET Relays : Subscribes(s, rs)
  <2>1. CASE Connected(w)
    <3>1. Subscribes(w.signer, offered)
      BY <2>1 DEF Connected, Subscribes
    <3> QED
      BY <1>0, <3>1 DEF WireType
  <2>2. CASE Ignored(w) \/ Response(w)
    BY <2>2 DEF Ignored, Response
  <2>3. CASE SwitchRelays(w)
    <3>1. \/ UNCHANGED <<subs, conn>>
          \/ /\ w.call # 0 /\ w.says = "result" /\ calls[w.call].method = "switch_relays"
             /\ Subscribes(peer, w.relays)
      BY <2>3 DEF SwitchRelays, Subscribes
    <3> QED
      BY <1>0, <3>1, RelaySets DEF WireType
  <2> QED
    BY <1>1, <2>1, <2>2, <2>3 DEF Deliver
<1>2. CASE GetPublicKey \/ SignEvent
  BY <1>2, <1>0 DEF GetPublicKey, SignEvent, SendRequest, Subscribes
<1>3. CASE RaceTimer \/ \E timer \in retiring : Retire(timer)
  BY <1>3 DEF RaceTimer, Retire, netVars
<1>4. ASSUME NEW i \in DOMAIN calls, NEW r \in Relays, Accept(i, r) \/ Refuse(i, r)
      PROVE  UNCHANGED <<subs, conn>>
  BY <1>4 DEF Accept, Refuse, Become
<1>5. CASE Signer
  BY <1>5 DEF Signer, Scan, Stranger, Leave, Answer, Decline, SayNothing, Give, netVars, pageVars
<1> QED
  BY <1>1, <1>2, <1>3, <1>4, <1>5 DEF Next, Client, Network

(* Subscriptions keep their places, their kinds and their relays.           *)
SubsGrow ==
  /\ Len(subs') \in {Len(subs), Len(subs) + 1} /\ Len(subs) \in Nat
  /\ DOMAIN subs = 1 .. Len(subs) /\ DOMAIN subs' = 1 .. Len(subs')
  /\ \A i \in DOMAIN subs :
       /\ subs[i] \in SubType /\ subs'[i] \in SubType /\ subs'[i].from = subs[i].from
       /\ \A r \in Relays : subs'[i].at[r] = "none" <=> subs[i].at[r] = "none"

LEMMA SubsPointwise ==
  ASSUME SubsType, subs' = [i \in DOMAIN subs |-> subs'[i]],
         \A i \in DOMAIN subs : subs'[i] \in SubType /\ subs'[i].from = subs[i].from
                               /\ \A r \in Relays : subs'[i].at[r] = "none" <=> subs[i].at[r] = "none"
  PROVE  SubsType' /\ SubsGrow /\ Len(subs') = Len(subs)
<1>1. /\ Len(subs) \in Nat /\ DOMAIN subs = 1 .. Len(subs)
      /\ \A i \in DOMAIN subs : subs[i] \in SubType
  BY DEF SubsType
<1>2. subs' \in Seq(SubType) /\ Len(subs') = Len(subs) /\ DOMAIN subs' = 1 .. Len(subs)
  BY <1>1, SeqPointwise
<1> QED
  BY <1>1, <1>2 DEF SubsType, SubsGrow

LEMMA NextSubs ==
  ASSUME ClientType, SubsType, Links, WireType, [Next]_vars
  PROVE  SubsType' /\ SubsGrow /\ Links'
<1>0. /\ Len(subs) \in Nat /\ DOMAIN subs = 1 .. Len(subs)
      /\ \A i \in DOMAIN subs : subs[i] \in SubType
      /\ conn \in [Relays -> {"down", "opening", "up"}]
  BY DEF SubsType, Links
<1>1. CASE UNCHANGED <<subs, conn>>
  BY <1>1, <1>0 DEF SubsType, SubsGrow, Links
<1>2. ASSUME NEW s \in Signers, NEW rs \in SUBSET Relays, Subscribes(s, rs)
      PROVE  SubsType' /\ SubsGrow /\ Links'
  <2> DEFINE new == Subscription(s, rs)
  <2>1. new \in SubType
    BY SubscriptionType
  <2>2. \A r \in Relays :
          /\ conn'[r] = IF r \in rs /\ conn[r] = "down" THEN "opening" ELSE conn[r]
          /\ new.at[r] = IF r \notin rs THEN "none" ELSE IF conn[r] = "up" THEN "live" ELSE "opening"
    BY <1>2 DEF Subscribes, Dialled, Subscription
  <2>3. conn' \in [Relays -> {"down", "opening", "up"}]
    BY <1>2, <1>0 DEF Subscribes, Dialled
  <2> HIDE DEF new
  <2>4. CASE subs' = subs
    BY <2>4, <2>2, <2>3, <1>0 DEF SubsType, SubsGrow, Links
  <2>5. CASE subs' = Append(subs, new)
    <3>1. /\ subs' \in Seq(SubType) /\ Len(subs') = Len(subs) + 1 /\ subs'[Len(subs) + 1] = new
          /\ DOMAIN subs' = 1 .. Len(subs) + 1
          /\ \A i \in DOMAIN subs : subs'[i] = subs[i]
      BY <2>1, <2>5, <1>0 DEF SubsType
    <3>2. SubsType' /\ SubsGrow
      BY <3>1, <1>0 DEF SubsType, SubsGrow
    <3>3. ASSUME NEW i \in DOMAIN subs', NEW r \in Relays
          PROVE  /\ subs'[i].at[r] = "live" => conn'[r] = "up"
                 /\ subs'[i].at[r] = "opening" => conn'[r] = "opening"
      <4>1. CASE i \in DOMAIN subs
        BY <4>1, <3>1, <2>2 DEF Links
      <4>2. CASE i = Len(subs) + 1
        BY <4>2, <3>1, <2>2, <1>0
      <4> QED
        BY <4>1, <4>2, <3>1, <1>0
    <3> QED
      BY <3>2, <3>3, <2>3 DEF Links
  <2> QED
    BY <1>2, <2>4, <2>5 DEF Subscribes, new
<1>3. ASSUME NEW i \in DOMAIN subs, CloseFinished(i)
      PROVE  SubsType' /\ SubsGrow /\ Links'
  <2>1. /\ subs' = [k \in DOMAIN subs |-> subs'[k]] /\ conn' = conn
        /\ subs'[i] = Closed(subs[i]) /\ \A k \in DOMAIN subs : k # i => subs'[k] = subs[k]
    BY <1>3, <1>0 DEF CloseFinished, Become
  <2>2. \A k \in DOMAIN subs : subs'[k] \in SubType /\ subs'[k].from = subs[k].from
          /\ \A r \in Relays : subs'[k].at[r] = "none" <=> subs[k].at[r] = "none"
    BY <2>1, <1>0, ClosedType
  <2>3. SubsType' /\ SubsGrow /\ Len(subs') = Len(subs)
    BY <2>1, <2>2, SubsPointwise
  <2>4. \A k \in DOMAIN subs, r \in Relays : subs'[k].at[r] \in {"live", "opening"}
          => subs'[k].at[r] = subs[k].at[r]
    BY <2>1, <1>0, ClosedType
  <2> QED
    BY <2>1, <2>3, <2>4, <1>0 DEF Links, SubsGrow
<1>4. ASSUME NEW r \in Relays, Opens(r)
      PROVE  SubsType' /\ SubsGrow /\ Links'
  <2>1. /\ conn[r] = "opening" /\ conn' = [conn EXCEPT ![r] = "up"]
        /\ subs' = [k \in DOMAIN subs |-> subs'[k]]
        /\ \A k \in DOMAIN subs :
             subs'[k] = [subs[k] EXCEPT !.at[r] = IF @ = "opening" THEN "live" ELSE @]
    BY <1>4 DEF Opens
  <2>2. \A k \in DOMAIN subs :
          /\ subs'[k] \in SubType /\ subs'[k].from = subs[k].from
          /\ subs'[k].at[r] = IF subs[k].at[r] = "opening" THEN "live" ELSE subs[k].at[r]
          /\ \A q \in Relays : q # r => subs'[k].at[q] = subs[k].at[q]
    BY <2>1, <1>0 DEF SubType
  <2>3. SubsType' /\ SubsGrow /\ Len(subs') = Len(subs)
    BY <2>1, <2>2, SubsPointwise
  <2> QED
    BY <2>1, <2>2, <2>3, <1>0 DEF Links, SubsGrow
<1>5. ASSUME NEW r \in Relays, Drop(r)
      PROVE  SubsType' /\ SubsGrow /\ Links'
  <2>1. /\ conn' = [conn EXCEPT ![r] = "down"]
        /\ subs' = [k \in DOMAIN subs |-> subs'[k]]
        /\ \A k \in DOMAIN subs : subs'[k] = ClosedAt(subs[k], r)
    BY <1>5 DEF Drop, Become
  <2>2. \A k \in DOMAIN subs :
          /\ subs'[k] \in SubType /\ subs'[k].from = subs[k].from
          /\ subs'[k].at[r] \notin {"live", "opening"}
          /\ \A q \in Relays : /\ q # r => subs'[k].at[q] = subs[k].at[q]
                               /\ subs'[k].at[q] = "none" <=> subs[k].at[q] = "none"
    BY <2>1, <1>0, ClosedAtType
  <2>3. SubsType' /\ SubsGrow /\ Len(subs') = Len(subs)
    BY <2>1, <2>2, SubsPointwise
  <2> QED
    BY <2>1, <2>2, <2>3, <1>0 DEF Links, SubsGrow
<1>6. ASSUME NEW i \in DOMAIN subs, NEW r \in Relays, EndSubscription(i, r)
      PROVE  SubsType' /\ SubsGrow /\ Links'
  <2>1. /\ subs' = [k \in DOMAIN subs |-> subs'[k]] /\ conn' = conn
        /\ subs'[i] = ClosedAt(subs[i], r) /\ \A k \in DOMAIN subs : k # i => subs'[k] = subs[k]
    BY <1>6, <1>0 DEF EndSubscription, Become
  <2>2. \A k \in DOMAIN subs : subs'[k] \in SubType /\ subs'[k].from = subs[k].from
          /\ \A q \in Relays : subs'[k].at[q] = "none" <=> subs[k].at[q] = "none"
    BY <2>1, <1>0, ClosedAtType
  <2>3. SubsType' /\ SubsGrow /\ Len(subs') = Len(subs)
    BY <2>1, <2>2, SubsPointwise
  <2>4. \A k \in DOMAIN subs, q \in Relays : subs'[k].at[q] \in {"live", "opening"}
          => subs'[k].at[q] = subs[k].at[q]
    <3>1. subs[i] \in SubType
      BY <1>0
    <3>2. /\ ClosedAt(subs[i], r).at[r] \notin {"live", "opening"}
          /\ \A q \in Relays : q # r => ClosedAt(subs[i], r).at[q] = subs[i].at[q]
      BY <3>1, ClosedAtType
    <3> QED
      BY <2>1, <3>2
  <2> QED
    BY <2>1, <2>3, <2>4, <1>0 DEF Links, SubsGrow
<1>7. CASE UNCHANGED vars
  BY <1>1, <1>7 DEF vars, netVars
<1> QED
  BY <1>1, <1>2, <1>3, <1>4, <1>5, <1>6, <1>7, SubsCases

-----------------------------------------------------------------------------
(* What the steps do to the calls *)

Methods == {"switch_relays", "get_public_key", "sign_event"}

Asks(m, s, rs) == calls' = Append(calls, Request(m, s, rs))

(* The steps that send a request. *)
Requests == (\E w \in wire : Connected(w)) \/ GetPublicKey \/ SignEvent

Hears(w) == w.call # 0 /\ calls' = [calls EXCEPT ![w.call] = Outcome(@, w.says)]

LEMMA RequestsAsk ==
  ASSUME ClientType, WireType, Requests
  PROVE  \E m \in Methods, s \in Signers, rs \in SUBSET Relays : Asks(m, s, rs)
<1>0. offered \in SUBSET Relays /\ bp \in SUBSET Relays /\ peer \in Signers
  BY RelaySets DEF ClientType
<1>1. ASSUME NEW w \in wire, Connected(w)
      PROVE  \E m \in Methods, s \in Signers, rs \in SUBSET Relays : Asks(m, s, rs)
  <2>1. Asks("switch_relays", w.signer, offered) /\ w.signer \in Signers
    BY <1>1 DEF Connected, Asks, WireType
  <2> QED
    BY <1>0, <2>1 DEF Methods
<1>2. CASE GetPublicKey
  BY <1>0, <1>2 DEF GetPublicKey, SendRequest, Asks, Methods
<1>3. CASE SignEvent
  BY <1>0, <1>3 DEF SignEvent, SendRequest, Asks, Methods
<1> QED
  BY <1>1, <1>2, <1>3 DEF Requests

LEMMA CallsCases ==
  ASSUME [Next]_vars
  PROVE  \/ calls' = calls
         \/ Requests
         \/ \E w \in wire : Hears(w)
         \/ \E r \in Relays : Opens(r) \/ Drop(r)
         \/ \E i \in DOMAIN calls, r \in Relays : Accept(i, r) \/ Refuse(i, r)
         \/ \E i \in DOMAIN calls : \E says, relays : Give(i, says, relays)
<1>1. ASSUME NEW w \in wire, Deliver(w)
      PROVE  calls' = calls \/ Hears(w) \/ Connected(w)
  BY <1>1 DEF Deliver, Ignored, Response, SwitchRelays, Hears
<1>2. ASSUME NEW i \in DOMAIN subs, CloseFinished(i)
      PROVE  calls' = calls
  BY <1>2 DEF CloseFinished, Become
<1>3. CASE \/ RaceTimer \/ (\E timer \in retiring : Retire(timer)) \/ UNCHANGED vars
           \/ \E signer \in Signers : Scan(signer) \/ Stranger(signer) \/ Leave(signer)
           \/ \E i \in DOMAIN subs, r \in Relays : EndSubscription(i, r)
  BY <1>3 DEF RaceTimer, Retire, Scan, Stranger, Leave, EndSubscription, Become, vars, netVars
<1>4. ASSUME NEW i \in DOMAIN calls, Answer(i) \/ Decline(i) \/ SayNothing(i)
      PROVE  \E says, relays : Give(i, says, relays)
  BY <1>4 DEF Answer, Decline, SayNothing
<1> QED
  BY <1>1, <1>2, <1>3, <1>4 DEF Next, Client, Network, Signer, Requests

(* Calls evolve in their places; a step that gives an answer settles none.  *)
CallsKeep ==
  /\ calls' \in Seq(CallType) /\ Len(calls') = Len(calls) /\ DOMAIN calls' = DOMAIN calls
  /\ \A i \in DOMAIN calls : Evolves(calls[i], calls'[i], broken')
  /\ \/ \A i \in DOMAIN calls : calls'[i].given = calls[i].given
     \/ \E i \in DOMAIN calls :
          /\ calls[i].given = FALSE /\ calls'[i].given = TRUE
          /\ \A k \in DOMAIN calls : calls'[k].promise = calls[k].promise
          /\ \A k \in DOMAIN calls \ {i} : calls'[k].given = calls[k].given

LEMMA CallsPointwise ==
  ASSUME CallsType, calls' = [i \in DOMAIN calls |-> calls'[i]],
         \A i \in DOMAIN calls : Evolves(calls[i], calls'[i], broken')
  PROVE  /\ calls' \in Seq(CallType) /\ Len(calls') = Len(calls) /\ DOMAIN calls' = DOMAIN calls
<1>1. Len(calls) \in Nat /\ DOMAIN calls = 1 .. Len(calls)
  BY DEF CallsType
<1>2. \A i \in DOMAIN calls : calls'[i] \in CallType
  BY DEF Evolves
<1> QED
  BY <1>1, <1>2, SeqPointwise

LEMMA NextCalls ==
  ASSUME ClientType, CallsType, WireType, [Next]_vars
  PROVE  CallsKeep \/ Requests
<1>0. /\ Len(calls) \in Nat /\ DOMAIN calls = 1 .. Len(calls)
      /\ \A i \in DOMAIN calls : calls[i] \in CallType
  BY DEF CallsType
<1>1. CASE calls' = calls
  BY <1>0, <1>1, EvolvesSame DEF CallsKeep, CallsType
<1>2. ASSUME NEW w \in wire, Hears(w)
      PROVE  CallsKeep
  <2>1. w.call \in DOMAIN calls /\ calls[w.call].given /\ w.says \in Says
    BY <1>0, <1>2 DEF WireType, Hears
  <2>2. /\ calls' = [i \in DOMAIN calls |-> calls'[i]]
        /\ calls'[w.call] = Outcome(calls[w.call], w.says)
        /\ \A i \in DOMAIN calls : i # w.call => calls'[i] = calls[i]
    BY <1>0, <1>2, <2>1 DEF Hears
  <2>3. \A i \in DOMAIN calls : Evolves(calls[i], calls'[i], broken')
                               /\ calls'[i].given = calls[i].given
    BY <1>0, <2>1, <2>2, EvolvesSame, OutcomeEvolves
  <2> QED
    BY <2>2, <2>3, CallsPointwise DEF CallsKeep
<1>3. ASSUME NEW r \in Relays, Opens(r)
      PROVE  CallsKeep
  <2>1. /\ calls' = [i \in DOMAIN calls |-> calls'[i]]
        /\ \A i \in DOMAIN calls :
             calls'[i] = [calls[i] EXCEPT !.at[r] = IF @ = "opening" THEN "sent" ELSE @]
    BY <1>3 DEF Opens
  <2>2. \A i \in DOMAIN calls : Evolves(calls[i], calls'[i], broken')
                               /\ calls'[i].given = calls[i].given
    BY <1>0, <2>1 DEF Evolves, CallType
  <2> QED
    BY <2>1, <2>2, CallsPointwise DEF CallsKeep
<1>4. ASSUME NEW r \in Relays, Drop(r)
      PROVE  CallsKeep
  <2> DEFINE failed(c) == [c EXCEPT !.at[r] = IF @ \in {"opening", "sent"} THEN "failed" ELSE @]
  <2>1. /\ calls' = [i \in DOMAIN calls |-> calls'[i]] /\ r \in broken'
        /\ \A i \in DOMAIN calls : calls'[i] = Settled(failed(calls[i]))
    BY <1>4 DEF Drop, Become, Break
  <2>2. \A i \in DOMAIN calls :
          Evolves(calls[i], failed(calls[i]), broken') /\ failed(calls[i]).given = calls[i].given
          /\ failed(calls[i]).promise = calls[i].promise /\ failed(calls[i]) \in CallType
    BY <1>0, <2>1 DEF Evolves, CallType
  <2> HIDE DEF failed
  <2>3. \A i \in DOMAIN calls : Evolves(calls[i], calls'[i], broken')
                               /\ calls'[i].given = calls[i].given
    BY <2>1, <2>2, SettledEvolves DEF Evolves
  <2> QED
    BY <2>1, <2>3, CallsPointwise DEF CallsKeep
<1>5. ASSUME NEW i \in DOMAIN calls, NEW r \in Relays, Accept(i, r)
      PROVE  CallsKeep
  <2> DEFINE h == calls[i].heard \/ Listening(i, r)
  <2>0. h \in BOOLEAN
    BY DEF Listening
  <2>1. /\ calls' = [k \in DOMAIN calls |-> calls'[k]]
        /\ calls'[i] = [calls[i] EXCEPT !.at[r] = "ok", !.heard = h]
        /\ calls[i].at[r] = "sent"
        /\ \A k \in DOMAIN calls : k # i => calls'[k] = calls[k]
    BY <1>0, <1>5 DEF Accept
  <2> HIDE DEF h
  <2>2. Evolves(calls[i], calls'[i], broken') /\ calls'[i].given = calls[i].given
    <3> DEFINE c == calls[i]
               d == [c EXCEPT !.at[r] = "ok", !.heard = h]
    <3>1. c \in CallType /\ c.at[r] = "sent"
      BY <1>0, <2>1
    <3> HIDE DEF c
    <3>2. d \in CallType /\ d.method = c.method /\ d.to = c.to /\ d.promise = c.promise /\ d.given = c.given
      BY <2>0, <3>1 DEF CallType
    <3>3. d.at[r] = "ok" /\ \A q \in Relays : q # r => d.at[q] = c.at[q]
      BY <3>1 DEF CallType
    <3> HIDE DEF d
    <3>4. Evolves(c, d, broken')
      BY <3>1, <3>2, <3>3 DEF Evolves
    <3> QED
      BY <2>1, <3>2, <3>4 DEF c, d
  <2>3. \A k \in DOMAIN calls : Evolves(calls[k], calls'[k], broken')
                               /\ calls'[k].given = calls[k].given
    BY <1>0, <2>1, <2>2, EvolvesSame
  <2> QED
    BY <2>1, <2>3, CallsPointwise DEF CallsKeep
<1>6. ASSUME NEW i \in DOMAIN calls, NEW r \in Relays, Refuse(i, r)
      PROVE  CallsKeep
  <2>1. PICK h \in {calls[i].heard, calls[i].heard \/ Listening(i, r)} :
          calls' = [calls EXCEPT ![i] = Settled([@ EXCEPT !.at[r] = "failed", !.heard = h])]
    BY <1>6 DEF Refuse, Become
  <2> DEFINE c == [calls[i] EXCEPT !.at[r] = "failed", !.heard = h]
  <2>2. /\ calls' = [k \in DOMAIN calls |-> calls'[k]] /\ calls'[i] = Settled(c)
        /\ \A k \in DOMAIN calls : k # i => calls'[k] = calls[k]
    BY <1>0, <2>1
  <2>3. calls[i].at[r] = "sent" /\ r \in broken' /\ h \in BOOLEAN
    BY <1>0, <1>6 DEF Refuse, Break, CallType, Listening
  <2>4. Evolves(calls[i], c, broken') /\ c.given = calls[i].given /\ c \in CallType
        /\ c.promise = calls[i].promise
    BY <1>0, <2>3 DEF Evolves, CallType
  <2> HIDE DEF c
  <2>5. Evolves(calls[i], calls'[i], broken') /\ calls'[i].given = calls[i].given
    BY <2>2, <2>4, SettledEvolves DEF Evolves
  <2>6. \A k \in DOMAIN calls : Evolves(calls[k], calls'[k], broken')
                               /\ calls'[k].given = calls[k].given
    BY <1>0, <2>2, <2>5, EvolvesSame
  <2> QED
    BY <2>2, <2>6, CallsPointwise DEF CallsKeep
<1>7. ASSUME NEW i \in DOMAIN calls, NEW says, NEW relays, Give(i, says, relays)
      PROVE  CallsKeep
  <2>1. /\ calls' = [k \in DOMAIN calls |-> calls'[k]]
        /\ calls'[i] = [calls[i] EXCEPT !.given = TRUE] /\ ~calls[i].given
        /\ \A k \in DOMAIN calls : k # i => calls'[k] = calls[k]
    BY <1>0, <1>7 DEF Give
  <2>2. /\ Evolves(calls[i], calls'[i], broken') /\ calls'[i].promise = calls[i].promise
        /\ calls'[i].given = TRUE
    BY <1>0, <2>1 DEF Evolves, CallType
  <2>3. calls[i].given = FALSE
    BY <1>0, <2>1 DEF CallType
  <2>4. \A k \in DOMAIN calls : Evolves(calls[k], calls'[k], broken')
                               /\ calls'[k].promise = calls[k].promise
    BY <1>0, <2>1, <2>2, EvolvesSame
  <2> QED
    BY <2>1, <2>2, <2>3, <2>4, CallsPointwise DEF CallsKeep
<1> QED
  BY <1>1, <1>2, <1>3, <1>4, <1>5, <1>6, <1>7, CallsCases

-----------------------------------------------------------------------------
(* Events on their way *)

(* An event that the signer or a stranger has just sent. *)
Fresh(w) ==
  /\ subs' = subs /\ w.sub \in DOMAIN subs /\ w.relay \in Relays /\ Live(w.sub, w.relay)
  /\ w.signer \in Signers
  /\ w.call = 0 => IsOffer(subs[w.sub])
  /\ \/ w.call = 0 /\ w.says = "guess"
     \/ w.call = 0 /\ w.says = "secret" /\ scanned' # {}
     \/ /\ w.call \in DOMAIN calls /\ w.says \in {"result", "error", "nothing"}
        /\ calls' = [calls EXCEPT ![w.call].given = TRUE]
        /\ w.says = "result" /\ calls[w.call].method = "switch_relays"
             => w.relays \in Switches \cup {offered}

LEMMA ForwardedItems ==
  ASSUME NEW from, NEW signer \in Signers, NEW call, NEW says, NEW relays,
         NEW w \in Forwarded(from, signer, call, says, relays), SignerType
  PROVE  /\ w.signer = signer /\ w.call = call /\ w.says = says /\ w.relays = relays
         /\ w.sub \in DOMAIN subs /\ w.relay \in Relays /\ Live(w.sub, w.relay)
         /\ subs[w.sub].from = from
<1>1. PICK q \in (DOMAIN subs) \X signerAt[signer] :
        /\ w = Item(signer, call, says, relays, q[1], q[2])
        /\ subs[q[1]].from = from /\ Live(q[1], q[2])
  BY DEF Forwarded
<1>2. signerAt[signer] \subseteq Relays
  BY DEF SignerType
<1> QED
  BY <1>1, <1>2 DEF Item

LEMMA WireNew ==
  ASSUME ClientType, CallsType, SignerType, [Next]_vars, NEW w \in wire', w \notin wire
  PROVE  Fresh(w)
<1>1. CASE Client \/ UNCHANGED vars
  BY <1>1 DEF Client, Deliver, Connected, Ignored, Response, SwitchRelays, CloseFinished, Become,
              RaceTimer, GetPublicKey, SignEvent, Retire, netVars, vars
<1>2. CASE Network
  BY <1>2 DEF Network, Opens, Drop, EndSubscription, Accept, Refuse, Become
<1>3. ASSUME NEW signer \in Signers, Scan(signer)
      PROVE  Fresh(w)
  <2>1. w \in Forwarded("anyone", signer, 0, "secret", {}) /\ subs' = subs /\ scanned' # {}
    BY <1>3 DEF Scan
  <2> QED
    BY <2>1, ForwardedItems DEF Fresh, IsOffer
<1>4. ASSUME NEW signer \in Signers, Stranger(signer)
      PROVE  Fresh(w)
  <2>1. w \in Forwarded("anyone", signer, 0, "guess", {}) /\ subs' = subs
    BY <1>4 DEF Stranger
  <2> QED
    BY <2>1, ForwardedItems DEF Fresh, IsOffer
<1>5. ASSUME NEW i \in DOMAIN calls, NEW says \in {"result", "error", "nothing"}, NEW relays,
             Give(i, says, relays), subs' = subs,
             says = "result" /\ calls[i].method = "switch_relays" => relays \in Switches \cup {offered}
      PROVE  Fresh(w)
  <2>0. calls[i].to \in Signers
    <3>1. calls[i] \in CallType
      BY DEF CallsType
    <3> QED
      BY <3>1 DEF CallType
  <2>1. /\ w \in Forwarded(calls[i].to, calls[i].to, i, says, relays)
        /\ calls' = [calls EXCEPT ![i].given = TRUE]
    BY <1>5 DEF Give
  <2>2. /\ w.signer \in Signers /\ w.call = i /\ w.says = says /\ w.relays = relays
        /\ w.sub \in DOMAIN subs /\ w.relay \in Relays /\ Live(w.sub, w.relay)
    BY <2>0, <2>1, ForwardedItems
  <2>3. i # 0
    BY DEF CallsType
  <2> QED
    BY <1>5, <2>1, <2>2, <2>3 DEF Fresh
<1>6. ASSUME NEW i \in DOMAIN calls, Answer(i)
      PROVE  Fresh(w)
  <2>1. PICK relays \in IF calls[i].method = "switch_relays" THEN Switches \cup {offered} ELSE {{}} :
          Give(i, "result", relays)
    BY <1>6 DEF Answer
  <2>2. subs' = subs
    BY <2>1 DEF Give
  <2>3. calls[i].method = "switch_relays" => relays \in Switches \cup {offered}
    BY <2>1
  <2> QED
    BY <1>5, <2>1, <2>2, <2>3
<1>7. ASSUME NEW i \in DOMAIN calls, Decline(i) \/ SayNothing(i)
      PROVE  Fresh(w)
  <2>1. PICK says \in {"error", "nothing"} : Give(i, says, {}) /\ subs' = subs
    BY <1>7 DEF Decline, SayNothing, Give
  <2> QED
    BY <1>5, <2>1
<1>8. ASSUME NEW signer \in Signers, Leave(signer)
      PROVE  Fresh(w)
  BY <1>8 DEF Leave, netVars
<1> QED
  BY <1>1, <1>2, <1>3, <1>4, <1>6, <1>7, <1>8 DEF Next, Signer

LEMMA WireLive ==
  ASSUME ClientType, SubsType, Links, CallsType, WireType, SignerType, [Next]_vars, NEW w \in wire'
  PROVE  w.sub \in DOMAIN subs' /\ w.relay \in Relays /\ subs'[w.sub].at[w.relay] = "live"
<1>0. DOMAIN subs \subseteq DOMAIN subs' /\ \A i \in DOMAIN subs : subs[i] \in SubType
  <2>1. SubsGrow
    BY NextSubs
  <2>2. \A i \in DOMAIN subs : subs[i] \in SubType
    BY <2>1 DEF SubsGrow
  <2> DEFINE m == Len(subs')
             n == Len(subs)
  <2>3. n \in Nat /\ m \in {n, n + 1} /\ DOMAIN subs = 1 .. n /\ DOMAIN subs' = 1 .. m
    BY <2>1 DEF SubsGrow
  <2> HIDE DEF m, n
  <2> QED
    BY <2>2, <2>3
<1>1. CASE w \notin wire
  BY <1>1, WireNew DEF Fresh, Live
<1>2. CASE w \in wire /\ wire' = {x \in wire : subs'[x.sub].at[x.relay] = "live"}
  BY <1>0, <1>2 DEF WireType
<1>3. CASE w \in wire /\ (subs' = subs \/ \E s, rs : subs' = Append(subs, Subscription(s, rs)))
  <2>1. w.sub \in DOMAIN subs /\ w.relay \in Relays /\ subs[w.sub].at[w.relay] = "live"
    BY <1>3 DEF WireType, Live
  <2>2. subs'[w.sub] = subs[w.sub]
    BY <1>3, <2>1 DEF SubsType
  <2> QED
    BY <1>0, <2>1, <2>2
<1>4. ASSUME w \in wire, NEW r \in Relays, Opens(r)
      PROVE  w.sub \in DOMAIN subs' /\ w.relay \in Relays /\ subs'[w.sub].at[w.relay] = "live"
  <2>1. w.sub \in DOMAIN subs /\ w.relay \in Relays /\ subs[w.sub].at[w.relay] = "live"
    BY <1>4 DEF WireType, Live
  <2>2. /\ subs[w.sub].at \in [Relays -> {"none", "opening", "live", "closed"}]
        /\ subs'[w.sub].at = [subs[w.sub].at EXCEPT ![r] = IF @ = "opening" THEN "live" ELSE @]
    <3>1. subs'[w.sub] = [subs[w.sub] EXCEPT !.at[r] = IF @ = "opening" THEN "live" ELSE @]
      BY <1>4, <2>1 DEF Opens
    <3>2. subs[w.sub] \in SubType
      BY <1>0, <2>1
    <3> QED
      BY <3>1, <3>2 DEF SubType
  <2> QED
    BY <1>0, <2>1, <2>2
<1>5. \/ wire' = {x \in wire : subs'[x.sub].at[x.relay] = "live"}
      \/ subs' = subs \/ (\E s, rs : subs' = Append(subs, Subscription(s, rs)))
      \/ \E r \in Relays : Opens(r)
  <2>1. CASE UNCHANGED <<subs, conn>> \/ \E s \in Signers, rs \in SUBSET Relays : Subscribes(s, rs)
    BY <2>1 DEF Subscribes
  <2>2. ASSUME NEW i \in DOMAIN subs, CloseFinished(i)
        PROVE  wire' = {x \in wire : subs'[x.sub].at[x.relay] = "live"}
    BY <2>2 DEF CloseFinished, Become
  <2>3. ASSUME NEW r \in Relays, Drop(r)
        PROVE  wire' = {x \in wire : subs'[x.sub].at[x.relay] = "live"}
    BY <2>3 DEF Drop, Become
  <2>4. ASSUME NEW i \in DOMAIN subs, NEW r \in Relays, EndSubscription(i, r)
        PROVE  wire' = {x \in wire : subs'[x.sub].at[x.relay] = "live"}
    BY <2>4 DEF EndSubscription, Become
  <2>5. CASE UNCHANGED vars
    BY <2>5 DEF vars, netVars
  <2>6. CASE Next
    BY <2>1, <2>2, <2>3, <2>4, <2>6, SubsCases
  <2> QED
    BY <2>5, <2>6
<1> QED
  BY <1>1, <1>2, <1>3, <1>4, <1>5
-----------------------------------------------------------------------------
(* The type invariant *)

Types ==
  /\ ClientType /\ SubsType /\ Links /\ CallsType /\ AskedType /\ WireType /\ SignerType

(* Calls keep their places, their methods and that they have been answered.  *)
CallsGrow ==
  /\ calls' \in Seq(CallType) /\ Len(calls') \in {Len(calls), Len(calls) + 1} /\ Len(calls) \in Nat
  /\ DOMAIN calls = 1 .. Len(calls) /\ DOMAIN calls' = 1 .. Len(calls')
  /\ \A i \in DOMAIN calls : Evolves(calls[i], calls'[i], broken')

LEMMA NextCallsGrow ==
  ASSUME ClientType, CallsType, WireType, [Next]_vars
  PROVE  CallsGrow
<1>0. /\ Len(calls) \in Nat /\ DOMAIN calls = 1 .. Len(calls)
      /\ \A i \in DOMAIN calls : calls[i] \in CallType
  BY DEF CallsType
<1>1. CASE CallsKeep
  BY <1>0, <1>1 DEF CallsKeep, CallsGrow
<1>2. ASSUME NEW m \in Methods, NEW s \in Signers, NEW rs \in SUBSET Relays, Asks(m, s, rs)
      PROVE  CallsGrow
  <2> DEFINE new == Request(m, s, rs)
  <2>1. new \in CallType
    BY RequestType DEF Methods
  <2> HIDE DEF new
  <2>2. calls' = Append(calls, new)
    BY <1>2 DEF Asks, new
  <2>3. /\ calls' \in Seq(CallType) /\ Len(calls') = Len(calls) + 1
        /\ DOMAIN calls' = 1 .. Len(calls') /\ \A i \in DOMAIN calls : calls'[i] = calls[i]
    BY <1>0, <2>1, <2>2 DEF CallsType
  <2> QED
    BY <1>0, <2>3, EvolvesSame DEF CallsGrow
<1> QED
  BY <1>1, <1>2, NextCalls, RequestsAsk

LEMMA ScannedStays == ASSUME [Next]_vars PROVE scanned \subseteq scanned'
BY DEF Next, Client, Network, Signer, Deliver, Connected, Ignored, Response, SwitchRelays,
       CloseFinished, RaceTimer, GetPublicKey, SignEvent, Retire, Opens, Drop, EndSubscription,
       Accept, Refuse, Scan, Stranger, Leave, Answer, Decline, SayNothing, Give, signerVars, vars

LEMMA OfferedStays == ASSUME [Next]_vars PROVE offered' = offered
BY DEF Next, Client, Network, Signer, Deliver, Connected, Ignored, Response, SwitchRelays,
       CloseFinished, RaceTimer, GetPublicKey, SignEvent, Retire, Opens, Drop, EndSubscription,
       Accept, Refuse, Scan, Stranger, Leave, Answer, Decline, SayNothing, Give, vars

LEMMA AskedStays ==
  ASSUME [Next]_vars
  PROVE  asked' = asked \/ GetPublicKey \/ SignEvent
BY DEF Next, Client, Network, Signer, Deliver, Connected, Ignored, Response, SwitchRelays,
       CloseFinished, RaceTimer, Retire, Opens, Drop, EndSubscription, Accept, Refuse,
       Scan, Stranger, Leave, Answer, Decline, SayNothing, Give, pageVars, vars

LEMMA NextAsked ==
  ASSUME Types, [Next]_vars
  PROVE  AskedType'
<1> USE DEF Types
<1>0. /\ Len(calls) \in Nat /\ DOMAIN calls = 1 .. Len(calls) /\ DOMAIN calls' = 1 .. Len(calls')
      /\ Len(calls') \in {Len(calls), Len(calls) + 1}
  BY NextCallsGrow DEF CallsGrow
<1>1. DOMAIN calls \subseteq DOMAIN calls'
  <2> DEFINE m == Len(calls')
             n == Len(calls)
  <2> HIDE DEF m, n
  <2>1. n \in Nat /\ m \in {n, n + 1} => 1 .. n \subseteq 1 .. m
    OBVIOUS
  <2> QED
    BY <1>0, <2>1 DEF m, n
<1>2. CASE asked' = asked
  BY <1>1, <1>2 DEF AskedType
<1>3. CASE GetPublicKey \/ SignEvent
  <2>1. /\ Len(asked) <= 1 /\ asked' = Append(asked, Len(calls) + 1)
        /\ \/ calls' = Append(calls, Request("get_public_key", peer, bp))
           \/ calls' = Append(calls, Request("sign_event", peer, bp))
    <3>1. CASE GetPublicKey
      <4>1. Len(asked) = 0
        BY <3>1 DEF GetPublicKey
      <4> QED
        BY <3>1, <4>1 DEF GetPublicKey, SendRequest
    <3>2. CASE SignEvent
      BY <3>2 DEF SignEvent, SendRequest
    <3> QED
      BY <1>3, <3>1, <3>2
  <2>2. DOMAIN calls' = 1 .. Len(calls) + 1 /\ Len(calls) + 1 \in DOMAIN calls'
    <3>1. calls \in Seq(CallType)
      BY DEF CallsType
    <3>2. DOMAIN calls' = 1 .. Len(calls) + 1
      BY <2>1, <3>1, AppendPointwise
    <3>3. \A n \in Nat : n + 1 \in 1 .. n + 1
      OBVIOUS
    <3> QED
      BY <1>0, <3>2, <3>3
  <2>3. /\ asked' \in Seq(Nat) /\ Len(asked') <= 2
        /\ \A k \in DOMAIN asked' : asked'[k] = Len(calls) + 1 \/ (k \in DOMAIN asked /\ asked'[k] = asked[k])
    <3> DEFINE new == Len(calls) + 1
    <3>1. new \in Nat /\ asked \in Seq(Nat)
      <4>1. Len(calls) \in Nat
        BY <1>0
      <4>2. \A n \in Nat : n + 1 \in Nat
        OBVIOUS
      <4> QED
        BY <4>1, <4>2 DEF AskedType
    <3> HIDE DEF new
    <3>2. asked' = Append(asked, new) /\ asked' \in Seq(Nat)
      BY <2>1, <3>1 DEF new
    <3>3. /\ Len(asked') = Len(asked) + 1 /\ DOMAIN asked' = 1 .. Len(asked) + 1
          /\ asked'[Len(asked) + 1] = new /\ \A k \in 1 .. Len(asked) : asked'[k] = asked[k]
          /\ Len(asked) \in Nat /\ DOMAIN asked = 1 .. Len(asked)
      BY <3>1, <3>2, AppendPointwise
    <3>4. \A k \in 1 .. Len(asked) + 1 : k = Len(asked) + 1 \/ k \in 1 .. Len(asked)
      BY <3>3
    <3> QED
      BY <2>1, <3>2, <3>3, <3>4 DEF new
  <2> QED
    BY <1>1, <2>2, <2>3 DEF AskedType
<1> QED
  BY <1>2, <1>3, AskedStays

LEMMA NextWire ==
  ASSUME Types, [Next]_vars
  PROVE  WireType'
<1> USE DEF Types
<1>0. CallsGrow
  BY NextCallsGrow
<1>1. /\ Len(calls) \in Nat /\ DOMAIN calls = 1 .. Len(calls)
      /\ Len(calls') \in {Len(calls), Len(calls) + 1}
      /\ \A i \in DOMAIN calls :
           calls'[i].method = calls[i].method /\ (calls[i].given => calls'[i].given)
  BY <1>0 DEF CallsGrow, Evolves
<1>2. 0 .. Len(calls) \subseteq 0 .. Len(calls')
  <2> DEFINE m == Len(calls')
             n == Len(calls)
  <2>1. n \in Nat /\ m \in {n, n + 1}
    BY <1>1
  <2> HIDE DEF m, n
  <2>2. 0 .. n \subseteq 0 .. m
    BY <2>1
  <2> QED
    BY <2>2 DEF m, n
<1>10. /\ offered' = offered
       /\ \A i \in DOMAIN subs : IsOffer(subs[i]) => IsOffer(subs'[i])
  BY OfferedStays, NextSubs DEF SubsGrow, IsOffer
<1>3. SUFFICES ASSUME NEW w \in wire'
      PROVE  /\ w.call \in 0 .. Len(calls') /\ w.says \in Says /\ w.signer \in Signers
             /\ w.call = 0 => IsOffer(subs'[w.sub])
             /\ w.call # 0 => calls'[w.call].given
             /\ w.call # 0 /\ w.says = "result" /\ calls'[w.call].method = "switch_relays"
                  => w.relays \in Switches \cup {offered'}
             /\ w.call = 0 /\ w.says = "secret" => scanned' # {}
  BY WireLive DEF WireType, Live, IsOffer
<1>4. CASE w \in wire
  <2>1. /\ w.call \in 0 .. Len(calls) /\ w.says \in Says /\ w.signer \in Signers
        /\ w.call # 0 => calls[w.call].given
        /\ w.call # 0 /\ w.says = "result" /\ calls[w.call].method = "switch_relays"
             => w.relays \in Switches \cup {offered}
        /\ w.call = 0 => IsOffer(subs[w.sub]) /\ w.sub \in DOMAIN subs
        /\ w.call = 0 /\ w.says = "secret" => scanned # {}
    BY <1>4 DEF WireType
  <2>2. w.call # 0 => w.call \in DOMAIN calls
    BY <1>1, <2>1
  <2> QED
    BY <1>1, <1>2, <1>10, <2>1, <2>2, ScannedStays
<1>5. CASE w \notin wire
  <2>1. Fresh(w)
    BY <1>5, WireNew
  <2>2. CASE w.call = 0
    BY <1>1, <1>2, <1>10, <2>1, <2>2 DEF Fresh, Says
  <2>3. CASE w.call # 0
    <3>1. /\ w.call \in DOMAIN calls /\ w.says \in {"result", "error", "nothing"}
          /\ w.signer \in Signers
          /\ calls' = [calls EXCEPT ![w.call].given = TRUE]
          /\ w.says = "result" /\ calls[w.call].method = "switch_relays"
               => w.relays \in Switches \cup {offered}
      BY <2>1, <2>3 DEF Fresh
    <3>2. calls[w.call] \in CallType
      BY <3>1 DEF CallsType
    <3>3. calls'[w.call] = [calls[w.call] EXCEPT !.given = TRUE]
      BY <3>1
    <3>4. calls'[w.call].given
      BY <3>2, <3>3 DEF CallType
    <3>5. w.call \in 0 .. Len(calls')
      BY <1>1, <1>2, <3>1
    <3> QED
      BY <1>1, <1>10, <2>3, <3>1, <3>4, <3>5 DEF Says
  <2> QED
    BY <2>2, <2>3
<1> QED
  BY <1>4, <1>5

LEMMA NextFaults ==
  ASSUME SignerType, Next
  PROVE  faults' \in 0 .. MaxFaults
<1>0. MaxFaults \in Nat /\ faults \in 0 .. MaxFaults
  BY RelaySets DEF SignerType
<1>1. faults' = faults \/ Fault
  BY DEF Next, Client, Network, Signer, Deliver, Connected, Ignored, Response, SwitchRelays,
         CloseFinished, RaceTimer, GetPublicKey, SignEvent, Retire, Opens, Drop, EndSubscription,
         Accept, Refuse, Scan, Stranger, Leave, Answer, Decline, SayNothing, Misbehave, Break, boundVars
<1> QED
  BY <1>0, <1>1 DEF Fault

LEMMA NextSigner ==
  ASSUME Types, [Next]_vars
  PROVE  SignerType'
<1> USE DEF Types
<1>1. /\ Len(calls) \in Nat /\ DOMAIN calls = 1 .. Len(calls)
      /\ Len(calls') \in {Len(calls), Len(calls) + 1}
  BY NextCallsGrow DEF CallsGrow
<1>2. 0 .. Len(calls) \subseteq 0 .. Len(calls') /\ DOMAIN calls \subseteq 0 .. Len(calls')
  <2> DEFINE m == Len(calls')
             n == Len(calls)
  <2>1. n \in Nat /\ m \in {n, n + 1}
    BY <1>1
  <2> HIDE DEF m, n
  <2>2. 0 .. n \subseteq 0 .. m /\ 1 .. n \subseteq 0 .. m
    BY <2>1
  <2> QED
    BY <1>1, <2>2 DEF m, n
<1>3. /\ hit \cup lost \subseteq 0 .. Len(calls') /\ broken \subseteq Relays
      /\ signerAt \in [Signers -> SUBSET Relays]
  BY <1>2 DEF SignerType
<1>4. offered \subseteq Relays /\ bp \subseteq Relays /\ \A rs \in Switches : rs \subseteq Relays
  BY RelaySets DEF ClientType
<1>5. faults' \in 0 .. MaxFaults
  BY NextFaults DEF SignerType, vars, boundVars
<1>6. SUFFICES /\ signerAt' \in [Signers -> SUBSET Relays] /\ broken' \subseteq Relays
               /\ hit' \cup lost' \subseteq 0 .. Len(calls')
  BY <1>5 DEF SignerType
<1>7. CASE \/ Client \/ UNCHANGED vars
           \/ \E signer \in Signers : Scan(signer) \/ Stranger(signer)
  <2>1. UNCHANGED <<signerAt, broken, hit, lost>>
    BY <1>7 DEF Client, Deliver, Connected, Ignored, Response, SwitchRelays, CloseFinished,
                RaceTimer, GetPublicKey, SignEvent, Retire, Scan, Stranger, vars, signerVars,
                boundVars
  <2> QED
    BY <1>3, <2>1
<1>8. ASSUME NEW r \in Relays, Opens(r) \/ Drop(r)
      PROVE  /\ signerAt' \in [Signers -> SUBSET Relays] /\ broken' \subseteq Relays
             /\ hit' \cup lost' \subseteq 0 .. Len(calls')
  <2>1. CASE Opens(r)
    BY <1>3, <2>1 DEF Opens, signerVars, boundVars
  <2>2. CASE Drop(r)
    <3>1. /\ signerAt' = signerAt /\ broken' = broken \cup {r}
          /\ hit' \subseteq hit \cup DOMAIN calls /\ lost' \subseteq lost \cup {w.call : w \in wire}
      BY <2>2 DEF Drop, Break, signerVars
    <3>2. {w.call : w \in wire} \subseteq 0 .. Len(calls)
      BY DEF WireType
    <3> QED
      BY <1>2, <1>3, <3>1, <3>2
  <2> QED
    BY <1>8, <2>1, <2>2
<1>9. ASSUME NEW i \in DOMAIN calls, NEW r \in Relays, Accept(i, r) \/ Refuse(i, r)
      PROVE  /\ signerAt' \in [Signers -> SUBSET Relays] /\ broken' \subseteq Relays
             /\ hit' \cup lost' \subseteq 0 .. Len(calls')
  <2>1. /\ signerAt' = signerAt /\ broken' \in {broken, broken \cup {r}}
        /\ hit' \subseteq hit \cup DOMAIN calls /\ lost' = lost
    BY <1>9 DEF Accept, Refuse, Break, signerVars, boundVars
  <2> QED
    BY <1>2, <1>3, <2>1
<1>10. ASSUME NEW signer \in Signers, Leave(signer)
       PROVE  /\ signerAt' \in [Signers -> SUBSET Relays] /\ broken' \subseteq Relays
              /\ hit' \cup lost' \subseteq 0 .. Len(calls')
  <2>1. signerAt' = [signerAt EXCEPT ![signer] = bp] /\ UNCHANGED <<broken, hit, lost>>
    BY <1>10 DEF Leave
  <2> QED
    BY <1>3, <1>4, <2>1
<1>11. ASSUME NEW i \in DOMAIN calls, Answer(i) \/ Decline(i) \/ SayNothing(i)
       PROVE  /\ signerAt' \in [Signers -> SUBSET Relays] /\ broken' \subseteq Relays
              /\ hit' \cup lost' \subseteq 0 .. Len(calls')
  <2>1. PICK relays \in SUBSET Relays : \E says : Give(i, says, relays)
    <3>1. CASE Answer(i)
      <4>1. PICK relays \in IF calls[i].method = "switch_relays" THEN Switches \cup {offered} ELSE {{}} :
              Give(i, "result", relays)
        BY <3>1 DEF Answer
      <4> QED
        BY <1>4, <4>1
    <3>2. CASE Decline(i)
      <4>1. Give(i, "error", {}) /\ {} \in SUBSET Relays
        BY <3>2 DEF Decline
      <4> QED
        BY <4>1
    <3>3. CASE SayNothing(i)
      <4>1. Give(i, "nothing", {}) /\ {} \in SUBSET Relays
        BY <3>3 DEF SayNothing
      <4> QED
        BY <4>1
    <3> QED
      BY <1>11, <3>1, <3>2, <3>3
  <2>2. /\ signerAt' = [signerAt EXCEPT ![calls[i].to] = @ \cup relays]
        /\ broken' = broken /\ hit' = hit /\ lost' \subseteq lost \cup {i}
    BY <2>1 DEF Give
  <2>3. signerAt' \in [Signers -> SUBSET Relays]
    BY <1>3, <2>2
  <2> QED
    BY <1>2, <1>3, <2>2, <2>3
<1>12. ASSUME NEW i \in DOMAIN subs, NEW r \in Relays, EndSubscription(i, r)
       PROVE  /\ signerAt' \in [Signers -> SUBSET Relays] /\ broken' \subseteq Relays
              /\ hit' \cup lost' \subseteq 0 .. Len(calls')
  <2>1. /\ signerAt' = signerAt /\ broken' = broken \cup {r}
        /\ hit' \subseteq hit \cup DOMAIN calls /\ lost' \subseteq lost \cup {w.call : w \in wire}
    BY <1>12 DEF EndSubscription, Break, signerVars
  <2>2. {w.call : w \in wire} \subseteq 0 .. Len(calls)
    BY DEF WireType
  <2> QED
    BY <1>2, <1>3, <2>1, <2>2
<1> QED
  BY <1>7, <1>8, <1>9, <1>10, <1>11, <1>12 DEF Next, Network, Signer

LEMMA NextFlags ==
  ASSUME FlagType, [Next]_vars
  PROVE  FlagType'
<1>1. scanned' = scanned \/ \E signer \in Signers : scanned' = scanned \cup {signer}
  BY DEF Next, Client, Network, Signer, Deliver, Connected, Ignored, Response, SwitchRelays,
         CloseFinished, RaceTimer, GetPublicKey, SignEvent, Retire, Opens, Drop, EndSubscription,
         Accept, Refuse, Scan, Stranger, Leave, Answer, Decline, SayNothing, Give, signerVars, vars
<1>2. unruly' = unruly \/ unruly' = TRUE
  BY DEF Next, Client, Network, Signer, Deliver, Connected, Ignored, Response, SwitchRelays,
         CloseFinished, RaceTimer, GetPublicKey, SignEvent, Retire, Opens, Drop, EndSubscription,
         Accept, Refuse, Scan, Stranger, Leave, Answer, Decline, SayNothing, Give, Misbehave, boundVars, vars
<1>3. scanned' \subseteq Signers
  BY <1>1 DEF FlagType
<1> QED
  BY <1>2, <1>3, Zenon DEF FlagType

(* The page's part of the state, apart from what it has asked. *)
ClientKept ==
  /\ phase' \in {"waiting", "racing", "ready", "failed"} /\ offered' = offered
  /\ bp' \in Offers \cup Switches /\ peer' \in Signers
  /\ current' \in 0 .. Len(subs) \/ (current' = Len(subs') /\ Len(subs') = Len(subs) + 1)
  /\ closing' \subseteq 1 .. Len(subs)
  /\ \A t \in retiring' : t \in retiring
       \/ (Len(subs') = Len(subs) + 1 /\ \E k \in 1 .. Len(subs) : t = <<k, Len(subs')>>)

LEMMA ClientKeptType ==
  ASSUME ClientType, SubsGrow, ClientKept
  PROVE  ClientType'
<1> DEFINE m == Len(subs')
           n == Len(subs)
<1>1. /\ n \in Nat /\ m \in {n, n + 1} /\ DOMAIN subs = 1 .. n /\ DOMAIN subs' = 1 .. m
      /\ current' \in 0 .. n \/ (current' = m /\ m = n + 1)
      /\ closing' \subseteq 1 .. n /\ retiring \subseteq (1 .. n) \X (1 .. n)
      /\ \A t \in retiring' : t \in retiring \/ (m = n + 1 /\ \E k \in 1 .. n : t = <<k, m>>)
  BY DEF SubsGrow, ClientKept, ClientType
<1> HIDE DEF m, n
<1>2. 1 .. n \subseteq 1 .. m /\ 0 .. n \subseteq 0 .. m /\ (m = n + 1 => m \in 1 .. m)
  BY <1>1
<1>3. current' \in 0 .. m /\ closing' \subseteq 1 .. m
  BY <1>1, <1>2
<1>4. retiring' \subseteq (1 .. m) \X (1 .. m)
  BY <1>1, <1>2
<1> QED
  BY <1>1, <1>3, <1>4 DEF ClientKept, ClientType, m, n

LEMMA NextClient ==
  ASSUME Types, [Next]_vars
  PROVE  ClientType'
<1> USE DEF Types
<1>0. SubsGrow
  BY NextSubs
<1>1. /\ phase \in {"waiting", "racing", "ready", "failed"}
      /\ offered \in Offers /\ bp \in Offers \cup Switches /\ peer \in Signers
      /\ current \in 0 .. Len(subs) /\ closing \subseteq 1 .. Len(subs)
      /\ retiring \subseteq (1 .. Len(subs)) \X (1 .. Len(subs))
      /\ Len(subs) \in Nat /\ DOMAIN subs = 1 .. Len(subs) /\ subs \in Seq(SubType)
  BY <1>0 DEF ClientType, SubsGrow, SubsType
<1> SUFFICES ClientKept
  BY <1>0, ClientKeptType
<1>2. ASSUME NEW s \in Signers, NEW rs, subs' = Append(subs, Subscription(s, rs))
      PROVE  Len(subs') = Len(subs) + 1
  BY <1>1, <1>2, SubscriptionType
<1>3. ASSUME NEW w \in wire, Deliver(w)
      PROVE  ClientKept
  <2>0. w.sub \in 1 .. Len(subs) /\ w.signer \in Signers
    BY <1>1 DEF WireType
  <2>1. CASE Connected(w)
    <3>1. subs' = Append(subs, Subscription(w.signer, offered)) /\ current' = Len(subs) + 1
      BY <2>1 DEF Connected
    <3>2. Len(subs') = Len(subs) + 1
      BY <1>2, <2>0, <3>1
    <3>3. /\ phase' \in {"racing", phase} /\ offered' = offered /\ bp' = offered
          /\ peer' = w.signer /\ retiring' = retiring /\ closing' = closing \cup {w.sub}
      BY <2>1 DEF Connected
    <3> QED
      BY <1>1, <2>0, <3>1, <3>2, <3>3 DEF ClientKept
  <2>2. CASE Ignored(w) \/ Response(w)
    BY <1>1, <2>2 DEF Ignored, Response, pageVars, ClientKept
  <2>3. CASE SwitchRelays(w)
    <3>1. /\ phase' \in {phase, "ready"} /\ offered' = offered /\ closing' = closing
          /\ peer' = peer
          /\ \/ /\ bp' = w.relays
                /\ retiring' \in {retiring, retiring \cup {<<current, Len(subs) + 1>>}}
                /\ current = 0 => retiring' = retiring
                /\ subs' = Append(subs, Subscription(peer, w.relays)) /\ current' = Len(subs) + 1
                /\ w.call # 0 /\ w.says = "result" /\ calls[w.call].method = "switch_relays"
             \/ UNCHANGED <<bp, retiring, current>>
      BY <2>3 DEF SwitchRelays
    <3>2. CASE UNCHANGED <<bp, retiring, current>>
      BY <1>1, <3>1, <3>2 DEF ClientKept
    <3>3. CASE /\ bp' = w.relays
               /\ retiring' \in {retiring, retiring \cup {<<current, Len(subs) + 1>>}}
               /\ current = 0 => retiring' = retiring
               /\ subs' = Append(subs, Subscription(peer, w.relays)) /\ current' = Len(subs) + 1
               /\ w.call # 0 /\ w.says = "result" /\ calls[w.call].method = "switch_relays"
      <4>1. Len(subs') = Len(subs) + 1
        BY <1>1, <1>2, <3>3
      <4>2. w.relays \in Offers \cup Switches
        BY <1>1, <3>3 DEF WireType
      <4>3. current # 0 => current \in 1 .. Len(subs)
        BY <1>1
      <4>4. \A t \in retiring' : t \in retiring
              \/ \E k \in 1 .. Len(subs) : t = <<k, Len(subs')>>
        BY <3>3, <4>1, <4>3
      <4> QED
        BY <1>1, <3>1, <3>3, <4>1, <4>2, <4>4 DEF ClientKept
    <3> QED
      BY <3>1, <3>2, <3>3
  <2> QED
    BY <1>3, <2>1, <2>2, <2>3 DEF Deliver
<1>14. ASSUME UNCHANGED <<offered, bp, peer, retiring>>, closing' \subseteq closing,
              phase' \in {phase, "failed", "ready"}, current' \in {0, current}
       PROVE  ClientKept
  BY <1>1, <1>14 DEF ClientKept
<1>4. ASSUME NEW s, NEW c, Become(s, c), UNCHANGED <<offered, bp, peer, retiring>>,
             closing' \subseteq closing
      PROVE  ClientKept
  BY <1>4, <1>14 DEF Become
<1>5. CASE GetPublicKey \/ SignEvent
  <2>1. /\ UNCHANGED <<offered, phase, bp, peer, closing, retiring>>
        /\ \/ UNCHANGED <<subs, current>>
           \/ subs' = Append(subs, Subscription(peer, bp)) /\ current' = Len(subs) + 1
    BY <1>5 DEF GetPublicKey, SignEvent, SendRequest
  <2>2. CASE subs' = Append(subs, Subscription(peer, bp)) /\ current' = Len(subs) + 1
    <3>1. Len(subs') = Len(subs) + 1 /\ current' = Len(subs')
      BY <1>1, <1>2, <2>2
    <3>2. /\ phase' = phase /\ offered' = offered /\ bp' = bp /\ peer' = peer
          /\ closing' = closing /\ retiring' = retiring
      BY <2>1
    <3> QED
      BY <1>1, <3>1, <3>2 DEF ClientKept
  <2> QED
    BY <1>14, <2>1, <2>2
<1>6. ASSUME NEW t \in retiring, Retire(t)
      PROVE  ClientKept
  <2>1. /\ UNCHANGED <<offered, phase, bp, peer, current, subs>>
        /\ closing' = closing \cup {t[1]} /\ retiring' = retiring \ {t}
    BY <1>6 DEF Retire, netVars
  <2>2. t[1] \in 1 .. Len(subs)
    BY <1>1
  <2> QED
    BY <1>1, <2>1, <2>2 DEF ClientKept
<1>7. ASSUME NEW i \in DOMAIN subs, CloseFinished(i)
      PROVE  \E s, c : Become(s, c) /\ UNCHANGED <<offered, bp, peer, retiring>> /\ closing' \subseteq closing
  BY <1>7 DEF CloseFinished
<1>8. ASSUME NEW r \in Relays, Drop(r)
      PROVE  \E s, c : Become(s, c) /\ UNCHANGED <<offered, bp, peer, retiring>> /\ closing' \subseteq closing
  BY <1>8 DEF Drop
<1>9. ASSUME NEW i \in DOMAIN subs, NEW r \in Relays, EndSubscription(i, r)
      PROVE  \E s, c : Become(s, c) /\ UNCHANGED <<offered, bp, peer, retiring>> /\ closing' \subseteq closing
  BY <1>9 DEF EndSubscription
<1>10. ASSUME NEW i \in DOMAIN calls, NEW r \in Relays, Refuse(i, r)
      PROVE  \E s, c : Become(s, c) /\ UNCHANGED <<offered, bp, peer, retiring>> /\ closing' \subseteq closing
  BY <1>10 DEF Refuse
<1>11. CASE \/ \E r \in Relays : Opens(r)
            \/ \E i \in DOMAIN calls, r \in Relays : Accept(i, r)
            \/ Signer \/ UNCHANGED vars
  <2>1. UNCHANGED <<offered, phase, bp, peer, current, closing, retiring>>
    BY <1>11 DEF Opens, Accept, Signer, Scan, Stranger, Leave, Answer, Decline, SayNothing, Give,
                 vars, pageVars
  <2> QED
    BY <1>14, <2>1
<1>12. CASE RaceTimer
  BY <1>12, <1>14 DEF RaceTimer
<1>13. CASE Client
  BY <1>3, <1>4, <1>5, <1>6, <1>7, <1>12, <1>13 DEF Client
<1>15. CASE Network
  BY <1>4, <1>8, <1>9, <1>10, <1>11, <1>15 DEF Network
<1> QED
  BY <1>11, <1>13, <1>15 DEF Next

LEMMA TypesInit == Init => Types /\ FlagType
<1> SUFFICES ASSUME Init PROVE Types /\ FlagType
  OBVIOUS
<1>0. offered \in Offers /\ offered \subseteq Relays /\ MaxFaults \in Nat /\ peer \in Signers
  BY RelaySets DEF Init
<1>1. subs \in Seq(SubType) /\ Len(subs) = 1 /\ DOMAIN subs = {1}
  BY <1>0 DEF Init, SubType
<1>2. /\ calls = <<>> /\ calls \in Seq(CallType) /\ Len(calls) = 0
      /\ asked = <<>> /\ asked \in Seq(Nat) /\ Len(asked) = 0 /\ DOMAIN asked = {}
  BY DEF Init
<1>3. AskedType
  BY <1>2 DEF AskedType
<1>4. ClientType
  BY <1>0, <1>1 DEF Init, ClientType
<1>5. Links
  BY <1>1 DEF Init, Links
<1>6. WireType /\ SignerType
  BY <1>0, <1>2 DEF Init, WireType, SignerType
<1>7. FlagType
  BY DEF Init, FlagType
<1> QED
  BY <1>1, <1>2, <1>3, <1>4, <1>5, <1>6, <1>7 DEF Types, SubsType, CallsType

LEMMA TypesStep == Types /\ FlagType /\ [Next]_vars => (Types /\ FlagType)'
<1> SUFFICES ASSUME Types, FlagType, [Next]_vars PROVE (Types /\ FlagType)'
  OBVIOUS
<1>1. SubsType' /\ Links'
  BY NextSubs DEF Types
<1>2. CallsType'
  BY NextCallsGrow DEF Types, CallsGrow, CallsType
<1> QED
  BY <1>1, <1>2, NextClient, NextAsked, NextWire, NextSigner, NextFlags DEF Types

(* Every variable of the client has its type; a subscription is live at a    *)
(* relay only over a connection that is up; and every event on its way is    *)
(* for a subscription that is live there.                                   *)
THEOREM TypeCorrect == Spec => []TypeOK
<1>1. Types /\ FlagType => TypeOK
  <2> SUFFICES ASSUME Types, FlagType PROVE TypeOK
    OBVIOUS
  <2>1. /\ subs \in Seq([from: Signers \cup {"anyone"},
                        at: [Relays -> {"none", "opening", "live", "closed"}]])
        /\ calls \in Seq([method: {"switch_relays", "get_public_key", "sign_event"}, to: Signers,
                          promise: {"pending", "resolved", "rejected"},
                          heard: BOOLEAN, given: BOOLEAN,
                          at: [Relays -> {"none", "opening", "sent", "ok", "failed"}]])
    BY DEF Types, SubsType, SubType, CallsType, CallType
  <2>2. scanned \subseteq Signers /\ unruly \in BOOLEAN
    BY DEF FlagType
  <2>3. asked \in Seq(DOMAIN calls) /\ Len(asked) <= 2
    BY SeqPointwise DEF Types, AskedType
  <2> QED
    BY <2>1, <2>2, <2>3 DEF Types, TypeOK, ClientType, Links, WireType, SignerType
<1> QED
  BY <1>1, TypesInit, TypesStep, PTL DEF Spec

-----------------------------------------------------------------------------
(* The phases of a client and the calls it has made in each *)

FailedBroken == \A i \in DOMAIN calls, r \in Relays : calls[i].at[r] = "failed" => r \in broken

(* A client that waits has one subscription, and where that has ended the    *)
(* relay has failed: nothing else closes an offer before a signer is found.  *)
Waiting ==
  phase = "waiting" =>
    /\ Len(subs) = 1 /\ IsOffer(subs[1]) /\ bp = offered /\ calls = <<>>
    /\ current = 0 /\ closing = {} /\ retiring = {}
    /\ \A r \in Relays : /\ subs[1].at[r] = "none" <=> r \notin offered
                         /\ subs[1].at[r] = "closed" => r \in broken

Proven == scanned # {} \/ ~IsOffer(subs[1])

(* Only a client that is ready has been asked for anything, and one that has *)
(* got beyond waiting knows a signer that has the secret.                   *)
PhaseShape ==
  /\ phase # "ready" => asked = <<>>
  /\ phase \in {"racing", "ready"} => Proven

(* The page asks for a signature after it has been given the key. *)
AskedShape ==
  Len(asked) = 2 => asked[1] # asked[2] /\ calls[asked[1]].promise = "resolved"

OfferEnded ==
  \E i \in DOMAIN subs : IsOffer(subs[i]) /\ ~Over(subs[i]) /\ Over(subs'[i])

LEMMA PhaseCases ==
  ASSUME ClientType, [Next]_vars
  PROVE  \/ phase' = phase
         \/ phase = "waiting" /\ phase' = "racing" /\ \E w \in wire : Connected(w)
         \/ phase = "racing" /\ phase' = "ready"
         \/ phase = "waiting" /\ phase' = "failed" /\ OfferEnded
<1>1. ASSUME NEW s, NEW c, Become(s, c)
      PROVE  \/ phase' = phase
             \/ phase = "racing" /\ phase' = "ready"
             \/ phase = "waiting" /\ phase' = "failed" /\ OfferEnded
  BY <1>1 DEF Become, OfferEnded
<1>2. ASSUME NEW w \in wire, Deliver(w)
      PROVE  \/ phase' = phase
             \/ phase = "waiting" /\ phase' = "racing" /\ Connected(w)
             \/ phase = "racing" /\ phase' = "ready"
  BY <1>2 DEF Deliver, Connected, Ignored, Response, SwitchRelays, pageVars
<1>3. (\E i \in DOMAIN subs : CloseFinished(i)) => \E s, c : Become(s, c)
  BY DEF CloseFinished
<1>4. (\E r \in Relays : Drop(r)) => \E s, c : Become(s, c)
  BY DEF Drop
<1>5. \/ (\E i \in DOMAIN calls, r \in Relays : Refuse(i, r))
      \/ (\E i \in DOMAIN subs, r \in Relays : EndSubscription(i, r))
      => \E s, c : Become(s, c)
  BY DEF Refuse, EndSubscription
<1>6. CASE \/ (\E r \in Relays : Opens(r)) \/ (\E i \in DOMAIN calls, r \in Relays : Accept(i, r))
           \/ Signer \/ GetPublicKey \/ SignEvent
           \/ (\E t \in retiring : Retire(t)) \/ UNCHANGED vars
  BY <1>6 DEF Opens, Accept, Signer, Scan, Stranger, Leave, Answer, Decline, SayNothing, Give,
              GetPublicKey, SignEvent, Retire, vars, pageVars
<1>7. CASE RaceTimer
  BY <1>7 DEF RaceTimer
<1> QED
  BY <1>1, <1>2, <1>3, <1>4, <1>5, <1>6, <1>7 DEF Next, Client, Network

(* Broken relays stay in the books. *)
LEMMA BrokenGrows == ASSUME [Next]_vars PROVE broken \subseteq broken'
BY DEF Next, Client, Network, Signer, Deliver, Connected, Ignored, Response, SwitchRelays,
       CloseFinished, RaceTimer, GetPublicKey, SignEvent, Retire, Opens, Drop, EndSubscription,
       Accept, Refuse, Scan, Stranger, Leave, Answer, Decline, SayNothing, Give, Break, boundVars, vars

(* Until a signer is found a step only opens or loses connections.          *)
LEMMA WaitingSteps ==
  ASSUME Types, Waiting, phase = "waiting", [Next]_vars, \A w \in wire : ~Connected(w)
  PROVE  /\ UNCHANGED <<offered, bp, current, closing, retiring>> /\ Len(calls') = 0
         /\ \/ subs' = subs
            \/ \E r \in Relays : Opens(r) \/ Drop(r)
            \/ \E i \in DOMAIN subs, r \in Relays : EndSubscription(i, r)
<1> USE DEF Types
<1>1. /\ current = 0 /\ closing = {} /\ retiring = {} /\ calls = <<>> /\ DOMAIN calls = {}
      /\ Len(calls) = 0
  BY DEF Waiting
<1>2. \A w \in wire : w.call = 0
  BY <1>1 DEF WireType
<1>3. Len(calls') = 0
  <2>1. ~Requests
    BY DEF Requests, GetPublicKey, SignEvent
  <2> QED
    BY <1>1, <2>1, NextCalls DEF CallsKeep
<1>4. ASSUME NEW w \in wire, Deliver(w)
      PROVE  UNCHANGED <<offered, bp, current, closing, retiring>> /\ subs' = subs
  BY <1>2, <1>4 DEF Deliver, Ignored, Response, SwitchRelays, pageVars
<1>5. ASSUME NEW r \in Relays, Opens(r) \/ Drop(r)
      PROVE  UNCHANGED <<offered, bp, current, closing, retiring>>
  BY <1>1, <1>5 DEF Opens, Drop, Become, pageVars
<1>6. ASSUME NEW i \in DOMAIN subs, NEW r \in Relays, EndSubscription(i, r)
      PROVE  UNCHANGED <<offered, bp, current, closing, retiring>>
  BY <1>1, <1>6 DEF EndSubscription, Become, pageVars
<1>7. CASE \/ \E signer \in Signers : Scan(signer) \/ Stranger(signer) \/ Leave(signer)
           \/ UNCHANGED vars
  BY <1>3, <1>7 DEF Scan, Stranger, Leave, vars, pageVars, netVars
<1>8. /\ ~(\E i \in DOMAIN subs : CloseFinished(i)) /\ ~RaceTimer /\ ~GetPublicKey /\ ~SignEvent
      /\ ~(\E t \in retiring : Retire(t))
  BY <1>1 DEF CloseFinished, RaceTimer, GetPublicKey, SignEvent
<1> QED
  BY <1>1, <1>3, <1>4, <1>5, <1>6, <1>7, <1>8 DEF Next, Client, Network, Signer

LEMMA OfferKept ==
  ASSUME Types, Waiting, phase = "waiting", [Next]_vars, \A w \in wire : ~Connected(w)
  PROVE  /\ Len(subs) = 1 /\ Len(subs') = 1 /\ IsOffer(subs'[1])
         /\ \A r \in Relays : /\ subs'[1].at[r] = "none" <=> r \notin offered
                              /\ subs'[1].at[r] = "closed" => r \in broken'
<1> USE DEF Types
<1>1. /\ Len(subs) = 1 /\ DOMAIN subs = {1} /\ subs[1] \in SubType /\ subs[1].from = "anyone"
      /\ \A r \in Relays : /\ subs[1].at[r] = "none" <=> r \notin offered
                           /\ subs[1].at[r] = "closed" => r \in broken
  BY DEF Waiting, SubsType, IsOffer
<1>2. /\ subs'[1].from = "anyone" /\ \A r \in Relays : subs'[1].at[r] = "none" <=> r \notin offered
      /\ DOMAIN subs' = 1 .. Len(subs') /\ Len(subs') \in {1, 2}
  BY <1>1, NextSubs DEF SubsGrow
<1>3. broken \subseteq broken'
  BY BrokenGrows
<1>4. CASE subs' = subs
  BY <1>1, <1>3, <1>4 DEF IsOffer
<1>5. ASSUME NEW r \in Relays, Opens(r)
      PROVE  Len(subs') = 1 /\ \A q \in Relays : subs'[1].at[q] = "closed" => q \in broken'
  <2>1. subs' = [k \in DOMAIN subs |-> subs'[k]]
        /\ subs'[1] = [subs[1] EXCEPT !.at[r] = IF @ = "opening" THEN "live" ELSE @]
    BY <1>1, <1>5 DEF Opens
  <2>2. DOMAIN subs' = {1}
    BY <1>1, <2>1
  <2>3. subs'[1].at = [subs[1].at EXCEPT ![r] = IF @ = "opening" THEN "live" ELSE @]
        /\ subs[1].at \in [Relays -> {"none", "opening", "live", "closed"}]
    BY <1>1, <2>1 DEF SubType
  <2>4. \A q \in Relays : subs'[1].at[q] = "closed" => subs[1].at[q] = "closed"
    BY <2>3
  <2>5. Len(subs') = 1
    <3>1. Len(subs') = 2 => 2 \in DOMAIN subs'
      BY <1>2
    <3> QED
      BY <1>2, <2>2, <3>1
  <2> QED
    BY <1>1, <1>3, <2>4, <2>5
<1>6. ASSUME NEW r \in Relays, Drop(r)
      PROVE  Len(subs') = 1 /\ \A q \in Relays : subs'[1].at[q] = "closed" => q \in broken'
  <2>1. subs' = [k \in DOMAIN subs |-> subs'[k]] /\ subs'[1] = ClosedAt(subs[1], r)
    BY <1>1, <1>6 DEF Drop, Become
  <2>2. DOMAIN subs' = {1}
    BY <1>1, <2>1
  <2>3. r \in broken'
    BY <1>6 DEF Drop, Break
  <2>4. \A q \in Relays : q # r => ClosedAt(subs[1], r).at[q] = subs[1].at[q]
    BY <1>1, ClosedAtType
  <2>5. Len(subs') = 1
    <3>1. Len(subs') = 2 => 2 \in DOMAIN subs'
      BY <1>2
    <3> QED
      BY <1>2, <2>2, <3>1
  <2> QED
    BY <1>1, <1>3, <2>1, <2>3, <2>4, <2>5
<1>7. ASSUME NEW i \in DOMAIN subs, NEW r \in Relays, EndSubscription(i, r)
      PROVE  Len(subs') = 1 /\ \A q \in Relays : subs'[1].at[q] = "closed" => q \in broken'
  <2>1. subs' = [subs EXCEPT ![1] = ClosedAt(subs[1], r)] /\ r \in broken'
    BY <1>1, <1>7 DEF EndSubscription, Become, Break
  <2>2. DOMAIN subs' = {1} /\ subs'[1] = ClosedAt(subs[1], r)
    BY <1>1, <2>1
  <2> QED
    BY <1>1, <1>2, <1>3, <2>1, <2>2, ClosedAtType
<1> QED
  BY <1>1, <1>2, <1>4, <1>5, <1>6, <1>7, WaitingSteps DEF IsOffer

LEMMA WaitingStep ==
  ASSUME Types, Waiting, [Next]_vars
  PROVE  Waiting'
<1> SUFFICES ASSUME phase' = "waiting" PROVE Waiting'
  BY DEF Waiting
<1>1. phase = "waiting" /\ \A w \in wire : ~Connected(w)
  BY PhaseCases DEF Connected, Types
<1>2. Len(calls') = 0 /\ UNCHANGED <<offered, bp, current, closing, retiring>>
  BY <1>1, WaitingSteps
<1>3. calls' = <<>>
  BY <1>2, NextCallsGrow, EmptySeq DEF Types, CallsGrow
<1> QED
  BY <1>1, <1>2, <1>3, OfferKept DEF Waiting

LEMMA FailedBrokenStep ==
  ASSUME Types, FailedBroken, [Next]_vars
  PROVE  FailedBroken'
<1> USE DEF Types
<1>0. /\ Len(calls) \in Nat /\ DOMAIN calls = 1 .. Len(calls) /\ broken \subseteq broken'
  BY BrokenGrows DEF CallsType
<1>1. CASE CallsKeep
  BY <1>0, <1>1 DEF CallsKeep, Evolves, FailedBroken
<1>2. CASE Requests
  <2>1. PICK m \in Methods, s \in Signers, rs \in SUBSET Relays : Asks(m, s, rs)
    BY <1>2, RequestsAsk
  <2> DEFINE new == Request(m, s, rs)
  <2>2. m \in {"switch_relays", "get_public_key", "sign_event"}
    BY DEF Methods
  <2>3. \A r \in Relays : new.at[r] # "failed"
    BY <2>2 DEF Request
  <2> HIDE DEF new
  <2>4. /\ calls' = Append(calls, new) /\ DOMAIN calls' = 1 .. Len(calls) + 1
        /\ calls'[Len(calls) + 1] = new /\ \A i \in DOMAIN calls : calls'[i] = calls[i]
    BY <1>0, <2>1 DEF Asks, new, CallsType
  <2> QED
    BY <1>0, <2>3, <2>4 DEF FailedBroken
<1> QED
  BY <1>1, <1>2, NextCalls

(* What the client knows of a signer, it keeps. *)
LEMMA ProvenStays ==
  ASSUME Types, [Next]_vars, Proven
  PROVE  Proven'
<1>1. 1 \in DOMAIN subs
  BY DEF Types, SubsType
<1>2. subs'[1].from = subs[1].from
  BY <1>1, NextSubs DEF Types, SubsGrow
<1> QED
  BY <1>2, ScannedStays DEF Proven, IsOffer

LEMMA PhaseShapeStep ==
  ASSUME Types, Waiting, PhaseShape, [Next]_vars
  PROVE  PhaseShape'
<1> USE DEF Types
<1>1. asked' = asked \/ (phase = "ready" /\ phase' = "ready")
  BY AskedStays DEF GetPublicKey, SignEvent
<1>2. CASE phase = "waiting" /\ phase' = "racing" /\ \E w \in wire : Connected(w)
  <2>1. scanned # {}
    BY <1>2 DEF Connected, WireType
  <2> QED
    BY <1>1, <1>2, <2>1, ProvenStays DEF PhaseShape, Proven
<1>3. CASE phase' = phase
  BY <1>1, <1>3, ProvenStays DEF PhaseShape
<1>4. CASE phase = "racing" /\ phase' = "ready"
  BY <1>4, ProvenStays DEF PhaseShape
<1>5. CASE phase = "waiting" /\ phase' = "failed"
  BY <1>1, <1>5 DEF PhaseShape
<1> QED
  BY <1>2, <1>3, <1>4, <1>5, PhaseCases

LEMMA AskedShapeStep ==
  ASSUME Types, AskedShape, [Next]_vars
  PROVE  AskedShape'
<1> USE DEF Types
<1>1. /\ Len(calls) \in Nat /\ DOMAIN calls = 1 .. Len(calls)
      /\ asked \in Seq(Nat) /\ \A k \in DOMAIN asked : asked[k] \in DOMAIN calls
      /\ \A i \in DOMAIN calls : calls[i].promise = "resolved" => calls'[i].promise = "resolved"
  BY NextCallsGrow DEF CallsGrow, Evolves, AskedType
<1>2. CASE asked' = asked
  <2>1. Len(asked) = 2 => asked[1] \in DOMAIN calls
    BY <1>1
  <2> QED
    BY <1>1, <1>2, <2>1 DEF AskedShape
<1>3. CASE GetPublicKey
  <2>1. asked' = Append(<<>>, Len(calls) + 1)
    BY <1>3 DEF GetPublicKey, SendRequest
  <2>2. Len(asked') = 1
    BY <2>1
  <2> QED
    BY <2>2 DEF AskedShape
<1>4. CASE SignEvent
  <2>1. /\ asked' = Append(asked, Len(calls) + 1) /\ Len(asked) = 1
        /\ calls[asked[1]].promise = "resolved"
    BY <1>4 DEF SignEvent, SendRequest
  <2>2. asked[1] \in DOMAIN calls /\ asked'[1] = asked[1] /\ asked'[2] = Len(calls) + 1
    <3> DEFINE new == Len(calls) + 1
    <3>1. new \in Nat /\ 1 \in DOMAIN asked
      BY <1>1, <2>1
    <3> HIDE DEF new
    <3>2. asked' = Append(asked, new)
      BY <2>1 DEF new
    <3>3. asked'[1] = asked[1] /\ asked'[2] = new
      <4>1. /\ asked'[Len(asked) + 1] = new
            /\ \A k \in 1 .. Len(asked) : asked'[k] = asked[k]
        BY <1>1, <3>2, AppendPointwise
      <4>2. Len(asked) + 1 = 2 /\ 1 \in 1 .. Len(asked)
        BY <2>1
      <4> QED
        BY <4>1, <4>2
    <3> QED
      BY <1>1, <3>1, <3>3 DEF new
  <2> QED
    BY <1>1, <2>1, <2>2 DEF AskedShape
<1> QED
  BY <1>2, <1>3, <1>4, AskedStays

LEMMA OneRelayStep ==
  ASSUME Types, Waiting, FailedBroken, OneRelaySuffices, [Next]_vars
  PROVE  OneRelaySuffices'
<1> USE DEF Types
<1>0. broken \subseteq broken' /\ FailedBroken'
  BY BrokenGrows, FailedBrokenStep
<1>1. phase' = "failed" => offered' \subseteq broken'
  <2>1. offered' = offered
    BY OfferedStays
  <2>2. CASE phase = "failed"
    BY <1>0, <2>1, <2>2 DEF OneRelaySuffices
  <2>3. CASE phase = "waiting" /\ phase' = "failed" /\ OfferEnded
    <3>1. \A w \in wire : ~Connected(w)
      BY <2>3 DEF Connected
    <3>2. /\ DOMAIN subs = {1}
          /\ \A r \in Relays : /\ subs'[1].at[r] = "none" <=> r \notin offered
                               /\ subs'[1].at[r] = "closed" => r \in broken'
      BY <2>3, <3>1, OfferKept
    <3>3. \A r \in Relays : subs'[1].at[r] \in {"none", "closed"}
      BY <2>3, <3>2 DEF OfferEnded, Over, Ended
    <3>4. offered \subseteq Relays
      BY RelaySets DEF ClientType
    <3> QED
      BY <2>1, <3>2, <3>3, <3>4
  <2> QED
    BY <2>2, <2>3, PhaseCases
<1>2. ASSUME NEW i \in DOMAIN calls', calls'[i].promise = "rejected"
      PROVE  calls'[i].given \/ Places(calls'[i]) \subseteq broken'
  <2>1. CASE CallsKeep
    <3> DEFINE c == calls[i]
               d == calls'[i]
    <3>1. i \in DOMAIN calls /\ Evolves(c, d, broken')
      BY <1>2, <2>1 DEF CallsKeep
    <3>2. CASE c.promise = "rejected"
      <4>1. c.given \/ Places(c) \subseteq broken
        BY <3>1, <3>2 DEF OneRelaySuffices
      <4>2. c.given => d.given
        BY <3>1 DEF Evolves
      <4>3. Places(d) = Places(c)
        BY <3>1 DEF Evolves, Places
      <4> QED
        BY <1>0, <4>1, <4>2, <4>3
    <3>3. CASE c.given
      BY <3>1, <3>3 DEF Evolves
    <3>4. CASE \A r \in Relays : d.at[r] \in {"none", "failed"}
      <4>1. \A r \in Relays : d.at[r] = "failed" => r \in broken'
        BY <1>0, <1>2 DEF FailedBroken
      <4> QED
        BY <3>4, <4>1 DEF Places
    <3> QED
      BY <1>2, <3>1, <3>2, <3>3, <3>4 DEF Evolves
  <2>2. CASE Requests
    <3>1. PICK m \in Methods, s \in Signers, rs \in SUBSET Relays : Asks(m, s, rs)
      BY <2>2, RequestsAsk
    <3> DEFINE new == Request(m, s, rs)
               n == Len(calls)
    <3>2. new.promise = "rejected" => Places(new) = {}
      BY DEF Request, Places
    <3> HIDE DEF new
    <3>3. calls' = Append(calls, new) /\ calls \in Seq(CallType)
      BY <3>1 DEF Asks, new, CallsType
    <3>4. /\ n \in Nat /\ DOMAIN calls = 1 .. n /\ DOMAIN calls' = 1 .. n + 1
          /\ calls'[n + 1] = new /\ \A k \in 1 .. n : calls'[k] = calls[k]
      BY <3>3
    <3> HIDE DEF n
    <3>5. CASE i = n + 1
      BY <1>2, <3>2, <3>4, <3>5
    <3>6. CASE i \in 1 .. n
      BY <1>0, <1>2, <3>4, <3>6 DEF OneRelaySuffices
    <3> QED
      BY <3>4, <3>5, <3>6
  <2> QED
    BY <2>1, <2>2, NextCalls
<1> QED
  BY <1>1, <1>2 DEF OneRelaySuffices

(* The inductive invariant *)
IInv ==
  /\ Types /\ FlagType
  /\ Waiting /\ FailedBroken /\ PhaseShape /\ AskedShape
  /\ OneRelaySuffices

LEMMA InvInit == Init => IInv
<1> SUFFICES ASSUME Init PROVE IInv
  OBVIOUS
<1>1. Types /\ FlagType
  BY TypesInit
<1>2. calls = <<>> /\ Len(calls) = 0 /\ DOMAIN calls = {} /\ asked = <<>> /\ Len(asked) = 0
  BY DEF Init
<1>3. /\ Len(subs) = 1 /\ subs[1].from = IF phase = "waiting" THEN "anyone" ELSE peer
      /\ \A r \in Relays : subs[1].at[r] = IF r \in offered THEN "opening" ELSE "none"
  BY DEF Init
<1>4. Waiting
  BY <1>2, <1>3 DEF Init, Waiting, IsOffer
<1>5. FailedBroken /\ OneRelaySuffices
  BY <1>2 DEF Init, FailedBroken, OneRelaySuffices
<1>6. PhaseShape /\ AskedShape
  <2>1. phase \in {"waiting", "ready", "failed"} /\ peer # "anyone"
    BY SignerAssumption DEF Init
  <2> QED
    BY <1>2, <1>3, <2>1 DEF PhaseShape, AskedShape, Proven, IsOffer
<1> QED
  BY <1>1, <1>4, <1>5, <1>6 DEF IInv

LEMMA InvStep == IInv /\ [Next]_vars => IInv'
<1> SUFFICES ASSUME IInv, [Next]_vars PROVE IInv'
  OBVIOUS
<1>1. (Types /\ FlagType)'
  BY TypesStep DEF IInv
<1>2. Waiting' /\ FailedBroken' /\ PhaseShape' /\ AskedShape' /\ OneRelaySuffices'
  BY WaitingStep, FailedBrokenStep, PhaseShapeStep, AskedShapeStep, OneRelayStep DEF IInv
<1> QED
  BY <1>1, <1>2 DEF IInv

(* However connections open and fail, subscriptions end and the client moves *)
(* between relays: connecting fails only when every relay of the link has   *)
(* failed, and a call is rejected only by the signer or when every relay it *)
(* was published to has failed.                                             *)
THEOREM OneRelayAlwaysSuffices == Spec => []OneRelaySuffices
<1>1. IInv => OneRelaySuffices
  BY DEF IInv
<1> QED
  BY <1>1, InvInit, InvStep, PTL DEF Spec

-----------------------------------------------------------------------------
(* Refinement.  What RemoteSigner sees of the client's state: *)

APhase == IF phase \in {"waiting", "racing"} THEN "connecting" ELSE phase
ACalls == [k \in DOMAIN asked |-> AsAbstract(calls[asked[k]])]

LEMMA AsAbstractSteps ==
  ASSUME NEW c \in CallType, NEW d \in CallType
  PROVE  /\ AsAbstract(c).given = c.given
         /\ AsAbstract(c).state = "pending" <=> c.promise = "pending"
         /\ AsAbstract(c).state = "answered" <=> c.promise = "resolved"
         /\ (d.promise = c.promise /\ d.given = c.given) => AsAbstract(d) = AsAbstract(c)
         /\ (d.promise = c.promise /\ d.given = TRUE)
              => AsAbstract(d) = [AsAbstract(c) EXCEPT !.given = TRUE]
         /\ (d.promise = "resolved" /\ d.given = c.given)
              => AsAbstract(d) = [AsAbstract(c) EXCEPT !.state = "answered"]
         /\ (d.promise = "rejected" /\ d.given = c.given)
              => AsAbstract(d) = [AsAbstract(c) EXCEPT !.state = "rejected"]
<1> DEFINE stateOf(x) == IF x.promise = "resolved" THEN "answered" ELSE x.promise
<1>1. /\ AsAbstract(c) = [state |-> stateOf(c), given |-> c.given]
      /\ AsAbstract(d) = [state |-> stateOf(d), given |-> d.given]
  BY DEF AsAbstract
<1>2. /\ c.promise \in {"pending", "resolved", "rejected"}
      /\ stateOf(c) = "pending" <=> c.promise = "pending"
      /\ stateOf(c) = "answered" <=> c.promise = "resolved"
      /\ d.promise = c.promise => stateOf(d) = stateOf(c)
      /\ d.promise = "resolved" => stateOf(d) = "answered"
      /\ d.promise = "rejected" => stateOf(d) = "rejected"
  BY DEF CallType
<1> HIDE DEF stateOf
<1>3. AsAbstract(c).given = c.given /\ AsAbstract(c).state = stateOf(c)
  BY <1>1
<1>4. (d.promise = c.promise /\ d.given = c.given) => AsAbstract(d) = AsAbstract(c)
  BY <1>1, <1>2
<1>5. (d.promise = c.promise /\ d.given = TRUE)
        => AsAbstract(d) = [AsAbstract(c) EXCEPT !.given = TRUE]
  <2> SUFFICES ASSUME d.promise = c.promise, d.given = TRUE
               PROVE  AsAbstract(d) = [AsAbstract(c) EXCEPT !.given = TRUE]
    OBVIOUS
  <2>1. AsAbstract(d) = [state |-> stateOf(c), given |-> TRUE]
    BY <1>1, <1>2, Zenon
  <2>2. \A x, y, z : [[state |-> x, given |-> y] EXCEPT !.given = z] = [state |-> x, given |-> z]
    OBVIOUS
  <2>3. [AsAbstract(c) EXCEPT !.given = TRUE]
          = [[state |-> stateOf(c), given |-> c.given] EXCEPT !.given = TRUE]
    BY <1>1, Zenon
  <2> QED
    BY <2>1, <2>2, <2>3, Zenon
<1>6. (d.promise = "resolved" /\ d.given = c.given)
        => AsAbstract(d) = [AsAbstract(c) EXCEPT !.state = "answered"]
  BY <1>1, <1>2
<1>7. (d.promise = "rejected" /\ d.given = c.given)
        => AsAbstract(d) = [AsAbstract(c) EXCEPT !.state = "rejected"]
  BY <1>1, <1>2
<1> QED
  BY <1>2, <1>3, <1>4, <1>5, <1>6, <1>7

LEMMA AskedKept == ASSUME Types, [Next]_vars, CallsKeep PROVE asked' = asked
<1>1. Len(calls) \in Nat /\ Len(calls') = Len(calls)
  BY DEF Types, CallsType, CallsKeep
<1>2. ASSUME NEW c, calls' = Append(calls, c) PROVE FALSE
  <2>1. Len(calls') = Len(calls) + 1
    BY <1>2 DEF Types, CallsType
  <2> QED
    BY <1>1, <2>1
<1> QED
  BY <1>2, AskedStays DEF GetPublicKey, SignEvent, SendRequest

(* A step that sends no request leaves the page's calls, or gives or settles *)
(* one: all but the last have been answered.                                *)
LEMMA CallsKeepAbstract ==
  ASSUME Types, AskedShape, [Next]_vars, CallsKeep
  PROVE  \/ ACalls' = ACalls
         \/ \E i \in DOMAIN ACalls :
              \/ ~ACalls[i].given /\ ACalls' = [ACalls EXCEPT ![i].given = TRUE]
              \/ /\ ACalls[i].state = "pending" /\ ACalls[i].given
                 /\ ACalls' = [ACalls EXCEPT ![i].state = "answered"]
              \/ ACalls[i].state = "pending" /\ ACalls' = [ACalls EXCEPT ![i].state = "rejected"]
<1> USE DEF Types
<1> DEFINE n == Len(asked)
           f == ACalls
           g == ACalls'
<1>1. /\ n \in Nat /\ n <= 2 /\ DOMAIN asked = 1 .. n
      /\ \A k \in 1 .. n : asked[k] \in DOMAIN calls
      /\ \A i \in DOMAIN calls : calls[i] \in CallType /\ calls'[i] \in CallType
      /\ \A i \in DOMAIN calls : Evolves(calls[i], calls'[i], broken')
  BY DEF AskedType, CallsType, CallsKeep, Evolves
<1>2. f = [k \in 1 .. n |-> AsAbstract(calls[asked[k]])]
  BY <1>1 DEF ACalls
<1>3. g = [k \in 1 .. n |-> AsAbstract(calls'[asked[k]])]
  BY <1>1, AskedKept DEF ACalls
<1>4. n = 2 => asked[1] # asked[2] /\ calls[asked[1]].promise = "resolved"
  BY DEF AskedShape
<1>5. \/ \A i \in DOMAIN calls : calls'[i].given = calls[i].given
      \/ \E i \in DOMAIN calls :
           /\ calls[i].given = FALSE /\ calls'[i].given = TRUE
           /\ \A k \in DOMAIN calls : calls'[k].promise = calls[k].promise
           /\ \A k \in DOMAIN calls \ {i} : calls'[k].given = calls[k].given
  BY DEF CallsKeep
<1> HIDE DEF n, f, g
<1>6. n \in {0, 1, 2}
  BY <1>1
<1>7. \A i, k \in 1 .. n : i # k => asked[i] # asked[k]
  BY <1>4, <1>6
<1>8. DOMAIN f = 1 .. n /\ f = [i \in DOMAIN f |-> f[i]] /\ g = [i \in DOMAIN f |-> g[i]]
      /\ \A i \in DOMAIN f : f[i] = AsAbstract(calls[asked[i]]) /\ g[i] = AsAbstract(calls'[asked[i]])
  BY <1>2, <1>3
<1>9. \A i \in DOMAIN f : calls'[asked[i]].promise = calls[asked[i]].promise
                          /\ calls'[asked[i]].given = calls[asked[i]].given => g[i] = f[i]
  <2> SUFFICES ASSUME NEW i \in DOMAIN f, calls'[asked[i]].promise = calls[asked[i]].promise,
                      calls'[asked[i]].given = calls[asked[i]].given
               PROVE  g[i] = f[i]
    OBVIOUS
  <2> DEFINE c == calls[asked[i]]
             d == calls'[asked[i]]
  <2>1. c \in CallType /\ d \in CallType /\ f[i] = AsAbstract(c) /\ g[i] = AsAbstract(d)
    BY <1>1, <1>8
  <2>2. d.promise = c.promise /\ d.given = c.given
    OBVIOUS
  <2> HIDE DEF c, d
  <2>3. AsAbstract(d) = AsAbstract(c)
    BY <2>1, <2>2, AsAbstractSteps
  <2> QED
    BY <2>1, <2>3
<1>10. ASSUME NEW i \in DOMAIN f, NEW e, g[i] = e, \A k \in DOMAIN f \ {i} : g[k] = f[k]
       PROVE  g = [f EXCEPT ![i] = e]
  BY <1>8, <1>10
<1>11. SUFFICES
         \/ g = f
         \/ \E i \in DOMAIN f :
              \/ ~f[i].given /\ g = [f EXCEPT ![i] = [f[i] EXCEPT !.given = TRUE]]
              \/ /\ f[i].state = "pending" /\ f[i].given
                 /\ g = [f EXCEPT ![i] = [f[i] EXCEPT !.state = "answered"]]
              \/ f[i].state = "pending" /\ g = [f EXCEPT ![i] = [f[i] EXCEPT !.state = "rejected"]]
  BY DEF f, g
<1>12. ASSUME NEW j \in DOMAIN calls, calls[j].given = FALSE, calls'[j].given = TRUE,
              \A k \in DOMAIN calls : calls'[k].promise = calls[k].promise,
              \A k \in DOMAIN calls \ {j} : calls'[k].given = calls[k].given
       PROVE  \/ g = f
              \/ \E i \in DOMAIN f :
                   ~f[i].given /\ g = [f EXCEPT ![i] = [f[i] EXCEPT !.given = TRUE]]
  <2>1. CASE \A i \in DOMAIN f : asked[i] # j
    <3>1. \A i \in DOMAIN f : g[i] = f[i]
      BY <1>1, <1>8, <1>9, <1>12, <2>1
    <3> QED
      BY <1>8, <3>1
  <2>2. ASSUME NEW i \in DOMAIN f, asked[i] = j
        PROVE  ~f[i].given /\ g = [f EXCEPT ![i] = [f[i] EXCEPT !.given = TRUE]]
    <3>1. ~f[i].given /\ g[i] = [f[i] EXCEPT !.given = TRUE]
      <4> DEFINE c == calls[j]
                 d == calls'[j]
      <4>1. /\ c \in CallType /\ d \in CallType /\ f[i] = AsAbstract(c) /\ g[i] = AsAbstract(d)
            /\ c.given = FALSE /\ d.given = TRUE /\ d.promise = c.promise
        BY <1>1, <1>8, <1>12, <2>2
      <4> HIDE DEF c, d
      <4>2. AsAbstract(c).given = c.given
        BY <4>1, AsAbstractSteps
      <4>3. AsAbstract(d) = [AsAbstract(c) EXCEPT !.given = TRUE]
        BY <4>1, AsAbstractSteps
      <4> QED
        BY <4>1, <4>2, <4>3
    <3>2. \A k \in DOMAIN f \ {i} : asked[k] \in DOMAIN calls \ {j}
      BY <1>1, <1>7, <1>8, <2>2
    <3>3. \A k \in DOMAIN f \ {i} : g[k] = f[k]
      BY <1>9, <1>12, <3>2
    <3> QED
      BY <1>10, <3>1, <3>3
  <2> QED
    BY <2>1, <2>2
<1>13. ASSUME \A i \in DOMAIN calls : calls'[i].given = calls[i].given
       PROVE  \/ g = f
              \/ \E i \in DOMAIN f :
                   \/ /\ f[i].state = "pending" /\ f[i].given
                      /\ g = [f EXCEPT ![i] = [f[i] EXCEPT !.state = "answered"]]
                   \/ /\ f[i].state = "pending"
                      /\ g = [f EXCEPT ![i] = [f[i] EXCEPT !.state = "rejected"]]
  <2>1. \A i \in DOMAIN calls : calls'[i].promise # calls[i].promise =>
          /\ calls[i].promise = "pending"
          /\ (calls'[i].promise = "resolved" /\ calls[i].given) \/ calls'[i].promise = "rejected"
    BY <1>1 DEF Evolves
  <2>2. \A i \in DOMAIN f : i # n => g[i] = f[i]
    <3>1. \A i \in DOMAIN f : i # n => i = 1 /\ n = 2
      BY <1>6, <1>8
    <3> QED
      BY <1>1, <1>4, <1>8, <1>9, <1>13, <2>1, <3>1
  <2>3. CASE n \notin DOMAIN f
    <3>1. \A i \in DOMAIN f : g[i] = f[i]
      BY <2>2, <2>3
    <3> QED
      BY <1>8, <3>1
  <2>4. CASE n \in DOMAIN f
    <3> DEFINE c == calls[asked[n]]
               d == calls'[asked[n]]
    <3>1. /\ f[n] = AsAbstract(c) /\ g[n] = AsAbstract(d) /\ c \in CallType /\ d \in CallType
          /\ d.given = c.given /\ asked[n] \in DOMAIN calls
      BY <1>1, <1>8, <1>13, <2>4
    <3>2. \A k \in DOMAIN f \ {n} : g[k] = f[k]
      BY <2>2
    <3>3. d.promise # c.promise =>
            c.promise = "pending" /\ ((d.promise = "resolved" /\ c.given) \/ d.promise = "rejected")
      BY <2>1, <3>1
    <3> HIDE DEF c, d
    <3>4. CASE d.promise = c.promise
      <4>1. g[n] = f[n]
        BY <3>1, <3>4, AsAbstractSteps
      <4> QED
        BY <1>8, <3>2, <4>1
    <3>5. CASE c.promise = "pending" /\ d.promise = "resolved" /\ c.given
      <4>1. AsAbstract(c).state = "pending" /\ AsAbstract(c).given = c.given
        BY <3>1, <3>5, AsAbstractSteps
      <4>2. c \in CallType /\ d \in CallType /\ d.promise = "resolved"
        BY <3>1, <3>5
      <4>3. d.given = c.given
        BY <3>1
      <4>4. AsAbstract(d) = [AsAbstract(c) EXCEPT !.state = "answered"]
        BY <4>2, <4>3, AsAbstractSteps
      <4>5. g = [f EXCEPT ![n] = [f[n] EXCEPT !.state = "answered"]]
        BY <1>10, <2>4, <3>1, <3>2, <4>4
      <4>6. f[n].state = "pending" /\ f[n].given
        BY <3>1, <3>5, <4>1
      <4> QED
        BY <2>4, <4>5, <4>6
    <3>6. CASE c.promise = "pending" /\ d.promise = "rejected"
      <4>1. AsAbstract(c).state = "pending"
        BY <3>1, <3>6, AsAbstractSteps
      <4>2. AsAbstract(d) = [AsAbstract(c) EXCEPT !.state = "rejected"]
        BY <3>1, <3>6, AsAbstractSteps
      <4>3. g = [f EXCEPT ![n] = [f[n] EXCEPT !.state = "rejected"]] /\ f[n].state = "pending"
        BY <1>10, <2>4, <3>1, <3>2, <4>1, <4>2
      <4> QED
        BY <2>4, <4>3
    <3> QED
      BY <3>3, <3>4, <3>5, <3>6
  <2> QED
    BY <2>3, <2>4
<1> QED
  BY <1>5, <1>12, <1>13

(* A request of the page is a call of RemoteSigner, after all others have    *)
(* been answered; the request of the handshake, of a first signer or of one *)
(* that takes over, is not seen.                                            *)
LEMMA RequestsAbstract ==
  ASSUME Types, PhaseShape, [Next]_vars, Requests
  PROVE  \/ ACalls' = ACalls /\ APhase' = APhase
         \/ /\ APhase = "ready" /\ APhase' = "ready"
            /\ \A i \in DOMAIN ACalls : ACalls[i].state = "answered"
            /\ \E state \in {"pending", "rejected"} :
                 ACalls' = Append(ACalls, [state |-> state, given |-> FALSE])
<1> USE DEF Types
<1> DEFINE n == Len(calls)
<1>1. /\ n \in Nat /\ calls \in Seq(CallType) /\ DOMAIN calls = 1 .. n
      /\ asked \in Seq(Nat) /\ \A k \in DOMAIN asked : asked[k] \in 1 .. n
  BY DEF CallsType, AskedType
<1>2. ASSUME NEW c, calls' = Append(calls, c)
      PROVE  calls'[n + 1] = c /\ \A i \in 1 .. n : calls'[i] = calls[i]
  BY <1>1, <1>2
<1>3. CASE \E w \in wire : Connected(w)
  <2>1. PICK c : calls' = Append(calls, c)
    BY <1>3 DEF Connected
  <2>2. asked' = asked /\ phase' = IF phase = "waiting" THEN "racing" ELSE phase
    BY <1>3 DEF Connected
  <2>3. \A k \in DOMAIN asked : calls'[asked[k]] = calls[asked[k]]
    BY <1>1, <1>2, <2>1
  <2>4. ACalls' = ACalls
    BY <2>2, <2>3 DEF ACalls
  <2> QED
    BY <2>2, <2>4 DEF APhase
<1>4. ASSUME NEW m \in Methods, Asks(m, peer, bp), asked' = Append(asked, n + 1),
             phase = "ready", phase' = "ready",
             \A k \in DOMAIN asked : calls[asked[k]].promise = "resolved"
      PROVE  /\ \A i \in DOMAIN ACalls : ACalls[i].state = "answered"
             /\ \E state \in {"pending", "rejected"} :
                  ACalls' = Append(ACalls, [state |-> state, given |-> FALSE])
  <2> DEFINE new == Request(m, peer, bp)
             f == ACalls
             g == ACalls'
             k == Len(asked)
             e == AsAbstract(new)
  <2>1. calls'[n + 1] = new /\ \A i \in 1 .. n : calls'[i] = calls[i]
    <3> HIDE DEF new
    <3> QED
      BY <1>2, <1>4 DEF Asks, new
  <2>2. \E state \in {"pending", "rejected"} : e = [state |-> state, given |-> FALSE]
    BY DEF Request, AsAbstract
  <2>3. /\ k \in Nat /\ DOMAIN asked = 1 .. k /\ DOMAIN asked' = 1 .. k + 1
        /\ asked'[k + 1] = n + 1 /\ \A i \in 1 .. k : asked'[i] = asked[i]
    <3> HIDE DEF n
    <3> QED
      BY <1>1, <1>4
  <2>4. /\ f = [i \in 1 .. k |-> AsAbstract(calls[asked[i]])]
        /\ g = [i \in 1 .. k + 1 |-> AsAbstract(calls'[asked'[i]])]
    BY <2>3 DEF ACalls
  <2> HIDE DEF f, g, e, new, k, n
  <2>5. f \in Seq({f[i] : i \in 1 .. k}) /\ Len(f) = k
    BY <2>3, <2>4, SeqPointwise
  <2>6. \A i \in 1 .. k : g[i] = f[i]
    <3>1. \A i \in 1 .. k : i \in 1 .. k + 1 /\ asked[i] \in 1 .. n
      BY <1>1, <2>3
    <3> QED
      BY <2>1, <2>3, <2>4, <3>1
  <2>7. g[k + 1] = e
    BY <2>1, <2>3, <2>4 DEF e
  <2>8. Append(f, e) = [i \in 1 .. k + 1 |-> IF i \in 1 .. k THEN f[i] ELSE e]
    <3>1. f \in Seq({f[i] : i \in 1 .. k} \cup {e}) /\ Len(f) = k
      BY <2>3, <2>4, SeqPointwise
    <3>2. Append(f, e) = [i \in 1 .. Len(f) + 1 |-> IF i \in 1 .. Len(f) THEN f[i] ELSE e]
      BY <3>1, AppendPointwise
    <3> QED
      BY <3>1, <3>2
  <2>9. g = [i \in 1 .. k + 1 |-> g[i]]
    BY <2>4
  <2>10. \A i \in 1 .. k + 1 : i \in 1 .. k \/ i = k + 1
    BY <2>3
  <2>11. k + 1 \notin 1 .. k
    BY <2>3
  <2>12. g = Append(f, e)
    BY <2>6, <2>7, <2>8, <2>9, <2>10, <2>11
  <2>13. \A i \in DOMAIN f : f[i].state = "answered"
    BY <1>4, <2>3, <2>4 DEF AsAbstract
  <2> QED
    BY <2>2, <2>12, <2>13 DEF f, g
<1>5. CASE GetPublicKey
  <2>1. /\ Asks("get_public_key", peer, bp) /\ phase = "ready" /\ phase' = "ready"
        /\ "get_public_key" \in Methods /\ asked' = Append(asked, n + 1) /\ asked = <<>>
    BY <1>5 DEF GetPublicKey, SendRequest, Asks, Methods
  <2>2. \A k \in DOMAIN asked : calls[asked[k]].promise = "resolved"
    BY <2>1
  <2> QED
    BY <1>4, <2>1, <2>2 DEF APhase
<1>6. CASE SignEvent
  <2>1. /\ Asks("sign_event", peer, bp) /\ phase = "ready" /\ phase' = "ready"
        /\ "sign_event" \in Methods /\ asked' = Append(asked, n + 1)
        /\ Len(asked) = 1 /\ calls[asked[1]].promise = "resolved"
    BY <1>6 DEF SignEvent, SendRequest, Asks, Methods
  <2>2. \A k \in DOMAIN asked : k = 1
    BY <1>1, <2>1
  <2> QED
    BY <1>4, <2>1, <2>2 DEF APhase
<1> QED
  BY <1>3, <1>5, <1>6 DEF Requests

LEMMA RefinementInit == Init => Abstract!Init
<1> SUFFICES ASSUME Init PROVE Abstract!Init
  OBVIOUS
<1>1. /\ subs[1].from = IF phase = "waiting" THEN "anyone" ELSE peer
      /\ peer # "anyone" /\ scanned = {} /\ phase \in {"waiting", "ready", "failed"}
  BY SignerAssumption DEF Init
<1>2. asked = <<>>
  BY DEF Init
<1>3. [k \in DOMAIN asked |-> AsAbstract(calls[asked[k]])] = <<>>
  BY <1>2
<1> QED
  BY <1>1, <1>3 DEF Abstract!Init, IsOffer

(* The signer proves itself in a step of its own. *)
LEMMA ProvenCases ==
  ASSUME Types, [Next]_vars
  PROVE  (Proven' <=> Proven) \/ (~Proven /\ Proven' /\ UNCHANGED <<phase, calls, asked>>)
<1>1. scanned' = scanned \/ \E signer \in Signers : Scan(signer)
  BY DEF Next, Client, Network, Signer, Deliver, Connected, Ignored, Response, SwitchRelays,
         CloseFinished, RaceTimer, GetPublicKey, SignEvent, Retire, Opens, Drop, EndSubscription,
         Accept, Refuse, Stranger, Leave, Answer, Decline, SayNothing, Give, signerVars, vars
<1>2. CASE scanned' = scanned
  <2>1. 1 \in DOMAIN subs
    BY DEF Types, SubsType
  <2>2. subs'[1].from = subs[1].from
    BY <2>1, NextSubs DEF Types, SubsGrow
  <2> QED
    BY <1>2, <2>2 DEF Proven, IsOffer
<1>3. CASE \E signer \in Signers : Scan(signer)
  <2>1. UNCHANGED <<phase, calls, asked>>
    BY <1>3 DEF Scan, pageVars
  <2> QED
    BY <2>1, ProvenStays
<1> QED
  BY <1>1, <1>2, <1>3

(* Each step of the client is a step of RemoteSigner or leaves it unchanged. *)
LEMMA RefinementStep ==
  IInv /\ [Next]_vars => [Abstract!Next]_(Abstract!vars)
<1> SUFFICES ASSUME IInv, [Next]_vars PROVE Abstract!Next \/ UNCHANGED Abstract!vars
  OBVIOUS
<1> USE DEF IInv
<1>0. APhase' = APhase \/ phase' # phase
  BY DEF APhase
<1>1. CASE ~Proven /\ Proven' /\ UNCHANGED <<phase, calls, asked>>
  <2>1. ACalls' = ACalls /\ APhase' = APhase
    BY <1>1 DEF ACalls, APhase
  <2> QED
    BY <1>1, <2>1 DEF Abstract!Next, Abstract!Prove, Proven, APhase, ACalls
<1>2. CASE Requests /\ (Proven' <=> Proven)
  <2>1. CASE ACalls' = ACalls /\ APhase' = APhase
    BY <1>2, <2>1 DEF Abstract!vars, Proven, APhase, ACalls
  <2>2. ASSUME APhase = "ready", APhase' = "ready",
               \A i \in DOMAIN ACalls : ACalls[i].state = "answered",
               NEW state \in {"pending", "rejected"},
               ACalls' = Append(ACalls, [state |-> state, given |-> FALSE])
        PROVE  Abstract!Ask
    BY <1>2, <2>2 DEF Abstract!Ask, Abstract!Call, Proven, APhase, ACalls
  <2> QED
    BY <1>2, <2>1, <2>2, RequestsAbstract DEF Abstract!Next
<1>3. CASE CallsKeep /\ (Proven' <=> Proven)
  <2>0. asked = <<>> => ACalls' = ACalls
    <3> SUFFICES ASSUME asked = <<>> PROVE ACalls' = ACalls
      OBVIOUS
    <3>1. DOMAIN asked = {} /\ DOMAIN asked' = {}
      BY <1>3, AskedKept
    <3> QED
      BY <3>1 DEF ACalls
  <2>1. CASE phase = "racing" /\ phase' = "ready"
    <3>1. ACalls' = ACalls /\ Proven
      BY <2>0, <2>1 DEF PhaseShape
    <3>2. APhase = "connecting" /\ APhase' = "ready"
      BY <2>1 DEF APhase
    <3>3. Abstract!Connect
      BY <1>3, <3>1, <3>2 DEF Abstract!Connect, Proven, APhase, ACalls
    <3> QED
      BY <3>3 DEF Abstract!Next
  <2>2. CASE phase = "waiting" /\ phase' = "failed"
    <3>1. ACalls' = ACalls
      BY <2>0, <2>2 DEF PhaseShape
    <3>2. APhase = "connecting" /\ APhase' = "failed"
      BY <2>2 DEF APhase
    <3>3. Abstract!Fail
      BY <1>3, <3>1, <3>2 DEF Abstract!Fail, Proven, APhase, ACalls
    <3> QED
      BY <3>3 DEF Abstract!Next
  <2>3. CASE APhase' = APhase
    <3>1. CASE ACalls' = ACalls
      BY <1>3, <2>3, <3>1 DEF Abstract!vars, Proven, APhase, ACalls
    <3>2. ASSUME NEW i \in DOMAIN ACalls, ~ACalls[i].given,
                 ACalls' = [ACalls EXCEPT ![i].given = TRUE]
          PROVE  Abstract!Next
      <4>1. Abstract!Give(i)
        BY <1>3, <2>3, <3>2 DEF Abstract!Give, Proven, APhase, ACalls
      <4> QED
        BY <4>1 DEF Abstract!Next, ACalls
    <3>3. ASSUME NEW i \in DOMAIN ACalls, ACalls[i].state = "pending", ACalls[i].given,
                 ACalls' = [ACalls EXCEPT ![i].state = "answered"]
          PROVE  Abstract!Next
      <4>1. Abstract!Answer(i)
        BY <1>3, <2>3, <3>3 DEF Abstract!Answer, Proven, APhase, ACalls
      <4> QED
        BY <4>1 DEF Abstract!Next, ACalls
    <3>4. ASSUME NEW i \in DOMAIN ACalls, ACalls[i].state = "pending",
                 ACalls' = [ACalls EXCEPT ![i].state = "rejected"]
          PROVE  Abstract!Next
      <4>1. Abstract!Reject(i)
        BY <1>3, <2>3, <3>4 DEF Abstract!Reject, Proven, APhase, ACalls
      <4> QED
        BY <4>1 DEF Abstract!Next, ACalls
    <3> QED
      BY <1>3, <3>1, <3>2, <3>3, <3>4, CallsKeepAbstract
  <2>4. phase = "waiting" /\ phase' = "racing" => APhase' = APhase
    BY DEF APhase
  <2> QED
    BY <1>0, <2>1, <2>2, <2>3, <2>4, PhaseCases DEF Types
<1> QED
  BY <1>1, <1>2, <1>3, ProvenCases, NextCalls DEF Types

(* The client implements RemoteSigner: whatever relays, signers and links    *)
(* do, and whoever takes the client over, a handle is ready only after a     *)
(* signer has shown the secret, the page has one call at a time, and a call *)
(* is settled once and answered only after an answer was given to it.       *)
THEOREM Implements == Spec => ImplementsRemoteSigner
<1> QED
  BY InvInit, InvStep, RefinementInit, RefinementStep, PTL
  DEF Spec, ImplementsRemoteSigner, Abstract!Spec
=============================================================================
