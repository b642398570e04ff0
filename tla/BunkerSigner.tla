---------------------------- MODULE BunkerSigner ----------------------------
(***************************************************************************)
(* The NIP-46 client of the vendored nostr-tools bundle, as the login page *)
(* uses it: BunkerSigner.fromURI for nostrconnect:// and fromBunker for    *)
(* bunker:// links, setupSubscription, sendRequest and switchRelays, over  *)
(* a pool of relay connections.  Requests and answers are ephemeral        *)
(* events: a relay forwards them to whoever is subscribed at that moment   *)
(* and keeps nothing.                                                      *)
(***************************************************************************)
EXTENDS Integers, Sequences, FiniteSets

CONSTANTS
  Relays,
  Signers,    \* those that may take up a link, by their keys
  Offers,     \* relay sets a link may carry
  Switches,   \* relay sets a signer may ask the client to move to
  MaxFaults   \* bound on failures of relays and on what nobody should do

ASSUME SignerAssumption ==
  /\ Signers # {} /\ "anyone" \notin Signers
  /\ Offers \cup Switches \subseteq SUBSET Relays
  /\ MaxFaults \in Nat

VARIABLES
  phase,    \* of the promise of fromURI: "waiting" for a signer, "racing" once
            \* it has one, "ready", "failed"; fromBunker settles at once
  offered,  \* the relays of the link
  bp,       \* this.bp.relays
  peer,     \* this.bp.pubkey: the signer requests go to
  conn,     \* the pool's connection to each relay
  subs,     \* every subscription made, with its state at each relay
  current,  \* this.subCloser, as a position in subs, or 0
  closing,  \* the subscriptions close() was called on and has not closed yet
  retiring, \* the running 5 s timers of switchRelays: what each is to close,
            \* and the subscription made in its place
  calls,    \* the requests sent, by serial
  asked,    \* the page's own among them, in order
  wire,     \* events on their way from a relay to a subscription
  signerAt, \* the relays each signer listens and answers on
  scanned,  \* the signers that have read the nostrconnect:// link
  broken,   \* history: the relays that have failed in some way
  hit,      \* history: the calls that waited when a relay failed
  lost,     \* history: the calls whose answer was cut off or came too early
  unruly,   \* history: a signer or a timer has been out of order
  faults    \* spent out of MaxFaults

pageVars == <<phase, bp, peer, current, closing, retiring, asked>>
netVars == <<conn, subs, calls, wire>>
signerVars == <<signerAt, scanned>>
boundVars == <<broken, hit, lost, unruly, faults>>
vars == <<offered, pageVars, netVars, signerVars, boundVars>>

(* An event for subscription sub through a relay: call 0 is a connect        *)
(* response, relays what a switch_relays answer asks for.                   *)
Item(signer, call, says, relays, sub, relay) ==
  [signer |-> signer, call |-> call, says |-> says, relays |-> relays,
   sub |-> sub, relay |-> relay]

(* A subscription takes an event once, from whichever relay has it first.    *)
Copies(w) ==
  {x \in wire : x.call = w.call /\ x.says = w.says /\ x.signer = w.signer /\ x.sub = w.sub}

Live(i, r) == subs[i].at[r] = "live"
Opening(sub) == \E r \in Relays : sub.at[r] = "opening"

(* A subscription is over when it has ended at each of its relays; one with  *)
(* no relays never is.                                                      *)
Ended(sub) == \A r \in Relays : sub.at[r] \in {"none", "closed"}
Over(sub) == Ended(sub) /\ \E r \in Relays : sub.at[r] = "closed"

Dialled(rs) == [r \in Relays |-> IF r \in rs /\ conn[r] = "down" THEN "opening" ELSE conn[r]]

(* An offer, made by fromURI, hears anyone; a session one signer.            *)
Subscription(from, rs) ==
  [from |-> from,
   at |-> [r \in Relays |-> IF r \notin rs THEN "none"
                            ELSE IF conn[r] = "up" THEN "live" ELSE "opening"]]

Request(method, signer, rs) ==
  [method |-> method, to |-> signer, promise |-> IF rs = {} THEN "rejected" ELSE "pending",
   heard |-> FALSE, given |-> FALSE,
   at |-> [r \in Relays |-> IF r \notin rs THEN "none"
                            ELSE IF conn[r] = "up" THEN "sent" ELSE "opening"]]

Init ==
  /\ offered \in Offers /\ bp = offered /\ peer \in Signers
  /\ \/ phase = "waiting"
     \/ phase = IF offered = {} THEN "failed" ELSE "ready"
  /\ conn = [r \in Relays |-> IF r \in offered THEN "opening" ELSE "down"]
  /\ subs = <<[from |-> IF phase = "waiting" THEN "anyone" ELSE peer,
               at |-> [r \in Relays |-> IF r \in offered THEN "opening" ELSE "none"]]>>
  /\ current = IF phase = "waiting" THEN 0 ELSE 1
  /\ closing = {} /\ retiring = {} /\ calls = <<>> /\ asked = <<>> /\ wire = {}
  /\ signerAt = [s \in Signers |-> offered] /\ scanned = {}
  /\ broken = {} /\ hit = {} /\ lost = {} /\ unruly = FALSE /\ faults = 0

Fault == faults < MaxFaults /\ faults' = faults + 1
Break(r) ==
  /\ Fault /\ broken' = broken \cup {r}
  /\ hit' = hit \cup {i \in DOMAIN calls : calls[i].promise = "pending"}
Misbehave == Fault /\ unruly' = TRUE

-----------------------------------------------------------------------------
(* Callbacks that several actions run *)

IsOffer(sub) == sub.from = "anyone"

(* A switchRelays has returned. *)
Answered(c) == \E i \in DOMAIN c : c[i].method = "switch_relays" /\ c[i].promise # "pending"

(* Subscriptions end and publications fail.  The onclose of an offer rejects *)
(* the promise of fromURI unless a signer has been found; the onclose of a  *)
(* session forgets subCloser, even if that is another subscription by now;  *)
(* fromURI goes on when switchRelays returns, whatever came of it.          *)
Become(s, c) ==
  LET ended == {i \in DOMAIN subs : ~Over(subs[i]) /\ Over(s[i])}
  IN /\ subs' = s /\ calls' = c
     /\ phase' = CASE phase = "waiting" /\ (\E i \in ended : IsOffer(subs[i])) -> "failed"
                   [] phase = "racing" /\ Answered(c) -> "ready"
                   [] OTHER -> phase
     /\ current' = IF \E i \in ended : ~IsOffer(subs[i]) THEN 0 ELSE current
     /\ wire' = {w \in wire : s[w.sub].at[w.relay] = "live"}

ClosedAt(sub, r) ==
  [sub EXCEPT !.at[r] = IF @ \in {"opening", "live"} THEN "closed" ELSE @]

Closed(sub) ==
  [sub EXCEPT !.at = [r \in Relays |-> IF @[r] \in {"opening", "live"} THEN "closed" ELSE @[r]]]

(* Mutant: Promise.all *)
SettledByAny(call) ==
  IF call.promise = "pending" /\ \E r \in Relays : call.at[r] = "failed"
  THEN [call EXCEPT !.promise = "rejected"] ELSE call

(* Promise.any over the publications: rejected when all have failed. *)
Settled(call) ==
  IF call.promise = "pending" /\ \A r \in Relays : call.at[r] \in {"none", "failed"}
  THEN [call EXCEPT !.promise = "rejected"] ELSE call

-----------------------------------------------------------------------------
(* The client *)

(* Mutant: any response connects *)
ConnectedToAnyone(w) ==
  /\ w.call = 0
  /\ bp' = offered /\ peer' = w.signer
  /\ closing' = closing \cup {w.sub}
  /\ subs' = Append(subs, Subscription(w.signer, offered)) /\ current' = Len(subs) + 1
  /\ calls' = Append(calls, Request("switch_relays", w.signer, offered))
  /\ conn' = Dialled(offered)
  /\ phase' = IF phase = "waiting" THEN "racing" ELSE phase
  /\ wire' = wire \ Copies(w)
  /\ UNCHANGED <<offered, retiring, asked, signerVars, boundVars>>

(* A connect response with the secret of the link: the offer is closed when  *)
(* all its relays have been tried, a session is subscribed and              *)
(* switch_relays is sent.  Until the offer is closed this can happen again:  *)
(* another signer that has the link takes the client over, whatever the     *)
(* client was doing, and the first one's session stays subscribed.          *)
Connected(w) ==
  /\ w.call = 0 /\ w.says = "secret"
  /\ bp' = offered /\ peer' = w.signer
  /\ closing' = closing \cup {w.sub}
  /\ subs' = Append(subs, Subscription(w.signer, offered)) /\ current' = Len(subs) + 1
  /\ calls' = Append(calls, Request("switch_relays", w.signer, offered))
  /\ conn' = Dialled(offered)
  /\ phase' = IF phase = "waiting" THEN "racing" ELSE phase
  /\ wire' = wire \ Copies(w)
  /\ UNCHANGED <<offered, retiring, asked, signerVars, boundVars>>

(* Anything else that an offer receives is ignored. *)
Ignored(w) ==
  /\ w.call = 0 /\ w.says # "secret"
  /\ wire' = wire \ {w}
  /\ UNCHANGED <<offered, pageVars, conn, subs, calls, signerVars, boundVars>>

(* close() goes through once no relay is being opened.  Answers are taken to *)
(* arrive within the 5 s that a client that moves leaves them, unless       *)
(* something is unruly.                                                     *)
CloseFinished(i) ==
  /\ i \in closing /\ ~Opening(subs[i])
  /\ IF \A w \in wire : w.sub # i THEN UNCHANGED <<unruly, faults>> ELSE Misbehave
  /\ closing' = closing \ {i}
  /\ Become([subs EXCEPT ![i] = Closed(@)], calls)
  /\ UNCHANGED <<offered, bp, peer, retiring, asked, conn, signerVars, broken, hit, lost>>

(* The 1 s timer that races switchRelays. *)
RaceTimer ==
  /\ phase = "racing" /\ phase' = "ready"
  /\ UNCHANGED <<offered, bp, peer, current, closing, retiring, asked, netVars, signerVars, boundVars>>

(* Mutant: the session ended and is not subscribed again *)
SendRequestUnsubscribed(method) ==
  /\ calls' = Append(calls, Request(method, peer, bp))
  /\ asked' = Append(asked, Len(calls) + 1)
  /\ conn' = Dialled(bp)
  /\ UNCHANGED <<subs, current>>

(* sendRequest subscribes again if there is no subCloser. *)
SendRequest(method) ==
  /\ calls' = Append(calls, Request(method, peer, bp))
  /\ asked' = Append(asked, Len(calls) + 1)
  /\ conn' = Dialled(bp)
  /\ IF current = 0
     THEN subs' = Append(subs, Subscription(peer, bp)) /\ current' = Len(subs) + 1
     ELSE UNCHANGED <<subs, current>>

(* The page asks for the public key, and once it has it for a signature. *)
GetPublicKey ==
  /\ phase = "ready" /\ asked = <<>>
  /\ SendRequest("get_public_key")
  /\ UNCHANGED <<offered, phase, bp, peer, closing, retiring, wire, signerVars, boundVars>>

SignEvent ==
  /\ phase = "ready" /\ Len(asked) = 1 /\ calls[asked[1]].promise = "resolved"
  /\ SendRequest("sign_event")
  /\ UNCHANGED <<offered, phase, bp, peer, closing, retiring, wire, signerVars, boundVars>>

Outcome(call, says) ==
  IF call.promise # "pending" \/ says = "nothing" THEN call
  ELSE [call EXCEPT !.promise = IF says = "result" THEN "resolved" ELSE "rejected"]

(* A response: its call settles, unless it has neither result nor error or   *)
(* asks for an authorization, for which the page has no handler.            *)
Response(w) ==
  /\ w.call # 0 /\ calls[w.call].method # "switch_relays"
  /\ calls' = [calls EXCEPT ![w.call] = Outcome(@, w.says)]
  /\ wire' = {x \in wire : x.call # w.call}
  /\ UNCHANGED <<offered, pageVars, conn, subs, signerVars, boundVars>>

(* Mutant: the client moves and does not subscribe there *)
SwitchRelaysUnheard(w) ==
  /\ w.call # 0 /\ calls[w.call].method = "switch_relays"
  /\ calls' = [calls EXCEPT ![w.call] = Outcome(@, w.says)]
  /\ phase' = IF phase = "racing" /\ calls'[w.call].promise # "pending" THEN "ready" ELSE phase
  /\ \/ /\ w.says = "result" /\ calls[w.call].promise = "pending"
        /\ bp' = w.relays
        /\ retiring' = IF current = 0 THEN retiring ELSE retiring \cup {<<current, current>>}
        /\ conn' = Dialled(w.relays)
     \/ /\ w.says # "result" \/ calls[w.call].promise # "pending" \/ w.relays = bp
        /\ UNCHANGED <<bp, retiring, conn>>
  /\ wire' = {x \in wire : x.call # w.call}
  /\ UNCHANGED <<offered, peer, closing, subs, current, asked, signerVars, boundVars>>

(* The answer to switch_relays, in time or late.  With other relays, or the  *)
(* same in an order that is not sorted, the client moves: it subscribes     *)
(* there and closes the subscription it had five seconds later.             *)
SwitchRelays(w) ==
  /\ w.call # 0 /\ calls[w.call].method = "switch_relays"
  /\ calls' = [calls EXCEPT ![w.call] = Outcome(@, w.says)]
  /\ phase' = IF phase = "racing" /\ calls'[w.call].promise # "pending" THEN "ready" ELSE phase
  /\ \/ /\ w.says = "result" /\ calls[w.call].promise = "pending"
        /\ bp' = w.relays
        /\ retiring' = IF current = 0 THEN retiring
                       ELSE retiring \cup {<<current, Len(subs) + 1>>}
        /\ subs' = Append(subs, Subscription(peer, w.relays))
        /\ current' = Len(subs) + 1
        /\ conn' = Dialled(w.relays)
     \/ /\ w.says # "result" \/ calls[w.call].promise # "pending" \/ w.relays = bp
        /\ UNCHANGED <<bp, retiring, subs, current, conn>>
  /\ wire' = {x \in wire : x.call # w.call}
  /\ UNCHANGED <<offered, peer, closing, asked, signerVars, boundVars>>

Deliver(w) ==
  Live(w.sub, w.relay) /\ (Connected(w) \/ Ignored(w) \/ Response(w) \/ SwitchRelays(w))

(* A timer of switchRelays calls close() on what it has moved away from.     *)
(* Connections dialled for the move open or fail before it, as they have    *)
(* 3 s, unless something is unruly; those dialled for the offer have up to   *)
(* 59 s, and what waits for them too keeps close() waiting.                 *)
Retire(t) ==
  /\ t \in retiring
  /\ IF \E r \in Relays : subs[t[2]].at[r] = "opening" /\ subs[t[1]].at[r] # "opening"
     THEN Misbehave ELSE UNCHANGED <<unruly, faults>>
  /\ closing' = closing \cup {t[1]} /\ retiring' = retiring \ {t}
  /\ UNCHANGED <<offered, phase, bp, peer, current, asked, netVars, signerVars, broken, hit, lost>>

-----------------------------------------------------------------------------
(* Relays *)

(* Mutant: waiting subscriptions are not sent *)
OpensForRequests(r) ==
  /\ conn[r] = "opening"
  /\ conn' = [conn EXCEPT ![r] = "up"]
  /\ calls' = [i \in DOMAIN calls |->
                 [calls[i] EXCEPT !.at[r] = IF @ = "opening" THEN "sent" ELSE @]]
  /\ UNCHANGED <<offered, pageVars, subs, wire, signerVars, boundVars>>

(* A connection opens: what has waited for it is sent. *)
Opens(r) ==
  /\ conn[r] = "opening"
  /\ conn' = [conn EXCEPT ![r] = "up"]
  /\ subs' = [i \in DOMAIN subs |->
                [subs[i] EXCEPT !.at[r] = IF @ = "opening" THEN "live" ELSE @]]
  /\ calls' = [i \in DOMAIN calls |->
                 [calls[i] EXCEPT !.at[r] = IF @ = "opening" THEN "sent" ELSE @]]
  /\ UNCHANGED <<offered, pageVars, wire, signerVars, boundVars>>

(* A connection cannot be opened in time or is lost: subscriptions end       *)
(* there, publications that wait for OK fail, and nothing reconnects.       *)
Drop(r) ==
  /\ conn[r] # "down" /\ Break(r)
  /\ conn' = [conn EXCEPT ![r] = "down"]
  /\ LET failed(c) == [c EXCEPT !.at[r] = IF @ \in {"opening", "sent"} THEN "failed" ELSE @]
     IN Become([i \in DOMAIN subs |-> ClosedAt(subs[i], r)],
               [i \in DOMAIN calls |-> Settled(failed(calls[i]))])
  /\ lost' = lost \cup {w.call : w \in {x \in wire : x.relay = r}}
  /\ UNCHANGED <<offered, bp, peer, closing, retiring, asked, signerVars, unruly>>

(* A relay ends one subscription (CLOSED) and keeps the connection.          *)
EndSubscription(i, r) ==
  /\ Live(i, r) /\ Break(r)
  /\ Become([subs EXCEPT ![i] = ClosedAt(@, r)], calls)
  /\ lost' = lost \cup {w.call : w \in {x \in wire : x.sub = i /\ x.relay = r}}
  /\ UNCHANGED <<offered, bp, peer, closing, retiring, asked, conn, signerVars, unruly>>

(* The signer that a call is for listens at r. *)
Listening(i, r) == r \in signerAt[calls[i].to]

(* A relay says OK and forwards the request. *)
Accept(i, r) ==
  /\ calls[i].at[r] = "sent"
  /\ calls' = [calls EXCEPT ![i].at[r] = "ok", ![i].heard = @ \/ Listening(i, r)]
  /\ UNCHANGED <<offered, pageVars, conn, subs, wire, signerVars, boundVars>>

(* A relay refuses it, or says nothing for 4.4 s. *)
Refuse(i, r) ==
  /\ calls[i].at[r] = "sent" /\ Break(r)
  /\ \E h \in {calls[i].heard, calls[i].heard \/ Listening(i, r)} :
       Become(subs, [calls EXCEPT ![i] = Settled([@ EXCEPT !.at[r] = "failed", !.heard = h])])
  /\ UNCHANGED <<offered, bp, peer, closing, retiring, asked, conn, signerVars, lost, unruly>>

-----------------------------------------------------------------------------
(* Signers *)

Forwarded(from, signer, call, says, relays) ==
  {Item(signer, call, says, relays, p[1], p[2]) :
     p \in {q \in (DOMAIN subs) \X signerAt[signer] : subs[q[1]].from = from /\ Live(q[1], q[2])}}

(* The link is read by a signer, each of which does so once; more than one   *)
(* is more than there should be.                                            *)
Scan(signer) ==
  /\ IsOffer(subs[1]) /\ signer \notin scanned /\ scanned' = scanned \cup {signer}
  /\ IF scanned = {} THEN UNCHANGED <<unruly, faults>> ELSE Misbehave
  /\ wire' = wire \cup Forwarded("anyone", signer, 0, "secret", {})
  /\ UNCHANGED <<offered, pageVars, conn, subs, calls, signerAt, broken, hit, lost>>

(* Somebody without the secret writes to the page's key. *)
Stranger(signer) ==
  /\ Misbehave
  /\ wire' = wire \cup Forwarded("anyone", signer, 0, "guess", {})
  /\ UNCHANGED <<offered, pageVars, conn, subs, calls, signerVars, broken, hit, lost>>

Give(i, says, relays) ==
  /\ calls[i].heard /\ ~calls[i].given
  /\ calls' = [calls EXCEPT ![i].given = TRUE]
  /\ LET answers == Forwarded(calls[i].to, calls[i].to, i, says, relays)
     IN /\ wire' = wire \cup answers
        /\ lost' = IF answers = {} /\ \E j \in DOMAIN subs : Opening(subs[j])
                   THEN lost \cup {i} ELSE lost
  /\ signerAt' = [signerAt EXCEPT ![calls[i].to] = @ \cup relays]
  /\ UNCHANGED <<offered, pageVars, conn, subs, scanned, broken, hit>>

Answer(i) ==
  /\ \E relays \in IF calls[i].method = "switch_relays" THEN Switches \cup {offered} ELSE {{}} :
       Give(i, "result", relays)
  /\ UNCHANGED <<unruly, faults>>

Decline(i) == Give(i, "error", {}) /\ UNCHANGED <<unruly, faults>>

(* Neither result nor error, or an authorization elsewhere first. *)
SayNothing(i) ==
  /\ Misbehave
  /\ Give(i, "nothing", {})

(* A signer leaves the relays the client has moved away from. *)
Leave(signer) ==
  /\ Misbehave
  /\ signerAt[signer] # bp /\ bp \subseteq signerAt[signer]
  /\ signerAt' = [signerAt EXCEPT ![signer] = bp]
  /\ UNCHANGED <<offered, pageVars, netVars, scanned, broken, hit, lost>>

-----------------------------------------------------------------------------
Client ==
  \/ \E w \in wire : Deliver(w)
  \/ \E i \in DOMAIN subs : CloseFinished(i)
  \/ \E t \in retiring : Retire(t)
  \/ RaceTimer \/ GetPublicKey \/ SignEvent

Network ==
  \/ \E r \in Relays : Opens(r) \/ Drop(r)
  \/ \E i \in DOMAIN subs, r \in Relays : EndSubscription(i, r)
  \/ \E i \in DOMAIN calls, r \in Relays : Accept(i, r) \/ Refuse(i, r)

Signer ==
  \/ \E signer \in Signers : Scan(signer) \/ Stranger(signer) \/ Leave(signer)
  \/ \E i \in DOMAIN calls : Answer(i) \/ Decline(i) \/ SayNothing(i)

Next == Client \/ Network \/ Signer

Spec == Init /\ [][Next]_vars

(* Callbacks and timers run, connections open or fail, relays answer and     *)
(* forward, and the signer answers what it hears.  Nobody need scan a link.  *)
Fairness ==
  /\ WF_vars(\E w \in wire : Deliver(w))
  /\ WF_vars(\E i \in DOMAIN subs : CloseFinished(i))
  /\ WF_vars(\E t \in retiring : Retire(t))
  /\ WF_vars(RaceTimer) /\ WF_vars(GetPublicKey) /\ WF_vars(SignEvent)
  /\ \A r \in Relays :
       /\ WF_vars(Opens(r)) /\ WF_vars(\E i \in DOMAIN calls : Accept(i, r))
  /\ WF_vars(\E i \in DOMAIN calls : Answer(i))

FairSpec == Spec /\ Fairness

-----------------------------------------------------------------------------
TypeOK ==
  /\ phase \in {"waiting", "racing", "ready", "failed"}
  /\ offered \in Offers /\ bp \in Offers \cup Switches /\ peer \in Signers
  /\ conn \in [Relays -> {"down", "opening", "up"}]
  /\ subs \in Seq([from: Signers \cup {"anyone"},
                   at: [Relays -> {"none", "opening", "live", "closed"}]])
  /\ current \in 0 .. Len(subs) /\ closing \subseteq DOMAIN subs
  /\ retiring \subseteq (DOMAIN subs) \X (DOMAIN subs)
  /\ \A i \in DOMAIN subs, r \in Relays :
       (subs[i].at[r] = "live" => conn[r] = "up") /\ (subs[i].at[r] = "opening" => conn[r] = "opening")
  /\ calls \in Seq([method: {"switch_relays", "get_public_key", "sign_event"}, to: Signers,
                    promise: {"pending", "resolved", "rejected"},
                    heard: BOOLEAN, given: BOOLEAN,
                    at: [Relays -> {"none", "opening", "sent", "ok", "failed"}]])
  /\ \A w \in wire : w.sub \in DOMAIN subs /\ w.call \in 0 .. Len(calls) /\ Live(w.sub, w.relay)
  /\ asked \in Seq(DOMAIN calls) /\ Len(asked) <= 2
  /\ signerAt \in [Signers -> SUBSET Relays] /\ scanned \subseteq Signers
  /\ broken \subseteq Relays /\ hit \cup lost \subseteq 0 .. Len(calls)
  /\ unruly \in BOOLEAN /\ faults \in 0 .. MaxFaults

AsAbstract(call) ==
  [state |-> IF call.promise = "resolved" THEN "answered" ELSE call.promise,
   given |-> call.given]

Abstract == INSTANCE RemoteSigner WITH
  proven <- scanned # {} \/ ~IsOffer(subs[1]),
  phase <- IF phase \in {"waiting", "racing"} THEN "connecting" ELSE phase,
  calls <- [k \in DOMAIN asked |-> AsAbstract(calls[asked[k]])]

(* However relays fail, close and deliver twice, and although the client     *)
(* moves between relays in the middle of a call and subscriptions come and   *)
(* go behind it: a handle is ready only after the signer has shown the       *)
(* secret, and a call is settled once, with an answer given to it.          *)
ImplementsRemoteSigner == Abstract!Spec

Places(c) == {r \in Relays : c.at[r] # "none"}

(* One relay that works is enough: connecting fails only when every relay of *)
(* the link has failed, and a call is rejected only by the signer or when   *)
(* every relay it was published to has failed (Promise.any).                *)
OneRelaySuffices ==
  /\ phase = "failed" => offered \subseteq broken
  /\ \A i \in DOMAIN calls : calls[i].promise = "rejected" =>
       calls[i].given \/ Places(calls[i]) \subseteq broken

(* Nobody has asked the client to move to no relays. *)
Placed == \A j \in DOMAIN subs : \E r \in Relays : subs[j].at[r] # "none"

(* While no relay fails, a call that waits is listened for: neither the      *)
(* timers that close what the client has moved away from nor another signer *)
(* that takes it over leave a call without a subscription to the signer it   *)
(* was sent to.  A client that was asked to move to no relays is excused.    *)
CallsStayHeard ==
  broken = {} /\ Placed =>
    \A i \in DOMAIN calls : calls[i].promise = "pending" =>
      \E j \in DOMAIN subs : subs[j].from = calls[i].to /\ ~Ended(subs[j])

(* Every call settles, although no call has a time limit: a client that has  *)
(* moved, lost every subscription before the call, or overwritten subCloser *)
(* still hears the answer.  The exceptions are what the code does nothing    *)
(* against: a signer or timer out of order, or one that asks to move        *)
(* nowhere; relays that fail during the call until none is left of those it *)
(* was published to or of the session; an answer on its way through a relay *)
(* that fails, or given while, after a failure, a relay is still opened.    *)
Excused(i) ==
  \/ unruly \/ bp = {}
  \/ i \in hit /\ (Places(calls[i]) \subseteq broken \/ bp \subseteq broken)
  \/ i \in lost /\ broken # {}

CallsSettle == []<>(\A i \in DOMAIN calls : calls[i].promise = "pending" => Excused(i))

-----------------------------------------------------------------------------
(* A statement of the documentation that the code does not keep *)

(* docs/design.md and website/docs/signing-in.md: the page waits up to 60    *)
(* seconds for the connection and then reports a failure that can be         *)
(* retried; loginPage.html:238 passes this budget to fromURI.               *)
BudgetEnforced == phase = "waiting" ~> phase # "waiting"
=============================================================================
