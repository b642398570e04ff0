---------------------------- MODULE RemoteSigner ----------------------------
(***************************************************************************)
(* What the login page is promised of a remote signer: a handle that is    *)
(* ready only after a signer has proved that it holds the secret of the    *)
(* link, and calls made one after another, each of which settles once and  *)
(* is answered only with an answer the signer gave to that very call.      *)
(***************************************************************************)
EXTENDS Integers, Sequences

VARIABLES
  proven,  \* a signer has shown the secret, or the link names the signer
  phase,   \* of the handle
  calls    \* the page's calls in order

vars == <<proven, phase, calls>>

Call(state) == [state |-> state, given |-> FALSE]

Init ==
  /\ phase \in {"connecting", "ready", "failed"}
  /\ proven \in BOOLEAN /\ (phase = "ready" => proven) /\ calls = <<>>

Prove == ~proven /\ proven' = TRUE /\ UNCHANGED <<phase, calls>>

Connect == phase = "connecting" /\ proven /\ phase' = "ready" /\ UNCHANGED <<proven, calls>>

Fail == phase = "connecting" /\ phase' = "failed" /\ UNCHANGED <<proven, calls>>

(* A call may be rejected on the spot. *)
Ask ==
  /\ phase = "ready" /\ \A i \in DOMAIN calls : calls[i].state = "answered"
  /\ \E state \in {"pending", "rejected"} : calls' = Append(calls, Call(state))
  /\ UNCHANGED <<proven, phase>>

Give(i) ==
  /\ ~calls[i].given
  /\ calls' = [calls EXCEPT ![i].given = TRUE]
  /\ UNCHANGED <<proven, phase>>

Answer(i) ==
  /\ calls[i].state = "pending" /\ calls[i].given
  /\ calls' = [calls EXCEPT ![i].state = "answered"]
  /\ UNCHANGED <<proven, phase>>

Reject(i) ==
  /\ calls[i].state = "pending"
  /\ calls' = [calls EXCEPT ![i].state = "rejected"]
  /\ UNCHANGED <<proven, phase>>

Next ==
  \/ Prove \/ Connect \/ Fail \/ Ask
  \/ \E i \in DOMAIN calls : Give(i) \/ Answer(i) \/ Reject(i)

Spec == Init /\ [][Next]_vars
=============================================================================
