--------------------------- MODULE MCLoginService ---------------------------
(* Small values for LoginService and Dashboard: the clock shows a handful of *)
(* seconds on both sides of the 60-second window and of a one-hour max-age.  *)
EXTENDS Dashboard

T0 == 100000

MCInstants == {T0, T0 + 60, T0 + 121, T0 + 3601}

Snapshot(pubkeys, createdAt, public) ==
  [pubkeys |-> pubkeys, createdAt |-> createdAt, public |-> public]

MCSnapshots ==
  {Snapshot({"alice"}, T0, FALSE), Snapshot({"alice", "crooked"}, T0 - 3600, FALSE),
   Snapshot({}, T0 + 60, TRUE)}

Setting(hours, failClosed, published, configured) ==
  [maxHours |-> hours, failClosed |-> failClosed, published |-> published,
   configured |-> configured]

MCSettings ==
  {Setting(1, FALSE, NoUrl, TRUE), Setting(0, TRUE, "published", TRUE),
   Setting(1, FALSE, NoUrl, FALSE)}

Login(t) ==
  [event |-> [parses |-> TRUE, kind |-> LoginKind, createdAt |-> t, url |-> "published",
              method |-> "POST", payload |-> "meta", sigOk |-> TRUE, pubkey |-> "alice"],
   arrivedAt |-> "published", length |-> 10, body |-> "meta"]

(* A valid login and every single deviation from it. *)
MCRequests ==
  {Login(T0), Login(T0 + 61),
   [Login(T0) EXCEPT !.arrivedAt = "direct"],
   [Login(T0) EXCEPT !.event.parses = FALSE],
   [Login(T0) EXCEPT !.event.kind = 1],
   [Login(T0) EXCEPT !.event.method = "GET"],
   [Login(T0) EXCEPT !.event.payload = NoTag],
   [Login(T0) EXCEPT !.event.payload = "odd"],
   [Login(T0) EXCEPT !.event.payload = Empty, !.length = NoLength],
   [Login(T0) EXCEPT !.length = 0],
   [Login(T0) EXCEPT !.event.sigOk = FALSE],
   [Login(T0) EXCEPT !.event.pubkey = "mallory"],
   [Login(T0) EXCEPT !.body = "odd", !.event.payload = "odd"],
   [Login(T0) EXCEPT !.length = MaxBodyBytes + 1]}

OneSnapshot == {Snapshot({"alice"}, T0, FALSE)}
OneSetting == {Setting(1, FALSE, NoUrl, TRUE)}
=============================================================================
