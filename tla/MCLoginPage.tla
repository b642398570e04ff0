----------------------------- MODULE MCLoginPage -----------------------------
(* Small values for LoginPage: behind a proxy, where the page and the server *)
(* see different URLs, and a Published server URL that is the page's.        *)
EXTENDS LoginPage

Setting(published) ==
  [maxHours |-> 24, failClosed |-> FALSE, published |-> published, configured |-> TRUE]

MCSettings == {Setting(NoUrl), Setting(PageUrl)}

MCInstants == {100, 161}
MCSkews == {0, 61}
OneInstant == {100}
NoSkew == {0}
=============================================================================
