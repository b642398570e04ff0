------------------------ MODULE AccountKeepingProofs ------------------------
(***************************************************************************)
(* A key that has signed in keeps its account: KeepsItsAccount of          *)
(* UserProvisioning, for every set of keys, any number of concurrent       *)
(* logins and every bound on edits and crashes.                            *)
(*                                                                         *)
(* What ties the sessions of a key together is its link, which its logins  *)
(* read, replace and save in steps that others come between.  The          *)
(* invariant says what a login knows of the link and of the accounts at    *)
(* each step, and that the file has the link before the session exists.    *)
(***************************************************************************)
EXTENDS UserProvisioningProofs

(* What is claimed is claimed of behaviours without a page save and of a key *)
(* whose logins have not overlapped.                                        *)
Lone(p) == posts = 0 /\ p \notin overlapped

(* The account a list of links gives a key, as a set of at most one id. *)
AccountOf(links, p) == {links[i].user : i \in FirstOf(links, p)}

(* A key that has a link has a first one. *)
FirstExists(links) == \A i \in DOMAIN links : FirstOf(links, links[i].pubkey) # {}

Busy(q, p) == InProgress(q) /\ key[q] = p

(* Without a page save there is one configuration object. *)
OneObject == posts = 0 => Len(objects) = 1 /\ FirstExists(Links) /\ FirstExists(disk)

(* Whoever is about to write a link holds the lock, and the link it found is *)
(* still the first of its key.                                              *)
Exclusive == \A q \in Procs : pc[q] = "write" => lock = {q}
WriterFound ==
  \A q \in Procs : posts = 0 /\ pc[q] = "write" =>
    IF found[q] = <<>> THEN FirstOf(Links, key[q]) = {}
                       ELSE found[q][1] = 1 /\ found[q][2] \in FirstOf(Links, key[q])

AtMostOne(p) == \A q, r \in Procs : Busy(q, p) /\ Busy(r, p) => q = r

(* An account that the key has signed in to and that is still there is the   *)
(* one of its link, in the server and in the file.                          *)
HeldLinked(p) ==
  \A s \in sessions : s.pubkey = p /\ s.user \in DOMAIN users =>
    AccountOf(Links, p) = {s.user} /\ AccountOf(disk, p) = {s.user}

(* A login that looks for an account by name, makes one or links one has     *)
(* none that it could keep; one that has an account by its link, or has     *)
(* linked it, has the account of the link.                                  *)
Seeking == {"byName", "create", "password", "update", "link", "write", "save"}
LoginKnows(p) ==
  \A q \in Procs : Busy(q, p) =>
    /\ pc[q] \in Seeking => \A s \in sessions : s.pubkey = p => s.user \notin DOMAIN users
    /\ pc[q] \in {"byId", "save", "mint"} => AccountOf(Links, p) = {account[q]}

(* The file has the key's link unless its login is about to save it. *)
Saved(p) ==
  (\A q \in Procs : Busy(q, p) => pc[q] # "save") => AccountOf(Links, p) = AccountOf(disk, p)

Keeps(p) == Lone(p) => AtMostOne(p) /\ HeldLinked(p) /\ LoginKnows(p) /\ Saved(p)

KInv == IInv /\ OneObject /\ Exclusive /\ WriterFound /\ \A p \in Pubkeys : Keeps(p)

-----------------------------------------------------------------------------
(* Lists of links *)

LEMMA FirstUnique ==
  ASSUME NEW links \in Seq(LinkType), NEW p, NEW i \in FirstOf(links, p), NEW j \in FirstOf(links, p)
  PROVE  i = j
<1>1. i \in 1 .. Len(links) /\ j \in 1 .. Len(links) /\ links[i].pubkey = p /\ links[j].pubkey = p
  BY FirstOfIs
<1>2. (\A k \in 1 .. i - 1 : links[k].pubkey # p) /\ (\A k \in 1 .. j - 1 : links[k].pubkey # p)
  BY DEF FirstOf
<1>3. ~(i < j) /\ ~(j < i)
  <2>1. i < j => i \in 1 .. j - 1
    BY <1>1
  <2>2. j < i => j \in 1 .. i - 1
    BY <1>1
  <2> QED
    BY <1>1, <1>2, <2>1, <2>2
<1> QED
  BY <1>1, <1>3

LEMMA AccountOfFirst ==
  ASSUME NEW links \in Seq(LinkType), NEW p, NEW i \in FirstOf(links, p)
  PROVE  AccountOf(links, p) = {links[i].user}
BY FirstUnique DEF AccountOf

(* A link added at the end is the first of its key if there was none, and    *)
(* changes nothing for the other keys.                                      *)
LEMMA AppendLink ==
  ASSUME NEW links \in Seq(LinkType), NEW link \in LinkType, FirstExists(links),
         FirstOf(links, link.pubkey) = {}
  PROVE  /\ FirstExists(Append(links, link))
         /\ AccountOf(Append(links, link), link.pubkey) = {link.user}
         /\ \A p : p # link.pubkey => AccountOf(Append(links, link), p) = AccountOf(links, p)
<1> DEFINE new == Append(links, link)
           n == Len(links)
           k == link.pubkey
<1>1. /\ n \in Nat /\ DOMAIN links = 1 .. n /\ new \in Seq(LinkType) /\ DOMAIN new = 1 .. n + 1
      /\ new[n + 1] = link /\ \A i \in 1 .. n : new[i] = links[i]
  OBVIOUS
<1>2. \A i \in 1 .. n : links[i].pubkey # k
  BY <1>1 DEF FirstExists
<1> HIDE DEF n, new, k
<1>3. \A i \in 1 .. n : i \in 1 .. n + 1 /\ \A j \in 1 .. i - 1 : j \in 1 .. n
  BY <1>1
<1>4. n + 1 \in 1 .. n + 1 /\ n + 1 \notin 1 .. n /\ (n + 1) - 1 = n
      /\ \A i \in 1 .. n + 1 : i \in 1 .. n \/ i = n + 1
  BY <1>1
<1>5. ASSUME NEW p, p # k PROVE FirstOf(new, p) = FirstOf(links, p)
  BY <1>1, <1>3, <1>4, <1>5 DEF FirstOf, k
<1>6. n + 1 \in FirstOf(new, k)
  BY <1>1, <1>2, <1>4 DEF FirstOf, k
<1>7. AccountOf(new, k) = {link.user}
  BY <1>1, <1>6, AccountOfFirst
<1>8. ASSUME NEW p, p # k PROVE AccountOf(new, p) = AccountOf(links, p)
  <2>1. \A i \in FirstOf(links, p) : new[i] = links[i]
    BY <1>1 DEF FirstOf
  <2> QED
    BY <1>5, <1>8, <2>1 DEF AccountOf
<1>9. FirstExists(new)
  <2>1. ASSUME NEW i \in 1 .. n PROVE FirstOf(new, new[i].pubkey) # {}
    BY <1>1, <1>2, <1>5, <2>1 DEF FirstExists
  <2>2. FirstOf(new, new[n + 1].pubkey) # {}
    BY <1>1, <1>6 DEF k
  <2> QED
    BY <1>1, <1>4, <2>1, <2>2 DEF FirstExists
<1> QED
  BY <1>7, <1>8, <1>9 DEF new, k

(* The i-th link may have another account; nothing else changes. *)
Redirected(links, new, i) ==
  /\ new \in Seq(LinkType) /\ DOMAIN new = DOMAIN links
  /\ \A j \in DOMAIN links : new[j].pubkey = links[j].pubkey
  /\ \A j \in DOMAIN links : j # i => new[j] = links[j]

(* Another account in the first link of a key changes nothing for the others. *)
LEMMA ChangeLink ==
  ASSUME NEW links \in Seq(LinkType), NEW new, NEW k, NEW i,
         FirstExists(links), i \in FirstOf(links, k), Redirected(links, new, i)
  PROVE  /\ FirstExists(new)
         /\ AccountOf(new, k) = {new[i].user}
         /\ \A p : p # k => AccountOf(new, p) = AccountOf(links, p)
<1> USE DEF Redirected
<1>1. i \in DOMAIN links /\ links[i].pubkey = k
  BY FirstOfIs
<1>6. ASSUME NEW p PROVE FirstOf(new, p) = FirstOf(links, p)
  <2>1. \A j \in DOMAIN links : \A m \in 1 .. j - 1 : m \in DOMAIN links
    OBVIOUS
  <2> QED
    BY <2>1 DEF FirstOf
<1>7. AccountOf(new, k) = {new[i].user}
  <2>1. i \in FirstOf(new, k)
    BY <1>6
  <2> QED
    BY <2>1, AccountOfFirst
<1>8. ASSUME NEW p, p # k PROVE AccountOf(new, p) = AccountOf(links, p)
  <2>1. \A j \in FirstOf(links, p) : j \in DOMAIN links /\ j # i
    BY <1>1, <1>8 DEF FirstOf
  <2> QED
    BY <1>6, <2>1 DEF AccountOf
<1>9. FirstExists(new)
  BY <1>6 DEF FirstExists
<1> QED
  BY <1>7, <1>8, <1>9

-----------------------------------------------------------------------------
(* What a step does to the links *)

LEMMA PostsFrame == ASSUME Typed, [Next]_vars, posts' = 0 PROVE posts = 0 /\ ~PagePost
<1>1. posts \in Nat
  BY ProvisioningAssumption DEF Typed, HistoryTyped
<1>2. ~PagePost
  BY <1>1 DEF PagePost
<1>3. posts' = posts \/ PagePost
  BY DEF Next, Login, Start, GetLinkedUser, FindById, FindByName, CreateUser, ChangePassword,
         UpdateUser, Harden, CutShort, LinkFind, LinkWrite, Save, Mint, DeleteUser, RenameUser, MakeUser, PageGet,
         Crash, vars, boundVars
<1> QED
  BY <1>2, <1>3

(* LinkUser's write gives its key the account of the login. *)
LEMMA LinkWriteLinks ==
  ASSUME Typed, OneObject, WriterFound, posts = 0, NEW q \in Procs, LinkWrite(q)
  PROVE  /\ Len(objects') = 1 /\ FirstExists(Links') /\ disk' = disk
         /\ AccountOf(Links', key[q]) = {account[q]}
         /\ \A p : p # key[q] => AccountOf(Links', p) = AccountOf(Links, p)
<1>1. /\ objects \in Seq(Seq(LinkType)) /\ Len(objects) = 1 /\ Links = objects[1]
      /\ Links \in Seq(LinkType) /\ FirstExists(Links) /\ FirstExists(disk)
  BY LinksTyped DEF OneObject, Typed, ConfigTyped, Links
<1>2. Link(key[q], account[q]) \in LinkType /\ account[q] \in Ids
  BY DEF LinkWrite, Typed, LoginsTyped, Holding, Link, LinkType
<1>3. DOMAIN objects' = DOMAIN objects /\ objects' \in Seq(Seq(LinkType)) /\ disk' = disk
  BY LinkWriteMakes DEF LinkWrite
<1>4. Len(objects') = 1 /\ Links' = objects'[1]
  <2> DEFINE m == Len(objects')
  <2>1. m \in Nat /\ 1 .. m = 1 .. 1
    <3>1. m \in Nat /\ DOMAIN objects' = 1 .. m
      BY <1>3
    <3>2. DOMAIN objects = 1 .. 1
      BY <1>1
    <3> QED
      BY <1>3, <3>1, <3>2
  <2> HIDE DEF m
  <2>2. m = 1
    BY <2>1
  <2> QED
    BY <2>2 DEF Links, m
<1>5. pc[q] = "write"
  BY DEF LinkWrite
<1>6. CASE found[q] = <<>>
  <2> DEFINE link == Link(key[q], account[q])
  <2>1. FirstOf(Links, key[q]) = {}
    BY <1>5, <1>6 DEF WriterFound
  <2>2. link.pubkey = key[q] /\ link.user = account[q] /\ link \in LinkType
    BY <1>2 DEF Link
  <2> HIDE DEF link
  <2>3. objects' = [objects EXCEPT ![1] = Append(objects[1], link)]
    BY <1>1, <1>6 DEF LinkWrite, link
  <2>4. Links' = Append(Links, link)
    BY <1>1, <1>4, <2>3
  <2>5. /\ FirstExists(Append(Links, link)) /\ AccountOf(Append(Links, link), key[q]) = {account[q]}
        /\ \A p : p # key[q] => AccountOf(Append(Links, link), p) = AccountOf(Links, p)
    <3> DEFINE l == Links
    <3>1. l \in Seq(LinkType) /\ FirstExists(l) /\ FirstOf(l, link.pubkey) = {}
      BY <1>1, <2>1, <2>2
    <3> HIDE DEF l
    <3>2. /\ FirstExists(Append(l, link)) /\ AccountOf(Append(l, link), link.pubkey) = {link.user}
          /\ \A p : p # link.pubkey => AccountOf(Append(l, link), p) = AccountOf(l, p)
      BY <2>2, <3>1, AppendLink
    <3> QED
      BY <2>2, <3>2 DEF l
  <2> DEFINE new == Append(Links, link)
  <2> HIDE DEF new
  <2>6. FirstExists(Links') <=> FirstExists(new)
    BY <2>4 DEF new, FirstExists
  <2>7. \A p : AccountOf(Links', p) = AccountOf(new, p)
    BY <2>4 DEF new, AccountOf
  <2> QED
    BY <1>3, <1>4, <2>5, <2>6, <2>7 DEF new
<1>7. CASE found[q] # <<>>
  <2> DEFINE i == found[q][2]
  <2>1. found[q][1] = 1 /\ i \in FirstOf(Links, key[q])
    BY <1>5, <1>7 DEF WriterFound
  <2>2. objects' = [objects EXCEPT ![1][i].user = account[q]]
    BY <1>7, <2>1 DEF LinkWrite
  <2> HIDE DEF i
  <2> DEFINE l == Links
             new == Links'
             u == account[q]
             k == key[q]
  <2>3. /\ l \in Seq(LinkType) /\ FirstExists(l) /\ i \in FirstOf(l, k) /\ i \in DOMAIN l
        /\ new \in Seq(LinkType) /\ u \in Ids
    BY <1>1, <1>2, <1>3, <1>4, <2>1, FirstOfIs
  <2>4. new = [l EXCEPT ![i].user = u]
    BY <1>1, <1>4, <2>2
  <2> HIDE DEF l, new, u, k
  <2>5. DOMAIN new = DOMAIN l /\ \A j \in DOMAIN l : j # i => new[j] = l[j]
    BY <2>3, <2>4
  <2>6. l[i] \in LinkType /\ new[i] = [l[i] EXCEPT !.user = u]
    BY <2>3, <2>4
  <2>7. new[i].user = u /\ new[i].pubkey = l[i].pubkey
    BY <2>6 DEF LinkType
  <2>8. \A j \in DOMAIN l : new[j].pubkey = l[j].pubkey
    BY <2>5, <2>7
  <2>9. Redirected(l, new, i)
    BY <2>3, <2>5, <2>8 DEF Redirected
  <2>10. /\ FirstExists(new) /\ AccountOf(new, k) = {new[i].user}
         /\ \A p : p # k => AccountOf(new, p) = AccountOf(l, p)
    BY <2>3, <2>9, ChangeLink
  <2> QED
    BY <1>3, <1>4, <2>7, <2>10 DEF l, new, u, k
<1> QED
  BY <1>6, <1>7

LEMMA LinksCases ==
  ASSUME Typed, OneObject, [Next]_vars, posts' = 0
  PROVE  \/ UNCHANGED <<objects, disk>> /\ Links' = Links
         \/ \E q \in Procs : LinkWrite(q)
         \/ \E q \in Procs : Save(q) /\ UNCHANGED objects /\ disk' = Links /\ Links' = Links
         \/ Crash /\ Links' = disk /\ disk' = disk /\ Len(objects') = 1
<1>1. CASE UNCHANGED <<objects, disk, tab>> \/ PageGet
  BY <1>1 DEF PageGet, configVars, Links
<1>2. ASSUME NEW q \in Procs, Save(q)
      PROVE  UNCHANGED objects /\ disk' = Links /\ Links' = Links
  BY <1>2 DEF Save, Links
<1>3. CASE Crash
  BY <1>3 DEF Crash, Links
<1> QED
  BY <1>1, <1>2, <1>3, LinksFrame, PostsFrame

LEMMA OneObjectStep ==
  ASSUME Typed, OneObject, WriterFound, [Next]_vars
  PROVE  OneObject'
<1> SUFFICES ASSUME posts' = 0 PROVE Len(objects') = 1 /\ FirstExists(Links') /\ FirstExists(disk')
  BY DEF OneObject, FirstExists, FirstOf
<1>1. posts = 0 /\ Len(objects) = 1 /\ FirstExists(Links) /\ FirstExists(disk)
  BY PostsFrame DEF OneObject
<1>2. CASE UNCHANGED <<objects, disk>> /\ Links' = Links
  BY <1>1, <1>2
<1>3. ASSUME NEW q \in Procs, LinkWrite(q)
      PROVE  Len(objects') = 1 /\ FirstExists(Links') /\ FirstExists(disk')
  BY <1>1, <1>3, LinkWriteLinks
<1>4. CASE UNCHANGED objects /\ disk' = Links /\ Links' = Links
  BY <1>1, <1>4
<1>5. CASE Links' = disk /\ disk' = disk /\ Len(objects') = 1
  BY <1>1, <1>5
<1> QED
  BY <1>2, <1>3, <1>4, <1>5, LinksCases

(* A login gets to "write" by LinkFind only, which takes the lock. *)
LEMMA WriteCases ==
  ASSUME Typed, [Next]_vars, NEW q \in Procs, pc'[q] = "write"
  PROVE  \/ LinkFind(q)
         \/ /\ pc[q] = "write" /\ found'[q] = found[q] /\ key'[q] = key[q] /\ ~Crash
<1> USE DEF Typed, LoginsTyped
<1>1. ~Crash
  BY DEF Crash
<1>2. CASE Login(q)
  BY <1>2 DEF Login, Start, GetLinkedUser, FindById, FindByName, CreateUser, ChangePassword,
              UpdateUser, Harden, CutShort, LinkWrite, Save, Mint, Resolved, Goto
<1>3. ASSUME NEW r \in Procs, r # q, Login(r)
      PROVE  pc[q] = "write" /\ found'[q] = found[q] /\ key'[q] = key[q]
  BY <1>3, OthersKept
<1> QED
  BY <1>1, <1>2, <1>3, ProcsFrame

LEMMA LockFrame ==
  ASSUME [Next]_vars
  PROVE  lock' = lock \/ Crash \/ \E r \in Procs : LinkFind(r) \/ LinkWrite(r)
BY DEF Next, Login, Start, GetLinkedUser, FindById, FindByName, CreateUser, ChangePassword,
       UpdateUser, Harden, CutShort, Save, Mint, DeleteUser, RenameUser, MakeUser, PageGet, PagePost, vars, procVars

LEMMA ExclusiveStep ==
  ASSUME Typed, Exclusive, [Next]_vars
  PROVE  Exclusive'
<1> SUFFICES ASSUME NEW q \in Procs, pc'[q] = "write" PROVE lock' = {q}
  BY DEF Exclusive
<1>1. CASE LinkFind(q)
  BY <1>1 DEF LinkFind
<1>2. CASE pc[q] = "write" /\ ~Crash
  <2>1. lock = {q} /\ lock # {}
    BY <1>2 DEF Exclusive
  <2>2. \A r \in Procs : ~LinkFind(r)
    BY <2>1 DEF LinkFind
  <2>3. \A r \in Procs : ~LinkWrite(r)
    <3> SUFFICES ASSUME NEW r \in Procs, LinkWrite(r) PROVE FALSE
      OBVIOUS
    <3>1. lock = {r}
      BY DEF LinkWrite, Exclusive
    <3>2. r = q
      BY <2>1, <3>1
    <3>3. pc'[r] = "save"
      BY DEF LinkWrite, Goto, Typed, LoginsTyped
    <3> QED
      BY <3>2, <3>3
  <2> QED
    BY <1>2, <2>1, <2>2, <2>3, LockFrame
<1> QED
  BY <1>1, <1>2, WriteCases

LEMMA WriterFoundStep ==
  ASSUME Typed, OneObject, Exclusive, WriterFound, [Next]_vars
  PROVE  WriterFound'
<1> SUFFICES ASSUME NEW q \in Procs, posts' = 0, pc'[q] = "write"
             PROVE  IF found'[q] = <<>> THEN FirstOf(Links', key'[q]) = {}
                    ELSE found'[q][1] = 1 /\ found'[q][2] \in FirstOf(Links', key'[q])
  BY DEF WriterFound, FirstOf
<1>1. posts = 0 /\ Len(objects) = 1
  BY PostsFrame DEF OneObject
<1>2. CASE LinkFind(q)
  <2>1. Links' = Links /\ key' = key
    BY <1>2 DEF LinkFind, configVars, Links
  <2>2. found'[q] = IF FirstOf(Links, key[q]) = {} THEN <<>>
                    ELSE <<1, CHOOSE i \in FirstOf(Links, key[q]) : TRUE>>
    BY <1>1, <1>2 DEF LinkFind, Typed, FoundTyped
  <2>3. FirstOf(Links, key[q]) # {} =>
          (CHOOSE i \in FirstOf(Links, key[q]) : TRUE) \in FirstOf(Links, key[q])
    OBVIOUS
  <2> DEFINE i == CHOOSE k \in FirstOf(Links, key[q]) : TRUE
  <2> HIDE DEF i
  <2>4. FirstOf(Links, key[q]) # {} => found'[q] = <<1, i>> /\ i \in FirstOf(Links, key[q])
    BY <2>2, <2>3 DEF i
  <2> QED
    BY <2>1, <2>2, <2>4
<1>3. CASE /\ pc[q] = "write" /\ found'[q] = found[q] /\ key'[q] = key[q] /\ ~Crash
           /\ \A r \in Procs : ~LinkWrite(r)
  <2>1. Links' = Links
    BY <1>3, LinksCases
  <2> QED
    BY <1>1, <1>3, <2>1 DEF WriterFound
<1>4. ASSUME pc[q] = "write", NEW r \in Procs, LinkWrite(r) PROVE FALSE
  <2>1. lock = {q} /\ lock = {r}
    BY <1>4 DEF LinkWrite, Exclusive
  <2>2. pc'[r] = "save"
    BY <1>4 DEF LinkWrite, Goto, Typed, LoginsTyped
  <2> QED
    BY <2>1, <2>2
<1> QED
  BY <1>2, <1>3, <1>4, WriteCases

-----------------------------------------------------------------------------
(* What a step does to the logins and the link of a key *)

LEMMA LoginMoves ==
  ASSUME Typed, [Next]_vars, NEW q \in Procs
  PROVE  \/ Crash
         \/ Login(q)
         \/ pc'[q] = pc[q] /\ key'[q] = key[q] /\ account'[q] = account[q]
BY ProcsFrame, OthersKept

(* The overlaps are remembered. *)
LEMMA OverlapsGrow == ASSUME [Next]_vars PROVE overlapped \subseteq overlapped'
BY DEF Next, Login, Start, GetLinkedUser, FindById, FindByName, CreateUser, ChangePassword,
       UpdateUser, Harden, CutShort, LinkFind, LinkWrite, Save, Mint, DeleteUser, RenameUser, MakeUser, PageGet,
       PagePost, Crash, vars, boundVars

LEMMA LoneStep == ASSUME Typed, [Next]_vars, NEW p, Lone(p)' PROVE Lone(p)
BY PostsFrame, OverlapsGrow DEF Lone

LEMMA KeyKept ==
  ASSUME Typed, NEW q \in Procs, InProgress(q), Login(q)
  PROVE  key'[q] = key[q]
BY DEF Login, Start, GetLinkedUser, FindById, FindByName, CreateUser, ChangePassword, UpdateUser, Harden, CutShort,
       LinkFind, LinkWrite, Save, Mint

(* A login of a key that has not overlapped goes on or is its only one. *)
LEMMA BusyStep ==
  ASSUME Typed, [Next]_vars, NEW p \in Pubkeys, p \notin overlapped', NEW q \in Procs, Busy(q, p)'
  PROVE  \/ Busy(q, p) /\ ~Crash
         \/ Start(q, p) /\ \A r \in Procs : ~Busy(r, p)
<1> USE DEF Busy, InProgress, Typed, LoginsTyped
<1>1. ~Crash
  BY DEF Crash
<1>2. CASE Login(q)
  <2>1. CASE InProgress(q)
    BY <1>1, <1>2, <2>1, KeyKept
  <2>2. CASE ~InProgress(q)
    <3>1. PICK r \in Pubkeys : Start(q, r)
      BY <1>2, <2>2 DEF Login, GetLinkedUser, FindById, FindByName, CreateUser, ChangePassword,
                        UpdateUser, Harden, CutShort, LinkFind, LinkWrite, Save, Mint
    <3>2. r = p
      BY <3>1 DEF Start
    <3> QED
      BY <3>1, <3>2 DEF Start
  <2> QED
    BY <2>1, <2>2
<1> QED
  BY <1>1, <1>2, LoginMoves

LEMMA AtMostOneStep ==
  ASSUME Typed, [Next]_vars, NEW p \in Pubkeys, p \notin overlapped', AtMostOne(p)
  PROVE  AtMostOne(p)'
<1> SUFFICES ASSUME NEW q \in Procs, NEW r \in Procs, Busy(q, p)', Busy(r, p)' PROVE q = r
  BY DEF AtMostOne
<1>1. ASSUME NEW a \in Procs, NEW b \in Procs, Busy(b, p)', Start(a, p), a # b,
             \A c \in Procs : ~Busy(c, p)
      PROVE  FALSE
  <2>1. Login(a)
    BY <1>1 DEF Login
  <2>2. pc'[b] = pc[b] /\ key'[b] = key[b]
    BY <1>1, <2>1, OthersKept
  <2> QED
    BY <1>1, <2>2 DEF Busy, InProgress
<1> QED
  BY <1>1, BusyStep DEF AtMostOne

LEMMA LinkOfKey ==
  ASSUME Typed, OneObject, WriterFound, [Next]_vars, posts' = 0, NEW p
  PROVE  \/ Crash /\ Links' = disk /\ disk' = disk
         \/ \E q \in Procs : Save(q) /\ disk' = Links /\ Links' = Links
         \/ \E q \in Procs : /\ LinkWrite(q) /\ key[q] = p /\ disk' = disk
                              /\ AccountOf(Links', p) = {account[q]}
         \/ AccountOf(Links', p) = AccountOf(Links, p) /\ disk' = disk
<1>1. ASSUME NEW q \in Procs, LinkWrite(q)
      PROVE  \/ /\ LinkWrite(q) /\ key[q] = p /\ disk' = disk
                /\ AccountOf(Links', p) = {account[q]}
             \/ AccountOf(Links', p) = AccountOf(Links, p) /\ disk' = disk
  BY <1>1, PostsFrame, LinkWriteLinks
<1>2. CASE UNCHANGED <<objects, disk>> /\ Links' = Links
  BY <1>2
<1> QED
  BY <1>1, <1>2, LinksCases

-----------------------------------------------------------------------------
(* A key without an account of its own *)

(* No account that the key has signed in to is still there. *)
Gone(p) == \A s \in sessions : s.pubkey = p => s.user \notin DOMAIN users

(* An account that a session is on does not come back. *)
LEMMA NoRevival ==
  ASSUME Typed, SessionsFit, [Next]_vars, NEW s \in sessions, s.user \in DOMAIN users'
  PROVE  s.user \in DOMAIN users
BY UserKept DEF SessionsFit, Fits

LEMMA OnlyMintAdds ==
  ASSUME [Next]_vars, NEW s \in sessions', s \notin sessions
  PROVE  \E q \in Procs : /\ Mint(q) /\ account[q] \in DOMAIN users
                          /\ s = Link(key[q], account[q])
BY SessionsFrame DEF Mint

LEMMA GoneStays ==
  ASSUME Typed, SessionsFit, [Next]_vars, NEW p, Gone(p), \A q \in Procs : Mint(q) => key[q] # p
  PROVE  Gone(p)'
<1> SUFFICES ASSUME NEW s \in sessions', s.pubkey = p PROVE s.user \notin DOMAIN users'
  BY DEF Gone
<1>1. CASE s \in sessions
  BY <1>1, NoRevival DEF Gone
<1>2. CASE s \notin sessions
  BY <1>2, OnlyMintAdds DEF Link
<1> QED
  BY <1>1, <1>2

(* While a login of the key goes on, none mints a session for it. *)
LEMMA NoOtherMint ==
  ASSUME Typed, NEW p, AtMostOne(p), NEW q \in Procs, Busy(q, p), Busy(q, p)',
         NEW r \in Procs, Mint(r)
  PROVE  key[r] # p
<1> SUFFICES ASSUME key[r] = p PROVE FALSE
  OBVIOUS
<1>1. pc[r] = "mint" /\ pc'[r] = "done"
  BY DEF Mint, Goto, Typed, LoginsTyped
<1>2. Busy(r, p)
  BY <1>1 DEF Busy, InProgress
<1>3. r = q
  BY <1>2 DEF AtMostOne
<1> QED
  BY <1>1, <1>3 DEF Busy, InProgress

-----------------------------------------------------------------------------
(* A key keeps its account *)

LEMMA SavedStep ==
  ASSUME Typed, OneObject, WriterFound, [Next]_vars, posts' = 0, NEW p, Saved(p)
  PROVE  Saved(p)'
<1> SUFFICES ASSUME \A q \in Procs : Busy(q, p)' => pc'[q] # "save"
             PROVE  AccountOf(Links', p) = AccountOf(disk', p)
  BY DEF Saved, AccountOf, FirstOf
<1>1. CASE Crash /\ Links' = disk /\ disk' = disk
  BY <1>1
<1>2. CASE \E q \in Procs : Save(q) /\ disk' = Links /\ Links' = Links
  BY <1>2
<1>3. ASSUME NEW q \in Procs, LinkWrite(q), key[q] = p PROVE FALSE
  <2>1. pc'[q] = "save" /\ key'[q] = p
    BY <1>3 DEF LinkWrite, Goto, Typed, LoginsTyped
  <2> QED
    BY <2>1 DEF Busy, InProgress
<1>4. CASE ~Crash /\ (\A q \in Procs : ~Save(q)) /\ disk' = disk
            /\ AccountOf(Links', p) = AccountOf(Links, p)
  <2>1. ASSUME NEW q \in Procs, Busy(q, p), pc[q] = "save" PROVE FALSE
    <3>1. ~Login(q)
      BY <1>4, <2>1 DEF Login, Start, InProgress, GetLinkedUser, FindById, FindByName, CreateUser,
                        ChangePassword, UpdateUser, Harden, CutShort, LinkFind, LinkWrite, Mint
    <3>2. pc'[q] = pc[q] /\ key'[q] = key[q]
      BY <1>4, <3>1, LoginMoves
    <3> QED
      BY <2>1, <3>2 DEF Busy, InProgress
  <2> QED
    BY <1>4, <2>1 DEF Saved
<1>5. CASE Crash
  BY <1>5, LinksCases DEF Crash, Links
<1>6. ASSUME NEW q \in Procs, Save(q) PROVE disk' = Links /\ Links' = Links
  BY <1>6 DEF Save, Links
<1> QED
  BY <1>1, <1>2, <1>3, <1>4, <1>5, <1>6, LinkOfKey

LEMMA HeldLinkedStep ==
  ASSUME Typed, SessionsFit, OneObject, WriterFound, [Next]_vars, posts' = 0, NEW p,
         AtMostOne(p), HeldLinked(p), LoginKnows(p), Saved(p)
  PROVE  HeldLinked(p)'
<1> SUFFICES ASSUME NEW s \in sessions', s.pubkey = p, s.user \in DOMAIN users'
             PROVE  AccountOf(Links', p) = {s.user} /\ AccountOf(disk', p) = {s.user}
  BY DEF HeldLinked, AccountOf, FirstOf
<1>1. CASE s \in sessions
  <2>1. s.user \in DOMAIN users
    BY <1>1, NoRevival
  <2>2. AccountOf(Links, p) = {s.user} /\ AccountOf(disk, p) = {s.user}
    BY <1>1, <2>1 DEF HeldLinked
  <2>3. ASSUME NEW q \in Procs, LinkWrite(q), key[q] = p PROVE FALSE
    <3>1. Busy(q, p) /\ pc[q] \in Seeking
      BY <2>3 DEF LinkWrite, Busy, InProgress, Seeking
    <3> QED
      BY <1>1, <2>1, <3>1 DEF LoginKnows
  <2> QED
    BY <2>2, <2>3, LinkOfKey
<1>2. CASE s \notin sessions
  <2>1. PICK q \in Procs : Mint(q) /\ s = Link(key[q], account[q])
    BY <1>2, OnlyMintAdds
  <2>2. key[q] = p /\ account[q] = s.user
    BY <2>1 DEF Link
  <2>3. Busy(q, p) /\ pc[q] = "mint" /\ Links' = Links /\ disk' = disk
    BY <2>1, <2>2 DEF Mint, Busy, InProgress, configVars, Links
  <2>4. AccountOf(Links, p) = {s.user}
    BY <2>2, <2>3 DEF LoginKnows
  <2>5. \A r \in Procs : Busy(r, p) => pc[r] # "save"
    BY <2>3 DEF AtMostOne
  <2>6. AccountOf(disk, p) = {s.user}
    BY <2>4, <2>5 DEF Saved
  <2> QED
    BY <2>3, <2>4, <2>6
<1> QED
  BY <1>1, <1>2

(* Without a page save the object that a login captured is the current one. *)
LEMMA CapturedIsCurrent ==
  ASSUME Typed, OneObject, posts = 0, NEW q \in Procs, GetLinkedUser(q)
  PROVE  objects[captured[q]] = Links
<1>1. captured[q] \in DOMAIN objects
  BY DEF GetLinkedUser, Typed, CapturedTyped
<1>2. DOMAIN objects = 1 .. 1 /\ Links = objects[1]
  <2>1. objects \in Seq(Seq(LinkType)) /\ Len(objects) = 1
    BY DEF OneObject, Typed, ConfigTyped
  <2> QED
    BY <2>1 DEF Links
<1>3. captured[q] = 1
  BY <1>1, <1>2
<1> QED
  BY <1>2, <1>3

(* A login comes to look for another account only if there is none to keep. *)
LEMMA SeeksWhenGone ==
  ASSUME Typed, OneObject, posts' = 0, [Next]_vars, NEW p, HeldLinked(p), LoginKnows(p),
         NEW q \in Procs, Busy(q, p), ~Crash, pc'[q] \in Seeking
  PROVE  Gone(p)
<1> USE DEF Typed, LoginsTyped
<1>1. pc[q] \in Seeking => Gone(p)
  BY DEF LoginKnows, Gone
<1>2. CASE GetLinkedUser(q) /\ FirstOf(Links, key[q]) = {}
  <2>1. AccountOf(Links, p) = {}
    BY <1>2 DEF AccountOf, Busy
  <2> QED
    BY <2>1 DEF HeldLinked, Gone
<1>3. CASE FindById(q) /\ account[q] \notin DOMAIN users
  <2>1. AccountOf(Links, p) = {account[q]}
    BY <1>3 DEF FindById, LoginKnows
  <2> QED
    BY <1>3, <2>1 DEF HeldLinked, Gone
<1>4. CASE GetLinkedUser(q) /\ FirstOf(Links, key[q]) # {}
  <2>1. objects[captured[q]] = Links
    BY <1>4, PostsFrame, CapturedIsCurrent
  <2> QED
    BY <1>4, <2>1 DEF GetLinkedUser, Resolved, Goto, Seeking
<1>5. CASE FindById(q) /\ account[q] \in DOMAIN users
  BY <1>5 DEF FindById, Goto, Seeking
<1>6. CASE Login(q)
  BY <1>1, <1>2, <1>3, <1>4, <1>5, <1>6 DEF Login, Start, Busy, FindByName, CreateUser,
     ChangePassword, UpdateUser, Harden, CutShort, LinkFind, LinkWrite, Save, Mint, Goto, Seeking
<1> QED
  BY <1>1, <1>6, LoginMoves

(* A login that has an account by its link, or has linked it, has the account *)
(* of the link.                                                              *)
LEMMA LinkedIsOwn ==
  ASSUME Typed, OneObject, WriterFound, [Next]_vars, posts' = 0, NEW p, AtMostOne(p),
         LoginKnows(p), NEW q \in Procs, Busy(q, p), ~Crash, pc'[q] \in {"byId", "save", "mint"}
  PROVE  AccountOf(Links', p) = {account'[q]}
<1> USE DEF Typed, LoginsTyped
<1>1. CASE GetLinkedUser(q)
  <2>0. objects[captured[q]] = Links
    BY <1>1, PostsFrame, CapturedIsCurrent
  <2>1. PICK i \in FirstOf(Links, key[q]) : Resolved(q, Links[i].user, "byId")
    BY <1>1, <2>0 DEF GetLinkedUser, Resolved, Goto
  <2>2. account'[q] = Links[i].user /\ key[q] = p /\ Links' = Links
    BY <1>1, <2>1 DEF Resolved, GetLinkedUser, configVars, Links, Busy
  <2>3. AccountOf(Links, p) = {Links[i].user}
    BY <2>1, <2>2, AccountOfFirst, LinksTyped
  <2> QED
    BY <2>2, <2>3
<1>2. CASE FindById(q)
  <2>1. account'[q] = account[q] /\ Links' = Links /\ pc[q] = "byId"
    BY <1>2 DEF FindById, Resolved, Goto, configVars, Links
  <2> QED
    BY <2>1 DEF LoginKnows
<1>3. CASE LinkWrite(q)
  <2>1. key[q] = p /\ account' = account
    BY <1>3 DEF LinkWrite, Busy
  <2> QED
    BY <1>3, <2>1, PostsFrame, LinkWriteLinks
<1>4. CASE Save(q)
  <2>1. account' = account /\ Links' = Links /\ pc[q] = "save"
    BY <1>4 DEF Save, Links
  <2> QED
    BY <2>1 DEF LoginKnows
<1>5. CASE pc'[q] = pc[q] /\ key'[q] = key[q] /\ account'[q] = account[q] /\ ~LinkWrite(q)
  <2>1. AccountOf(Links, p) = {account[q]}
    BY <1>5 DEF LoginKnows
  <2>2. ASSUME NEW r \in Procs, LinkWrite(r), key[r] = p PROVE FALSE
    <3>1. Busy(r, p)
      BY <2>2 DEF LinkWrite, Busy, InProgress
    <3> QED
      BY <1>5, <2>2, <3>1 DEF AtMostOne
  <2> QED
    BY <1>5, <2>1, <2>2, LinkOfKey
<1>6. CASE Login(q)
  <2>1. ~FindByName(q) /\ ~CreateUser(q) /\ ~ChangePassword(q) /\ ~UpdateUser(q)
        /\ ~LinkFind(q) /\ ~Mint(q)
    BY DEF FindByName, CreateUser, ChangePassword, UpdateUser, Harden, CutShort, LinkFind, Mint, Resolved, Goto
  <2>2. \A r \in Pubkeys : ~Start(q, r)
    BY DEF Start, Busy
  <2> QED
    BY <1>1, <1>2, <1>3, <1>4, <1>6, <2>1, <2>2 DEF Login
<1> QED
  BY <1>3, <1>5, <1>6, LoginMoves

LEMMA LoginKnowsStep ==
  ASSUME Typed, SessionsFit, OneObject, WriterFound, [Next]_vars, NEW p \in Pubkeys, Lone(p)',
         AtMostOne(p), HeldLinked(p), LoginKnows(p)
  PROVE  LoginKnows(p)'
<1> SUFFICES ASSUME NEW q \in Procs, Busy(q, p)'
             PROVE  /\ pc'[q] \in Seeking => Gone(p)'
                    /\ pc'[q] \in {"byId", "save", "mint"} => AccountOf(Links', p) = {account'[q]}
  BY DEF LoginKnows, Gone, AccountOf, FirstOf
<1>1. posts' = 0 /\ p \notin overlapped'
  BY DEF Lone
<1>2. CASE Start(q, p)
  BY <1>2 DEF Start, Resolved, Goto, Seeking, Typed, LoginsTyped
<1>3. CASE Busy(q, p) /\ ~Crash
  <2>1. \A r \in Procs : Mint(r) => key[r] # p
    BY <1>3, NoOtherMint
  <2>2. pc'[q] \in Seeking => Gone(p)'
    BY <1>1, <1>3, <2>1, SeeksWhenGone, GoneStays
  <2> QED
    BY <1>1, <1>3, <2>2, LinkedIsOwn
<1> QED
  BY <1>1, <1>2, <1>3, BusyStep

-----------------------------------------------------------------------------
(* The invariant is inductive *)

LEMMA InitKeeps == ASSUME Init PROVE KInv
<1>1. Links = <<>> /\ disk = <<>> /\ Len(objects) = 1
  BY DEF Init, Links
<1>2. \A p : AccountOf(<<>>, p) = {}
  BY DEF AccountOf, FirstOf
<1>3. OneObject
  BY <1>1 DEF OneObject, FirstExists
<1>4. Exclusive /\ WriterFound
  BY DEF Init, Exclusive, WriterFound
<1>5. ASSUME NEW p \in Pubkeys PROVE Keeps(p)
  <2>1. AtMostOne(p) /\ LoginKnows(p) /\ HeldLinked(p)
    BY DEF Init, AtMostOne, LoginKnows, HeldLinked, Busy, InProgress
  <2>2. Saved(p)
    BY <1>1 DEF Saved
  <2> QED
    BY <2>1, <2>2 DEF Keeps
<1> QED
  BY <1>3, <1>4, <1>5, InitInv DEF KInv

LEMMA KeepsStep ==
  ASSUME KInv, [Next]_vars, NEW p \in Pubkeys
  PROVE  Keeps(p)'
<1> SUFFICES ASSUME Lone(p)'
             PROVE  AtMostOne(p)' /\ HeldLinked(p)' /\ LoginKnows(p)' /\ Saved(p)'
  BY DEF Keeps
<1>1. Typed /\ SessionsFit /\ OneObject /\ WriterFound
  BY DEF KInv, IInv
<1>2. posts' = 0 /\ p \notin overlapped'
  BY DEF Lone
<1>3. AtMostOne(p) /\ HeldLinked(p) /\ LoginKnows(p) /\ Saved(p)
  BY <1>1, LoneStep DEF KInv, Keeps
<1> QED
  BY <1>1, <1>2, <1>3, AtMostOneStep, HeldLinkedStep, LoginKnowsStep, SavedStep

LEMMA StepKeeps == ASSUME KInv, [Next]_vars PROVE KInv'
<1>1. IInv' /\ Typed
  BY StepInv DEF KInv, IInv
<1>2. OneObject' /\ Exclusive' /\ WriterFound'
  BY <1>1, OneObjectStep, ExclusiveStep, WriterFoundStep DEF KInv
<1>3. \A p \in Pubkeys : Keeps(p)'
  BY KeepsStep
<1> QED
  BY <1>1, <1>2, <1>3 DEF KInv

LEMMA KeepsInductive == Spec => []KInv
BY InitKeeps, StepKeeps, PTL DEF Spec

-----------------------------------------------------------------------------
(* Theorems *)

(* Only the login that holds _configLock is between LinkUser's search and    *)
(* its write, so what it found is what the configuration says when it       *)
(* writes, as long as no page save has come between                         *)
(* (JellyfinNostrUserLinks.cs:35-51).                                       *)
THEOREM WritesWhatItFound == Spec => [](Exclusive /\ WriterFound)
<1>1. KInv => Exclusive /\ WriterFound
  BY DEF KInv
<1> QED
  BY KeepsInductive, <1>1, PTL

(* A key that has signed in keeps its account until it is deleted, whatever  *)
(* is renamed, however often it signs in again and wherever the server      *)
(* stops, without a page save and if its logins do not overlap              *)
(* (NostrUserProvisioner.cs:36-68).                                         *)
THEOREM KeepsAccount == Spec => []KeepsItsAccount
<1>1. KInv => KeepsItsAccount
  <2> SUFFICES ASSUME KInv, posts = 0, NEW s \in sessions, NEW t \in sessions,
                      s.pubkey = t.pubkey, s.pubkey \notin overlapped,
                      s.user \in DOMAIN users, t.user \in DOMAIN users
               PROVE  s.user = t.user
    BY DEF KeepsItsAccount
  <2>1. s.pubkey \in Pubkeys
    BY DEF KInv, IInv, Typed, HistoryTyped, LinkType
  <2>2. HeldLinked(s.pubkey)
    BY <2>1 DEF KInv, Keeps, Lone
  <2>3. {s.user} = {t.user}
    BY <2>2 DEF HeldLinked
  <2> QED
    BY <2>3
<1> QED
  BY KeepsInductive, <1>1, PTL
=============================================================================
