----------------------- MODULE UserProvisioningProofs -----------------------
(***************************************************************************)
(* Theorems about UserProvisioning for every set of keys and names, any    *)
(* number of concurrent logins and every bound on the environment.         *)
(***************************************************************************)
EXTENDS UserProvisioning, TLAPS

(* An account was made for this key, or the administrator gave it the key's *)
(* npub name.                                                               *)
Fits(p, id) == id \in DOMAIN owner /\ (owner[id] = p \/ Link(p, id) \in given)

FitsNext(p, id) == id \in DOMAIN owner' /\ (owner'[id] = p \/ Link(p, id) \in given')

AllFit(links) == \A i \in DOMAIN links : Fits(links[i].pubkey, links[i].user)

(* Whatever refers to an account refers to one that fits: names, links in    *)
(* every configuration object, in the file and on an open page, logins and  *)
(* sessions.                                                                *)
NamesFit == \A id \in DOMAIN users, p \in Pubkeys : users[id].name = Npub[p] => Fits(p, id)
LinksFit ==
  /\ \A n \in DOMAIN objects : AllFit(objects[n])
  /\ AllFit(disk) /\ (\A n \in DOMAIN tab : AllFit(tab[n]))
SessionsFit == \A s \in sessions : Fits(s.pubkey, s.user)
LoginFits(q) ==
  account[q] # NoUser => Fits(key[q], account[q])

(* Between LinkUser's search and its write the link found is one of the key. *)
FoundFits(q) ==
  found[q] # <<>> =>
    pc[q] = "write" /\ objects[found[q][1]][found[q][2]].pubkey = key[q]

(* An account that is past ChangePasswordAsync has the random password, and  *)
(* one the plugin made is hardened, or its maker is at it or was cut short. *)
PasswordSet(q) ==
  pc[q] = "update" /\ account[q] \in DOMAIN users => users[account[q]].password = "random"
MadeHardened ==
  \A id \in DOMAIN users :
    owner[id] # ByHand => Hardened(id) \/ BeingHardened(id) \/ id \in cut

AccountsTyped ==
  /\ DOMAIN users \subseteq DOMAIN owner /\ owner \in Seq(Pubkeys \cup {ByHand})
  /\ Len(owner) <= MaxUsers
  /\ \A id \in DOMAIN users :
       users[id] \in [name: Names, provider: {"default", "nostr"}, password: {"none", "random"}]
ConfigTyped ==
  /\ objects \in Seq(Seq(LinkType)) /\ objects # <<>>
  /\ disk \in Seq(LinkType) /\ tab \in Seq(Seq(LinkType))
Labels == {"idle", "linked", "byId", "byName", "create", "password", "update",
           "link", "write", "save", "mint", "done"}
Holding == {"byId", "password", "update", "link", "write", "save", "mint"}
LoginsTyped ==
  /\ lock \in SUBSET Procs /\ pc \in [Procs -> Labels]
  /\ key \in [Procs -> Pubkeys] /\ account \in [Procs -> Ids \cup {NoUser}]
  /\ \A q \in Procs : pc[q] \in Holding => account[q] \in Ids
FoundTyped ==
  /\ found \in [Procs -> {<<>>} \cup (Nat \X Nat)]
  /\ \A q \in Procs : found[q] # <<>> =>
       found[q][1] \in DOMAIN objects /\ found[q][2] \in DOMAIN objects[found[q][1]]
CapturedTyped ==
  /\ captured \in [Procs -> Nat]
  /\ \A q \in Procs : pc[q] = "linked" => captured[q] \in DOMAIN objects
HistoryTyped ==
  /\ sessions \subseteq LinkType /\ overlapped \subseteq Pubkeys
  /\ given \subseteq LinkType /\ cut \subseteq Ids
  /\ logins \in 0 .. MaxLogins /\ edits \in 0 .. MaxEdits
  /\ posts \in 0 .. MaxPosts /\ crashes \in 0 .. MaxCrashes /\ faults \in 0 .. MaxFaults
  /\ tab # <<>> => posts < MaxPosts

Typed ==
  AccountsTyped /\ ConfigTyped /\ LoginsTyped /\ FoundTyped /\ CapturedTyped /\ HistoryTyped

IInv ==
  /\ Typed
  /\ NamesFit /\ LinksFit /\ SessionsFit
  /\ \A q \in Procs : LoginFits(q) /\ FoundFits(q) /\ PasswordSet(q)
  /\ MadeHardened /\ LinksPersisted

-----------------------------------------------------------------------------
(* Accounts are only added, so what fits goes on to fit *)

OwnerKept == owner' = owner \/ \E o \in Pubkeys \cup {ByHand} : owner' = Append(owner, o)

LEMMA FitsKept ==
  ASSUME owner \in Seq(Pubkeys \cup {ByHand}), OwnerKept, given \subseteq given',
         NEW p, NEW id, Fits(p, id)
  PROVE  FitsNext(p, id)
<1>1. CASE owner' = owner BY <1>1 DEF Fits, FitsNext
<1>2. CASE \E o \in Pubkeys \cup {ByHand} : owner' = Append(owner, o)
  BY <1>2 DEF Fits, FitsNext
<1>3. QED BY <1>1, <1>2 DEF OwnerKept

(* A new account: the others stay, and the new one is the last. *)
LEMMA NewAccountMakes ==
  ASSUME Typed, NEW name \in Names, NEW o \in Pubkeys \cup {ByHand}, NewAccount(name, o)
  PROVE  /\ OwnerKept /\ owner' \in Seq(Pubkeys \cup {ByHand}) /\ Len(owner') <= MaxUsers
         /\ Len(owner) + 1 \in Ids /\ Len(owner) + 1 \in DOMAIN owner'
         /\ owner'[Len(owner) + 1] = o
         /\ \A i \in DOMAIN owner : owner'[i] = owner[i] /\ i \in DOMAIN owner'
         /\ Len(owner) + 1 \notin DOMAIN users /\ Len(owner) + 1 \notin DOMAIN owner
         /\ DOMAIN users' = DOMAIN users \cup {Len(owner) + 1}
         /\ \A id \in DOMAIN users : users'[id] = users[id]
         /\ users'[Len(owner) + 1] = Account(name, "default", "none")
<1> USE DEF Typed, AccountsTyped
<1>1. owner \in Seq(Pubkeys \cup {ByHand}) /\ MaxUsers \in Nat
  BY ProvisioningAssumption
<1>2. owner' = Append(owner, o) /\ Len(owner) < MaxUsers BY DEF NewAccount
<1>3. Len(owner) + 1 \notin DOMAIN users /\ Len(owner) + 1 \notin DOMAIN owner BY <1>1
<1>4. /\ OwnerKept /\ owner' \in Seq(Pubkeys \cup {ByHand}) /\ Len(owner') <= MaxUsers
      /\ Len(owner) + 1 \in Ids /\ Len(owner) + 1 \in DOMAIN owner'
      /\ owner'[Len(owner) + 1] = o
      /\ \A i \in DOMAIN owner : owner'[i] = owner[i] /\ i \in DOMAIN owner'
  BY <1>1, <1>2 DEF OwnerKept, Ids
<1>5. /\ DOMAIN users' = DOMAIN users \cup {Len(owner) + 1}
      /\ \A id \in DOMAIN users : users'[id] = users[id]
      /\ users'[Len(owner) + 1] = Account(name, "default", "none")
  BY <1>3 DEF NewAccount
<1>6. QED BY <1>3, <1>4, <1>5

-----------------------------------------------------------------------------
(* Which actions change what *)

LEMMA UsersFrame ==
  ASSUME [Next]_vars
  PROVE  \/ UNCHANGED <<users, owner>>
         \/ \E q \in Procs : CreateUser(q) \/ ChangePassword(q) \/ UpdateUser(q)
         \/ \E id \in DOMAIN users : DeleteUser(id) \/ \E name \in Names : RenameUser(id, name)
         \/ \E name \in Names : MakeUser(name)
BY DEF Next, Login, Start, GetLinkedUser, FindById, FindByName, CreateUser, ChangePassword, UpdateUser, Harden, CutShort,
   LinkFind, LinkWrite, Save, Mint, DeleteUser, RenameUser, MakeUser, PageGet, PagePost, Crash,
   Resolved, Goto, vars, configVars, procVars, boundVars

LEMMA SessionsFrame ==
  ASSUME [Next]_vars
  PROVE  sessions' = sessions \/ \E q \in Procs : Mint(q)
BY DEF Next, Login, Start, GetLinkedUser, FindById, FindByName, CreateUser, ChangePassword, UpdateUser, Harden, CutShort,
   LinkFind, LinkWrite, Save, Mint, DeleteUser, RenameUser, MakeUser, PageGet, PagePost, Crash,
   Resolved, Goto, vars, configVars, procVars, boundVars

LEMMA LinksFrame ==
  ASSUME [Next]_vars
  PROVE  \/ UNCHANGED <<objects, disk, tab>>
         \/ (\E q \in Procs : LinkWrite(q) \/ Save(q)) \/ PageGet \/ PagePost \/ Crash
BY DEF Next, Login, Start, GetLinkedUser, FindById, FindByName, CreateUser, ChangePassword, UpdateUser, Harden, CutShort,
   LinkFind, LinkWrite, Save, Mint, DeleteUser, RenameUser, MakeUser, PageGet, PagePost, Crash,
   Resolved, Goto, vars, configVars, procVars, boundVars

(* What was given or cut short stays so. *)
LEMMA HistoryGrows == ASSUME [Next]_vars PROVE given \subseteq given' /\ cut \subseteq cut'
BY DEF Next, Login, Start, GetLinkedUser, FindById, FindByName, CreateUser, ChangePassword, UpdateUser, Harden, CutShort,
   LinkFind, LinkWrite, Save, Mint, DeleteUser, RenameUser, MakeUser, Gives, PageGet, PagePost,
   Crash, vars, boundVars

LEMMA ProcsFrame ==
  ASSUME [Next]_vars
  PROVE  UNCHANGED <<pc, key, account, found>> \/ Crash \/ \E q \in Procs : Login(q)
BY DEF Next, DeleteUser, RenameUser, MakeUser, PageGet, PagePost, vars, procVars

-----------------------------------------------------------------------------
(* Types *)

LEMMA FirstOfIs ==
  ASSUME NEW links \in Seq(LinkType), NEW p, NEW i \in FirstOf(links, p)
  PROVE  i \in 1 .. Len(links) /\ links[i] \in LinkType /\ links[i].pubkey = p
BY DEF FirstOf

LEMMA LinksTyped ==
  ASSUME Typed
  PROVE  Links \in Seq(LinkType) /\ Len(objects) \in DOMAIN objects /\ Links = objects[Len(objects)]
BY DEF Typed, ConfigTyped, Links

(* LinkUser's write adds a link at the end or puts the account into one;    *)
(* the keys of the links that were there stay.                             *)
LEMMA LinkWriteMakes ==
  ASSUME Typed, NEW q \in Procs, LinkWrite(q)
  PROVE  /\ objects' \in Seq(Seq(LinkType)) /\ objects' # <<>>
         /\ DOMAIN objects' = DOMAIN objects
         /\ \A n \in DOMAIN objects : DOMAIN objects[n] \subseteq DOMAIN objects'[n]
         /\ \A n \in DOMAIN objects : \A i \in DOMAIN objects[n] :
              objects'[n][i].pubkey = objects[n][i].pubkey
         /\ \A n \in DOMAIN objects : \A i \in DOMAIN objects'[n] :
              \/ i \in DOMAIN objects[n] /\ objects'[n][i] = objects[n][i]
              \/ objects'[n][i] = Link(key[q], account[q])
              \/ /\ found[q] = <<n, i>> /\ i \in DOMAIN objects[n]
                 /\ objects'[n][i] = Link(objects[n][i].pubkey, account[q])
<1> DEFINE link == Link(key[q], account[q])
<1>1. link \in LinkType /\ account[q] \in Ids
  BY DEF LinkWrite, Typed, LoginsTyped, Holding, Link, LinkType
<1>2. objects \in Seq(Seq(LinkType)) /\ objects # <<>> BY DEF Typed, ConfigTyped
<1>3. CASE found[q] = <<>>
  <2> DEFINE m == Len(objects)
  <2>1. objects' = [objects EXCEPT ![m] = Append(objects[m], link)] BY <1>3 DEF LinkWrite
  <2>2. m \in DOMAIN objects /\ objects[m] \in Seq(LinkType) BY <1>2
  <2>3. Append(objects[m], link) \in Seq(LinkType) BY <1>1, <2>2
  <2> HIDE DEF m, link
  <2>4. objects' \in Seq(Seq(LinkType)) /\ DOMAIN objects' = DOMAIN objects
    BY <1>2, <2>1, <2>2, <2>3
  <2>5. \A n \in DOMAIN objects : objects'[n] = IF n = m THEN Append(objects[m], link) ELSE objects[n]
    BY <1>2, <2>1
  <2> DEFINE longer == Append(objects[m], link)
  <2>6. /\ DOMAIN longer = DOMAIN objects[m] \cup {Len(objects[m]) + 1}
        /\ \A i \in DOMAIN objects[m] : longer[i] = objects[m][i]
        /\ longer[Len(objects[m]) + 1] = link
    BY <2>2
  <2>7. \A n \in DOMAIN objects : objects'[n] = IF n = m THEN longer ELSE objects[n] BY <2>5
  <2> HIDE DEF longer
  <2>8. \A n \in DOMAIN objects :
          /\ DOMAIN objects[n] \subseteq DOMAIN objects'[n]
          /\ \A i \in DOMAIN objects[n] : objects'[n][i] = objects[n][i]
    BY <2>2, <2>6, <2>7
  <2>9. \A n \in DOMAIN objects : \A i \in DOMAIN objects'[n] :
          (i \in DOMAIN objects[n] /\ objects'[n][i] = objects[n][i]) \/ objects'[n][i] = link
    BY <2>2, <2>6, <2>7
  <2>10. objects' # <<>> BY <1>2, <2>4
  <2>11. QED BY <2>4, <2>8, <2>9, <2>10 DEF link
<1>4. CASE found[q] # <<>>
  <2> DEFINE m == found[q][1]
             k == found[q][2]
             new == [objects[m][k] EXCEPT !.user = account[q]]
  <2>1. objects' = [objects EXCEPT ![m] = [objects[m] EXCEPT ![k] = new]] BY <1>4 DEF LinkWrite
  <2>2. m \in DOMAIN objects /\ k \in DOMAIN objects[m] /\ found[q] = <<m, k>>
    BY <1>4 DEF Typed, FoundTyped
  <2>3. objects[m] \in Seq(LinkType) /\ objects[m][k] \in LinkType BY <1>2, <2>2
  <2>4. new = Link(objects[m][k].pubkey, account[q]) /\ new \in LinkType
    BY <1>1, <2>3 DEF LinkType, Link
  <2> HIDE DEF m, k, new
  <2>5. [objects[m] EXCEPT ![k] = new] \in Seq(LinkType) BY <2>2, <2>3, <2>4
  <2>6. objects' \in Seq(Seq(LinkType)) /\ DOMAIN objects' = DOMAIN objects
    BY <1>2, <2>1, <2>2, <2>5
  <2>7. \A n \in DOMAIN objects : objects'[n] = IF n = m THEN [objects[m] EXCEPT ![k] = new] ELSE objects[n]
    BY <1>2, <2>1
  <2>8. /\ DOMAIN [objects[m] EXCEPT ![k] = new] = DOMAIN objects[m]
        /\ \A i \in DOMAIN objects[m] :
             [objects[m] EXCEPT ![k] = new][i] = IF i = k THEN new ELSE objects[m][i]
    BY <2>3
  <2>9. new.pubkey = objects[m][k].pubkey BY <2>4 DEF Link
  <2>10. objects' # <<>> BY <1>2, <2>6
  <2>11. \A n \in DOMAIN objects : DOMAIN objects'[n] = DOMAIN objects[n] BY <2>2, <2>7, <2>8
  <2>12. \A n \in DOMAIN objects : \A i \in DOMAIN objects[n] :
           objects'[n][i].pubkey = objects[n][i].pubkey
    BY <2>2, <2>7, <2>8, <2>9
  <2>13. \A n \in DOMAIN objects : \A i \in DOMAIN objects[n] :
           objects'[n][i] = IF n = m /\ i = k THEN new ELSE objects[n][i]
    BY <2>2, <2>7, <2>8
  <2>14. QED BY <2>2, <2>4, <2>6, <2>10, <2>11, <2>12, <2>13
<1>5. QED BY <1>3, <1>4

(* The page's save adds the object it posts, and writes it. *)
LEMMA PagePostMakes ==
  ASSUME Typed, PagePost
  PROVE  /\ objects' \in Seq(Seq(LinkType)) /\ objects' # <<>>
         /\ disk' \in Seq(LinkType) /\ tab' = <<>>
         /\ DOMAIN objects' = DOMAIN objects \cup {Len(objects) + 1}
         /\ \A n \in DOMAIN objects : objects'[n] = objects[n]
<1> DEFINE posted == tab[1]
<1>1. objects \in Seq(Seq(LinkType)) /\ posted \in Seq(LinkType)
  BY DEF PagePost, Typed, ConfigTyped
<1>2. objects' = Append(objects, posted) /\ disk' = posted /\ tab' = <<>> BY DEF PagePost
<1> HIDE DEF posted
<1>3. QED BY <1>1, <1>2

LEMMA TypedIsTypeOK == Typed => TypeOK
BY DEF Typed, TypeOK, AccountsTyped, ConfigTyped, LoginsTyped, FoundTyped, CapturedTyped, HistoryTyped, Labels

LEMMA InitTyped == ASSUME Init PROVE Typed
<1> USE ProvisioningAssumption DEF Init
<1>1. AccountsTyped BY DEF AccountsTyped
<1>2. ConfigTyped BY DEF ConfigTyped
<1>3. LoginsTyped BY DEF LoginsTyped, Labels, Holding
<1>4. FoundTyped BY DEF FoundTyped
<1>5. CapturedTyped /\ HistoryTyped BY DEF CapturedTyped, HistoryTyped
<1>6. QED BY <1>1, <1>2, <1>3, <1>4, <1>5 DEF Typed

LEMMA NewAccountTyped ==
  ASSUME Typed, NEW name \in Names, NEW o \in Pubkeys \cup {ByHand}, NewAccount(name, o)
  PROVE  AccountsTyped'
<1>1. /\ owner' \in Seq(Pubkeys \cup {ByHand}) /\ Len(owner') <= MaxUsers
      /\ DOMAIN owner \subseteq DOMAIN owner' /\ Len(owner) + 1 \in DOMAIN owner'
      /\ DOMAIN users' = DOMAIN users \cup {Len(owner) + 1}
      /\ \A id \in DOMAIN users : users'[id] = users[id]
      /\ users'[Len(owner) + 1] = Account(name, "default", "none")
  BY NewAccountMakes
<1>2. Account(name, "default", "none")
        \in [name: Names, provider: {"default", "nostr"}, password: {"none", "random"}]
  BY DEF Account
<1>3. QED BY <1>1, <1>2 DEF Typed, AccountsTyped

LEMMA AccountsTypedStep ==
  ASSUME Typed, [Next]_vars PROVE AccountsTyped'
<1> USE ProvisioningAssumption DEF Typed, AccountsTyped
<1>1. CASE UNCHANGED <<users, owner>> BY <1>1
<1>2. ASSUME NEW q \in Procs, CreateUser(q) PROVE AccountsTyped'
  <2>1. CASE Named(Npub[key[q]]) # {} BY <1>2, <2>1 DEF CreateUser
  <2>2. CASE NewAccount(Npub[key[q]], key[q])
    <3>1. Npub[key[q]] \in Names /\ key[q] \in Pubkeys \cup {ByHand} BY DEF LoginsTyped
    <3>2. QED BY <2>2, <3>1, NewAccountTyped
  <2>3. QED BY <1>2, <2>1, <2>2 DEF CreateUser
<1>3. ASSUME NEW q \in Procs, ChangePassword(q) PROVE AccountsTyped'
  <2>1. CASE account[q] \notin DOMAIN users BY <1>3, <2>1 DEF ChangePassword, Harden, CutShort
  <2>2. CASE account[q] \in DOMAIN users
    <3>1. /\ users' \in {users, [users EXCEPT ![account[q]].password = "random"]}
          /\ owner' = owner
      BY <1>3, <2>2 DEF ChangePassword, Harden, CutShort
    <3>2. DOMAIN users' = DOMAIN users BY <3>1
    <3>3. \A id \in DOMAIN users' :
            users'[id] \in {users[id], [users[id] EXCEPT !.password = "random"]}
      BY <3>1
    <3>4. QED BY <3>1, <3>2, <3>3
  <2>3. QED BY <2>1, <2>2
<1>4. ASSUME NEW q \in Procs, UpdateUser(q) PROVE AccountsTyped'
  <2>1. CASE account[q] \notin DOMAIN users BY <1>4, <2>1 DEF UpdateUser, Harden, CutShort
  <2>2. CASE account[q] \in DOMAIN users
    <3>1. /\ users' \in {users, [users EXCEPT ![account[q]].provider = "nostr"]}
          /\ owner' = owner
      BY <1>4, <2>2 DEF UpdateUser, Harden, CutShort
    <3>2. DOMAIN users' = DOMAIN users BY <3>1
    <3>3. \A id \in DOMAIN users' :
            users'[id] \in {users[id], [users[id] EXCEPT !.provider = "nostr"]}
      BY <3>1
    <3>4. QED BY <3>1, <3>2, <3>3
  <2>3. QED BY <2>1, <2>2
<1>5. ASSUME NEW id \in DOMAIN users, DeleteUser(id) PROVE AccountsTyped'
  BY <1>5 DEF DeleteUser
<1>6. ASSUME NEW id \in DOMAIN users, NEW name \in Names, RenameUser(id, name) PROVE AccountsTyped'
  BY <1>6 DEF RenameUser
<1>7. ASSUME NEW name \in Names, MakeUser(name) PROVE AccountsTyped'
  BY <1>7, NewAccountTyped DEF MakeUser
<1>8. QED BY UsersFrame, <1>1, <1>2, <1>3, <1>4, <1>5, <1>6, <1>7

LEMMA ConfigTypedStep ==
  ASSUME Typed, [Next]_vars PROVE ConfigTyped'
<1> USE ProvisioningAssumption DEF Typed, ConfigTyped, Links
<1>1. CASE UNCHANGED <<objects, disk, tab>> BY <1>1
<1>2. ASSUME NEW q \in Procs, LinkWrite(q) PROVE ConfigTyped'
  BY <1>2, LinkWriteMakes DEF LinkWrite
<1>3. ASSUME NEW q \in Procs, Save(q) PROVE ConfigTyped'
  BY <1>3 DEF Save
<1>4. CASE PageGet
  BY <1>4 DEF PageGet, configVars
<1>5. CASE PagePost
  BY <1>5, PagePostMakes
<1>6. CASE Crash
  BY <1>6 DEF Crash
<1>7. QED BY LinksFrame, <1>1, <1>2, <1>3, <1>4, <1>5, <1>6

LEMMA LoginsTypedStep ==
  ASSUME Typed, [Next]_vars PROVE LoginsTyped'
<1> USE ProvisioningAssumption DEF Typed, LoginsTyped, Labels, Holding, Ids
<1>1. CASE UNCHANGED vars
  BY <1>1 DEF vars, configVars, procVars, boundVars
<1>2. ASSUME NEW q \in Procs, NEW p \in Pubkeys, Start(q, p) PROVE LoginsTyped'
  BY <1>2 DEF Start, Goto, Resolved, InProgress
<1>3. ASSUME NEW q \in Procs, GetLinkedUser(q) PROVE LoginsTyped'
  <2> DEFINE links == objects[captured[q]]
  <2>0. links \in Seq(LinkType)
    BY <1>3 DEF GetLinkedUser, CapturedTyped, ConfigTyped
  <2>1. CASE FirstOf(links, key[q]) = {} /\ Resolved(q, NoUser, "byName")
    BY <1>3, <2>1 DEF GetLinkedUser, Resolved, Goto
  <2>2. ASSUME NEW i \in FirstOf(links, key[q]), Resolved(q, links[i].user, "byId")
        PROVE LoginsTyped'
    <3>1. links[i] \in LinkType BY <2>0, FirstOfIs
    <3>2. links[i].user \in Ids BY <3>1 DEF LinkType
    <3>3. QED BY <1>3, <2>2, <3>2 DEF GetLinkedUser, Resolved, Goto
  <2>3. QED BY <1>3, <2>1, <2>2 DEF GetLinkedUser
<1>4. ASSUME NEW q \in Procs, FindById(q) PROVE LoginsTyped'
  BY <1>4 DEF FindById, Goto, Resolved
<1>5. ASSUME NEW q \in Procs, FindByName(q) PROVE LoginsTyped'
  <2>1. DOMAIN users \subseteq Ids BY DEF AccountsTyped
  <2>2. \A id \in Named(Npub[key[q]]) : id \in Ids BY <2>1 DEF Named
  <2>3. QED BY <1>5, <2>2 DEF FindByName, Goto, Resolved
<1>6. ASSUME NEW q \in Procs, CreateUser(q) PROVE LoginsTyped'
  <2>1. CASE Named(Npub[key[q]]) # {} BY <1>6, <2>1 DEF CreateUser, Goto
  <2>2. CASE NewAccount(Npub[key[q]], key[q]) /\ Resolved(q, Len(owner) + 1, "password")
    <3>1. Npub[key[q]] \in Names BY DEF LoginsTyped
    <3>2. Len(owner) + 1 \in Ids BY <2>2, <3>1, NewAccountMakes
    <3>3. QED BY <1>6, <2>2, <3>2 DEF CreateUser, Resolved, Goto
  <2>3. QED BY <1>6, <2>1, <2>2 DEF CreateUser
<1>7. ASSUME NEW q \in Procs, ChangePassword(q) PROVE LoginsTyped'
  BY <1>7 DEF ChangePassword, Harden, CutShort, Goto
<1>8. ASSUME NEW q \in Procs, UpdateUser(q) PROVE LoginsTyped'
  BY <1>8 DEF UpdateUser, Harden, CutShort, Goto
<1>9. ASSUME NEW q \in Procs, LinkFind(q) PROVE LoginsTyped'
  BY <1>9 DEF LinkFind, Goto
<1>10. ASSUME NEW q \in Procs, LinkWrite(q) PROVE LoginsTyped'
  BY <1>10 DEF LinkWrite, Goto
<1>11. ASSUME NEW q \in Procs, Save(q) PROVE LoginsTyped'
  BY <1>11 DEF Save, Goto
<1>12. ASSUME NEW q \in Procs, Mint(q) PROVE LoginsTyped'
  BY <1>12 DEF Mint, Goto
<1>13. ASSUME NEW id \in DOMAIN users, DeleteUser(id) PROVE LoginsTyped'
  BY <1>13 DEF DeleteUser, procVars
<1>14. ASSUME NEW id \in DOMAIN users, NEW name \in Names, RenameUser(id, name) PROVE LoginsTyped'
  BY <1>14 DEF RenameUser, procVars
<1>15. ASSUME NEW name \in Names, MakeUser(name) PROVE LoginsTyped'
  BY <1>15 DEF MakeUser, procVars
<1>16. CASE PageGet
  BY <1>16 DEF PageGet, procVars
<1>17. CASE PagePost
  BY <1>17 DEF PagePost, procVars
<1>18. CASE Crash
  BY <1>18 DEF Crash
<1>19. QED BY <1>1, <1>2, <1>3, <1>4, <1>5, <1>6, <1>7, <1>8, <1>9, <1>10, <1>11, <1>12, <1>13, <1>14, <1>15, <1>16, <1>17, <1>18 DEF Next, Login

LEMMA FoundTypedStep ==
  ASSUME Typed, [Next]_vars PROVE FoundTyped'
<1> USE ProvisioningAssumption DEF Typed, FoundTyped, Links, ConfigTyped
<1>1. CASE UNCHANGED vars
  BY <1>1 DEF vars, configVars, procVars, boundVars
<1>2. ASSUME NEW q \in Procs, NEW p \in Pubkeys, Start(q, p) PROVE FoundTyped'
  BY <1>2 DEF Start, configVars, InProgress
<1>3. ASSUME NEW q \in Procs, GetLinkedUser(q) PROVE FoundTyped'
  BY <1>3 DEF GetLinkedUser, configVars
<1>4. ASSUME NEW q \in Procs, FindById(q) PROVE FoundTyped'
  BY <1>4 DEF FindById, configVars
<1>5. ASSUME NEW q \in Procs, FindByName(q) PROVE FoundTyped'
  BY <1>5 DEF FindByName, configVars
<1>6. ASSUME NEW q \in Procs, CreateUser(q) PROVE FoundTyped'
  BY <1>6 DEF CreateUser, configVars
<1>7. ASSUME NEW q \in Procs, ChangePassword(q) PROVE FoundTyped'
  BY <1>7 DEF ChangePassword, Harden, CutShort, configVars
<1>8. ASSUME NEW q \in Procs, UpdateUser(q) PROVE FoundTyped'
  BY <1>8 DEF UpdateUser, Harden, CutShort, configVars
<1>9. ASSUME NEW q \in Procs, LinkFind(q) PROVE FoundTyped'
  <2>1. CASE FirstOf(Links, key[q]) = {} BY <1>9, <2>1 DEF LinkFind, configVars
  <2>2. CASE FirstOf(Links, key[q]) # {}
    <3> DEFINE i == CHOOSE k \in FirstOf(Links, key[q]) : TRUE
    <3>1. i \in FirstOf(Links, key[q]) BY <2>2
    <3>2. i \in 1 .. Len(Links) BY <3>1, FirstOfIs, LinksTyped
    <3>3. found' = [found EXCEPT ![q] = <<Len(objects), i>>] /\ objects' = objects
      BY <1>9, <2>2 DEF LinkFind, configVars
    <3>4. Len(objects) \in DOMAIN objects /\ i \in DOMAIN objects[Len(objects)] /\ i \in Nat
      BY <3>2, LinksTyped
    <3> HIDE DEF i
    <3>5. QED BY <3>3, <3>4
  <2>3. QED BY <2>1, <2>2
<1>10. ASSUME NEW q \in Procs, LinkWrite(q) PROVE FoundTyped'
  <2>1. found' = [found EXCEPT ![q] = <<>>] BY <1>10 DEF LinkWrite
  <2>2. /\ DOMAIN objects' = DOMAIN objects
        /\ \A n \in DOMAIN objects : DOMAIN objects[n] \subseteq DOMAIN objects'[n]
    BY <1>10, LinkWriteMakes
  <2>3. QED BY <2>1, <2>2
<1>11. ASSUME NEW q \in Procs, Save(q) PROVE FoundTyped'
  BY <1>11 DEF Save
<1>12. ASSUME NEW q \in Procs, Mint(q) PROVE FoundTyped'
  BY <1>12 DEF Mint, configVars
<1>13. ASSUME NEW id \in DOMAIN users, DeleteUser(id) PROVE FoundTyped'
  BY <1>13 DEF DeleteUser, configVars, procVars
<1>14. ASSUME NEW id \in DOMAIN users, NEW name \in Names, RenameUser(id, name) PROVE FoundTyped'
  BY <1>14 DEF RenameUser, configVars, procVars
<1>15. ASSUME NEW name \in Names, MakeUser(name) PROVE FoundTyped'
  BY <1>15 DEF MakeUser, configVars, procVars
<1>16. CASE PageGet
  BY <1>16 DEF PageGet, configVars, procVars
<1>17. CASE PagePost
  <2>1. found' = found BY <1>17 DEF PagePost, procVars
  <2>2. DOMAIN objects \subseteq DOMAIN objects' /\ \A n \in DOMAIN objects : objects'[n] = objects[n]
    BY <1>17, PagePostMakes
  <2>3. QED BY <2>1, <2>2
<1>18. CASE Crash
  BY <1>18 DEF Crash
<1>19. QED BY <1>1, <1>2, <1>3, <1>4, <1>5, <1>6, <1>7, <1>8, <1>9, <1>10, <1>11, <1>12, <1>13, <1>14, <1>15, <1>16, <1>17, <1>18 DEF Next, Login

LEMMA HistoryTypedStep ==
  ASSUME Typed, [Next]_vars PROVE HistoryTyped'
<1> USE ProvisioningAssumption DEF Typed, HistoryTyped, LinkType, LoginsTyped
<1>1. CASE UNCHANGED vars
  BY <1>1 DEF vars, configVars, procVars, boundVars
<1>2. ASSUME NEW q \in Procs, NEW p \in Pubkeys, Start(q, p) PROVE HistoryTyped'
  BY <1>2 DEF Start, InProgress
<1>3. ASSUME NEW q \in Procs, GetLinkedUser(q) PROVE HistoryTyped'
  BY <1>3 DEF GetLinkedUser, boundVars
<1>4. ASSUME NEW q \in Procs, FindById(q) PROVE HistoryTyped'
  BY <1>4 DEF FindById, boundVars
<1>5. ASSUME NEW q \in Procs, FindByName(q) PROVE HistoryTyped'
  BY <1>5 DEF FindByName, boundVars
<1>6. ASSUME NEW q \in Procs, CreateUser(q) PROVE HistoryTyped'
  BY <1>6 DEF CreateUser, boundVars
<1>7. ASSUME NEW q \in Procs, ChangePassword(q) PROVE HistoryTyped'
  <2>1. account[q] \in Ids BY <1>7 DEF ChangePassword, Holding
  <2>2. QED BY <1>7, <2>1 DEF ChangePassword, Harden, CutShort
<1>8. ASSUME NEW q \in Procs, UpdateUser(q) PROVE HistoryTyped'
  <2>1. account[q] \in Ids BY <1>8 DEF UpdateUser, Holding
  <2>2. QED BY <1>8, <2>1 DEF UpdateUser, Harden, CutShort
<1>9. ASSUME NEW q \in Procs, LinkFind(q) PROVE HistoryTyped'
  BY <1>9 DEF LinkFind, boundVars
<1>10. ASSUME NEW q \in Procs, LinkWrite(q) PROVE HistoryTyped'
  BY <1>10 DEF LinkWrite, boundVars
<1>11. ASSUME NEW q \in Procs, Save(q) PROVE HistoryTyped'
  BY <1>11 DEF Save, boundVars
<1>12. ASSUME NEW q \in Procs, Mint(q) PROVE HistoryTyped'
  <2>1. Link(key[q], account[q]) \in LinkType BY <1>12 DEF Mint, Link, Holding
  <2>2. QED BY <1>12, <2>1 DEF Mint, boundVars
<1>13. ASSUME NEW id \in DOMAIN users, DeleteUser(id) PROVE HistoryTyped'
  BY <1>13 DEF DeleteUser, Edit
<1>14. ASSUME NEW id \in DOMAIN users, NEW name \in Names, RenameUser(id, name) PROVE HistoryTyped'
  <2>1. id \in Ids BY DEF AccountsTyped, Ids
  <2>2. given' \subseteq LinkType BY <1>14, <2>1 DEF RenameUser, Gives, Link
  <2>3. QED BY <1>14, <2>2 DEF RenameUser, Edit
<1>15. ASSUME NEW name \in Names, MakeUser(name) PROVE HistoryTyped'
  <2>1. Len(owner) + 1 \in Ids BY <1>15, NewAccountMakes DEF MakeUser
  <2>2. given' \subseteq LinkType BY <1>15, <2>1 DEF MakeUser, Gives, Link
  <2>3. QED BY <1>15, <2>2 DEF MakeUser, Edit
<1>16. CASE PageGet
  BY <1>16 DEF PageGet, boundVars
<1>17. CASE PagePost
  BY <1>17 DEF PagePost
<1>18. CASE Crash
  <2>1. BeingMade \subseteq Ids BY DEF BeingMade, Holding
  <2>2. QED BY <1>18, <2>1 DEF Crash
<1>19. QED BY <1>1, <1>2, <1>3, <1>4, <1>5, <1>6, <1>7, <1>8, <1>9, <1>10, <1>11, <1>12, <1>13, <1>14, <1>15, <1>16, <1>17, <1>18 DEF Next, Login

(* The object a login captured is still there when it reads it. *)
LEMMA CapturedTypedStep ==
  ASSUME Typed, [Next]_vars PROVE CapturedTyped'
<1> USE DEF Typed, CapturedTyped, LoginsTyped
<1>1. CASE Crash BY <1>1 DEF Crash
<1>2. DOMAIN objects \subseteq DOMAIN objects' \/ Crash
  <2>1. ASSUME NEW q \in Procs, LinkWrite(q) PROVE DOMAIN objects' = DOMAIN objects
    BY <2>1, LinkWriteMakes
  <2>2. CASE PagePost BY <2>2, PagePostMakes
  <2>3. QED BY LinksFrame, <2>1, <2>2 DEF Save, PageGet, configVars
<1>3. CASE captured' = captured /\ ~Crash /\ \A q \in Procs : pc'[q] = "linked" => pc[q] = "linked"
  BY <1>2, <1>3
<1>4. ASSUME NEW q \in Procs, NEW p \in Pubkeys, Start(q, p) PROVE CapturedTyped'
  <2>1. /\ captured' = [captured EXCEPT ![q] = Len(objects)] /\ objects' = objects
        /\ \A r \in Procs : r # q => pc'[r] = pc[r]
    BY <1>4 DEF Start, Resolved, Goto, configVars
  <2>2. Len(objects) \in Nat /\ Len(objects) \in DOMAIN objects BY LinksTyped DEF ConfigTyped
  <2>3. QED BY <2>1, <2>2
<1>5. ASSUME NEW q \in Procs, GetLinkedUser(q) PROVE CapturedTyped'
  <2>1. /\ captured' = [captured EXCEPT ![q] = 0] /\ objects' = objects /\ pc'[q] # "linked"
        /\ \A r \in Procs : r # q => pc'[r] = pc[r]
    BY <1>5 DEF GetLinkedUser, Resolved, Goto, configVars
  <2>2. QED BY <2>1
<1>6. ASSUME NEW q \in Procs, Login(q) PROVE CapturedTyped'
  <2>1. CASE (\E p \in Pubkeys : Start(q, p)) \/ GetLinkedUser(q) BY <1>4, <1>5, <2>1
  <2>2. CASE /\ captured' = captured
             /\ \A r \in Procs : pc'[r] = "linked" => pc[r] = "linked"
    BY <1>1, <1>3, <2>2
  <2>3. CASE ~((\E p \in Pubkeys : Start(q, p)) \/ GetLinkedUser(q))
    <3>1. captured' = captured
      BY <1>6, <2>3 DEF Login, FindById, FindByName, CreateUser, ChangePassword, UpdateUser, Harden,
        LinkFind, LinkWrite, Save, Mint
    <3>2. \A r \in Procs : pc'[r] = "linked" => pc[r] = "linked"
      BY <1>6, <2>3 DEF Login, FindById, FindByName, CreateUser, ChangePassword, UpdateUser, Harden,
        CutShort, LinkFind, LinkWrite, Save, Mint, Resolved, Goto
    <3>3. QED BY <2>2, <3>1, <3>2
  <2>4. QED BY <2>1, <2>3
<1>7. CASE captured' = captured /\ pc' = pc BY <1>1, <1>3, <1>7
<1>8. QED BY <1>1, <1>6, <1>7
  DEF Next, DeleteUser, RenameUser, MakeUser, PageGet, PagePost, vars, procVars

LEMMA TypedStep == ASSUME Typed, [Next]_vars PROVE Typed'
BY AccountsTypedStep, ConfigTypedStep, LoginsTypedStep, FoundTypedStep, CapturedTypedStep,
   HistoryTypedStep DEF Typed

-----------------------------------------------------------------------------
(* What a step of a login changes *)

(* A step of one login leaves the others where they are. *)
LEMMA OthersKept ==
  ASSUME Typed, NEW q \in Procs, Login(q), NEW r \in Procs, r # q
  PROVE  pc'[r] = pc[r] /\ key'[r] = key[r] /\ account'[r] = account[r] /\ found'[r] = found[r]
<1> USE DEF Typed, LoginsTyped, FoundTyped, Goto, Resolved, configVars, boundVars
<1>1. ASSUME NEW p \in Pubkeys, Start(q, p)
      PROVE  pc'[r] = pc[r] /\ key'[r] = key[r] /\ account'[r] = account[r] /\ found'[r] = found[r]
  BY <1>1 DEF Start
<1>2. CASE GetLinkedUser(q) BY <1>2 DEF GetLinkedUser
<1>3. CASE FindById(q) BY <1>3 DEF FindById
<1>4. CASE FindByName(q) BY <1>4 DEF FindByName
<1>5. CASE CreateUser(q) BY <1>5 DEF CreateUser
<1>6. CASE ChangePassword(q) BY <1>6 DEF ChangePassword, Harden, CutShort
<1>7. CASE UpdateUser(q) BY <1>7 DEF UpdateUser, Harden, CutShort
<1>8. CASE LinkFind(q) BY <1>8 DEF LinkFind
<1>9. CASE LinkWrite(q) BY <1>9 DEF LinkWrite
<1>10. CASE Save(q) BY <1>10 DEF Save
<1>11. CASE Mint(q) BY <1>11 DEF Mint
<1>12. QED BY <1>1, <1>2, <1>3, <1>4, <1>5, <1>6, <1>7, <1>8, <1>9, <1>10, <1>11 DEF Login

LEMMA AccountFrame ==
  ASSUME Typed, NEW q \in Procs, Login(q)
  PROVE  \/ account'[q] = account[q] /\ key'[q] = key[q]
         \/ account'[q] = NoUser
         \/ GetLinkedUser(q) \/ FindByName(q) \/ CreateUser(q)
<1> USE DEF Typed, LoginsTyped, Goto, Resolved, configVars, boundVars
<1>1. ASSUME NEW p \in Pubkeys, Start(q, p) PROVE account'[q] = NoUser BY <1>1 DEF Start
<1>2. CASE FindById(q) BY <1>2 DEF FindById
<1>3. CASE ChangePassword(q) \/ UpdateUser(q) BY <1>3 DEF ChangePassword, UpdateUser, Harden, CutShort
<1>4. CASE LinkFind(q) \/ LinkWrite(q) BY <1>4 DEF LinkFind, LinkWrite
<1>5. CASE Save(q) \/ Mint(q) BY <1>5 DEF Save, Mint
<1>6. QED BY <1>1, <1>2, <1>3, <1>4, <1>5 DEF Login

-----------------------------------------------------------------------------
(* Whatever refers to an account goes on to refer to one that fits *)

LEMMA OwnerStep == ASSUME Typed, [Next]_vars PROVE OwnerKept
<1> USE DEF OwnerKept
<1>1. CASE \E q \in Procs : CreateUser(q)
  <2>1. PICK q \in Procs : CreateUser(q) BY <1>1
  <2>2. key[q] \in Pubkeys \cup {ByHand} BY DEF Typed, LoginsTyped
  <2>3. QED BY <2>1, <2>2 DEF CreateUser, NewAccount
<1>2. CASE \E name \in Names : MakeUser(name) BY <1>2 DEF MakeUser, NewAccount
<1>3. QED BY UsersFrame, <1>1, <1>2 DEF ChangePassword, UpdateUser, Harden, CutShort, DeleteUser, RenameUser

LEMMA FitsStep ==
  ASSUME Typed, [Next]_vars, NEW p, NEW id, Fits(p, id)
  PROVE  FitsNext(p, id)
BY FitsKept, OwnerStep, HistoryGrows DEF Typed, AccountsTyped

LEMMA AllFitStep ==
  ASSUME Typed, [Next]_vars, NEW links, AllFit(links)
  PROVE  \A i \in DOMAIN links : FitsNext(links[i].pubkey, links[i].user)
BY FitsStep DEF AllFit

LEMMA SessionsFitStep ==
  ASSUME Typed, SessionsFit, \A q \in Procs : LoginFits(q), [Next]_vars
  PROVE  SessionsFit'
<1>1. CASE sessions' = sessions BY <1>1, FitsStep DEF SessionsFit, Fits, FitsNext
<1>2. ASSUME NEW q \in Procs, Mint(q) PROVE SessionsFit'
  <2>1. account[q] # NoUser
    BY <1>2, ProvisioningAssumption DEF Mint, Typed, LoginsTyped, Holding, Ids
  <2>2. Fits(key[q], account[q]) BY <2>1 DEF LoginFits
  <2>3. \A s \in sessions' : s \in sessions \/ s = Link(key[q], account[q]) BY <1>2 DEF Mint
  <2>4. \A s \in sessions' : Fits(s.pubkey, s.user) BY <2>2, <2>3 DEF Link, SessionsFit
  <2>5. QED BY <2>4, FitsStep DEF SessionsFit, Fits, FitsNext
<1>3. QED BY SessionsFrame, <1>1, <1>2

LEMMA NamesFitStep ==
  ASSUME Typed, NamesFit, [Next]_vars PROVE NamesFit'
<1> SUFFICES ASSUME NEW id \in DOMAIN users', NEW p \in Pubkeys, users'[id].name = Npub[p]
             PROVE  FitsNext(p, id)
  BY DEF NamesFit, Fits, FitsNext
<1>1. CASE id \in DOMAIN users /\ users'[id].name = users[id].name
  BY <1>1, FitsStep DEF NamesFit
(* A new account fits every key whose name it has. *)
<1>2. ASSUME NEW name \in Names, NEW o \in Pubkeys \cup {ByHand}, NewAccount(name, o),
             Npub[p] = name => o = p \/ Link(p, Len(owner) + 1) \in given'
      PROVE  FitsNext(p, id)
  <2>2. /\ DOMAIN users' = DOMAIN users \cup {Len(owner) + 1}
        /\ \A i \in DOMAIN users : users'[i] = users[i]
        /\ users'[Len(owner) + 1] = Account(name, "default", "none")
        /\ Len(owner) + 1 \in DOMAIN owner' /\ owner'[Len(owner) + 1] = o
    BY <1>2, NewAccountMakes
  <2>3. CASE id = Len(owner) + 1
    BY <1>2, <2>2, <2>3 DEF Account, FitsNext
  <2>4. QED BY <2>2, <2>3, <1>1
<1>3. CASE UNCHANGED users BY <1>1, <1>3
<1>4. ASSUME NEW q \in Procs, CreateUser(q) PROVE FitsNext(p, id)
  <2>1. key[q] \in Pubkeys /\ Npub[key[q]] \in Names
    BY ProvisioningAssumption DEF Typed, LoginsTyped
  <2>2. Npub[p] = Npub[key[q]] => key[q] = p BY <2>1, ProvisioningAssumption
  <2>3. QED BY <1>2, <1>3, <1>4, <2>1, <2>2 DEF CreateUser
<1>5. ASSUME NEW q \in Procs, ChangePassword(q) \/ UpdateUser(q) PROVE FitsNext(p, id)
  <2>1. DOMAIN users' = DOMAIN users /\ users'[id].name = users[id].name
    <3>1. CASE UNCHANGED users BY <3>1
    <3>2. CASE users' = [users EXCEPT ![account[q]].password = "random"]
      BY <3>2 DEF Typed, AccountsTyped
    <3>3. CASE users' = [users EXCEPT ![account[q]].provider = "nostr"]
      BY <3>3 DEF Typed, AccountsTyped
    <3>4. QED BY <1>5, <3>1, <3>2, <3>3 DEF ChangePassword, UpdateUser, Harden, CutShort
  <2>2. QED BY <1>1, <2>1
<1>6. ASSUME NEW i \in DOMAIN users, DeleteUser(i) PROVE FitsNext(p, id)
  BY <1>1, <1>6 DEF DeleteUser
<1>7. ASSUME NEW i \in DOMAIN users, NEW name \in Names, RenameUser(i, name) PROVE FitsNext(p, id)
  <2>1. users' = [users EXCEPT ![i].name = name] /\ Gives(i, name) /\ owner' = owner
    BY <1>7 DEF RenameUser
  <2>2. id \in DOMAIN users BY <2>1
  (* An account renamed to the npub name of a key is given to that key. *)
  <2>3. CASE id = i
    <3>1. name = Npub[p] BY <2>1, <2>2, <2>3 DEF Typed, AccountsTyped
    <3>2. Link(p, id) \in given' BY <2>1, <2>3, <3>1 DEF Gives
    <3>3. id \in DOMAIN owner' BY <2>1, <2>2 DEF Typed, AccountsTyped
    <3>4. QED BY <3>2, <3>3 DEF FitsNext
  <2>4. CASE id # i BY <1>1, <2>1, <2>2, <2>4
  <2>5. QED BY <2>3, <2>4
<1>8. ASSUME NEW name \in Names, MakeUser(name) PROVE FitsNext(p, id)
  <2>1. Npub[p] = name => Link(p, Len(owner) + 1) \in given' BY <1>8 DEF MakeUser, Gives
  <2>2. QED BY <1>2, <1>8, <2>1 DEF MakeUser
<1>9. QED BY UsersFrame, <1>3, <1>4, <1>5, <1>6, <1>7, <1>8

LEMMA FirstOfFits ==
  ASSUME Typed, LinksFit, NEW n \in DOMAIN objects, NEW p, NEW i \in FirstOf(objects[n], p)
  PROVE  Fits(p, objects[n][i].user)
<1>1. i \in DOMAIN objects[n] /\ objects[n][i].pubkey = p BY DEF FirstOf
<1>2. AllFit(objects[n]) BY DEF LinksFit
<1>3. QED BY <1>1, <1>2 DEF AllFit

LEMMA LoginFitsStep ==
  ASSUME Typed, NamesFit, LinksFit, NEW q \in Procs, LoginFits(q), [Next]_vars
  PROVE  LoginFits(q)'
<1>1. CASE account'[q] = account[q] /\ key'[q] = key[q] BY <1>1, FitsStep DEF LoginFits, Fits, FitsNext
<1>2. CASE account'[q] = NoUser BY <1>2 DEF LoginFits
<1>3. CASE GetLinkedUser(q)
  <2> DEFINE n == captured[q]
  <2>0. n \in DOMAIN objects BY <1>3 DEF GetLinkedUser, Typed, CapturedTyped
  <2>1. CASE Resolved(q, NoUser, "byName")
    BY <1>2, <2>1 DEF Resolved, Typed, LoginsTyped
  <2>2. ASSUME NEW i \in FirstOf(objects[n], key[q]), Resolved(q, objects[n][i].user, "byId")
        PROVE  LoginFits(q)'
    <3>1. FitsNext(key[q], objects[n][i].user) BY <2>0, FirstOfFits, FitsStep
    <3>2. account'[q] = objects[n][i].user /\ key'[q] = key[q]
      BY <1>3, <2>2 DEF Resolved, GetLinkedUser, Typed, LoginsTyped
    <3>3. QED BY <3>1, <3>2 DEF LoginFits, Fits, FitsNext
  <2>3. QED BY <1>3, <2>1, <2>2 DEF GetLinkedUser
<1>4. CASE FindByName(q)
  <2>1. CASE UNCHANGED account BY <1>1, <1>4, <2>1 DEF FindByName
  <2>2. ASSUME NEW id \in Named(Npub[key[q]]), Resolved(q, id, "link") PROVE LoginFits(q)'
    <3>1. FitsNext(key[q], id) BY FitsStep DEF Named, NamesFit, Typed, LoginsTyped
    <3>2. account'[q] = id /\ key'[q] = key[q]
      BY <1>4, <2>2 DEF Resolved, FindByName, Typed, LoginsTyped
    <3>3. QED BY <3>1, <3>2 DEF LoginFits, Fits, FitsNext
  <2>3. QED BY <1>4, <2>1, <2>2 DEF FindByName
<1>5. CASE CreateUser(q)
  <2>1. CASE UNCHANGED account BY <1>1, <1>5, <2>1 DEF CreateUser
  <2>2. CASE NewAccount(Npub[key[q]], key[q]) /\ Resolved(q, Len(owner) + 1, "password")
    <3>1. Npub[key[q]] \in Names /\ key[q] \in Pubkeys \cup {ByHand}
      BY ProvisioningAssumption DEF Typed, LoginsTyped
    <3>2. FitsNext(key[q], Len(owner) + 1) BY <2>2, <3>1, NewAccountMakes DEF FitsNext
    <3>3. account'[q] = Len(owner) + 1 /\ key'[q] = key[q]
      BY <1>5, <2>2 DEF Resolved, CreateUser, Typed, LoginsTyped
    <3>4. QED BY <3>2, <3>3 DEF LoginFits, Fits, FitsNext
  <2>3. QED BY <1>5, <2>1, <2>2 DEF CreateUser
<1>6. CASE Crash BY <1>2, <1>6 DEF Crash
<1>7. ASSUME NEW r \in Procs, Login(r) PROVE LoginFits(q)'
  <2>1. CASE r = q BY <1>1, <1>2, <1>3, <1>4, <1>5, <1>7, <2>1, AccountFrame
  <2>2. CASE r # q BY <1>1, <1>7, <2>2, OthersKept
  <2>3. QED BY <2>1, <2>2
<1>8. QED BY ProcsFrame, <1>1, <1>6, <1>7

LEMMA LinksFitStep ==
  ASSUME Typed, LinksFit, \A q \in Procs : LoginFits(q) /\ FoundFits(q), [Next]_vars
  PROVE  LinksFit'
<1>1. CASE UNCHANGED <<objects, disk, tab>> BY <1>1, AllFitStep DEF LinksFit, AllFit, Fits, FitsNext
<1>2. ASSUME NEW q \in Procs, LinkWrite(q) PROVE LinksFit'
  <2>1. disk' = disk /\ tab' = tab BY <1>2 DEF LinkWrite
  <2>2. FitsNext(key[q], account[q])
    <3>1. account[q] # NoUser
      BY <1>2, ProvisioningAssumption DEF LinkWrite, Typed, LoginsTyped, Holding, Ids
    <3>2. Fits(key[q], account[q]) BY <3>1 DEF LoginFits
    <3>3. QED BY <3>2, FitsStep
  <2>3. ASSUME NEW n \in DOMAIN objects, NEW i \in DOMAIN objects'[n]
        PROVE  FitsNext(objects'[n][i].pubkey, objects'[n][i].user)
    <3>2. CASE i \in DOMAIN objects[n] /\ objects'[n][i] = objects[n][i]
      BY <3>2, FitsStep DEF LinksFit, AllFit
    <3>3. CASE objects'[n][i] = Link(key[q], account[q])
      BY <2>2, <3>3 DEF Link
    <3>4. CASE found[q] = <<n, i>> /\ objects'[n][i] = Link(objects[n][i].pubkey, account[q])
      <4>1. objects[n][i].pubkey = key[q] BY <3>4 DEF FoundFits
      <4>2. QED BY <2>2, <3>4, <4>1 DEF Link
    <3>5. QED BY <1>2, <3>2, <3>3, <3>4, LinkWriteMakes
  <2>4. DOMAIN objects' = DOMAIN objects BY <1>2, LinkWriteMakes
  <2>5. QED BY <2>1, <2>3, <2>4, AllFitStep DEF LinksFit, AllFit, Fits, FitsNext
<1>3. ASSUME NEW q \in Procs, Save(q) PROVE LinksFit'
  <2>1. objects' = objects /\ tab' = tab /\ disk' = Links BY <1>3 DEF Save
  <2>2. AllFit(Links) BY LinksTyped DEF LinksFit
  <2>3. QED BY <2>1, <2>2, AllFitStep DEF LinksFit, AllFit, Fits, FitsNext
<1>4. CASE PageGet
  <2>1. objects' = objects /\ disk' = disk /\ tab' = <<Links>> BY <1>4 DEF PageGet, configVars
  <2>2. AllFit(Links) BY LinksTyped DEF LinksFit
  <2>3. QED BY <2>1, <2>2, AllFitStep DEF LinksFit, AllFit, Fits, FitsNext
<1>5. CASE PagePost
  <2>1. tab # <<>> /\ objects' = Append(objects, tab[1]) /\ disk' = tab[1] /\ tab' = <<>>
    BY <1>5 DEF PagePost
  <2>2. AllFit(tab[1]) /\ tab[1] \in Seq(LinkType) BY <2>1 DEF LinksFit, Typed, ConfigTyped
  <2> DEFINE posted == tab[1]
  <2>3. objects' = Append(objects, posted) /\ posted \in Seq(LinkType) /\ AllFit(posted)
    BY <2>1, <2>2
  <2> HIDE DEF posted
  <2>4. /\ DOMAIN objects' = DOMAIN objects \cup {Len(objects) + 1}
        /\ \A n \in DOMAIN objects : objects'[n] = objects[n]
        /\ objects'[Len(objects) + 1] = posted
    BY <2>3 DEF Typed, ConfigTyped
  <2>5. \A n \in DOMAIN objects' : AllFit(objects'[n]) BY <2>3, <2>4 DEF LinksFit
  <2>6. AllFit(disk') /\ tab' = <<>> BY <2>1, <2>2
  <2>7. QED BY <2>5, <2>6, AllFitStep DEF LinksFit, AllFit, Fits, FitsNext
<1>6. CASE Crash
  <2>1. objects' = <<disk>> /\ disk' = disk /\ tab' = tab BY <1>6 DEF Crash
  <2>2. QED BY <2>1, AllFitStep DEF LinksFit, AllFit, Fits, FitsNext
<1>7. QED BY LinksFrame, <1>1, <1>2, <1>3, <1>4, <1>5, <1>6

(* The links there are keep their keys and their places until a restart. *)
LEMMA LinksStay ==
  ASSUME Typed, [Next]_vars, ~Crash
  PROVE  \A n \in DOMAIN objects : \A i \in DOMAIN objects[n] :
           objects'[n][i].pubkey = objects[n][i].pubkey
<1>1. CASE objects' = objects BY <1>1
<1>2. ASSUME NEW q \in Procs, LinkWrite(q)
      PROVE  \A n \in DOMAIN objects : \A i \in DOMAIN objects[n] :
               objects'[n][i].pubkey = objects[n][i].pubkey
  BY <1>2, LinkWriteMakes
<1>3. CASE PagePost
  <2> DEFINE posted == tab[1]
  <2>1. objects' = Append(objects, posted) /\ posted \in Seq(LinkType)
    BY <1>3 DEF PagePost, Typed, ConfigTyped
  <2> HIDE DEF posted
  <2>2. \A n \in DOMAIN objects : objects'[n] = objects[n] BY <2>1 DEF Typed, ConfigTyped
  <2>3. QED BY <2>2
<1>4. QED BY LinksFrame, <1>1, <1>2, <1>3 DEF Save, PageGet, configVars

LEMMA FoundFitsStep ==
  ASSUME Typed, NEW q \in Procs, FoundFits(q), [Next]_vars
  PROVE  FoundFits(q)'
<1>1. CASE found'[q] = <<>> BY <1>1 DEF FoundFits
<1>2. CASE Crash BY <1>1, <1>2 DEF Crash
<1>3. CASE ~Crash /\ found'[q] = found[q] /\ pc'[q] = pc[q] /\ key'[q] = key[q]
  <2>1. found[q] # <<>> => found[q][1] \in DOMAIN objects /\ found[q][2] \in DOMAIN objects[found[q][1]]
    BY DEF Typed, FoundTyped
  <2>2. QED BY <1>3, <2>1, LinksStay DEF FoundFits
<1>4. CASE Login(q)
  <2> USE DEF Typed, LoginsTyped, FoundTyped, Goto, Resolved, configVars, boundVars
  <2>1. CASE LinkWrite(q) BY <1>1, <2>1 DEF LinkWrite
  <2>2. CASE LinkFind(q)
    <3>1. CASE FirstOf(Links, key[q]) = {} BY <1>1, <2>2, <3>1 DEF LinkFind
    <3>2. CASE FirstOf(Links, key[q]) # {}
      <4> DEFINE i == CHOOSE k \in FirstOf(Links, key[q]) : TRUE
      <4>1. i \in FirstOf(Links, key[q]) BY <3>2
      <4>2. Links[i].pubkey = key[q] BY <4>1 DEF FirstOf
      <4>3. found'[q] = <<Len(objects), i>> /\ objects' = objects /\ key' = key /\ pc'[q] = "write"
        BY <2>2, <3>2 DEF LinkFind
      <4> HIDE DEF i
      <4>4. QED BY <4>2, <4>3 DEF FoundFits, Links
    <3>3. QED BY <3>1, <3>2
  <2>3. ASSUME found' = found, pc[q] # "write" PROVE FoundFits(q)'
    BY <2>3, <1>1 DEF FoundFits
  <2>4. CASE \E p \in Pubkeys : Start(q, p) BY <2>3, <2>4 DEF Start, InProgress
  <2>5. CASE GetLinkedUser(q) BY <2>3, <2>5 DEF GetLinkedUser
  <2>6. CASE FindById(q) BY <2>3, <2>6 DEF FindById
  <2>7. CASE FindByName(q) BY <2>3, <2>7 DEF FindByName
  <2>8. CASE CreateUser(q) BY <2>3, <2>8 DEF CreateUser
  <2>9. CASE ChangePassword(q) \/ UpdateUser(q) BY <2>3, <2>9 DEF ChangePassword, UpdateUser, Harden, CutShort
  <2>10. CASE Save(q) \/ Mint(q) BY <2>3, <2>10 DEF Save, Mint
  <2>11. QED BY <1>4, <2>1, <2>2, <2>4, <2>5, <2>6, <2>7, <2>8, <2>9, <2>10 DEF Login
<1>5. ASSUME NEW r \in Procs, Login(r) PROVE FoundFits(q)'
  <2>1. CASE r = q BY <1>4, <1>5, <2>1
  <2>2. CASE r # q BY <1>2, <1>3, <1>5, <2>2, OthersKept
  <2>3. QED BY <2>1, <2>2
<1>6. QED BY ProcsFrame, <1>2, <1>3, <1>5

LEMMA SaveStays ==
  ASSUME Typed, [Next]_vars, ~Crash, NEW q \in Procs, pc[q] = "save", ~Save(q)
  PROVE  pc'[q] = "save"
<1>1. CASE Login(q)
  BY <1>1 DEF Login, Start, InProgress, GetLinkedUser, FindById, FindByName, CreateUser,
    ChangePassword, UpdateUser, Harden, CutShort, LinkFind, LinkWrite, Mint
<1>2. ASSUME NEW r \in Procs, r # q, Login(r) PROVE pc'[q] = "save" BY <1>2, OthersKept
<1>3. QED BY ProcsFrame, <1>1, <1>2

(* The file has what the server works with, except while a login is between  *)
(* its write and its save.                                                  *)
LEMMA LinksPersistedStep ==
  ASSUME Typed, LinksPersisted, [Next]_vars PROVE LinksPersisted'
<1> USE DEF LinksPersisted, Links
<1>1. ASSUME NEW q \in Procs, LinkWrite(q) PROVE LinksPersisted'
  BY <1>1 DEF LinkWrite, Goto, Typed, LoginsTyped
<1>2. ASSUME NEW q \in Procs, Save(q) PROVE LinksPersisted' BY <1>2 DEF Save
<1>3. CASE PageGet BY <1>3 DEF PageGet, configVars, procVars
<1>4. CASE PagePost
  <2> DEFINE posted == tab[1]
  <2>1. objects' = Append(objects, posted) /\ posted \in Seq(LinkType) /\ disk' = posted
    BY <1>4 DEF PagePost, Typed, ConfigTyped
  <2> HIDE DEF posted
  <2>2. objects'[Len(objects')] = posted BY <2>1 DEF Typed, ConfigTyped
  <2>3. QED BY <2>1, <2>2
<1>5. CASE Crash BY <1>5 DEF Crash
<1>6. CASE UNCHANGED <<objects, disk, tab>>
  <2>1. CASE Crash \/ \E q \in Procs : Save(q) BY <1>2, <1>5, <2>1
  <2>2. CASE ~Crash /\ \A q \in Procs : ~Save(q) BY <1>6, <2>2, SaveStays
  <2>3. QED BY <2>1, <2>2
<1>7. QED BY LinksFrame, <1>1, <1>2, <1>3, <1>4, <1>5, <1>6

-----------------------------------------------------------------------------
(* Accounts the plugin made *)

(* An account keeps what has been done to it; a new one, which nothing refers  *)
(* to yet, is made by hand or by a login that goes on to its password.       *)
LEMMA UserKept ==
  ASSUME Typed, [Next]_vars, NEW id \in DOMAIN users'
  PROVE  \/ /\ id \in DOMAIN users
            /\ users[id].password = "random" => users'[id].password = "random"
            /\ users[id].provider = "nostr" => users'[id].provider = "nostr"
            /\ owner'[id] = owner[id]
         \/ /\ id \notin DOMAIN owner
            /\ \/ owner'[id] = ByHand
               \/ \E q \in Procs : /\ CreateUser(q)
                                    /\ account'[q] = id /\ pc'[q] = "password"
<1> DEFINE Kept == /\ id \in DOMAIN users
                   /\ users[id].password = "random" => users'[id].password = "random"
                   /\ users[id].provider = "nostr" => users'[id].provider = "nostr"
                   /\ owner'[id] = owner[id]
           Made == /\ id \notin DOMAIN owner
                   /\ \/ owner'[id] = ByHand
                      \/ \E q \in Procs : /\ CreateUser(q)
                                           /\ account'[q] = id /\ pc'[q] = "password"
<1> SUFFICES Kept \/ Made OBVIOUS
<1>1. CASE UNCHANGED <<users, owner>> BY <1>1
<1>2. ASSUME NEW q \in Procs, CreateUser(q) PROVE Kept \/ Made
  <2>1. CASE UNCHANGED <<users, owner>> BY <2>1
  <2>2. CASE NewAccount(Npub[key[q]], key[q]) /\ Resolved(q, Len(owner) + 1, "password")
    <3>1. Npub[key[q]] \in Names /\ key[q] \in Pubkeys \cup {ByHand}
      BY ProvisioningAssumption DEF Typed, LoginsTyped
    <3>2. /\ DOMAIN users' = DOMAIN users \cup {Len(owner) + 1} /\ Len(owner) + 1 \notin DOMAIN owner
          /\ \A i \in DOMAIN owner : owner'[i] = owner[i]
          /\ \A i \in DOMAIN users : users'[i] = users[i]
      BY <2>2, <3>1, NewAccountMakes
    <3>3. account'[q] = Len(owner) + 1 /\ pc'[q] = "password"
      BY <2>2 DEF Resolved, Goto, Typed, LoginsTyped
    <3>4. DOMAIN users \subseteq DOMAIN owner BY DEF Typed, AccountsTyped
    <3>5. CASE id \in DOMAIN users BY <3>2, <3>4, <3>5
    <3>6. CASE id = Len(owner) + 1 BY <1>2, <3>2, <3>3, <3>6
    <3>7. QED BY <3>2, <3>5, <3>6
  <2>3. QED BY <1>2, <2>1, <2>2 DEF CreateUser
<1>3. ASSUME NEW q \in Procs, ChangePassword(q) \/ UpdateUser(q) PROVE Kept
  <2>1. owner' = owner BY <1>3 DEF ChangePassword, UpdateUser, Harden, CutShort
  <2>2. CASE UNCHANGED users BY <2>1, <2>2
  <2>3. CASE users' = [users EXCEPT ![account[q]].password = "random"]
    BY <2>1, <2>3 DEF Typed, AccountsTyped
  <2>4. CASE users' = [users EXCEPT ![account[q]].provider = "nostr"]
    BY <2>1, <2>4 DEF Typed, AccountsTyped
  <2>5. QED BY <1>3, <2>2, <2>3, <2>4 DEF ChangePassword, UpdateUser, Harden, CutShort
<1>4. ASSUME NEW i \in DOMAIN users, DeleteUser(i) PROVE Kept BY <1>4 DEF DeleteUser
<1>5. ASSUME NEW i \in DOMAIN users, NEW name \in Names, RenameUser(i, name) PROVE Kept
  <2>1. users' = [users EXCEPT ![i].name = name] /\ owner' = owner BY <1>5 DEF RenameUser
  <2>2. QED BY <2>1 DEF Typed, AccountsTyped
<1>6. ASSUME NEW name \in Names, MakeUser(name) PROVE Kept \/ Made
  <2>2. /\ DOMAIN users' = DOMAIN users \cup {Len(owner) + 1} /\ Len(owner) + 1 \notin DOMAIN owner
        /\ \A i \in DOMAIN owner : owner'[i] = owner[i]
        /\ \A i \in DOMAIN users : users'[i] = users[i]
        /\ owner'[Len(owner) + 1] = ByHand
    BY <1>6, NewAccountMakes DEF MakeUser
  <2>3. DOMAIN users \subseteq DOMAIN owner BY DEF Typed, AccountsTyped
  <2>4. CASE id \in DOMAIN users BY <2>2, <2>3, <2>4
  <2>5. QED BY <2>2, <2>4
<1>7. QED BY UsersFrame, <1>1, <1>2, <1>3, <1>4, <1>5, <1>6

LEMMA PasswordSetStep ==
  ASSUME Typed, NEW q \in Procs, LoginFits(q), PasswordSet(q), [Next]_vars
  PROVE  PasswordSet(q)'
<1> SUFFICES ASSUME pc'[q] = "update", account'[q] \in DOMAIN users'
             PROVE  users'[account'[q]].password = "random"
  BY DEF PasswordSet
<1>1. CASE pc[q] = "update" /\ account'[q] = account[q]
  <2>1. account[q] # NoUser
    BY <1>1, ProvisioningAssumption DEF Typed, LoginsTyped, Holding, Ids
  <2>2. account[q] \in DOMAIN owner BY <2>1 DEF LoginFits, Fits
  <2>3. QED BY <1>1, <2>2, UserKept DEF PasswordSet
<1>2. CASE Login(q)
  <2> USE DEF Typed, LoginsTyped, Goto, Resolved
  <2>1. CASE ChangePassword(q)
    BY <2>1 DEF ChangePassword, Harden, CutShort, AccountsTyped
  <2>2. pc'[q] = "update" => ChangePassword(q)
    BY <1>2 DEF Login, Start, GetLinkedUser, FindById, FindByName, CreateUser, UpdateUser, Harden, CutShort,
      LinkFind, LinkWrite, Save, Mint
  <2>3. QED BY <2>1, <2>2
<1>3. CASE Crash BY <1>3 DEF Crash
<1>4. ASSUME NEW r \in Procs, r # q, Login(r) PROVE pc'[q] = pc[q] /\ account'[q] = account[q]
  BY <1>4, OthersKept
<1>5. QED BY ProcsFrame, <1>1, <1>2, <1>3, <1>4

LEMMA MadeHardenedStep ==
  ASSUME Typed, MadeHardened, \A q \in Procs : PasswordSet(q), [Next]_vars
  PROVE  MadeHardened'
<1> SUFFICES ASSUME NEW id \in DOMAIN users', owner'[id] # ByHand, ~Hardened(id)', id \notin cut'
             PROVE  \E q \in Procs : account'[q] = id /\ pc'[q] \in {"password", "update"}
  BY DEF MadeHardened, BeingHardened
<1>1. CASE \E q \in Procs : account'[q] = id /\ pc'[q] = "password" BY <1>1
<1>2. CASE /\ id \in DOMAIN users /\ owner'[id] = owner[id]
           /\ users[id].password = "random" => users'[id].password = "random"
           /\ users[id].provider = "nostr" => users'[id].provider = "nostr"
  <2>1. id \notin cut BY HistoryGrows
  <2>2. ~Hardened(id) BY <1>2 DEF Hardened
  <2>3. PICK q \in Procs : account[q] = id /\ pc[q] \in {"password", "update"}
    BY <1>2, <2>1, <2>2 DEF MadeHardened, BeingHardened
  <2>4. CASE pc'[q] = pc[q] /\ account'[q] = account[q] BY <2>3, <2>4
  <2>5. CASE Login(q)
    <3> USE DEF Typed, LoginsTyped, Goto, Resolved
    <3>0. CASE CutShort(q) BY <2>3, <3>0 DEF CutShort
    <3>1. CASE ChangePassword(q) BY <1>2, <2>3, <3>0, <3>1 DEF ChangePassword, Harden, IsGone
    <3>2. CASE UpdateUser(q)
      <4>0. SUFFICES ASSUME ~CutShort(q) PROVE \E r \in Procs :
                       account'[r] = id /\ pc'[r] \in {"password", "update"}
        BY <3>0
      <4>1. users' = [users EXCEPT ![id].provider = "nostr"] /\ pc[q] = "update"
        BY <1>2, <2>3, <3>2, <4>0 DEF UpdateUser, Harden, IsGone
      <4>2. users[id].password = "random" BY <1>2, <2>3, <4>1 DEF PasswordSet
      <4>3. users'[id].provider = "nostr" /\ users'[id].password = "random"
        BY <1>2, <4>1, <4>2 DEF AccountsTyped
      <4>4. QED BY <4>3 DEF Hardened
    <3>3. ChangePassword(q) \/ UpdateUser(q)
      BY <2>3, <2>5 DEF Login, Start, InProgress, GetLinkedUser, FindById, FindByName, CreateUser,
        LinkFind, LinkWrite, Save, Mint
    <3>4. QED BY <3>1, <3>2, <3>3
  <2>6. ASSUME NEW r \in Procs, r # q, Login(r) PROVE pc'[q] = pc[q] /\ account'[q] = account[q]
    BY <2>6, OthersKept
  (* A crash cuts its maker short. *)
  <2>7. CASE Crash BY <2>3, <2>7 DEF Crash, BeingMade
  <2>8. QED BY ProcsFrame, <2>4, <2>5, <2>6, <2>7
<1>3. QED BY <1>1, <1>2, UserKept

-----------------------------------------------------------------------------
(* The invariant is inductive *)

LEMMA InitInv == ASSUME Init PROVE IInv
<1>1. Typed BY InitTyped
<1>2. NamesFit /\ SessionsFit /\ MadeHardened BY DEF Init, NamesFit, SessionsFit, MadeHardened
<1>3. LinksFit BY DEF Init, LinksFit, AllFit
<1>4. LinksPersisted BY DEF Init, LinksPersisted, Links
<1>5. \A q \in Procs : LoginFits(q) /\ FoundFits(q) /\ PasswordSet(q)
  BY DEF Init, LoginFits, FoundFits, PasswordSet
<1>6. QED BY <1>1, <1>2, <1>3, <1>4, <1>5 DEF IInv

LEMMA StepInv == ASSUME IInv, [Next]_vars PROVE IInv'
<1> USE DEF IInv
<1>1. Typed' BY TypedStep
<1>2. NamesFit' /\ LinksFit' /\ SessionsFit' BY NamesFitStep, LinksFitStep, SessionsFitStep
<1>3. ASSUME NEW q \in Procs PROVE LoginFits(q)' /\ FoundFits(q)' /\ PasswordSet(q)'
  BY LoginFitsStep, FoundFitsStep, PasswordSetStep
<1>4. MadeHardened' /\ LinksPersisted' BY MadeHardenedStep, LinksPersistedStep
<1>5. QED BY <1>1, <1>2, <1>3, <1>4

LEMMA Inductive == Spec => []IInv
BY InitInv, StepInv, PTL DEF Spec

-----------------------------------------------------------------------------
(* Theorems *)

(* Every variable of the provisioning keeps its type, and the link that      *)
(* LinkUser found is still where it was when it is written.                 *)
THEOREM TypeCorrect == Spec => []TypeOK
<1>1. IInv => TypeOK BY TypedIsTypeOK DEF IInv
<1>2. QED BY Inductive, <1>1, PTL

(* A key signs in to an account that was not made for it only if the         *)
(* administrator gave that account the key's npub name: nothing else that   *)
(* the administrator, the configuration page, a restart or another login    *)
(* does between any two steps of ResolveOrCreateAsync shares an account.     *)
THEOREM NotShared == Spec => []NoSharedAccounts
<1>1. IInv => NoSharedAccounts
  BY DEF IInv, SessionsFit, Fits, NoSharedAccounts, Typed, HistoryTyped, LinkType, Link
<1>2. QED BY Inductive, <1>1, PTL

(* With no login about to save, the configuration file has the links the     *)
(* server works with, though SaveConfiguration runs outside the lock.       *)
THEOREM Persisted == Spec => []LinksPersisted
<1>1. IInv => LinksPersisted BY DEF IInv
<1>2. QED BY Inductive, <1>1, PTL

(* Every account that the plugin made is hardened, or the login that made it *)
(* is about to do it or was cut short by a crash or an exception of its     *)
(* ChangePasswordAsync or UpdateAsync.                                      *)
THEOREM Hard == Spec => []HardenedUnlessCutShort
<1>1. IInv => HardenedUnlessCutShort BY DEF IInv, MadeHardened, HardenedUnlessCutShort
<1>2. QED BY Inductive, <1>1, PTL
=============================================================================
