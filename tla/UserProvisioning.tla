-------------------------- MODULE UserProvisioning --------------------------
(***************************************************************************)
(* From an authorized public key to a Jellyfin session:                    *)
(* NostrUserProvisioner.ResolveOrCreateAsync, JellyfinNostrUserLinks,      *)
(* JellyfinUserDirectory and JellyfinSessionMinter.  Logins run            *)
(* concurrently; the administrator deletes, renames and makes accounts and *)
(* saves the configuration page, which carries the links along; the server *)
(* may stop between any two steps.                                         *)
(***************************************************************************)
EXTENDS Integers, Sequences

CONSTANTS
  Procs,            \* concurrent logins
  Pubkeys,          \* authorized Nostr public keys
  Names, Npub,      \* user names; Pubkeys -> Names, the bech32 form
  NoUser, ByHand,   \* no account; the owner of an account made by hand
  MaxUsers, MaxLogins, MaxEdits, MaxPosts, MaxCrashes, MaxFaults  \* bounds

ASSUME ProvisioningAssumption ==
  /\ Npub \in [Pubkeys -> Names]
  /\ \A p, q \in Pubkeys : Npub[p] = Npub[q] => p = q
  /\ ByHand \notin Pubkeys /\ NoUser \notin Nat
  /\ {MaxUsers, MaxLogins, MaxEdits, MaxPosts, MaxCrashes, MaxFaults} \subseteq Nat

VARIABLES
  users,     \* Jellyfin's accounts, on disk: a function on the ids in use
  owner,     \* history: whom each account was made for, by id
  objects,   \* every configuration object's Users list; the last is current
  disk,      \* the Users list in the configuration file
  tab,       \* the list an open configuration page has fetched, in <<>> or <<l>>
  lock,      \* who holds _configLock
  pc, key,   \* where each login is, and its public key
  captured,  \* GetLinkedUser's config: a position in objects, 0 outside the call
  account,   \* the account it has resolved
  found,     \* LinkUser's existing: <<object, position>>, or <<>>
  sessions,  \* the sessions minted
  overlapped, \* history: the keys that had two logins at a time
  given,     \* history: the links the administrator made, by giving an account
             \* the npub name of a key
  cut,       \* history: accounts whose making an exception or a crash cut short
  logins, edits, posts, crashes, faults  \* spent out of their bounds

procVars == <<pc, key, captured, account, found, lock>>
configVars == <<objects, disk>>
boundVars == <<overlapped, given, cut, logins, edits, posts, crashes, faults>>
vars == <<users, owner, configVars, tab, procVars, sessions, boundVars>>

Link(p, id) == [pubkey |-> p, user |-> id]
Links == objects[Len(objects)]

(* Mutant: the first link, whoever's *)
FirstOfAny(links, p) == {i \in DOMAIN links : i = 1}

(* The first link of a key, as a set of at most one position. *)
FirstOf(links, p) ==
  {i \in DOMAIN links : links[i].pubkey = p /\ \A j \in 1 .. i - 1 : links[j].pubkey # p}

Named(name) == {id \in DOMAIN users : users[id].name = name}

Init ==
  /\ users = <<>> /\ owner = <<>>
  /\ objects = <<<<>>>> /\ disk = <<>> /\ tab = <<>> /\ lock = {}
  /\ pc = [q \in Procs |-> "idle"] /\ key \in [Procs -> Pubkeys]
  /\ captured = [q \in Procs |-> 0]
  /\ account = [q \in Procs |-> NoUser] /\ found = [q \in Procs |-> <<>>]
  /\ sessions = {} /\ overlapped = {} /\ given = {} /\ cut = {}
  /\ logins = 0 /\ edits = 0 /\ posts = 0 /\ crashes = 0 /\ faults = 0

-----------------------------------------------------------------------------
(* Accounts *)

Account(name, provider, password) ==
  [name |-> name, provider |-> provider, password |-> password]

(* Jellyfin makes an account with its default provider and no password. *)
NewAccount(name, o) ==
  /\ Len(owner) < MaxUsers
  /\ owner' = Append(owner, o)
  /\ users' = [id \in DOMAIN users \cup {Len(owner) + 1} |->
                 IF id = Len(owner) + 1 THEN Account(name, "default", "none") ELSE users[id]]

-----------------------------------------------------------------------------
(* A login whose key the allowlist has admitted *)

Goto(q, label) == pc' = [pc EXCEPT ![q] = label]

Resolved(q, id, label) ==
  Goto(q, label) /\ account' = [account EXCEPT ![q] = id]

InProgress(q) == pc[q] \notin {"idle", "done"}

Start(q, p) ==
  /\ ~InProgress(q) /\ logins < MaxLogins
  /\ logins' = logins + 1
  /\ key' = [key EXCEPT ![q] = p]
  /\ overlapped' = IF \E o \in Procs : InProgress(o) /\ key[o] = p
                   THEN overlapped \cup {p} ELSE overlapped
  /\ Resolved(q, NoUser, "linked")
  /\ captured' = [captured EXCEPT ![q] = Len(objects)]
  /\ UNCHANGED <<users, owner, configVars, tab, found, lock, sessions, given, cut, edits, posts,
                 crashes, faults>>

(* GetLinkedUser takes the configuration object before the lock, in the step *)
(* that starts the login, and reads it under the lock.                      *)
GetLinkedUser(q) ==
  /\ pc[q] = "linked" /\ lock = {}
  /\ LET links == objects[captured[q]]
     IN  \/ FirstOf(links, key[q]) = {} /\ Resolved(q, NoUser, "byName")
         \/ \E i \in FirstOf(links, key[q]) : Resolved(q, links[i].user, "byId")
  /\ captured' = [captured EXCEPT ![q] = 0]
  /\ UNCHANGED <<users, owner, configVars, tab, key, found, lock, sessions, boundVars>>

(* A link to an account that is gone falls back to the name. *)
FindById(q) ==
  /\ pc[q] = "byId"
  /\ IF account[q] \in DOMAIN users THEN Goto(q, "mint") /\ UNCHANGED account
                                    ELSE Resolved(q, NoUser, "byName")
  /\ UNCHANGED <<users, owner, configVars, tab, key, captured, found, lock, sessions, boundVars>>

FindByName(q) ==
  /\ pc[q] = "byName"
  /\ \/ Named(Npub[key[q]]) = {} /\ Goto(q, "create") /\ UNCHANGED account
     \/ \E id \in Named(Npub[key[q]]) : Resolved(q, id, "link")
  /\ UNCHANGED <<users, owner, configVars, tab, key, captured, found, lock, sessions, boundVars>>

(* CreateUserAsync throws if the name has been taken meanwhile. *)
CreateUser(q) ==
  /\ pc[q] = "create"
  /\ IF Named(Npub[key[q]]) # {} THEN Goto(q, "done") /\ UNCHANGED <<users, owner, account>>
     ELSE NewAccount(Npub[key[q]], key[q]) /\ Resolved(q, Len(owner) + 1, "password")
  /\ UNCHANGED <<configVars, tab, key, captured, found, lock, sessions, boundVars>>

(* ChangePasswordAsync, then UpdateAsync.  Each throws if the account is     *)
(* gone, and may throw although it is there (a database error, say), before *)
(* or after its own write: the login ends and the account stays as it is.   *)
IsGone(q) == account[q] \notin DOMAIN users

CutShort(q) ==
  /\ faults < MaxFaults /\ faults' = faults + 1
  /\ cut' = cut \cup {account[q]}
  /\ Goto(q, "done")

Harden(q, hardened, label) ==
  /\ \/ IsGone(q) /\ users' = users /\ Goto(q, "done") /\ UNCHANGED <<cut, faults>>
     \/ ~IsGone(q) /\ users' = hardened /\ Goto(q, label) /\ UNCHANGED <<cut, faults>>
     \/ ~IsGone(q) /\ users' \in {users, hardened} /\ CutShort(q)
  /\ UNCHANGED <<owner, configVars, tab, key, captured, account, found, lock, sessions,
                 overlapped, given, logins, edits, posts, crashes>>

ChangePassword(q) ==
  pc[q] = "password" /\ Harden(q, [users EXCEPT ![account[q]].password = "random"], "update")

(* Mutant: the provider is left as it is *)
UpdateUserForgetsProvider(q) ==
  pc[q] = "update" /\ Harden(q, users, "link")

UpdateUser(q) ==
  pc[q] = "update" /\ Harden(q, [users EXCEPT ![account[q]].provider = "nostr"], "link")

(* Mutant: off by one *)
LinkFindNext(q) ==
  /\ pc[q] = "link" /\ lock = {}
  /\ lock' = {q}
  /\ found' = [found EXCEPT ![q] = IF FirstOf(Links, key[q]) = {} THEN <<>>
                 ELSE <<Len(objects), 1 + CHOOSE i \in FirstOf(Links, key[q]) : TRUE>>]
  /\ Goto(q, "write")
  /\ UNCHANGED <<users, owner, configVars, tab, key, captured, account, sessions, boundVars>>

(* LinkUser takes the lock and looks for a link in the current object. *)
LinkFind(q) ==
  /\ pc[q] = "link" /\ lock = {}
  /\ lock' = {q}
  /\ found' = [found EXCEPT ![q] = IF FirstOf(Links, key[q]) = {} THEN <<>>
                 ELSE <<Len(objects), CHOOSE i \in FirstOf(Links, key[q]) : TRUE>>]
  /\ Goto(q, "write")
  /\ UNCHANGED <<users, owner, configVars, tab, key, captured, account, sessions, boundVars>>

(* It changes the link it found, or adds one to the object that is current  *)
(* by then, and releases the lock.                                         *)
LinkWrite(q) ==
  /\ pc[q] = "write"
  /\ objects' =
       IF found[q] = <<>>
       THEN [objects EXCEPT ![Len(objects)] = Append(@, Link(key[q], account[q]))]
       ELSE [objects EXCEPT ![found[q][1]][found[q][2]].user = account[q]]
  /\ lock' = {} /\ found' = [found EXCEPT ![q] = <<>>]
  /\ Goto(q, "save")
  /\ UNCHANGED <<users, owner, disk, tab, key, captured, account, sessions, boundVars>>

(* Mutant: a link that is already on disk is not written again *)
SaveOnlyNew(q) ==
  /\ pc[q] = "save"
  /\ disk' = IF FirstOf(disk, key[q]) = {} THEN Links ELSE disk
  /\ Goto(q, "mint")
  /\ UNCHANGED <<users, owner, objects, tab, key, captured, account, found, lock, sessions, boundVars>>

(* Mutant: the link stays in memory *)
SaveNothing(q) ==
  /\ pc[q] = "save"
  /\ Goto(q, "mint")
  /\ UNCHANGED <<users, owner, configVars, tab, key, captured, account, found, lock, sessions, boundVars>>

(* plugin.SaveConfiguration, after the lock. *)
Save(q) ==
  /\ pc[q] = "save"
  /\ disk' = Links
  /\ Goto(q, "mint")
  /\ UNCHANGED <<users, owner, objects, tab, key, captured, account, found, lock, sessions, boundVars>>

(* AuthenticateDirect refuses an account that is gone. *)
Mint(q) ==
  /\ pc[q] = "mint"
  /\ sessions' = sessions \cup
       (IF account[q] \in DOMAIN users THEN {Link(key[q], account[q])} ELSE {})
  /\ Goto(q, "done")
  /\ UNCHANGED <<users, owner, configVars, tab, key, captured, account, found, lock, boundVars>>

Login(q) ==
  \/ \E p \in Pubkeys : Start(q, p)
  \/ GetLinkedUser(q) \/ FindById(q) \/ FindByName(q) \/ CreateUser(q)
  \/ ChangePassword(q) \/ UpdateUser(q) \/ LinkFind(q) \/ LinkWrite(q)
  \/ Save(q) \/ Mint(q)

-----------------------------------------------------------------------------
(* The administrator and the host *)

Edit == edits < MaxEdits /\ edits' = edits + 1

(* An account that carries the npub name of a key is the one that the key's  *)
(* first login adopts, whoever it was made for.                             *)
Gives(id, name) == given' = given \cup {Link(p, id) : p \in {k \in Pubkeys : Npub[k] = name}}

DeleteUser(id) ==
  /\ Edit
  /\ users' = [i \in DOMAIN users \ {id} |-> users[i]]
  /\ UNCHANGED <<owner, configVars, tab, procVars, sessions, overlapped, given, cut, logins,
                 posts, crashes, faults>>

RenameUser(id, name) ==
  /\ Edit /\ Named(name) = {}
  /\ users' = [users EXCEPT ![id].name = name] /\ Gives(id, name)
  /\ UNCHANGED <<owner, configVars, tab, procVars, sessions, overlapped, cut, logins, posts,
                 crashes, faults>>

MakeUser(name) ==
  /\ Edit /\ Named(name) = {}
  /\ NewAccount(name, ByHand) /\ Gives(Len(owner) + 1, name)
  /\ UNCHANGED <<configVars, tab, procVars, sessions, overlapped, cut, logins, posts, crashes,
                 faults>>

(* The configuration page's submit handler: GET the whole configuration,    *)
(* change its own fields, POST all of it; the server makes that the current *)
(* object and writes it to disk.                                           *)
PageGet ==
  /\ tab = <<>> /\ posts < MaxPosts
  /\ tab' = <<Links>>
  /\ UNCHANGED <<users, owner, configVars, procVars, sessions, boundVars>>

PagePost ==
  /\ tab # <<>> /\ posts' = posts + 1
  /\ objects' = Append(objects, tab[1]) /\ disk' = tab[1] /\ tab' = <<>>
  /\ UNCHANGED <<users, owner, procVars, sessions, overlapped, given, cut, logins, edits,
                 crashes, faults>>

(* The server stops and starts again: accounts and the file remain. *)
BeingMade == {account[q] : q \in {r \in Procs : pc[r] \in {"password", "update"}}}

Crash ==
  /\ crashes < MaxCrashes /\ crashes' = crashes + 1
  /\ pc' = [q \in Procs |-> "idle"] /\ account' = [q \in Procs |-> NoUser]
  /\ captured' = [q \in Procs |-> 0]
  /\ found' = [q \in Procs |-> <<>>] /\ lock' = {}
  /\ objects' = <<disk>> /\ cut' = cut \cup BeingMade
  /\ UNCHANGED <<users, owner, disk, tab, key, sessions, overlapped, given, logins, edits, posts,
                 faults>>

Next ==
  \/ \E q \in Procs : Login(q)
  \/ \E id \in DOMAIN users : DeleteUser(id) \/ \E name \in Names : RenameUser(id, name)
  \/ \E name \in Names : MakeUser(name)
  \/ PageGet \/ PagePost \/ Crash

Spec == Init /\ [][Next]_vars

-----------------------------------------------------------------------------
Ids == 1 .. MaxUsers
LinkType == [pubkey: Pubkeys, user: Ids]

TypeOK ==
  /\ DOMAIN users \subseteq DOMAIN owner /\ owner \in Seq(Pubkeys \cup {ByHand})
  /\ Len(owner) <= MaxUsers
  /\ \A id \in DOMAIN users :
       users[id] \in [name: Names, provider: {"default", "nostr"}, password: {"none", "random"}]
  /\ objects \in Seq(Seq(LinkType)) /\ objects # <<>>
  /\ disk \in Seq(LinkType) /\ tab \in Seq(Seq(LinkType))
  /\ lock \in SUBSET Procs
  /\ pc \in [Procs -> {"idle", "linked", "byId", "byName", "create", "password", "update",
                       "link", "write", "save", "mint", "done"}]
  /\ key \in [Procs -> Pubkeys] /\ account \in [Procs -> Ids \cup {NoUser}]
  /\ captured \in [Procs -> Nat]
  /\ \A q \in Procs : pc[q] = "linked" => captured[q] \in DOMAIN objects
  /\ \A q \in Procs : found[q] # <<>> =>
       found[q][1] \in DOMAIN objects /\ found[q][2] \in DOMAIN objects[found[q][1]]
  /\ sessions \subseteq LinkType /\ overlapped \subseteq Pubkeys
  /\ given \subseteq LinkType /\ cut \subseteq Ids
  /\ logins \in 0 .. MaxLogins /\ edits \in 0 .. MaxEdits
  /\ posts \in 0 .. MaxPosts /\ crashes \in 0 .. MaxCrashes /\ faults \in 0 .. MaxFaults

(* A key signs in to an account that was not made for it only if the         *)
(* administrator gave that very account the key's npub name, by making it   *)
(* under that name or renaming it: FindByName then adopts it, another key's *)
(* account included.  Nothing else, no stale link, posted page, other       *)
(* login or restart, hands an account to a key                              *)
(* (NostrUserProvisioner.cs:36-68).                                         *)
NoSharedAccounts ==
  \A s \in sessions : owner[s.user] = s.pubkey \/ s \in given

(* When no login is between changing the links and saving them, the file    *)
(* has what the server works with, although saves run outside the lock.    *)
LinksPersisted ==
  (\A q \in Procs : pc[q] # "save") => disk = Links

(* A key that has signed in keeps its account through renames, crashes and   *)
(* later logins, until the account is deleted: the link is saved before the *)
(* session is minted (NostrUserProvisioner.cs:62-66).  This is said of      *)
(* behaviours without a page save, and of keys whose logins do not overlap: *)
(* an account renamed before its link is made is not found by a second one. *)
KeepsItsAccount ==
  posts = 0 => \A s, t \in sessions :
    s.pubkey = t.pubkey /\ s.pubkey \notin overlapped /\ s.user # t.user =>
      s.user \notin DOMAIN users \/ t.user \notin DOMAIN users

Hardened(id) == users[id].provider = "nostr" /\ users[id].password = "random"
BeingHardened(id) == \E q \in Procs : account[q] = id /\ pc[q] \in {"password", "update"}

(* An account the plugin made has an unusable password and the plugin's     *)
(* provider, unless the login that made it is still at it, or was cut short *)
(* between creating and hardening it by a crash or an exception of its own  *)
(* two calls: no deletion, rename, save or other login that adopts the      *)
(* account leaves it half made (NostrUserProvisioner.cs:57-60).             *)
HardenedUnlessCutShort ==
  \A id \in DOMAIN users :
    owner[id] # ByHand => Hardened(id) \/ BeingHardened(id) \/ id \in cut

-----------------------------------------------------------------------------
(* Statements of comments and documentation that the code does not keep *)

(* docs/design.md:111-115 and NostrUserProvisioner.cs:8-12: created users   *)
(* get a random password and the plugin's provider.                        *)
SessionsOnHardenedAccounts ==
  \A s \in sessions :
    s.user \in DOMAIN users /\ owner[s.user] # ByHand => Hardened(s.user)

(* JellyfinNostrUserLinks.cs:4-7: the mapping is re-resolved on later       *)
(* logins, and changes to it are serialized: no key gets a second account. *)
OneAccountPerKey ==
  \A s, t \in sessions : s.pubkey = t.pubkey /\ s.user # t.user =>
    s.user \notin DOMAIN users \/ t.user \notin DOMAIN users
=============================================================================
