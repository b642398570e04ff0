# Verification of jellyfin-nostr-auth

TLA+ models of the Jellyfin plugin that signs users in with Nostr keys: the
background allowlist sync, the login endpoint, the provisioning of accounts, the
dashboard's notice, the login page and the remote-signer client it runs. TLC
checks the models on small instances; TLAPS proves every safety property that a
passing run checks, and both refinements, for all instances. File names are those under `src/src/`.

## 1. The system

| Part | State | Operations | Talks to |
|---|---|---|---|
| `NostrAllowlistSyncService` | the loop's position, one poll's candidates | poll, fetch from each relay, merge, delay | relays, `AllowlistSync`, cache, configuration |
| `AllowlistSync` | none (npub, nsec of one poll) | `Merge` | — |
| `AllowlistCache` | the last snapshot, in memory | `Update`, read | written by the sync, read by logins and status |
| `NostrAuthController` | none | `Login`, `LoginEndpoint`, `Status`, page, bundle, key generation | login service, configuration |
| `Nip98Verifier`, `AllowlistEvaluator` | none | `Verify`, `Check` | clock, cache |
| `NostrLoginService` | none | `LoginAsync` | verifier, evaluator, provisioner, minter |
| `NostrUserProvisioner` | none | `ResolveOrCreateAsync` | accounts, links |
| `JellyfinNostrUserLinks` | the lock; links inside the configuration object and file | `GetLinkedUser`, `LinkUser` | `PluginConfiguration` |
| `JellyfinUserDirectory`, `JellyfinSessionMinter` | Jellyfin's accounts and sessions (external) | find, create, change password, update, mint | Jellyfin |
| `NostrStatusProvider`, `configPage.html` | an open page's copy of the configuration | status, GET then POST | configuration, cache |
| `loginPage.html` | probed URL, attempts, status line, credentials | probe, connect, sign, post, hand off | controller, signers |
| `nostr.mjs` (NIP-46 client and relay pool) | connections, subscriptions, pending calls, the relays in use | `fromURI`, `fromBunker`, `sendRequest`, `switchRelays` | relays, remote signer |
| `ServiceRegistrator`, `Plugin`, `NostrKeys` | none | wiring, key generation | — |

What is hard here: relays answer in any order, late, twice, wrongly or not at
all, and the EOSE handler is attached after the subscription is sent; one
configuration object is captured by a poll while the page replaces it; logins
read clock, URL, max-age and cache one after another; first logins of one key
overlap; an account is made in four steps a stop can separate; links live in
the same object that the configuration page writes back whole; the login page
probes a URL once that may change, and its buttons start attempts that overlap;
the signer client talks over relays that keep nothing, moves between them in the
middle of a call, lets a second signer take it over and sets no time limits. The `hazards` of
`PROJECT.json` list these places by line.

What makes each part correct: the cache holds only lists of the configured
owner and settles on the newest one; a session exists only for an event that is
fresh, bound to this URL and on the list within the request; a key has its own
account, one at a time, which nobody can enter by password; the dashboard does
not promise what logins do not get; an attempt on the page ends and says why; a
remote call settles, with the answer given to it.

## 2. Modules

| Module | Models | State and actions |
|---|---|---|
| `AllowlistMerge` | `Allowlist.cs`, `AllowlistSync` | operators only: `IsAuthoritative`, `Read`, `Sanitize`, `Beats`, `Merge` |
| `MergeSequences` | candidates arriving one by one | `candidates`; `Receive` |
| `MergeSequencesProofs` | theorems about the merge | — |
| `AuthorizedList` | what the sync promises (abstract) | `signed`, `configured`, `list`, `runs`; `Sign`, `Configure`, `Adopt`, `Forget` |
| `AllowlistSync` | `NostrAllowlistSyncService`, `AllowlistCache` | `pc` is the `await` the loop stands at; `candidates` and `received` are the lists of the same names; one action per await plus the relays, owner, administrator and host |
| `AllowlistSyncProofs` | theorems about `AllowlistSync` | — |
| `LoginDecisions` | `Verify`, `CanonicalLoginUrl`, `Check`, max-age | operators only, for the server, the dashboard and the page |
| `LoginService` | `Login`, `LoginAsync`, fail-closed | per request its `pc` and what it has read; `during` is the history of the worlds a request has seen, `served` that of the sessions; `Resend` sends a request again |
| `Dashboard` | `GetStatus` and the notice `configPage.html` makes of it | functions of the state of `LoginService`: one cache, one clock, one configuration for both sides |
| `LoginServiceProofs` | theorems about `LoginService` and `Dashboard` | — |
| `RemoteSigner` | what the page is promised of a remote signer (abstract) | `proven`, `phase`, `calls`; `Prove`, `Connect`, `Fail`, `Ask`, `Give`, `Answer`, `Reject` |
| `BunkerSigner` | the NIP-46 client and the pool of `nostr.mjs` | connections, every subscription with its state per relay, `current` (`subCloser`), `peer` (`bp.pubkey`), `closing` and `retiring` (timers, with what each closes), `calls` with their publications, `asked` (the page's own calls among them), `wire`; actions of client, relays and signers |
| `BunkerSignerProofs` | theorems about `BunkerSigner` | — |
| `BunkerTakeoverProofs` | the theorem that calls stay heard | — |
| `LoginPage` | `loginPage.html` | `probe`, `endpoint`, per attempt `pc`, `event`, `reply`; one action per `await`; `Throw` is the handlers' catch |
| `LoginPageProofs` | theorems about `LoginPage` | — |
| `UserProvisioning` | `NostrUserProvisioner`, links, directory, minter | accounts, configuration objects (the last is current), file, lock, per-login `pc`; the page's GET and POST, edits, crash |
| `UserProvisioningProofs` | theorems about `UserProvisioning` | — |
| `AccountKeepingProofs` | the theorem that a key keeps its account | — |
| `MC*` | values for TLC | — |

### Abstractions

Keys, names, URLs and bodies are values without structure. An event's content is
the form it decrypts to and the entries in it; NIP-44, JSON and BIP-340 are
flags. `Lower` and `Npub` stand for `ToLowerInvariant` and bech32 encoding:
`Lower` maps the entries of 64 hexadecimal digits to users, so two spellings are
one user and malformed entries are dropped; `Npub` is injective. Content decrypts
exactly when the configured secret belongs to the key the author sealed it to
(`sealedTo`), be that the author's own or not. An event that
makes NNostr throw has `sig = "malformed"`. A relay can send anything except an
event with a valid signature that nobody made. A relay that replaces events
keeps the newest per address. `RetrievedAtUnix`, logging, and the size and
wording of responses are left out. A graceful stop and a crash are one action,
since the loop's cancellation handlers change no other state.

`LoginPage` takes a signer as a call that succeeds, fails or waits, for ever if
it likes: that is what `RemoteSigner` promises and `BunkerSigner` is shown to
keep; a NIP-07 extension is the same without relays. It takes the server as one step with the decisions
of `LoginDecisions`; the steps inside are told apart in `LoginService`. A status
text is its kind. `WebRoot` is `"string"` because line 80 takes the `href`.

In `BunkerSigner` an event travels to one subscription through one relay and is
gone if that subscription ends, as relays keep no ephemeral events. A signed
event is taken as valid. `auth_url` and an answer with neither result nor error
are one case, `"nothing"`: the page passes no handler, so in both the call
waits. Each signer reads a link once and sends one connect response; a second
signer that reads it is one of the faults. `fromURI` has no guard against its
response: until the offer is closed it replaces the signer like the first
(`Connected`). A relay may end one subscription (CLOSED, `EndSubscription`) or
lose the connection. The timers of connections, of 4.4 s (publications) and of
5 s (`switchRelays`) are actions. Connections have 3 s, those dialled for the
offer up to 59 s, and `close()` of a subscription waits for its connections.
That a connection dialled for a move opens or fails, and that answers
already on their way arrive, before the 5 s are over is taken for granted, and
the opposite is one of the faults (`unruly`).

Jellyfin and the configuration page are external: `CreateUserAsync` refuses a name in use and
gives new accounts the default provider and no password; `ChangePasswordAsync`
and `UpdateAsync` throw when the account is gone, and may throw although it is
there, before or after their own write; the administrator may rename an account
to any free name, a key's npub name included; `AuthenticateDirect`
refuses an account that is gone; a configuration update replaces the object and
writes the file; `SaveConfiguration` writes the current object in one step.
Writing that file is assumed to succeed: if it throws, the link stays in memory
and the login fails, which the model leaves out.

## 3. Runs

| Run | Question | Bounds |
|---|---|---|
| `merge` | Does the merge depend on anything but the owner's newest list? | every sequence of up to 3 of 21 candidates covering each kind, form and time, valid, forged and malformed signatures, and content sealed to another key; both identities and both secrets, also one that does not belong to the identity. Three suffice: each property compares a winner with one rival and one bystander |
| `sync` | Does the sync implement `AuthorizedList` under any interleaving, does it keep polling, and does the cache settle on the newest list? | 2 list keys, 3 lists (two versions of one, one of the other key), 1 forgery, 1 candidate that makes the merge throw, 3 configurations (two relays; the other key with a secret that does not fit; unconfigured), 1 fault, 1 save, 1 restart. One of each suffices for every pair of them to meet at any point of a poll; each poll starts afresh |
| `login` | Is every session earned within its request, how long does one header work, and does the dashboard tell what logins get? | 14 requests (a valid login and each single deviation); one that got a session is sent again once; 4 instants around 60 s, two minutes and one hour; 3 settings (one hour, a max-age of 0, unconfigured); 3 lists, one public, one with an entry off the curve; 2 changes of cache or settings; any cached list at the start. Requests share nothing but the world, so one at a time against a changing world covers several |
| `provisioning` | Can accounts or links be mixed up, does a key keep its account, and are accounts that sign in hardened? | 2 logins at a time, 3 in all, 2 keys, 3 accounts, 1 edit (any account to any free name), 1 page save, 1 exception with the account present, 1 crash. One of each meets every step of two overlapping logins and of one that follows |
| `remote_signer` | Does the NIP-46 client implement `RemoteSigner`, is one working relay enough, do calls stay heard, and do they settle? | 1 signer; 2 relays; links with none, one or both; a signer that moves the client to the other relay or to none; 1 fault (a relay that fails, ends a subscription or refuses, a stranger, silence, a timer out of order). One fault and one spare relay already meet at every point of connecting, switching and both calls. That a second signer reads the link and takes the client over is left to the theorems of section 4: with two signers this run no longer finishes in minutes |
| `sign_in` | Have refusals the causes the page names, and do attempts end and say so? | 2 attempts, which may overlap, on any of the 3 buttons, numbered in the order of the presses; refusals by the list and the provisioner merged as `"refused"`; a proxy, so that page and server see different URLs; 2 instants 61 s apart, a clock that is right or 61 s ahead; 1 fault, 1 save, 1 reload |

`KeepsItsAccount` speaks of behaviours without a page save and of keys whose
logins do not overlap; `HardenedUnlessCutShort` excepts an account whose own
making a crash or an exception of its two hardening calls cut short (`cut`),
which the next login adopts by name as it is; `NoSharedAccounts` excepts the
accounts that the administrator made or renamed to a key's npub name (`given`),
which `FindByName` adopts, other keys' accounts included. The
violations below and the hazards show why. An account made by one login and not
yet hardened can be taken by another login of its key that overlaps
(`BeingHardened`), and an account renamed before it is linked is not found again
(`NostrUserProvisioner.cs:48`).

`CHECK_DEADLOCK FALSE` is set where a bounded number of candidates, requests or
logins simply runs out. The sync runs check deadlock: the loop always has a next
step.

**Fairness** (`Converges`, `PollsRecur`). Weak fairness of the loop's own steps:
awaited calls return and the scheduler runs continuations. Weak fairness of what
relays answer: a relay that is neither hung nor failing sends what it holds and
then EOSE. No fairness for faults, publications, saves or restarts, which are
bounded and so come to rest. That awaited calls return is an assumption about
relays: `Connect`, `CreateSubscription` and `Disconnect` have no time limit in
the code. With a relay in `HungRelays` the loop stays at `Connect`, and with an
interval above 71582 minutes `Delay` leads to `"faulted"`, out of the loop; both
break `PollsRecur`. The runs leave both out (no hung relay, an interval of 10
minutes), so `PollsRecur` says nothing about them; they are listed as hazards.

For `CallsSettle` the client's callbacks and timers run, connections open or
fail, relays confirm and forward, and a signer answers what it hears; no
fairness for scanning a link, for refusals or for faults. `Excused` names when a
call may wait for ever: the code has no time limit on calls, so what is lost
with a connection stays lost. For `AttemptsEnd` the page's own code runs and
fetches answer or fail. Nothing is assumed of signers: the page awaits the
connection, `getPublicKey` and `signEvent` without a time limit, so an attempt
may stay at `"connect"`, `"key"` or `"sign"` for ever (`AtSigner`), and the
property says that it is held up nowhere else.

### Where documentation and code disagree

Each of these runs expects TLC to find the statement violated.

| Run | Statement | What happens |
|---|---|---|
| `sync_regression` | the newest list wins (`docs/design.md:71-73`) | each poll's winner is stored even if older than the cached one |
| `login_responses` | oversized bodies get 401 (`NostrAuthController.cs:25`) and the body is informational (`:215`) | an oversized body gets status 200 with a reason; JSON that is no object, or whose members are no strings, fails the request with 500 |
| `provisioning_crash` | created accounts are hardened (`docs/design.md:111-115`) | a stop between `CreateUserAsync` and `UpdateAsync`, or an exception of either hardening call, leaves one that never is |
| `provisioning_lost_link` | link changes are serialized (`JellyfinNostrUserLinks.cs:4-7`) | a page save overwrites a link; after a rename the key gets a second account |
| `nostrconnect_budget` | the page waits up to 60 s for the connection (`website/docs/signing-in.md:26`) | the budget bounds opening connections and EOSE only; a signer scans the link while the relays are still opening, its response is forwarded to nobody, and nothing rejects the promise (nor if nobody scans) |
| `handoff` | on success the page stores the session (`docs/design.md:192-197`) | `webRoot` is a string, so `webRoot.href.replace` throws after the session is granted |

Further ones that the models contain but no run states:

- Both event kinds are always requested and merged, whatever `ListKind` is
  (`NostrAllowlistSyncService.cs:83`, against `PluginConfiguration.cs:31`).
- `failClosed` matters only while nothing is cached; with a cached list and no
  relay reachable logins are admitted (`docs/design.md:147` says refused).
- "the two views always agree" (`NostrAuthController.cs:156-158`) holds until
  the settings change or the probe fails; `RefusalsHaveACause` says exactly when.
- The dashboard computes staleness from the max-age as stored, logins take one
  that is not positive for 24 hours, although `NostrStatusProvider.cs:44-47`
  speaks of the same policy. `NoticeIsTrue` is restricted accordingly.
- The stale notice replaces the public-list warning (`configPage.html:112-117`).
- On the nostrconnect button every error that does not speak of closing is
  reported as a signer that did not answer in time (`loginPage.html:268-280`),
  also after a session was granted.

## 4. Proofs

`AllowlistSyncProofs` proves, for every set of keys, entries, relays,
configurations and events and every bound, from `LowerAssumption` (entries of
64 digits have a lower-case user) and `SyncAssumption` (configurations are well
typed, a relay's own inventions carry no valid signature):

- `TypeCorrect`: `Spec => []TypeOK`. One step per action; `EndFetchTyped` shows
  that the loop never indexes past the last relay.
- `Implements`: `Spec => Abstract!Spec`. The inductive invariant adds to the
  types that the configuration in effect and the one a poll has captured were
  saved (`PollWasSaved`). Types alone do not suffice: a merge step must name the
  configuration and the event it adopts. The types say that candidates are
  published events or relay inventions; `MergeTakesACandidate` says that the
  result of a merge is what `Read` makes of one authoritative candidate; its
  valid signature excludes an invention (`AuthoritativeWasPublished`), and its
  author excludes the default configuration (`MergeAdopts`).

`LoginServiceProofs` proves, for every set of users, requests, lists, settings
and instants, any number of concurrent requests and every bound, from
`DecisionsAssumption` and `LoginAssumption` (the markers for absent values are
distinct, requests, lists and settings are well typed):

- `TypeCorrect`, `Earned`, `ReplayBounded`, `UnavailableMeansFailClosed`:
  `Spec => []` of `TypeOK`, `SessionIsEarned`, `ReplayWindowBounded` and
  `UnavailableOnlyWhenFailClosed`. The properties speak of finished requests; the
  inductive invariant says what has been established at each place on the way:
  `Located` after `CanonicalLoginUrl`, `Verified` after `Verify`, `Aged` and
  `Listed` after the reads of the max-age and the snapshot, each in terms of a
  world among those the request has seen. What makes it inductive is
  `Watching`: while a request is in progress the current world is one of these
  (`WorldStep` for the changes of clock, cache and settings). The replay window
  needs `ServedFresh`, since a header is served by several requests.
- `NoticeTrue`: `Spec => []NoticeIsTrue`, from the types alone: notice and login
  are functions of the same state.

`UserProvisioningProofs` proves, for every set of keys, any number of concurrent
logins and every bound on accounts, edits, page saves and crashes, from
`ProvisioningAssumption` (npub encoding is injective):

- `TypeCorrect`, `NotShared`, `Persisted`, `Hard`: `Spec => []` of `TypeOK`,
  `NoSharedAccounts`, `LinksPersisted` and `HardenedUnlessCutShort`. A session
  takes its account from a link, a name or `CreateUserAsync`, and links come
  from other logins, from the file after a restart and from an open page. So
  the invariant says of everything that refers to an account that the account
  fits, that is, was made for the key or given its npub name: names (`NamesFit`), links in every configuration object, in the file
  and on the page (`LinksFit`), logins (`LoginFits`) and sessions. Accounts are
  only added to `owner`, what was given stays so, and deleted ids do not return,
  so what fits goes on to fit (`FitsStep`); `LinkWrite` needs `FoundFits`, that the link found before is
  one of the key, though the object it is in may be replaced by then. Hardening
  needs it for all accounts and not only those in use (`MadeHardened`), and that
  `UpdateAsync` finds the password set (`PasswordSet`); `cut` only grows
  (`HistoryGrows`).

`AccountKeepingProofs` extends it with the lock, the links and the sessions of
one key:

- `KeepsAccount`: `Spec => []KeepsItsAccount`. The property compares two
  sessions; the invariant says for each key whose logins have not overlapped
  (`Keeps`) what ties them together: every account it has signed in to that is
  still there is the one of its link, in the server and in the file
  (`HeldLinked`). That is inductive only with what a login of the key knows at
  each place: one that looks for a name, creates or links has none to keep, one
  past its link has the account of the link (`LoginKnows`), the file differs
  from the server for this key only while its login is at the save (`Saved`, so
  that a crash takes no session's link away), and there is one login at a time
  (`AtMostOne`). Links of other keys must leave this one alone (`AppendLink`,
  `ChangeLink`), which needs that a write goes to the link that the key still
  has.
- `WritesWhatItFound`: that fact by itself. Whoever is between LinkUser's search
  and its write holds `_configLock` (`Exclusive`), and what it found is still the
  first link of its key (`WriterFound`), without a page save.

`MergeSequencesProofs` proves the promises of the merge for every set of
candidates and every number of them, from `LowerAssumption` and
`CandidatesAssumption` (candidates are events):

- `TypeCorrect`, `RevocationAlwaysSticks`, `UnflaggedAlwaysPrivate`,
  `ForgeriesStayInert`, `OrderMattersOnlyOnATie` (invariants) and
  `TakesOverOnlyWhenNewer` (an action property). `Merge` chooses its winner, so
  each rests on two facts: a winner is the only one (`WinnerUnique`), and there
  is one as soon as a candidate is authoritative. The second would need an
  induction over sequences; it is the invariant `HasWinner` instead, which one
  more candidate preserves because `Beats` compares it with the old winner
  alone. For `ForgeriesAreInert` the winner is carried over to the list without
  the forgeries, which the property describes as any increasing enumeration of
  the remaining positions. The properties speak of merges that return; that
  forgeries leave unchanged whether one does is part of `ForgeriesAreInert`, and
  an event in the owner's name whose signature cannot be parsed is kept on both
  sides, as it makes the whole merge throw.

`LoginPageProofs` proves, for any number of attempts, faults, saves and reloads
and any clocks, from `PageAssumption` and `DecisionsAssumption`:

- `TypeCorrect`, `RefusalsAlwaysHaveACause`, `WaitingAlwaysMeansUnderWay`. An
  event is built from the endpoint and the clock of one instant and judged at a
  later one, so the invariant keeps what is still known of that instant: the
  endpoint is the server's own as long as nothing was saved (`View`), the event
  has the endpoint and the device's time until it is posted (`Built`), and an
  attempt that has not posted has no answer (`Unanswered`).

`BunkerSignerProofs` proves, for any relays, links, moves of the signer and
number of failures, from `SignerAssumption` (links and moves name relays, and
there is a signer):

- `TypeCorrect`: the types say that a subscription is live at a relay only over
  a connection that is up, and an event on its way only to a live subscription;
  every action that closes or fails must re-establish this.
- `OneRelayAlwaysSuffices`: while the client waits it has one subscription,
  which has ended only at relays that failed (`Waiting`): nothing else closes an
  offer before a signer is found. A publication that failed names a relay that
  failed (`FailedBroken`).
- `Implements`: `Spec => ImplementsRemoteSigner`, step by step. `RemoteSigner`
  has one call at a time and settles it once. The client settles all calls that
  a failure leaves without a publication in one step, so the mapping takes the
  page's own calls only (`asked`) and the invariant says that the second is made
  after the first was answered (`AskedShape`), which leaves at most one the page
  can wait for; that only a client that is ready has been asked anything
  (`PhaseShape`); and that one past `"waiting"` has been shown the secret
  (`Proven`), which a takeover leaves true.

`BunkerTakeoverProofs` proves `CallsAlwaysHeard`: `Spec => []CallsStayHeard`,
for any number of signers. The property speaks of calls that wait; the invariant
`Heard` says of every signer a call went to, and of the one the next will go to,
that the client has a session with it that is neither closing nor about to be
(`Stays`), as long as no relay has failed and nobody has asked the client to
move to no relays (`Undisturbed`). A move closes `current` whatever signer that belongs to, so it takes
`CurrentIsPeers`, that this is the signer the move subscribes to again; and a
takeover closes the subscription its response came through, which is an offer
and no session (`WireType`).

Where a proof needed it, a definition has the form a prover can use:
`ForgeriesAreInert` quantifies over enumerations where it could name
`SelectSeq`, a recursion, and the refinement mapping takes calls by their
position.

Model-checked only, since liveness is out of the prover's reach: `Converges`,
`PollsRecur`, `CallsSettle` and `AttemptsEnd`; and, since they are expected to
fail, the statements of documentation above.

## 5. Not modelled, and what is left

- `NostrAuth`: sync, login and provisioning composed, from a publication to a
  session, with revocation end to end. The parts share only the snapshot and the
  configuration object, and each is checked against any value the other may put
  there.
- Proofs: the liveness properties, and that `Merge` returns a newest candidate
  as a fact about every sequence, without reference to how it came about (an
  induction over data, out of the prover's reach; `HasWinner` says it of every
  sequence that arrives).
- Of `nostr.mjs`, all code of the vendored bundle is on line 1, a QR library on
  lines 2 and 3 and licence comments on the rest. Modelled is what the page runs
  of its NIP-46 client and pool; the other protocols of nostr-tools, encodings,
  cryptography and the QR library are third-party code the page only calls as
  functions or not at all.
- `Plugin` and the registrations (no behaviour), key generation (no state),
  cryptography and JSON themselves.
