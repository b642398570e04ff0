--------------------------- MODULE AllowlistMerge ---------------------------
(***************************************************************************)
(* How the candidate events of one poll become one allowlist:              *)
(* AllowlistSync.Merge in src/NostrAuth.Core/Allowlist.cs.                 *)
(*                                                                         *)
(* A key pair is named by its public key.  An entry is a string an author  *)
(* may put in a list; the well formed ones (64 hexadecimal digits) have a  *)
(* lower-case spelling, the user that the entry names.                     *)
(***************************************************************************)
EXTENDS Integers, Sequences

CONSTANTS Keys,         \* key pairs
          Entries,      \* strings found in lists
          WellFormed,   \* the entries that are 64 hexadecimal digits
          Users,        \* user public keys, lower case
          Lower         \* WellFormed -> Users, ToLowerInvariant

ASSUME LowerAssumption ==
  WellFormed \subseteq Entries /\ Lower \in [WellFormed -> Users]

-----------------------------------------------------------------------------
(* Events *)

KindPrivateList == 10000
KindAppData == 30078
NoTime == -1       \* CreatedAt = null: ordered below every time

(* What the content of an event decrypts to for the key it was encrypted   *)
(* to: nothing, the NIP-51 array of tags, the app-data object, or (opaque) *)
(* text of neither shape or no ciphertext at all.                          *)
Forms == {"none", "tagArray", "appData", "opaque"}

(* The verdict of NNostr on an event: "malformed" is an exception out of    *)
(* Verify or TagValue (a signature that is no hex string; null tags, which  *)
(* count as a list's here because TagValue throws before it can compare).   *)
Signatures == {"valid", "forged", "malformed"}

(* sealedTo: the key the author encrypted the content to.  The conversation *)
(* key of NIP-44 comes from the author's secret and that key; a private     *)
(* list is meant to be sealed to its own author, but nothing enforces it.   *)

EventType ==
  [author: Keys, kind: Nat, dTag: BOOLEAN, sig: Signatures,
   createdAt: Nat \cup {NoTime}, form: Forms, sealedTo: Keys,
   entries: SUBSET Entries, pTags: SUBSET Entries]

(* Mutant: spellings are kept *)
SanitizeKeepsCase(es) == es \cap WellFormed

Sanitize(es) == {Lower[e] : e \in es \cap WellFormed}

MatchesListShape(e) ==
  e.kind = KindPrivateList \/ (e.kind = KindAppData /\ e.dTag)

IsCandidateOf(npub, e) == e.author = npub /\ MatchesListShape(e)

(* Mutant: anybody's list *)
AuthoritativeAnyAuthor(npub, e) == MatchesListShape(e) /\ e.sig = "valid"

IsAuthoritative(npub, e) == IsCandidateOf(npub, e) /\ e.sig = "valid"

(* A candidate on which the filter itself throws, and the merge with it. *)
Breaks(npub, e) == IsCandidateOf(npub, e) /\ e.sig = "malformed"

-----------------------------------------------------------------------------
(* Reading one event *)

(* The content decrypts and has a known shape.  Decrypt derives its key     *)
(* from the configured secret and the author's public key: it succeeds if   *)
(* the author encrypted to that secret's key, be it the author's or not.    *)
(* An app-data object without entries counts as unreadable, an empty array  *)
(* of tags does not.                                                        *)
ReadsPrivate(nsec, e) ==
  /\ nsec = e.sealedTo
  /\ e.form = "tagArray" \/ (e.form = "appData" /\ e.entries # {})

(* Mutant: both lists together *)
ReadBoth(nsec, e) ==
  [pubkeys |-> Sanitize(e.pTags \cup
                        (IF ReadsPrivate(nsec, e) THEN e.entries ELSE {})),
   public |-> ~ReadsPrivate(nsec, e) /\ Sanitize(e.pTags) # {}]

Read(nsec, e) ==
  IF ReadsPrivate(nsec, e)
  THEN [pubkeys |-> Sanitize(e.entries), public |-> FALSE]
  ELSE [pubkeys |-> Sanitize(e.pTags), public |-> Sanitize(e.pTags) # {}]

-----------------------------------------------------------------------------
(* Choosing the winner *)

(* Mutants: the oldest, the first to arrive, the last among ties *)
BeatsOldest(cs, i, j) ==
  \/ cs[i].createdAt < cs[j].createdAt
  \/ cs[i].createdAt = cs[j].createdAt /\ i < j
BeatsOnArrival(cs, i, j) == i < j
BeatsLater(cs, i, j) ==
  \/ cs[i].createdAt > cs[j].createdAt
  \/ cs[i].createdAt = cs[j].createdAt /\ i > j

(* OrderByDescending is a stable sort. *)
Beats(cs, i, j) ==
  \/ cs[i].createdAt > cs[j].createdAt
  \/ cs[i].createdAt = cs[j].createdAt /\ i < j

IsWinner(npub, cs, i) ==
  /\ IsAuthoritative(npub, cs[i])
  /\ \A j \in DOMAIN cs : IsAuthoritative(npub, cs[j]) => ~Beats(cs, j, i)

Winners(npub, cs) == {i \in DOMAIN cs : IsWinner(npub, cs, i)}

Winner(npub, cs) == cs[CHOOSE i \in DOMAIN cs : IsWinner(npub, cs, i)]

MergeThrows(npub, cs) == \E i \in DOMAIN cs : Breaks(npub, cs[i])

(* The result of a merge that does not throw. *)
Merge(npub, nsec, cs) ==
  IF Winners(npub, cs) = {}
  THEN [pubkeys |-> {}, public |-> FALSE, createdAt |-> NoTime]
  ELSE LET w == Winner(npub, cs)
       IN  [pubkeys |-> Read(nsec, w).pubkeys, public |-> Read(nsec, w).public,
            createdAt |-> w.createdAt]
=============================================================================
