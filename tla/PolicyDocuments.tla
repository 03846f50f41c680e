--------------------------- MODULE PolicyDocuments ---------------------------
(***************************************************************************)
(* The policy documents a deployment may publish.  The document is edited  *)
(* by hand, outside this repository, as workloads and keys rotate: entries *)
(* are inserted anywhere in its lists, or end where they were open, and    *)
(* the parser reads what results.  Directory records that were made before *)
(* are verified under every document.                                      *)
(***************************************************************************)
EXTENDS EligibilityRecord

CONSTANTS
  Start,           \* the document before its rotations
  VotingPolicies,  \* the entries that may be inserted
  ServerKeys,
  IdentityPolicies,
  MaxInsertions,   \* bound on the number of edits
  Retirements,     \* the times at which windows may be closed
  Times,           \* the times that artifacts carry
  Records          \* directory records that exist already

\* The fields of the entries of each list.
Fields(list) ==
  {"from", "until"} \cup
    (CASE list = "votingPolicies" -> {"binding", "audience"}
       [] list = "serverKeys" -> {"keyId", "purpose", "spki"}
       [] list = "identityPolicies" ->
            {"image", "account", "environment", "audience", "origin", "witnessMaxAge"})

EntryOK(list, w) ==
  /\ w = [field \in Fields(list) |-> w[field]]
  /\ w.from \in Times /\ w.until \in Int \cup {NoEnd}

Universe(list) ==
  CASE list = "votingPolicies" -> VotingPolicies
    [] list = "serverKeys" -> ServerKeys
    [] list = "identityPolicies" -> IdentityPolicies

ASSUME DocumentsAssumption ==
  /\ Times \subseteq Int /\ Retirements \subseteq Int /\ MaxInsertions \in Nat
  /\ Start = [list \in Lists |-> Start[list]]
  /\ \A list \in Lists :
       /\ Start[list] \in Seq(Elements(Start[list])) /\ Len(Start[list]) >= 1
       /\ \A w \in Elements(Start[list]) \cup Universe(list) : EntryOK(list, w)
  /\ \A r \in Records :
       {r.assertion.payload.issuedAt, r.decision.payload.effectiveAt,
        r.registration.token.issuedAt} \subseteq Int

VARIABLE document

Entries(p) == Len(p.votingPolicies) + Len(p.serverKeys) + Len(p.identityPolicies)

\* A list with a new entry at place i.
Inserted(list, i, entry) ==
  SubSeq(list, 1, i - 1) \o <<entry>> \o SubSeq(list, i, Len(list))

Insert(list) ==
  /\ Entries(document) < Entries(Start) + MaxInsertions
  /\ \E entry \in Universe(list), i \in 1..Len(document[list]) + 1 :
       document' = [document EXCEPT ![list] = Inserted(document[list], i, entry)]

InitDocument == document = Start

AddVotingPolicy == Insert("votingPolicies")
AddServerKey == Insert("serverKeys")
AddIdentityPolicy == Insert("identityPolicies")

\* An open window is given an end: a key, an image or a voting policy is retired.
CloseWindow ==
  \E list \in Lists, time \in Retirements : \E i \in DOMAIN document[list] :
    /\ document[list][i].until = NoEnd
    /\ document' = [document EXCEPT ![list][i].until = time]

EditDocument == AddVotingPolicy \/ AddServerKey \/ AddIdentityPolicy \/ CloseWindow

DocumentSpec == InitDocument /\ [][EditDocument]_document

-----------------------------------------------------------------------------
(* Properties.                                                             *)

AtMostOne(S) == \A x, y \in S : x = y

\* In an accepted document no time has two voting policies for one binding, two server
\* keys for one identifier and purpose, or two identity policies for one image, though the
\* parser compares neighbours only: the ambiguous outcomes of selectVotingPolicyForBinding
\* and selectServerKey cannot occur, and a token, of one image, has one policy at most.
SelectionUnambiguous ==
  PolicyAccepted(document) =>
    \A time \in Times :
      /\ \A w \in Elements(document.votingPolicies) :
           AtMostOne(VotingMatches(document, w.binding, time))
      /\ \A k \in Elements(document.serverKeys) :
           AtMostOne(KeyMatches(document, k.keyId, k.purpose, time))
      /\ \A i, j \in IdentityCandidates(document, time) :
           document.identityPolicies[i].image = document.identityPolicies[j].image => i = j

\* The parser refuses nothing but what could be ambiguous or empty: a document with a
\* key of each purpose, sound windows, no key identifier with two keys and no ambiguous time
\* is accepted, so a rotation that hands over at one instant is never refused.
SoundDocumentsAccepted ==
  /\ \A purpose \in {"eligibility", "receipt"} :
       \E k \in Elements(document.serverKeys) : k.purpose = purpose
  /\ \A list \in Lists :
       \A w \in Elements(document[list]) : WindowOK(w)
  /\ \A k, l \in Elements(document.serverKeys) :
       k.purpose = l.purpose /\ k.keyId = l.keyId => k.spki = l.spki
  /\ \A time \in Times :
       /\ \A w \in Elements(document.votingPolicies) :
            AtMostOne(VotingMatches(document, w.binding, time))
       /\ \A k \in Elements(document.serverKeys) :
            AtMostOne(KeyMatches(document, k.keyId, k.purpose, time))
       /\ \A i, j \in IdentityCandidates(document, time) :
            document.identityPolicies[i].image = document.identityPolicies[j].image => i = j
  => PolicyAccepted(document)

\* What the entries of the document say at a time, but for when they end.
InForce(list, time) ==
  {[w EXCEPT !.until = NoEnd] : w \in {v \in Elements(document[list]) : ContainsTime(v, time)}}

TimesOf(r, time) ==
  {r.assertion.payload.issuedAt, r.decision.payload.effectiveAt,
   r.registration.token.issuedAt, time}

\* The record verifies in every respect at a checkpoint of the time.
Verifies(r, time) ==
  /\ PolicyAccepted(document)
  /\ RecordIntact(r)
  /\ ChainHolds(document, Expected, Expected.binding, time, r)
  /\ RecordAttested(document, r) /\ RecordPasskeyBound(document, r)

\* "A later verifier image or environment change therefore cannot reinterpret an older
\* identity proof" (the comment before IdentityAttestationPolicyV3): a record that verifies goes
\* on verifying under every edited document that still says at the times of the record what
\* it said there before, however many keys, images and policies it adds or retires.
OldRecordsKeepTheirMeaning ==
  [][\A r \in Records, time \in Times :
       /\ Verifies(r, time) /\ PolicyAccepted(document)'
       /\ \A list \in Lists, at \in TimesOf(r, time) :
            InForce(list, at) \subseteq InForce(list, at)'
       => Verifies(r, time)']_document
=============================================================================
