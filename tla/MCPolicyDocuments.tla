-------------------------- MODULE MCPolicyDocuments --------------------------
(* Two insertions into a document that has one open or closed window in each list,    *)
(* open windows closed at 2, and records made while the workload's            *)
(* image is rotated, one with a token of the old image and one of the new.            *)
EXTENDS PolicyDocuments, MCRecords

CONSTANTS other, k2, spki1, spki2, v1

MCTimes == 0..3
MCRetirements == {2}
Ends == {1, 2, NoEnd}

Voting(binding, from, until) ==
  [binding |-> binding, audience |-> app, from |-> from, until |-> until]
ServerKey(id, purpose, spki, from, until) ==
  [keyId |-> id, purpose |-> purpose, spki |-> spki, from |-> from, until |-> until]

StartDocument ==
  [votingPolicies   |-> <<Voting(MCBinding, 1, 2)>>,
   serverKeys       |-> <<ServerKey(k1, "receipt", spki1, 1, 2),
                          IssuerKey(k0, "eligibility", 0, 2),
                          IssuerKey(k1, "eligibility", 0, NoEnd)>>,
   identityPolicies |-> <<Identity(old, 1, 2)>>]
MCStart == StartDocument

MCVotingPolicies ==
  {Voting(b, from, until) : b \in {MCBinding, other}, from \in 0..2, until \in Ends}
MCServerKeys ==
  {ServerKey(id, "receipt", spki, from, until) :
     id \in {k1, k2}, spki \in {spki1, spki2}, from \in 0..2, until \in Ends}
MCIdentityPolicies ==
  {Identity(image, from, until) : image \in {old, new}, from \in 0..2, until \in Ends}

SoundRecords ==
  {DirectoryRecord(v1, Sound(ann), Token(image, Sound(ann)), Envelope(a, k0, k0),
                   Envelope(Decided(v1, a), k1, k1)) :
     image \in {old, new}, a \in {Asserted(v1, Sound(ann), i, ann, NoEnd) : i \in {old, new}}}
MCRecordSet == SoundRecords
=============================================================================
