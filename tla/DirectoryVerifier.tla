-------------------------- MODULE DirectoryVerifier --------------------------
(***************************************************************************)
(* Verification of the active eligibility directory                        *)
(* (packages/verifier/src/eligibility-directory-v3.ts) while the directory *)
(* goes on publishing checkpoints.                                         *)
(*                                                                         *)
(* The publisher, outside this repository, may drop or add records, leave  *)
(* an expired one in, and sign two checkpoints of one sequence number.  A  *)
(* witness shows the caller one of the newest checkpoints.  A call goes    *)
(* through the records one at a time and yields to the event loop between  *)
(* them.  The attestation of a record is checked by a promise that nothing *)
(* awaits (line 315): when it rejects, the host of the program sees an     *)
(* unhandled rejection, which ends the process unless the host has a       *)
(* handler for it.  The promise settles before the event loop is reached   *)
(* again, and so does the answer to a call on its last record.             *)
(*                                                                         *)
(* Directory and instance of a checkpoint are the expected ones.  A record *)
(* is known by its hash; EligibilityRecord.tla has what the verifier asks  *)
(* of its body.  A Merkle root is the set of hashes below it               *)
(* (MerkleTree.tla looks into paths).                                      *)
(***************************************************************************)
EXTENDS EligibilityRecord

CONSTANTS
  Body,            \* Body[h]: the record whose hash is h
  SoundRecords,    \* those that the builders made of one registration, in order
  Pools,           \* sets of records: the directory draws from one of them
  Policy,          \* the pinned policy document
  Key,             \* the directory's signing key
  MaxSequence,     \* bound on the sequence number of checkpoints
  MaxPublished,    \* bound on the number of checkpoints
  NoHead, NoCall, NoAnswer

\* What is signed as a checkpoint: which records, in which place and when.
Checkpoint ==
  [sequence : 1..MaxSequence, members : SUBSET DOMAIN Body, issuedAt : 1..MaxSequence]

\* The policy has the eligibility key, or the voting policy of the expected binding, in
\* force at the time.
HasKey(keyId, spki, time) ==
  \E k \in Elements(Policy.serverKeys) :
    /\ k.purpose = "eligibility" /\ k.keyId = keyId /\ k.spki = spki
    /\ ContainsTime(k, time)

HasVotingPolicy(time) ==
  \E w \in Elements(Policy.votingPolicies) :
    w.binding = Expected.binding /\ ContainsTime(w, time)

\* The record was made of one registration by the builders, in order: the assertion of the
\* receipt, the decision on the assertion, each signed with a key then in force, for one
\* person, whose passkey was used at the origin of a pinned policy of the token's workload.
MadeTogether(r) ==
  LET receipt == r.registration.payload
      token   == r.registration.token
      a       == r.assertion.payload
      d       == r.decision.payload
  IN  /\ r = DirectoryRecord(r.voter, receipt, token,
                             Envelope(a, r.assertion.keyId, r.assertion.signedBy),
                             Envelope(d, r.decision.keyId, r.decision.signedBy))
      /\ a = EligibilityAssertion(r.voter, Expected.binding, receipt, a.identityPolicy,
                                  a.evidence, Expected.terms, a, r.assertion.keyId)
      /\ d = [voter |-> r.voter, assertion |-> a, status |-> "active", sequence |-> 1,
              previous |-> Null, effectiveAt |-> d.effectiveAt, issuer |-> r.decision.keyId]
      /\ {a.issuedAt, d.effectiveAt, token.issuedAt} \subseteq Int
      /\ a.expiresAt # NoEnd => a.notBefore < a.expiresAt
      /\ HasKey(r.assertion.keyId, r.assertion.signedBy, a.issuedAt)
      /\ HasKey(r.decision.keyId, r.decision.signedBy, d.effectiveAt)
      /\ HasVotingPolicy(a.issuedAt)
      /\ ReceiptWellFormed(receipt)
      /\ Normalized(receipt.email) = Normalized(a.evidence.email)
      /\ Normalized(receipt.name) = Normalized(a.evidence.name)
      /\ DOMAIN a.identityPolicy.environment # {}
      /\ \E p \in Elements(Policy.identityPolicies) :
           /\ ContainsTime(p, token.issuedAt)
           /\ PoliciesMatch(p, a.identityPolicy)
           /\ PasskeyBound(receipt, p)

ASSUME SoundRecordsAssumption ==
  /\ Readable(Policy)
  /\ \E spki \in {k.spki : k \in Elements(Policy.serverKeys)} : HasKey(Key, spki, 1)
  /\ HasVotingPolicy(1)
  /\ SoundRecords \subseteq DOMAIN Body
  /\ \A h \in SoundRecords : MadeTogether(Body[h])

ASSUME DirectoryAssumption ==
  /\ PolicyAccepted(Policy)
  /\ NoHead \notin Checkpoint
  /\ Pools \subseteq SUBSET DOMAIN Body
  /\ MaxSequence \in Nat /\ MaxPublished \in Nat

VARIABLES
  pool,       \* the records that there are
  published,  \* the signed checkpoints
  witnessed,  \* the caller's independently witnessed current head
  call,       \* the call under way
  answer,     \* the last answer given to the caller
  rejection,  \* a promise was rejected and nobody handled it
  process     \* "running", or "exited" after an unhandled rejection

vars == <<pool, published, witnessed, call, answer, rejection, process>>

Init ==
  /\ pool \in Pools
  /\ published = {}
  /\ witnessed = NoHead
  /\ call = NoCall
  /\ answer = NoAnswer
  /\ rejection = FALSE
  /\ process = "running"

-----------------------------------------------------------------------------
(* The checks.                                                             *)

\* The directory's key, in force at the time.
KeyTrusted(time) == Sole(KeyMatches(Policy, Key, "eligibility", time))

\* Mutant of IsWitnessedHead: only the sequence number is compared.
HasWitnessedSequence(head, checkpoint) == head.sequence = checkpoint.sequence

IsWitnessedHead(head, checkpoint) == head = checkpoint

\* verifyCheckpoint; heads holds the caller's witnessed head, if it passed one.
CheckpointOK(checkpoint, heads) ==
  /\ KeyTrusted(checkpoint.issuedAt)
  /\ \A head \in heads : IsWitnessedHead(head, checkpoint)

\* Mutant of CompleteList: a body for every leaf, but extra bodies are admitted.
NothingMissing(checkpoint, records) ==
  checkpoint.members \subseteq records /\ \A h \in records : RecordIntact(Body[h])

\* verifyActiveEligibilityDirectoryBundleIntegrityV3: same size, same root.
CompleteList(checkpoint, records) ==
  records = checkpoint.members /\ \A h \in records : RecordIntact(Body[h])

Answer(c, ok) ==
  [ok |-> ok, current |-> ok /\ c.heads # {}, checkpoint |-> c.checkpoint,
   records |-> c.records, whole |-> c.whole]

-----------------------------------------------------------------------------
(* The publisher and its witness.                                          *)

\* buildActiveEligibilityDirectoryLeavesV3: no voter twice.
OnePerVoter(records) == \A g, h \in records : Body[g].voter = Body[h].voter => g = h

Newest(c) == \A d \in published : d.sequence <= c.sequence

Publish ==
  /\ Cardinality(published) < MaxPublished
  /\ \E members \in SUBSET pool, sequence \in 1..MaxSequence :
       /\ OnePerVoter(members)
       /\ \A c \in published : c.sequence <= sequence
       /\ sequence > 1 => \E c \in published : c.sequence >= sequence - 1
       /\ published' = published \cup {[sequence |-> sequence, members |-> members,
                                        issuedAt |-> sequence]}
  /\ UNCHANGED <<pool, witnessed, call, answer, rejection, process>>

Witness ==
  /\ \E c \in published :
       /\ Newest(c)
       /\ witnessed # NoHead => witnessed.sequence < c.sequence
       /\ witnessed' = c
  /\ UNCHANGED <<pool, published, call, answer, rejection, process>>

-----------------------------------------------------------------------------
(* Calls.                                                                  *)

\* Begin the call c, or answer it at once when there is no record to go through.
Begin(c, integrity) ==
  IF ~ integrity
  THEN answer' = Answer(c, FALSE) /\ call' = NoCall
  ELSE IF c.records = {}
  THEN answer' = Answer(c, CheckpointOK(c.checkpoint, c.heads)) /\ call' = NoCall
  ELSE call' = c /\ UNCHANGED answer

Call(checkpoint, records, heads, whole) ==
  [checkpoint |-> checkpoint, records |-> records, heads |-> heads, whole |-> whole,
   remaining |-> records, ok |-> TRUE]

Ready == process = "running" /\ ~ rejection /\ call = NoCall

PassedHeads == {{}} \cup {{h} : h \in {witnessed} \ {NoHead}}

\* verifyActiveEligibilityDirectoryBundleV3, with a list from any checkpoint's time.
CallBundle ==
  /\ Ready
  /\ \E checkpoint \in published, records \in SUBSET pool, heads \in PassedHeads :
       /\ OnePerVoter(records)
       /\ Begin(Call(checkpoint, records, heads, TRUE), CompleteList(checkpoint, records))
  /\ UNCHANGED <<pool, published, witnessed, rejection, process>>

\* verifyActiveEligibilityDirectoryRecordV3: one record and its inclusion proof.
CallRecord ==
  /\ Ready
  /\ \E checkpoint \in published, h \in pool, heads \in PassedHeads :
       Begin(Call(checkpoint, {h}, heads, FALSE),
             h \in checkpoint.members /\ RecordIntact(Body[h]))
  /\ UNCHANGED <<pool, published, witnessed, rejection, process>>

\* One turn of the loop: verifyCheckpointAndRecord, and the answer after the last one.
VerifyRecord ==
  /\ process = "running" /\ ~ rejection /\ call # NoCall
  /\ \E h \in call.remaining :
       LET started == ChainHolds(Policy, Expected, Expected.binding,
                                 call.checkpoint.issuedAt, Body[h])
           ok      == /\ call.ok
                      /\ CheckpointOK(call.checkpoint, call.heads)
                      /\ started /\ RecordPasskeyBound(Policy, Body[h])
           last    == call.remaining = {h}
       IN  /\ rejection' = (started /\ ~ RecordAttested(Policy, Body[h]))
           /\ call' = IF last THEN NoCall
                      ELSE [call EXCEPT !.remaining = @ \ {h}, !.ok = ok]
           /\ answer' = IF last THEN Answer(call, ok) ELSE answer
  /\ UNCHANGED <<pool, published, witnessed, process>>

\* The event loop finds the rejection before anything else goes on.
HostHandlesRejection ==
  /\ process = "running" /\ rejection
  /\ rejection' = FALSE
  /\ UNCHANGED <<pool, published, witnessed, call, answer, process>>

HostExits ==
  /\ process = "running" /\ rejection
  /\ process' = "exited"
  /\ call' = NoCall
  /\ rejection' = FALSE
  /\ UNCHANGED <<pool, published, witnessed, answer>>

Next ==
  \/ Publish \/ Witness
  \/ CallBundle \/ CallRecord \/ VerifyRecord
  \/ HostHandlesRejection \/ HostExits

Spec == Init /\ [][Next]_vars

-----------------------------------------------------------------------------
(* Properties.                                                             *)

Accepted == answer # NoAnswer /\ answer.ok

\* A list that is accepted as current is the list of the witnessed head as it was passed
\* in, or of one that the witness has left behind since: a publisher that signs two
\* checkpoints of one number cannot have the other one accepted, nor an older one.
CurrentListIsWitnessed ==
  Accepted /\ answer.current =>
    /\ witnessed # NoHead
    /\ answer.checkpoint.sequence <= witnessed.sequence
    /\ answer.checkpoint.sequence = witnessed.sequence =>
         /\ answer.records \subseteq witnessed.members
         /\ answer.whole => answer.records = witnessed.members

\* A list that is accepted leaves nobody out, adds nobody, and has nobody in it who
\* was not yet or no longer active, even when the checkpoint itself commits to such a record.
AcceptedListIsExact ==
  Accepted =>
    /\ answer.whole => answer.records = answer.checkpoint.members
    /\ answer.records \subseteq answer.checkpoint.members
    /\ \A h \in answer.records :
         LET a == Body[h].assertion.payload IN
         /\ a.notBefore <= answer.checkpoint.issuedAt
         /\ a.expiresAt # NoEnd => answer.checkpoint.issuedAt < a.expiresAt

\* A list or record that the builders made out of what belongs together is accepted from
\* the first checkpoint on, as long as everybody in it is active: whichever key and image
\* were in force when its parts were made, and though the authenticator reports no user.
SoundRecordsAccepted ==
  /\ answer # NoAnswer /\ Cardinality(published) = 1
  /\ answer.records \subseteq SoundRecords \cap answer.checkpoint.members
  /\ answer.whole => answer.records = answer.checkpoint.members
  /\ \A h \in answer.records :
       LET a == Body[h].assertion.payload IN
       /\ a.notBefore <= answer.checkpoint.issuedAt
       /\ Body[h].decision.payload.effectiveAt <= answer.checkpoint.issuedAt
       /\ a.expiresAt # NoEnd => answer.checkpoint.issuedAt < a.expiresAt
  => answer.ok

\* The parts of an accepted record belong together, whoever put them together: the voter
\* whom the decision made active is the one whose assertion the directory's issuer signed,
\* the registry evidence is of the person in the receipt, and the root key is the passkey
\* that this person registered and used, present and verified, at the origin of one pinned
\* identity policy that was in force when the token was issued and that the issuer signed.
AcceptedRecordsBelongTogether ==
  Accepted => \A h \in answer.records :
    LET r       == Body[h]
        a       == r.assertion.payload
        receipt == r.registration.payload
        made    == receipt.passkey.registration
        used    == receipt.passkey.proof
    IN  /\ r.decision.payload.assertion = a /\ r.decision.payload.voter = a.voter
        /\ a.identityProof = receipt /\ a.evidence.subject = a.subject
        /\ Normalized(receipt.email) = Normalized(a.evidence.email)
        /\ Normalized(receipt.name) = Normalized(a.evidence.name)
        /\ made.authenticator.credential = a.rootKey.credential
        /\ made.authenticator.key = a.rootKey.key
        /\ used.signedBy = a.rootKey.key
        /\ \E p \in Elements(Policy.identityPolicies) :
             /\ ContainsTime(p, r.registration.token.issuedAt)
             /\ p.image = a.identityPolicy.image
             /\ p.environment = a.identityPolicy.environment
             /\ \A ceremony \in {made, used} :
                  /\ ceremony.client.origin = p.origin
                  /\ ceremony.authenticator.rp = p.origin
                  /\ {"present", "verified"} \subseteq ceremony.authenticator.flags

\* "verifies a registration receipt, Confidential Space attestation, ..."
\* (packages/verifier/README.md): an accepted record has a valid attestation.
AcceptedRecordsAreAttested ==
  Accepted => \A h \in answer.records : RecordAttested(Policy, Body[h])
=============================================================================
