------------------------------ MODULE VoteProof ------------------------------
(***************************************************************************)
(* A voter, or anybody else, checks one vote with the offline verifier     *)
(* (packages/verifier: cli.ts, verifier.ts, verifier-v3.ts,                *)
(* tally-checkpoint-v3.ts) while the question log goes on growing.         *)
(*                                                                         *)
(* A run has two stages, as in verifyPublicVoteProofV3.  The bundle stage  *)
(* checks one event and its acceptance, each included under a signed tree  *)
(* head of its own, against the pinned policy.  When everything holds and  *)
(* a tally snapshot was given, the checkpoint stage checks the complete    *)
(* tally material and derives the state of the vote from its replay.       *)
(*                                                                         *)
(* Events, receipts, seals and snapshots carry the times and key names     *)
(* that the policy is consulted for; what they sign is taken to be signed  *)
(* with the key they name.  Every artifact of the log is of one protocol   *)
(* binding, the one that Context stands for.                               *)
(***************************************************************************)
EXTENDS QuestionLog, Attestation

CONSTANTS
  Policy,        \* the pinned policy document
  Audience,      \* vote service audience and origin in the protocol binding
  Origin,
  Manifest,      \* publication time and key of the ballot manifest
  Stamps,        \* the generation times and keys of tally snapshots
  Options,       \* command lines: policy anchored, counted vote required, snapshot given
  WitnessAhead,  \* an observation may be this much ahead of its authorization
  NoSession      \* no run of the verifier yet

ASSUME VoteProofAssumption ==
  /\ PolicyAccepted(Policy)
  /\ Options \subseteq [anchored : BOOLEAN, requireCounted : BOOLEAN, snapshot : BOOLEAN]
  /\ WitnessAhead \in Nat

VARIABLE session   \* the current run: its options, what it has found, its exit code

sessionVars == <<leaves, session>>

-----------------------------------------------------------------------------
(* Trust in one artifact.                                                  *)

\* selectVotingPolicyForBinding, and the comparison of audiences after it.
VotingPolicyAt(time) ==
  LET matches == VotingMatches(Policy, Context, time) IN
  /\ Sole(matches)
  /\ \A i \in matches : Policy.votingPolicies[i].audience = Audience

KeyTrusted(keyId, time) == Sole(KeyMatches(Policy, keyId, "receipt", time))

\* What the issuer signs and hashes: the authorization without its token.
Payload(a) == [field \in DOMAIN a \ {"token"} |-> a[field]]

\* Mutant of Attests: a token issued for another authorization will do.
AttestsAny(p, a) ==
  a.audience = p.audience /\ ClaimsVerify(a.token, a.token.nonce, a.issuedAt, p)

\* verifyQuestionVotingAuthorizationPkiAttestation, under one identity policy.
Attests(p, a) ==
  a.audience = p.audience /\ ClaimsVerify(a.token, Payload(a), a.issuedAt, p)

\* The directory witness that the authorization commits to is of its checkpoint and
\* fresh when the authorization was issued.
WitnessFresh(p, a) ==
  /\ a.witness.checkpoint = a.checkpoint
  /\ a.witness.observedAt <= a.issuedAt + WitnessAhead
  /\ a.issuedAt - a.witness.observedAt <= p.witnessMaxAge

AuthorizationTrusted(a) ==
  LET matches == {i \in IdentityCandidates(Policy, a.token.issuedAt) :
                    Attests(Policy.identityPolicies[i], a)}
  IN  /\ Sole(matches)
      /\ \A i \in matches :
           /\ Policy.identityPolicies[i].origin = Origin
           /\ WitnessFresh(Policy.identityPolicies[i], a)

-----------------------------------------------------------------------------
(* The bundle stage.                                                       *)

\* Mutant of Included: the audit path is not checked against the signed root.
HeadCovers(leaf, artifactTime, head, logId) ==
  head.logId = logId /\ head.seal.issuedAt >= artifactTime /\ head.treeSize > 0

\* verifyTransparencyLink
Included(leaf, artifactTime, head, logId) ==
  /\ head.logId = logId
  /\ head.seal.issuedAt >= artifactTime
  /\ \E i \in 1..head.treeSize : head.root[i] = leaf

\* verifyPublicVoteProofBundleV3Integrity
BundleIntact(b) ==
  /\ AuthorizationBinds(b.event)
  /\ b.event.context = Context
  /\ b.acceptance.event = b.event
  /\ b.acceptance.status = "counted"
  /\ b.acceptance.logId = LogId
  /\ b.event.choice \in CountedChoices \cup {Null}
  /\ b.event.issuedAt >= Manifest.publishedAt
  /\ b.acceptance.receivedAt >= b.event.issuedAt
  /\ Included(EventLeaf(b.event), b.event.issuedAt, b.eventHead, b.acceptance.logId)
  /\ Included(ReceiptLeaf(b.acceptance), b.acceptance.receivedAt, b.acceptanceHead,
              b.acceptance.logId)

\* The checks of verifyPublicVoteProofV3 that follow: attestation, witness, the voting
\* policy at six times, and the four signatures of the service.
BundleTrusted(b) ==
  /\ AuthorizationTrusted(b.event.authorization)
  /\ \A time \in {Manifest.publishedAt, b.event.authorization.issuedAt, b.event.issuedAt,
                  b.acceptance.receivedAt, b.eventHead.seal.issuedAt,
                  b.acceptanceHead.seal.issuedAt} : VotingPolicyAt(time)
  /\ KeyTrusted(Manifest.key, Manifest.publishedAt)
  /\ KeyTrusted(b.acceptance.key, b.acceptance.receivedAt)
  /\ KeyTrusted(b.eventHead.seal.key, b.eventHead.seal.issuedAt)
  /\ KeyTrusted(b.acceptanceHead.seal.key, b.acceptanceHead.seal.issuedAt)

-----------------------------------------------------------------------------
(* The checkpoint stage.                                                   *)

\* verifyTargetIncluded
TargetIncluded(event, acceptance, in) ==
  /\ in.context = event.context
  /\ event.authorization \in in.authorizations
  /\ event \in in.events
  /\ acceptance \in in.receipts

\* verifyQuestionTallyPolicyBindingV3
TallyPolicyBound(in, stamp) ==
  /\ \A time \in {Manifest.publishedAt, stamp.generatedAt, in.head.seal.issuedAt}
                   \cup {a.issuedAt : a \in in.authorizations}
                   \cup {e.issuedAt : e \in in.events}
                   \cup {r.receivedAt : r \in in.receipts} : VotingPolicyAt(time)
  /\ \A r \in in.receipts : r.event \in in.events /\ r.logId = in.logId

\* Mutant of TallyCryptographic: what is not the target's is left unchecked.
TallyStructure(in, stamp, expectedLatest) ==
  /\ SnapshotVerifies(in, expectedLatest)
  /\ KeyTrusted(stamp.key, stamp.generatedAt)
  /\ KeyTrusted(in.head.seal.key, in.head.seal.issuedAt)

\* verifyTallySnapshotCryptographicallyV3
TallyCryptographic(in, stamp, expectedLatest) ==
  /\ SnapshotVerifies(in, expectedLatest)
  /\ KeyTrusted(stamp.key, stamp.generatedAt)
  /\ KeyTrusted(Manifest.key, Manifest.publishedAt)
  /\ KeyTrusted(in.head.seal.key, in.head.seal.issuedAt)
  /\ \A head \in expectedLatest : KeyTrusted(head.seal.key, head.seal.issuedAt)
  /\ \A r \in in.receipts : KeyTrusted(r.key, r.receivedAt)
  /\ \A a \in in.authorizations : AuthorizationTrusted(a)

\* Mutant of StateAtCheckpoint: the counted vote of the nullifier is looked at before
\* the target is compared with the latest event.
StateOfNullifier(event, in) ==
  IF \E v \in AcceptedDirectVotes(in) : v.event.nullifier = event.nullifier THEN "counted"
  ELSE IF IsLatestEvent(ChainOf(in.events, event.nullifier), event) THEN "not_counted"
  ELSE "superseded"

\* deriveVoteStateAtCheckpointV3
StateAtCheckpoint(event, in) ==
  IF ~ IsLatestEvent(ChainOf(in.events, event.nullifier), event) THEN "superseded"
  ELSE IF \E v \in AcceptedDirectVotes(in) : v.event = event THEN "counted"
  ELSE "not_counted"

-----------------------------------------------------------------------------
(* runCli                                                                  *)

\* Mutant of ExitCode: the counted vote is only asked for when there is a checkpoint.
LenientExitCode(valid, state, options) ==
  IF ~ valid THEN 1
  ELSE IF ~ options.anchored THEN 4
  ELSE IF options.requireCounted /\ state \notin {"counted", "unverified"} THEN 3
  ELSE 0

ExitCode(valid, state, options) ==
  IF ~ valid THEN 1
  ELSE IF ~ options.anchored THEN 4
  ELSE IF options.requireCounted /\ state # "counted" THEN 3
  ELSE 0

Pending == -1   \* the run has not ended

SessionInit == leaves = <<>> /\ session = NoSession

LogGrowsMeanwhile == (PublishVoteEvent \/ PublishReceipt) /\ UNCHANGED session

\* Bundles that can be put together from downloads made at any time so far: tree heads
\* of any size, an acceptance of any event.
Bundles ==
  LET Heads == {HeadAt(n, seal) : n \in 0..Len(leaves), seal \in Seals} IN
  [event : Events, acceptance : {r \in Receipts : r.schema = "acceptance"},
   eventHead : Heads, acceptanceHead : Heads]

\* What a run has found: no event yet stands for a bundle that failed.
Found(options, event, acceptance, valid, state, size) ==
  [options |-> options, event |-> event, acceptance |-> acceptance,
   valid |-> valid, state |-> state, size |-> size,
   exit |-> ExitCode(valid, state, options)]

Rejected(options) == Found(options, Null, Null, FALSE, "unverified", 0)

BundleValid(b) == BundleIntact(b) /\ BundleTrusted(b)

\* The bundle stage: without a snapshot, or when a check failed, the run ends here.
VerifyBundle ==
  /\ session = NoSession
  /\ LET valid == {b \in Bundles : BundleValid(b)} IN
     \/ /\ valid # Bundles
        /\ \E options \in Options : session' = Rejected(options)
     \/ \E options \in Options, b \in valid :
          LET found == Found(options, b.event, b.acceptance, TRUE, "unverified", 0)
          IN  session' = IF options.snapshot THEN [found EXCEPT !.exit = Pending] ELSE found
  /\ UNCHANGED leaves

\* The checkpoint stage, with or without an independently obtained latest head.
VerifyCheckpoint ==
  /\ session # NoSession /\ session.exit = Pending
  /\ \E n \in 0..Len(leaves), seal \in Seals, stamp \in Stamps :
     \E in \in Offers(n, seal) :
     \E expectedLatest \in {{}, {HeadAt(Len(leaves), seal)}} :
       LET valid == /\ TargetIncluded(session.event, session.acceptance, in)
                    /\ TallyPolicyBound(in, stamp)
                    /\ TallyCryptographic(in, stamp, expectedLatest)
       IN  session' =
             IF valid
             THEN Found(session.options, session.event, session.acceptance, TRUE,
                        StateAtCheckpoint(session.event, in), n)
             ELSE Rejected(session.options)
  /\ UNCHANGED leaves

SessionNext == LogGrowsMeanwhile \/ VerifyBundle \/ VerifyCheckpoint

SessionSpec == SessionInit /\ [][SessionNext]_sessionVars

-----------------------------------------------------------------------------
(* Properties.                                                             *)

AtCheckpoint == session # NoSession /\ session.state # "unverified"

\* The state reported for a vote is the one that the hash links of the log give it at
\* the checkpoint: counted if its event and its last decision are tips and count,
\* superseded if another event continues it, whatever the material and the mixture of
\* old and new downloads it was derived from.
StateMatchesLog ==
  AtCheckpoint =>
    LET log == Prefix(session.size) IN
    /\ session.event \in LoggedEvents(log)
    /\ session.state = "superseded" <=> session.event \in Superseded(log)
    /\ session.state = "counted" <=> \E v \in TipVotes(log) : v.event = session.event

\* An event of its authorization, signed while that was valid.  The authorization was
\* attested, by a token made for it and for no other, by a workload that some entry of the
\* policy pins for that time, and saw a fresh witness of its directory checkpoint.
SoundBallot(e) ==
  LET a == e.authorization
      t == a.token
  IN  /\ e.context = a.context /\ e.nullifier = a.nullifier /\ e.key = a.key
      /\ a.issuedAt <= e.issuedAt /\ e.issuedAt < a.expiresAt
      /\ t.genuine /\ t.nonce = Payload(a)
      /\ t.issuedAt >= a.issuedAt - TokenEarly /\ t.issuedAt <= a.issuedAt + TokenLate
      /\ a.witness.checkpoint = a.checkpoint
      /\ \E w \in Elements(Policy.identityPolicies) :
           /\ w.from <= t.issuedAt /\ (w.until = NoEnd \/ t.issuedAt < w.until)
           /\ w.origin = Origin /\ w.audience = a.audience /\ w.audience = t.audience
           /\ w.image = t.image /\ w.account = t.account /\ EnvironmentOK(t, w.environment)
           /\ a.witness.observedAt <= a.issuedAt + WitnessAhead
           /\ a.issuedAt - a.witness.observedAt <= w.witnessMaxAge

\* A receipt of the question, signed with a receipt key at a time for which the policy
\* pins this key and this voting service.
SoundReceipt(r) ==
  LET Holds(w) == w.from <= r.receivedAt /\ (w.until = NoEnd \/ r.receivedAt < w.until)
  IN  /\ r.logId = LogId
      /\ \E w \in Elements(Policy.serverKeys) :
           Holds(w) /\ w.keyId = r.key /\ w.purpose = "receipt"
      /\ \E w \in Elements(Policy.votingPolicies) :
           Holds(w) /\ w.binding = Context /\ w.audience = Audience

\* "A valid target proof cannot hide an invalid non-target ballot"
\* (docs/verification.md): when a checkpoint verifies, every event and every receipt in
\* its log prefix is sound, the ones of other voters and those left out of the material
\* included.
NoInvalidBallotHidden ==
  AtCheckpoint =>
    /\ \A e \in LoggedEvents(Prefix(session.size)) : SoundBallot(e)
    /\ \A r \in LoggedReceipts(Prefix(session.size)) : SoundReceipt(r)

\* A run that ends with exit code 0 while a counted vote was required has an anchored
\* policy and an event that counts in the log at a checkpoint without forks: an initial
\* acceptance is not enough, however valid the bundle.
ExitZeroMeansCounted ==
  session # NoSession /\ session.exit = 0 /\ session.options.requireCounted =>
    /\ session.options.anchored
    /\ ~ Forked(Prefix(session.size))
    /\ \E v \in TipVotes(Prefix(session.size)) : v.event = session.event

\* A bundle that verifies shows an event and an acceptance that are both in the log,
\* under heads that were signed at different times.
ValidBundleIsLogged ==
  session # NoSession /\ session.valid =>
    /\ session.event \in LoggedEvents(leaves)
    /\ session.acceptance \in LoggedReceipts(leaves)
    /\ session.acceptance.event = session.event
=============================================================================
