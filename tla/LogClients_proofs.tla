-------------------------- MODULE LogClients_proofs --------------------------
(* Proofs about the two clients of a question log, each a module of its own: the   *)
(* auditor of tallies (TallyAudit: Spec, with TypeOK) and the offline verifier of  *)
(* one vote (VoteProof: SessionSpec, with SessionTypeOK).  Both rest on what       *)
(* QuestionLog_proofs shows of one replay, for every log and set of artifacts.     *)
EXTENDS TallyAudit, VoteProof, QuestionLog_proofs, FiniteSetTheorems

-------------------------------------------------------------------------------
(* The auditor.                                                                   *)

\* Every variable has its type in every reachable state.
THEOREM TypeCorrect == Spec => []TypeOK
<1>1. Init => TypeOK
  BY DEF Init, TypeOK
<1>2. TypeOK /\ [Next]_vars => TypeOK'
  <2> SUFFICES ASSUME TypeOK, [Next]_vars
               PROVE  TypeOK'
    OBVIOUS
  <2>1. ASSUME NEW leaf \in Leaves, Publish(leaf), UNCHANGED <<witnessed, report>>
        PROVE  TypeOK'
    <3>1. leaves' \in Seq(Leaves) /\ Len(leaves') = Len(leaves) + 1
      BY <2>1 DEF Publish, TypeOK
    <3>2. witnessed' = witnessed /\ report' = report /\ Len(leaves) \in Nat
      BY <2>1 DEF TypeOK
    <3> QED BY <3>1, <3>2 DEF TypeOK
  <2>2. CASE WitnessLatestHead
    <3>1. PICK seal \in Seals : witnessed' = [size |-> Len(leaves), seal |-> seal]
      BY <2>2 DEF WitnessLatestHead
    <3>2. Len(leaves) \in Nat /\ leaves' = leaves /\ report' = report
      BY <2>2 DEF WitnessLatestHead, TypeOK
    <3> QED BY <3>1, <3>2 DEF TypeOK
  <2>3. CASE VerifySnapshot
    <3>1. PICK n \in 0..Len(leaves), seal \in Seals : \E in \in Offers(n, seal) :
                 /\ report' = [size |-> n, votes |-> AcceptedDirectVotes(in)]
                 /\ UNCHANGED <<leaves, witnessed>>
      BY <2>3 DEF VerifySnapshot
    <3>2. PICK in \in Offers(n, seal) :
                 /\ report' = [size |-> n, votes |-> AcceptedDirectVotes(in)]
                 /\ UNCHANGED <<leaves, witnessed>>
      BY <3>1
    <3>3. in.events \subseteq Events /\ in.receipts \subseteq Receipts
      BY OfferForm DEF TypeOK, Material
    <3>4. AcceptedDirectVotes(in) \subseteq Vote
      BY <3>3 DEF AcceptedDirectVotes, Vote
    <3> QED BY <3>2, <3>4 DEF TypeOK
  <2>4. CASE UNCHANGED vars
    BY <2>4 DEF vars, TypeOK
  <2>5. \A e \in Events : EventLeaf(e) \in Leaves
    BY DEF Leaves
  <2>6. \A r \in Receipts : ReceiptLeaf(r) \in Leaves
    BY DEF Leaves
  <2> QED
    BY <2>1, <2>2, <2>3, <2>4, <2>5, <2>6 DEF Next, LogGrows, PublishVoteEvent, PublishReceipt
<1> QED BY <1>1, <1>2, PTL DEF Spec

\* What a verified snapshot tells the auditor.
LEMMA VerifiedReport ==
  ASSUME TypeOK, VerifySnapshot
  PROVE  \E n \in 0..Len(leaves) :
           /\ report' = [size |-> n, votes |-> TipVotes(Prefix(n))]
           /\ ~ Forked(Prefix(n)) /\ ~ Incomplete(Prefix(n))
           /\ witnessed # NoHead => n = witnessed.size
           /\ UNCHANGED <<leaves, witnessed>>
<1>1. PICK n \in 0..Len(leaves), seal \in Seals : \E in \in Offers(n, seal) :
             /\ SnapshotVerifies(in, ExpectedLatest)
             /\ report' = [size |-> n, votes |-> AcceptedDirectVotes(in)]
             /\ UNCHANGED <<leaves, witnessed>>
  BY DEF VerifySnapshot
<1>2. PICK in \in Offers(n, seal) :
             /\ SnapshotVerifies(in, ExpectedLatest)
             /\ report' = [size |-> n, votes |-> AcceptedDirectVotes(in)]
             /\ UNCHANGED <<leaves, witnessed>>
  BY <1>1
<1>3. Material(in) /\ in.head = HeadAt(n, seal)
  BY OfferForm DEF TypeOK
<1>4. ReplayGraphOK(in)
  BY <1>2 DEF SnapshotVerifies
<1>5. in.checkpoint = HeadAt(n, seal)
  BY <1>3, <1>4 DEF ReplayGraphOK
<1>6. in.leaves = Prefix(n)
  BY <1>4, <1>5 DEF ReplayGraphOK, LogPrefixOK, HeadAt, TreeHead
<1>7. ASSUME witnessed # NoHead
      PROVE  n = witnessed.size
  <2>1. HeadAt(witnessed.size, witnessed.seal) = HeadAt(n, seal)
    BY <1>2, <1>5, <1>7 DEF SnapshotVerifies, ExpectedLatest
  <2>2. Len(Prefix(witnessed.size)) = Len(Prefix(n))
    BY <2>1 DEF HeadAt, TreeHead
  <2>3. witnessed.size \in 0..Len(leaves) /\ leaves \in Seq(Leaves)
    BY <1>7 DEF TypeOK
  <2>4. Len(SubSeq(leaves, 1, witnessed.size)) = witnessed.size /\ Len(SubSeq(leaves, 1, n)) = n
    BY <2>3, SubSeqProperties
  <2> QED BY <2>2, <2>4 DEF Prefix
<1> QED
  BY <1>2, <1>3, <1>4, <1>6, <1>7, ReplaySelectsTips, ReplayCoversSoundPrefix

\* The inductive invariant: the report is right for its prefix of the log now, whatever
\* was appended since, and is within what the auditor's witness has shown.
ReportSound ==
  TypeOK /\ ReportIsTipVotes /\ ReportCoversSoundPrefix /\ ReportWithinWitness

\* Every step keeps the invariant.
LEMMA ReportSoundInductive == ReportSound /\ TypeOK' /\ [Next]_vars => ReportSound'
<1> SUFFICES ASSUME ReportSound, TypeOK', [Next]_vars
             PROVE  ReportSound'
  OBVIOUS
<1>1. ASSUME NEW leaf \in Leaves, Publish(leaf), UNCHANGED <<witnessed, report>>
      PROVE  ReportSound'
  <2>1. report' = report /\ witnessed' = witnessed
    BY <1>1
  <2>2. report # NoReport => Prefix(report.size)' = Prefix(report.size)
    BY <1>1, <2>1, PrefixKept DEF Publish, ReportSound, TypeOK
  <2> QED
    BY <2>1, <2>2 DEF ReportSound, ReportIsTipVotes, ReportCoversSoundPrefix,
                      ReportWithinWitness
<1>2. CASE WitnessLatestHead
  <2>1. report' = report /\ leaves' = leaves /\ witnessed'.size = Len(leaves)
    BY <1>2 DEF WitnessLatestHead
  <2>2. report # NoReport => report.size <= Len(leaves)
    BY DEF ReportSound, TypeOK
  <2> QED
    BY <2>1, <2>2 DEF ReportSound, ReportIsTipVotes, ReportCoversSoundPrefix,
                      ReportWithinWitness, Prefix
<1>3. CASE VerifySnapshot
  <2>1. PICK n \in 0..Len(leaves) :
           /\ report' = [size |-> n, votes |-> TipVotes(Prefix(n))]
           /\ ~ Forked(Prefix(n)) /\ ~ Incomplete(Prefix(n))
           /\ witnessed # NoHead => n = witnessed.size
           /\ UNCHANGED <<leaves, witnessed>>
    BY <1>3, VerifiedReport DEF ReportSound
  <2>2. report'.size = n /\ report'.votes = TipVotes(Prefix(n))
    BY <2>1
  <2>3. Prefix(n)' = Prefix(n)
    BY <2>1 DEF Prefix
  <2>4. ReportWithinWitness'
    BY <2>1, <2>2 DEF ReportWithinWitness
  <2>5. ReportIsTipVotes' /\ ReportCoversSoundPrefix'
    BY <2>1, <2>2, <2>3 DEF ReportIsTipVotes, ReportCoversSoundPrefix
  <2> QED BY <2>4, <2>5 DEF ReportSound
<1>4. CASE UNCHANGED vars
  BY <1>4 DEF vars, ReportSound, ReportIsTipVotes, ReportCoversSoundPrefix,
              ReportWithinWitness, Prefix
<1>5. \A e \in Events : EventLeaf(e) \in Leaves
  BY DEF Leaves
<1>6. \A r \in Receipts : ReceiptLeaf(r) \in Leaves
  BY DEF Leaves
<1> QED
  BY <1>1, <1>2, <1>3, <1>4, <1>5, <1>6 DEF Next, LogGrows, PublishVoteEvent, PublishReceipt

\* The invariant holds in every reachable state.
LEMMA ReportAlwaysSound == Spec => []ReportSound
<1>1. Init /\ TypeOK => ReportSound
  BY DEF Init, ReportSound, ReportIsTipVotes, ReportCoversSoundPrefix,
         ReportWithinWitness
<1> QED
  BY <1>1, TypeCorrect, ReportSoundInductive, PTL DEF Spec

\* A verified tally is the set of counted chain tips of its log prefix.
THEOREM TallyIsTipVotes == Spec => []ReportIsTipVotes
<1>1. ReportSound => ReportIsTipVotes
  BY DEF ReportSound
<1> QED BY <1>1, ReportAlwaysSound, PTL

\* No verified tally covers a fork or an incomplete prefix.
THEOREM TallyCoversSoundPrefix == Spec => []ReportCoversSoundPrefix
<1>1. ReportSound => ReportCoversSoundPrefix
  BY DEF ReportSound
<1> QED BY <1>1, ReportAlwaysSound, PTL

\* An auditor with a witnessed head trusts no larger checkpoint.
THEOREM TallyWithinWitness == Spec => []ReportWithinWitness
<1>1. ReportSound => ReportWithinWitness
  BY DEF ReportSound
<1> QED BY <1>1, ReportAlwaysSound, PTL

\* An event superseded at a verified checkpoint counts at none verified later at that
\* size or beyond.
THEOREM SupersededStaysSo == Spec => SupersededForGood
<1> DEFINE Kept ==
      report # NoReport /\ report' # NoReport /\ report'.size >= report.size
        => \A v \in report'.votes : v.event \notin Superseded(Prefix(report.size))
<1>1. ReportSound /\ [Next]_vars => [Kept]_vars
  <2> SUFFICES ASSUME ReportSound, Next, report # NoReport, report' # NoReport,
                      report'.size >= report.size, NEW v \in report'.votes
               PROVE  v.event \notin Superseded(Prefix(report.size))
    OBVIOUS
  <2>1. report.size \in 0..Len(leaves) /\ leaves \in Seq(Leaves)
    BY DEF ReportSound, TypeOK
  <2>2. CASE VerifySnapshot
    <3>1. PICK n \in 0..Len(leaves) :
             report' = [size |-> n, votes |-> TipVotes(Prefix(n))]
      BY <2>2, VerifiedReport DEF ReportSound
    <3>2. report'.size = n /\ report'.votes = TipVotes(Prefix(n))
      BY <3>1
    <3>3. report.size <= n
      BY <2>1, <3>2
    <3> QED BY <2>1, <3>2, <3>3, TipsAreNotSuperseded
  <2>3. CASE report' = report
    <3>1. v \in TipVotes(Prefix(report.size))
      BY <2>3 DEF ReportSound, ReportIsTipVotes
    <3>2. report.size <= report.size
      BY <2>1
    <3> QED BY <2>1, <3>1, <3>2, TipsAreNotSuperseded
  <2> QED
    BY <2>2, <2>3 DEF Next, LogGrows, WitnessLatestHead
<1> QED BY <1>1, ReportAlwaysSound, PTL DEF Spec, SupersededForGood

\* An auditor with a witnessed head never goes back to a smaller checkpoint.
THEOREM TallyNeverRollsBack == Spec => ReportNeverRollsBack
<1> DEFINE Forward ==
      report # NoReport /\ report' # report /\ witnessed # NoHead
        => report'.size >= report.size
<1>1. ReportSound /\ [Next]_vars => [Forward]_vars
  <2> SUFFICES ASSUME ReportSound, Next, report # NoReport, report' # report,
                      witnessed # NoHead
               PROVE  report'.size >= report.size
    OBVIOUS
  <2>1. VerifySnapshot
    BY DEF Next, LogGrows, WitnessLatestHead
  <2>2. PICK n \in 0..Len(leaves) :
           /\ report' = [size |-> n, votes |-> TipVotes(Prefix(n))]
           /\ n = witnessed.size
    BY <2>1, VerifiedReport DEF ReportSound
  <2>3. report.size <= witnessed.size /\ report.size \in Nat
    BY DEF ReportSound, ReportWithinWitness, TypeOK
  <2> QED BY <2>2, <2>3
<1> QED BY <1>1, ReportAlwaysSound, PTL DEF Spec, ReportNeverRollsBack

\* TallyAudit implements TallyPromise: its initial states are initial states there, and
\* every step of it is a step there or changes nothing there.
THEOREM AuditKeepsPromise == Spec => KeepsPromise
<1>1. Init => Promise!Init
  BY DEF Init, Promise!Init
<1>2. ReportSound /\ [Next]_vars => [Promise!Next]_<<leaves, report>>
  <2> SUFFICES ASSUME ReportSound, [Next]_vars
               PROVE  [Promise!Next]_<<leaves, report>>
    OBVIOUS
  <2>1. CASE LogGrows
    BY <2>1 DEF LogGrows, PublishVoteEvent, PublishReceipt, Publish, EventLeaf, ReceiptLeaf,
                Promise!Next, Promise!LogGrows, Promise!PublishVoteEvent,
                Promise!PublishReceipt, Promise!Publish, Promise!EventLeaf,
                Promise!ReceiptLeaf
  <2>2. CASE WitnessLatestHead
    BY <2>2 DEF WitnessLatestHead
  <2>3. CASE VerifySnapshot
    <3>1. PICK n \in 0..Len(leaves) :
             /\ report' = [size |-> n, votes |-> TipVotes(Prefix(n))]
             /\ ~ Forked(Prefix(n)) /\ ~ Incomplete(Prefix(n))
             /\ UNCHANGED <<leaves, witnessed>>
      BY <2>3, VerifiedReport DEF ReportSound
    <3> DEFINE log == Prefix(n)
    <3>2. /\ Promise!Prefix(n) = log
          /\ Promise!LoggedEvents(log) = LoggedEvents(log)
          /\ Promise!LoggedReceipts(log) = LoggedReceipts(log)
      BY DEF Prefix, Promise!Prefix, LoggedEvents, Promise!LoggedEvents, LoggedReceipts,
             Promise!LoggedReceipts, EventLeaf, Promise!EventLeaf, ReceiptLeaf,
             Promise!ReceiptLeaf
    <3> HIDE DEF log
    <3>3. Promise!TipVotes(log) = TipVotes(log)
      BY <3>2 DEF TipVotes, Promise!TipVotes, IsTip, Promise!IsTip
    <3>4. /\ Promise!Forked(log) <=> Forked(log)
          /\ Promise!Incomplete(log) <=> Incomplete(log)
      BY <3>2 DEF Forked, Promise!Forked, Incomplete, Promise!Incomplete
    <3>5. Promise!AcceptTally
      BY <3>1, <3>2, <3>3, <3>4 DEF Promise!AcceptTally, log
    <3> QED BY <3>5 DEF Promise!Next
  <2>4. CASE UNCHANGED vars
    BY <2>4 DEF vars
  <2> QED BY <2>1, <2>2, <2>3, <2>4 DEF Next
<1> QED BY <1>1, <1>2, ReportAlwaysSound, PTL DEF Spec, KeepsPromise, Promise!Spec
-------------------------------------------------------------------------------
(* The offline verifier: for every pinned policy and every mixture of downloads,  *)
(* what a run reports of a vote is what the log says of it, and nothing untrusted *)
(* is below a checkpoint that verified.                                           *)

States == {"unverified", "superseded", "counted", "not_counted"}

SessionTypeOK ==
  /\ leaves \in Seq(Leaves)
  /\ session # NoSession =>
       /\ session.options \in Options
       /\ session.valid \in BOOLEAN
       /\ session.state \in States
       /\ session.size \in 0..Len(leaves)

\* The bundle that was found valid is logged.
BundleLogged(event, acceptance) ==
  /\ event \in LoggedEvents(leaves)
  /\ acceptance \in LoggedReceipts(leaves)
  /\ acceptance.event = event

\* What the state of an event at a checkpoint says of the log below it.
StateTrue(state, event, log) ==
  /\ event \in LoggedEvents(log)
  /\ state = "superseded" <=> event \in Superseded(log)
  /\ state = "counted" <=> \E v \in TipVotes(log) : v.event = event
  /\ ~ Forked(log)

AllTrusted(log) ==
  /\ \A e \in LoggedEvents(log) : SoundBallot(e)
  /\ \A r \in LoggedReceipts(log) : SoundReceipt(r)

\* An exit code stands for what was found, and a run that has found a state has ended.
ExitOK(s) ==
  \/ s.exit = Pending /\ s.state = "unverified" /\ s.valid
  \/ s.exit = ExitCode(s.valid, s.state, s.options)

SessionSound ==
  session # NoSession =>
    /\ session.valid => BundleLogged(session.event, session.acceptance)
    /\ ExitOK(session)
    /\ session.state # "unverified" =>
         /\ session.valid
         /\ StateTrue(session.state, session.event, Prefix(session.size))
         /\ AllTrusted(Prefix(session.size))

SessionIInv == SessionTypeOK /\ SessionSound

-------------------------------------------------------------------------------
(* What the two stages find.                                                      *)

\* What is in a prefix of the log is in the log.
LEMMA LoggedInPrefix ==
  ASSUME leaves \in Seq(Leaves), NEW n \in 0..Len(leaves)
  PROVE  /\ LoggedEvents(Prefix(n)) \subseteq LoggedEvents(leaves)
         /\ LoggedReceipts(Prefix(n)) \subseteq LoggedReceipts(leaves)
<1>1. DOMAIN Prefix(n) = 1..n /\ \A i \in 1..n : Prefix(n)[i] = leaves[i] /\ i \in DOMAIN leaves
  BY DEF Prefix
<1> QED BY <1>1 DEF LoggedEvents, LoggedReceipts

\* An entry that is included under a signed tree head is in the log.
LEMMA IncludedIsLogged ==
  ASSUME leaves \in Seq(Leaves), NEW n \in 0..Len(leaves), NEW seal, NEW leaf, NEW time,
         NEW logId, Included(leaf, time, HeadAt(n, seal), logId)
  PROVE  \E i \in DOMAIN leaves : leaves[i] = leaf
<1>1. HeadAt(n, seal).treeSize = n /\ HeadAt(n, seal).root = Prefix(n)
  <2>1. Len(Prefix(n)) = n  BY DEF Prefix
  <2> QED BY <2>1 DEF HeadAt, TreeHead
<1>2. PICK i \in 1..n : Prefix(n)[i] = leaf  BY <1>1 DEF Included
<1>3. leaves[i] = leaf /\ i \in DOMAIN leaves  BY <1>2 DEF Prefix
<1> QED BY <1>3

\* The bundle stage: event and acceptance may be shown under heads of different times,
\* and both are logged.
LEMMA BundleStage ==
  ASSUME leaves \in Seq(Leaves), NEW b \in Bundles, BundleValid(b)
  PROVE  BundleLogged(b.event, b.acceptance)
<1>1. /\ b.event \in Events /\ b.acceptance \in Receipts
      /\ \E n \in 0..Len(leaves), seal \in Seals : b.eventHead = HeadAt(n, seal)
      /\ \E n \in 0..Len(leaves), seal \in Seals : b.acceptanceHead = HeadAt(n, seal)
  BY DEF Bundles
<1>2. BundleIntact(b)  BY DEF BundleValid
<1>3. \E i \in DOMAIN leaves : leaves[i] = EventLeaf(b.event)
  BY <1>1, <1>2, IncludedIsLogged DEF BundleIntact
<1>4. \E i \in DOMAIN leaves : leaves[i] = ReceiptLeaf(b.acceptance)
  BY <1>1, <1>2, IncludedIsLogged DEF BundleIntact
<1>5. b.acceptance.event = b.event  BY <1>2 DEF BundleIntact
<1> QED BY <1>1, <1>3, <1>4, <1>5 DEF BundleLogged, LoggedEvents, LoggedReceipts

\* One entry at least is selected where exactly one must be.
LEMMA SoleIsThere ==
  ASSUME NEW S, Sole(S)
  PROVE  S # {}
BY FS_EmptySet DEF Sole

\* What the verifier trusts of an event is what makes a ballot sound: the entry of the
\* policy it selects is in force, and the token was made for this authorization.
LEMMA TrustedBallotIsSound ==
  ASSUME NEW e, AuthorizationBinds(e), AuthorizationTrusted(e.authorization)
  PROVE  SoundBallot(e)
<1> DEFINE a == e.authorization
           matches == {i \in IdentityCandidates(Policy, a.token.issuedAt) :
                         Attests(Policy.identityPolicies[i], a)}
<1>1. Sole(matches)  BY DEF AuthorizationTrusted
<1>2. PICK i : i \in matches  BY <1>1, SoleIsThere
<1>3. /\ Policy.identityPolicies[i].origin = Origin
      /\ WitnessFresh(Policy.identityPolicies[i], a)
  BY <1>2 DEF AuthorizationTrusted
<1>4. Attests(Policy.identityPolicies[i], a)  BY <1>2
<1>5. /\ i \in DOMAIN Policy.identityPolicies
      /\ ContainsTime(Policy.identityPolicies[i], a.token.issuedAt)
  BY <1>2 DEF IdentityCandidates
<1>6. Policy.identityPolicies[i] \in Elements(Policy.identityPolicies)
  BY <1>5 DEF Elements
<1> QED BY <1>3, <1>4, <1>5, <1>6 DEF SoundBallot, AuthorizationBinds, Attests, ClaimsVerify,
              TokenTimely, OfWorkload, WitnessFresh, ContainsTime

\* So it is with receipts: a key in force and a voting policy in force are found.
LEMMA TrustedReceiptIsSound ==
  ASSUME NEW r, KeyTrusted(r.key, r.receivedAt), VotingPolicyAt(r.receivedAt), r.logId = LogId
  PROVE  SoundReceipt(r)
<1>1. PICK i : i \in KeyMatches(Policy, r.key, "receipt", r.receivedAt)
  BY SoleIsThere DEF KeyTrusted
<1>2. PICK j : /\ j \in VotingMatches(Policy, Context, r.receivedAt)
               /\ Policy.votingPolicies[j].audience = Audience
  BY SoleIsThere DEF VotingPolicyAt
<1>3. /\ Policy.serverKeys[i] \in Elements(Policy.serverKeys)
      /\ Policy.votingPolicies[j] \in Elements(Policy.votingPolicies)
  BY <1>1, <1>2 DEF KeyMatches, VotingMatches, Elements
<1> QED BY <1>1, <1>2, <1>3 DEF SoundReceipt, KeyMatches, VotingMatches, ContainsTime

\* The checkpoint stage: the replay that succeeds is of the log prefix, so the state that
\* it gives is the one of the hash links, and what it trusts is all there is below.
LEMMA CheckpointStage ==
  ASSUME leaves \in Seq(Leaves), NEW n \in 0..Len(leaves), NEW seal,
         NEW in \in Offers(n, seal), NEW stamp, NEW expectedLatest, NEW event, NEW acceptance,
         TargetIncluded(event, acceptance, in),
         TallyPolicyBound(in, stamp),
         TallyCryptographic(in, stamp, expectedLatest)
  PROVE  /\ StateTrue(StateAtCheckpoint(event, in), event, Prefix(n))
         /\ AllTrusted(Prefix(n))
         /\ StateAtCheckpoint(event, in) \in States \ {"unverified"}
<1>1. Material(in) /\ in.head = HeadAt(n, seal)  BY OfferForm
<1>2. ReplayGraphOK(in)  BY DEF TallyCryptographic, SnapshotVerifies
<1>3. in.leaves = Prefix(n)
  BY <1>1, <1>2 DEF ReplayGraphOK, LogPrefixOK, HeadAt, TreeHead
<1>4. /\ in.events = LoggedEvents(Prefix(n)) /\ in.receipts = LoggedReceipts(Prefix(n))
      /\ AcceptedDirectVotes(in) = TipVotes(Prefix(n))
      /\ ~ Forked(Prefix(n))
  BY <1>1, <1>2, <1>3, ReplayCoversLog, ReplaySelectsTips, ReplayCoversSoundPrefix
<1>5. event \in in.events  BY DEF TargetIncluded
<1>6. IsLatestEvent(ChainOf(in.events, event.nullifier), event)
        <=> IsTip(event, LoggedEvents(Prefix(n)))
  <2>1. IsLatestEvent(ChainOf(in.events, event.nullifier), event)
          <=> IsLatestEvent(in.events, event)
    BY DEF IsLatestEvent, ChainOf
  <2> QED BY <1>1, <1>2, <1>4, <1>5, <2>1, LatestEventIsTip
<1>7. \A v \in TipVotes(Prefix(n)) : IsTip(v.event, LoggedEvents(Prefix(n)))
  BY DEF TipVotes
<1>8. StateTrue(StateAtCheckpoint(event, in), event, Prefix(n))
  BY <1>4, <1>5, <1>6, <1>7 DEF StateTrue, StateAtCheckpoint, Superseded
<1>9. AllTrusted(Prefix(n))
  <2>1. ASSUME NEW e \in in.events  PROVE  SoundBallot(e)
    <3>1. AuthorizationBinds(e) /\ AuthorizationTrusted(e.authorization)
      BY <1>2 DEF ReplayGraphOK, EventsOK, TallyCryptographic
    <3> QED BY <3>1, TrustedBallotIsSound
  <2>2. ASSUME NEW r \in in.receipts  PROVE  SoundReceipt(r)
    <3>1. KeyTrusted(r.key, r.receivedAt) /\ VotingPolicyAt(r.receivedAt)
      BY DEF TallyCryptographic, TallyPolicyBound
    <3>2. r.logId = LogId
      BY DEF TallyPolicyBound, Offers, InputSet
    <3> QED BY <3>1, <3>2, TrustedReceiptIsSound
  <2> QED BY <1>4, <2>1, <2>2 DEF AllTrusted
<1> QED BY <1>8, <1>9 DEF StateAtCheckpoint, States

-------------------------------------------------------------------------------
(* The invariant.                                                                 *)

\* A bundle that failed, or a checkpoint, leaves nothing that could be relied on.
LEMMA RejectedSound ==
  ASSUME leaves' \in Seq(Leaves), NEW options \in Options, session' = Rejected(options)
  PROVE  SessionIInv'
<1>1. /\ session'.options = options /\ session'.valid = FALSE /\ session'.size = 0
      /\ session'.state = "unverified" /\ session'.exit = ExitCode(FALSE, "unverified", options)
  <2>1. session' = Found(options, Null, Null, FALSE, "unverified", 0)  BY DEF Rejected
  <2> QED BY <2>1 DEF Found
<1>2. 0 \in 0..Len(leaves')  OBVIOUS
<1>3. session'.valid \in BOOLEAN /\ ~ session'.valid  BY <1>1, Zenon
<1>4. ExitOK(session')  BY <1>1 DEF ExitOK
<1>5. SessionTypeOK'  BY <1>1, <1>2, <1>3 DEF SessionTypeOK, States
<1>6. SessionSound'  BY <1>1, <1>3, <1>4 DEF SessionSound, ExitOK, ExitCode
<1> QED BY <1>5, <1>6 DEF SessionIInv

\* What was found stays true while the log grows.
LEMMA LogGrowsMeanwhileStep ==
  ASSUME SessionIInv, NEW leaf \in Leaves, Publish(leaf), UNCHANGED session
  PROVE  SessionIInv'
<1>1. /\ leaves \in Seq(Leaves) /\ leaves' = Append(leaves, leaf)
      /\ leaves' \in Seq(Leaves) /\ Len(leaves') = Len(leaves) + 1
      /\ \A i \in DOMAIN leaves : i \in DOMAIN leaves' /\ leaves'[i] = leaves[i]
  BY DEF SessionIInv, SessionTypeOK, Publish
<1>2. /\ LoggedEvents(leaves) \subseteq LoggedEvents(leaves')
      /\ LoggedReceipts(leaves) \subseteq LoggedReceipts(leaves')
  BY <1>1 DEF LoggedEvents, LoggedReceipts
<1>3. CASE session = NoSession  BY <1>1, <1>3 DEF SessionIInv, SessionTypeOK, SessionSound
<1>4. CASE session # NoSession
  <2>1. session.size \in 0..Len(leaves)  BY <1>4 DEF SessionIInv, SessionTypeOK
  <2>2. session.size \in 0..Len(leaves')  BY <1>1, <2>1
  <2>3. Prefix(session.size)' = Prefix(session.size)  BY <1>1, <2>1, PrefixKept
  <2>4. SessionTypeOK'  BY <1>1, <1>4, <2>2 DEF SessionIInv, SessionTypeOK
  <2>5. SessionSound'
    BY <1>2, <1>4, <2>3 DEF SessionIInv, SessionSound, BundleLogged, ExitOK
  <2> QED BY <2>4, <2>5 DEF SessionIInv
<1> QED BY <1>3, <1>4

LEMMA VerifyBundleStep ==
  ASSUME SessionIInv, VerifyBundle
  PROVE  SessionIInv'
<1>1. leaves \in Seq(Leaves) /\ UNCHANGED leaves  BY DEF SessionIInv, SessionTypeOK, VerifyBundle
<1>2. ASSUME NEW options \in Options, session' = Rejected(options) PROVE SessionIInv'
  BY <1>1, <1>2, RejectedSound
<1>3. ASSUME NEW options \in Options, NEW b \in Bundles, BundleValid(b),
             LET found == Found(options, b.event, b.acceptance, TRUE, "unverified", 0)
             IN  session' = IF options.snapshot THEN [found EXCEPT !.exit = Pending] ELSE found
      PROVE  SessionIInv'
  <2> DEFINE found == Found(options, b.event, b.acceptance, TRUE, "unverified", 0)
  <2>1. 0 \in 0..Len(leaves)  BY <1>1
  <2>2. BundleLogged(b.event, b.acceptance)  BY <1>1, <1>3, BundleStage
  <2>3. /\ session'.options = options /\ session'.event = b.event
        /\ session'.acceptance = b.acceptance /\ session'.valid = TRUE
        /\ session'.state = "unverified" /\ session'.size = 0
        /\ session'.exit \in {Pending, ExitCode(TRUE, "unverified", options)}
    <3>1. CASE session' = found  BY <3>1 DEF Found
    <3>2. CASE session' = [found EXCEPT !.exit = Pending]  BY <3>2 DEF Found
    <3> QED BY <1>3, <3>1, <3>2
  <2>4. session'.valid \in BOOLEAN /\ session'.valid  BY <2>3, Zenon
  <2>5. SessionTypeOK'  BY <1>1, <2>1, <2>3, <2>4 DEF SessionTypeOK, States
  <2>6. ExitOK(session')  BY <2>3 DEF ExitOK
  <2>7. SessionSound'
    BY <1>1, <2>2, <2>3, <2>6 DEF SessionSound, BundleLogged, ExitOK
  <2> QED BY <2>5, <2>7 DEF SessionIInv
<1> QED BY <1>2, <1>3 DEF VerifyBundle

LEMMA VerifyCheckpointStep ==
  ASSUME SessionIInv, VerifyCheckpoint
  PROVE  SessionIInv'
<1>1. /\ leaves \in Seq(Leaves) /\ UNCHANGED leaves
      /\ session # NoSession /\ session.exit = Pending /\ session.options \in Options
  BY DEF SessionIInv, SessionTypeOK, VerifyCheckpoint
<1>2. session.valid /\ BundleLogged(session.event, session.acceptance)
  <2>1. ExitOK(session)  BY <1>1 DEF SessionIInv, SessionSound
  <2>2. ExitCode(session.valid, session.state, session.options) # Pending
    BY DEF ExitCode, Pending
  <2>3. session.valid  BY <1>1, <2>1, <2>2 DEF ExitOK
  <2> QED BY <1>1, <2>3 DEF SessionIInv, SessionSound
<1>3. PICK n \in 0..Len(leaves), seal \in Seals, stamp \in Stamps :
        \E in \in Offers(n, seal) :
        \E expectedLatest \in {{}, {HeadAt(Len(leaves), seal)}} :
          LET valid == /\ TargetIncluded(session.event, session.acceptance, in)
                       /\ TallyPolicyBound(in, stamp)
                       /\ TallyCryptographic(in, stamp, expectedLatest)
          IN  session' =
                IF valid
                THEN Found(session.options, session.event, session.acceptance, TRUE,
                           StateAtCheckpoint(session.event, in), n)
                ELSE Rejected(session.options)
  BY DEF VerifyCheckpoint
<1>4. PICK in \in Offers(n, seal), expectedLatest \in {{}, {HeadAt(Len(leaves), seal)}} :
        \/ /\ TargetIncluded(session.event, session.acceptance, in)
           /\ TallyPolicyBound(in, stamp)
           /\ TallyCryptographic(in, stamp, expectedLatest)
           /\ session' = Found(session.options, session.event, session.acceptance, TRUE,
                               StateAtCheckpoint(session.event, in), n)
        \/ session' = Rejected(session.options)
  BY <1>3
<1>5. CASE session' = Rejected(session.options)  BY <1>1, <1>5, RejectedSound
<1>6. CASE session' # Rejected(session.options)
  <2> DEFINE state == StateAtCheckpoint(session.event, in)
  <2>1. /\ StateTrue(state, session.event, Prefix(n)) /\ AllTrusted(Prefix(n))
        /\ state \in States \ {"unverified"}
    BY <1>1, <1>4, <1>6, CheckpointStage
  <2>2. session' = Found(session.options, session.event, session.acceptance, TRUE, state, n)
    BY <1>4, <1>6
  <2> HIDE DEF state
  <2>4. /\ session'.options = session.options /\ session'.event = session.event
        /\ session'.acceptance = session.acceptance /\ session'.valid = TRUE
        /\ session'.state = state /\ session'.size = n
        /\ session'.exit = ExitCode(TRUE, state, session.options)
    BY <2>2 DEF Found
  <2>5. session'.valid \in BOOLEAN /\ session'.valid  BY <2>4, Zenon
  <2>6. SessionTypeOK'  BY <1>1, <2>1, <2>4, <2>5 DEF SessionTypeOK
  <2>7. ExitOK(session')  BY <2>4 DEF ExitOK
  <2>8. BundleLogged(session'.event, session'.acceptance)  BY <1>2, <2>4
  <2>9. Prefix(session'.size) = Prefix(n) /\ leaves' = leaves  BY <1>1, <2>4
  <2>10. SessionSound'
    BY <2>1, <2>4, <2>5, <2>7, <2>8, <2>9 DEF SessionSound, BundleLogged, ExitOK, Prefix
  <2> QED BY <2>6, <2>10 DEF SessionIInv
<1> QED BY <1>5, <1>6


LEMMA SessionInvariance == SessionSpec => []SessionIInv
<1>1. SessionInit => SessionIInv
  BY DEF SessionInit, SessionIInv, SessionTypeOK, SessionSound
<1>2. SessionIInv /\ [SessionNext]_sessionVars => SessionIInv'
  <2> SUFFICES ASSUME SessionIInv, [SessionNext]_sessionVars PROVE SessionIInv'
    OBVIOUS
  <2>1. CASE LogGrowsMeanwhile
    <3>1. PICK leaf \in Leaves : Publish(leaf)
      BY <2>1 DEF LogGrowsMeanwhile, PublishVoteEvent, PublishReceipt, Leaves
    <3>2. UNCHANGED session  BY <2>1 DEF LogGrowsMeanwhile
    <3> QED BY <3>1, <3>2, LogGrowsMeanwhileStep
  <2>2. CASE VerifyBundle  BY <2>2, VerifyBundleStep
  <2>3. CASE VerifyCheckpoint  BY <2>3, VerifyCheckpointStep
  <2>4. CASE UNCHANGED sessionVars
    BY <2>4 DEF sessionVars, SessionIInv, SessionTypeOK, SessionSound, BundleLogged, ExitOK, Prefix
  <2> QED BY <2>1, <2>2, <2>3, <2>4 DEF SessionNext
<1> QED BY <1>1, <1>2, PTL DEF SessionSpec

-------------------------------------------------------------------------------
(* The theorems.                                                                  *)

\* Event and acceptance of a bundle that verifies are both in the log, whatever heads of
\* whatever times they were shown under.
THEOREM ValidBundlesAreLogged == SessionSpec => []ValidBundleIsLogged
<1>1. SessionIInv => ValidBundleIsLogged
  BY DEF SessionIInv, SessionSound, ValidBundleIsLogged, BundleLogged
<1> QED BY <1>1, SessionInvariance, PTL

\* The state that a run reports for a vote is the one the hash links of the log give it.
THEOREM StatesMatchLog == SessionSpec => []StateMatchesLog
<1>1. SessionIInv => StateMatchesLog
  BY DEF SessionIInv, SessionSound, StateMatchesLog, AtCheckpoint, StateTrue
<1> QED BY <1>1, SessionInvariance, PTL

\* No ballot below a verified checkpoint is untrusted, however many there are and however
\* the material was chosen.
THEOREM NothingInvalidIsHidden == SessionSpec => []NoInvalidBallotHidden
<1>1. SessionIInv => NoInvalidBallotHidden
  BY DEF SessionIInv, SessionSound, NoInvalidBallotHidden, AtCheckpoint, AllTrusted
<1> QED BY <1>1, SessionInvariance, PTL

\* Exit code 0 with a counted vote required means a counted tip of a log without forks.
THEOREM ExitZeroIsCounted == SessionSpec => []ExitZeroMeansCounted
<1>1. ASSUME SessionIInv PROVE ExitZeroMeansCounted
  <2>1. SUFFICES ASSUME session # NoSession, session.exit = 0,
                        session.options.requireCounted
                 PROVE  /\ session.options.anchored
                        /\ ~ Forked(Prefix(session.size))
                        /\ \E v \in TipVotes(Prefix(session.size)) :
                             v.event = session.event
    BY DEF ExitZeroMeansCounted
  <2>2. ExitOK(session)  BY <1>1, <2>1 DEF SessionIInv, SessionSound
  <2>3. session.options.anchored /\ session.state = "counted"
    BY <2>1, <2>2 DEF ExitOK, ExitCode, Pending
  <2>4. StateTrue(session.state, session.event, Prefix(session.size))
    BY <1>1, <2>1, <2>3 DEF SessionIInv, SessionSound
  <2> QED BY <2>3, <2>4 DEF StateTrue
<1> QED BY <1>1, SessionInvariance, PTL
===============================================================================
