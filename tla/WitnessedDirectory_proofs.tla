---------------------- MODULE WitnessedDirectory_proofs ----------------------
(***************************************************************************)
(* Proofs about WitnessedDirectory: for every log, every number of         *)
(* attempts and every value of the tolerances, an accepted authorization   *)
(* commits to what was the newest checkpoint shortly before.               *)
(***************************************************************************)
EXTENDS WitnessedDirectory, NaturalsInduction, WellFoundedInduction, TLAPS

Entry == [type : {"eligibility_directory_checkpoint", "vote_event"}, at : Nat]

\* The log holds what was published up to now.
LogInTime == \A i \in DOMAIN log : log[i].at <= now

\* What a signed success says of the log as it is now: it names the newest checkpoint of a
\* prefix, and what came after the prefix came no earlier than the observation.
TrueOfLog(s) ==
  /\ s.latest.observedAt \in Nat /\ s.latest.observedAt <= now
  /\ s.latest.treeSize \in 0..Len(log)
  /\ s.latest.checkpoint = LatestCheckpoint(s.latest.treeSize)
  /\ \A i \in DOMAIN log : i > s.latest.treeSize => s.latest.observedAt <= log[i].at

Success(s) ==
  /\ s.failure = Null /\ s.failures = 0 /\ s.latest # Null
  /\ s.latest.observedAt = s.lastSuccessAt /\ s.latest.observedAt = s.lastAttemptAt

EnvelopesTrue ==
  \A e \in envelopes :
    /\ e.key = "pinned"
    /\ StatusParses(e.statement)
    /\ e.statement.status = "verified" => Success(e.statement) /\ TrueOfLog(e.statement)

IssuedInTime ==
  issued # NoAuthorization =>
    /\ issued.envelope \in envelopes \/ issued.envelope.key = "foreign"
    /\ issued.checkpoint \in Nat
    /\ issued.at \in Nat
    /\ issued.issuedAt \in (issued.at - Drift)..(issued.at + Drift)

VerdictStands ==
  /\ verdict \in {"none", "accepted", "rejected"}
  /\ issued = NoAuthorization => verdict = "none"
  /\ verdict = "accepted" => AuthorizationVerifies(issued)
  /\ verdict = "rejected" => ~ AuthorizationVerifies(issued)

IInv ==
  /\ now \in Nat /\ log \in Seq(Entry)
  /\ LogInTime /\ EnvelopesTrue /\ IssuedInTime /\ VerdictStands

-----------------------------------------------------------------------------
(* The newest checkpoint.                                                  *)

\* A set of numbers up to a bound that is not empty has a largest one.
LEMMA LargestUpTo ==
  ASSUME NEW n \in Nat, NEW T, T \subseteq 1..n, T # {}
  PROVE  \E m \in T : \A k \in T : k <= m
<1> DEFINE Above == {b \in Nat : \A k \in T : k <= b}
           R == {ss \in Nat \X Nat : ss[1] < ss[2]}
<1>1. n \in Above
  OBVIOUS
<1>2. IsWellFoundedOn(R, Nat)
  BY NatLessThanWellFounded DEF OpToRel
<1>3. PICK m \in Above : \A b \in Above : <<b, m>> \notin R
  <2> HIDE DEF R
  <2> QED BY <1>1, <1>2, WFMin
<1>4. m \in T
  <2> SUFFICES ASSUME m \notin T PROVE FALSE
    OBVIOUS
  <2>1. PICK k \in T : TRUE
    OBVIOUS
  <2>2. m - 1 \in Nat
    <3>1. k \in Nat /\ 1 <= k /\ k <= m  OBVIOUS
    <3> QED BY <3>1, <1>3
  <2>3. \A j \in T : j <= m - 1
    <3> TAKE j \in T
    <3>1. j \in Nat /\ j <= m /\ j # m  BY <1>3
    <3> QED BY <3>1, <1>3
  <2>4. m - 1 \in Above /\ m - 1 < m  BY <2>2, <2>3, <1>3
  <2>5. <<m - 1, m>> \in R  BY <2>4, <1>3
  <2> QED BY <2>4, <2>5, <1>3
<1> QED BY <1>3, <1>4

\* latestEntryByType is the newest checkpoint of the prefix, when there is one.
LEMMA LatestIsNewest ==
  ASSUME NEW size \in Nat, LatestCheckpoint(size) # Null
  PROVE  /\ LatestCheckpoint(size) \in CheckpointsIn(size)
         /\ \A i \in CheckpointsIn(size) : i <= LatestCheckpoint(size)
<1>1. CheckpointsIn(size) # {}  BY DEF LatestCheckpoint
<1>2. CheckpointsIn(size) \subseteq 1..size  BY DEF CheckpointsIn
<1>3. \E m \in CheckpointsIn(size) : \A k \in CheckpointsIn(size) : k <= m
  BY <1>1, <1>2, LargestUpTo
<1> QED BY <1>1, <1>3 DEF LatestCheckpoint

\* What is true of the log stays true when time passes or an entry is appended.
LEMMA TrueForGood ==
  ASSUME IInv, NEW s, TrueOfLog(s), now' \in Nat, now <= now',
         \/ log' = log
         \/ \E x \in Entry : log' = Append(log, x) /\ x.at = now
  PROVE  TrueOfLog(s)'
<1> USE DEF IInv
<1>1. CASE log' = log
  BY <1>1 DEF TrueOfLog, LatestCheckpoint, CheckpointsIn
<1>2. ASSUME NEW x \in Entry, log' = Append(log, x), x.at = now
      PROVE  TrueOfLog(s)'
  <2> DEFINE n == s.latest.treeSize
  <2>1. Len(log') = Len(log) + 1 /\ DOMAIN log' = 1..(Len(log) + 1)  BY <1>2
  <2>2. \A i \in 1..Len(log) : log'[i] = log[i]  BY <1>2
  <2>3. log'[Len(log) + 1] = x  BY <1>2
  <2>4. n \in 0..Len(log) /\ 1..n \subseteq 1..Len(log)  BY DEF TrueOfLog
  <2>5. CheckpointsIn(n)' = CheckpointsIn(n)
    BY <2>2, <2>4 DEF CheckpointsIn, IsCheckpoint
  <2>6. LatestCheckpoint(n)' = LatestCheckpoint(n)
    BY <2>5 DEF LatestCheckpoint
  <2>7. ASSUME NEW i \in DOMAIN log', i > n
        PROVE  s.latest.observedAt <= log'[i].at
    <3>1. CASE i \in 1..Len(log)  BY <2>2, <2>7, <3>1 DEF TrueOfLog
    <3>2. CASE i = Len(log) + 1  BY <2>3, <3>2, <1>2 DEF TrueOfLog
    <3> QED BY <2>1, <3>1, <3>2
  <2>8. s.latest.observedAt <= now'  BY DEF TrueOfLog
  <2> QED BY <2>1, <2>4, <2>6, <2>7, <2>8 DEF TrueOfLog
<1> QED BY <1>1, <1>2

LEMMA LogKept ==
  ASSUME UNCHANGED <<now, log>>
  PROVE  /\ LogInTime' <=> LogInTime
         /\ \A s : TrueOfLog(s)' <=> TrueOfLog(s)
BY DEF LogInTime, TrueOfLog, LatestCheckpoint, CheckpointsIn, IsCheckpoint

LEMMA EnvelopesKept ==
  ASSUME UNCHANGED <<now, log, envelopes>>
  PROVE  EnvelopesTrue' <=> EnvelopesTrue
<1>1. \A s : TrueOfLog(s)' <=> TrueOfLog(s)  BY LogKept
<1>2. envelopes' = envelopes  OBVIOUS
<1> QED BY <1>1, <1>2 DEF EnvelopesTrue, StatusParses, Success

LEMMA IssuedKept ==
  ASSUME UNCHANGED <<issued, verdict>>, envelopes \subseteq envelopes',
         IssuedInTime, VerdictStands
  PROVE  IssuedInTime' /\ VerdictStands'
<1>1. IssuedInTime'  BY DEF IssuedInTime
<1>2. VerdictStands'
  BY DEF VerdictStands, AuthorizationVerifies, StatusVerifies, EnvelopeVerifies,
     StatusParses, Fresh, PinnedRevision
<1> QED BY <1>1, <1>2

\* A key that is not the pinned one is told by its name.
LEMMA ForeignKey == \A e \in Foreign : e.key = "foreign"
BY DEF Foreign, Envelope

-----------------------------------------------------------------------------
(* The invariant.                                                          *)

LEMMA InvInit == Init => IInv
BY DEF Init, IInv, LogInTime, EnvelopesTrue, IssuedInTime, VerdictStands

\* A report of the witness leaves log, authorization and verdict as they are, and what it
\* signs is either no success or true of the log.
LEMMA ReportKeeps ==
  ASSUME IInv, NEW s, Report(s),
         s.status = "verified" => Success(s) /\ TrueOfLog(s)
  PROVE  IInv'
<1> USE DEF IInv
<1>1. /\ now' = now /\ log' = log /\ issued' = issued /\ verdict' = verdict
      /\ envelopes \subseteq envelopes'
  BY DEF Report
<1>2. \A t : TrueOfLog(t)' <=> TrueOfLog(t)
  BY <1>1, LogKept
<1>3. EnvelopesTrue'
  <2> SUFFICES ASSUME NEW e \in envelopes'
               PROVE  /\ e.key = "pinned" /\ StatusParses(e.statement)
                      /\ e.statement.status = "verified" =>
                           Success(e.statement) /\ TrueOfLog(e.statement)'
    BY DEF EnvelopesTrue, StatusParses, Success
  <2>1. CASE e \in envelopes
    BY <1>2, <2>1 DEF EnvelopesTrue
  <2>2. CASE e \notin envelopes
    <3>1. StatusParses(s) /\ e = Envelope("pinned", s)
      BY <2>2 DEF Report
    <3>2. e.key = "pinned" /\ e.statement = s  BY <3>1 DEF Envelope
    <3> QED BY <1>2, <3>1, <3>2
  <2> QED BY <2>1, <2>2
<1>4. LogInTime'  BY <1>1, LogKept
<1>5. IssuedInTime' /\ VerdictStands'  BY <1>1, IssuedKept
<1> QED BY <1>1, <1>3, <1>4, <1>5

\* A success is true of the log that it reports.
LEMMA SuccessKeeps ==
  ASSUME IInv, AttemptSucceeds
  PROVE  IInv'
<1> DEFINE latest == [observedAt |-> now, treeSize |-> Len(log),
                      checkpoint |-> LatestCheckpoint(Len(log))]
           s == [status |-> "verified", revision |-> revision,
                 lastAttemptAt |-> now, lastSuccessAt |-> now, failures |-> 0,
                 failure |-> Null, latest |-> latest]
<1>1. Report(s)  BY DEF AttemptSucceeds
<1>2. CASE s.latest # Null
  <2>1. Success(s)  BY <1>2 DEF Success
  <2>2. TrueOfLog(s)  BY DEF IInv, TrueOfLog
  <2> HIDE DEF s
  <2> QED BY <1>1, <2>1, <2>2, ReportKeeps
<1>3. CASE s.latest = Null
  <2>1. ~ StatusParses(s)  BY <1>3 DEF StatusParses
  <2>2. envelopes' = envelopes  BY <1>1, <2>1 DEF Report
  <2>3. /\ now' = now /\ log' = log /\ issued' = issued /\ verdict' = verdict
    BY <1>1 DEF Report
  <2>4. LogInTime' /\ EnvelopesTrue'  BY <2>2, <2>3, LogKept, EnvelopesKept DEF IInv
  <2>5. IssuedInTime' /\ VerdictStands'  BY <2>2, <2>3, IssuedKept DEF IInv
  <2> QED BY <2>3, <2>4, <2>5 DEF IInv
<1> QED BY <1>2, <1>3

\* The rest of the world: time, the log, the deployment.
LEMMA WorldKeeps ==
  ASSUME IInv, Tick \/ Publish \/ Redeploy
  PROVE  IInv'
<1> USE DEF IInv
<1>1. UNCHANGED <<envelopes, issued, verdict>>  BY DEF Tick, Publish, Redeploy
<1>2. now' \in Nat /\ now <= now'  BY DEF Tick, Publish, Redeploy
<1>3. log' = log \/ \E x \in Entry : log' = Append(log, x) /\ x.at = now
  <2>1. CASE Publish  BY <2>1 DEF Publish, Entry
  <2>2. CASE Tick \/ Redeploy  BY <2>2 DEF Tick, Redeploy
  <2> QED BY <2>1, <2>2
<1>4. log' \in Seq(Entry)  BY <1>3
<1>5. LogInTime'
  <2>1. CASE log' = log
    <3>1. \A i \in DOMAIN log : log[i] \in Entry  OBVIOUS
    <3>2. \A i \in DOMAIN log : log[i].at \in Nat  BY <3>1 DEF Entry
    <3> QED BY <2>1, <3>2, <1>2 DEF LogInTime
  <2>2. ASSUME NEW x \in Entry, log' = Append(log, x), x.at = now
        PROVE  LogInTime'
    <3> SUFFICES ASSUME NEW i \in DOMAIN log' PROVE log'[i].at <= now'
      BY DEF LogInTime
    <3>1. CASE i \in 1..Len(log)
      <4>1. log'[i] = log[i] /\ log[i] \in Entry  BY <3>1, <2>2
      <4> QED BY <3>1, <4>1, <1>2 DEF LogInTime, Entry
    <3>2. CASE i = Len(log) + 1  BY <3>2, <2>2, <1>2
    <3> QED BY <3>1, <3>2, <2>2
  <2> QED BY <2>1, <2>2, <1>3
<1>6. EnvelopesTrue'
  <2>1. \A s : TrueOfLog(s) => TrueOfLog(s)'
    BY <1>2, <1>3, TrueForGood
  <2> QED BY <1>1, <2>1 DEF EnvelopesTrue, StatusParses, Success
<1>7. IssuedInTime' /\ VerdictStands'  BY <1>1, IssuedKept
<1> QED BY <1>2, <1>4, <1>5, <1>6, <1>7

LEMMA InvStep == IInv /\ [Next]_vars => IInv'
<1> SUFFICES ASSUME IInv, [Next]_vars PROVE IInv'
  OBVIOUS
<1>1. CASE Tick \/ Publish \/ Redeploy  BY <1>1, WorldKeeps
<1>2. CASE AttemptSucceeds  BY <1>2, SuccessKeeps
<1>3. CASE AttemptFails
  <2>1. PICK f \in Failures :
          Report([status |-> f.status, revision |-> revision, lastAttemptAt |-> now,
                  lastSuccessAt |-> IF statement = Null THEN Null ELSE statement.lastSuccessAt,
                  failures |-> IF statement = Null THEN 1 ELSE statement.failures + 1,
                  failure |-> f.kind,
                  latest |-> IF statement = Null THEN Null ELSE statement.latest])
    BY <1>3 DEF AttemptFails
  <2>2. f.status # "verified"  BY WitnessAssumption
  <2> QED BY <2>1, <2>2, ReportKeeps
<1>4. CASE Issue
  <2>1. /\ issued = NoAuthorization /\ verdict' = verdict
        /\ UNCHANGED <<now, log, envelopes>>
    BY <1>4 DEF Issue
  <2>2. verdict = "none"  BY <2>1 DEF IInv, VerdictStands
  <2>3. IssuedInTime'
    <3>1. PICK e \in envelopes \cup Foreign, c \in 1..MaxEntries, d \in (-Drift)..Drift :
            issued' = [envelope |-> e, checkpoint |-> c, issuedAt |-> now + d, at |-> now]
      BY <1>4 DEF Issue
    <3>2. e \in envelopes' \/ e.key = "foreign"  BY <2>1, ForeignKey
    <3>3. now + d \in (now - Drift)..(now + Drift) /\ c \in Nat
      BY WitnessAssumption DEF IInv
    <3> QED BY <3>1, <3>2, <3>3, <2>1 DEF IssuedInTime, IInv
  <2>4. LogInTime' /\ EnvelopesTrue'  BY <2>1, LogKept, EnvelopesKept DEF IInv
  <2>5. VerdictStands'  BY <2>1, <2>2 DEF VerdictStands
  <2> QED BY <2>1, <2>3, <2>4, <2>5 DEF IInv
<1>5. CASE Audit
  <2>1. /\ issued # NoAuthorization
        /\ verdict' = IF AuthorizationVerifies(issued) THEN "accepted" ELSE "rejected"
        /\ UNCHANGED <<now, log, envelopes, issued>>
    BY <1>5 DEF Audit
  <2>2. VerdictStands'
    BY <2>1 DEF VerdictStands, AuthorizationVerifies, StatusVerifies, EnvelopeVerifies,
       StatusParses, Fresh, PinnedRevision
  <2>3. LogInTime' /\ EnvelopesTrue' /\ IssuedInTime'
    BY <2>1, LogKept, EnvelopesKept DEF IInv, IssuedInTime
  <2> QED BY <2>1, <2>2, <2>3 DEF IInv
<1>6. CASE UNCHANGED vars
  <2>1. UNCHANGED <<now, log, envelopes, issued, verdict>>  BY <1>6 DEF vars
  <2> QED BY <2>1, LogKept, EnvelopesKept, IssuedKept DEF IInv
<1> QED BY <1>1, <1>2, <1>3, <1>4, <1>5, <1>6 DEF Next

LEMMA Invariance == Spec => []IInv
BY InvInit, InvStep, PTL DEF Spec

-----------------------------------------------------------------------------
(* The theorems.                                                           *)

\* What an accepted authorization stands on: a success that the pinned witness signed.
LEMMA AcceptedStandsOn ==
  ASSUME IInv, verdict = "accepted"
  PROVE  LET s == issued.envelope.statement IN
         /\ issued # NoAuthorization
         /\ issued.envelope \in envelopes
         /\ Success(s) /\ TrueOfLog(s)
         /\ Fresh(s, issued.issuedAt) /\ s.revision = PinnedRevision(issued.issuedAt)
         /\ s.latest.checkpoint = issued.checkpoint /\ issued.checkpoint # Null
<1>1. AuthorizationVerifies(issued) /\ issued # NoAuthorization
  BY DEF IInv, VerdictStands
<1>2. issued.envelope.key = "pinned"
  BY <1>1 DEF AuthorizationVerifies, StatusVerifies, EnvelopeVerifies
<1>3. issued.envelope \in envelopes  BY <1>1, <1>2 DEF IInv, IssuedInTime
<1>4. issued.envelope.statement.status = "verified"
  BY <1>1 DEF AuthorizationVerifies, StatusVerifies, Fresh
<1>5. Success(issued.envelope.statement) /\ TrueOfLog(issued.envelope.statement)
  BY <1>3, <1>4 DEF IInv, EnvelopesTrue
<1> QED BY <1>1, <1>3, <1>5 DEF AuthorizationVerifies, StatusVerifies

\* No accepted authorization is of a checkpoint that newer ones had replaced for longer
\* than the maximum age and the drift of the issuer's clock
\* (verifyEligibilityDirectoryWitnessStatusV3).
THEOREM CommitsToCurrentCheckpoint == Spec => []CheckpointWasCurrent
<1>1. IInv => CheckpointWasCurrent
  <2> SUFFICES ASSUME IInv, verdict = "accepted"
               PROVE  /\ issued.checkpoint \in DOMAIN log
                      /\ IsCheckpoint(log[issued.checkpoint])
                      /\ \A i \in DOMAIN log :
                           i > issued.checkpoint /\ IsCheckpoint(log[i]) =>
                             issued.at <= log[i].at + MaximumAge + Drift
    BY DEF CheckpointWasCurrent
  <2> DEFINE c == issued.checkpoint
             l == issued.envelope.statement.latest
  <2>1. /\ TrueOfLog(issued.envelope.statement)
        /\ Fresh(issued.envelope.statement, issued.issuedAt)
        /\ l.checkpoint = c /\ c # Null /\ issued # NoAuthorization
    BY AcceptedStandsOn
  <2>2. /\ l.observedAt \in Nat /\ l.treeSize \in 0..Len(log)
        /\ c = LatestCheckpoint(l.treeSize)
        /\ \A i \in DOMAIN log : i > l.treeSize => l.observedAt <= log[i].at
    BY <2>1 DEF TrueOfLog
  <2>3. /\ c \in CheckpointsIn(l.treeSize)
        /\ \A i \in CheckpointsIn(l.treeSize) : i <= c
    BY <2>1, <2>2, LatestIsNewest
  <2>4. log \in Seq(Entry)  BY DEF IInv
  <2>5. c \in DOMAIN log /\ IsCheckpoint(log[c])
    BY <2>2, <2>3, <2>4 DEF CheckpointsIn
  <2>6. ASSUME NEW i \in DOMAIN log, i > c, IsCheckpoint(log[i])
        PROVE  issued.at <= log[i].at + MaximumAge + Drift
    <3>1. i > l.treeSize
      BY <2>2, <2>3, <2>4, <2>6 DEF CheckpointsIn
    <3>2. l.observedAt <= log[i].at /\ log[i].at \in Nat
      <4>1. log[i] \in Entry  BY <2>4
      <4> QED BY <2>2, <3>1, <4>1 DEF Entry
    <3>3. issued.issuedAt - l.observedAt <= MaximumAge
      BY <2>1 DEF Fresh
    <3>4. issued.at \in Nat /\ issued.issuedAt \in Int /\ issued.at <= issued.issuedAt + Drift
      BY <2>1, WitnessAssumption DEF IInv, IssuedInTime
    <3> QED BY <2>2, <3>2, <3>3, <3>4, WitnessAssumption
  <2> QED BY <2>5, <2>6
<1> QED BY <1>1, Invariance, PTL

\* An accepted authorization commits to a signed success of the pinned revision, never to a
\* status that reports a failure (parseWitnessStatus and the checks on status and times).
THEOREM CommitsToSuccess == Spec => []AcceptedOnSuccess
<1>1. IInv => AcceptedOnSuccess
  <2> DEFINE s == issued.envelope.statement
  <2> SUFFICES ASSUME IInv, verdict = "accepted"
               PROVE  /\ issued.envelope \in envelopes /\ s.failures = 0 /\ s.failure = Null
                      /\ s.revision = 2 <=> issued.issuedAt >= Rotation
    BY DEF AcceptedOnSuccess
  <2>1. /\ issued # NoAuthorization /\ issued.envelope \in envelopes /\ Success(s)
        /\ s.revision = PinnedRevision(issued.issuedAt)
    BY AcceptedStandsOn
  <2>2. issued.issuedAt \in Int
    BY <2>1, WitnessAssumption DEF IInv, IssuedInTime
  <2>3. s.revision = 2 <=> issued.issuedAt >= Rotation
    BY <2>1, <2>2, WitnessAssumption DEF PinnedRevision
  <2> QED BY <2>1, <2>3 DEF Success
<1> QED BY <1>1, Invariance, PTL

\* Nothing that is sound is refused: a signed success of the pinned revision, inside the
\* window, whose checkpoint is the one named, is accepted.
THEOREM SoundIsAccepted == Spec => []SoundIssueAccepted
<1>1. IInv => SoundIssueAccepted
  <2> DEFINE s == issued.envelope.statement
  <2> SUFFICES ASSUME IInv, verdict # "none", issued.envelope \in envelopes,
                      s.status = "verified", s.revision = PinnedRevision(issued.issuedAt),
                      s.latest.checkpoint = issued.checkpoint,
                      issued.issuedAt \in (s.latest.observedAt - Skew)
                                            ..(s.latest.observedAt + MaximumAge)
               PROVE  verdict = "accepted"
    BY DEF SoundIssueAccepted
  <2>1. issued # NoAuthorization  BY DEF IInv, VerdictStands
  <2>2. /\ issued.envelope.key = "pinned" /\ StatusParses(s)
        /\ Success(s) /\ TrueOfLog(s)
    BY DEF IInv, EnvelopesTrue
  <2>3. issued.checkpoint # Null
    BY <2>1, WitnessAssumption DEF IInv, IssuedInTime
  <2>4. s.latest.checkpoint <= s.latest.treeSize
    <3>1. /\ s.latest.treeSize \in Nat
          /\ s.latest.checkpoint = LatestCheckpoint(s.latest.treeSize)
      BY <2>2 DEF TrueOfLog
    <3>2. s.latest.checkpoint \in CheckpointsIn(s.latest.treeSize)
      BY <3>1, <2>3, LatestIsNewest
    <3> QED BY <3>1, <3>2 DEF CheckpointsIn
  <2>5. Fresh(s, issued.issuedAt)
    <3>1. s.latest.observedAt \in Nat  BY <2>2 DEF TrueOfLog
    <3> QED BY <3>1, <2>2, WitnessAssumption DEF Fresh, Success
  <2>6. AuthorizationVerifies(issued)
    BY <2>2, <2>3, <2>4, <2>5 DEF AuthorizationVerifies, StatusVerifies, EnvelopeVerifies
  <2> QED BY <2>6 DEF IInv, VerdictStands
<1> QED BY <1>1, Invariance, PTL

\* A stored authorization is found to be what it was found to be at first, whenever it is
\* audited (verifyEligibilityDirectoryWitnessForAuthorization takes the time of issue).
THEOREM VerdictIsForGood == Spec => AuditsAgree
<1>1. IInv /\ [Next]_vars => [verdict # "none" => verdict' = verdict]_vars
  <2> SUFFICES ASSUME IInv, Next, verdict # "none" PROVE verdict' = verdict
    BY DEF vars
  <2>1. issued # NoAuthorization  BY DEF IInv, VerdictStands
  <2>2. CASE Audit  BY <2>2 DEF Audit, IInv, VerdictStands
  <2>3. CASE AttemptSucceeds  BY <2>3 DEF AttemptSucceeds, Report
  <2>4. CASE AttemptFails  BY <2>4 DEF AttemptFails, Report
  <2>5. CASE Tick \/ Publish \/ Redeploy \/ Issue
    BY <2>1, <2>5 DEF Tick, Publish, Redeploy, Issue
  <2> QED BY <2>2, <2>3, <2>4, <2>5 DEF Next
<1> QED BY <1>1, Invariance, PTL DEF Spec, AuditsAgree
=============================================================================
