------------------------- MODULE WitnessedDirectory -------------------------
(***************************************************************************)
(* The witness of the directory's log, and what its signed status is worth *)
(* in a question authorization (packages/verifier/src/                     *)
(* witness-status-v3.ts, eligibility-directory-witness-v3.ts and           *)
(* authorization-witness-v3.ts).                                           *)
(*                                                                         *)
(* The publisher logs directory checkpoints among other entries.  A        *)
(* witness reads the log at times of its own and signs what came of it.    *)
(* The issuer of authorizations commits to a directory checkpoint and to   *)
(* one of the envelopes it holds, new or old, or to one that was signed    *)
(* with another key.  Its clock may be off.  An auditor checks the         *)
(* authorization whenever it likes.  Publisher, witness and issuer are     *)
(* programs outside this repository; the signing and the checking of a     *)
(* status are not.                                                         *)
(*                                                                         *)
(* A checkpoint is its place in the log.  Log, origin, trust root and      *)
(* witness name are the pinned ones; an envelope that was altered has no   *)
(* valid signature and is not offered.  A witness reads the log and stamps *)
(* its observation in one step.                                            *)
(***************************************************************************)
EXTENDS Integers, Sequences

CONSTANTS
  Skew,         \* the lead of the witness's clock that is tolerated: a minute
  MaximumAge,   \* QO_ELIGIBILITY_DIRECTORY_WITNESS_MAX_AGE_SECONDS
  Drift,        \* how far the issuer's clock may be off
  Rotation,     \* from this time on the policy pins the witness's second revision
  MaxTime,      \* bound on the clock
  MaxEntries,   \* bound on the log
  MaxAttempts,  \* bound on the attempts of the witness
  Failures,     \* the statuses of attempts that fail, with the kind of the failure
  Null, NoAuthorization

ASSUME WitnessAssumption ==
  /\ Skew \in Nat /\ MaximumAge \in Nat \ {0} /\ Drift \in Nat
  /\ Rotation \in Nat
  /\ MaxTime \in Nat /\ MaxEntries \in Nat /\ MaxAttempts \in Nat
  /\ Null \notin Nat
  /\ \A f \in Failures : f.status # "verified" /\ f.kind # Null

VARIABLES
  now,
  log,         \* kind and time of every entry
  revision,    \* the revision of the witness that is deployed
  statement,   \* the last status of the witness
  attempts,    \* how many it has made
  envelopes,   \* all it has signed
  issued,      \* the authorization that was issued
  verdict      \* what auditors have said of it

vars == <<now, log, revision, statement, attempts, envelopes, issued, verdict>>

PinnedRevision(time) == IF time < Rotation THEN 1 ELSE 2

Init ==
  /\ now = 0
  /\ log = <<>>
  /\ revision = 1
  /\ statement = Null
  /\ attempts = 0
  /\ envelopes = {}
  /\ issued = NoAuthorization
  /\ verdict = "none"

-----------------------------------------------------------------------------
(* The status of the witness.                                              *)

IsCheckpoint(entry) == entry.type = "eligibility_directory_checkpoint"

CheckpointsIn(size) == {i \in 1..size : IsCheckpoint(log[i])}

\* latestEntryByType of the checkpoint type, as a place in the log.
LatestCheckpoint(size) ==
  IF CheckpointsIn(size) = {} THEN Null
  ELSE CHOOSE i \in CheckpointsIn(size) : \A j \in CheckpointsIn(size) : j <= i

\* parseWitnessStatus, which signWitnessStatus and verifyWitnessStatusEnvelope both apply.
StatusParses(s) ==
  IF s.status = "verified"
  THEN s.failure = Null /\ s.latest # Null /\ s.lastSuccessAt # Null /\ s.failures = 0
  ELSE s.failure # Null

Envelope(key, s) == [key |-> key, statement |-> s]

\* Mutant of EnvelopeVerifies: the enclosed key is as good as the pinned one.
VerifiesAsEnclosed(envelope, key) == StatusParses(envelope.statement)

\* verifyWitnessStatusEnvelope with a pinned key.
EnvelopeVerifies(envelope, key) ==
  envelope.key = key /\ StatusParses(envelope.statement)

-----------------------------------------------------------------------------
(* What an authorization's witness is checked for.                         *)

\* Mutant of Fresh: the last attempt of the witness need not be the one that succeeded.
FreshSuccess(s, time) ==
  /\ s.latest # Null
  /\ s.latest.observedAt <= time + Skew
  /\ time - s.latest.observedAt <= MaximumAge

\* Mutant of Fresh: the age is that of the attempt.
FreshAttempt(s, time) ==
  /\ s.latest # Null
  /\ s.lastAttemptAt <= time + Skew
  /\ time - s.lastAttemptAt <= MaximumAge

\* Mutant of Fresh: no lead is tolerated.
FreshByOneClock(s, time) ==
  /\ s.status = "verified" /\ s.latest # Null
  /\ s.latest.observedAt <= time
  /\ time - s.latest.observedAt <= MaximumAge

Fresh(s, time) ==
  /\ s.status = "verified" /\ s.latest # Null
  /\ s.latest.observedAt = s.lastSuccessAt
  /\ s.latest.observedAt = s.lastAttemptAt
  /\ s.latest.observedAt <= time + Skew
  /\ time - s.latest.observedAt <= MaximumAge

\* verifyEligibilityDirectoryWitnessStatusV3
StatusVerifies(envelope, checkpoint, time) ==
  LET s == envelope.statement IN
  /\ EnvelopeVerifies(envelope, "pinned")
  /\ Fresh(s, time)
  /\ s.revision = PinnedRevision(time)
  /\ s.latest.checkpoint = checkpoint
  /\ s.latest.checkpoint # Null /\ s.latest.checkpoint <= s.latest.treeSize

\* Mutant of AuthorizationVerifies: checked for the time of the audit.
VerifiesToday(a) == StatusVerifies(a.envelope, a.checkpoint, now)

\* verifyEligibilityDirectoryWitnessForAuthorization
AuthorizationVerifies(a) == StatusVerifies(a.envelope, a.checkpoint, a.issuedAt)

-----------------------------------------------------------------------------
(* Publisher, witness, issuer and auditor.                                 *)

Tick ==
  /\ now < MaxTime
  /\ now' = now + 1
  /\ UNCHANGED <<log, revision, statement, attempts, envelopes, issued, verdict>>

Publish ==
  /\ Len(log) < MaxEntries
  /\ \E type \in {"eligibility_directory_checkpoint", "vote_event"} :
       log' = Append(log, [type |-> type, at |-> now])
  /\ UNCHANGED <<now, revision, statement, attempts, envelopes, issued, verdict>>

Redeploy ==
  /\ revision = 1
  /\ revision' = 2
  /\ UNCHANGED <<now, log, statement, attempts, envelopes, issued, verdict>>

\* signWitnessStatus throws on a statement that would not parse.
Report(s) ==
  /\ attempts < MaxAttempts
  /\ attempts' = attempts + 1
  /\ statement' = s
  /\ envelopes' = IF StatusParses(s) THEN envelopes \cup {Envelope("pinned", s)} ELSE envelopes
  /\ UNCHANGED <<now, log, revision, issued, verdict>>

\* The witness reads a prefix of the log that it can verify.
AttemptSucceeds ==
  Report([status |-> "verified", revision |-> revision,
          lastAttemptAt |-> now, lastSuccessAt |-> now, failures |-> 0, failure |-> Null,
          latest |-> [observedAt |-> now, treeSize |-> Len(log),
                      checkpoint |-> LatestCheckpoint(Len(log))]])

\* It does not, and what it verified before stays in its status.
AttemptFails ==
  \E f \in Failures :
    Report([status |-> f.status, revision |-> revision, lastAttemptAt |-> now,
            lastSuccessAt |-> IF statement = Null THEN Null ELSE statement.lastSuccessAt,
            failures |-> IF statement = Null THEN 1 ELSE statement.failures + 1,
            failure |-> f.kind,
            latest |-> IF statement = Null THEN Null ELSE statement.latest])

\* What anyone can sign with another key: a fresh success for any place in the log.
Foreign ==
  {Envelope("foreign",
     [status |-> "verified", revision |-> PinnedRevision(now),
      lastAttemptAt |-> now, lastSuccessAt |-> now, failures |-> 0, failure |-> Null,
      latest |-> [observedAt |-> now, treeSize |-> MaxEntries, checkpoint |-> i]]) :
   i \in 1..MaxEntries}

\* One authorization is issued: each is checked by itself.
Issue ==
  /\ issued = NoAuthorization
  /\ \E envelope \in envelopes \cup Foreign, checkpoint \in 1..MaxEntries,
        drift \in (-Drift)..Drift :
       issued' = [envelope |-> envelope, checkpoint |-> checkpoint,
                  issuedAt |-> now + drift, at |-> now]
  /\ UNCHANGED <<now, log, revision, statement, attempts, envelopes, verdict>>

Audit ==
  /\ issued # NoAuthorization
  /\ verdict' = IF AuthorizationVerifies(issued) THEN "accepted" ELSE "rejected"
  /\ UNCHANGED <<now, log, revision, statement, attempts, envelopes, issued>>

Next ==
  \/ Tick \/ Publish \/ Redeploy
  \/ AttemptSucceeds \/ AttemptFails
  \/ Issue \/ Audit

Spec == Init /\ [][Next]_vars

-----------------------------------------------------------------------------
(* Properties.                                                             *)

\* A member that a later checkpoint leaves out cannot vote for long: an accepted
\* authorization is of a checkpoint that was logged, and no newer one had been in the log
\* for longer than the maximum age and the drift of the issuer's clock when it was issued.
CheckpointWasCurrent ==
  verdict = "accepted" =>
    LET c == issued.checkpoint IN
    /\ c \in DOMAIN log /\ IsCheckpoint(log[c])
    /\ \A i \in DOMAIN log :
         i > c /\ IsCheckpoint(log[i]) => issued.at <= log[i].at + MaximumAge + Drift

\* A witness that has lost the log stops the issue of authorizations: the one accepted
\* commits to a status signed after an attempt that succeeded, by the revision that was
\* pinned for the time of issue, and not to one that reports a failure.
AcceptedOnSuccess ==
  verdict = "accepted" =>
    LET s == issued.envelope.statement IN
    /\ issued.envelope \in envelopes
    /\ s.failures = 0 /\ s.failure = Null
    /\ s.revision = 2 <=> issued.issuedAt >= Rotation

\* "a stored authorization remains auditable after the status ages"
\* (eligibility-directory-witness-v3.ts:36): later audits find what the first one found.
AuditsAgree ==
  [][verdict # "none" => verdict' = verdict]_vars

\* An issuer that does what it should is believed: a status of a success, of the pinned
\* revision, no older than the maximum age and ahead by no more than the tolerated lead,
\* with the checkpoint that it names, is accepted, at both ends of the window.
SoundIssueAccepted ==
  /\ verdict # "none"
  /\ issued.envelope \in envelopes
  /\ issued.envelope.statement.status = "verified"
  /\ issued.envelope.statement.revision = PinnedRevision(issued.issuedAt)
  /\ issued.envelope.statement.latest.checkpoint = issued.checkpoint
  /\ issued.issuedAt \in (issued.envelope.statement.latest.observedAt - Skew)
                           ..(issued.envelope.statement.latest.observedAt + MaximumAge)
  => verdict = "accepted"
=============================================================================
