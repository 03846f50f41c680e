----------------------------- MODULE TallyAudit -----------------------------
(***************************************************************************)
(* An auditor of one question's log.                                       *)
(*                                                                         *)
(* The auditor (a caller of the library) keeps the newest tree head that   *)
(* it obtained from a witness, if it has one, and the last tally that the  *)
(* library verified.  Snapshots of any size, old or new, reach it with any *)
(* material.  The library must give it the right tally, or none: a         *)
(* rejected snapshot leaves the auditor as it was.                         *)
(***************************************************************************)
EXTENDS QuestionLog

CONSTANTS
  NoHead,    \* no independently obtained head yet
  NoReport   \* no verified tally yet

VARIABLES
  witnessed,  \* size and seal of the independently obtained latest tree head
  report      \* the last verified tally: its size and its direct votes

vars == <<leaves, witnessed, report>>

Init ==
  /\ leaves = <<>>
  /\ witnessed = NoHead
  /\ report = NoReport

LogGrows ==
  /\ PublishVoteEvent \/ PublishReceipt
  /\ UNCHANGED <<witnessed, report>>

\* Mutant of WitnessLatestHead: the size counts from one.
WitnessNextHead ==
  /\ \E seal \in Seals : witnessed' = [size |-> Len(leaves) + 1, seal |-> seal]
  /\ UNCHANGED <<leaves, report>>

\* The auditor learns the head the log has now from a channel of its own.
WitnessLatestHead ==
  /\ \E seal \in Seals : witnessed' = [size |-> Len(leaves), seal |-> seal]
  /\ UNCHANGED <<leaves, report>>

ExpectedLatest ==
  IF witnessed = NoHead THEN {} ELSE {HeadAt(witnessed.size, witnessed.seal)}

\* A snapshot of some size is offered with its material and verifies.
VerifySnapshot ==
  \E n \in 0..Len(leaves), seal \in Seals : \E in \in Offers(n, seal) :
    /\ SnapshotVerifies(in, ExpectedLatest)
    /\ report' = [size |-> n, votes |-> AcceptedDirectVotes(in)]
    /\ UNCHANGED <<leaves, witnessed>>

Next ==
  \/ LogGrows
  \/ WitnessLatestHead
  \/ VerifySnapshot

Spec == Init /\ [][Next]_vars

-----------------------------------------------------------------------------
(* Properties.                                                             *)

\* Every variable has its type.
TypeOK ==
  /\ leaves \in Seq(Leaves)
  /\ witnessed = NoHead \/ /\ witnessed.size \in 0..Len(leaves)
                           /\ witnessed.seal \in Seals
  /\ report = NoReport \/ /\ report.size \in 0..Len(leaves)
                          /\ report.votes \subseteq Vote

\* A verified tally is exactly the set of counted chain tips in the log prefix of its
\* checkpoint, whatever the material it was replayed from: replayTallyV3 picks
\* the largest sequence and the last receipt, the voters and the service meant the
\* event and the receipt that nothing in the log links back to.
ReportIsTipVotes ==
  report # NoReport => report.votes = TipVotes(Prefix(report.size))

\* No verified tally covers a fork, an event without a receipt, a receipt of an
\* unlogged event or a doubled entry.  The log being append-only, one concurrent
\* replacement that got logged bars every later checkpoint for good, while an event
\* still waiting for its acceptance bars only the checkpoints in between.
ReportCoversSoundPrefix ==
  report # NoReport =>
    ~ Forked(Prefix(report.size)) /\ ~ Incomplete(Prefix(report.size))

\* An auditor never accepts anything but what TallyPromise allows.
Promise == INSTANCE TallyPromise WITH tally <- report

KeepsPromise == Promise!Spec

\* An event that was superseded at a verified checkpoint counts at no checkpoint of
\* that size or larger that is verified afterwards, whatever adjudication arrives.
SupersededForGood ==
  [][report # NoReport /\ report' # NoReport /\ report'.size >= report.size
       => \A v \in report'.votes : v.event \notin Superseded(Prefix(report.size))]_vars

\* An auditor that has a witnessed head trusts no tally of a larger checkpoint: until it
\* asks its witness again, what the service signs meanwhile moves it nowhere.
ReportWithinWitness ==
  witnessed # NoHead /\ report # NoReport => report.size <= witnessed.size

\* With a witnessed head, an auditor is never taken back to a smaller checkpoint than
\* the one it has verified, however many older snapshots still verify by themselves.
ReportNeverRollsBack ==
  [][report # NoReport /\ report' # report /\ witnessed # NoHead
       => report'.size >= report.size]_vars
=============================================================================
