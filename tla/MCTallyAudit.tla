---------------------------- MODULE MCTallyAudit -----------------------------
(* Two small worlds for TallyAudit.  In  the first, votes: a fork of the first     *)
(* cast, a replacement, and an event signed after its authorization expired.  In   *)
(* the second, decisions: a vote that is withdrawn, and a chain of adjudications   *)
(* with a fork that excludes it and counts it again.                               *)
EXTENDS TallyAudit

CONSTANTS n1, n2, yes, no, unsure, q, voteLog, none

MCNullifiers == {n1, n2}
MCSeals == {[issuedAt |-> 2], [issuedAt |-> 3]}
OneSeal == {[issuedAt |-> 2]}
MCChoices == {yes, no, unsure}
MCCounted == {yes, no}

Authorization(n, k) ==
  [context |-> q, nullifier |-> n, key |-> k, issuedAt |-> 0, expiresAt |-> 2]

Event(id, n, type, choice, seq, previous, at) ==
  [eventId |-> id, context |-> q, nullifier |-> n, authorization |-> Authorization(n, id),
   key |-> id, eventType |-> type, choice |-> choice, sequence |-> seq,
   previous |-> previous, issuedAt |-> at]

Receipt(id, schema, e, seq, status, previous) ==
  [receiptId |-> id, logId |-> voteLog, schema |-> schema, event |-> e, sequence |-> seq,
   status |-> status, previous |-> previous]

Cast     == Event(1, n1, "cast", yes, 1, none, 0)
Recast   == Event(2, n1, "cast", unsure, 1, none, 1)
Replace  == Event(3, n1, "replace", no, 2, Cast, 1)
Late     == Event(4, n2, "cast", yes, 1, none, 2)
Withdraw == Event(5, n1, "withdraw", none, 2, Cast, 1)

Acceptance(e) == Receipt(e.eventId, "acceptance", e, 1, "counted", none)
Excluded == Receipt(7, "adjudication", Cast, 2, "excluded", Acceptance(Cast))
Rejected == Receipt(8, "adjudication", Cast, 2, "rejected", Acceptance(Cast))
Restored == Receipt(9, "adjudication", Cast, 3, "counted", Excluded)

VotesEvents == {Cast, Recast, Replace, Late}
DecisionsEvents == {Cast, Withdraw}
MCEvents == VotesEvents \cup DecisionsEvents

VotesReceipts == {Acceptance(e) : e \in VotesEvents}
DecisionsReceipts ==
  {Acceptance(e) : e \in DecisionsEvents} \cup {Excluded, Rejected, Restored}
MCReceipts == VotesReceipts \cup DecisionsReceipts

LogWithin(events, receipts) ==
  \A i \in DOMAIN leaves : leaves[i].payload \in events \cup receipts

AppendedOnce == \A i, j \in DOMAIN leaves : leaves[i] = leaves[j] => i = j

\* A log with an entry that was appended twice stays at three.
VotesWorld ==
  /\ Len(leaves) <= IF AppendedOnce THEN 4 ELSE 3
  /\ LogWithin(VotesEvents, VotesReceipts)

\* The service never appends an entry that is in the log already, and the auditor has no
\* witness.
DecisionsWorld ==
  /\ LogWithin(DecisionsEvents, DecisionsReceipts)
  /\ AppendedOnce
  /\ witnessed = NoHead

OneWorld == VotesWorld \/ DecisionsWorld
=============================================================================
