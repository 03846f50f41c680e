---------------------------- MODULE TallyPromise ----------------------------
(***************************************************************************)
(* What the library promises about tallies, without snapshots, material,   *)
(* seals, receipt numbering or witnesses: the log only grows, and whoever  *)
(* accepts a tally accepts the counted chain tips of a log prefix that has *)
(* no fork and nothing missing.  TallyAudit implements this specification. *)
(***************************************************************************)
EXTENDS QuestionLog

CONSTANT NoReport

VARIABLE tally

Init ==
  /\ leaves = <<>>
  /\ tally = NoReport

LogGrows ==
  /\ PublishVoteEvent \/ PublishReceipt
  /\ UNCHANGED tally

AcceptTally ==
  \E n \in 0..Len(leaves) :
    /\ ~ Forked(Prefix(n)) /\ ~ Incomplete(Prefix(n))
    /\ tally' = [size |-> n, votes |-> TipVotes(Prefix(n))]
    /\ UNCHANGED leaves

Next == LogGrows \/ AcceptTally

Spec == Init /\ [][Next]_<<leaves, tally>>
=============================================================================
