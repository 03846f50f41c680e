--------------------------- MODULE MCTallyTotals ---------------------------
(* Two voters and two positions under two policies.  Rows are for or       *)
(* against, disputed, superseded, without weight, for a choice that does   *)
(* not count, of a type no rule takes, of one that only a rule for judges  *)
(* takes, and of another question.  The second policy has a rule more, and *)
(* a judge's statement matches two of its rules.  In the locale cs the     *)
(* group chambers comes after council, in en before it.  Doubles have ten  *)
(* bits, so that two votes and a statement have a sum that is rounded, and *)
(* a percentage near a half may be rounded the other way.                  *)
EXTENDS TallyTotals

CONSTANTS v1, v2, p1, p2, yes, no, unsure, none

MCVoters == {v1, v2}
MCPositions == {p1, p2}
MCChoices == {yes, no, unsure}
MCCounted == {yes, no}

Row(choice, type, credential, status) ==
  [choice |-> choice, type |-> type, credential |-> credential, status |-> status,
   isCurrent |-> TRUE, weight |-> 1, here |-> TRUE]

For == Row(yes, "statement", none, "counted")
Against == Row(no, "statement", none, "counted")
Judge == Row(yes, "opinion", "judge", "counted")
MCRows ==
  {For, Against, Judge, Row(no, "statement", "judge", "counted"),
   Row(yes, "statement", none, "disputed"), Row(unsure, "statement", none, "counted"),
   Row(yes, "opinion", none, "counted"), [For EXCEPT !.isCurrent = FALSE],
   [For EXCEPT !.weight = 0], [Against EXCEPT !.here = FALSE]}

Rule(types, classes, group, weight) ==
  [types |-> types, classes |-> classes, group |-> group, weight |-> weight]

Statements == Rule({"statement"}, none, "council", 5)
Judges == Rule({"opinion"}, {"judge"}, "chambers", 2)
JudgesToo == Rule({"statement", "opinion"}, {"judge"}, "chambers", 2)

Bound == [group |-> "council", weight |-> 994, rules |-> <<Statements, Judges>>]
Overlapping == [Bound EXCEPT !.rules = <<Statements, JudgesToo>>]

MCOrder == <<v1, v2, p1, p2>>
MCInitial == [i \in MCPositions |-> IF i = p1 THEN For ELSE Judge]
MCPolicies == {Bound, Overlapping}
MCCollation == [en |-> <<"chambers", "council">>, cs |-> <<"council", "chambers">>]
English == {"en"}
EnglishAndCzech == {"en", "cs"}
=============================================================================
