---------------------------- MODULE TallyTotals ----------------------------
(***************************************************************************)
(* The totals of a tally (packages/protocol/src/tally-v3.ts): how the      *)
(* accepted direct votes and the source positions become counts, weights,  *)
(* groups and percentages, and how a published snapshot of them is checked *)
(* by whoever replays it, while votes, positions and the service's tally   *)
(* policy go on changing.                                                  *)
(*                                                                         *)
(* TallyReplay.tla says which direct votes are accepted; here a voter just *)
(* has one vote or none.  The service keeps the positions and sees to it   *)
(* that each is in an input set once: nothing in the library compares      *)
(* their identifiers.  Weights are doubles and added up as such, in the    *)
(* order of the input set; percentages are in units of the last decimal    *)
(* place.  Group results are a list that is put in order with              *)
(* localeCompare, and so by the collation of the locale the process runs   *)
(* in; lists are compared entry by entry.                                  *)
(***************************************************************************)
EXTENDS Doubles, Sequences, FiniteSets, Functions

CONSTANTS
  Voters,          \* the voters of the question
  Choices,         \* the choices of its ballot manifest
  CountedChoices,  \* those of them with isCounted
  Positions,       \* the identifiers of source positions
  Order,           \* voters by nullifier, then positions by identifier
  Rows,            \* the values a source position may have
  Initial,         \* the value of each position at first
  Policies,        \* the tally policies the service may use
  BoundPolicy,     \* the one the question's manifest binds
  Collation,       \* the order of all group codes in each locale
  ServiceLocale,   \* the locale the service runs in
  AuditorLocales,  \* the locales auditors run in
  Units,           \* ten to the number of decimal places
  MaxChanges,      \* bound on the changes of votes, positions and policy
  NoVote, Null, NoSnapshot, NoReport

ASSUME TotalsAssumption ==
  /\ CountedChoices \subseteq Choices /\ NoVote \notin Choices
  /\ IsFiniteSet(Voters) /\ IsFiniteSet(Choices) /\ IsFiniteSet(Positions)
  /\ Voters \cap Positions = {} /\ Range(Order) = Voters \cup Positions
  /\ Order \in Seq(Range(Order)) /\ IsInjective(Order)
  /\ Initial \in [Positions -> Rows]
  /\ BoundPolicy \in Policies
  /\ ServiceLocale \in DOMAIN Collation /\ AuditorLocales \subseteq DOMAIN Collation
  /\ Units \in Nat \ {0} /\ MaxChanges \in Nat
  /\ \A p \in Policies :
       /\ p = [group |-> p.group, weight |-> p.weight, rules |-> p.rules]
       /\ p.rules \in Seq(Range(p.rules))
       /\ \A w \in {p.weight} \cup {p.rules[i].weight : i \in DOMAIN p.rules} :
            w \in Nat \ {0} /\ IsDouble(w)
  /\ \A codes \in Range(Collation) :
       /\ codes \in Seq(Range(codes)) /\ IsInjective(codes)
       /\ \A p \in Policies :
            {p.group} \cup {p.rules[i].group : i \in DOMAIN p.rules} \subseteq Range(codes)

VARIABLES
  votes,      \* the accepted vote of each voter
  positions,  \* the source positions
  policy,     \* the policy the service uses
  snapshot,   \* the last published snapshot
  report,     \* the last tally that an auditor verified
  changes

world == <<votes, positions, policy, changes>>
vars == <<votes, positions, policy, snapshot, report, changes>>

Init ==
  /\ votes = [v \in Voters |-> NoVote]
  /\ positions = Initial
  /\ policy = BoundPolicy
  /\ snapshot = NoSnapshot
  /\ report = NoReport
  /\ changes = 0

-----------------------------------------------------------------------------
(* Which inputs count.                                                     *)

\* Indices of the rules that match.  A rule without credential classes takes every row.
MatchingSourceRules(p, row) ==
  {i \in DOMAIN p.rules :
     /\ row.type \in p.rules[i].types
     /\ p.rules[i].classes # Null =>
          row.credential # Null /\ row.credential \in p.rules[i].classes}

IsCountablePosition(row) == row.status = "counted" /\ row.isCurrent /\ row.weight > 0

\* Mutant of InputsOK: rows that match two rules are let through.
BoundAndHere(p, in) ==
  /\ in.binds = p
  /\ \A i \in DOMAIN in.positions : in.positions[i].here

\* Mutant of InputsOK: any policy will do.
HereAndUnambiguous(p, in) ==
  \A i \in DOMAIN in.positions :
    in.positions[i].here /\ Cardinality(MatchingSourceRules(p, in.positions[i])) <= 1

\* What validateReplayGraphV3 asks of policy and positions, countable or not.
InputsOK(p, in) ==
  /\ in.binds = p
  /\ \A i \in DOMAIN in.positions :
       /\ in.positions[i].here
       /\ Cardinality(MatchingSourceRules(p, in.positions[i])) <= 1

CountedDirect(p, in) ==
  {[kind |-> "direct_vote", of |-> v, choice |-> in.votes[v], group |-> p.group,
    weight |-> p.weight] : v \in {w \in Voters : in.votes[w] \in CountedChoices}}

\* Mutant of CountedSource: a position is dropped when a vote for its choice is there.
SuppressedSource(p, in) ==
  {s \in [kind : {"source_position"}, of : DOMAIN in.positions, choice : CountedChoices,
          group : {p.rules[i].group : i \in DOMAIN p.rules},
          weight : {p.rules[i].weight : i \in DOMAIN p.rules}] :
     LET row == in.positions[s.of] IN
     /\ IsCountablePosition(row) /\ row.choice = s.choice
     /\ \A v \in Voters : in.votes[v] # s.choice
     /\ \E i \in MatchingSourceRules(p, row) :
          p.rules[i].group = s.group /\ p.rules[i].weight = s.weight}

\* A position takes group and weight of the first rule that matches, and no rule, no count.
CountedSource(p, in) ==
  LET first(row) == CHOOSE i \in MatchingSourceRules(p, row) :
                      \A j \in MatchingSourceRules(p, row) : i <= j
      takes(i)   == LET row == in.positions[i] IN
                    /\ IsCountablePosition(row) /\ row.choice \in CountedChoices
                    /\ MatchingSourceRules(p, row) # {}
  IN  {[kind |-> "source_position", of |-> i, choice |-> in.positions[i].choice,
        group |-> p.rules[first(in.positions[i])].group,
        weight |-> p.rules[first(in.positions[i])].weight] :
          i \in {j \in DOMAIN in.positions : takes(j)}}

-----------------------------------------------------------------------------
(* replayTallyV3: the result.                                              *)

\* The weights are added up one after the other, in the order of the input set.
Weight(counted) ==
  LET at(i) == {x \in counted : x.of = Order[i]}
      sum[i \in Nat] ==
        IF i = 0 THEN 0
        ELSE IF at(i) = {} THEN sum[i - 1]
        ELSE Plus(sum[i - 1], (CHOOSE x \in at(i) : TRUE).weight)
  IN  sum[Len(Order)]

\* Mutant of Percentage: rounded down.
Truncated(numerator, denominator) ==
  IF denominator = 0 THEN 0
  ELSE (Units * Hundredfold(Quotient(numerator, denominator))) \div One

Percentage(numerator, denominator) ==
  IF denominator = 0 THEN 0
  ELSE Fixed(Hundredfold(Quotient(numerator, denominator)), Units)

\* Group codes as localeCompare orders them.
Sorted(codes, locale) ==
  LET place(g) == CHOOSE i \in DOMAIN Collation[locale] : Collation[locale][i] = g
  IN  CHOOSE list \in [1..Cardinality(codes) -> codes] :
        \A i, j \in DOMAIN list : i < j => place(list[i]) < place(list[j])

\* Mutant of AggregateGroups: a group that is there already is counted again, but its
\* weight is not added.
FirstWeightOnly(counted, locale) ==
  LET of(g) == {x \in counted : x.group = g}
      codes == Sorted({x.group : x \in counted}, locale)
  IN  [i \in DOMAIN codes |->
         [group |-> codes[i], count |-> Cardinality(of(codes[i])),
          weight |-> (CHOOSE x \in of(codes[i]) : TRUE).weight]]

AggregateGroups(counted, locale) ==
  LET of(g) == {x \in counted : x.group = g}
      codes == Sorted({x.group : x \in counted}, locale)
  IN  [i \in DOMAIN codes |->
         [group |-> codes[i], count |-> Cardinality(of(codes[i])),
          weight |-> Weight(of(codes[i]))]]

ChoiceResult(counted, c, locale) ==
  LET matching == {x \in counted : x.choice = c} IN
  [count |-> Cardinality(matching), weight |-> Weight(matching),
   rawPercentage |-> Percentage(Cardinality(matching), Cardinality(counted)),
   weightedPercentage |-> Percentage(Weight(matching), Weight(counted)),
   groups |-> AggregateGroups(matching, locale)]

Counted(p, in) == CountedDirect(p, in) \cup CountedSource(p, in)

Result(p, in, locale) ==
  LET direct  == CountedDirect(p, in)
      source  == CountedSource(p, in)
      counted == Counted(p, in)
  IN  [totalCount |-> Cardinality(counted), totalWeight |-> Weight(counted),
       directVoteCount |-> Cardinality(direct),
       sourcePositionCount |-> Cardinality(source),
       disputedCount |->
         Cardinality({i \in DOMAIN in.positions : in.positions[i].status = "disputed"}),
       groups |-> AggregateGroups(counted, locale),
       choices |-> [c \in CountedChoices |-> ChoiceResult(counted, c, locale)]]

\* verifyTallySnapshotStructureV3, in a process of this locale; pinned holds the policy
\* the caller passed, if it passed one.
SnapshotVerifies(s, in, pinned, locale) ==
  /\ \A p \in pinned : s.policy = p
  /\ s.in = in
  /\ InputsOK(s.policy, in)
  /\ s.result = Result(s.policy, in, locale)

-----------------------------------------------------------------------------
(* The world and the service.                                              *)

Inputs == [votes |-> votes, positions |-> positions, binds |-> BoundPolicy]

Change == changes < MaxChanges /\ changes' = changes + 1

\* A vote is cast, replaced or withdrawn, or a decision on it changes.
ChangeVote ==
  /\ Change
  /\ \E v \in Voters, c \in (Choices \cup {NoVote}) :
       votes' = [votes EXCEPT ![v] = c]
  /\ UNCHANGED <<positions, policy, snapshot, report>>

\* A position is reviewed, disputed, superseded or classified anew.
ChangePosition ==
  /\ Change
  /\ \E i \in Positions, row \in Rows : positions' = [positions EXCEPT ![i] = row]
  /\ UNCHANGED <<votes, policy, snapshot, report>>

ChangePolicy ==
  /\ Change
  /\ \E p \in Policies : policy' = p
  /\ UNCHANGED <<votes, positions, snapshot, report>>

\* buildTallySnapshotV3, which replays and throws what the replay throws.  Whoever writes
\* a snapshot without it may put any result, policy and inputs together: the ones of now.
PublishSnapshot ==
  /\ \E built \in BOOLEAN :
       /\ built => InputsOK(policy, Inputs)
       /\ snapshot' = [policy |-> policy, in |-> Inputs,
                       result |-> Result(policy, Inputs, ServiceLocale), built |-> built]
  /\ UNCHANGED <<world, report>>

\* An auditor is handed the snapshot with its own inputs or with those of now.
VerifySnapshot ==
  /\ snapshot # NoSnapshot
  /\ \E in \in {snapshot.in, Inputs}, pinned \in {{}} \cup {{p} : p \in Policies},
        locale \in AuditorLocales :
       /\ SnapshotVerifies(snapshot, in, pinned, locale)
       /\ report' = [in |-> in, policy |-> snapshot.policy, result |-> snapshot.result]
  /\ UNCHANGED <<world, snapshot>>

Next ==
  \/ ChangeVote \/ ChangePosition \/ ChangePolicy
  \/ PublishSnapshot \/ VerifySnapshot

Spec == Init /\ [][Next]_vars

-----------------------------------------------------------------------------
(* Properties.                                                             *)

Total(list, field) == SumFunctionOnSet([i \in DOMAIN list |-> list[i][field]], DOMAIN list)
Over(choices, field) ==
  SumFunctionOnSet([c \in CountedChoices |-> choices[c][field]], CountedChoices)

\* What no rounding is lost in: the weights of every part have a sum that is a double.
ExactWeight(part) == SumFunctionOnSet([x \in part |-> x.weight], part)
AddsExactly(counted) == \A part \in SUBSET counted : IsDouble(ExactWeight(part))

\* The figures of a verified tally agree with one another.  Both channels, all groups and
\* all choices add up to the same counts, and the groups of a choice to the choice.  So
\* do the weights where sums are exact; where they are rounded, differently for the parts
\* and for the whole, no choice and no group outweighs the whole.
TotalsReconcile ==
  report # NoReport =>
    LET r == report.result IN
    /\ r.totalCount = r.directVoteCount + r.sourcePositionCount
    /\ r.totalCount = Total(r.groups, "count")
    /\ r.totalCount = Over(r.choices, "count")
    /\ \A c \in CountedChoices : r.choices[c].count = Total(r.choices[c].groups, "count")
    /\ \A i \in DOMAIN r.groups : r.groups[i].weight <= r.totalWeight
    /\ \A c \in CountedChoices : r.choices[c].weight <= r.totalWeight
    /\ AddsExactly(Counted(report.policy, report.in)) =>
         /\ r.totalWeight = Total(r.groups, "weight")
         /\ r.totalWeight = Over(r.choices, "weight")
         /\ \A c \in CountedChoices :
              r.choices[c].weight = Total(r.choices[c].groups, "weight")

\* Published percentages are off by half a unit of the last place at most, and by what the
\* rounding of the quotient and of its hundredfold may add, keep the order of the counts
\* and weights they stand for, and are 0 when nothing counted.
Near(percentage, part, whole) ==
  LET off  == percentage * whole - 100 * Units * part
      size == IF off < 0 THEN -off ELSE off
  IN  2^Precision * (2 * size - whole) <= 400 * Units * whole

PercentagesAreFaithful ==
  report # NoReport =>
    LET r == report.result IN
    \A c \in CountedChoices :
      LET x == r.choices[c] IN
      /\ Near(x.rawPercentage, x.count, r.totalCount)
      /\ Near(x.weightedPercentage, x.weight, r.totalWeight)
      /\ r.totalCount = 0 => x.rawPercentage = 0 /\ x.weightedPercentage = 0
      /\ \A d \in CountedChoices :
           /\ x.count <= r.choices[d].count =>
                x.rawPercentage <= r.choices[d].rawPercentage
           /\ x.weight <= r.choices[d].weight =>
                x.weightedPercentage <= r.choices[d].weightedPercentage

\* A verified tally does not depend on the order in which the policy lists its rules: what
\* no rule takes is left out, what one rule takes is in its group, nothing is taken twice.
RuleOrderIsIrrelevant ==
  report # NoReport =>
    LET rules    == report.policy.rules
        reversed == [i \in DOMAIN rules |-> rules[Len(rules) + 1 - i]]
    IN  Result([report.policy EXCEPT !.rules = reversed], report.in, ServiceLocale).groups
          = report.result.groups

\* "independent_channels": when only ballots changed from one verified tally to the next,
\* every choice keeps what source positions gave it (tally-v3.ts, lines 58 to 63).
Indirect(r, c) ==
  r.result.choices[c].count - Cardinality({v \in Voters : r.in.votes[v] = c})

ChannelsAreIndependent ==
  [][report # NoReport /\ report.in.positions = report'.in.positions
       /\ report.policy = report'.policy =>
       \A c \in CountedChoices : Indirect(report, c) = Indirect(report', c)]_report

\* A tally is verified under the policy the voters' manifest binds and under no other, also
\* when the auditor pins none and takes the policy from the snapshot.
VerifiedUnderBoundPolicy == report # NoReport => report.policy = BoundPolicy

\* "an independent verifier can ... replay tally inputs deterministically"
\* (docs/threat-model.md:14): what the service built verifies with its own inputs.
BuiltSnapshotsVerify ==
  snapshot # NoSnapshot /\ snapshot.built =>
    \A locale \in AuditorLocales : SnapshotVerifies(snapshot, snapshot.in, {}, locale)
=============================================================================
