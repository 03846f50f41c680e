-------------------------- MODULE TallyTotals_proofs --------------------------
(* Proofs about the totals of a tally, for any voters, positions and policies and   *)
(* any precision of doubles: the policy a tally is verified under, the order of its *)
(* rules, that channels are counted apart, that the figures add up, exactly or as   *)
(* far as rounding lets them, and how near the published percentages are.           *)
EXTENDS TallyTotals, FiniteSetTheorems, WellFoundedInduction, TLAPS

-------------------------------------------------------------------------------
(* The inductive invariant: what was published is the result of the inputs it      *)
(* names, and what was verified passed the checks of the replay.                  *)

WorldOK == policy \in Policies /\ positions \in [Positions -> Rows]

SnapshotOK ==
  snapshot # NoSnapshot =>
    /\ snapshot.policy \in Policies
    /\ snapshot.in.binds = BoundPolicy /\ snapshot.in.positions \in [Positions -> Rows]
    /\ snapshot.result = Result(snapshot.policy, snapshot.in, ServiceLocale)

VerifiedOK(r) ==
  /\ r.policy \in Policies
  /\ r.in.binds = BoundPolicy /\ r.in.positions \in [Positions -> Rows]
  /\ r.result = Result(r.policy, r.in, ServiceLocale)
  /\ InputsOK(r.policy, r.in)

ReportOK == report # NoReport => VerifiedOK(report)

IInv == WorldOK /\ SnapshotOK /\ ReportOK

LEMMA Initially == Init => IInv
BY TotalsAssumption DEF Init, IInv, WorldOK, SnapshotOK, ReportOK

\* The world changes: neither snapshot nor report does.
LEMMA WorldStep == IInv /\ (ChangeVote \/ ChangePosition \/ ChangePolicy) => IInv'
<1> SUFFICES ASSUME IInv, ChangeVote \/ ChangePosition \/ ChangePolicy PROVE IInv'
  OBVIOUS
<1>1. snapshot' = snapshot /\ report' = report
  BY DEF ChangeVote, ChangePosition, ChangePolicy
<1>2. policy' \in Policies
  BY DEF IInv, WorldOK, ChangeVote, ChangePosition, ChangePolicy
<1>3. positions' \in [Positions -> Rows]
  BY DEF IInv, WorldOK, ChangeVote, ChangePosition, ChangePolicy
<1> QED BY <1>1, <1>2, <1>3 DEF IInv, WorldOK, SnapshotOK, ReportOK

LEMMA PublishStep == IInv /\ PublishSnapshot => IInv'
<1> SUFFICES ASSUME IInv, PublishSnapshot PROVE IInv'
  OBVIOUS
<1>1. policy' = policy /\ positions' = positions /\ report' = report
  BY DEF PublishSnapshot, world
<1>2. PICK built \in BOOLEAN :
        snapshot' = [policy |-> policy, in |-> Inputs,
                     result |-> Result(policy, Inputs, ServiceLocale), built |-> built]
  BY DEF PublishSnapshot
<1>3. Inputs.binds = BoundPolicy /\ Inputs.positions = positions
  BY DEF Inputs
<1>4. SnapshotOK'
  BY <1>2, <1>3 DEF IInv, WorldOK, SnapshotOK
<1> QED BY <1>1, <1>4 DEF IInv, WorldOK, ReportOK

LEMMA VerifyStep == IInv /\ VerifySnapshot => IInv' /\ VerifiedOK(report')
<1> SUFFICES ASSUME IInv, VerifySnapshot PROVE IInv' /\ VerifiedOK(report')
  OBVIOUS
<1>1. policy' = policy /\ positions' = positions /\ snapshot' = snapshot
  BY DEF VerifySnapshot, world
<1>2. PICK in \in {snapshot.in, Inputs}, pinned \in {{}} \cup {{p} : p \in Policies},
           locale \in AuditorLocales :
        /\ SnapshotVerifies(snapshot, in, pinned, locale)
        /\ report' = [in |-> in, policy |-> snapshot.policy, result |-> snapshot.result]
  BY DEF VerifySnapshot
<1>3. in = snapshot.in /\ InputsOK(snapshot.policy, in)
  BY <1>2 DEF SnapshotVerifies
<1>4. snapshot # NoSnapshot
  BY DEF VerifySnapshot
<1>5. VerifiedOK(report')
  BY <1>2, <1>3, <1>4 DEF IInv, SnapshotOK, VerifiedOK
<1> QED BY <1>1, <1>5 DEF IInv, WorldOK, SnapshotOK, ReportOK

LEMMA StutterStep == IInv /\ UNCHANGED vars => IInv'
BY DEF vars, IInv, WorldOK, SnapshotOK, ReportOK

\* The inductive invariant holds in every state: a verified tally has the result that its
\* own policy and inputs give.
THEOREM Invariant == Spec => []IInv
<1>1. IInv /\ [Next]_vars => IInv'
  BY WorldStep, PublishStep, VerifyStep, StutterStep DEF Next
<1> QED BY Initially, <1>1, PTL DEF Spec

-------------------------------------------------------------------------------
(* The policy.                                                                    *)

\* Whoever verifies a snapshot, with a policy of their own or without, verifies it under
\* the policy that the voters' manifest binds.
THEOREM OnlyTheBoundPolicy == Spec => []VerifiedUnderBoundPolicy
<1>1. IInv => VerifiedUnderBoundPolicy
  BY DEF IInv, ReportOK, VerifiedOK, InputsOK, VerifiedUnderBoundPolicy
<1> QED BY <1>1, Invariant, PTL

\* The first rule that matches a row.
FirstRule(p, row) ==
  CHOOSE i \in MatchingSourceRules(p, row) :
    \A j \in MatchingSourceRules(p, row) : i <= j

Takes(p, row) ==
  /\ IsCountablePosition(row) /\ row.choice \in CountedChoices
  /\ MatchingSourceRules(p, row) # {}

\* What source positions count, as a function of policy and positions.
SourceOf(p, at) ==
  {[kind |-> "source_position", of |-> i, choice |-> at[i].choice,
    group |-> p.rules[FirstRule(p, at[i])].group,
    weight |-> p.rules[FirstRule(p, at[i])].weight] : i \in {j \in DOMAIN at : Takes(p, at[j])}}

\* What CountedSource says, by name.
LEMMA SourceForm ==
  ASSUME NEW p, NEW in
  PROVE  CountedSource(p, in) = SourceOf(p, in.positions)
BY DEF CountedSource, SourceOf, FirstRule, Takes

\* A row that matches at most one rule takes that rule.
LEMMA OnlyRule ==
  ASSUME NEW p \in Policies, NEW row,
         Cardinality(MatchingSourceRules(p, row)) <= 1, MatchingSourceRules(p, row) # {}
  PROVE  \E i \in DOMAIN p.rules : MatchingSourceRules(p, row) = {i} /\ FirstRule(p, row) = i
<1> DEFINE M == MatchingSourceRules(p, row)
<1>1. p.rules \in Seq(Range(p.rules))
  BY TotalsAssumption
<1>2. M \subseteq DOMAIN p.rules
  BY DEF MatchingSourceRules
<1>3. DOMAIN p.rules = 1..Len(p.rules) /\ Len(p.rules) \in Nat
  BY <1>1
<1>4. IsFiniteSet(M)
  <2>1. IsFiniteSet(1..Len(p.rules))
    BY <1>3, FS_Interval
  <2> QED BY <1>2, <1>3, <2>1, FS_Subset
<1> HIDE DEF M
<1>5. M # {} /\ Cardinality(M) <= 1
  BY DEF M
<1>6. PICK i : M = {i}
  <2>1. Cardinality(M) \in Nat /\ Cardinality(M) # 0
    BY <1>4, <1>5, FS_CardinalityType, FS_EmptySet
  <2>2. Cardinality(M) = 1
    BY <1>5, <2>1
  <2> QED BY <1>4, <2>2, FS_Singleton
<1>7. i \in DOMAIN p.rules /\ i \in Nat
  BY <1>2, <1>3, <1>6
<1>8. FirstRule(p, row) = i
  BY <1>6, <1>7 DEF FirstRule, M
<1> QED BY <1>6, <1>7, <1>8 DEF M

Reversed(rules) == [i \in DOMAIN rules |-> rules[Len(rules) + 1 - i]]

\* A row that matches at most one rule takes the same rule from the list and from the
\* reversed list.
LEMMA SameRule ==
  ASSUME NEW p \in Policies, NEW row,
         Cardinality(MatchingSourceRules(p, row)) <= 1
  PROVE  LET r == [p EXCEPT !.rules = Reversed(p.rules)] IN
         /\ MatchingSourceRules(r, row) = {} <=> MatchingSourceRules(p, row) = {}
         /\ MatchingSourceRules(p, row) # {} =>
              r.rules[FirstRule(r, row)] = p.rules[FirstRule(p, row)]
<1> DEFINE rules == p.rules
           n == Len(rules)
           r == [p EXCEPT !.rules = Reversed(rules)]
           M == MatchingSourceRules(p, row)
           W == MatchingSourceRules(r, row)
<1>1. /\ p = [group |-> p.group, weight |-> p.weight, rules |-> p.rules]
      /\ rules \in Seq(Range(rules))
  BY TotalsAssumption
<1>2. n \in Nat /\ DOMAIN rules = 1..n
  BY <1>1
<1>3. r.rules = Reversed(rules)
  BY <1>1
<1>4. DOMAIN r.rules = 1..n /\ \A i \in 1..n : r.rules[i] = rules[n + 1 - i]
  BY <1>2, <1>3 DEF Reversed
<1>5. \A i \in 1..n : n + 1 - i \in 1..n /\ n + 1 - (n + 1 - i) = i
  BY <1>2
<1> HIDE DEF r
<1>6. M \subseteq 1..n /\ W \subseteq 1..n
  BY <1>2, <1>4 DEF MatchingSourceRules
<1>7. \A i \in 1..n : i \in W <=> n + 1 - i \in M
  BY <1>2, <1>4, <1>5 DEF MatchingSourceRules
<1> HIDE DEF rules, n, M, W
<1>8. W = {} <=> M = {}
  BY <1>5, <1>6, <1>7
<1>9. ASSUME M # {}
      PROVE  r.rules[FirstRule(r, row)] = p.rules[FirstRule(p, row)]
  <2>1. Cardinality(M) <= 1
    BY DEF M
  <2>2. PICK i : M = {i} /\ FirstRule(p, row) = i
    BY <1>9, <2>1, OnlyRule DEF M
  <2>3. i \in 1..n
    BY <1>6, <2>2
  <2>4. W = {n + 1 - i}
    <3>1. n + 1 - i \in W
      BY <1>5, <1>7, <2>2, <2>3
    <3>2. ASSUME NEW j \in W
          PROVE  j = n + 1 - i
      <4>1. j \in 1..n /\ n + 1 - j = i
        BY <1>6, <1>7, <2>2
      <4> QED BY <4>1, <1>2, <2>3
    <3> QED BY <3>1, <3>2
  <2>5. FirstRule(r, row) = n + 1 - i
    <3>1. n + 1 - i \in Int
      BY <1>2, <2>3
    <3> QED BY <2>4, <3>1 DEF FirstRule, W
  <2> QED BY <1>4, <1>5, <2>2, <2>3, <2>5 DEF rules
<1> QED BY <1>8, <1>9 DEF r, rules, M, W

\* A verified tally does not depend on the order in which its policy lists the rules: the
\* replay has refused every row that matches more than one (validateReplayGraphV3), so
\* taking the first that matches (matchingSourceRules) is taking the only one.
THEOREM NoRulePrecedence == Spec => []RuleOrderIsIrrelevant
<1>1. ASSUME IInv, report # NoReport
      PROVE  Result([report.policy EXCEPT !.rules = Reversed(report.policy.rules)],
                    report.in, ServiceLocale).groups = report.result.groups
  <2> DEFINE p == report.policy
             in == report.in
             r == [p EXCEPT !.rules = Reversed(p.rules)]
  <2>1. /\ p \in Policies /\ InputsOK(p, in)
        /\ report.result = Result(p, in, ServiceLocale)
    BY <1>1 DEF IInv, ReportOK, VerifiedOK
  <2>2. p = [group |-> p.group, weight |-> p.weight, rules |-> p.rules]
    BY <2>1, TotalsAssumption
  <2>3. r.group = p.group /\ r.weight = p.weight
    BY <2>2
  <2>4. \A i \in DOMAIN in.positions : Cardinality(MatchingSourceRules(p, in.positions[i])) <= 1
    BY <2>1 DEF InputsOK
  <2>5. ASSUME NEW i \in DOMAIN in.positions
        PROVE  /\ Takes(r, in.positions[i]) <=> Takes(p, in.positions[i])
               /\ Takes(p, in.positions[i]) =>
                    r.rules[FirstRule(r, in.positions[i])]
                      = p.rules[FirstRule(p, in.positions[i])]
    <3> DEFINE row == in.positions[i]
    <3>1. Cardinality(MatchingSourceRules(p, row)) <= 1
      BY <2>4
    <3>2. /\ MatchingSourceRules(r, row) = {} <=> MatchingSourceRules(p, row) = {}
          /\ MatchingSourceRules(p, row) # {} =>
               r.rules[FirstRule(r, row)] = p.rules[FirstRule(p, row)]
      <4> HIDE DEF p, row
      <4> QED BY <2>1, <3>1, SameRule DEF p
    <3> HIDE DEF r, p, row
    <3> QED BY <3>2 DEF Takes, row
  <2> HIDE DEF p, in, r
  <2>6. SourceOf(r, in.positions) = SourceOf(p, in.positions)
    BY <2>5 DEF SourceOf
  <2>7. CountedSource(r, in) = CountedSource(p, in)
    BY <2>6, SourceForm
  <2>8. CountedDirect(r, in) = CountedDirect(p, in)
    BY <2>3 DEF CountedDirect
  <2>9. \A q : Result(q, in, ServiceLocale).groups
                = AggregateGroups(CountedDirect(q, in) \cup CountedSource(q, in), ServiceLocale)
    BY DEF Result, Counted
  <2>10. Result(r, in, ServiceLocale).groups = Result(p, in, ServiceLocale).groups
    BY <2>7, <2>8, <2>9
  <2> QED BY <2>1, <2>10 DEF p, in, r
<1>2. IInv => RuleOrderIsIrrelevant
  BY <1>1 DEF RuleOrderIsIrrelevant, Reversed
<1> QED BY <1>2, Invariant, PTL

-------------------------------------------------------------------------------
(* The channels.                                                                  *)

\* Finitely many positions count finitely often.
LEMMA FiniteSource ==
  ASSUME NEW p, NEW at, IsFiniteSet(DOMAIN at)
  PROVE  IsFiniteSet(SourceOf(p, at))
<1> DEFINE J == {j \in DOMAIN at : Takes(p, at[j])}
           f == [i \in J |-> [kind |-> "source_position", of |-> i, choice |-> at[i].choice,
                             group |-> p.rules[FirstRule(p, at[i])].group,
                             weight |-> p.rules[FirstRule(p, at[i])].weight]]
<1>1. IsFiniteSet(J)
  BY FS_Subset
<1>2. f \in Surjection(J, SourceOf(p, at))
  <2>1. f \in [J -> SourceOf(p, at)]
    BY DEF SourceOf
  <2>2. \A s \in SourceOf(p, at) : \E i \in J : f[i] = s
    BY DEF SourceOf
  <2> QED BY <2>1, <2>2 DEF Surjection
<1> QED
  <2> HIDE DEF J, f
  <2> QED BY <1>1, <1>2, FS_Surjection

VotersFor(in, c) == {v \in Voters : in.votes[v] = c}
SourceFor(p, at, c) == {s \in SourceOf(p, at) : s.choice = c}

\* The count of a choice is what its voters and what source positions give it.
LEMMA ChannelCounts ==
  ASSUME NEW p, NEW in, IsFiniteSet(DOMAIN in.positions), NEW c \in CountedChoices,
         NEW locale
  PROVE  /\ Result(p, in, locale).choices[c].count
              = Cardinality(VotersFor(in, c)) + Cardinality(SourceFor(p, in.positions, c))
         /\ Cardinality(VotersFor(in, c)) \in Nat
         /\ Cardinality(SourceFor(p, in.positions, c)) \in Nat
<1> DEFINE V == {v \in Voters : in.votes[v] = c}
           S == {s \in SourceOf(p, in.positions) : s.choice = c}
           D == {x \in CountedDirect(p, in) : x.choice = c}
           f == [v \in V |-> [kind |-> "direct_vote", of |-> v, choice |-> in.votes[v],
                             group |-> p.group, weight |-> p.weight]]
<1>1. IsFiniteSet(V)
  BY TotalsAssumption, FS_Subset
<1>2. f \in Bijection(V, D)
  <2>1. \A v \in V : f[v] \in D
    BY DEF CountedDirect
  <2>2. f \in [V -> D]
    <3> HIDE DEF D
    <3> QED BY <2>1 DEF D
  <2>3. \A v, w \in V : f[v] = f[w] => v = w
    <3>1. \A v \in V : f[v].of = v
      OBVIOUS
    <3> HIDE DEF f
    <3> QED BY <3>1
  <2>4. \A x \in D : \E v \in V : f[v] = x
    BY DEF CountedDirect
  <2> HIDE DEF f, V, D
  <2> QED BY <2>2, <2>3, <2>4 DEF Bijection, Injection, Surjection, IsInjective
<1>3. IsFiniteSet(D) /\ Cardinality(D) = Cardinality(V)
  <2>1. ExistsBijection(V, D)
    <3> HIDE DEF f, V, D
    <3> QED BY <1>2 DEF ExistsBijection
  <2> HIDE DEF V, D
  <2> QED BY <1>1, <2>1, FS_Bijection
<1>4. IsFiniteSet(S)
  <2>1. IsFiniteSet(SourceOf(p, in.positions))
    BY FiniteSource
  <2> QED BY <2>1, FS_Subset
<1>5. D \cap S = {}
  <2>1. \A x \in D : x.kind = "direct_vote"
    BY DEF CountedDirect
  <2>2. \A x \in S : x.kind = "source_position"
    BY DEF SourceOf
  <2> HIDE DEF D, S
  <2> QED BY <2>1, <2>2
<1>6. Cardinality(D \cup S) = Cardinality(D) + Cardinality(S)
  <2> HIDE DEF D, S
  <2>1. Cardinality(D) \in Nat /\ Cardinality(S) \in Nat
    BY <1>3, <1>4, FS_CardinalityType
  <2>2. Cardinality(D \cap S) = 0
    BY <1>5, FS_EmptySet
  <2>3. Cardinality(D \cup S) = Cardinality(D) + Cardinality(S) - Cardinality(D \cap S)
    BY <1>3, <1>4, FS_Union
  <2> QED BY <2>1, <2>2, <2>3
<1>7. Result(p, in, locale).choices[c].count = Cardinality(D \cup S)
  <2> DEFINE counted == CountedDirect(p, in) \cup CountedSource(p, in)
  <2>1. Result(p, in, locale).choices[c] = ChoiceResult(counted, c, locale)
    BY DEF Result, Counted
  <2>2. ChoiceResult(counted, c, locale).count = Cardinality({x \in counted : x.choice = c})
    BY DEF ChoiceResult
  <2>3. {x \in counted : x.choice = c} = D \cup S
    BY SourceForm
  <2> QED BY <2>1, <2>2, <2>3
<1>8. Cardinality(V) \in Nat /\ Cardinality(S) \in Nat
  BY <1>1, <1>4, FS_CardinalityType
<1>9. V = VotersFor(in, c) /\ S = SourceFor(p, in.positions, c)
  BY DEF VotersFor, SourceFor
<1> HIDE DEF V, S, D
<1> QED BY <1>3, <1>6, <1>7, <1>8, <1>9

\* What is not of a choice's voters is of source positions.
LEMMA IndirectIsSource ==
  ASSUME NEW r, VerifiedOK(r), NEW c \in CountedChoices
  PROVE  Indirect(r, c) = Cardinality(SourceFor(r.policy, r.in.positions, c))
<1> DEFINE direct == Cardinality(VotersFor(r.in, c))
           source == Cardinality(SourceFor(r.policy, r.in.positions, c))
<1>1. IsFiniteSet(DOMAIN r.in.positions)
  BY TotalsAssumption DEF VerifiedOK
<1>2. Result(r.policy, r.in, ServiceLocale).choices[c].count = direct + source
  BY <1>1, ChannelCounts
<1>3. direct \in Nat /\ source \in Nat
  BY <1>1, ChannelCounts
<1>4. Indirect(r, c) = r.result.choices[c].count - direct
  BY DEF Indirect, VotersFor
<1>5. r.result = Result(r.policy, r.in, ServiceLocale)
  BY DEF VerifiedOK
<1> HIDE DEF direct, source
<1>6. Indirect(r, c) = source
  BY <1>2, <1>3, <1>4, <1>5
<1> QED BY <1>6 DEF source

\* The channels are independent: from one verified tally to the next, when the policy and
\* the source positions are the same, what they give a choice is the same, whatever the
\* ballots in between (replayTallyV3 counts both and suppresses neither).
THEOREM IndependentChannels == Spec => ChannelsAreIndependent
<1> DEFINE Step == report # NoReport /\ report.in.positions = report'.in.positions
                     /\ report.policy = report'.policy =>
                     \A c \in CountedChoices : Indirect(report, c) = Indirect(report', c)
<1>1. ASSUME IInv, [Next]_vars, report' # report
      PROVE  Step
  <2>1. VerifySnapshot
    BY <1>1 DEF Next, vars, ChangeVote, ChangePosition, ChangePolicy, PublishSnapshot
  <2>2. VerifiedOK(report')
    BY <1>1, <2>1, VerifyStep
  <2>3. ASSUME report # NoReport, report.in.positions = report'.in.positions,
               report.policy = report'.policy, NEW c \in CountedChoices
        PROVE  Indirect(report, c) = Indirect(report', c)
    <3>1. VerifiedOK(report)
      BY <1>1, <2>3 DEF IInv, ReportOK
    <3>2. Indirect(report, c)
            = Cardinality(SourceFor(report.policy, report.in.positions, c))
      BY <3>1, IndirectIsSource
    <3>3. Indirect(report', c)
            = Cardinality(SourceFor(report'.policy, report'.in.positions, c))
      BY <2>2, IndirectIsSource
    <3> QED BY <2>3, <3>2, <3>3
  <2> QED BY <2>3
<1>2. IInv /\ [Next]_vars => [Step]_report
  BY <1>1
<1>3. ChannelsAreIndependent <=> [][Step]_report
  BY PTL DEF ChannelsAreIndependent
<1> HIDE DEF Step
<1> QED BY <1>2, <1>3, Invariant, PTL DEF Spec

-------------------------------------------------------------------------------
(* Sums.  SumFunctionOnSet is a fold, and so a recursive function over the subsets  *)
(* of a set; a smallest subset that a fact fails for takes the place of induction. *)

\* The element that a fold takes next, and the function that a fold of + computes on
\* the subsets of a set.
Pick(s) == CHOOSE x \in s : TRUE
IsSum(g, f, S) ==
  g = [s \in SUBSET S |-> IF s = {} THEN 0 ELSE f[Pick(s)] + g[s \ {Pick(s)}]]

\* SumFunctionOnSet as the community modules define it, without the fold.
LEMMA SumForm ==
  ASSUME NEW f, NEW S
  PROVE  SumFunctionOnSet(f, S) = (CHOOSE g : IsSum(g, f, S))[S]
BY DEF SumFunctionOnSet, FoldFunctionOnSet, MapThenFoldSet, IsSum, Pick

\* Among the subsets of a finite set, every non-empty collection has one that no other of
\* the collection is a proper subset of.
LEMMA SmallestSubset ==
  ASSUME NEW S, IsFiniteSet(S), NEW T, T \subseteq SUBSET S, T # {}
  PROVE  \E m \in T : \A t \in T : t \subseteq m => t = m
<1>1. IsWellFoundedOn(StrictSubsetOrdering(S), SUBSET S)
  BY FS_StrictSubsetOrderingWellFounded, FS_FiniteSubsetsOfFinite
<1>2. PICK m \in T : \A t \in T : ~ (<<t, m>> \in StrictSubsetOrdering(S))
  <2> DEFINE R == StrictSubsetOrdering(S)
             U == SUBSET S
  <2>1. IsWellFoundedOn(R, U) /\ T \subseteq U /\ T # {}
    BY <1>1
  <2> HIDE DEF R, U
  <2>2. \E m \in T : \A t \in T : ~ (<<t, m>> \in R)
    BY <2>1, WFMin
  <2> QED BY <2>2 DEF R
<1>3. ASSUME NEW t \in T, t \subseteq m
      PROVE  t = m
  <2>1. <<t, m>> \notin StrictSubsetOrdering(S)
    BY <1>2
  <2>2. t \in SUBSET S /\ m \in SUBSET S
    OBVIOUS
  <2> QED BY <1>3, <2>1, <2>2 DEF StrictSubsetOrdering
<1> QED BY <1>3

LEMMA PickIn == ASSUME NEW s, s # {} PROVE Pick(s) \in s
BY DEF Pick

LEMMA SumValue ==
  ASSUME NEW g, NEW f, NEW S, IsSum(g, f, S), NEW s \in SUBSET S
  PROVE  g[s] = IF s = {} THEN 0 ELSE f[Pick(s)] + g[s \ {Pick(s)}]
<1>1. g = [t \in SUBSET S |-> IF t = {} THEN 0 ELSE f[Pick(t)] + g[t \ {Pick(t)}]]
  BY DEF IsSum
<1> QED BY <1>1, Zenon

\* The function is unique.
LEMMA SumsAgree ==
  ASSUME NEW f, NEW S, NEW R, IsFiniteSet(S), NEW g, NEW h, IsSum(g, f, S), IsSum(h, f, R)
  PROVE  \A s \in SUBSET S : s \in SUBSET R => g[s] = h[s]
<1> DEFINE Differ == {s \in SUBSET S : s \in SUBSET R /\ g[s] # h[s]}
<1> SUFFICES ASSUME Differ # {} PROVE FALSE
  OBVIOUS
<1>1. PICK m \in Differ : \A t \in Differ : t \subseteq m => t = m
  <2>1. Differ \subseteq SUBSET S
    OBVIOUS
  <2> HIDE DEF Differ
  <2> QED BY <2>1, SmallestSubset
<1>2. /\ g[m] = IF m = {} THEN 0 ELSE f[Pick(m)] + g[m \ {Pick(m)}]
      /\ h[m] = IF m = {} THEN 0 ELSE f[Pick(m)] + h[m \ {Pick(m)}]
  BY SumValue
<1>3. m # {}
  BY <1>1, <1>2
<1>4. Pick(m) \in m
  BY <1>3, PickIn
<1>5. m \ {Pick(m)} \notin Differ
  BY <1>1, <1>4
<1>6. g[m \ {Pick(m)}] = h[m \ {Pick(m)}]
  BY <1>5
<1> QED BY <1>1, <1>2, <1>3, <1>6

\* It exists, and gives natural numbers.
LEMMA SumExists ==
  ASSUME NEW f, NEW S, IsFiniteSet(S), \A x \in S : f[x] \in Nat
  PROVE  \E g \in [SUBSET S -> Nat] : IsSum(g, f, S)
<1> DEFINE Solved(T) == \E g \in [SUBSET T -> Nat] : IsSum(g, f, T)
           Bad == {T \in SUBSET S : ~ Solved(T)}
<1> SUFFICES ASSUME Bad # {} PROVE FALSE
  OBVIOUS
<1>1. PICK m \in Bad : \A t \in Bad : t \subseteq m => t = m
  <2>1. Bad \subseteq SUBSET S
    OBVIOUS
  <2> HIDE DEF Bad
  <2> QED BY <2>1, SmallestSubset
<1>2. ASSUME NEW t \in SUBSET m, t # m
      PROVE  Solved(t)
  BY <1>1, <1>2
<1> DEFINE sum(t) == CHOOSE g \in [SUBSET t -> Nat] : IsSum(g, f, t)
           value(t) == IF t = {} THEN 0
                       ELSE f[Pick(t)] + sum(t \ {Pick(t)})[t \ {Pick(t)}]
           h == [t \in SUBSET m |-> value(t)]
<1>3. ASSUME NEW t \in SUBSET m, t # m
      PROVE  sum(t) \in [SUBSET t -> Nat] /\ IsSum(sum(t), f, t)
  BY <1>2, <1>3
<1>4. ASSUME NEW t \in SUBSET m, t # {}
      PROVE  /\ Pick(t) \in t /\ f[Pick(t)] \in Nat
             /\ t \ {Pick(t)} \in SUBSET m /\ t \ {Pick(t)} # m
             /\ sum(t \ {Pick(t)})[t \ {Pick(t)}] \in Nat
  <2>1. Pick(t) \in t
    BY <1>4, PickIn
  <2>2. t \ {Pick(t)} \in SUBSET m /\ t \ {Pick(t)} # m
    BY <2>1
  <2>3. f[Pick(t)] \in Nat
    BY <2>1
  <2> DEFINE u == t \ {Pick(t)}
  <2>4. sum(u) \in [SUBSET u -> Nat]
    BY <2>2, <1>3
  <2>5. sum(u)[u] \in Nat
    <3> HIDE DEF sum, u
    <3> QED BY <2>4
  <2> QED BY <2>1, <2>2, <2>3, <2>5
<1>5. h \in [SUBSET m -> Nat]
  <2>1. ASSUME NEW t \in SUBSET m
        PROVE  value(t) \in Nat
    <3>1. CASE t = {}
      BY <3>1
    <3>2. CASE t # {}
      <4> DEFINE rest == sum(t \ {Pick(t)})[t \ {Pick(t)}]
      <4>1. f[Pick(t)] \in Nat /\ rest \in Nat
        BY <1>4, <3>2
      <4>2. value(t) = f[Pick(t)] + rest
        BY <3>2
      <4> HIDE DEF rest
      <4> QED BY <4>1, <4>2
    <3> QED BY <3>1, <3>2
  <2> HIDE DEF value
  <2> QED BY <2>1
<1>6. ASSUME NEW t \in SUBSET m, t # m
      PROVE  h[t] = sum(t)[t]
  <2>1. h[t] = value(t)
    OBVIOUS
  <2>2. IsSum(sum(t), f, t)
    BY <1>3, <1>6
  <2>3. sum(t)[t] = IF t = {} THEN 0 ELSE f[Pick(t)] + sum(t)[t \ {Pick(t)}]
    <3> HIDE DEF sum
    <3> QED BY <2>2, SumValue
  <2>4. ASSUME t # {}
        PROVE  sum(t)[t \ {Pick(t)}] = sum(t \ {Pick(t)})[t \ {Pick(t)}]
    <3> DEFINE u == t \ {Pick(t)}
    <3>1. u \in SUBSET m /\ u # m
      BY <1>4, <2>4
    <3>2. IsSum(sum(u), f, u)
      BY <1>3, <3>1
    <3>3. IsFiniteSet(t)
      BY FS_Subset
    <3>4. u \in SUBSET t /\ u \in SUBSET u
      OBVIOUS
    <3> HIDE DEF sum, u
    <3>5. sum(t)[u] = sum(u)[u]
      BY <2>2, <3>2, <3>3, <3>4, SumsAgree
    <3> QED BY <3>5 DEF u
  <2> QED BY <2>1, <2>3, <2>4
<1>7. IsSum(h, f, m)
  <2>1. ASSUME NEW t \in SUBSET m
        PROVE  value(t) = IF t = {} THEN 0 ELSE f[Pick(t)] + h[t \ {Pick(t)}]
    <3>1. CASE t = {}
      BY <3>1
    <3>2. CASE t # {}
      <4>1. h[t \ {Pick(t)}] = sum(t \ {Pick(t)})[t \ {Pick(t)}]
        BY <1>4, <1>6, <3>2
      <4> QED BY <3>2, <4>1
    <3> QED BY <3>1, <3>2
  <2>2. h = [t \in SUBSET m |-> IF t = {} THEN 0 ELSE f[Pick(t)] + h[t \ {Pick(t)}]]
    <3>1. h = [t \in SUBSET m |-> value(t)]
      OBVIOUS
    <3> HIDE DEF h, value
    <3> QED BY <2>1, <3>1
  <2> QED BY <2>2 DEF IsSum
<1> QED BY <1>1, <1>5, <1>7

\* So SumFunctionOnSet is that function, on every subset.
LEMMA SumIs ==
  ASSUME NEW f, NEW S, IsFiniteSet(S), \A x \in S : f[x] \in Nat
  PROVE  \E g \in [SUBSET S -> Nat] :
           /\ IsSum(g, f, S)
           /\ \A T \in SUBSET S : SumFunctionOnSet(f, T) = g[T]
<1>1. PICK g \in [SUBSET S -> Nat] : IsSum(g, f, S)
  BY SumExists
<1>2. ASSUME NEW T \in SUBSET S
      PROVE  SumFunctionOnSet(f, T) = g[T]
  <2> DEFINE h == CHOOSE k : IsSum(k, f, T)
  <2>1. IsFiniteSet(T) /\ \A x \in T : f[x] \in Nat
    BY FS_Subset
  <2>2. \E k : IsSum(k, f, T)
    BY <2>1, SumExists
  <2>3. IsSum(h, f, T)
    BY <2>2
  <2>4. SumFunctionOnSet(f, T) = h[T]
    BY SumForm
  <2> HIDE DEF h
  <2>5. h[T] = g[T]
    BY <1>1, <2>1, <2>3, SumsAgree
  <2> QED BY <2>4, <2>5
<1> QED BY <1>1, <1>2

LEMMA SumNat ==
  ASSUME NEW f, NEW S, IsFiniteSet(S), \A x \in S : f[x] \in Nat
  PROVE  SumFunctionOnSet(f, S) \in Nat
<1>1. PICK g \in [SUBSET S -> Nat] :
        /\ IsSum(g, f, S)
        /\ \A T \in SUBSET S : SumFunctionOnSet(f, T) = g[T]
  BY SumIs
<1> QED BY <1>1

LEMMA SumEmpty == ASSUME NEW f PROVE SumFunctionOnSet(f, {}) = 0
<1>1. PICK g \in [SUBSET {} -> Nat] :
        /\ IsSum(g, f, {})
        /\ \A T \in SUBSET {} : SumFunctionOnSet(f, T) = g[T]
  BY SumIs, FS_EmptySet
<1>2. g[{}] = 0
  BY <1>1, SumValue
<1> QED BY <1>1, <1>2

\* Any element may be taken first.
LEMMA SumStep ==
  ASSUME NEW f, NEW S, IsFiniteSet(S), \A x \in S : f[x] \in Nat, NEW x \in S
  PROVE  SumFunctionOnSet(f, S) = f[x] + SumFunctionOnSet(f, S \ {x})
<1> DEFINE Sum(T) == SumFunctionOnSet(f, T)
           Bad == {T \in SUBSET S : \E y \in T : Sum(T) # f[y] + Sum(T \ {y})}
<1>1. ASSUME NEW T \in SUBSET S, T # {}
      PROVE  Pick(T) \in T /\ Sum(T) = f[Pick(T)] + Sum(T \ {Pick(T)})
  <2>1. PICK g \in [SUBSET S -> Nat] :
          /\ IsSum(g, f, S)
          /\ \A U \in SUBSET S : SumFunctionOnSet(f, U) = g[U]
    BY SumIs
  <2>2. g[T] = f[Pick(T)] + g[T \ {Pick(T)}]
    BY <1>1, <2>1, SumValue
  <2>3. T \ {Pick(T)} \in SUBSET S
    OBVIOUS
  <2> QED BY <1>1, <2>1, <2>2, <2>3, PickIn
<1>2. \A T \in SUBSET S : Sum(T) \in Nat
  <2>1. ASSUME NEW T \in SUBSET S
        PROVE  Sum(T) \in Nat
    <3>1. IsFiniteSet(T) /\ \A y \in T : f[y] \in Nat
      BY FS_Subset
    <3> QED BY <3>1, SumNat
  <2> QED BY <2>1
<1> HIDE DEF Sum
<1>3. Bad = {}
  <2> SUFFICES ASSUME Bad # {} PROVE FALSE
    OBVIOUS
  <2>1. PICK m \in Bad : \A t \in Bad : t \subseteq m => t = m
    <3>1. Bad \subseteq SUBSET S
      OBVIOUS
    <3> HIDE DEF Bad
    <3> QED BY <3>1, SmallestSubset
  <2>2. PICK y \in m : Sum(m) # f[y] + Sum(m \ {y})
    BY <2>1
  <2> DEFINE p == Pick(m)
             rest == (m \ {p}) \ {y}
  <2>3. p \in m /\ Sum(m) = f[p] + Sum(m \ {p})
    BY <1>1, <2>1, <2>2
  <2> HIDE DEF p
  <2>4. y # p
    BY <2>2, <2>3
  <2>5. Sum(m \ {p}) = f[y] + Sum((m \ {p}) \ {y})
    <3>1. m \ {p} \notin Bad /\ m \ {p} \in SUBSET S /\ y \in m \ {p}
      BY <2>1, <2>2, <2>3, <2>4
    <3> QED BY <3>1
  <2>6. Sum(m \ {y}) = f[p] + Sum((m \ {y}) \ {p})
    <3>1. m \ {y} \notin Bad /\ m \ {y} \in SUBSET S /\ p \in m \ {y}
      BY <2>1, <2>2, <2>3, <2>4
    <3> QED BY <3>1
  <2>7. Sum((m \ {p}) \ {y}) = Sum(rest) /\ Sum((m \ {y}) \ {p}) = Sum(rest)
    <3>1. (m \ {y}) \ {p} = rest
      OBVIOUS
    <3> QED BY <3>1
  <2>8. f[y] \in Nat /\ f[p] \in Nat /\ Sum(rest) \in Nat
    BY <1>2, <2>1, <2>2, <2>3
  <2> HIDE DEF rest
  <2>9. Sum(m) = f[p] + (f[y] + Sum(rest)) /\ Sum(m \ {y}) = f[p] + Sum(rest)
    BY <2>3, <2>5, <2>6, <2>7
  <2>10. f[p] + (f[y] + Sum(rest)) = f[y] + (f[p] + Sum(rest))
    BY <2>8
  <2> QED BY <2>2, <2>9, <2>10
<1>4. S \notin Bad /\ S \in SUBSET S
  BY <1>3
<1> QED BY <1>4 DEF Sum

\* A sum depends on the summands alone.
LEMMA SumSame ==
  ASSUME NEW f, NEW g, NEW S, IsFiniteSet(S), \A x \in S : f[x] \in Nat,
         \A x \in S : f[x] = g[x]
  PROVE  SumFunctionOnSet(f, S) = SumFunctionOnSet(g, S)
<1>1. PICK h \in [SUBSET S -> Nat] :
        /\ IsSum(h, f, S)
        /\ \A T \in SUBSET S : SumFunctionOnSet(f, T) = h[T]
  BY SumIs
<1>2. PICK k \in [SUBSET S -> Nat] :
        /\ IsSum(k, g, S)
        /\ \A T \in SUBSET S : SumFunctionOnSet(g, T) = k[T]
  <2>1. \A x \in S : g[x] \in Nat
    OBVIOUS
  <2> QED BY <2>1, SumIs
<1>3. IsSum(h, g, S)
  <2>1. ASSUME NEW s \in SUBSET S, s # {}
        PROVE  f[Pick(s)] = g[Pick(s)]
    <3>1. Pick(s) \in S
      BY <2>1, PickIn
    <3> QED BY <3>1
  <2>2. h = [s \in SUBSET S |-> IF s = {} THEN 0 ELSE f[Pick(s)] + h[s \ {Pick(s)}]]
    BY <1>1 DEF IsSum
  <2>3. [s \in SUBSET S |-> IF s = {} THEN 0 ELSE f[Pick(s)] + h[s \ {Pick(s)}]]
          = [s \in SUBSET S |-> IF s = {} THEN 0 ELSE g[Pick(s)] + h[s \ {Pick(s)}]]
    BY <2>1
  <2> QED BY <2>2, <2>3 DEF IsSum
<1>4. S \in SUBSET S
  OBVIOUS
<1>5. h[S] = k[S]
  BY <1>2, <1>3, <1>4, SumsAgree
<1> QED BY <1>1, <1>2, <1>4, <1>5

\* A sum of more is more.
LEMMA SumGrows ==
  ASSUME NEW f, NEW S, IsFiniteSet(S), \A x \in S : f[x] \in Nat, NEW A \in SUBSET S
  PROVE  SumFunctionOnSet(f, A) <= SumFunctionOnSet(f, S)
<1> DEFINE Sum(T) == SumFunctionOnSet(f, T)
           Bad == {T \in SUBSET S : A \subseteq T /\ ~ (Sum(A) <= Sum(T))}
<1>1. \A T \in SUBSET S : /\ Sum(T) \in Nat
                          /\ \A x \in T : Sum(T) = f[x] + Sum(T \ {x})
  <2>1. ASSUME NEW T \in SUBSET S
        PROVE  /\ Sum(T) \in Nat
               /\ \A x \in T : Sum(T) = f[x] + Sum(T \ {x})
    <3>1. IsFiniteSet(T) /\ \A y \in T : f[y] \in Nat
      BY FS_Subset
    <3> QED BY <3>1, SumNat, SumStep
  <2> QED BY <2>1
<1> HIDE DEF Sum
<1>2. Bad = {}
  <2> SUFFICES ASSUME Bad # {} PROVE FALSE
    OBVIOUS
  <2>1. PICK m \in Bad : \A t \in Bad : t \subseteq m => t = m
    <3>1. Bad \subseteq SUBSET S
      OBVIOUS
    <3> HIDE DEF Bad
    <3> QED BY <3>1, SmallestSubset
  <2>2. m # A
    BY <1>1, <2>1
  <2>3. PICK x \in m : x \notin A
    BY <2>1, <2>2
  <2>4. m \ {x} \in SUBSET S /\ A \subseteq m \ {x} /\ m \ {x} \notin Bad
    BY <2>1, <2>3
  <2>5. Sum(A) <= Sum(m \ {x})
    BY <2>4
  <2>6. Sum(m) = f[x] + Sum(m \ {x})
    BY <1>1, <2>1, <2>3
  <2>7. f[x] \in Nat /\ Sum(A) \in Nat /\ Sum(m \ {x}) \in Nat /\ ~ (Sum(A) <= Sum(m))
    BY <1>1, <2>1, <2>3, <2>4
  <2> QED BY <2>5, <2>6, <2>7
<1>3. S \notin Bad /\ S \in SUBSET S
  BY <1>2
<1> QED BY <1>3 DEF Sum

\* What the lemmas below need of the sum over the subsets of one set.
LEMMA Sums ==
  ASSUME NEW f, NEW S, IsFiniteSet(S), \A x \in S : f[x] \in Nat
  PROVE  /\ SumFunctionOnSet(f, {}) = 0
         /\ \A T \in SUBSET S :
              /\ SumFunctionOnSet(f, T) \in Nat
              /\ \A x \in T : SumFunctionOnSet(f, T) = f[x] + SumFunctionOnSet(f, T \ {x})
<1>1. ASSUME NEW T \in SUBSET S
      PROVE  /\ SumFunctionOnSet(f, T) \in Nat
             /\ \A x \in T : SumFunctionOnSet(f, T) = f[x] + SumFunctionOnSet(f, T \ {x})
  <2>1. IsFiniteSet(T) /\ \A y \in T : f[y] \in Nat
    BY FS_Subset
  <2> QED BY <2>1, SumNat, SumStep
<1> QED BY <1>1, SumEmpty

\* Disjoint sets add up.
LEMMA SumJoin ==
  ASSUME NEW f, NEW S, IsFiniteSet(S), \A x \in S : f[x] \in Nat,
         NEW A \in SUBSET S, NEW B \in SUBSET S, A \cap B = {}
  PROVE  SumFunctionOnSet(f, A \cup B) = SumFunctionOnSet(f, A) + SumFunctionOnSet(f, B)
<1> DEFINE Sum(T) == SumFunctionOnSet(f, T)
           Bad == {T \in SUBSET B : Sum(A \cup T) # Sum(A) + Sum(T)}
<1>1. Sum({}) = 0 /\ \A T \in SUBSET S : /\ Sum(T) \in Nat
                                         /\ \A x \in T : Sum(T) = f[x] + Sum(T \ {x})
  BY Sums
<1> HIDE DEF Sum
<1>2. Bad = {}
  <2> SUFFICES ASSUME Bad # {} PROVE FALSE
    OBVIOUS
  <2>1. PICK m \in Bad : \A t \in Bad : t \subseteq m => t = m
    <3>1. Bad \subseteq SUBSET B /\ IsFiniteSet(B)
      BY FS_Subset
    <3> HIDE DEF Bad
    <3> QED BY <3>1, SmallestSubset
  <2>2. Sum(A) \in Nat
    BY <1>1
  <2>3. m # {}
    <3>1. SUFFICES ASSUME m = {} PROVE FALSE
      OBVIOUS
    <3>2. A \cup m = A
      BY <3>1
    <3> QED BY <3>1, <3>2, <1>1, <2>1, <2>2
  <2>4. PICK x \in m : TRUE
    BY <2>3
  <2> DEFINE r == m \ {x}
  <2>5. r \in SUBSET S /\ r \notin Bad /\ r \in SUBSET B
    BY <2>1, <2>4
  <2>6. (A \cup m) \ {x} = A \cup r
    BY <2>1, <2>4
  <2>7. Sum(A \cup r) = Sum(A) + Sum(r)
    BY <2>5
  <2>8. Sum(m) = f[x] + Sum(r)
    BY <1>1, <2>1, <2>4
  <2>9. Sum(A \cup m) = f[x] + Sum(A \cup r)
    BY <1>1, <2>1, <2>4, <2>6
  <2>10. f[x] \in Nat /\ Sum(r) \in Nat /\ Sum(A \cup m) # Sum(A) + Sum(m)
    BY <1>1, <2>1, <2>4, <2>5
  <2> HIDE DEF r
  <2> QED BY <2>2, <2>7, <2>8, <2>9, <2>10
<1>3. B \notin Bad /\ B \in SUBSET B
  BY <1>2
<1> QED BY <1>3 DEF Sum

\* The part of a set that a function maps to c.
Part(S, k, c) == {x \in S : k[x] = c}

\* The sums over the parts of a partition add up to the sum over the whole.
LEMMA SumPartition ==
  ASSUME NEW f, NEW S, IsFiniteSet(S), \A x \in S : f[x] \in Nat,
         NEW K, IsFiniteSet(K), NEW k \in [S -> K], NEW g,
         \A c \in K : g[c] = SumFunctionOnSet(f, Part(S, k, c))
  PROVE  SumFunctionOnSet(g, K) = SumFunctionOnSet(f, S)
<1> DEFINE F(T) == SumFunctionOnSet(f, T)
           G(T) == SumFunctionOnSet(g, T)
           In(T) == {x \in S : k[x] \in T}
           Bad == {T \in SUBSET K : G(T) # F(In(T))}
<1>1. F({}) = 0 /\ \A T \in SUBSET S : F(T) \in Nat
  BY Sums
<1>2. \A c \in K : g[c] = F(In({c}))
  <2>1. \A c \in K : In({c}) = Part(S, k, c)
    BY DEF Part
  <2> QED BY <2>1
<1>3. \A c \in K : g[c] \in Nat
  BY <1>1, <1>2
<1>4. G({}) = 0 /\ \A T \in SUBSET K : \A c \in T : G(T) = g[c] + G(T \ {c})
  BY <1>3, Sums
<1>5. ASSUME NEW A \in SUBSET S, NEW B \in SUBSET S, A \cap B = {}
      PROVE  F(A \cup B) = F(A) + F(B)
  BY <1>5, SumJoin
<1> HIDE DEF F, G
<1>6. Bad = {}
  <2> SUFFICES ASSUME Bad # {} PROVE FALSE
    OBVIOUS
  <2>1. PICK m \in Bad : \A t \in Bad : t \subseteq m => t = m
    <3>1. Bad \subseteq SUBSET K
      OBVIOUS
    <3> HIDE DEF Bad
    <3> QED BY <3>1, SmallestSubset
  <2>2. m # {}
    <3>1. SUFFICES ASSUME m = {} PROVE FALSE
      OBVIOUS
    <3>2. In(m) = {}
      BY <3>1
    <3> QED BY <3>1, <3>2, <1>1, <1>4, <2>1
  <2>3. PICK c \in m : TRUE
    BY <2>2
  <2> DEFINE r == m \ {c}
  <2>4. r \in SUBSET K /\ r \notin Bad
    BY <2>1, <2>3
  <2>5. G(m) = g[c] + G(r)
    BY <1>4, <2>1, <2>3
  <2>6. G(r) = F(In(r))
    BY <2>4
  <2>7. /\ In(m) = In({c}) \cup In(r)
        /\ In({c}) \cap In(r) = {}
    BY <2>1, <2>3
  <2>8. In({c}) \in SUBSET S /\ In(r) \in SUBSET S
    OBVIOUS
  <2>9. G(m) # F(In(m))
    BY <2>1
  <2> HIDE DEF In, r
  <2>10. F(In({c}) \cup In(r)) = F(In({c})) + F(In(r))
    BY <1>5, <2>7, <2>8
  <2> QED BY <1>2, <2>1, <2>3, <2>5, <2>6, <2>7, <2>9, <2>10
<1>7. K \notin Bad /\ K \in SUBSET K
  BY <1>6
<1>8. In(K) = S
  OBVIOUS
<1>9. G(K) = F(S)
  BY <1>7, <1>8
<1> QED BY <1>9 DEF F, G

LEMMA SumOfOnes ==
  ASSUME NEW f, NEW S, IsFiniteSet(S), \A x \in S : f[x] = 1
  PROVE  \A T \in SUBSET S : SumFunctionOnSet(f, T) = Cardinality(T)
<1> DEFINE Sum(T) == SumFunctionOnSet(f, T)
           Bad == {T \in SUBSET S : Sum(T) # Cardinality(T)}
<1>1. Sum({}) = 0 /\ \A T \in SUBSET S : /\ Sum(T) \in Nat
                                         /\ \A x \in T : Sum(T) = f[x] + Sum(T \ {x})
  <2>1. \A x \in S : f[x] \in Nat
    OBVIOUS
  <2> QED BY <2>1, Sums
<1> HIDE DEF Sum
<1> SUFFICES ASSUME Bad # {} PROVE FALSE
  BY DEF Sum
<1>2. PICK m \in Bad : \A t \in Bad : t \subseteq m => t = m
  <2>1. Bad \subseteq SUBSET S
    OBVIOUS
  <2> HIDE DEF Bad
  <2> QED BY <2>1, SmallestSubset
<1>3. m # {}
  BY <1>1, <1>2, FS_EmptySet
<1>4. PICK x \in m : TRUE
  BY <1>3
<1>5. m \ {x} \notin Bad /\ m \ {x} \in SUBSET S
  BY <1>2, <1>4
<1>6. Sum(m \ {x}) = Cardinality(m \ {x})
  BY <1>5
<1>7. Sum(m) = 1 + Sum(m \ {x})
  BY <1>1, <1>2, <1>4
<1>8. IsFiniteSet(m)
  BY FS_Subset
<1>9. Cardinality(m \ {x}) = Cardinality(m) - 1 /\ Cardinality(m) \in Nat
  BY <1>4, <1>8, FS_RemoveElement, FS_CardinalityType
<1>10. Sum(m) # Cardinality(m)
  BY <1>2
<1> QED BY <1>6, <1>7, <1>9, <1>10

\* The sizes of the parts add up to the size of the whole.
LEMMA CountPartition ==
  ASSUME NEW S, IsFiniteSet(S), NEW K, IsFiniteSet(K), NEW k \in [S -> K], NEW g,
         \A c \in K : g[c] = Cardinality(Part(S, k, c))
  PROVE  SumFunctionOnSet(g, K) = Cardinality(S)
<1> DEFINE one == [x \in S |-> 1]
<1>1. \A x \in S : one[x] = 1
  OBVIOUS
<1> HIDE DEF one
<1>2. \A T \in SUBSET S : SumFunctionOnSet(one, T) = Cardinality(T)
  BY <1>1, SumOfOnes
<1>3. \A x \in S : one[x] \in Nat
  BY <1>1
<1>4. \A c \in K : g[c] = SumFunctionOnSet(one, Part(S, k, c))
  BY <1>2 DEF Part
<1>5. SumFunctionOnSet(g, K) = SumFunctionOnSet(one, S)
  BY <1>3, <1>4, SumPartition
<1> QED BY <1>2, <1>5

-------------------------------------------------------------------------------
(* Doubles: what is rounded, and by how much.                                      *)

\* Every non-empty set of natural numbers has a least element.
LEMMA LeastNumber ==
  ASSUME NEW T, T \subseteq Nat, T # {}
  PROVE  \E m \in T : \A k \in T : m <= k
<1> DEFINE R == {ss \in Nat \X Nat : ss[1] < ss[2]}
<1>1. IsWellFoundedOn(R, Nat)
  BY NatLessThanWellFounded DEF OpToRel
<1>2. PICK m \in T : \A k \in T : <<k, m>> \notin R
  <2> HIDE DEF R
  <2> QED BY <1>1, WFMin
<1>3. ASSUME NEW k \in T
      PROVE  m <= k
  <2>1. ~ (k < m) /\ k \in Nat /\ m \in Nat
    BY <1>2
  <2> QED BY <2>1
<1> QED BY <1>2, <1>3

\* Powers of two, as the sizes of the sets of subsets of 1..n.
LEMMA Powers ==
  /\ 2^0 = 1
  /\ \A n \in Nat : 2^n \in Nat /\ 2^n >= 1 /\ 2^(n + 1) = 2 * 2^n
<1>1. ASSUME NEW n \in Nat
      PROVE  IsFiniteSet(SUBSET (1..n)) /\ Cardinality(SUBSET (1..n)) = 2^n /\ 2^n \in Nat
  <2>1. IsFiniteSet(1..n) /\ Cardinality(1..n) = n
    BY FS_Interval
  <2>2. IsFiniteSet(SUBSET (1..n)) /\ Cardinality(SUBSET (1..n)) = 2^n
    BY <2>1, FS_SUBSET
  <2> QED BY <2>2, FS_CardinalityType
<1>2. 2^0 = 1
  OBVIOUS
<1>3. ASSUME NEW n \in Nat
      PROVE  2^(n + 1) = 2 * 2^n
  <2> DEFINE A == SUBSET (1..n)
             f == [s \in A |-> s \cup {n + 1}]
             B == {s \cup {n + 1} : s \in A}
  <2>1. f \in Bijection(A, B)
    <3>1. \A s \in A : n + 1 \notin s
      OBVIOUS
    <3>2. \A s, t \in A : f[s] = f[t] => s = t
      BY <3>1
    <3>3. f \in [A -> B] /\ \A t \in B : \E s \in A : f[s] = t
      OBVIOUS
    <3> HIDE DEF A, B, f
    <3> QED BY <3>2, <3>3 DEF Bijection, Injection, Surjection, IsInjective
  <2>2. IsFiniteSet(B) /\ Cardinality(B) = Cardinality(A)
    <3>1. ExistsBijection(A, B) /\ IsFiniteSet(A)
      BY <1>1, <2>1 DEF ExistsBijection
    <3> HIDE DEF A, B, f
    <3> QED BY <3>1, FS_Bijection
  <2>3. A \cap B = {}
    OBVIOUS
  <2>4. A \cup B = SUBSET (1..n + 1)
    <3>1. ASSUME NEW t \in SUBSET (1..n + 1)
          PROVE  t \in A \cup B
      <4>1. CASE n + 1 \in t
        <5>1. t \ {n + 1} \in A /\ t = (t \ {n + 1}) \cup {n + 1}
          BY <4>1
        <5> QED BY <5>1
      <4>2. CASE n + 1 \notin t
        BY <4>2
      <4> QED BY <4>1, <4>2
    <3>2. A \cup B \subseteq SUBSET (1..n + 1)
      <4>1. 1..n \subseteq 1..n + 1 /\ n + 1 \in 1..n + 1
        OBVIOUS
      <4> QED BY <4>1
    <3> QED BY <3>1, <3>2
  <2>5. Cardinality(A \cup B) = Cardinality(A) + Cardinality(B) - Cardinality(A \cap B)
    <3>1. IsFiniteSet(A)
      BY <1>1
    <3> HIDE DEF A, B
    <3> QED BY <2>2, <3>1, FS_Union
  <2>6. Cardinality(A) = 2^n /\ 2^n \in Nat /\ Cardinality(SUBSET (1..n + 1)) = 2^(n + 1)
    <3>1. n + 1 \in Nat
      OBVIOUS
    <3>2. Cardinality(SUBSET (1..n + 1)) = 2^(n + 1)
      BY <1>1, <3>1
    <3> QED BY <1>1, <3>2
  <2>7. Cardinality(A \cap B) = 0
    BY <2>3, FS_EmptySet
  <2> HIDE DEF A, B, f
  <2>8. Cardinality(A \cup B) = 2^(n + 1)
    BY <2>4, <2>6
  <2>9. Cardinality(B) = 2^n
    BY <2>2, <2>6
  <2>10. Cardinality(A) + Cardinality(B) - Cardinality(A \cap B) = 2 * 2^n
    BY <2>6, <2>7, <2>9
  <2> QED BY <2>5, <2>8, <2>10
<1>4. \A n \in Nat : 2^n >= 1
  <2> DEFINE Bad == {n \in Nat : ~ (2^n >= 1)}
  <2> SUFFICES ASSUME Bad # {} PROVE FALSE
    OBVIOUS
  <2>1. PICK n \in Bad : \A k \in Bad : n <= k
    <3>1. Bad \subseteq Nat
      OBVIOUS
    <3> HIDE DEF Bad
    <3> QED BY <3>1, LeastNumber
  <2>2. n # 0
    <3>1. SUFFICES ASSUME n = 0 PROVE FALSE
      OBVIOUS
    <3>2. 2^n = 1
      BY <1>2, <3>1
    <3> QED BY <2>1, <3>2
  <2>3. n - 1 \in Nat /\ n - 1 \notin Bad /\ (n - 1) + 1 = n
    BY <2>1, <2>2
  <2>4. 2^n = 2 * 2^(n - 1) /\ 2^(n - 1) \in Nat /\ 2^(n - 1) >= 1
    BY <1>1, <1>3, <2>3
  <2> QED BY <2>1, <2>4
<1> QED BY <1>1, <1>2, <1>3, <1>4

LEMMA PowersGrow ==
  ASSUME NEW i \in Nat, NEW j \in Nat, i <= j
  PROVE  \E c \in Nat : c >= 1 /\ 2^j = c * 2^i
<1> DEFINE Bad == {k \in Nat : i <= k /\ ~ \E c \in Nat : c >= 1 /\ 2^k = c * 2^i}
<1> SUFFICES ASSUME Bad # {} PROVE FALSE
  OBVIOUS
<1>1. PICK k \in Bad : \A n \in Bad : k <= n
  <2>1. Bad \subseteq Nat
    OBVIOUS
  <2> HIDE DEF Bad
  <2> QED BY <2>1, LeastNumber
<1>2. k # i
  <2>1. 2^i = 1 * 2^i
    BY Powers
  <2> QED BY <1>1, <2>1
<1>3. k - 1 \in Nat /\ i <= k - 1 /\ k - 1 \notin Bad /\ (k - 1) + 1 = k
  <2>1. k \in Nat /\ i <= k
    BY <1>1
  <2> HIDE DEF Bad
  <2> QED BY <1>1, <1>2, <2>1
<1>4. PICK c \in Nat : c >= 1 /\ 2^(k - 1) = c * 2^i
  BY <1>3
<1>5. 2^k = 2 * 2^(k - 1) /\ 2^i \in Nat
  BY <1>3, Powers
<1>6. 2^k = (2 * c) * 2^i
  BY <1>4, <1>5
<1>7. 2 * c \in Nat /\ 2 * c >= 1
  BY <1>4
<1> QED BY <1>1, <1>6, <1>7

LEMMA PowersOrdered ==
  ASSUME NEW i \in Nat, NEW j \in Nat, i <= j
  PROVE  2^i <= 2^j
<1>1. PICK c \in Nat : c >= 1 /\ 2^j = c * 2^i
  BY PowersGrow
<1>2. 2^i \in Nat
  BY Powers
<1>3. \A x \in Nat : x <= c * x
  BY <1>1
<1> QED BY <1>1, <1>2, <1>3

LEMMA PowersExceed == ASSUME NEW n \in Nat PROVE n < 2^n
<1> DEFINE Bad == {k \in Nat : ~ k < 2^k}
<1> SUFFICES ASSUME Bad # {} PROVE FALSE
  OBVIOUS
<1>1. PICK k \in Bad : \A m \in Bad : k <= m
  <2>1. Bad \subseteq Nat
    OBVIOUS
  <2> HIDE DEF Bad
  <2> QED BY <2>1, LeastNumber
<1>2. k # 0
  BY <1>1, Powers
<1>3. k - 1 \in Nat /\ k - 1 \notin Bad /\ (k - 1) + 1 = k
  BY <1>1, <1>2
<1>4. k - 1 < 2^(k - 1) /\ 2^k = 2 * 2^(k - 1) /\ 2^(k - 1) \in Nat
  BY <1>3, Powers
<1> QED BY <1>1, <1>2, <1>4

\* Division with remainder.
LEMMA Division ==
  ASSUME NEW a \in Nat, NEW b \in Nat \ {0}
  PROVE  /\ a \div b \in Nat /\ a % b \in Nat /\ a % b < b
         /\ a = (b * (a \div b)) + (a % b)
OBVIOUS

LEMMA DivisionUnique ==
  ASSUME NEW b \in Nat \ {0}, NEW q \in Nat
  PROVE  (b * q) \div b = q /\ (b * q) % b = 0
OBVIOUS

LEMMA LessIsFactor ==
  ASSUME NEW b \in Nat, NEW q \in Nat, NEW n \in Nat, b * q < b * n
  PROVE  q < n
OBVIOUS

LEMMA Smaller ==
  ASSUME NEW b \in Nat, NEW q \in Nat, NEW n \in Nat, q <= n
  PROVE  b * q <= b * n
OBVIOUS

\* Rounding to a whole number, of two the even one.
Whole(a, t) ==
  IF 2 * (a % t) < t \/ (2 * (a % t) = t /\ (a \div t) % 2 = 0) THEN a \div t ELSE a \div t + 1

LEMMA WholeNear ==
  ASSUME NEW a \in Nat, NEW t \in Nat \ {0}
  PROVE  /\ Whole(a, t) \in Nat
         /\ 2 * (t * Whole(a, t)) <= 2 * a + t /\ 2 * a <= 2 * (t * Whole(a, t)) + t
<1> DEFINE q == a \div t
           r == a % t
<1>1. q \in Nat /\ r \in Nat /\ r < t /\ a = (t * q) + r
  BY Division
<1> HIDE DEF q, r
<1>2. t * (q + 1) = (t * q) + t /\ t * q \in Nat
  BY <1>1
<1>3. CASE 2 * r < t \/ (2 * r = t /\ q % 2 = 0)
  <2>1. Whole(a, t) = q
    BY <1>3 DEF Whole, q, r
  <2>2. 2 * r <= t
    BY <1>1, <1>3
  <2> QED BY <1>1, <1>2, <2>1, <2>2
<1>4. CASE ~ (2 * r < t \/ (2 * r = t /\ q % 2 = 0))
  <2>1. Whole(a, t) = q + 1
    BY <1>4 DEF Whole, q, r
  <2>2. 2 * r >= t
    BY <1>1, <1>4
  <2> QED BY <1>1, <1>2, <2>1, <2>2
<1> QED BY <1>3, <1>4

LEMMA WholeExact ==
  ASSUME NEW t \in Nat \ {0}, NEW m \in Nat
  PROVE  Whole(t * m, t) = m
<1>1. (t * m) \div t = m /\ (t * m) % t = 0
  BY DivisionUnique
<1> QED BY <1>1 DEF Whole

LEMMA WholeGrows ==
  ASSUME NEW t \in Nat \ {0}, NEW a \in Nat, NEW c \in Nat, a <= c
  PROVE  Whole(a, t) <= Whole(c, t)
<1> DEFINE q == a \div t
           r == a % t
           u == c \div t
           s == c % t
<1>1. q \in Nat /\ r \in Nat /\ r < t /\ a = (t * q) + r
  BY Division
<1>2. u \in Nat /\ s \in Nat /\ s < t /\ c = (t * u) + s
  BY Division
<1>3. /\ Whole(a, t) = IF 2 * r < t \/ (2 * r = t /\ q % 2 = 0) THEN q ELSE q + 1
      /\ Whole(c, t) = IF 2 * s < t \/ (2 * s = t /\ u % 2 = 0) THEN u ELSE u + 1
  BY DEF Whole
<1> HIDE DEF q, r, u, s
<1>4. q <= u
  <2> SUFFICES ASSUME u < q PROVE FALSE
    BY <1>1, <1>2
  <2>1. t * (u + 1) <= t * q
    BY <1>1, <1>2, Smaller
  <2>2. t * (u + 1) = (t * u) + t /\ t * u \in Nat /\ t * q \in Nat
    BY <1>1, <1>2
  <2> QED BY <1>1, <1>2, <2>1, <2>2
<1>5. CASE q = u
  <2>1. t * q \in Nat
    BY <1>1
  <2>2. r <= s
    BY <1>1, <1>2, <1>5, <2>1
  <2> QED BY <1>1, <1>2, <1>3, <1>5, <2>2
<1>6. CASE q < u
  <2>1. Whole(a, t) <= q + 1 /\ u <= Whole(c, t)
    BY <1>1, <1>2, <1>3
  <2>2. Whole(a, t) \in Nat /\ Whole(c, t) \in Nat
    BY WholeNear
  <2> QED BY <1>1, <1>2, <1>6, <2>1, <2>2
<1> QED BY <1>1, <1>2, <1>4, <1>5, <1>6

\* The exponent of the spacing around a / b: as small as Precision bits allow.
Fits(a, b, k) ==
  /\ a < (b * 2^Precision) * 2^k
  /\ k > 0 => a >= (b * 2^Precision) * 2^(k - 1)

LEMMA SpacingForm ==
  ASSUME NEW a \in Nat, NEW b \in Nat \ {0}
  PROVE  \E k \in Nat : Spacing(a, b) = 2^k /\ Fits(a, b, k)
<1> DEFINE bits == b * 2^Precision
           q == a \div bits
           Enough == {k \in Nat : a < bits * 2^k}
<1>1. Precision \in Nat /\ 2^Precision \in Nat /\ 2^Precision >= 1
  BY DoublesAssumption, Powers
<1>2. bits \in Nat \ {0}
  <2>1. \A x, y \in Nat \ {0} : x * y \in Nat \ {0}
    OBVIOUS
  <2>2. 2^Precision \in Nat \ {0}
    BY <1>1
  <2> QED BY <2>1, <2>2
<1>3. Spacing(a, b) = 2^(CHOOSE k \in 0..q : Fits(a, b, k))
  BY DEF Spacing, Fits
<1> HIDE DEF bits, q
<1>4. q \in Nat /\ a < bits * (q + 1)
  <2>1. /\ a \div bits \in Nat /\ a % bits \in Nat /\ a % bits < bits
        /\ a = (bits * (a \div bits)) + (a % bits)
    BY <1>2, Division
  <2>2. bits * (q + 1) = (bits * q) + bits /\ bits * q \in Nat
    BY <1>2, <2>1 DEF q
  <2> QED BY <1>2, <2>1, <2>2 DEF q
<1>5. q \in Enough
  <2>1. q + 1 <= 2^q /\ 2^q \in Nat
    BY <1>4, PowersExceed, Powers
  <2>2. bits * (q + 1) <= bits * 2^q
    BY <1>2, <1>4, <2>1, Smaller
  <2>3. bits * (q + 1) \in Nat /\ bits * 2^q \in Nat
    BY <1>2, <1>4, <2>1
  <2> QED BY <1>4, <2>2, <2>3
<1>6. PICK k \in Enough : \A j \in Enough : k <= j
  <2>1. Enough \subseteq Nat /\ Enough # {}
    BY <1>5
  <2> HIDE DEF Enough
  <2> QED BY <2>1, LeastNumber
<1>7. k \in Nat /\ a < bits * 2^k /\ k <= q
  BY <1>5, <1>6
<1>8. k > 0 => a >= bits * 2^(k - 1)
  <2> SUFFICES ASSUME k > 0 PROVE a >= bits * 2^(k - 1)
    OBVIOUS
  <2>1. k - 1 \in Nat /\ ~ (k <= k - 1)
    BY <1>7
  <2>2. ~ (a < bits * 2^(k - 1))
    BY <1>6, <2>1
  <2>3. bits * 2^(k - 1) \in Nat
    <3>1. 2^(k - 1) \in Nat
      BY <2>1, Powers
    <3> QED BY <1>2, <3>1
  <2> QED BY <2>2, <2>3
<1>9. k \in 0..q /\ Fits(a, b, k)
  BY <1>4, <1>7, <1>8 DEF Fits, bits
<1> DEFINE n == CHOOSE j \in 0..q : Fits(a, b, j)
<1>10. n \in 0..q /\ Fits(a, b, n)
  BY <1>9
<1>11. Spacing(a, b) = 2^n
  BY <1>3
<1> HIDE DEF n
<1>12. n \in Nat
  BY <1>4, <1>10
<1> QED BY <1>10, <1>11, <1>12

\* What rounding to the nearest double gives.
Rounds(a, b, k, m) ==
  /\ k \in Nat /\ m \in Nat /\ Fits(a, b, k)
  /\ b * 2^k \in Nat \ {0} /\ 2^k \in Nat \ {0}
  /\ m = Whole(a, b * 2^k)
  /\ Nearest(a, b) = 2^k * m

LEMMA NearestForm ==
  ASSUME NEW a \in Nat, NEW b \in Nat \ {0}
  PROVE  \E k \in Nat, m \in Nat : Rounds(a, b, k, m)
<1>1. PICK k \in Nat : Spacing(a, b) = 2^k /\ Fits(a, b, k)
  BY SpacingForm
<1>2. 2^k \in Nat \ {0}
  BY Powers
<1>3. \A x \in Nat \ {0} : b * x \in Nat \ {0}
  OBVIOUS
<1>4. b * 2^k \in Nat \ {0}
  BY <1>2, <1>3
<1>5. Whole(a, b * 2^k) \in Nat
  BY <1>4, WholeNear
<1>6. Nearest(a, b) = 2^k * Whole(a, b * 2^k)
  BY <1>1 DEF Nearest, Whole
<1> QED BY <1>1, <1>2, <1>4, <1>5, <1>6 DEF Rounds

\* 2^Precision is twice a power of two.
LEMMA Bits ==
  \E h \in Nat \ {0} : h = 2^(Precision - 1) /\ 2^Precision = 2 * h
<1>1. Precision \in Nat \ {0}
  BY DoublesAssumption
<1>2. Precision - 1 \in Nat /\ (Precision - 1) + 1 = Precision
  BY <1>1
<1> QED BY <1>2, Powers

\* At most Precision bits are left, and if the spacing is not the least one, not one less.
LEMMA RoundsSize ==
  ASSUME NEW a \in Nat, NEW b \in Nat \ {0}, NEW k, NEW m, Rounds(a, b, k, m)
  PROVE  m <= 2^Precision /\ (k > 0 => m >= 2^(Precision - 1))
<1> DEFINE P == 2^Precision
           s == 2^k
           t == b * s
<1>1. PICK h \in Nat \ {0} : h = 2^(Precision - 1) /\ P = 2 * h
  BY Bits
<1>2. /\ k \in Nat /\ m \in Nat /\ t \in Nat \ {0} /\ s \in Nat \ {0}
      /\ m = Whole(a, t)
  BY DEF Rounds
<1>3. a < (b * P) * s /\ (k > 0 => a >= (b * P) * 2^(k - 1))
  BY DEF Rounds, Fits
<1>4. k > 0 => s = 2 * 2^(k - 1) /\ 2^(k - 1) \in Nat
  <2> SUFFICES ASSUME k > 0 PROVE s = 2 * 2^(k - 1) /\ 2^(k - 1) \in Nat
    OBVIOUS
  <2>1. k - 1 \in Nat /\ (k - 1) + 1 = k
    BY <1>2
  <2> QED BY <2>1, Powers
<1> HIDE DEF P, s
<1>5. P \in Nat
  BY <1>1
<1>6. m <= P
  <2>1. (b * P) * s = t * P /\ t * P \in Nat
    BY <1>2, <1>5
  <2>2. a <= t * P
    BY <1>3, <2>1
  <2> HIDE DEF t
  <2>3. Whole(a, t) <= Whole(t * P, t)
    BY <1>2, <2>1, <2>2, WholeGrows
  <2> QED BY <1>2, <1>5, <2>3, WholeExact
<1>7. ASSUME k > 0
      PROVE  m >= h
  <2>1. PICK v \in Nat : v = 2^(k - 1) /\ s = 2 * v
    BY <1>4, <1>7
  <2>2. a >= (b * P) * v
    BY <1>3, <1>7, <2>1
  <2>3. t = b * (2 * v) /\ P = 2 * h
    BY <1>1, <2>1
  <2>4. (b * P) * v = t * h /\ t * h \in Nat
    <3>1. (b * (2 * h)) * v = (b * (2 * v)) * h
      OBVIOUS
    <3>2. t * h \in Nat
      BY <1>2
    <3> QED BY <2>3, <3>1, <3>2
  <2>5. t * h <= a
    BY <2>2, <2>4
  <2> HIDE DEF t
  <2>6. Whole(t * h, t) <= Whole(a, t)
    BY <1>2, <2>4, <2>5, WholeGrows
  <2>7. Whole(t * h, t) = h
    BY <1>2, WholeExact
  <2> QED BY <1>2, <2>6, <2>7
<1> QED BY <1>1, <1>6, <1>7 DEF P

LEMMA NearestNat ==
  ASSUME NEW a \in Nat, NEW b \in Nat \ {0}
  PROVE  Nearest(a, b) \in Nat
<1>1. PICK k \in Nat, m \in Nat : Rounds(a, b, k, m)
  BY NearestForm
<1>2. \A x, y \in Nat : x * y \in Nat
  OBVIOUS
<1> QED BY <1>1, <1>2 DEF Rounds

\* What more is rounded to is not less.
LEMMA NearestGrows ==
  ASSUME NEW a \in Nat, NEW b \in Nat \ {0}, NEW c \in Nat, a <= c
  PROVE  Nearest(a, b) <= Nearest(c, b)
<1>1. PICK i \in Nat, m \in Nat : Rounds(a, b, i, m)
  BY NearestForm
<1>2. PICK j \in Nat, n \in Nat : Rounds(c, b, j, n)
  BY NearestForm
<1>3. /\ 2^i \in Nat \ {0} /\ b * 2^i \in Nat \ {0}
      /\ m = Whole(a, b * 2^i) /\ Nearest(a, b) = 2^i * m
  BY <1>1 DEF Rounds
<1>4. /\ 2^j \in Nat \ {0} /\ b * 2^j \in Nat \ {0}
      /\ n = Whole(c, b * 2^j) /\ Nearest(c, b) = 2^j * n
  BY <1>2 DEF Rounds
<1>5. i <= j
  <2> SUFFICES ASSUME j < i PROVE FALSE
    BY <1>1, <1>2
  <2> DEFINE bits == b * 2^Precision
  <2>1. bits \in Nat
    <3>1. 2^Precision \in Nat
      BY Bits
    <3> QED BY <3>1
  <2>2. a >= bits * 2^(i - 1) /\ c < bits * 2^j
    BY <1>1, <1>2 DEF Rounds, Fits
  <2>3. i - 1 \in Nat /\ j <= i - 1
    OBVIOUS
  <2>4. 2^j <= 2^(i - 1) /\ 2^(i - 1) \in Nat
    BY <2>3, PowersOrdered, Powers
  <2> HIDE DEF bits
  <2>5. bits * 2^j <= bits * 2^(i - 1)
    BY <1>4, <2>1, <2>4, Smaller
  <2>6. bits * 2^j \in Nat /\ bits * 2^(i - 1) \in Nat
    BY <1>4, <2>1, <2>4
  <2> QED BY <2>2, <2>5, <2>6
<1>6. CASE i = j
  <2>1. m <= n
    BY <1>3, <1>4, <1>6, WholeGrows
  <2> QED BY <1>3, <1>4, <1>6, <2>1, Smaller
<1>7. CASE i < j
  <2>1. PICK h \in Nat \ {0} : h = 2^(Precision - 1) /\ 2^Precision = 2 * h
    BY Bits
  <2>2. m <= 2 * h /\ n >= h
    BY <1>1, <1>2, <1>7, <2>1, RoundsSize
  <2>3. i <= j - 1 /\ j - 1 \in Nat /\ (j - 1) + 1 = j
    BY <1>7
  <2>4. PICK v \in Nat : v = 2^(j - 1) /\ 2^j = 2 * v /\ 2^i <= v
    BY <2>3, Powers, PowersOrdered
  <2> DEFINE s == 2^i
  <2>5. s \in Nat /\ s <= v
    BY <1>3, <2>4
  <2> HIDE DEF s
  <2>6. s * m <= s * (2 * h)
    BY <2>2, <2>5, Smaller
  <2>7. (2 * h) * s <= (2 * h) * v
    BY <2>5, Smaller
  <2>8. (2 * v) * h <= (2 * v) * n
    BY <2>2, Smaller
  <2>9. s * (2 * h) = (2 * h) * s /\ (2 * h) * v = (2 * v) * h
    BY <2>5
  <2>10. s * m \in Nat /\ s * (2 * h) \in Nat /\ (2 * v) * h \in Nat /\ (2 * v) * n \in Nat
    BY <2>5
  <2>11. s * m <= (2 * v) * n
    BY <2>6, <2>7, <2>8, <2>9, <2>10
  <2> QED BY <1>3, <1>4, <2>4, <2>11 DEF s
<1> QED BY <1>5, <1>6, <1>7

\* What Precision bits are enough for is not rounded.
LEMMA NearestExact ==
  ASSUME NEW e \in Nat, NEW w \in Nat, w <= 2^Precision, NEW b \in Nat \ {0}
  PROVE  Nearest(b * (2^e * w), b) = 2^e * w
<1> DEFINE s == 2^e
           x == s * w
           P == 2^Precision
           a == b * x
<1>1. PICK h \in Nat \ {0} : P = 2 * h
  BY Bits
<1>2. s \in Nat \ {0} /\ x \in Nat /\ a \in Nat
  <2>1. s \in Nat \ {0}
    BY Powers
  <2> HIDE DEF s
  <2>2. x \in Nat
    BY <2>1
  <2> HIDE DEF x
  <2>3. a \in Nat
    BY <2>2
  <2> QED BY <2>1, <2>2, <2>3 DEF s, x
<1>3. PICK k \in Nat, m \in Nat : Rounds(a, b, k, m)
  <2> HIDE DEF a
  <2> QED BY <1>2, NearestForm
<1> DEFINE v == 2^k
<1>4. v \in Nat \ {0} /\ b * v \in Nat \ {0} /\ m = Whole(a, b * v) /\ Nearest(a, b) = v * m
  BY <1>3 DEF Rounds
<1>5. \E c \in Nat : x = v * c
  <2>1. CASE k <= e
    <3>1. PICK c \in Nat : s = c * v
      BY <2>1, PowersGrow
    <3> HIDE DEF v, s
    <3>2. (c * v) * w = v * (c * w) /\ c * w \in Nat
      BY <1>4
    <3> QED BY <3>1, <3>2
  <2>2. CASE e < k
    <3>1. k - 1 \in Nat /\ e <= k - 1 /\ (k - 1) + 1 = k
      BY <2>2
    <3>2. PICK r \in Nat : r = 2^(k - 1) /\ v = 2 * r /\ s <= r
      BY <3>1, Powers, PowersOrdered
    <3>3. a >= (b * P) * r
      BY <1>3, <2>2, <3>2 DEF Rounds, Fits
    <3> HIDE DEF v, s, P
    <3>4. (b * P) * r = b * (P * r) /\ P * r \in Nat
      BY <1>1
    <3>5. P * r <= x
      <4> SUFFICES ASSUME x < P * r PROVE FALSE
        BY <1>2, <3>4
      <4>1. x + 1 <= P * r
        BY <1>2, <3>4
      <4> HIDE DEF x
      <4>2. b * (x + 1) <= b * (P * r)
        BY <1>2, <3>4, <4>1, Smaller
      <4>3. b * (x + 1) = (b * x) + b /\ b * x \in Nat
        BY <1>2
      <4>4. b * (P * r) <= b * x /\ b * (P * r) \in Nat
        BY <3>3, <3>4
      <4> QED BY <4>2, <4>3, <4>4
    <3>6. x <= P * r
      <4>1. s * w <= s * P
        BY <1>1, <1>2, Smaller DEF P
      <4>2. P * s <= P * r
        BY <1>1, <1>2, <3>2, Smaller
      <4>3. s * P = P * s /\ s * P \in Nat
        BY <1>1, <1>2
      <4> QED BY <1>2, <3>4, <4>1, <4>2, <4>3
    <3>7. x = P * r
      BY <1>2, <3>4, <3>5, <3>6
    <3>8. (2 * h) * r = (2 * r) * h
      OBVIOUS
    <3> QED BY <1>1, <3>2, <3>7, <3>8
  <2> QED BY <2>1, <2>2
<1>6. PICK c \in Nat : x = v * c
  BY <1>5
<1> HIDE DEF v, x
<1>7. a = (b * v) * c
  BY <1>4, <1>6
<1>8. m = c
  <2> DEFINE t == b * v
  <2>1. t \in Nat \ {0} /\ a = t * c /\ m = Whole(a, t)
    BY <1>4, <1>7
  <2> HIDE DEF t, a
  <2> QED BY <2>1, WholeExact
<1>9. Nearest(a, b) = x
  BY <1>4, <1>6, <1>8
<1> QED BY <1>9 DEF x, s, a

\* What was rounded is a double, and zero is one.
LEMMA NearestIsDouble ==
  ASSUME NEW a \in Nat, NEW b \in Nat \ {0}
  PROVE  IsDouble(Nearest(a, b))
<1>1. PICK k \in Nat, m \in Nat : Rounds(a, b, k, m)
  BY NearestForm
<1>2. m <= 2^Precision
  BY <1>1, RoundsSize
<1>3. Nearest(1 * (2^k * m), 1) = 2^k * m
  BY <1>2, NearestExact
<1>4. 2^k * m \in Nat
  <2>1. 2^k \in Nat
    BY Powers
  <2> QED BY <2>1
<1>5. 1 * (2^k * m) = 2^k * m
  BY <1>4
<1>6. Nearest(a, b) = 2^k * m
  BY <1>1 DEF Rounds
<1> QED BY <1>3, <1>5, <1>6 DEF IsDouble

LEMMA ZeroIsDouble == IsDouble(0)
<1>1. 2^Precision \in Nat
  BY Bits
<1>2. Nearest(1 * (2^0 * 0), 1) = 2^0 * 0
  BY <1>1, NearestExact
<1>3. 2^0 * 0 = 0 /\ 1 * (2^0 * 0) = 0
  BY Powers
<1> QED BY <1>2, <1>3 DEF IsDouble

Size(x) == IF x < 0 THEN -x ELSE x

\* The relative error is half the last of Precision bits, or the spacing is the least one.
LEMMA NearestError ==
  ASSUME NEW a \in Nat, NEW b \in Nat \ {0}
  PROVE  LET off == b * Nearest(a, b) - a IN
         2^Precision * Size(off) <= a \/ 2 * Size(off) <= b
<1> DEFINE P == 2^Precision
<1>1. PICK k \in Nat, m \in Nat : Rounds(a, b, k, m)
  BY NearestForm
<1> DEFINE s == 2^k
           t == b * s
           off == b * Nearest(a, b) - a
<1>2. /\ s \in Nat \ {0} /\ t \in Nat \ {0} /\ m = Whole(a, t) /\ Nearest(a, b) = s * m
      /\ k > 0 => a >= (b * P) * 2^(k - 1)
  BY <1>1 DEF Rounds, Fits
<1>3. P \in Nat
  BY Bits
<1>4. 2 * (t * m) <= 2 * a + t /\ 2 * a <= 2 * (t * m) + t
  <2> HIDE DEF t
  <2> QED BY <1>2, WholeNear
<1>5. b * (s * m) = t * m /\ t * m \in Nat
  BY <1>2
<1>6. off \in Int /\ 2 * Size(off) <= t /\ Size(off) \in Nat
  <2>1. off = t * m - a
    BY <1>2, <1>5
  <2> HIDE DEF off, t
  <2> QED BY <1>2, <1>4, <1>5, <2>1 DEF Size
<1>7. CASE k = 0
  <2>1. s = 1
    BY <1>7, Powers
  <2>2. t = b
    BY <2>1
  <2> QED BY <1>6, <2>2
<1>8. CASE k > 0
  <2>1. k - 1 \in Nat /\ (k - 1) + 1 = k
    BY <1>8
  <2>2. PICK v \in Nat : v = 2^(k - 1) /\ s = 2 * v
    BY <2>1, Powers
  <2>3. a >= (b * P) * v
    BY <1>2, <1>8, <2>2
  <2> DEFINE z == Size(off)
  <2>4. 2 * z <= b * (2 * v) /\ z \in Nat
    BY <1>6, <2>2
  <2> HIDE DEF z, P, s, t, off
  <2>5. z <= b * v
    <3>1. b * (2 * v) = 2 * (b * v) /\ b * v \in Nat
      OBVIOUS
    <3> QED BY <2>4, <3>1
  <2>6. P * z <= P * (b * v)
    <3>1. b * v \in Nat
      OBVIOUS
    <3> QED BY <1>3, <2>4, <2>5, <3>1, Smaller
  <2>7. P * (b * v) = (b * P) * v /\ P * (b * v) \in Nat /\ P * z \in Nat
    BY <1>3, <2>4
  <2>8. P * z <= a
    BY <2>3, <2>6, <2>7
  <2> QED BY <2>8 DEF z, P, off
<1> QED BY <1>7, <1>8

\* One is at least 2^Precision.
LEMMA OneForm ==
  /\ One \in Nat \ {0} /\ 2^Precision \in Nat \ {0} /\ 2^Precision <= One
  /\ \A d \in Nat \ {0} : Nearest(d * One, d) = One
<1>1. Precision \in Nat /\ Scale \in Nat /\ Precision <= Scale
  BY DoublesAssumption
<1>2. One \in Nat \ {0} /\ 2^Precision \in Nat \ {0} /\ 2^Precision <= One
  BY <1>1, Powers, PowersOrdered DEF One
<1>3. ASSUME NEW d \in Nat \ {0}
      PROVE  Nearest(d * One, d) = One
  <2>1. Nearest(d * (2^Scale * 1), d) = 2^Scale * 1
    <3>1. 1 \in Nat /\ 1 <= 2^Precision
      BY <1>2
    <3> QED BY <1>1, <3>1, NearestExact
  <2>2. 2^Scale * 1 = One
    BY <1>2 DEF One
  <2> QED BY <2>1, <2>2
<1> QED BY <1>2, <1>3

\* A product of a factor and what is at most that of another factor.
LEMMA LessTimes ==
  ASSUME NEW c \in Nat \ {0}, NEW x \in Int, NEW y \in Int, c * x <= c * y
  PROVE  x <= y
OBVIOUS

\* A product is at most a product of more.
LEMMA Products ==
  ASSUME NEW x \in Nat, NEW y \in Nat, NEW z \in Nat, NEW w \in Nat, x <= z, y <= w
  PROVE  x * y \in Nat /\ z * w \in Nat /\ x * y <= z * w
<1>1. x * y <= x * w /\ w * x <= w * z
  BY Smaller
<1>2. x * y \in Nat /\ x * w \in Nat /\ x * w = w * x /\ w * z = z * w /\ z * w \in Nat
  OBVIOUS
<1> QED BY <1>1, <1>2

\* The quotient of a part and a whole.
LEMMA QuotientForm ==
  ASSUME NEW n \in Nat, NEW d \in Nat \ {0}
  PROVE  /\ Quotient(n, d) \in Nat
         /\ \A m \in Nat : n <= m => Quotient(n, d) <= Quotient(m, d)
         /\ n <= d => /\ Quotient(n, d) <= One
                      /\ 2^Precision * Size(d * Quotient(n, d) - n * One) <= One * d
<1> DEFINE P == 2^Precision
           a(i) == i * One
           q(i) == Nearest(a(i), d)
<1>1. One \in Nat \ {0} /\ P \in Nat \ {0} /\ P <= One /\ q(d) = One
  BY OneForm
<1>2. \A i \in Nat : a(i) \in Nat /\ Quotient(i, d) = q(i)
  BY <1>1 DEF Quotient
<1>3. \A i \in Nat, j \in Nat : i <= j => a(i) <= a(j)
  BY <1>1, Products
<1> HIDE DEF a
<1>4. \A i \in Nat : q(i) \in Nat
  BY <1>2, NearestNat
<1>5. \A i \in Nat, j \in Nat : i <= j => q(i) <= q(j)
  BY <1>2, <1>3, NearestGrows
<1>6. ASSUME n <= d
      PROVE  P * Size(d * q(n) - a(n)) <= One * d
  <2> DEFINE z == Size(d * q(n) - a(n))
  <2>1. P * z <= a(n) \/ 2 * z <= d
    BY <1>2, NearestError
  <2>2. z \in Nat
    <3>1. d * q(n) \in Nat
      BY <1>4
    <3> HIDE DEF q
    <3> QED BY <1>2, <3>1 DEF Size
  <2>3. a(n) <= One * d
    BY <1>1, <1>6, Products DEF a
  <2> HIDE DEF z, P, q
  <2>4. CASE P * z <= a(n)
    <3>1. P * z \in Nat /\ One * d \in Nat /\ a(n) \in Nat
      BY <1>1, <1>2, <2>2
    <3> QED BY <2>3, <2>4, <3>1 DEF z
  <2>5. CASE 2 * z <= d
    <3>1. z <= d
      BY <2>2, <2>5
    <3>2. P * z <= One * d
      BY <1>1, <2>2, <3>1, Products
    <3> QED BY <3>2 DEF z
  <2> QED BY <2>1, <2>4, <2>5
<1> HIDE DEF q
<1> QED BY <1>1, <1>2, <1>4, <1>5, <1>6 DEF a, P

\* A hundred times a quotient.
LEMMA HundredfoldForm ==
  ASSUME NEW q \in Nat
  PROVE  /\ Hundredfold(q) \in Nat
         /\ \A r \in Nat : q <= r => Hundredfold(q) <= Hundredfold(r)
         /\ q <= One => 2^Precision * Size(Hundredfold(q) - 100 * q) <= 100 * One
<1> DEFINE P == 2^Precision
           x(i) == Nearest(100 * i, 1)
<1>1. One \in Nat \ {0} /\ P \in Nat \ {0} /\ P <= One
  BY OneForm
<1>2. \A i \in Nat : x(i) \in Nat /\ Hundredfold(i) = x(i)
  BY NearestNat DEF Hundredfold
<1>3. \A i \in Nat, j \in Nat : i <= j => x(i) <= x(j)
  <2>1. \A i \in Nat, j \in Nat : i <= j => 100 * i <= 100 * j
    OBVIOUS
  <2> QED BY <2>1, NearestGrows
<1>4. ASSUME q <= One
      PROVE  P * Size(x(q) - 100 * q) <= 100 * One
  <2> DEFINE z == Size(x(q) - 100 * q)
  <2>1. P * z <= 100 * q \/ 2 * z <= 1
    <3>1. \A y \in Nat : 1 * y = y
      OBVIOUS
    <3>2. 1 * Nearest(100 * q, 1) = Nearest(100 * q, 1)
      BY <1>2, <3>1
    <3>3. 100 * q \in Nat /\ 1 \in Nat \ {0}
      OBVIOUS
    <3> QED BY <3>2, <3>3, NearestError
  <2> HIDE DEF x
  <2>2. z \in Nat
    BY <1>2 DEF Size
  <2> HIDE DEF z, P
  <2>3. CASE P * z <= 100 * q
    BY <1>1, <1>4, <2>2, <2>3 DEF z
  <2>4. CASE 2 * z <= 1
    <3>1. z = 0
      BY <2>2, <2>4
    <3>2. P * z = 0
      BY <1>1, <3>1
    <3> QED BY <1>1, <3>2 DEF z
  <2> QED BY <2>1, <2>3, <2>4
<1> HIDE DEF x
<1> QED BY <1>2, <1>3, <1>4 DEF P

-------------------------------------------------------------------------------
(* Sums that are rounded.                                                          *)

\* One step of a sum over a list: some places are skipped.
Added(g, J, w, i) ==
  IF i = 0 THEN 0 ELSE IF i \notin J THEN g[i - 1] ELSE Plus(g[i - 1], w[i])

LEMMA PlusForm ==
  ASSUME NEW x \in Nat, NEW y \in Nat
  PROVE  Plus(x, y) \in Nat /\ IsDouble(Plus(x, y))
BY NearestNat, NearestIsDouble DEF Plus

\* A sum over the first n places.
Approximates(g, J, w, n) ==
  g \in [0..n -> Nat] /\ \A i \in 0..n : g[i] = Added(g, J, w, i)

LEMMA ApproximationExists ==
  ASSUME NEW J, NEW w, \A i \in J : w[i] \in Nat, NEW n \in Nat
  PROVE  \E g : Approximates(g, J, w, n)
<1> DEFINE Bad == {k \in Nat : ~ \E g : Approximates(g, J, w, k)}
<1> SUFFICES ASSUME Bad # {} PROVE FALSE
  OBVIOUS
<1>1. PICK k \in Bad : \A j \in Bad : k <= j
  <2>1. Bad \subseteq Nat
    OBVIOUS
  <2> HIDE DEF Bad
  <2> QED BY <2>1, LeastNumber
<1>2. k # 0
  <2>1. SUFFICES ASSUME k = 0 PROVE FALSE
    OBVIOUS
  <2> DEFINE g == [i \in 0..0 |-> 0]
  <2>2. Approximates(g, J, w, 0)
    BY DEF Approximates, Added
  <2> HIDE DEF g
  <2> QED BY <1>1, <2>1, <2>2
<1>3. k \in Nat /\ k - 1 \in Nat /\ k - 1 \notin Bad
  BY <1>1, <1>2
<1>4. PICK g : Approximates(g, J, w, k - 1)
  BY <1>3
<1>5. g \in [0..k - 1 -> Nat] /\ \A i \in 0..k - 1 : g[i] = Added(g, J, w, i)
  BY <1>4 DEF Approximates
<1> DEFINE last == Added(g, J, w, k)
           h == [i \in 0..k |-> IF i = k THEN last ELSE g[i]]
<1>6. last \in Nat
  <2>1. g[k - 1] \in Nat
    BY <1>3, <1>5
  <2>2. k \in J => Plus(g[k - 1], w[k]) \in Nat
    BY <2>1, PlusForm
  <2> QED BY <2>1, <2>2 DEF Added
<1> HIDE DEF last
<1>7. h \in [0..k -> Nat]
  <2>1. \A i \in 0..k : i # k => i \in 0..k - 1
    BY <1>3
  <2> QED BY <1>5, <1>6, <2>1
<1>8. ASSUME NEW i \in 0..k
      PROVE  h[i] = Added(h, J, w, i)
  <2>1. i # 0 => i - 1 \in 0..k /\ i - 1 # k /\ h[i - 1] = g[i - 1]
    BY <1>3
  <2>2. Added(h, J, w, i) = Added(g, J, w, i)
    <3> HIDE DEF h
    <3> QED BY <2>1 DEF Added
  <2>3. CASE i = k
    BY <2>2, <2>3 DEF last
  <2>4. CASE i # k
    <3>1. i \in 0..k - 1 /\ h[i] = g[i]
      BY <1>3, <2>4
    <3> QED BY <1>5, <2>2, <3>1
  <2> QED BY <2>3, <2>4
<1>9. Approximates(h, J, w, k)
  <2> HIDE DEF h
  <2> QED BY <1>7, <1>8 DEF Approximates
<1> HIDE DEF h
<1> QED BY <1>1, <1>9

LEMMA ApproximationsAgree ==
  ASSUME NEW J, NEW w, NEW m \in Nat, NEW n \in Nat, m <= n, NEW g, NEW h,
         Approximates(g, J, w, m), Approximates(h, J, w, n)
  PROVE  \A i \in 0..m : g[i] = h[i]
<1> DEFINE Bad == {i \in 0..m : g[i] # h[i]}
<1> SUFFICES ASSUME Bad # {} PROVE FALSE
  OBVIOUS
<1>1. PICK k \in Bad : \A j \in Bad : k <= j
  <2>1. Bad \subseteq Nat
    OBVIOUS
  <2> HIDE DEF Bad
  <2> QED BY <2>1, LeastNumber
<1>2. k \in 0..m /\ k \in 0..n /\ g[k] # h[k]
  BY <1>1
<1>3. g[k] = Added(g, J, w, k) /\ h[k] = Added(h, J, w, k)
  BY <1>2 DEF Approximates
<1>4. k # 0 => k - 1 \in 0..m /\ k - 1 \notin Bad
  BY <1>1, <1>2
<1>5. k # 0 => g[k - 1] = h[k - 1]
  BY <1>4
<1> QED BY <1>2, <1>3, <1>5 DEF Added

\* So there is a sum over all places.
LEMMA RunningSum ==
  ASSUME NEW J, NEW w, \A i \in J : w[i] \in Nat
  PROVE  \E f \in [Nat -> Nat] : \A i \in Nat : f[i] = Added(f, J, w, i)
<1> DEFINE G(n) == CHOOSE g : Approximates(g, J, w, n)
           f == [n \in Nat |-> G(n)[n]]
<1>1. \A n \in Nat : Approximates(G(n), J, w, n)
  BY ApproximationExists
<1> HIDE DEF G
<1>2. \A n \in Nat : /\ n \in 0..n /\ G(n)[n] \in Nat
                     /\ G(n)[n] = Added(G(n), J, w, n)
  BY <1>1 DEF Approximates
<1>3. f \in [Nat -> Nat]
  BY <1>2
<1>4. ASSUME NEW n \in Nat
      PROVE  f[n] = Added(f, J, w, n)
  <2>1. CASE n = 0
    BY <1>2, <2>1 DEF Added
  <2>2. CASE n # 0
    <3>1. n - 1 \in Nat /\ n - 1 <= n /\ n - 1 \in 0..n - 1
      BY <2>2
    <3>2. G(n - 1)[n - 1] = G(n)[n - 1]
      BY <1>1, <3>1, ApproximationsAgree
    <3>3. f[n - 1] = G(n)[n - 1] /\ f[n] = G(n)[n]
      BY <3>1, <3>2
    <3>4. Added(f, J, w, n) = Added(G(n), J, w, n)
      <4> HIDE DEF f
      <4> QED BY <2>2, <3>3 DEF Added
    <3> QED BY <1>2, <3>3, <3>4
  <2> QED BY <2>1, <2>2
<1> HIDE DEF f
<1> QED BY <1>3, <1>4

\* What of a set is at a place of the order.
At(T, i) == {x \in T : x.of = Order[i]}
WeightAt(T, i) == (CHOOSE x \in At(T, i) : TRUE).weight

\* The weight of what was counted is the last of a sequence of sums, each of them a double.
Adds(f, T) ==
  /\ f \in [Nat -> Nat] /\ f[0] = 0
  /\ \A i \in Nat \ {0} :
       f[i] = IF At(T, i) = {} THEN f[i - 1] ELSE Plus(f[i - 1], WeightAt(T, i))
  /\ \A i \in Nat : IsDouble(f[i])

LEMMA WeightForm ==
  ASSUME NEW T, \A x \in T : x.weight \in Nat
  PROVE  \E f : Adds(f, T) /\ Weight(T) = f[Len(Order)]
<1> DEFINE J == {i \in Nat : At(T, i) # {}}
           w == [i \in Nat |-> WeightAt(T, i)]
           Following(g, i) == IF i = 0 THEN 0
                          ELSE IF At(T, i) = {} THEN g[i - 1]
                          ELSE Plus(g[i - 1], WeightAt(T, i))
           Sum(g) == g = [i \in Nat |-> Following(g, i)]
           f == CHOOSE g : Sum(g)
<1>1. \A i \in J : At(T, i) # {} /\ w[i] = WeightAt(T, i)
  OBVIOUS
<1>2. \A i \in J : w[i] \in Nat
  BY <1>1 DEF At, WeightAt
<1>3. Weight(T) = f[Len(Order)]
  BY DEF Weight, At, WeightAt
<1>4. \A g, i : i \in Nat => Added(g, J, w, i) = Following(g, i)
  BY DEF Added
<1> HIDE DEF J, w, Following
<1>5. PICK h \in [Nat -> Nat] : \A i \in Nat : h[i] = Added(h, J, w, i)
  BY <1>2, RunningSum
<1>6. Sum(h)
  BY <1>4, <1>5
<1>7. Sum(f)
  <2> HIDE DEF Sum
  <2> QED BY <1>6
<1>8. \A i \in Nat : f[i] = Following(f, i)
  <2> HIDE DEF f
  <2>1. f = [i \in Nat |-> Following(f, i)]
    BY <1>7
  <2> QED BY <2>1, Zenon
<1> HIDE DEF Sum, f
<1> DEFINE Good(i) == f[i] \in Nat /\ IsDouble(f[i])
<1>9. \A i \in Nat : Good(i)
  <2> DEFINE Bad == {i \in Nat : ~ Good(i)}
  <2> SUFFICES ASSUME Bad # {} PROVE FALSE
    OBVIOUS
  <2>1. PICK k \in Bad : \A j \in Bad : k <= j
    <3>1. Bad \subseteq Nat
      OBVIOUS
    <3> HIDE DEF Bad
    <3> QED BY <3>1, LeastNumber
  <2>2. f[k] = Following(f, k) /\ k \in Nat
    BY <1>8, <2>1
  <2>3. k # 0
    BY <2>1, <2>2, ZeroIsDouble DEF Following
  <2>4. k - 1 \in Nat /\ k - 1 \notin Bad
    BY <2>1, <2>3
  <2>5. Good(k - 1)
    BY <2>4
  <2>6. At(T, k) # {} => WeightAt(T, k) \in Nat
    BY DEF At, WeightAt
  <2>7. At(T, k) # {} => Plus(f[k - 1], WeightAt(T, k)) \in Nat
                          /\ IsDouble(Plus(f[k - 1], WeightAt(T, k)))
    BY <2>5, <2>6, PlusForm
  <2> QED BY <2>1, <2>2, <2>3, <2>5, <2>7 DEF Following
<1>10. f \in [Nat -> Nat]
  <2>1. f = [i \in Nat |-> Following(f, i)]
    BY <1>7 DEF Sum
  <2> HIDE DEF Good
  <2>2. \A i \in Nat : Following(f, i) \in Nat
    BY <1>8, <1>9 DEF Good
  <2>3. [i \in Nat |-> Following(f, i)] \in [Nat -> Nat]
    BY <2>2
  <2> QED BY <2>1, <2>3
<1>11. Adds(f, T)
  BY <1>8, <1>9, <1>10 DEF Adds, Following
<1> QED BY <1>3, <1>11

\* Weights are natural, and nothing is counted twice.
Weighty(T) ==
  /\ \A x \in T : x.weight \in Nat
  /\ \A x, y \in T : x.of = y.of => x = y

LEMMA WeightNat ==
  ASSUME NEW T, Weighty(T)
  PROVE  Weight(T) \in Nat
<1>1. PICK f : Adds(f, T) /\ Weight(T) = f[Len(Order)]
  BY WeightForm DEF Weighty
<1>2. Len(Order) \in Nat
  BY TotalsAssumption
<1> QED BY <1>1, <1>2 DEF Adds

LEMMA WeightOfNothing == Weight({}) = 0
<1>1. PICK f : Adds(f, {}) /\ Weight({}) = f[Len(Order)]
  BY WeightForm
<1>2. \A i \in Nat : At({}, i) = {}
  BY DEF At
<1> DEFINE Bad == {i \in Nat : f[i] # 0}
<1>3. Bad = {}
  <2> SUFFICES ASSUME Bad # {} PROVE FALSE
    OBVIOUS
  <2>1. PICK k \in Bad : \A j \in Bad : k <= j
    <3>1. Bad \subseteq Nat
      OBVIOUS
    <3> HIDE DEF Bad
    <3> QED BY <3>1, LeastNumber
  <2>2. k # 0
    BY <1>1, <2>1 DEF Adds
  <2>3. k - 1 \in Nat /\ k - 1 \notin Bad
    BY <2>1, <2>2
  <2>4. f[k] = f[k - 1]
    BY <1>1, <1>2, <2>1, <2>2 DEF Adds
  <2> QED BY <2>1, <2>3, <2>4
<1>4. Len(Order) \in Nat
  BY TotalsAssumption
<1> QED BY <1>1, <1>3, <1>4

\* A part weighs at most what the whole weighs, however both are rounded.
LEMMA WeightGrows ==
  ASSUME NEW B, Weighty(B), NEW A \in SUBSET B
  PROVE  Weight(A) <= Weight(B)
<1>1. PICK f : Adds(f, A) /\ Weight(A) = f[Len(Order)]
  BY WeightForm DEF Weighty
<1>2. PICK g : Adds(g, B) /\ Weight(B) = g[Len(Order)]
  BY WeightForm DEF Weighty
<1> DEFINE Bad == {i \in Nat : ~ f[i] <= g[i]}
<1>3. Bad = {}
  <2> SUFFICES ASSUME Bad # {} PROVE FALSE
    OBVIOUS
  <2>1. PICK k \in Bad : \A j \in Bad : k <= j
    <3>1. Bad \subseteq Nat
      OBVIOUS
    <3> HIDE DEF Bad
    <3> QED BY <3>1, LeastNumber
  <2>2. k # 0
    BY <1>1, <1>2, <2>1 DEF Adds
  <2>3. k - 1 \in Nat /\ k - 1 \notin Bad /\ k \in Nat \ {0}
    BY <2>1, <2>2
  <2>4. f[k - 1] <= g[k - 1]
    BY <2>3
  <2>5. f[k - 1] \in Nat /\ g[k - 1] \in Nat /\ f[k] \in Nat /\ g[k] \in Nat
    BY <1>1, <1>2, <2>3 DEF Adds
  <2>6. IsDouble(f[k - 1]) /\ IsDouble(g[k - 1])
    BY <1>1, <1>2, <2>3 DEF Adds
  <2>7. At(A, k) \subseteq At(B, k) /\ \A x, y \in At(B, k) : x = y
    BY DEF At, Weighty
  <2>8. /\ At(A, k) # {} => WeightAt(A, k) \in Nat
        /\ At(B, k) # {} => WeightAt(B, k) \in Nat
    BY DEF At, WeightAt, Weighty
  <2>9. /\ f[k] = IF At(A, k) = {} THEN f[k - 1] ELSE Plus(f[k - 1], WeightAt(A, k))
        /\ g[k] = IF At(B, k) = {} THEN g[k - 1] ELSE Plus(g[k - 1], WeightAt(B, k))
    BY <1>1, <1>2, <2>3 DEF Adds
  <2>10. CASE At(B, k) = {}
    BY <2>1, <2>4, <2>7, <2>9, <2>10
  <2>11. CASE At(B, k) # {}
    <3> DEFINE v == WeightAt(B, k)
               x == f[k - 1]
               y == g[k - 1]
    <3>1. v \in Nat /\ g[k] = Nearest(y + v, 1)
      BY <2>8, <2>9, <2>11 DEF Plus
    <3>2. f[k] = x \/ f[k] = Nearest(x + v, 1)
      <4>1. CASE At(A, k) = {}
        BY <2>9, <4>1
      <4>2. CASE At(A, k) # {}
        <5>1. At(A, k) = At(B, k)
          BY <2>7, <4>2
        <5>2. WeightAt(A, k) = v
          BY <5>1 DEF WeightAt
        <5> QED BY <2>9, <4>2, <5>2 DEF Plus
      <4> QED BY <4>1, <4>2
    <3> HIDE DEF v
    <3>3. Nearest(x, 1) = x
      BY <2>6 DEF IsDouble
    <3> HIDE DEF x, y
    <3>4. x \in Nat /\ y \in Nat /\ x <= y
      BY <2>4, <2>5 DEF x, y
    <3>5. x <= y + v /\ x + v <= y + v /\ x + v \in Nat /\ y + v \in Nat
      BY <3>1, <3>4
    <3>6. Nearest(x, 1) <= Nearest(y + v, 1) /\ Nearest(x + v, 1) <= Nearest(y + v, 1)
      BY <3>4, <3>5, NearestGrows
    <3>7. f[k] <= g[k]
      BY <3>1, <3>2, <3>3, <3>6
    <3> QED BY <2>1, <3>7
  <2> QED BY <2>10, <2>11
<1>4. Len(Order) \in Nat
  BY TotalsAssumption
<1> QED BY <1>1, <1>2, <1>3, <1>4

\* The exact weight of a part is a sum of one function over the whole.
LEMMA ExactWeightOf ==
  ASSUME NEW counted, IsFiniteSet(counted), \A x \in counted : x.weight \in Nat
  PROVE  LET w == [x \in counted |-> x.weight] IN
         /\ \A x \in counted : w[x] \in Nat
         /\ \A T \in SUBSET counted : ExactWeight(T) = SumFunctionOnSet(w, T)
<1> DEFINE w == [x \in counted |-> x.weight]
<1>1. \A x \in counted : w[x] = x.weight /\ w[x] \in Nat
  OBVIOUS
<1>2. ASSUME NEW T \in SUBSET counted
      PROVE  ExactWeight(T) = SumFunctionOnSet(w, T)
  <2> DEFINE v == [x \in T |-> x.weight]
  <2>1. IsFiniteSet(T)
    BY FS_Subset
  <2>2. \A x \in T : v[x] = w[x] /\ v[x] \in Nat
    OBVIOUS
  <2>3. ExactWeight(T) = SumFunctionOnSet(v, T)
    BY DEF ExactWeight
  <2> HIDE DEF v, w
  <2>4. SumFunctionOnSet(v, T) = SumFunctionOnSet(w, T)
    BY <2>1, <2>2, SumSame
  <2> QED BY <2>3, <2>4
<1> HIDE DEF w
<1>3. /\ \A x \in counted : w[x] \in Nat
      /\ \A T \in SUBSET counted : ExactWeight(T) = SumFunctionOnSet(w, T)
  BY <1>1, <1>2
<1> QED BY <1>3 DEF w

\* Where every part has a sum that is a double, nothing is rounded.
LEMMA NothingRounded ==
  ASSUME NEW S, IsFiniteSet(S), Weighty(S), \A x \in S : x.of \in Range(Order),
         AddsExactly(S), NEW T \in SUBSET S
  PROVE  Weight(T) = ExactWeight(T)
<1> DEFINE w == [x \in S |-> x.weight]
           Sum(U) == SumFunctionOnSet(w, U)
           n == Len(Order)
           Upto(i) == {x \in T : \E j \in 1..i : Order[j] = x.of}
<1>1. n \in Nat /\ DOMAIN Order = 1..n
  BY TotalsAssumption
<1>2. \A i, j \in 1..n : Order[i] = Order[j] => i = j
  BY <1>1, TotalsAssumption DEF IsInjective
<1>3. \A x \in S : w[x] = x.weight /\ w[x] \in Nat
  BY DEF Weighty
<1>4. \A U \in SUBSET S : ExactWeight(U) = Sum(U)
  BY ExactWeightOf DEF Weighty
<1> HIDE DEF w
<1>5. /\ Sum({}) = 0
      /\ \A U \in SUBSET S : /\ Sum(U) \in Nat /\ IsDouble(Sum(U))
                             /\ \A x \in U : Sum(U) = w[x] + Sum(U \ {x})
  <2>1. \A U \in SUBSET S : IsDouble(Sum(U))
    BY <1>4 DEF AddsExactly
  <2> QED BY <1>3, <2>1, Sums
<1> HIDE DEF Sum, n
<1>6. PICK f : Adds(f, T) /\ Weight(T) = f[n]
  BY WeightForm DEF Weighty, n
<1> DEFINE Bad == {i \in 0..n : f[i] # Sum(Upto(i))}
<1>7. Bad = {}
  <2> SUFFICES ASSUME Bad # {} PROVE FALSE
    OBVIOUS
  <2>1. PICK k \in Bad : \A j \in Bad : k <= j
    <3>1. Bad \subseteq Nat
      OBVIOUS
    <3> HIDE DEF Bad
    <3> QED BY <3>1, LeastNumber
  <2>2. k \in 0..n /\ f[k] # Sum(Upto(k))
    BY <2>1
  <2>3. k # 0
    <3> SUFFICES ASSUME k = 0 PROVE FALSE
      OBVIOUS
    <3>1. Upto(0) = {}
      OBVIOUS
    <3> QED BY <1>5, <1>6, <2>2, <3>1 DEF Adds
  <2>4. k - 1 \in 0..n /\ k - 1 \notin Bad /\ k \in 1..n /\ k \in Nat \ {0}
    BY <1>1, <2>1, <2>2, <2>3
  <2>5. f[k - 1] = Sum(Upto(k - 1))
    BY <2>4
  <2>6. f[k] = IF At(T, k) = {} THEN f[k - 1] ELSE Plus(f[k - 1], WeightAt(T, k))
    BY <1>6, <2>4 DEF Adds
  <2>7. Upto(k) = Upto(k - 1) \cup At(T, k) /\ Upto(k - 1) \cap At(T, k) = {}
    <3>1. \A j \in 1..k : j \in 1..k - 1 \/ j = k
      BY <2>4
    <3>2. \A j \in 1..k - 1 : j \in 1..k /\ j \in 1..n /\ j # k
      BY <1>1, <2>4
    <3>3. k \in 1..k
      BY <2>4
    <3>4. \A x \in Upto(k) : x \in Upto(k - 1) \/ x \in At(T, k)
      BY <3>1 DEF At
    <3>5. \A x \in Upto(k - 1) : x \in Upto(k) /\ x \notin At(T, k)
      BY <1>2, <2>4, <3>2 DEF At
    <3>6. \A x \in At(T, k) : x \in Upto(k)
      BY <3>3 DEF At
    <3> HIDE DEF Upto
    <3> QED BY <3>4, <3>5, <3>6
  <2>8. Upto(k) \in SUBSET S /\ Upto(k - 1) \in SUBSET S
    OBVIOUS
  <2> HIDE DEF Upto
  <2>9. CASE At(T, k) = {}
    BY <2>2, <2>5, <2>6, <2>7, <2>9
  <2>10. CASE At(T, k) # {}
    <3>1. PICK x \in T : At(T, k) = {x}
      <4>1. \A x, y \in At(T, k) : x \in T /\ x = y
        BY DEF At, Weighty
      <4> QED BY <2>10, <4>1
    <3>2. WeightAt(T, k) = w[x]
      BY <1>3, <3>1 DEF WeightAt
    <3>3. x \in Upto(k) /\ Upto(k) \ {x} = Upto(k - 1)
      BY <2>7, <3>1
    <3>4. Sum(Upto(k)) = w[x] + Sum(Upto(k - 1))
      BY <1>5, <2>8, <3>3
    <3>5. w[x] \in Nat /\ Sum(Upto(k - 1)) \in Nat
      BY <1>3, <1>5, <2>8, <3>1
    <3>6. f[k] = Nearest(Sum(Upto(k - 1)) + w[x], 1)
      BY <2>5, <2>6, <2>10, <3>2 DEF Plus
    <3>7. Sum(Upto(k - 1)) + w[x] = Sum(Upto(k))
      BY <3>4, <3>5
    <3>8. Nearest(Sum(Upto(k)), 1) = Sum(Upto(k))
      BY <1>5, <2>8 DEF IsDouble
    <3>9. f[k] = Sum(Upto(k))
      BY <3>6, <3>7, <3>8
    <3> QED BY <2>2, <3>9
  <2> QED BY <2>9, <2>10
<1>8. Upto(n) = T
  <2>1. \A x \in T : \E j \in 1..n : Order[j] = x.of
    BY <1>1 DEF Range
  <2> QED BY <2>1
<1>9. n \in 0..n
  BY <1>1
<1> HIDE DEF Upto
<1>10. Weight(T) = Sum(T)
  BY <1>6, <1>7, <1>8, <1>9
<1> QED BY <1>4, <1>10

\* Weights that are multiples of one power of two, such as whole numbers, add up exactly
\* in every order as long as all of them together have Precision bits: 53 in a double.
THEOREM SmallTotalsAreExact ==
  ASSUME NEW counted, IsFiniteSet(counted), NEW e \in Nat,
         \A x \in counted : \E j \in Nat : x.weight = 2^e * j,
         ExactWeight(counted) <= 2^e * 2^Precision
  PROVE  AddsExactly(counted)
<1> DEFINE w == [x \in counted |-> x.weight]
           Sum(U) == SumFunctionOnSet(w, U)
           s == 2^e
           P == 2^Precision
<1>1. s \in Nat \ {0} /\ P \in Nat
  BY Powers, Bits
<1>2. \A x \in counted : x.weight \in Nat
  <2>1. \A j \in Nat : s * j \in Nat
    BY <1>1
  <2> QED BY <2>1
<1>3. \A T \in SUBSET counted : ExactWeight(T) = Sum(T)
  BY <1>2, ExactWeightOf
<1>4. \A x \in counted : w[x] \in Nat /\ \E j \in Nat : w[x] = s * j
  BY <1>2
<1> HIDE DEF w
<1>5. /\ Sum({}) = 0
      /\ \A U \in SUBSET counted : /\ Sum(U) \in Nat
                                   /\ \A x \in U : Sum(U) = w[x] + Sum(U \ {x})
  BY <1>4, Sums
<1>6. ASSUME NEW U \in SUBSET counted
      PROVE  Sum(U) <= Sum(counted)
  BY <1>4, SumGrows
<1> HIDE DEF Sum, s, P
<1> DEFINE Multiple(U) == \E j \in Nat : Sum(U) = s * j
           Bad == {U \in SUBSET counted : ~ Multiple(U)}
<1>7. Bad = {}
  <2> SUFFICES ASSUME Bad # {} PROVE FALSE
    OBVIOUS
  <2>1. PICK m \in Bad : \A t \in Bad : t \subseteq m => t = m
    <3>1. Bad \subseteq SUBSET counted
      OBVIOUS
    <3> HIDE DEF Bad
    <3> QED BY <3>1, SmallestSubset
  <2>2. m # {}
    <3>1. s * 0 = 0
      BY <1>1
    <3> QED BY <1>5, <2>1, <3>1
  <2>3. PICK x \in m : TRUE
    BY <2>2
  <2>4. m \ {x} \in SUBSET counted /\ m \ {x} \notin Bad
    BY <2>1, <2>3
  <2>5. PICK i \in Nat : Sum(m \ {x}) = s * i
    BY <2>4
  <2>6. PICK j \in Nat : w[x] = s * j
    BY <1>4, <2>1, <2>3
  <2>7. Sum(m) = w[x] + Sum(m \ {x})
    BY <1>5, <2>1, <2>3
  <2>8. s * j + s * i = s * (j + i) /\ j + i \in Nat
    BY <1>1
  <2> QED BY <2>1, <2>5, <2>6, <2>7, <2>8
<1>8. ASSUME NEW U \in SUBSET counted
      PROVE  IsDouble(ExactWeight(U))
  <2>1. PICK j \in Nat : Sum(U) = s * j
    BY <1>7
  <2>2. s * j <= s * P
    BY <1>1, <1>3, <1>5, <1>6, <2>1 DEF s, P
  <2>3. j <= P
    <3>1. j \in Int /\ P \in Int
      BY <1>1
    <3> QED BY <1>1, <2>2, <3>1, LessTimes
  <2>4. Nearest(1 * (2^e * j), 1) = 2^e * j
    <3>1. j <= 2^Precision
      BY <2>3 DEF P
    <3>2. 1 \in Nat \ {0}
      OBVIOUS
    <3> QED BY <3>1, <3>2, NearestExact
  <2>5. 1 * (s * j) = s * j
    BY <1>1
  <2> QED BY <1>3, <2>1, <2>4, <2>5 DEF IsDouble, s
<1> QED BY <1>8 DEF AddsExactly

-------------------------------------------------------------------------------
(* Groups.                                                                        *)

Place(g, locale) == CHOOSE i \in DOMAIN Collation[locale] : Collation[locale][i] = g

IsSorted(list, locale) ==
  \A i, j \in DOMAIN list : i < j => Place(list[i], locale) < Place(list[j], locale)

LEMMA SortedForm ==
  ASSUME NEW codes, NEW locale
  PROVE  Sorted(codes, locale) =
           CHOOSE list \in [1..Cardinality(codes) -> codes] : IsSorted(list, locale)
BY DEF Sorted, IsSorted, Place

\* A code has a place in the collation.
LEMMA PlaceOf ==
  ASSUME NEW locale \in DOMAIN Collation, NEW g \in Range(Collation[locale])
  PROVE  Place(g, locale) \in Nat /\ Collation[locale][Place(g, locale)] = g
<1> DEFINE col == Collation[locale]
<1>1. col \in Seq(Range(col))
  <2>1. col \in Range(Collation)
    BY DEF Range
  <2> QED BY <2>1, TotalsAssumption
<1>2. DOMAIN col \subseteq Nat
  BY <1>1
<1>3. \E i \in DOMAIN col : col[i] = g
  BY DEF Range
<1> QED BY <1>2, <1>3 DEF Place

\* Every finite set of known codes can be sorted.
LEMMA SortedExists ==
  ASSUME NEW locale \in DOMAIN Collation, NEW codes, IsFiniteSet(codes),
         codes \subseteq Range(Collation[locale])
  PROVE  \E list \in [1..Cardinality(codes) -> codes] : IsSorted(list, locale)
<1> DEFINE P(g) == Place(g, locale)
           Sortable(T) == \E list \in [1..Cardinality(T) -> T] : IsSorted(list, locale)
           Bad == {T \in SUBSET codes : ~ Sortable(T)}
<1>1. \A g, h \in codes : /\ P(g) \in Nat
                          /\ P(g) = P(h) => g = h
  BY PlaceOf
<1> SUFFICES ASSUME Bad # {} PROVE FALSE
  OBVIOUS
<1>2. PICK m \in Bad : \A t \in Bad : t \subseteq m => t = m
  <2>1. Bad \subseteq SUBSET codes
    OBVIOUS
  <2> HIDE DEF Bad
  <2> QED BY <2>1, SmallestSubset
<1>3. m # {}
  <2>1. SUFFICES ASSUME m = {} PROVE FALSE
    OBVIOUS
  <2> DEFINE none == [i \in 1..0 |-> 0]
  <2>2. none \in [1..0 -> m] /\ Cardinality(m) = 0
    BY <2>1, FS_EmptySet
  <2>3. IsSorted(none, locale)
    BY DEF IsSorted
  <2> HIDE DEF none
  <2> QED BY <1>2, <2>2, <2>3
<1>4. PICK x \in m : \A y \in m : P(y) <= P(x)
  <2> DEFINE Above(y) == {z \in m : P(z) > P(y)}
             All == {Above(y) : y \in m}
  <2>1. PICK least \in All : \A t \in All : t \subseteq least => t = least
    <3>1. All \subseteq SUBSET m
      <4>1. \A y \in m : Above(y) \in SUBSET m
        OBVIOUS
      <4> HIDE DEF Above
      <4> QED BY <4>1
    <3>2. All # {}
      BY <1>3
    <3>3. IsFiniteSet(m)
      BY <1>2, FS_Subset
    <3> HIDE DEF All
    <3> QED BY <3>1, <3>2, <3>3, SmallestSubset
  <2>2. PICK y \in m : least = Above(y)
    BY <2>1
  <2>3. ASSUME NEW z \in Above(y)
        PROVE  FALSE
    <3>1. z \in m /\ P(z) > P(y) /\ P(z) \in Nat /\ P(y) \in Nat
      BY <1>1, <1>2
    <3>2. Above(z) \subseteq Above(y)
      BY <1>1, <1>2, <3>1
    <3>3. z \notin Above(z)
      BY <3>1
    <3> QED BY <2>1, <2>2, <2>3, <3>1, <3>2, <3>3
  <2>4. \A z \in m : P(z) <= P(y)
    BY <1>1, <1>2, <2>3
  <2> QED BY <2>4
<1> DEFINE r == m \ {x}
           n == Cardinality(m)
<1>5. n \in Nat \ {0} /\ Cardinality(r) = n - 1
  <2>1. IsFiniteSet(m)
    BY FS_Subset
  <2> QED BY <1>3, <2>1, FS_RemoveElement, FS_CardinalityType, FS_EmptySet
<1>6. r \in SUBSET codes /\ r \notin Bad
  BY <1>2
<1>7. PICK s \in [1..(n - 1) -> r] : IsSorted(s, locale)
  <2>1. PICK s \in [1..Cardinality(r) -> r] : IsSorted(s, locale)
    BY <1>6
  <2> QED BY <2>1, <1>5
<1> DEFINE t == [i \in 1..n |-> IF i = n THEN x ELSE s[i]]
<1> HIDE DEF n
<1>8. t \in [1..n -> m]
  <2>1. ASSUME NEW i \in 1..n, i # n
        PROVE  i \in 1..(n - 1)
    BY <1>5, <2>1
  <2> QED BY <1>7, <2>1
<1>9. IsSorted(t, locale)
  <2>1. ASSUME NEW i \in 1..n, NEW j \in 1..n, i < j
        PROVE  P(t[i]) < P(t[j])
    <3>1. i \in 1..(n - 1) /\ t[i] = s[i] /\ s[i] \in r
      BY <1>5, <1>7, <2>1
    <3>2. CASE j = n
      <4>1. t[j] = x
        BY <3>2
      <4>2. s[i] \in m /\ s[i] # x
        BY <3>1
      <4>3. P(s[i]) <= P(x) /\ P(s[i]) # P(x) /\ P(s[i]) \in Nat /\ P(x) \in Nat
        BY <1>1, <1>2, <1>4, <4>2
      <4> QED BY <3>1, <4>1, <4>3
    <3>3. CASE j # n
      <4>1. j \in 1..(n - 1) /\ t[j] = s[j]
        BY <1>5, <3>3
      <4>2. P(s[i]) < P(s[j])
        BY <1>7, <2>1, <3>1, <4>1 DEF IsSorted
      <4> QED BY <3>1, <4>1, <4>2
    <3> QED BY <3>2, <3>3
  <2>2. DOMAIN t = 1..n
    OBVIOUS
  <2> HIDE DEF t
  <2> QED BY <2>1, <2>2 DEF IsSorted
<1>10. \E list \in [1..n -> m] : IsSorted(list, locale)
  <2> HIDE DEF t
  <2> QED BY <1>8, <1>9
<1> QED BY <1>2, <1>10 DEF n

\* Sorting loses no code and doubles none.
LEMMA SortedList ==
  ASSUME NEW locale \in DOMAIN Collation, NEW codes, IsFiniteSet(codes),
         codes \subseteq Range(Collation[locale])
  PROVE  LET list == Sorted(codes, locale) IN
         /\ list \in [1..Cardinality(codes) -> codes]
         /\ \A i, j \in 1..Cardinality(codes) : list[i] = list[j] => i = j
         /\ \A g \in codes : \E i \in 1..Cardinality(codes) : list[i] = g
<1> DEFINE list == Sorted(codes, locale)
           n == Cardinality(codes)
<1>1. list \in [1..n -> codes] /\ IsSorted(list, locale)
  BY SortedExists, SortedForm
<1>2. n \in Nat
  BY FS_CardinalityType
<1> HIDE DEF list, n
<1>3. ASSUME NEW i \in 1..n, NEW j \in 1..n, list[i] = list[j]
      PROVE  i = j
  <2>1. Place(list[i], locale) \in Nat
    BY <1>1, PlaceOf
  <2>2. ~ (i < j)
    BY <1>1, <1>3, <2>1 DEF IsSorted
  <2>3. ~ (j < i)
    BY <1>1, <1>3, <2>1 DEF IsSorted
  <2> QED BY <1>2, <2>2, <2>3
<1>4. list \in Injection(1..n, codes)
  BY <1>1, <1>3 DEF Injection, IsInjective
<1>5. Cardinality(1..n) = n
  BY <1>2, FS_Interval
<1>6. list \in Surjection(1..n, codes)
  <2> DEFINE I == 1..n
  <2>1. Cardinality(I) = Cardinality(codes)
    BY <1>5 DEF n
  <2>2. list \in Injection(I, codes)
    BY <1>4
  <2> HIDE DEF I
  <2>3. list \in Surjection(I, codes)
    BY <2>1, <2>2, FS_Injection
  <2> QED BY <2>3 DEF I
<1>7. \A g \in codes : \E i \in 1..n : list[i] = g
  BY <1>6 DEF Surjection
<1> QED BY <1>1, <1>3, <1>7 DEF list, n

\* Weights and groups as the replay hands them to aggregateGroups.
Countable(counted, locale) ==
  /\ IsFiniteSet(counted) /\ Weighty(counted)
  /\ \A x \in counted : x.of \in Range(Order) /\ x.group \in Range(Collation[locale])

\* The parts of what is counted add up to all of it where sums are exact.
LEMMA PartsAddUp ==
  ASSUME NEW counted, IsFiniteSet(counted), Weighty(counted),
         \A x \in counted : x.of \in Range(Order), AddsExactly(counted),
         NEW K, IsFiniteSet(K), NEW k \in [counted -> K], NEW weight,
         \A c \in K : weight[c] = Weight(Part(counted, k, c))
  PROVE  SumFunctionOnSet(weight, K) = Weight(counted)
<1> DEFINE w == [x \in counted |-> x.weight]
<1>1. /\ \A x \in counted : w[x] \in Nat
      /\ \A T \in SUBSET counted : ExactWeight(T) = SumFunctionOnSet(w, T)
  BY ExactWeightOf DEF Weighty
<1> HIDE DEF w
<1>2. \A T \in SUBSET counted : Weight(T) = SumFunctionOnSet(w, T)
  BY <1>1, NothingRounded
<1>3. \A c \in K : Part(counted, k, c) \in SUBSET counted
  BY DEF Part
<1>4. \A c \in K : weight[c] = SumFunctionOnSet(w, Part(counted, k, c))
  BY <1>2, <1>3
<1>5. SumFunctionOnSet(weight, K) = SumFunctionOnSet(w, counted)
  BY <1>1, <1>4, SumPartition
<1> QED BY <1>2, <1>5

\* The groups of a result add up to what was counted, and none outweighs it.
LEMMA GroupsAddUp ==
  ASSUME NEW locale \in DOMAIN Collation, NEW counted, Countable(counted, locale)
  PROVE  LET list == AggregateGroups(counted, locale) IN
         /\ Total(list, "count") = Cardinality(counted)
         /\ AddsExactly(counted) => Total(list, "weight") = Weight(counted)
         /\ \A i \in DOMAIN list : list[i].weight <= Weight(counted)
<1> DEFINE groups == {x.group : x \in counted}
           codes == Sorted(groups, locale)
           n == Cardinality(groups)
           of(g) == {x \in counted : x.group = g}
           list == AggregateGroups(counted, locale)
<1>1. /\ IsFiniteSet(counted) /\ Weighty(counted)
      /\ \A x \in counted : x.of \in Range(Order)
  BY DEF Countable
<1>2. IsFiniteSet(groups) /\ groups \subseteq Range(Collation[locale])
  <2> DEFINE f == [x \in counted |-> x.group]
  <2>1. f \in Surjection(counted, groups)
    BY DEF Surjection
  <2>2. IsFiniteSet(groups)
    <3> HIDE DEF f, groups
    <3> QED BY <1>1, <2>1, FS_Surjection
  <2> QED BY <2>2 DEF Countable
<1>3. /\ codes \in [1..n -> groups]
      /\ \A i, j \in 1..n : codes[i] = codes[j] => i = j
      /\ \A g \in groups : \E i \in 1..n : codes[i] = g
  <2> HIDE DEF groups
  <2> QED BY <1>2, SortedList
<1>4. /\ DOMAIN list = 1..n
      /\ \A i \in 1..n : /\ list[i]["count"] = Cardinality(of(codes[i]))
                         /\ list[i]["weight"] = Weight(of(codes[i]))
                         /\ list[i].weight = Weight(of(codes[i]))
  <2>1. list = [i \in DOMAIN codes |->
                  [group |-> codes[i], count |-> Cardinality(of(codes[i])),
                   weight |-> Weight(of(codes[i]))]]
    BY DEF AggregateGroups
  <2>2. DOMAIN codes = 1..n
    BY <1>3
  <2> HIDE DEF list, codes, n, groups, of
  <2> QED BY <2>1, <2>2
<1>5. IsFiniteSet(1..n)
  BY <1>2, FS_CardinalityType, FS_Interval
<1> DEFINE k == [x \in counted |-> CHOOSE i \in 1..n : codes[i] = x.group]
           count == [i \in DOMAIN list |-> list[i]["count"]]
           weight == [i \in DOMAIN list |-> list[i]["weight"]]
<1>6. k \in [counted -> 1..n]
  <2>1. \A x \in counted : \E i \in 1..n : codes[i] = x.group
    BY <1>3
  <2> HIDE DEF codes, n, groups
  <2> QED BY <2>1
<1>7. ASSUME NEW i \in 1..n
      PROVE  Part(counted, k, i) = of(codes[i])
  <2>1. \A x \in counted : k[x] \in 1..n /\ codes[k[x]] = x.group
    <3>1. \A x \in counted : \E j \in 1..n : codes[j] = x.group
      BY <1>3
    <3> HIDE DEF codes, n, groups
    <3> QED BY <3>1
  <2>2. \A x \in counted : k[x] = i <=> x.group = codes[i]
    <3> HIDE DEF codes, n, groups, k
    <3> QED BY <1>3, <2>1
  <2> HIDE DEF codes, k
  <2> QED BY <2>2 DEF Part
<1>8. \A i \in 1..n : /\ count[i] = Cardinality(Part(counted, k, i))
                      /\ weight[i] = Weight(Part(counted, k, i))
  <2> HIDE DEF k, list, codes, of, n
  <2> QED BY <1>4, <1>7
<1> DEFINE K == 1..n
<1>9. IsFiniteSet(K) /\ k \in [counted -> K]
  BY <1>5, <1>6
<1>10. \A i \in K : /\ count[i] = Cardinality(Part(counted, k, i))
                    /\ weight[i] = Weight(Part(counted, k, i))
  BY <1>8
<1>11. SumFunctionOnSet(count, K) = Cardinality(counted)
  <2> HIDE DEF k, count, weight, K
  <2> QED BY <1>1, <1>9, <1>10, CountPartition
<1>12. AddsExactly(counted) => SumFunctionOnSet(weight, K) = Weight(counted)
  <2> HIDE DEF k, count, weight, K
  <2> QED BY <1>1, <1>9, <1>10, PartsAddUp
<1>13. Total(list, "count") = SumFunctionOnSet(count, K)
  <2> HIDE DEF list
  <2> QED BY <1>4 DEF Total
<1>14. Total(list, "weight") = SumFunctionOnSet(weight, K)
  <2> HIDE DEF list
  <2> QED BY <1>4 DEF Total
<1>15. \A i \in DOMAIN list : list[i].weight <= Weight(counted)
  <2>1. \A g : of(g) \in SUBSET counted
    OBVIOUS
  <2> HIDE DEF list, of, codes, n
  <2> QED BY <1>1, <1>4, <2>1, WeightGrows
<1> QED BY <1>11, <1>12, <1>13, <1>14, <1>15

-------------------------------------------------------------------------------
(* The figures of a verified tally.                                               *)

\* Everything counted is of one voter or position, which is counted once.
OnePer(counted, all) ==
  /\ \A x \in counted : x.of \in all
  /\ \A x, y \in counted : x.of = y.of => x = y

\* What direct votes count is finite, and fit to be added up.
LEMMA DirectForm ==
  ASSUME NEW p \in Policies, NEW in, NEW locale \in DOMAIN Collation
  PROVE  /\ IsFiniteSet(CountedDirect(p, in))
         /\ \A x \in CountedDirect(p, in) :
              /\ x.kind = "direct_vote" /\ x.choice \in CountedChoices
              /\ x.weight \in Nat /\ x.group \in Range(Collation[locale])
         /\ OnePer(CountedDirect(p, in), Voters)
<1> DEFINE V == {v \in Voters : in.votes[v] \in CountedChoices}
           D == CountedDirect(p, in)
           f == [v \in V |-> [kind |-> "direct_vote", of |-> v, choice |-> in.votes[v],
                             group |-> p.group, weight |-> p.weight]]
<1>1. IsFiniteSet(V)
  BY TotalsAssumption, FS_Subset
<1>2. f \in Surjection(V, D)
  BY DEF CountedDirect, Surjection
<1>3. IsFiniteSet(D)
  <2> HIDE DEF V, D, f
  <2> QED BY <1>1, <1>2, FS_Surjection
<1>4. p.weight \in Nat /\ p.group \in Range(Collation[locale])
  <2>1. Collation[locale] \in Range(Collation)
    BY DEF Range
  <2> QED BY <2>1, TotalsAssumption
<1>5. \A x \in D : /\ x.kind = "direct_vote" /\ x.choice \in CountedChoices
                   /\ x.weight = p.weight /\ x.group = p.group
  BY DEF CountedDirect
<1>6. OnePer(D, Voters)
  BY DEF CountedDirect, OnePer
<1> QED BY <1>3, <1>4, <1>5, <1>6

\* So is what source positions count under a policy without overlapping rules.
LEMMA SourceFormOK ==
  ASSUME NEW p \in Policies, NEW in, NEW locale \in DOMAIN Collation, InputsOK(p, in),
         IsFiniteSet(DOMAIN in.positions)
  PROVE  /\ IsFiniteSet(CountedSource(p, in))
         /\ \A x \in CountedSource(p, in) :
              /\ x.kind = "source_position" /\ x.choice \in CountedChoices
              /\ x.weight \in Nat /\ x.group \in Range(Collation[locale])
         /\ OnePer(CountedSource(p, in), DOMAIN in.positions)
<1> DEFINE at == in.positions
<1>1. CountedSource(p, in) = SourceOf(p, at) /\ IsFiniteSet(SourceOf(p, at))
  BY SourceForm, FiniteSource
<1>2. ASSUME NEW x \in SourceOf(p, at)
      PROVE  /\ x.kind = "source_position" /\ x.choice \in CountedChoices
             /\ x.weight \in Nat /\ x.group \in Range(Collation[locale])
  <2>1. PICK i \in DOMAIN at :
          /\ Takes(p, at[i])
          /\ x = [kind |-> "source_position", of |-> i, choice |-> at[i].choice,
                  group |-> p.rules[FirstRule(p, at[i])].group,
                  weight |-> p.rules[FirstRule(p, at[i])].weight]
    BY DEF SourceOf
  <2> DEFINE row == at[i]
  <2>2. Cardinality(MatchingSourceRules(p, row)) <= 1 /\ MatchingSourceRules(p, row) # {}
    BY <2>1 DEF InputsOK, Takes
  <2>3. PICK h \in DOMAIN p.rules : FirstRule(p, row) = h
    <3> HIDE DEF row
    <3> QED BY <2>2, OnlyRule
  <2>4. p.rules[h].weight \in Nat /\ p.rules[h].group \in Range(Collation[locale])
    <3>1. Collation[locale] \in Range(Collation)
      BY DEF Range
    <3> QED BY <3>1, TotalsAssumption
  <2>5. x.weight = p.rules[h].weight /\ x.group = p.rules[h].group
    BY <2>1, <2>3
  <2>6. x.kind = "source_position" /\ x.choice = row.choice
    BY <2>1
  <2>7. row.choice \in CountedChoices
    BY <2>1 DEF Takes
  <2> QED BY <2>4, <2>5, <2>6, <2>7
<1>3. OnePer(SourceOf(p, at), DOMAIN at)
  BY DEF SourceOf, OnePer
<1> QED BY <1>1, <1>2, <1>3

\* Both channels of a verified tally together: nothing is in both.
LEMMA CountedForm ==
  ASSUME NEW r, VerifiedOK(r), NEW locale \in DOMAIN Collation
  PROVE  LET direct  == CountedDirect(r.policy, r.in)
             source  == CountedSource(r.policy, r.in)
         IN  /\ Countable(direct \cup source, locale)
             /\ \A x \in direct \cup source : x.choice \in CountedChoices
             /\ Cardinality(direct \cup source) = Cardinality(direct) + Cardinality(source)
<1> DEFINE p == r.policy
           in == r.in
           direct == CountedDirect(p, in)
           source == CountedSource(p, in)
<1>1. /\ p \in Policies /\ InputsOK(p, in) /\ IsFiniteSet(DOMAIN in.positions)
      /\ DOMAIN in.positions = Positions
  BY TotalsAssumption DEF VerifiedOK
<1> HIDE DEF p, in
<1>2. /\ IsFiniteSet(direct)
      /\ \A x \in direct : /\ x.kind = "direct_vote" /\ x.choice \in CountedChoices
                           /\ x.weight \in Nat /\ x.group \in Range(Collation[locale])
      /\ OnePer(direct, Voters)
  BY <1>1, DirectForm
<1>3. /\ IsFiniteSet(source)
      /\ \A x \in source : /\ x.kind = "source_position" /\ x.choice \in CountedChoices
                           /\ x.weight \in Nat /\ x.group \in Range(Collation[locale])
      /\ OnePer(source, Positions)
  BY <1>1, SourceFormOK
<1> HIDE DEF direct, source
<1>4. direct \cap source = {}
  BY <1>2, <1>3
<1>5. IsFiniteSet(direct \cup source)
  BY <1>2, <1>3, FS_Union
<1>6. Cardinality(direct \cup source) = Cardinality(direct) + Cardinality(source)
  <2>1. Cardinality(direct) \in Nat /\ Cardinality(source) \in Nat
    BY <1>2, <1>3, FS_CardinalityType
  <2>2. Cardinality(direct \cap source) = 0
    BY <1>4, FS_EmptySet
  <2>3. Cardinality(direct \cup source)
          = Cardinality(direct) + Cardinality(source) - Cardinality(direct \cap source)
    BY <1>2, <1>3, FS_Union
  <2> QED BY <2>1, <2>2, <2>3
<1>7. Weighty(direct \cup source) /\ \A x \in direct \cup source : x.of \in Range(Order)
  <2>1. Voters \cap Positions = {} /\ Range(Order) = Voters \cup Positions
    BY TotalsAssumption
  <2>2. \A x \in direct, y \in source : x.of # y.of
    BY <1>2, <1>3, <2>1 DEF OnePer
  <2> QED BY <1>2, <1>3, <2>1, <2>2 DEF Weighty, OnePer
<1>8. /\ Countable(direct \cup source, locale)
      /\ \A x \in direct \cup source : x.choice \in CountedChoices
  BY <1>2, <1>3, <1>5, <1>7 DEF Countable
<1> QED BY <1>6, <1>8 DEF direct, source, p, in

\* What is counted for a choice.
For(counted, c) == {x \in counted : x.choice = c}

\* What counts for a choice is fit to be added up.
LEMMA ForForm ==
  ASSUME NEW counted, NEW locale, Countable(counted, locale), NEW c
  PROVE  Countable(For(counted, c), locale) /\ For(counted, c) \in SUBSET counted
<1>1. For(counted, c) \in SUBSET counted
  BY DEF For
<1>2. IsFiniteSet(For(counted, c))
  BY <1>1, FS_Subset DEF Countable
<1> QED BY <1>1, <1>2 DEF Countable, Weighty

\* The choices of a result add up to what was counted.
LEMMA ChoicesAddUp ==
  ASSUME NEW locale, NEW counted, Countable(counted, locale),
         \A x \in counted : x.choice \in CountedChoices, NEW choices,
         \A c \in CountedChoices :
           /\ choices[c]["count"] = Cardinality(For(counted, c))
           /\ choices[c]["weight"] = Weight(For(counted, c))
  PROVE  /\ Over(choices, "count") = Cardinality(counted)
         /\ AddsExactly(counted) => Over(choices, "weight") = Weight(counted)
<1> DEFINE k == [x \in counted |-> x.choice]
           count == [c \in CountedChoices |-> choices[c]["count"]]
           weight == [c \in CountedChoices |-> choices[c]["weight"]]
<1>1. IsFiniteSet(CountedChoices)
  BY TotalsAssumption, FS_Subset
<1>2. k \in [counted -> CountedChoices]
  OBVIOUS
<1>3. \A c : Part(counted, k, c) = For(counted, c)
  BY DEF Part, For
<1>4. \A c \in CountedChoices : /\ count[c] = Cardinality(Part(counted, k, c))
                                /\ weight[c] = Weight(Part(counted, k, c))
  <2> HIDE DEF k
  <2> QED BY <1>3
<1>5. /\ IsFiniteSet(counted) /\ Weighty(counted)
      /\ \A x \in counted : x.of \in Range(Order)
  BY DEF Countable
<1>6. SumFunctionOnSet(count, CountedChoices) = Cardinality(counted)
  <2> HIDE DEF k, count, weight
  <2> QED BY <1>1, <1>2, <1>4, <1>5, CountPartition
<1>7. AddsExactly(counted) => SumFunctionOnSet(weight, CountedChoices) = Weight(counted)
  <2> HIDE DEF k, count, weight
  <2> QED BY <1>1, <1>2, <1>4, <1>5, PartsAddUp
<1> QED BY <1>6, <1>7 DEF Over

\* What is counted for a choice is at most what is counted.
LEMMA ChoiceIsPart ==
  ASSUME NEW counted, NEW locale, Countable(counted, locale), NEW c
  PROVE  /\ Cardinality(For(counted, c)) \in Nat /\ Cardinality(counted) \in Nat
         /\ Cardinality(For(counted, c)) <= Cardinality(counted)
         /\ Weight(For(counted, c)) \in Nat /\ Weight(counted) \in Nat
         /\ Weight(For(counted, c)) <= Weight(counted)
         /\ Cardinality(counted) = 0 => Weight(counted) = 0
<1> DEFINE mine == For(counted, c)
<1>1. IsFiniteSet(counted) /\ Weighty(counted) /\ Weighty(mine) /\ mine \in SUBSET counted
  BY ForForm DEF Countable
<1> HIDE DEF mine
<1>2. /\ Cardinality(mine) \in Nat /\ Cardinality(counted) \in Nat
      /\ Cardinality(mine) <= Cardinality(counted)
  BY <1>1, FS_Subset, FS_CardinalityType
<1>3. Weight(mine) \in Nat /\ Weight(counted) \in Nat /\ Weight(mine) <= Weight(counted)
  BY <1>1, WeightNat, WeightGrows
<1>4. Cardinality(counted) = 0 => Weight(counted) = 0
  BY <1>1, FS_EmptySet, WeightOfNothing
<1> QED BY <1>2, <1>3, <1>4 DEF mine

\* A result, figure by figure, for what direct votes and source positions count.
Figures(r, direct, source, locale) ==
  LET counted == direct \cup source IN
  /\ r.totalCount = Cardinality(counted) /\ r.totalWeight = Weight(counted)
  /\ r.directVoteCount = Cardinality(direct) /\ r.sourcePositionCount = Cardinality(source)
  /\ r.groups = AggregateGroups(counted, locale)
  /\ \A c \in CountedChoices :
       LET x    == r.choices[c]
           mine == For(counted, c)
       IN  /\ x.count = Cardinality(mine) /\ x.weight = Weight(mine)
           /\ x["count"] = Cardinality(mine) /\ x["weight"] = Weight(mine)
           /\ x.rawPercentage = Percentage(Cardinality(mine), Cardinality(counted))
           /\ x.weightedPercentage = Percentage(Weight(mine), Weight(counted))
           /\ x.groups = AggregateGroups(mine, locale)

\* The result of the replay has these figures.
LEMMA ResultForm ==
  ASSUME NEW p, NEW in, NEW locale
  PROVE  Figures(Result(p, in, locale), CountedDirect(p, in), CountedSource(p, in), locale)
BY DEF Figures, Result, Counted, ChoiceResult, For

\* The totals of a verified tally reconcile: channels, groups and choices add up to the
\* same counts, and to the same weights where sums are exact; no choice and no group
\* outweighs the whole however sums are rounded (aggregateGroups, aggregateChoice and
\* replayTallyV3).
THEOREM FiguresReconcile == Spec => []TotalsReconcile
<1>1. ASSUME IInv, report # NoReport
      PROVE  LET r == report.result IN
             /\ r.totalCount = r.directVoteCount + r.sourcePositionCount
             /\ r.totalCount = Total(r.groups, "count")
             /\ r.totalCount = Over(r.choices, "count")
             /\ \A c \in CountedChoices :
                  r.choices[c].count = Total(r.choices[c].groups, "count")
             /\ \A i \in DOMAIN r.groups : r.groups[i].weight <= r.totalWeight
             /\ \A c \in CountedChoices : r.choices[c].weight <= r.totalWeight
             /\ AddsExactly(Counted(report.policy, report.in)) =>
                  /\ r.totalWeight = Total(r.groups, "weight")
                  /\ r.totalWeight = Over(r.choices, "weight")
                  /\ \A c \in CountedChoices :
                       r.choices[c].weight = Total(r.choices[c].groups, "weight")
  <2> DEFINE p == report.policy
             in == report.in
             r == report.result
             direct == CountedDirect(p, in)
             source == CountedSource(p, in)
             counted == direct \cup source
             locale == ServiceLocale
             choices == r.choices
  <2>1. VerifiedOK(report) /\ r = Result(p, in, locale)
    BY <1>1 DEF IInv, ReportOK, VerifiedOK
  <2>2. locale \in DOMAIN Collation
    BY TotalsAssumption
  <2> HIDE DEF locale
  <2>3. /\ Countable(counted, locale)
        /\ \A x \in counted : x.choice \in CountedChoices
        /\ Cardinality(counted) = Cardinality(direct) + Cardinality(source)
    BY <2>1, <2>2, CountedForm
  <2>4. Counted(p, in) = counted
    BY DEF Counted
  <2> HIDE DEF p, in, r
  <2>5. Figures(r, direct, source, locale)
    <3>1. Figures(Result(p, in, locale), direct, source, locale)
      BY ResultForm
    <3> HIDE DEF direct, source
    <3> QED BY <2>1, <3>1
  <2> HIDE DEF direct, source
  <2>6. /\ r.totalCount = Cardinality(counted) /\ r.totalWeight = Weight(counted)
        /\ r.directVoteCount = Cardinality(direct)
        /\ r.sourcePositionCount = Cardinality(source)
        /\ r.groups = AggregateGroups(counted, locale)
    BY <2>5 DEF Figures
  <2>7. \A c \in CountedChoices :
          /\ choices[c].count = Cardinality(For(counted, c))
          /\ choices[c]["count"] = Cardinality(For(counted, c))
          /\ choices[c].weight = Weight(For(counted, c))
          /\ choices[c]["weight"] = Weight(For(counted, c))
          /\ choices[c].groups = AggregateGroups(For(counted, c), locale)
    BY <2>5 DEF Figures
  <2> HIDE DEF counted, direct, source, choices
  <2>8. /\ Total(r.groups, "count") = Cardinality(counted)
        /\ AddsExactly(counted) => Total(r.groups, "weight") = Weight(counted)
        /\ \A i \in DOMAIN r.groups : r.groups[i].weight <= Weight(counted)
    BY <2>2, <2>3, <2>6, GroupsAddUp
  <2>9. /\ Over(choices, "count") = Cardinality(counted)
        /\ AddsExactly(counted) => Over(choices, "weight") = Weight(counted)
    BY <2>3, <2>7, ChoicesAddUp
  <2>10. ASSUME NEW c \in CountedChoices
         PROVE  /\ choices[c].count = Total(choices[c].groups, "count")
                /\ choices[c].weight <= Weight(counted)
                /\ AddsExactly(counted) =>
                     choices[c].weight = Total(choices[c].groups, "weight")
    <3> DEFINE mine == For(counted, c)
    <3>1. Countable(mine, locale) /\ mine \in SUBSET counted
      BY <2>3, ForForm
    <3>2. /\ choices[c].count = Cardinality(mine) /\ choices[c].weight = Weight(mine)
          /\ choices[c].groups = AggregateGroups(mine, locale)
      BY <2>7
    <3>3. Weight(mine) <= Weight(counted)
      BY <2>3, ChoiceIsPart
    <3> HIDE DEF mine
    <3>4. AddsExactly(counted) => AddsExactly(mine)
      BY <3>1 DEF AddsExactly
    <3>5. /\ Total(choices[c].groups, "count") = Cardinality(mine)
          /\ AddsExactly(mine) => Total(choices[c].groups, "weight") = Weight(mine)
      BY <2>2, <3>1, <3>2, GroupsAddUp
    <3> QED BY <3>2, <3>3, <3>4, <3>5
  <2> QED BY <2>3, <2>4, <2>6, <2>8, <2>9, <2>10 DEF r, p, in, choices
<1>2. IInv => TotalsReconcile
  BY <1>1 DEF TotalsReconcile
<1> QED BY <1>2, Invariant, PTL

-------------------------------------------------------------------------------
(* Percentages.                                                                   *)

\* Rounding to a unit of the last place: off by half of it at most, and of more never less.
LEMMA FixedForm ==
  ASSUME NEW x \in Nat
  PROVE  /\ Fixed(x, Units) \in Nat
         /\ 2 * Size(One * Fixed(x, Units) - Units * x) <= One
         /\ \A y \in Nat : x <= y => Fixed(x, Units) <= Fixed(y, Units)
<1>1. Units \in Nat \ {0} /\ One \in Nat \ {0}
  BY TotalsAssumption, OneForm
<1> DEFINE a(y) == 2 * Units * y + One
           t == 2 * One
           f(y) == a(y) \div t
<1>2. \A y \in Nat : Fixed(y, Units) = f(y) /\ a(y) \in Nat
  BY <1>1 DEF Fixed
<1>3. t \in Nat \ {0}
  BY <1>1
<1>4. f(x) \in Nat /\ t * f(x) <= a(x) /\ a(x) < t * f(x) + t
  <2>1. \A z \in Nat, u \in Nat \ {0} : /\ z \div u \in Nat
                                        /\ u * (z \div u) <= z
                                        /\ z < u * (z \div u) + u
    OBVIOUS
  <2> HIDE DEF a, t
  <2> QED BY <1>2, <1>3, <2>1
<1>5. ASSUME NEW y \in Nat, x <= y
      PROVE  f(x) <= f(y)
  <2>1. \A u, v \in Nat, w \in Nat \ {0} : u <= v => u \div w <= v \div w
    OBVIOUS
  <2>2. a(x) <= a(y)
    <3>1. (2 * Units) * x <= (2 * Units) * y
      BY <1>1, <1>5, Smaller
    <3>2. (2 * Units) * x \in Nat /\ (2 * Units) * y \in Nat
      BY <1>1
    <3> QED BY <1>1, <3>1, <3>2
  <2> HIDE DEF a, t
  <2> QED BY <1>2, <1>3, <2>1, <2>2
<1>6. 2 * Size(One * f(x) - Units * x) <= One
  <2> DEFINE g == One * f(x)
             h == Units * x
  <2> HIDE DEF f
  <2>1. t * f(x) = 2 * g /\ g \in Nat
    BY <1>1, <1>4
  <2>2. a(x) = 2 * h + One /\ h \in Nat
    BY <1>1
  <2> HIDE DEF g, h, a, t
  <2>3. 2 * g <= 2 * h + One /\ 2 * h + One < 2 * g + t
    BY <1>4, <2>1, <2>2
  <2>4. 2 * Size(g - h) <= One
    BY <1>1, <2>1, <2>2, <2>3 DEF Size, t
  <2> QED BY <2>4 DEF g, h
<1> HIDE DEF f
<1> QED BY <1>2, <1>4, <1>5, <1>6

\* Sizes of sums and products.
LEMMA Sizes ==
  /\ \A x \in Int : Size(x) \in Nat
  /\ \A x, y, z \in Int : Size(x + (y + z)) <= Size(x) + (Size(y) + Size(z))
  /\ \A x \in Int, c \in Nat : Size(c * x) = c * Size(x)
<1>1. \A x \in Int : Size(x) \in Nat
  BY DEF Size
<1>2. \A x, y, z \in Int : Size(x + (y + z)) <= Size(x) + (Size(y) + Size(z))
  BY DEF Size
<1>3. ASSUME NEW x \in Int, NEW c \in Nat
      PROVE  Size(c * x) = c * Size(x)
  <2>1. x < 0 => c * x <= 0
    OBVIOUS
  <2>2. x >= 0 => c * x >= 0
    OBVIOUS
  <2>3. c * (-x) = -(c * x) /\ c * x \in Int
    OBVIOUS
  <2>4. CASE x < 0
    <3>1. Size(x) = -x
      BY <2>4 DEF Size
    <3>2. Size(c * x) = -(c * x)
      BY <2>1, <2>3, <2>4 DEF Size
    <3> QED BY <2>3, <3>1, <3>2
  <2>5. CASE x >= 0
    BY <2>2, <2>3, <2>5 DEF Size
  <2> QED BY <2>4, <2>5
<1> QED BY <1>1, <1>2, <1>3

\* The published percentage of a part is near what it stands for, not more than that of
\* more, and 0 when nothing counted.
LEMMA Rounding ==
  ASSUME NEW n \in Nat, NEW d \in Nat, n <= d
  PROVE  /\ Near(Percentage(n, d), n, d)
         /\ d = 0 => Percentage(n, d) = 0
         /\ \A m \in Nat : n <= m => Percentage(n, d) <= Percentage(m, d)
<1> DEFINE P == 2^Precision
<1>1. Units \in Nat \ {0} /\ One \in Nat \ {0} /\ P \in Nat \ {0}
  BY TotalsAssumption, OneForm
<1>2. CASE d = 0
  BY <1>1, <1>2 DEF Percentage, Near
<1>3. CASE d # 0
  <2> DEFINE q(i) == Quotient(i, d)
             x(i) == Hundredfold(q(i))
             f(i) == Fixed(x(i), Units)
  <2>1. \A i \in Nat : q(i) \in Nat /\ x(i) \in Nat /\ f(i) \in Nat /\ Percentage(i, d) = f(i)
    BY <1>3, QuotientForm, HundredfoldForm, FixedForm DEF Percentage
  <2>2. ASSUME NEW m \in Nat, n <= m
        PROVE  f(n) <= f(m)
    <3>1. q(n) <= q(m)
      BY <1>3, <2>2, QuotientForm
    <3> HIDE DEF q
    <3>2. x(n) <= x(m)
      BY <2>1, <3>1, HundredfoldForm
    <3> HIDE DEF x
    <3> QED BY <2>1, <3>2, FixedForm
  <2>3. q(n) <= One /\ P * Size(d * q(n) - n * One) <= One * d
    BY <1>3, QuotientForm
  <2>4. P * Size(x(n) - 100 * q(n)) <= 100 * One
    <3> HIDE DEF q
    <3> QED BY <2>1, <2>3, HundredfoldForm
  <2>5. 2 * Size(One * f(n) - Units * x(n)) <= One
    <3> HIDE DEF x
    <3> QED BY <2>1, FixedForm
  <2>6. Near(f(n), n, d)
    <3>1. PICK y \in Nat : y = q(n)
      BY <2>1
    <3>2. PICK z \in Nat : z = x(n)
      BY <2>1
    <3>3. PICK g \in Nat : g = f(n)
      BY <2>1
    <3> DEFINE e1 == One * g - Units * z
               e2 == z - 100 * y
               e3 == d * y - n * One
               off == g * d - 100 * Units * n
               U == 200 * Units
    <3> HIDE DEF q, x, f, P
    <3>4. /\ 2 * Size(e1) <= One
          /\ P * Size(e2) <= 100 * One
          /\ P * Size(e3) <= One * d
      BY <2>3, <2>4, <2>5, <3>1, <3>2, <3>3
    <3>5. e1 \in Int /\ e2 \in Int /\ e3 \in Int /\ off \in Int /\ U \in Nat
      BY <1>1
    <3>6. (2 * One) * off = d * (2 * e1) + ((2 * Units * d) * e2 + U * e3)
      <4>1. (2 * One) * off = 2 * (One * g) * d - (200 * Units * n) * One
        BY <1>1
      <4>2. d * (2 * e1) = 2 * (One * g) * d - 2 * (Units * z) * d
        BY <1>1
      <4>3. (2 * Units * d) * e2 = 2 * (Units * z) * d - (200 * Units * y) * d
        BY <1>1
      <4>4. U * e3 = (200 * Units * y) * d - (200 * Units * n) * One
        BY <1>1
      <4> DEFINE s1 == 2 * (One * g) * d
                 s2 == 2 * (Units * z) * d
                 s3 == (200 * Units * y) * d
                 s4 == (200 * Units * n) * One
      <4>5. s1 \in Int /\ s2 \in Int /\ s3 \in Int /\ s4 \in Int
        BY <1>1
      <4> HIDE DEF s1, s2, s3, s4, off, e1, e2, e3, U
      <4> QED BY <4>1, <4>2, <4>3, <4>4, <4>5 DEF s1, s2, s3, s4
    <3> HIDE DEF e1, e2, e3, off, U
    <3> DEFINE v1 == Size(e1)
               v2 == Size(e2)
               v3 == Size(e3)
               v == Size(off)
               V == 2 * Units * d
    <3>7. v1 \in Nat /\ v2 \in Nat /\ v3 \in Nat /\ v \in Nat /\ V \in Nat
      BY <1>1, <3>5, Sizes
    <3>8. (2 * One) * v <= d * (2 * v1) + (V * v2 + U * v3)
      <4> DEFINE t1 == d * (2 * e1)
                 t2 == V * e2
                 t3 == U * e3
      <4>1. t1 \in Int /\ t2 \in Int /\ t3 \in Int /\ 2 * e1 \in Int
        BY <3>5, <3>7
      <4>2. Size(t1) = d * (2 * v1)
        <5>1. Size(t1) = d * Size(2 * e1)
          BY <4>1, Sizes
        <5> QED BY <3>5, <5>1, Sizes
      <4>3. Size(t2) = V * v2 /\ Size(t3) = U * v3
        BY <3>5, <3>7, Sizes
      <4>4. Size((2 * One) * off) = (2 * One) * v
        <5>1. 2 * One \in Nat
          BY <1>1
        <5> QED BY <3>5, <5>1, Sizes
      <4>5. (2 * One) * off = t1 + (t2 + t3)
        BY <3>6
      <4> HIDE DEF t1, t2, t3
      <4>6. Size(t1 + (t2 + t3)) <= Size(t1) + (Size(t2) + Size(t3))
        BY <4>1, Sizes
      <4> QED BY <4>2, <4>3, <4>4, <4>5, <4>6
    <3> HIDE DEF v1, v2, v3, v, V
    <3>9. /\ 2 * v1 <= One /\ P * v2 <= 100 * One /\ P * v3 <= One * d
      BY <3>4 DEF v1, v2, v3
    <3>10. One * (P * (2 * v)) <= One * (P * d + 400 * Units * d)
      <4> DEFINE a == (2 * One) * v
                 b1 == d * (2 * v1)
                 b2 == V * v2
                 b3 == U * v3
      <4>1. a \in Nat /\ b1 \in Nat /\ b2 \in Nat /\ b3 \in Nat
        BY <1>1, <3>5, <3>7
      <4>2. P * a <= P * (b1 + (b2 + b3))
        <5> HIDE DEF a, b1, b2, b3
        <5> QED BY <1>1, <3>8, <4>1, Smaller DEF a, b1, b2, b3
      <4>3. P * (b1 + (b2 + b3)) = P * b1 + (P * b2 + P * b3)
        <5> HIDE DEF b1, b2, b3
        <5> QED BY <1>1, <4>1
      <4>4. P * b1 <= (P * d) * One
        <5>1. P * b1 = (P * d) * (2 * v1) /\ P * d \in Nat
          BY <1>1, <3>7
        <5> QED BY <1>1, <3>7, <3>9, <5>1, Smaller
      <4>5. P * b2 <= V * (100 * One)
        <5>1. P * b2 = V * (P * v2) /\ P * v2 \in Nat
          BY <1>1, <3>7
        <5>2. 100 * One \in Nat
          BY <1>1
        <5> QED BY <3>7, <3>9, <5>1, <5>2, Smaller
      <4>6. P * b3 <= U * (One * d)
        <5>1. P * b3 = U * (P * v3) /\ P * v3 \in Nat
          BY <1>1, <3>5, <3>7
        <5>2. One * d \in Nat
          BY <1>1
        <5> QED BY <3>5, <3>7, <3>9, <5>1, <5>2, Smaller
      <4>7. /\ P * a = One * (P * (2 * v))
            /\ (P * d) * One + (V * (100 * One) + U * (One * d))
                 = One * (P * d + 400 * Units * d)
        <5>1. P * a = One * (P * (2 * v))
          BY <1>1, <3>7
        <5>2. V * (100 * One) = One * (200 * Units * d) /\ U * (One * d) = One * (200 * Units * d)
          BY <1>1 DEF V, U
        <5> DEFINE ud == Units * d
                   pd == P * d
        <5>3. ud \in Nat /\ pd \in Nat /\ 200 * Units * d = 200 * ud /\ 400 * Units * d = 400 * ud
          BY <1>1
        <5>4. (P * d) * One = One * pd
          BY <1>1
        <5> HIDE DEF ud, pd
        <5>5. One * pd + (One * (200 * ud) + One * (200 * ud)) = One * (pd + 400 * ud)
          BY <1>1, <5>3
        <5> QED BY <5>1, <5>2, <5>3, <5>4, <5>5 DEF pd
      <4> DEFINE c1 == (P * d) * One
                 c2 == V * (100 * One)
                 c3 == U * (One * d)
      <4>8. /\ P * a \in Nat /\ P * b1 \in Nat /\ P * b2 \in Nat /\ P * b3 \in Nat
            /\ c1 \in Nat /\ c2 \in Nat /\ c3 \in Nat
        <5>1. \A i, j \in Nat : i * j \in Nat
          OBVIOUS
        <5>2. P * d \in Nat /\ 100 * One \in Nat /\ One * d \in Nat
          BY <1>1
        <5> HIDE DEF a, b1, b2, b3
        <5> QED BY <1>1, <3>5, <3>7, <4>1, <5>1, <5>2
      <4>9. P * a <= c1 + (c2 + c3)
        <5> HIDE DEF a, b1, b2, b3
        <5>1. P * b1 <= c1 /\ P * b2 <= c2 /\ P * b3 <= c3
          BY <4>4, <4>5, <4>6
        <5> HIDE DEF c1, c2, c3
        <5> QED BY <4>2, <4>3, <4>8, <5>1
      <4> HIDE DEF a
      <4> QED BY <4>7, <4>9
    <3>11. P * (2 * v) <= P * d + 400 * Units * d
      <4>1. P * (2 * v) \in Int /\ P * d + 400 * Units * d \in Int
        <5>1. P * (2 * v) \in Int
          BY <1>1, <3>7
        <5>2. P * d \in Int /\ 400 * Units * d \in Int
          BY <1>1
        <5> QED BY <5>1, <5>2
      <4> QED BY <1>1, <3>10, <4>1, LessTimes
    <3>12. P * (2 * v - d) <= 400 * Units * d
      <4>1. P * (2 * v - d) = P * (2 * v) - P * d
        BY <1>1, <3>7
      <4>2. P * (2 * v) \in Int /\ P * d \in Int /\ 400 * Units * d \in Int
        BY <1>1, <3>7
      <4> QED BY <3>11, <4>1, <4>2
    <3>13. f(n) * d - 100 * Units * n = off
      BY <3>3 DEF off
    <3> QED BY <3>12, <3>13 DEF Near, v, P, Size
  <2> HIDE DEF f
  <2> QED BY <1>3, <2>1, <2>2, <2>6
<1> QED BY <1>2, <1>3

\* Percentages of a verified tally are as near to the fractions they stand for as the
\* places of the output and the precision of doubles allow, and keep their order
\* (percentage in tally-v3.ts).
THEOREM PercentagesKeepFaith == Spec => []PercentagesAreFaithful
<1>1. ASSUME IInv, report # NoReport, NEW c \in CountedChoices
      PROVE  LET r == report.result
                 x == r.choices[c]
             IN  /\ Near(x.rawPercentage, x.count, r.totalCount)
                 /\ Near(x.weightedPercentage, x.weight, r.totalWeight)
                 /\ r.totalCount = 0 => x.rawPercentage = 0 /\ x.weightedPercentage = 0
                 /\ \A d \in CountedChoices :
                      /\ x.count <= r.choices[d].count =>
                           x.rawPercentage <= r.choices[d].rawPercentage
                      /\ x.weight <= r.choices[d].weight =>
                           x.weightedPercentage <= r.choices[d].weightedPercentage
  <2> DEFINE p == report.policy
             in == report.in
             r == report.result
             direct == CountedDirect(p, in)
             source == CountedSource(p, in)
             counted == direct \cup source
             locale == ServiceLocale
             n(e) == Cardinality(For(counted, e))
             w(e) == Weight(For(counted, e))
             N == Cardinality(counted)
             W == Weight(counted)
  <2>1. VerifiedOK(report) /\ r = Result(p, in, locale)
    BY <1>1 DEF IInv, ReportOK, VerifiedOK
  <2>2. Countable(counted, locale)
    <3>1. locale \in DOMAIN Collation
      BY TotalsAssumption
    <3> HIDE DEF locale
    <3> QED BY <2>1, <3>1, CountedForm
  <2> HIDE DEF p, in, r, locale
  <2>3. Figures(r, direct, source, locale)
    <3>1. Figures(Result(p, in, locale), direct, source, locale)
      BY ResultForm
    <3> HIDE DEF direct, source
    <3> QED BY <2>1, <3>1
  <2> HIDE DEF direct, source
  <2>4. r.totalCount = N /\ r.totalWeight = W
    BY <2>3 DEF Figures
  <2>5. \A e \in CountedChoices :
          /\ r.choices[e].count = n(e) /\ r.choices[e].weight = w(e)
          /\ r.choices[e].rawPercentage = Percentage(n(e), N)
          /\ r.choices[e].weightedPercentage = Percentage(w(e), W)
    BY <2>3 DEF Figures
  <2> HIDE DEF counted
  <2>6. \A e \in CountedChoices : /\ n(e) \in Nat /\ N \in Nat /\ n(e) <= N
                                  /\ w(e) \in Nat /\ W \in Nat /\ w(e) <= W
                                  /\ N = 0 => W = 0
    BY <2>2, ChoiceIsPart
  <2> HIDE DEF n, w, N, W
  <2>7. /\ Near(Percentage(n(c), N), n(c), N)
        /\ N = 0 => Percentage(n(c), N) = 0
        /\ \A m \in Nat : n(c) <= m => Percentage(n(c), N) <= Percentage(m, N)
    BY <2>6, Rounding
  <2>8. /\ Near(Percentage(w(c), W), w(c), W)
        /\ W = 0 => Percentage(w(c), W) = 0
        /\ \A m \in Nat : w(c) <= m => Percentage(w(c), W) <= Percentage(m, W)
    BY <2>6, Rounding
  <2>9. /\ Near(r.choices[c].rawPercentage, r.choices[c].count, r.totalCount)
        /\ Near(r.choices[c].weightedPercentage, r.choices[c].weight, r.totalWeight)
    BY <2>4, <2>5, <2>7, <2>8
  <2>10. r.totalCount = 0 =>
          r.choices[c].rawPercentage = 0 /\ r.choices[c].weightedPercentage = 0
    BY <2>4, <2>5, <2>6, <2>7, <2>8
  <2>11. ASSUME NEW d \in CountedChoices
         PROVE  /\ r.choices[c].count <= r.choices[d].count =>
                     r.choices[c].rawPercentage <= r.choices[d].rawPercentage
                /\ r.choices[c].weight <= r.choices[d].weight =>
                     r.choices[c].weightedPercentage <= r.choices[d].weightedPercentage
    BY <2>5, <2>6, <2>7, <2>8
  <2> QED BY <2>9, <2>10, <2>11 DEF r
<1>2. IInv => PercentagesAreFaithful
  BY <1>1 DEF PercentagesAreFaithful
<1> QED BY <1>2, Invariant, PTL
===============================================================================
