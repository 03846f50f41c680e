----------------------------- MODULE MerkleTree -----------------------------
(***************************************************************************)
(* RFC 6962 trees as packages/protocol/src/merkle.ts computes them: roots, *)
(* inclusion and consistency proofs, the same proofs from a store of       *)
(* complete subtrees, and their verification.                              *)
(*                                                                         *)
(* A hash is the term that was hashed, so SHA-256 is injective and the     *)
(* prefixes 0x00 and 0x01 that keep leaves and nodes apart are the tags    *)
(* of the terms.  Leaf indices and tree sizes count from zero, sequences   *)
(* from one.  A list that the code cuts into slices stays whole here: the  *)
(* recursion is over the size and the start of a range of it.              *)
(***************************************************************************)
EXTENDS Integers, Sequences, FiniteSets, SequencesExt

Leaf(x) == <<"leaf", x>>
Node(left, right) == <<"node", left, right>>
EmptyRoot == <<"empty">>

LeafHashes(log) == [i \in DOMAIN log |-> Leaf(log[i])]

IsOdd(n) == n % 2 = 1

Pow2[i \in Nat] == IF i = 0 THEN 1 ELSE 2 * Pow2[i - 1]

IsPowerOfTwo(n) == \E i \in 0..n : n = Pow2[i]

LargestPowerOfTwoLessThan(n) ==
  CHOOSE p \in {Pow2[i] : i \in 0..n} : p < n /\ n <= 2 * p

\* subtreeRoot of the hashes from start on, for each size.
RangeRoot(hashes) ==
  LET root[size \in Nat] == [start \in Nat |->
        LET split == LargestPowerOfTwoLessThan(size) IN
        IF size = 0 THEN EmptyRoot
        ELSE IF size = 1 THEN hashes[start + 1]
        ELSE Node(root[split][start], root[size - split][start + split])]
  IN  root

SubtreeRoot(hashes) == RangeRoot(hashes)[Len(hashes)][0]

-----------------------------------------------------------------------------
(* Proofs from the leaves, for the leaf or the size that is given relative  *)
(* to the start of a range.                                                *)

BuildAuditPath(hashes) ==
  LET path[size \in Nat] == [start \in Nat |-> [index \in Nat |->
        LET split == LargestPowerOfTwoLessThan(size) IN
        IF size <= 1 THEN <<>>
        ELSE IF index < split
        THEN Append(path[split][start][index],
                    RangeRoot(hashes)[size - split][start + split])
        ELSE Append(path[size - split][start + split][index - split],
                    RangeRoot(hashes)[split][start])]]
  IN  path

\* createMerkleInclusionProof
AuditPath(hashes, index) == BuildAuditPath(hashes)[Len(hashes)][0][index]

\* buildConsistencyPath.  The code tests first = size; first is never above size in a call
\* that validation let through, and the test first >= size gives the recursion an end at
\* every argument.
BuildConsistencyPath(hashes) ==
  LET path[size \in Nat] == [start \in Nat |-> [first \in Nat \ {0} |-> [complete \in BOOLEAN |->
        LET split == LargestPowerOfTwoLessThan(size) IN
        IF first >= size
        THEN IF complete THEN <<>> ELSE <<RangeRoot(hashes)[size][start]>>
        ELSE IF first <= split
        THEN Append(path[split][start][first][complete],
                    RangeRoot(hashes)[size - split][start + split])
        ELSE Append(path[size - split][start + split][first - split][FALSE],
                    RangeRoot(hashes)[split][start])]]]
  IN  path

\* createMerkleConsistencyProof
ConsistencyPath(hashes, first) ==
  IF first = 0 \/ first = Len(hashes) THEN <<>>
  ELSE BuildConsistencyPath(hashes)[Len(hashes)][0][first][TRUE]

-----------------------------------------------------------------------------
(* Proofs from a store of complete subtrees.  A coordinate is a level and  *)
(* an index in that level.                                                 *)

\* What the store holds for a log: a node for each complete subtree of it.
StoredNodes(log) ==
  LET Complete == {c \in (0..Len(log)) \X (0..Len(log)) :
                     (c[2] + 1) * Pow2[c[1]] <= Len(log)}
  IN  [c \in Complete |-> RangeRoot(LeafHashes(log))[Pow2[c[1]]][c[2] * Pow2[c[1]]]]

\* A range that is one node of the store, and the coordinate of that node.
IsStored(size, start) == IsPowerOfTwo(size) /\ start % size = 0
Coordinate(size, start) == <<CHOOSE level \in 0..size : Pow2[level] = size, start \div size>>

\* The coordinates of planRangeRoot: the nodes that cover size leaves from start on.
PlanRange ==
  LET plan[size \in Nat] == [start \in Nat |->
        LET split == LargestPowerOfTwoLessThan(size) IN
        IF size = 0 THEN {}
        ELSE IF IsStored(size, start) THEN {Coordinate(size, start)}
        ELSE plan[split][start] \cup plan[size - split][start + split]]
  IN  plan

\* resolveRangePlan of the plan of a range, over the nodes that were loaded.
ResolveRange(nodes) ==
  LET resolve[size \in Nat] == [start \in Nat |->
        LET split == LargestPowerOfTwoLessThan(size) IN
        IF size = 0 THEN EmptyRoot
        ELSE IF IsStored(size, start) THEN nodes[Coordinate(size, start)]
        ELSE Node(resolve[split][start], resolve[size - split][start + split])]
  IN  resolve

\* buildStoredAuditPathPlans: the ranges, as size and start, of the audit path.
StoredAuditRanges ==
  LET ranges[size \in Nat] == [start \in Nat |-> [index \in Nat |->
        LET split == LargestPowerOfTwoLessThan(size) IN
        IF size <= 1 THEN <<>>
        ELSE IF index < split
        THEN Append(ranges[split][start][index], <<size - split, start + split>>)
        ELSE Append(ranges[size - split][start + split][index - split], <<split, start>>)]]
  IN  ranges

\* buildStoredConsistencyPathPlans
StoredConsistencyRanges ==
  LET ranges[size \in Nat] == [start \in Nat |-> [first \in Nat \ {0} |-> [complete \in BOOLEAN |->
        LET split == LargestPowerOfTwoLessThan(size) IN
        IF first >= size THEN IF complete THEN <<>> ELSE <<<<size, start>>>>
        ELSE IF first <= split
        THEN Append(ranges[split][start][first][complete], <<size - split, start + split>>)
        ELSE Append(ranges[size - split][start + split][first - split][FALSE],
                    <<split, start>>)]]]
  IN  ranges

ConsistencyRanges(first, second) ==
  IF first = 0 \/ first = second THEN <<>>
  ELSE StoredConsistencyRanges[second][0][first][TRUE]

\* The coordinates that createStoredMerkleConsistencyProof asks its loader for, at once.
RequestedCoordinates(first, second) ==
  LET ranges == ConsistencyRanges(first, second) IN
  PlanRange[first][0] \cup PlanRange[second][0]
    \cup UNION {PlanRange[ranges[i][1]][ranges[i][2]] : i \in DOMAIN ranges}

ResolvePath(ranges, nodes) ==
  [i \in DOMAIN ranges |-> ResolveRange(nodes)[ranges[i][1]][ranges[i][2]]]

-----------------------------------------------------------------------------
(* Verification.                                                           *)

\* nextProofNode.  A proof that is too short makes the code throw; here the nodes that
\* it lacks count as used, which shows that it is too short.
NextProofNode(proof, used) ==
  IF used + 1 \in DOMAIN proof THEN proof[used + 1] ELSE EmptyRoot

\* reconstructRoot: the root, and how many nodes of the proof it took.
ReconstructRoot(leafHash, proof) ==
  LET build[size \in Nat] == [index \in Nat |->
        LET split == LargestPowerOfTwoLessThan(size) IN
        IF size <= 1 THEN [root |-> leafHash, used |-> 0]
        ELSE IF index < split
        THEN LET child == build[split][index] IN
             [root |-> Node(child.root, NextProofNode(proof, child.used)),
              used |-> child.used + 1]
        ELSE LET child == build[size - split][index - split] IN
             [root |-> Node(NextProofNode(proof, child.used), child.root),
              used |-> child.used + 1]]
  IN  build

\* Mutant of VerifyInclusion: nodes left over in the proof are ignored.
VerifyInclusionPrefix(leafHash, index, size, proof, root) ==
  /\ size >= 1 /\ index \in 0..size - 1
  /\ LET result == ReconstructRoot(leafHash, proof)[size][index]
     IN  result.used <= Len(proof) /\ result.root = root

\* verifyMerkleLeafHashInclusion
VerifyInclusion(leafHash, index, size, proof, root) ==
  /\ size >= 1 /\ index \in 0..size - 1
  /\ LET result == ReconstructRoot(leafHash, proof)[size][index]
     IN  result.used = Len(proof) /\ result.root = root

\* The number of low bits of n that are all one, all zero.
LowOnes(n) ==
  CHOOSE k \in 0..n : ~ IsOdd(n \div Pow2[k]) /\ \A j \in 0..k - 1 : IsOdd(n \div Pow2[j])
LowZeros(n) == IF n = 0 THEN 0 ELSE LowOnes(n - 1)

\* One turn of the loop of verifyMerkleConsistencyProof.
Climb(at, node) ==
  IF at.second = 0 THEN [at EXCEPT !.ok = FALSE]
  ELSE IF IsOdd(at.first) \/ at.first = at.second
  THEN LET k == IF IsOdd(at.first) THEN 1 ELSE LowZeros(at.first) + 1
       IN  [at EXCEPT !.first = @ \div Pow2[k], !.second = @ \div Pow2[k],
                      !.firstRoot = Node(node, @), !.secondRoot = Node(node, @)]
  ELSE [at EXCEPT !.first = @ \div 2, !.second = @ \div 2, !.secondRoot = Node(@, node)]

\* The state of that loop when it has used so many nodes of the path.
Climbs(first, second, path) ==
  LET k == LowOnes(first - 1)
      at[i \in Nat] ==
        IF i <= 1
        THEN [ok |-> TRUE, first |-> (first - 1) \div Pow2[k],
              second |-> (second - 1) \div Pow2[k],
              firstRoot |-> path[1], secondRoot |-> path[1]]
        ELSE Climb(at[i - 1], path[i])
  IN  at

Climbed(first, second, path) == Climbs(first, second, path)[Len(path)]

\* Mutant of VerifyConsistency: the reconstruction of the first root is not compared.
VerifySecondRoot(first, second, firstRoot, secondRoot, proof) ==
  CASE first > second -> FALSE
    [] first = 0 -> proof = <<>> /\ firstRoot = EmptyRoot
    [] first # 0 /\ first = second -> proof = <<>> /\ firstRoot = secondRoot
    [] OTHER ->
         /\ proof # <<>>
         /\ LET path == IF IsPowerOfTwo(first) THEN <<firstRoot>> \o proof ELSE proof
                end  == Climbed(first, second, path)
            IN  end.ok /\ end.second = 0 /\ end.secondRoot = secondRoot

\* Mutant of VerifyConsistency: the implicit known subtree is left out.
VerifyExplicitPath(first, second, firstRoot, secondRoot, proof) ==
  CASE first > second -> FALSE
    [] first = 0 -> proof = <<>> /\ firstRoot = EmptyRoot
    [] first # 0 /\ first = second -> proof = <<>> /\ firstRoot = secondRoot
    [] OTHER ->
         /\ proof # <<>>
         /\ LET end == Climbed(first, second, proof)
            IN  /\ end.ok /\ end.second = 0
                /\ end.firstRoot = firstRoot /\ end.secondRoot = secondRoot

\* verifyMerkleConsistencyProof
VerifyConsistency(first, second, firstRoot, secondRoot, proof) ==
  CASE first > second -> FALSE
    [] first = 0 ->
         /\ proof = <<>> /\ firstRoot = EmptyRoot
         /\ second = 0 => secondRoot = EmptyRoot
    [] first # 0 /\ first = second -> proof = <<>> /\ firstRoot = secondRoot
    [] OTHER ->
         /\ proof # <<>>
         /\ LET path == IF IsPowerOfTwo(first) THEN <<firstRoot>> \o proof ELSE proof
                end  == Climbed(first, second, path)
            IN  /\ end.ok /\ end.second = 0
                /\ end.firstRoot = firstRoot /\ end.secondRoot = secondRoot
=============================================================================
