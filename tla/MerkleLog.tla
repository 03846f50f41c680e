------------------------------ MODULE MerkleLog ------------------------------
(***************************************************************************)
(* A log publisher that serves consistency proofs from its store of        *)
(* complete subtrees, and an auditor that follows the log from one signed  *)
(* tree head to the next.                                                  *)
(*                                                                         *)
(* createStoredMerkleConsistencyProof fixes the sizes and the coordinates  *)
(* first and awaits its loader; the log may grow meanwhile, or be restored *)
(* from an older backup and grow another way.  The path may be damaged on  *)
(* its way to the auditor; the tree heads are signed.                      *)
(***************************************************************************)
EXTENDS MerkleTree

CONSTANTS
  MaxLeaves,     \* bound on the size of the log
  MaxRestores,   \* bound on how often the publisher loses a tail of its log
  Idle           \* no call is under way

VARIABLES
  log,      \* the leaves: position and number of the restore they came after
  restores, \* how often the log was restored
  call,     \* the call to the library that the publisher has under way, or its result
  pinned    \* the last tree head that the auditor accepted: size and root

\* The field `leaves` of call and of pinned is history: the leaves that the log had under
\* the head that is served or accepted.  The library sees only the size and the root, and
\* no guard reads the field; the properties compare the root with it.

vars == <<log, restores, call, pinned>>

Init ==
  /\ log = <<>>
  /\ restores = 0
  /\ call = Idle
  /\ pinned = [size |-> 0, root |-> EmptyRoot, leaves |-> <<>>]

AppendLeaf ==
  /\ Len(log) < MaxLeaves
  /\ log' = Append(log, <<Len(log), restores>>)
  /\ UNCHANGED <<restores, call, pinned>>

Restore ==
  /\ restores < MaxRestores
  /\ restores' = restores + 1
  /\ \E n \in 0..Len(log) - 1 : log' = SubSeq(log, 1, n)
  /\ UNCHANGED <<call, pinned>>

\* The auditor asks for a proof from the size it has to the size the log has.
RequestProof ==
  /\ call = Idle
  /\ pinned.size <= Len(log)
  /\ call' = [stage |-> "loading", first |-> pinned.size, second |-> Len(log)]
  /\ UNCHANGED <<log, restores, pinned>>

\* Mutant of LoadNodes: the second root is that of the log as it is after the await.
LoadNodesAtHead ==
  /\ call # Idle /\ call.stage = "loading"
  /\ LET nodes == StoredNodes(log) IN
     call' = IF RequestedCoordinates(call.first, call.second) \subseteq DOMAIN nodes
             THEN [stage |-> "served", first |-> call.first, second |-> call.second,
                   leaves |-> SubSeq(log, 1, call.second),
                   firstRoot |-> ResolveRange(nodes)[call.first][0],
                   secondRoot |-> ResolveRange(nodes)[Len(log)][0],
                   path |-> ResolvePath(ConsistencyRanges(call.first, call.second), nodes)]
             ELSE Idle
  /\ UNCHANGED <<log, restores, pinned>>

\* The loader answers; the call fails if a node that it asked for is not in the store.
LoadNodes ==
  /\ call # Idle /\ call.stage = "loading"
  /\ LET nodes == StoredNodes(log) IN
     call' = IF RequestedCoordinates(call.first, call.second) \subseteq DOMAIN nodes
             THEN [stage |-> "served", first |-> call.first, second |-> call.second,
                   leaves |-> SubSeq(log, 1, call.second),
                   firstRoot |-> ResolveRange(nodes)[call.first][0],
                   secondRoot |-> ResolveRange(nodes)[call.second][0],
                   path |-> ResolvePath(ConsistencyRanges(call.first, call.second), nodes)]
             ELSE Idle
  /\ UNCHANGED <<log, restores, pinned>>

\* A path as it was sent, or with a node lost, doubled, or two nodes exchanged.
Damaged(path) ==
  {path}
    \cup {RemoveAt(path, i) : i \in DOMAIN path}
    \cup {InsertAt(path, i, path[i]) : i \in DOMAIN path}
    \cup {[path EXCEPT ![i] = path[j], ![j] = path[i]] : i, j \in DOMAIN path}

\* The auditor checks the path between its own head and the new signed head.
Follow ==
  /\ call # Idle /\ call.stage = "served"
  /\ \E path \in Damaged(call.path) :
       pinned' = IF VerifyConsistency(pinned.size, call.second, pinned.root,
                                      call.secondRoot, path)
                 THEN [size |-> call.second, root |-> call.secondRoot, leaves |-> call.leaves]
                 ELSE pinned
  /\ call' = Idle
  /\ UNCHANGED <<log, restores>>

Next == AppendLeaf \/ Restore \/ RequestProof \/ LoadNodes \/ Follow

Spec == Init /\ [][Next]_vars

-----------------------------------------------------------------------------
(* Properties.                                                             *)

\* The auditor follows one log: each head that it accepts has the leaves of the one
\* before as a prefix, though the publisher may have restored and rewritten its log between
\* any two steps and no matter how the path was damaged.
FollowsOneLog ==
  [][/\ Len(pinned'.leaves) = pinned'.size
     /\ pinned'.root = SubtreeRoot(LeafHashes(pinned'.leaves))
     /\ IsPrefix(pinned.leaves, pinned'.leaves)]_pinned

\* What the store serves is the proof that createMerkleConsistencyProof makes from the
\* leaves, for the two sizes asked for, even when the log changed during the await.
ServedProofIsExact ==
  call # Idle /\ call.stage = "served" =>
    LET hashes == LeafHashes(call.leaves) IN
    /\ Len(call.leaves) = call.second
    /\ call.secondRoot = SubtreeRoot(hashes)
    /\ call.firstRoot = SubtreeRoot(SubSeq(hashes, 1, call.first))
    /\ call.path = ConsistencyPath(hashes, call.first)

\* Every served proof verifies: an auditor whose head is the served first root is never
\* held up by a path that arrives intact.
ServedProofVerifies ==
  call # Idle /\ call.stage = "served" =>
    VerifyConsistency(call.first, call.second, call.firstRoot, call.secondRoot, call.path)

\* Under an accepted head, an inclusion proof shows a leaf at an index exactly when that
\* leaf is there, the path is the one from the store and nothing was added or lost.
InclusionIsExact ==
  pinned.size > 0 =>
    LET hashes == LeafHashes(pinned.leaves)
        nodes  == StoredNodes(pinned.leaves)
    IN  \A i, j \in 0..pinned.size - 1 :
          /\ ResolvePath(StoredAuditRanges[pinned.size][0][i], nodes) = AuditPath(hashes, i)
          /\ \A path \in Damaged(AuditPath(hashes, i)) :
               VerifyInclusion(hashes[i + 1], j, pinned.size, path, pinned.root)
                 <=> i = j /\ path = AuditPath(hashes, i)
=============================================================================
