----------------------------- MODULE TallyReplay -----------------------------
(***************************************************************************)
(* The deterministic tally replay of packages/protocol/src/tally-v3.ts.    *)
(*                                                                         *)
(* A tally input set carries a prefix of one question's append-only log,   *)
(* the signed tree head that commits to it, and the artifacts its leaves   *)
(* name.  validateReplayGraphV3 decides whether the input set is coherent  *)
(* (ReplayGraphOK) and replayTallyV3 then selects the direct votes that    *)
(* count (AcceptedDirectVotes).                                            *)
(*                                                                         *)
(* Abstractions.  SHA-256 is injective: an artifact stands for its own     *)
(* hash, a Merkle root for the sequence of leaves below it.  An array      *)
(* whose entries are keyed by hash is a set.  The fields the code only     *)
(* compares for equality (question, ballot, nullifier epoch, protocol      *)
(* binding, manifest meaning) are one value, the context.  Source          *)
(* positions and percentages are not here.                                 *)
(***************************************************************************)
EXTENDS Integers, Sequences, FiniteSets

CONSTANTS
  Nullifiers,      \* question nullifiers, one for each voter of the question
  Choices,         \* the choices of the selected ballot manifest
  CountedChoices,  \* those of them with isCounted
  Events,          \* the vote events that question keys may ever sign
  Receipts,        \* the acceptances and adjudications the service may ever sign
  Seals,           \* the issue times and keys under which it may sign a tree head
  Null             \* JSON null

EventTypes == {"cast", "replace", "withdraw"}

\* assertTallyPolicyV3 fixes these two.
CountedEventTypes == {"cast", "replace"}
CountedDecision == "counted"

\* The shape every schema-valid vote event has.
WellFormedEvent(e) ==
  /\ e.nullifier \in Nullifiers
  /\ e.eventType \in EventTypes
  /\ e.sequence \in Nat \ {0}
  /\ e.choice = Null <=> e.eventType = "withdraw"
  /\ IF e.sequence = 1 THEN e.eventType = "cast" /\ e.previous = Null
                       ELSE e.eventType # "cast" /\ e.previous # Null

\* An acceptance has no sequence and no previous receipt; as in receiptSequence it takes
\* the first place of its chain.
WellFormedAcceptance(r) ==
  /\ r.schema = "acceptance"
  /\ r.sequence = 1 /\ r.previous = Null /\ r.status = "counted"

WellFormedAdjudication(r) ==
  /\ r.schema = "adjudication"
  /\ r.sequence \in Nat /\ r.sequence >= 2 /\ r.previous # Null
  /\ r.status \in {"counted", "excluded", "rejected"}

\* The shape every schema-valid receipt has.
WellFormedReceipt(r) == WellFormedAcceptance(r) \/ WellFormedAdjudication(r)

ASSUME ArtifactsAssumption ==
  /\ CountedChoices \subseteq Choices
  /\ Null \notin Events \cup Receipts \cup Choices
  /\ \A e \in Events : WellFormedEvent(e)
  /\ \A r \in Receipts : WellFormedReceipt(r)

-----------------------------------------------------------------------------
(* The question log.                                                       *)

EventLeaf(e) == [entryType |-> "vote_event", entryId |-> e.eventId, payload |-> e]

ReceiptLeaf(r) ==
  [entryType |-> "vote_adjudication", entryId |-> r.receiptId, payload |-> r]

Leaves == {EventLeaf(e) : e \in Events} \cup {ReceiptLeaf(r) : r \in Receipts}

\* A signed tree head: two heads of one size under different seals are different heads.
TreeHead(logId, log, seal) ==
  [logId |-> logId, treeSize |-> Len(log), root |-> log, seal |-> seal]

-----------------------------------------------------------------------------
(* validateReplayGraphV3, check by check, in the order of the code.        *)

\* Mutant of AuthorizationBinds: an event may be issued at the instant of expiry.
AuthorizationBindsLate(e) ==
  LET a == e.authorization IN
  /\ e.context = a.context
  /\ e.nullifier = a.nullifier
  /\ e.key = a.key
  /\ a.issuedAt <= e.issuedAt /\ e.issuedAt <= a.expiresAt

\* verifyVoteEventV3AuthorizationBinding
AuthorizationBinds(e) ==
  LET a == e.authorization IN
  /\ e.context = a.context
  /\ e.nullifier = a.nullifier
  /\ e.key = a.key
  /\ a.issuedAt <= e.issuedAt /\ e.issuedAt < a.expiresAt

\* Every published authorization is for the target context and is used.
AuthorizationsOK(in) ==
  \A a \in in.authorizations :
    /\ a.context = in.context
    /\ \E e \in in.events : e.authorization = a

\* Every event is uniquely identified, authorized, and for the target context.
EventsOK(in) ==
  \A e \in in.events :
    /\ \A f \in in.events : f.eventId = e.eventId => f = e
    /\ e.context = in.context
    /\ e.authorization \in in.authorizations
    /\ AuthorizationBinds(e)
    /\ e.choice \in Choices \cup {Null}

\* Mutant of Contiguous: entries link to an earlier one, but two may share a place.
LinkedOnly(chain) ==
  \A x \in chain :
    IF x.sequence = 1 THEN x.previous = Null
    ELSE /\ x.previous \in chain
         /\ x.previous.sequence = x.sequence - 1

\* The code sorts a chain by sequence and asks each entry to have sequence index + 1
\* and the hash of the entry before it: in a finite set, no two entries share a
\* sequence and every entry but the first links to the one numbered just below it.
Contiguous(chain) ==
  /\ \A x, y \in chain : x.sequence = y.sequence => x = y
  /\ \A x \in chain :
       IF x.sequence = 1 THEN x.previous = Null
       ELSE /\ x.previous \in chain
            /\ x.previous.sequence = x.sequence - 1

ChainOf(events, n) == {e \in events : e.nullifier = n}

VoteChainsOK(in) ==
  \A n \in Nullifiers :
    /\ Contiguous(ChainOf(in.events, n))
    /\ \A e \in ChainOf(in.events, n) : e.sequence = 1 <=> e.eventType = "cast"

ReceiptsOK(in) ==
  \A r \in in.receipts :
    /\ \A s \in in.receipts : s.receiptId = r.receiptId => s = r
    /\ r.event \in in.events
    /\ r.logId = in.logId

ReceiptsOf(receipts, e) == {r \in receipts : r.event = e}

ReceiptChainsOK(in) ==
  \A e \in in.events :
    /\ ReceiptsOf(in.receipts, e) # {}
    /\ Contiguous(ReceiptsOf(in.receipts, e))
    /\ \A r \in ReceiptsOf(in.receipts, e) : r.sequence = 1 <=> r.schema = "acceptance"

\* A leaf names an artifact of the input set, by identifier and by hash.
LeafMatched(in, leaf) ==
  IF leaf.entryType = "vote_event"
  THEN \E e \in in.events : e.eventId = leaf.entryId /\ e = leaf.payload
  ELSE \E r \in in.receipts : r.receiptId = leaf.entryId /\ r = leaf.payload

SameEntry(a, b) == a.entryType = b.entryType /\ a.entryId = b.entryId

LogPrefixOK(in) ==
  /\ in.checkpoint.logId = in.logId
  /\ Len(in.leaves) = in.checkpoint.treeSize
  /\ \A i, j \in DOMAIN in.leaves : SameEntry(in.leaves[i], in.leaves[j]) => i = j
  /\ \A i \in DOMAIN in.leaves : LeafMatched(in, in.leaves[i])
  /\ in.leaves = in.checkpoint.root

\* Every artifact has a leaf of its type and identifier.
ArtifactsLogged(in) ==
  /\ \A e \in in.events :
       \E i \in DOMAIN in.leaves : SameEntry(in.leaves[i], EventLeaf(e))
  /\ \A r \in in.receipts :
       \E i \in DOMAIN in.leaves : SameEntry(in.leaves[i], ReceiptLeaf(r))

ReplayGraphOK(in) ==
  /\ AuthorizationsOK(in)
  /\ EventsOK(in)
  /\ VoteChainsOK(in)
  /\ ReceiptsOK(in)
  /\ ReceiptChainsOK(in)
  /\ LogPrefixOK(in)
  /\ ArtifactsLogged(in)
  /\ in.head = in.checkpoint

-----------------------------------------------------------------------------
(* replayTallyV3: the direct votes that count.                             *)

\* Mutant of IsLatestEvent: the first event of a nullifier stays.
IsFirstEvent(events, e) ==
  \A f \in events : f.nullifier = e.nullifier => e.sequence <= f.sequence

IsLatestEvent(events, e) ==
  \A f \in events : f.nullifier = e.nullifier => f.sequence <= e.sequence

IsLatestReceipt(receipts, r) ==
  \A s \in receipts : s.event = r.event => s.sequence <= r.sequence

\* Mutant of AcceptedDirectVotes: withdrawals are filtered out before the latest event
\* of a nullifier is selected.
LatestCountableVotes(in) ==
  LET countable == {e \in in.events : e.choice \in CountedChoices} IN
  {v \in [event : countable, decision : in.receipts] :
     /\ IsLatestEvent(countable, v.event)
     /\ v.decision.event = v.event
     /\ IsLatestReceipt(in.receipts, v.decision)
     /\ v.decision.status = CountedDecision}

\* Mutant of AcceptedDirectVotes: any counted decision will do, not the last.
OnceCountedVotes(in) ==
  {v \in [event : in.events, decision : in.receipts] :
     /\ IsLatestEvent(in.events, v.event)
     /\ v.decision.event = v.event
     /\ v.decision.status = CountedDecision
     /\ v.event.eventType \in CountedEventTypes
     /\ v.event.choice \in CountedChoices}

AcceptedDirectVotes(in) ==
  {v \in [event : in.events, decision : in.receipts] :
     /\ IsLatestEvent(in.events, v.event)
     /\ v.decision.event = v.event
     /\ IsLatestReceipt(in.receipts, v.decision)
     /\ v.decision.status = CountedDecision
     /\ v.event.eventType \in CountedEventTypes
     /\ v.event.choice \in CountedChoices}

\* Mutant of SnapshotVerifies: the expected latest head is not compared.
ReplayVerifies(in, expectedLatest) == ReplayGraphOK(in)

\* verifyTallySnapshotStructureV3, for a snapshot built over this input set: the
\* replay must succeed, and when the caller supplies an independently obtained
\* latest tree head (a set of at most one) the snapshot must be of exactly that head.
SnapshotVerifies(in, expectedLatest) ==
  /\ \A head \in expectedLatest : head = in.checkpoint
  /\ ReplayGraphOK(in)
=============================================================================
