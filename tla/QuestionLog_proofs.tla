-------------------------- MODULE QuestionLog_proofs --------------------------
(* Proofs about one replay, for every set of artifacts and every input set: that  *)
(* it covers its log prefix exactly, that the covered prefix is sound, and that   *)
(* the votes it selects are the chain tips.  And about the log, that prefixes are *)
(* kept and what they name only grows.                                            *)
EXTENDS QuestionLog, SequenceTheorems, WellFoundedInduction, TLAPS

-------------------------------------------------------------------------------
(* Chains.                                                                        *)

\* Every non-empty set of natural numbers has a least element.
LEMMA LeastNat ==
  ASSUME NEW T, T \subseteq Nat, T # {}
  PROVE  \E m \in T : \A k \in T : m <= k
<1> DEFINE R == {ss \in Nat \X Nat : ss[1] < ss[2]}
<1>1. IsWellFoundedOn(R, Nat)
  BY NatLessThanWellFounded DEF OpToRel
<1>2. PICK m \in T : \A k \in T : <<k, m>> \notin R
  <2> HIDE DEF R
  <2> QED BY <1>1, WFMin
<1>3. ASSUME NEW k \in T
      PROVE  m <= k
  <2>1. <<k, m>> \notin R  BY <1>2
  <2>2. k \in Nat /\ m \in Nat  BY <1>2
  <2>3. ~ (k < m)  BY <2>1, <2>2
  <2> QED BY <2>2, <2>3
<1> QED BY <1>2, <1>3

\* What a chain is to the lemmas below: numbered from 1, and Null is not in it.
Numbered(chain) == Null \notin chain /\ \A x \in chain : x.sequence \in Nat \ {0}

\* In a contiguous chain the entry with the largest sequence is the one entry that no
\* other links back to: the two ways of saying "latest" agree (replayTallyV3 uses
\* the first, receipts and events are linked by the second).
LEMMA LargestIsTip ==
  ASSUME NEW chain, Numbered(chain), Contiguous(chain), NEW x \in chain
  PROVE  (\A y \in chain : y.sequence <= x.sequence) <=> IsTip(x, chain)
<1>1. ASSUME \A y \in chain : y.sequence <= x.sequence, NEW y \in chain, y.previous = x
      PROVE  FALSE
  <2>1. y.sequence # 1  BY <1>1 DEF Contiguous, Numbered
  <2>2. x.sequence = y.sequence - 1  BY <1>1, <2>1 DEF Contiguous
  <2>3. y.sequence <= x.sequence  BY <1>1
  <2> QED BY <2>2, <2>3 DEF Numbered
<1>2. ASSUME IsTip(x, chain), NEW z \in chain, ~ (z.sequence <= x.sequence)
      PROVE  FALSE
  <2> DEFINE Above == {y \in chain : y.sequence > x.sequence}
             Numbers == {y.sequence : y \in Above}
  <2>1. Numbers \subseteq Nat /\ Numbers # {}
    BY <1>2 DEF Numbered
  <2>2. PICK m \in Numbers : \A k \in Numbers : m <= k
    <3> HIDE DEF Numbers
    <3> QED BY <2>1, LeastNat
  <2>3. PICK y \in Above : y.sequence = m
    BY <2>2
  <2>4. y.sequence # 1  BY <2>3 DEF Numbered
  <2>5. y.previous \in chain /\ y.previous.sequence = y.sequence - 1
    BY <2>3, <2>4 DEF Contiguous
  <2>6. y.previous \notin Above
    <3>1. SUFFICES ASSUME y.previous \in Above PROVE FALSE
      OBVIOUS
    <3>2. y.previous.sequence \in Numbers  BY <3>1
    <3>3. y.sequence <= y.previous.sequence  BY <3>2, <2>2, <2>3
    <3> QED BY <3>3, <2>5, <2>3 DEF Numbered
  <2>7. y.previous.sequence = x.sequence
    BY <2>3, <2>5, <2>6 DEF Numbered
  <2>8. y.previous = x
    BY <2>5, <2>7 DEF Contiguous
  <2> QED BY <1>2, <2>3, <2>8 DEF IsTip
<1> QED BY <1>1, <1>2 DEF IsTip

\* Two entries of a contiguous chain that continue the same entry are one entry.
LEMMA NoForkInChain ==
  ASSUME NEW chain, Numbered(chain), Contiguous(chain),
         NEW x \in chain, NEW y \in chain, x.previous = y.previous
  PROVE  x = y
<1>1. CASE x.sequence = 1
  <2>1. y.previous = Null  BY <1>1 DEF Contiguous
  <2>2. y.sequence = 1  BY <2>1 DEF Contiguous, Numbered
  <2> QED BY <1>1, <2>2 DEF Contiguous
<1>2. CASE x.sequence # 1
  <2>1. x.previous \in chain /\ x.previous.sequence = x.sequence - 1
    BY <1>2 DEF Contiguous
  <2>2. y.sequence # 1
    BY <2>1 DEF Contiguous, Numbered
  <2>3. y.previous.sequence = y.sequence - 1
    BY <2>2 DEF Contiguous
  <2>4. x.sequence = y.sequence
    BY <2>1, <2>3 DEF Numbered
  <2> QED BY <2>4 DEF Contiguous
<1> QED BY <1>1, <1>2

-------------------------------------------------------------------------------
(* One replay.                                                                    *)

\* An input set of known artifacts over a log of known leaves.
Material(in) ==
  /\ in.events \subseteq Events
  /\ in.receipts \subseteq Receipts
  /\ in.leaves \in Seq(Leaves)

\* A leaf is the leaf of one artifact, and its entry type tells which kind.
LEMMA LeafForms ==
  /\ \A e \in Events, r \in Receipts : EventLeaf(e) # ReceiptLeaf(r)
  /\ \A e, f \in Events : EventLeaf(e) = EventLeaf(f) => e = f
  /\ \A r, s \in Receipts : ReceiptLeaf(r) = ReceiptLeaf(s) => r = s
  /\ \A leaf \in Leaves :
       \/ leaf.entryType = "vote_event" /\ \E e \in Events : leaf = EventLeaf(e)
       \/ leaf.entryType = "vote_adjudication" /\ \E r \in Receipts : leaf = ReceiptLeaf(r)
<1>1. ASSUME NEW e \in Events, NEW r \in Receipts
      PROVE  EventLeaf(e).entryType # ReceiptLeaf(r).entryType
  BY DEF EventLeaf, ReceiptLeaf
<1>2. ASSUME NEW e, NEW f, EventLeaf(e) = EventLeaf(f)
      PROVE  e = f
  <2>1. EventLeaf(e).payload = e /\ EventLeaf(f).payload = f
    BY DEF EventLeaf
  <2> QED BY <1>2, <2>1
<1>3. ASSUME NEW r, NEW s, ReceiptLeaf(r) = ReceiptLeaf(s)
      PROVE  r = s
  <2>1. ReceiptLeaf(r).payload = r /\ ReceiptLeaf(s).payload = s
    BY DEF ReceiptLeaf
  <2> QED BY <1>3, <2>1
<1>4. ASSUME NEW leaf \in Leaves
      PROVE  \/ leaf.entryType = "vote_event" /\ \E e \in Events : leaf = EventLeaf(e)
             \/ /\ leaf.entryType = "vote_adjudication"
                /\ \E r \in Receipts : leaf = ReceiptLeaf(r)
  BY DEF Leaves, EventLeaf, ReceiptLeaf
<1> QED BY <1>1, <1>2, <1>3, <1>4

\* A replay that succeeds was given exactly the artifacts that its log prefix names,
\* nothing withheld and nothing put in.
THEOREM ReplayCoversLog ==
  ASSUME NEW in, Material(in), ReplayGraphOK(in)
  PROVE  /\ in.events = LoggedEvents(in.leaves)
         /\ in.receipts = LoggedReceipts(in.leaves)
<1> USE DEF Material
<1>1. LogPrefixOK(in) /\ ArtifactsLogged(in) /\ EventsOK(in) /\ ReceiptsOK(in)
  BY DEF ReplayGraphOK
<1>2. ASSUME NEW i \in DOMAIN in.leaves
      PROVE  in.leaves[i] \in Leaves /\ LeafMatched(in, in.leaves[i])
  <2>1. in.leaves[i] \in Leaves  BY <1>2, ElementOfSeq
  <2>2. LeafMatched(in, in.leaves[i])  BY <1>1 DEF LogPrefixOK
  <2> QED BY <2>1, <2>2
<1>3. ASSUME NEW e \in in.events
      PROVE  e \in LoggedEvents(in.leaves)
  <2>1. PICK i \in DOMAIN in.leaves : SameEntry(in.leaves[i], EventLeaf(e))
    BY <1>1 DEF ArtifactsLogged
  <2>2. in.leaves[i].entryType = "vote_event" /\ in.leaves[i].entryId = e.eventId
    BY <2>1 DEF SameEntry, EventLeaf
  <2>3. PICK f \in in.events : f.eventId = in.leaves[i].entryId /\ f = in.leaves[i].payload
    BY <1>2, <2>2 DEF LeafMatched
  <2>4. f = e  BY <2>2, <2>3, <1>1 DEF EventsOK
  <2>5. PICK g \in Events : in.leaves[i] = EventLeaf(g)
    BY <1>2, <2>2, LeafForms
  <2>6. in.leaves[i].payload = g  BY <2>5 DEF EventLeaf
  <2> QED BY <2>3, <2>4, <2>5, <2>6 DEF LoggedEvents
<1>4. ASSUME NEW e \in LoggedEvents(in.leaves)
      PROVE  e \in in.events
  <2>1. PICK i \in DOMAIN in.leaves : in.leaves[i] = EventLeaf(e)
    BY DEF LoggedEvents
  <2>2. in.leaves[i].entryType = "vote_event" /\ in.leaves[i].payload = e
    BY <2>1 DEF EventLeaf
  <2> QED BY <1>2, <2>2 DEF LeafMatched
<1>5. ASSUME NEW r \in in.receipts
      PROVE  r \in LoggedReceipts(in.leaves)
  <2>1. PICK i \in DOMAIN in.leaves : SameEntry(in.leaves[i], ReceiptLeaf(r))
    BY <1>1 DEF ArtifactsLogged
  <2>2. in.leaves[i].entryType = "vote_adjudication" /\ in.leaves[i].entryId = r.receiptId
    BY <2>1 DEF SameEntry, ReceiptLeaf
  <2>3. PICK s \in in.receipts :
          s.receiptId = in.leaves[i].entryId /\ s = in.leaves[i].payload
    BY <1>2, <2>2 DEF LeafMatched
  <2>4. s = r  BY <2>2, <2>3, <1>1 DEF ReceiptsOK
  <2>5. PICK t \in Receipts : in.leaves[i] = ReceiptLeaf(t)
    BY <1>2, <2>2, LeafForms
  <2>6. in.leaves[i].payload = t  BY <2>5 DEF ReceiptLeaf
  <2> QED BY <2>3, <2>4, <2>5, <2>6 DEF LoggedReceipts
<1>6. ASSUME NEW r \in LoggedReceipts(in.leaves)
      PROVE  r \in in.receipts
  <2>1. PICK i \in DOMAIN in.leaves : in.leaves[i] = ReceiptLeaf(r)
    BY DEF LoggedReceipts
  <2>2. in.leaves[i].entryType # "vote_event" /\ in.leaves[i].payload = r
    BY <2>1 DEF ReceiptLeaf
  <2> QED BY <1>2, <2>2 DEF LeafMatched
<1> QED BY <1>3, <1>4, <1>5, <1>6

\* The chains of a replay that succeeds are contiguous, and an artifact that links back
\* to another links within its own chain.
LEMMA ReplayChains ==
  ASSUME NEW in, Material(in), ReplayGraphOK(in)
  PROVE  /\ \A n \in Nullifiers : /\ Numbered(ChainOf(in.events, n))
                                  /\ Contiguous(ChainOf(in.events, n))
         /\ \A e \in in.events : /\ Numbered(ReceiptsOf(in.receipts, e))
                                 /\ Contiguous(ReceiptsOf(in.receipts, e))
         /\ \A e \in in.events, f \in in.events :
              f.previous = e => f.nullifier = e.nullifier
         /\ \A r \in in.receipts, s \in in.receipts :
              s.previous = r => s.event = r.event
         /\ \A e \in in.events : e.nullifier \in Nullifiers
         /\ \A r \in in.receipts : r.event \in in.events
<1>1. \A e \in Events : WellFormedEvent(e)
  BY ArtifactsAssumption
<1>2. \A r \in Receipts : WellFormedReceipt(r)
  BY ArtifactsAssumption
<1>3. Null \notin Events /\ Null \notin Receipts
  BY ArtifactsAssumption
<1>4. \A e \in in.events : e.nullifier \in Nullifiers /\ e.sequence \in Nat \ {0}
  BY <1>1 DEF Material, WellFormedEvent
<1>5. \A r \in in.receipts : r.sequence \in Nat \ {0}
  BY <1>2 DEF Material, WellFormedReceipt, WellFormedAcceptance, WellFormedAdjudication
<1>6. \A r \in in.receipts : r.event \in in.events
  BY DEF ReplayGraphOK, ReceiptsOK
<1>7. ASSUME NEW n \in Nullifiers
      PROVE  Numbered(ChainOf(in.events, n)) /\ Contiguous(ChainOf(in.events, n))
  <2>1. Numbered(ChainOf(in.events, n))
    BY <1>3, <1>4 DEF Numbered, ChainOf, Material
  <2>2. Contiguous(ChainOf(in.events, n))
    BY DEF ReplayGraphOK, VoteChainsOK
  <2> QED BY <2>1, <2>2
<1>8. ASSUME NEW e \in in.events
      PROVE  /\ Numbered(ReceiptsOf(in.receipts, e))
             /\ Contiguous(ReceiptsOf(in.receipts, e))
  <2>1. Numbered(ReceiptsOf(in.receipts, e))
    BY <1>3, <1>5 DEF Numbered, ReceiptsOf, Material
  <2>2. Contiguous(ReceiptsOf(in.receipts, e))
    BY DEF ReplayGraphOK, ReceiptChainsOK
  <2> QED BY <2>1, <2>2
<1>9. ASSUME NEW e \in in.events, NEW f \in in.events, f.previous = e
      PROVE  f.nullifier = e.nullifier
  <2>1. f \in ChainOf(in.events, f.nullifier)  BY DEF ChainOf
  <2>2. Contiguous(ChainOf(in.events, f.nullifier))  BY <1>4, <1>7
  <2>3. f.previous # Null  BY <1>3, <1>9 DEF Material
  <2>4. f.previous \in ChainOf(in.events, f.nullifier)
    BY <2>1, <2>2, <2>3 DEF Contiguous
  <2> QED BY <1>9, <2>4 DEF ChainOf
<1>10. ASSUME NEW r \in in.receipts, NEW s \in in.receipts, s.previous = r
       PROVE  s.event = r.event
  <2>1. s \in ReceiptsOf(in.receipts, s.event)  BY DEF ReceiptsOf
  <2>2. Contiguous(ReceiptsOf(in.receipts, s.event))  BY <1>6, <1>8
  <2>3. s.previous # Null  BY <1>3, <1>10 DEF Material
  <2>4. s.previous \in ReceiptsOf(in.receipts, s.event)
    BY <2>1, <2>2, <2>3 DEF Contiguous
  <2> QED BY <1>10, <2>4 DEF ReceiptsOf
<1> QED BY <1>4, <1>6, <1>7, <1>8, <1>9, <1>10

\* No replay succeeds over a log prefix with a fork, an event without its receipt, a
\* receipt without its event or a doubled entry.
THEOREM ReplayCoversSoundPrefix ==
  ASSUME NEW in, Material(in), ReplayGraphOK(in)
  PROVE  ~ Forked(in.leaves) /\ ~ Incomplete(in.leaves)
<1>1. /\ in.events = LoggedEvents(in.leaves)
      /\ in.receipts = LoggedReceipts(in.leaves)
  BY ReplayCoversLog
<1>2. ASSUME NEW e \in in.events, NEW f \in in.events,
             e.nullifier = f.nullifier, e.previous = f.previous
      PROVE  e = f
  <2> DEFINE chain == ChainOf(in.events, e.nullifier)
  <2>1. e \in chain /\ f \in chain  BY <1>2 DEF ChainOf
  <2>2. Numbered(chain) /\ Contiguous(chain)  BY ReplayChains
  <2> HIDE DEF chain
  <2> QED BY <1>2, <2>1, <2>2, NoForkInChain
<1>3. ASSUME NEW r \in in.receipts, NEW s \in in.receipts,
             r.event = s.event, r.previous = s.previous
      PROVE  r = s
  <2> DEFINE chain == ReceiptsOf(in.receipts, r.event)
  <2>1. r \in chain /\ s \in chain  BY <1>3 DEF ReceiptsOf
  <2>2. Numbered(chain) /\ Contiguous(chain)  BY ReplayChains
  <2> HIDE DEF chain
  <2> QED BY <1>3, <2>1, <2>2, NoForkInChain
<1>4. \A e \in in.events : \E r \in in.receipts : r.event = e
  BY DEF ReplayGraphOK, ReceiptChainsOK, ReceiptsOf
<1>5. \A r \in in.receipts : r.event \in in.events
  BY ReplayChains
<1>6. ASSUME NEW i \in DOMAIN in.leaves, NEW j \in DOMAIN in.leaves,
             in.leaves[i] = in.leaves[j]
      PROVE  i = j
  BY <1>6 DEF ReplayGraphOK, LogPrefixOK, SameEntry
<1>7. ~ Forked(in.leaves)
  BY <1>1, <1>2, <1>3 DEF Forked
<1>8. ~ Incomplete(in.leaves)
  BY <1>1, <1>4, <1>5, <1>6 DEF Incomplete
<1> QED BY <1>7, <1>8

\* The event of a nullifier with the largest sequence is the one that nothing in the log
\* links back to.
LEMMA LatestEventIsTip ==
  ASSUME NEW in, Material(in), ReplayGraphOK(in), NEW e \in in.events
  PROVE  IsLatestEvent(in.events, e) <=> IsTip(e, in.events)
<1> DEFINE chain == ChainOf(in.events, e.nullifier)
<1>1. e \in chain  BY DEF ChainOf
<1>2. Numbered(chain) /\ Contiguous(chain)  BY ReplayChains
<1>3. IsLatestEvent(in.events, e) <=> \A f \in chain : f.sequence <= e.sequence
  BY DEF IsLatestEvent, ChainOf
<1>4. IsTip(e, in.events) <=> IsTip(e, chain)
  BY ReplayChains DEF IsTip, ChainOf
<1> HIDE DEF chain
<1> QED BY <1>1, <1>2, <1>3, <1>4, LargestIsTip

\* The votes that replayTallyV3 accepts are the counted chain tips of the log prefix: a
\* function of the prefix alone, so two auditors with one head have one tally.
THEOREM ReplaySelectsTips ==
  ASSUME NEW in, Material(in), ReplayGraphOK(in)
  PROVE  AcceptedDirectVotes(in) = TipVotes(in.leaves)
<1>1. /\ in.events = LoggedEvents(in.leaves)
      /\ in.receipts = LoggedReceipts(in.leaves)
  BY ReplayCoversLog
<1>2. \A e \in in.events : IsLatestEvent(in.events, e) <=> IsTip(e, in.events)
  BY LatestEventIsTip
<1>3. ASSUME NEW r \in in.receipts
      PROVE  IsLatestReceipt(in.receipts, r) <=> IsTip(r, in.receipts)
  <2> DEFINE chain == ReceiptsOf(in.receipts, r.event)
  <2>1. r \in chain  BY DEF ReceiptsOf
  <2>2. Numbered(chain) /\ Contiguous(chain)  BY ReplayChains
  <2>3. IsLatestReceipt(in.receipts, r) <=> \A s \in chain : s.sequence <= r.sequence
    BY DEF IsLatestReceipt, ReceiptsOf
  <2>4. IsTip(r, in.receipts) <=> IsTip(r, chain)
    BY ReplayChains DEF IsTip, ReceiptsOf
  <2> HIDE DEF chain
  <2> QED BY <2>1, <2>2, <2>3, <2>4, LargestIsTip
<1>4. ASSUME NEW e \in in.events, e.choice \in CountedChoices
      PROVE  e.eventType \in CountedEventTypes
  <2>1. WellFormedEvent(e) /\ e.choice # Null
    BY <1>4, ArtifactsAssumption DEF Material
  <2> QED BY <2>1 DEF WellFormedEvent, EventTypes, CountedEventTypes
<1>5. ASSUME NEW v \in [event : in.events, decision : in.receipts]
      PROVE  (/\ IsLatestEvent(in.events, v.event)
              /\ v.decision.event = v.event
              /\ IsLatestReceipt(in.receipts, v.decision)
              /\ v.decision.status = CountedDecision
              /\ v.event.eventType \in CountedEventTypes
              /\ v.event.choice \in CountedChoices)
             <=>
             (/\ v.decision.event = v.event
              /\ IsTip(v.event, in.events)
              /\ IsTip(v.decision, in.receipts)
              /\ v.decision.status = "counted"
              /\ v.event.choice \in CountedChoices)
  <2>1. v.event \in in.events /\ v.decision \in in.receipts
    OBVIOUS
  <2> QED BY <2>1, <1>2, <1>3, <1>4 DEF CountedDecision
<1> QED BY <1>1, <1>5 DEF AcceptedDirectVotes, TipVotes

-------------------------------------------------------------------------------
(* The log.                                                                       *)

\* What a verifier is offered is material of known artifacts for the head of its size.
LEMMA OfferForm ==
  ASSUME leaves \in Seq(Leaves), NEW n \in 0..Len(leaves), NEW seal,
         NEW in \in Offers(n, seal)
  PROVE  Material(in) /\ in.head = HeadAt(n, seal)
<1> DEFINE log == Prefix(n)
           E == LoggedEvents(log)
           R == LoggedReceipts(log)
<1>1. log \in Seq(Leaves) /\ Prefix(n - 1) \in Seq(Leaves)
  BY SubSeqProperties DEF Prefix
<1>2. E \subseteq Events /\ R \subseteq Receipts
  BY DEF LoggedEvents, LoggedReceipts
<1>3. \A X \in Near(E, Events) : X \subseteq Events
  BY <1>2 DEF Near
<1>4. \A X \in Near(R, Receipts) : X \subseteq Receipts
  BY <1>2 DEF Near
<1>5. \/ \E X \in Near(E, Events) : in = InputSet(HeadAt(n, seal), HeadAt(n, seal), X, R, log)
      \/ \E X \in Near(R, Receipts) : in = InputSet(HeadAt(n, seal), HeadAt(n, seal), E, X, log)
      \/ \E c \in {HeadAt(n, seal), HeadAt(n - 1, seal)} :
           in = InputSet(HeadAt(n, seal), c, E, R, Prefix(n - 1))
  BY DEF Offers
<1> HIDE DEF log, E, R
<1> QED BY <1>1, <1>2, <1>3, <1>4, <1>5 DEF InputSet, Material

\* Appending leaves the prefixes of the log as they are.
LEMMA PrefixKept ==
  ASSUME leaves \in Seq(Leaves), NEW n \in 0..Len(leaves),
         \/ leaves' = leaves
         \/ \E leaf \in Leaves : leaves' = Append(leaves, leaf)
  PROVE  Prefix(n)' = Prefix(n)
<1>1. CASE leaves' = leaves
  BY <1>1 DEF Prefix
<1>2. ASSUME NEW leaf \in Leaves, leaves' = Append(leaves, leaf)
      PROVE  Prefix(n)' = Prefix(n)
  <2>1. /\ Append(leaves, leaf) \in Seq(Leaves)
        /\ Len(Append(leaves, leaf)) = Len(leaves) + 1
        /\ \A i \in 1..Len(leaves) : Append(leaves, leaf)[i] = leaves[i]
    BY AppendProperties
  <2>2. SubSeq(Append(leaves, leaf), 1, n) = SubSeq(leaves, 1, n)
    BY <2>1
  <2> QED BY <1>2, <2>2 DEF Prefix
<1> QED BY <1>1, <1>2

\* What was logged stays logged in every longer prefix.
LEMMA LoggedGrows ==
  ASSUME leaves \in Seq(Leaves), NEW m \in 0..Len(leaves), NEW n \in 0..Len(leaves),
         m <= n
  PROVE  LoggedEvents(Prefix(m)) \subseteq LoggedEvents(Prefix(n))
<1>1. /\ DOMAIN Prefix(m) = 1..m /\ DOMAIN Prefix(n) = 1..n
      /\ \A i \in 1..m : Prefix(m)[i] = leaves[i]
      /\ \A i \in 1..n : Prefix(n)[i] = leaves[i]
  BY DEF Prefix
<1>2. ASSUME NEW e \in LoggedEvents(Prefix(m))
      PROVE  e \in LoggedEvents(Prefix(n))
  <2>1. PICK i \in 1..m : Prefix(m)[i] = EventLeaf(e)
    BY <1>1 DEF LoggedEvents
  <2>2. i \in 1..n /\ Prefix(n)[i] = EventLeaf(e)
    BY <1>1, <2>1
  <2> QED BY <1>1, <2>2 DEF LoggedEvents
<1> QED BY <1>2

\* A tip of a longer prefix was not superseded in a shorter one.
LEMMA TipsAreNotSuperseded ==
  ASSUME leaves \in Seq(Leaves), NEW m \in 0..Len(leaves), NEW n \in 0..Len(leaves),
         m <= n, NEW v \in TipVotes(Prefix(n))
  PROVE  v.event \notin Superseded(Prefix(m))
<1>1. IsTip(v.event, LoggedEvents(Prefix(n)))
  BY DEF TipVotes
<1>2. IsTip(v.event, LoggedEvents(Prefix(m)))
  BY <1>1, LoggedGrows DEF IsTip
<1> QED BY <1>2 DEF Superseded
===============================================================================
