------------------------ MODULE BallotRequests_proofs ------------------------
(* Proofs about the way from the shown ballot to the counted choice, for any     *)
(* ballots, revisions and translations and any number of voters and requests:    *)
(* a counted vote was shown the ballot of the tally, of every voter the vote     *)
(* logged last counts, and translations of one ballot are tallied together.      *)
(* The inductive invariant says that a verified request continues a vote of its  *)
(* voter that is in the log, that each leaf stems from one request and comes     *)
(* after the vote it continues, that the tally is a replay of a prefix of the    *)
(* log, and that manifests were built of drafts.                                 *)
EXTENDS
  BallotRequests, FiniteSetTheorems, SequenceTheorems, WellFoundedInduction, TLAPS

-------------------------------------------------------------------------------
(* The inductive invariant.                                                      *)

SequencesOK == requests \in Seq(Elements(requests)) /\ leaves \in Seq(Elements(leaves))

VoteAt(log, j) == log[j].entryType = "vote_event"

RequestOK(request, log) ==
  /\ RequestVerifies(request)
  /\ request.intent.sequence # 1 => request.intent.previous \in LoggedEvents(log)

RequestsOK == \A i \in DOMAIN requests : RequestOK(requests[i], leaves)

\* The leaf of a signed event: the event is of this request, and what it continues was
\* logged before it.
VoteLeafOK(log, j, e) ==
  /\ log[j].entryType = "vote_event" /\ log[j].entryId = e.eventId /\ log[j].payload = e
  /\ e.sequence \in Nat \ {0} /\ e.eventType \in {"cast", "replace", "withdraw"}
  /\ e.nullifier \in Voters
  /\ e.sequence # 1 => \E k \in 1..(j - 1) : VoteAt(log, k) /\ log[k].payload = e.previous

DecisionLeafOK(log, j, e) ==
  log[j].entryType = "vote_adjudication" /\ log[j].payload = Acceptance(e)

LeavesOK ==
  \A j \in DOMAIN leaves : \E i \in DOMAIN requests :
    VoteLeafOK(leaves, j, VoteEvent(i)) \/ DecisionLeafOK(leaves, j, VoteEvent(i))

TallyOK ==
  tally # NoTally =>
    /\ tally.size \in 0..Len(leaves)
    /\ \E published \in SUBSET manifests :
         Replays(tally.selected, published, SubSeq(leaves, 1, tally.size))
    /\ tally.votes = Replay(tally.selected)!AcceptedDirectVotes(
                       InputSet(tally.selected, SubSeq(leaves, 1, tally.size)))

IInv == SequencesOK /\ RequestsOK /\ LeavesOK /\ TallyOK

-------------------------------------------------------------------------------
(* Sequences and what is logged.                                                 *)

\* A request, or a leaf pair, is added at the end and leaves the others in their places.
LEMMA AppendGrows ==
  ASSUME NEW s, s \in Seq(Elements(s)), NEW x
  PROVE  /\ Append(s, x) \in Seq(Elements(Append(s, x)))
         /\ Len(Append(s, x)) = Len(s) + 1 /\ Len(s) \in Nat
         /\ \A i \in 1..Len(s) : Append(s, x)[i] = s[i]
         /\ Append(s, x)[Len(s) + 1] = x
<1> DEFINE S == Elements(s) \cup {x}
           t == Append(s, x)
<1>1. s \in Seq(S)
  BY SeqMonotonic
<1>2. x \in S
  OBVIOUS
<1>3. /\ t \in Seq(S) /\ Len(t) = Len(s) + 1 /\ Len(s) \in Nat
      /\ \A i \in 1..Len(s) : t[i] = s[i]
      /\ t[Len(s) + 1] = x
  <2> HIDE DEF S
  <2> QED BY <1>1, <1>2, AppendProperties, LenProperties
<1>4. t \in Seq(Elements(t))
  <2> HIDE DEF S, t
  <2> QED BY <1>3 DEF Elements
<1> QED BY <1>3, <1>4

LEMMA PairGrows ==
  ASSUME NEW s, s \in Seq(Elements(s)), NEW x, NEW y
  PROVE  LET t == s \o <<x, y>> IN
         /\ t \in Seq(Elements(t))
         /\ Len(t) = Len(s) + 2 /\ Len(s) \in Nat
         /\ \A i \in 1..Len(s) : t[i] = s[i]
         /\ t[Len(s) + 1] = x /\ t[Len(s) + 2] = y
<1> DEFINE S == Elements(s) \cup {x, y}
           t == s \o <<x, y>>
<1>1. s \in Seq(S) /\ <<x, y>> \in Seq(S)
  BY SeqMonotonic
<1>2. /\ t \in Seq(S) /\ Len(t) = Len(s) + 2 /\ Len(s) \in Nat
      /\ \A i \in 1..Len(s) : t[i] = s[i]
      /\ t[Len(s) + 1] = x /\ t[Len(s) + 2] = y
  <2> HIDE DEF S
  <2> QED BY <1>1, ConcatProperties, LenProperties
<1>3. t \in Seq(Elements(t))
  <2> HIDE DEF S, t
  <2> QED BY <1>2 DEF Elements
<1> QED BY <1>2, <1>3

\* A logged event has a leaf.
LEMMA LoggedAt ==
  ASSUME NEW log, NEW e
  PROVE  e \in LoggedEvents(log) <=>
           \E j \in DOMAIN log : VoteAt(log, j) /\ log[j].payload = e
BY DEF LoggedEvents, Payloads, Elements, VoteAt

\* The leaves that LogVote appends.
LEMMA LeafForms ==
  ASSUME NEW m, NEW e
  PROVE  /\ Replay(m)!EventLeaf(e).entryType = "vote_event"
         /\ Replay(m)!EventLeaf(e).entryId = e.eventId
         /\ Replay(m)!EventLeaf(e).payload = e
         /\ Replay(m)!ReceiptLeaf(e).entryType = "vote_adjudication"
         /\ Replay(m)!ReceiptLeaf(e).payload = e
BY DEF Replay!EventLeaf, Replay!ReceiptLeaf

-------------------------------------------------------------------------------
(* IInv is inductive.                                                            *)

LEMMA Initially == Init => IInv
<1> SUFFICES ASSUME Init PROVE IInv
  OBVIOUS
<1>1. requests = <<>> /\ leaves = <<>> /\ tally = NoTally
  BY DEF Init
<1> QED BY <1>1 DEF IInv, SequencesOK, RequestsOK, LeavesOK, TallyOK

\* Publishing a manifest and verifying a tally leave requests and log alone.
LEMMA PublishStep == IInv /\ Publish => IInv'
<1> SUFFICES ASSUME IInv, Publish PROVE IInv'
  OBVIOUS
<1>1. /\ requests' = requests /\ leaves' = leaves /\ tally' = tally
      /\ manifests \subseteq manifests'
  BY DEF Publish
<1>2. SequencesOK' /\ RequestsOK'
  BY <1>1 DEF IInv, SequencesOK, RequestsOK
<1>3. LeavesOK'
  BY <1>1 DEF IInv, LeavesOK, VoteEvent
<1>4. TallyOK'
  BY <1>1 DEF IInv, TallyOK
<1> QED BY <1>2, <1>3, <1>4 DEF IInv

LEMMA VerifyStep == IInv /\ VerifyTally => IInv'
<1> SUFFICES ASSUME IInv, VerifyTally PROVE IInv'
  OBVIOUS
<1>1. /\ requests' = requests /\ leaves' = leaves /\ manifests' = manifests
  BY DEF VerifyTally
<1>2. SequencesOK' /\ RequestsOK'
  BY <1>1 DEF IInv, SequencesOK, RequestsOK
<1>3. LeavesOK'
  BY <1>1 DEF IInv, LeavesOK, VoteEvent
<1>4. PICK selected \in manifests, published \in SUBSET manifests, n \in 0..Len(leaves) :
        /\ Replays(selected, published, SubSeq(leaves, 1, n))
        /\ tally' = [selected |-> selected, size |-> n,
                     votes |-> Replay(selected)!AcceptedDirectVotes(
                                 InputSet(selected, SubSeq(leaves, 1, n)))]
  BY DEF VerifyTally
<1>5. TallyOK'
  BY <1>1, <1>4 DEF TallyOK
<1> QED BY <1>2, <1>3, <1>5 DEF IInv

LEMMA PrepareStep == IInv /\ PrepareRequest => IInv'
<1> SUFFICES ASSUME IInv, PrepareRequest PROVE IInv'
  OBVIOUS
<1>1. PICK voter \in Voters, locale \in Locales, m \in manifests, n \in manifests :
        \E eventType \in {"cast", "replace", "withdraw"},
           choice \in Elements(Ids(n.meaning)),
           base \in {Null} \cup {e \in LoggedEvents(leaves) : e.nullifier = voter},
           binding \in {m.binding, n.binding} :
          LET request == [voter |-> voter, locale |-> locale, manifest |-> m,
                          intent |-> Intent(eventType, n, binding, choice, base)]
          IN  RequestVerifies(request) /\ requests' = Append(requests, request)
  BY DEF PrepareRequest
<1>2. PICK eventType \in {"cast", "replace", "withdraw"},
           choice \in Elements(Ids(n.meaning)),
           base \in {Null} \cup {e \in LoggedEvents(leaves) : e.nullifier = voter},
           binding \in {m.binding, n.binding} :
          LET request == [voter |-> voter, locale |-> locale, manifest |-> m,
                          intent |-> Intent(eventType, n, binding, choice, base)]
          IN  RequestVerifies(request) /\ requests' = Append(requests, request)
  BY <1>1
<1> DEFINE request == [voter |-> voter, locale |-> locale, manifest |-> m,
                       intent |-> Intent(eventType, n, binding, choice, base)]
<1>3. manifests' = manifests /\ leaves' = leaves /\ tally' = tally
  BY DEF PrepareRequest
<1>4. RequestOK(request, leaves)
  <2>1. request.intent.sequence # 1 => base # Null
    BY DEF Intent
  <2>2. request.intent.previous = base
    BY DEF Intent
  <2> QED BY <1>2, <2>1, <2>2 DEF RequestOK
<1>5. /\ requests' \in Seq(Elements(requests')) /\ Len(requests') = Len(requests) + 1
      /\ Len(requests) \in Nat
      /\ \A i \in 1..Len(requests) : requests'[i] = requests[i]
      /\ requests'[Len(requests) + 1] = request
  <2> HIDE DEF request
  <2> QED BY <1>2, AppendGrows DEF IInv, SequencesOK, request
<1> HIDE DEF request
<1>6. /\ DOMAIN requests = 1..Len(requests)
      /\ DOMAIN requests' = 1..(Len(requests) + 1)
  BY <1>5 DEF IInv, SequencesOK
<1>7. SequencesOK'
  BY <1>3, <1>5 DEF IInv, SequencesOK
<1>8. RequestsOK'
  BY <1>3, <1>4, <1>5, <1>6 DEF IInv, RequestsOK
<1>9. \A i \in DOMAIN requests : i \in DOMAIN requests' /\ VoteEvent(i)' = VoteEvent(i)
  BY <1>5, <1>6 DEF VoteEvent
<1>10. LeavesOK'
  BY <1>3, <1>9 DEF IInv, LeavesOK
<1>11. TallyOK'
  BY <1>3 DEF IInv, TallyOK
<1> QED BY <1>7, <1>8, <1>10, <1>11 DEF IInv

LEMMA LogStep == IInv /\ LogVote => IInv'
<1> SUFFICES ASSUME IInv, LogVote PROVE IInv'
  OBVIOUS
<1>1. PICK i \in DOMAIN requests :
        LET e == VoteEvent(i)
        IN  /\ Replay(requests[i].manifest)!WellFormedEvent(e)
            /\ leaves' = leaves \o <<Replay(requests[i].manifest)!EventLeaf(e),
                                     Replay(requests[i].manifest)!ReceiptLeaf(Acceptance(e))>>
  BY DEF LogVote
<1> DEFINE e == VoteEvent(i)
           last == Len(leaves)
<1>2. requests' = requests /\ manifests' = manifests /\ tally' = tally
  BY DEF LogVote
<1>3. /\ e.sequence \in Nat \ {0} /\ e.eventType \in {"cast", "replace", "withdraw"}
      /\ e.nullifier \in Voters
  <2> HIDE DEF e
  <2> QED BY <1>1 DEF e, Replay!WellFormedEvent, Replay!EventTypes
<1>4. /\ leaves' \in Seq(Elements(leaves'))
      /\ Len(leaves') = last + 2 /\ last \in Nat
      /\ \A j \in 1..last : leaves'[j] = leaves[j]
      /\ VoteAt(leaves', last + 1) /\ leaves'[last + 1].entryId = e.eventId
      /\ leaves'[last + 1].payload = e
      /\ leaves'[last + 2].entryType = "vote_adjudication"
      /\ leaves'[last + 2].payload = Acceptance(e)
  <2> DEFINE x == Replay(requests[i].manifest)!EventLeaf(e)
             y == Replay(requests[i].manifest)!ReceiptLeaf(Acceptance(e))
  <2>1. /\ x.entryType = "vote_event" /\ x.entryId = e.eventId /\ x.payload = e
        /\ y.entryType = "vote_adjudication" /\ y.payload = Acceptance(e)
    <3> HIDE DEF e
    <3> QED BY LeafForms
  <2>2. leaves' = leaves \o <<x, y>> /\ leaves \in Seq(Elements(leaves))
    BY <1>1 DEF IInv, SequencesOK
  <2> HIDE DEF e, x, y
  <2> QED BY <2>1, <2>2, PairGrows DEF VoteAt
<1>5. DOMAIN leaves = 1..last /\ DOMAIN leaves' = 1..(last + 2)
  BY <1>4 DEF IInv, SequencesOK
<1>6. LoggedEvents(leaves) \subseteq LoggedEvents(leaves')
  <2>1. ASSUME NEW f \in LoggedEvents(leaves)
        PROVE  f \in LoggedEvents(leaves')
    <3>1. PICK j \in DOMAIN leaves : VoteAt(leaves, j) /\ leaves[j].payload = f
      BY LoggedAt
    <3>2. j \in DOMAIN leaves' /\ VoteAt(leaves', j) /\ leaves'[j].payload = f
      BY <1>4, <1>5, <3>1 DEF VoteAt
    <3> QED BY <3>2, LoggedAt
  <2> QED BY <2>1
<1>7. SequencesOK'
  BY <1>2, <1>4 DEF IInv, SequencesOK
<1>8. RequestsOK'
  BY <1>2, <1>6 DEF IInv, RequestsOK, RequestOK
<1>9. VoteLeafOK(leaves', last + 1, e)
  <2>1. ASSUME e.sequence # 1
        PROVE  \E k \in 1..last : VoteAt(leaves', k) /\ leaves'[k].payload = e.previous
    <3>1. e.sequence = requests[i].intent.sequence
          /\ e.previous = requests[i].intent.previous
      BY DEF VoteEvent
    <3>2. e.previous \in LoggedEvents(leaves)
      <4> HIDE DEF e
      <4> QED BY <2>1, <3>1 DEF IInv, RequestsOK, RequestOK
    <3>3. PICK k \in DOMAIN leaves : VoteAt(leaves, k) /\ leaves[k].payload = e.previous
      <4> HIDE DEF e
      <4> QED BY <3>2, LoggedAt
    <3> HIDE DEF e
    <3> QED BY <1>4, <1>5, <3>3 DEF VoteAt
  <2>2. (last + 1) - 1 = last
    BY <1>4
  <2> HIDE DEF e, last
  <2> QED BY <1>3, <1>4, <2>1, <2>2 DEF VoteLeafOK, VoteAt
<1>10. ASSUME NEW j \in DOMAIN leaves, NEW f, VoteLeafOK(leaves, j, f)
       PROVE  VoteLeafOK(leaves', j, f)
  <2>1. leaves'[j] = leaves[j] /\ \A k \in 1..(j - 1) : leaves'[k] = leaves[k]
    BY <1>4, <1>5
  <2> QED BY <1>10, <2>1 DEF VoteLeafOK, VoteAt
<1>11. ASSUME NEW j \in DOMAIN leaves, NEW f, DecisionLeafOK(leaves, j, f)
       PROVE  DecisionLeafOK(leaves', j, f)
  BY <1>4, <1>5, <1>11 DEF DecisionLeafOK
<1>12. DecisionLeafOK(leaves', last + 2, e)
  <2> HIDE DEF e
  <2> QED BY <1>4 DEF DecisionLeafOK
<1>13. \A h \in DOMAIN requests : VoteEvent(h)' = VoteEvent(h)
  BY <1>2 DEF VoteEvent
<1>14. LeavesOK'
  <2>1. ASSUME NEW j \in DOMAIN leaves'
        PROVE  \E h \in DOMAIN requests : \/ VoteLeafOK(leaves', j, VoteEvent(h))
                                          \/ DecisionLeafOK(leaves', j, VoteEvent(h))
    <3>1. CASE j \in DOMAIN leaves
      <4>1. PICK h \in DOMAIN requests : \/ VoteLeafOK(leaves, j, VoteEvent(h))
                                         \/ DecisionLeafOK(leaves, j, VoteEvent(h))
        BY <3>1 DEF IInv, LeavesOK
      <4> QED BY <3>1, <4>1, <1>10, <1>11
    <3>2. CASE j = last + 1
      BY <3>2, <1>9
    <3>3. CASE j = last + 2
      BY <3>3, <1>12
    <3> QED BY <1>4, <1>5, <3>1, <3>2, <3>3
  <2> QED BY <2>1, <1>2, <1>13 DEF LeavesOK
<1>15. TallyOK'
  <2>1. SUFFICES ASSUME tally # NoTally PROVE TallyOK'
    BY <1>2 DEF TallyOK
  <2>2. tally.size \in 0..last
    BY <2>1 DEF IInv, TallyOK
  <2>3. SubSeq(leaves', 1, tally.size) = SubSeq(leaves, 1, tally.size)
    BY <1>4, <2>2 DEF IInv, SequencesOK
  <2>4. tally.size \in 0..Len(leaves')
    BY <1>4, <2>2
  <2> QED BY <1>2, <2>1, <2>3, <2>4 DEF IInv, TallyOK
<1> QED BY <1>7, <1>8, <1>14, <1>15 DEF IInv

LEMMA StutterStep == IInv /\ UNCHANGED vars => IInv'
<1> SUFFICES ASSUME IInv, UNCHANGED vars PROVE IInv'
  OBVIOUS
<1>1. /\ requests' = requests /\ leaves' = leaves /\ tally' = tally
      /\ manifests' = manifests
  BY DEF vars
<1> QED BY <1>1 DEF IInv, SequencesOK, RequestsOK, LeavesOK, TallyOK, VoteEvent

\* The inductive invariant holds in every state that publisher, services, issuer and log
\* can reach.
THEOREM Invariant == Spec => []IInv
<1>1. IInv /\ [Next]_vars => IInv'
  BY PublishStep, PrepareStep, LogStep, VerifyStep, StutterStep DEF Next
<1> QED BY Initially, <1>1, PTL DEF Spec

-------------------------------------------------------------------------------
(* A replay of a prefix of the log.                                              *)

LEMMA PrefixAt ==
  ASSUME IInv, NEW n \in 0..Len(leaves)
  PROVE  /\ DOMAIN SubSeq(leaves, 1, n) = 1..n /\ 1..n \subseteq DOMAIN leaves
         /\ \A j \in 1..n : SubSeq(leaves, 1, n)[j] = leaves[j]
BY DEF IInv, SequencesOK

\* A vote leaf holds the event of one request and names it.
LEMMA VoteLeaf ==
  ASSUME IInv, NEW j \in DOMAIN leaves, VoteAt(leaves, j)
  PROVE  \E i \in DOMAIN requests : /\ leaves[j].payload = VoteEvent(i)
                                    /\ VoteLeafOK(leaves, j, leaves[j].payload)
<1>1. PICK i \in DOMAIN requests : \/ VoteLeafOK(leaves, j, VoteEvent(i))
                                   \/ DecisionLeafOK(leaves, j, VoteEvent(i))
  BY DEF IInv, LeavesOK
<1>2. ~ DecisionLeafOK(leaves, j, VoteEvent(i))
  BY DEF VoteAt, DecisionLeafOK
<1>3. leaves[j].payload = VoteEvent(i)
  BY <1>1, <1>2 DEF VoteLeafOK
<1> QED BY <1>1, <1>2, <1>3

LEMMA LoggedInPrefix ==
  ASSUME IInv, NEW n \in 0..Len(leaves), NEW e
  PROVE  e \in LoggedEvents(SubSeq(leaves, 1, n)) <=>
           \E j \in 1..n : VoteAt(leaves, j) /\ leaves[j].payload = e
<1> DEFINE log == SubSeq(leaves, 1, n)
<1>1. DOMAIN log = 1..n /\ \A j \in 1..n : log[j] = leaves[j]
  BY PrefixAt
<1> HIDE DEF log
<1>2. e \in LoggedEvents(log) <=> \E j \in 1..n : VoteAt(log, j) /\ log[j].payload = e
  BY <1>1, LoggedAt
<1> QED BY <1>1, <1>2 DEF VoteAt, log

\* What the tally asks of a prefix, as far as the proofs need it.
LEMMA ReplayAsks ==
  ASSUME NEW selected, NEW published, NEW log, Replays(selected, published, log)
  PROVE  /\ ManifestsOK(selected, published)
         /\ EventManifestsOK(LoggedEvents(log), published)
         /\ \A voter \in Voters :
              Replay(selected)!Contiguous({e \in LoggedEvents(log) : e.nullifier = voter})
         /\ \A e \in LoggedEvents(log) :
              \E r \in Payloads(log, "vote_adjudication") : r.event = e
         /\ \A j, k \in DOMAIN log :
              log[j].entryType = log[k].entryType /\ log[j].entryId = log[k].entryId => j = k
<1> DEFINE in == InputSet(selected, log)
<1>1. /\ in.events = LoggedEvents(log) /\ in.leaves = log
      /\ in.receipts = Payloads(log, "vote_adjudication")
  BY DEF InputSet
<1>2. /\ ManifestsOK(selected, published)
      /\ EventManifestsOK(LoggedEvents(log), published)
      /\ Replay(selected)!ReplayGraphOK(in)
  BY DEF Replays
<1> HIDE DEF in
<1>3. /\ Replay(selected)!VoteChainsOK(in) /\ Replay(selected)!ReceiptChainsOK(in)
      /\ Replay(selected)!LogPrefixOK(in)
  BY <1>2 DEF Replay!ReplayGraphOK
<1>4. \A voter \in Voters :
        Replay(selected)!Contiguous({e \in LoggedEvents(log) : e.nullifier = voter})
  BY <1>1, <1>3 DEF Replay!VoteChainsOK, Replay!ChainOf
<1>5. \A e \in LoggedEvents(log) :
        \E r \in Payloads(log, "vote_adjudication") : r.event = e
  BY <1>1, <1>3 DEF Replay!ReceiptChainsOK, Replay!ReceiptsOf
<1>6. \A j, k \in DOMAIN log :
        log[j].entryType = log[k].entryType /\ log[j].entryId = log[k].entryId => j = k
  BY <1>1, <1>3 DEF Replay!LogPrefixOK, Replay!SameEntry
<1> QED BY <1>2, <1>4, <1>5, <1>6

\* Every non-empty set of natural numbers has a least element.
LEMMA LeastNat ==
  ASSUME NEW T, T \subseteq Nat, T # {}
  PROVE  \E m \in T : \A k \in T : m <= k
<1> DEFINE R == {ss \in Nat \X Nat : ss[1] < ss[2]}
<1>1. IsWellFoundedOn(R, Nat)
  BY NatLessThanWellFounded DEF OpToRel
<1>2. PICK m \in T : \A k \in T : <<k, m>> \notin R
  <2> HIDE DEF R
  <2> QED BY <1>1, WFMin
<1>3. ASSUME NEW k \in T
      PROVE  m <= k
  <2>1. <<k, m>> \notin R /\ k \in Nat /\ m \in Nat  BY <1>2
  <2> QED BY <2>1
<1> QED BY <1>2, <1>3

LEMMA LastPlace ==
  ASSUME NEW n \in Nat, NEW T \in SUBSET (1..n), T # {}
  PROVE  \E j \in T : \A k \in T : k <= j
<1> DEFINE Back == {n - k : k \in T}
<1>1. Back \subseteq Nat /\ Back # {}
  <2>1. \A k \in T : n - k \in Nat
    OBVIOUS
  <2> QED BY <2>1
<1>2. PICK b \in Back : \A c \in Back : b <= c
  <2> HIDE DEF Back
  <2> QED BY <1>1, LeastNat
<1>3. PICK j \in T : b = n - j
  BY <1>2
<1>4. ASSUME NEW k \in T
      PROVE  k <= j
  <2>1. n - k \in Back  BY <1>4
  <2>2. n - j <= n - k  BY <2>1, <1>2, <1>3
  <2> QED BY <2>2
<1> QED BY <1>4

\* Between an entry of a contiguous chain and a later one is the entry that continues it.
LEMMA Successor ==
  ASSUME NEW m, NEW chain, Replay(m)!Contiguous(chain),
         \A x \in chain : x.sequence \in Nat \ {0},
         NEW x \in chain, NEW z \in chain, ~ (z.sequence <= x.sequence)
  PROVE  \E y \in chain : y.sequence # 1 /\ y.previous = x
<1> DEFINE Above == {y \in chain : y.sequence > x.sequence}
           Numbers == {y.sequence : y \in Above}
<1>1. Numbers \subseteq Nat /\ Numbers # {}
  OBVIOUS
<1>2. PICK least \in Numbers : \A k \in Numbers : least <= k
  <2> HIDE DEF Numbers
  <2> QED BY <1>1, LeastNat
<1>3. PICK y \in Above : y.sequence = least
  BY <1>2
<1>4. y.sequence # 1
  BY <1>3
<1>5. y.previous \in chain /\ y.previous.sequence = y.sequence - 1
  BY <1>3, <1>4 DEF Replay!Contiguous
<1>6. y.previous \notin Above
  <2>1. SUFFICES ASSUME y.previous \in Above PROVE FALSE
    OBVIOUS
  <2>2. y.previous.sequence \in Numbers  BY <2>1
  <2>3. y.sequence <= y.previous.sequence  BY <2>2, <1>2, <1>3
  <2> QED BY <2>3, <1>5, <1>3
<1>7. y.previous.sequence = x.sequence
  BY <1>3, <1>5, <1>6
<1>8. y.previous = x
  BY <1>5, <1>7 DEF Replay!Contiguous
<1> QED BY <1>3, <1>4, <1>8

\* The vote of a voter that was logged last up to n is the latest of the voter's chain,
\* although requests are prepared, signed and logged in any order.
LEMMA LastIsLatest ==
  ASSUME IInv, NEW n \in 0..Len(leaves), NEW selected, NEW published,
         Replays(selected, published, SubSeq(leaves, 1, n)),
         NEW voter \in Voters, NEW j \in VotesOf(voter, n),
         \A k \in VotesOf(voter, n) : k <= j
  PROVE  Replay(selected)!IsLatestEvent(LoggedEvents(SubSeq(leaves, 1, n)),
                                        leaves[j].payload)
<1> DEFINE log == SubSeq(leaves, 1, n)
           chain == {e \in LoggedEvents(log) : e.nullifier = voter}
           x == leaves[j].payload
<1>1. j \in 1..n /\ VoteAt(leaves, j) /\ x.nullifier = voter
  BY DEF VotesOf, VoteAt
<1>2. x \in chain
  BY <1>1, LoggedInPrefix
<1>3. /\ Replay(selected)!Contiguous(chain)
      /\ \A h, k \in DOMAIN log :
           log[h].entryType = log[k].entryType /\ log[h].entryId = log[k].entryId => h = k
  <2>1. Replays(selected, published, log)
    OBVIOUS
  <2> HIDE DEF log
  <2> QED BY <2>1, ReplayAsks
<1>4. \A y \in chain : \E k \in 1..n : /\ VoteAt(leaves, k) /\ leaves[k].payload = y
                                       /\ VoteLeafOK(leaves, k, y)
  BY LoggedInPrefix, VoteLeaf, PrefixAt
<1>5. \A y \in chain : y.sequence \in Nat \ {0}
  BY <1>4 DEF VoteLeafOK
<1>6. ASSUME NEW z \in chain, ~ (z.sequence <= x.sequence)
      PROVE  FALSE
  <2>1. PICK y \in chain : y.sequence # 1 /\ y.previous = x
    <3> HIDE DEF chain, x
    <3> QED BY <1>2, <1>3, <1>5, <1>6, Successor
  <2>2. PICK k \in 1..n : /\ VoteAt(leaves, k) /\ leaves[k].payload = y
                          /\ VoteLeafOK(leaves, k, y)
    BY <1>4
  <2>3. k \in VotesOf(voter, n)
    BY <2>2 DEF VotesOf, VoteAt
  <2>4. PICK h \in 1..(k - 1) : VoteAt(leaves, h) /\ leaves[h].payload = x
    BY <2>1, <2>2 DEF VoteLeafOK
  <2>5. h \in 1..n
    BY <2>2, <2>4
  <2>6. leaves[h].entryId = x.eventId /\ leaves[j].entryId = x.eventId
    <3>1. VoteLeafOK(leaves, h, leaves[h].payload)
      BY <2>4, <2>5, PrefixAt, VoteLeaf
    <3>2. VoteLeafOK(leaves, j, leaves[j].payload)
      BY <1>1, PrefixAt, VoteLeaf
    <3> QED BY <2>4, <3>1, <3>2 DEF VoteLeafOK
  <2>7. h = j
    <3>1. log[h] = leaves[h] /\ log[j] = leaves[j] /\ h \in DOMAIN log /\ j \in DOMAIN log
      BY <1>1, <2>5, PrefixAt
    <3>2. leaves[h].entryType = leaves[j].entryType
      BY <1>1, <2>4 DEF VoteAt
    <3> HIDE DEF log
    <3> QED BY <2>6, <3>1, <3>2, <1>3
  <2> QED BY <2>2, <2>3, <2>4, <2>7
<1>7. \A f \in LoggedEvents(log) : f.nullifier = x.nullifier => f \in chain
  BY <1>1
<1> HIDE DEF chain, x, log
<1> QED BY <1>6, <1>7 DEF Replay!IsLatestEvent, x, log

-------------------------------------------------------------------------------
(* What the invariant says of a verified tally.                                  *)

\* The ballot that a counted vote was shown on is the ballot of the tally: the issuer
\* checked that the voter saw all its choices in order and in the language of the session
\* (verifyVoteSigningRequestBatchV3), and the tally that all manifests of its votes mean
\* what the selected one means (validateReplayGraphV3).
THEOREM ShownOnTheBallotOfTheTally == Spec => []ShownIsCounted
<1>1. ASSUME IInv, tally # NoTally, NEW v \in tally.votes
      PROVE  LET shown == requests[v.event.eventId] IN
             /\ shown.manifest.meaning = tally.selected.meaning
             /\ Ids(shown.manifest.shown) = Ids(tally.selected.meaning)
             /\ shown.manifest.locale = shown.locale
  <2> DEFINE log == SubSeq(leaves, 1, tally.size)
  <2>1. PICK published \in SUBSET manifests : Replays(tally.selected, published, log)
    BY <1>1 DEF IInv, TallyOK
  <2>2. /\ tally.size \in 0..Len(leaves)
        /\ v \in Replay(tally.selected)!AcceptedDirectVotes(InputSet(tally.selected, log))
    BY <1>1 DEF IInv, TallyOK
  <2>3. v.event \in LoggedEvents(log)
    <3> HIDE DEF log
    <3> QED BY <2>2 DEF Replay!AcceptedDirectVotes, InputSet
  <2>4. PICK j \in 1..tally.size : VoteAt(leaves, j) /\ leaves[j].payload = v.event
    BY <1>1, <2>2, <2>3, LoggedInPrefix
  <2>5. PICK i \in DOMAIN requests : v.event = VoteEvent(i)
    BY <1>1, <2>2, <2>4, PrefixAt, VoteLeaf
  <2>6. v.event.eventId = i /\ v.event.manifest = requests[i].intent.manifest
    BY <2>5 DEF VoteEvent
  <2>7. /\ BallotWellFormed(requests[i].manifest)
        /\ requests[i].intent.manifest = requests[i].manifest
        /\ requests[i].manifest.locale = requests[i].locale
    BY <1>1 DEF IInv, RequestsOK, RequestOK, RequestVerifies, RequestLinked
  <2>8. v.event.manifest.meaning = tally.selected.meaning
    <3>1. /\ ManifestsOK(tally.selected, published)
          /\ EventManifestsOK(LoggedEvents(log), published)
      <4> HIDE DEF log
      <4> QED BY <2>1, ReplayAsks
    <3> QED BY <2>3, <3>1 DEF ManifestsOK, EventManifestsOK
  <2> QED BY <2>6, <2>7, <2>8 DEF BallotWellFormed
<1>2. IInv => ShownIsCounted
  BY <1>1 DEF ShownIsCounted
<1> QED BY <1>2, Invariant, PTL

\* The receipts of the log are the acceptances of its events.
LEMMA DecisionsCount ==
  ASSUME IInv, NEW n \in 0..Len(leaves),
         NEW r \in Payloads(SubSeq(leaves, 1, n), "vote_adjudication")
  PROVE  r.status = "counted" /\ r.sequence = 1
<1> DEFINE log == SubSeq(leaves, 1, n)
<1>1. PICK j \in DOMAIN log : log[j].entryType = "vote_adjudication" /\ log[j].payload = r
  <2> HIDE DEF log
  <2>1. r \in Payloads(log, "vote_adjudication")
    BY DEF log
  <2> QED BY <2>1 DEF Payloads, Elements
<1>2. j \in DOMAIN leaves /\ log[j] = leaves[j]
  BY PrefixAt
<1> HIDE DEF log
<1>3. PICK i \in DOMAIN requests : \/ VoteLeafOK(leaves, j, VoteEvent(i))
                                   \/ DecisionLeafOK(leaves, j, VoteEvent(i))
  BY <1>2 DEF IInv, LeavesOK
<1>4. r = Acceptance(VoteEvent(i))
  BY <1>1, <1>2, <1>3 DEF VoteLeafOK, DecisionLeafOK
<1> QED BY <1>4 DEF Acceptance

\* The vote that was logged last, if it names a choice, is among the accepted votes.
LEMMA LastWordAccepted ==
  ASSUME IInv, tally # NoTally, NEW voter \in Voters,
         NEW j \in VotesOf(voter, tally.size),
         \A k \in VotesOf(voter, tally.size) : k <= j,
         leaves[j].payload.eventType # "withdraw"
  PROVE  \E v \in tally.votes : v.event = leaves[j].payload
<1> DEFINE log == SubSeq(leaves, 1, tally.size)
           x == leaves[j].payload
           in == InputSet(tally.selected, log)
<1>1. /\ tally.size \in 0..Len(leaves)
      /\ tally.votes = Replay(tally.selected)!AcceptedDirectVotes(in)
  BY DEF IInv, TallyOK
<1>2. PICK published \in SUBSET manifests : Replays(tally.selected, published, log)
  BY DEF IInv, TallyOK
<1>3. j \in 1..tally.size /\ VoteAt(leaves, j)
  BY DEF VotesOf, VoteAt
<1>4. Replay(tally.selected)!IsLatestEvent(LoggedEvents(log), x)
  BY <1>1, <1>2, LastIsLatest
<1>5. x \in LoggedEvents(log)
  BY <1>1, <1>3, LoggedInPrefix
<1>6. PICK i \in DOMAIN requests : x = VoteEvent(i) /\ VoteLeafOK(leaves, j, x)
  BY <1>1, <1>3, PrefixAt, VoteLeaf
<1>7. x.eventType \in {"cast", "replace"}
  BY <1>6 DEF VoteLeafOK
<1>8. /\ ManifestsOK(tally.selected, published)
      /\ EventManifestsOK(LoggedEvents(log), published)
      /\ \E r \in Payloads(log, "vote_adjudication") : r.event = x
  <2> HIDE DEF log, x
  <2> QED BY <1>2, <1>5, ReplayAsks
<1>9. PICK r \in Payloads(log, "vote_adjudication") : r.event = x
  BY <1>8
<1>10. \A s \in Payloads(log, "vote_adjudication") : s.status = "counted" /\ s.sequence = 1
  BY <1>1, DecisionsCount
<1>11. x.choice \in {c.id : c \in {d \in Elements(tally.selected.meaning) : d.isCounted}}
  <2>1. /\ x.choice = requests[i].intent.choice
        /\ x.eventType = requests[i].intent.eventType
        /\ x.manifest = requests[i].intent.manifest
    BY <1>6 DEF VoteEvent
  <2>2. RequestLinked(requests[i])
    BY DEF IInv, RequestsOK, RequestOK, RequestVerifies
  <2>3. x.manifest.meaning = tally.selected.meaning
    BY <1>5, <1>8 DEF ManifestsOK, EventManifestsOK
  <2>4. x.manifest = requests[i].manifest
    BY <2>1, <2>2 DEF RequestLinked
  <2>5. PICK c \in Elements(requests[i].manifest.meaning) : c.id = x.choice /\ c.isCounted
    BY <2>1, <2>2, <1>7 DEF RequestLinked
  <2> HIDE DEF x
  <2> QED BY <2>3, <2>4, <2>5
<1>12. in.events = LoggedEvents(log) /\ in.receipts = Payloads(log, "vote_adjudication")
  BY DEF InputSet
<1> DEFINE vote == [event |-> x, decision |-> r]
<1>13. vote \in Replay(tally.selected)!AcceptedDirectVotes(in)
  <2>1. Replay(tally.selected)!IsLatestReceipt(in.receipts, r)
    BY <1>9, <1>10, <1>12 DEF Replay!IsLatestReceipt
  <2>2. r.status = "counted"
    BY <1>9, <1>10
  <2> HIDE DEF log, x, in
  <2> QED BY <1>4, <1>5, <1>7, <1>9, <1>11, <1>12, <2>1, <2>2
          DEF Replay!AcceptedDirectVotes, Replay!CountedDecision, Replay!CountedEventTypes
<1> QED BY <1>1, <1>13

\* An accepted vote is the one that its voter logged last, and no withdrawal.
LEMMA AcceptedIsLastWord ==
  ASSUME IInv, tally # NoTally, NEW voter \in Voters, NEW v \in tally.votes,
         v.event.nullifier = voter
  PROVE  \E j \in VotesOf(voter, tally.size) :
           /\ \A k \in VotesOf(voter, tally.size) : k <= j
           /\ leaves[j].payload = v.event
           /\ v.event.eventType # "withdraw"
<1> DEFINE log == SubSeq(leaves, 1, tally.size)
           in == InputSet(tally.selected, log)
           places == VotesOf(voter, tally.size)
<1>1. /\ tally.size \in 0..Len(leaves)
      /\ tally.votes = Replay(tally.selected)!AcceptedDirectVotes(in)
  BY DEF IInv, TallyOK
<1>2. PICK published \in SUBSET manifests : Replays(tally.selected, published, log)
  BY DEF IInv, TallyOK
<1>3. in.events = LoggedEvents(log)
  BY DEF InputSet
<1>4. /\ v.event \in LoggedEvents(log)
      /\ Replay(tally.selected)!IsLatestEvent(LoggedEvents(log), v.event)
      /\ v.event.eventType # "withdraw"
  <2> HIDE DEF log, in
  <2> QED BY <1>1, <1>3 DEF Replay!AcceptedDirectVotes, Replay!CountedEventTypes
<1>5. PICK i \in 1..tally.size : VoteAt(leaves, i) /\ leaves[i].payload = v.event
  BY <1>1, <1>4, LoggedInPrefix
<1>6. i \in places
  BY <1>5 DEF VotesOf, VoteAt
<1>7. PICK j \in places : \A k \in places : k <= j
  <2>1. places \in SUBSET (1..tally.size) /\ places # {} /\ tally.size \in Nat
    BY <1>1, <1>6 DEF VotesOf
  <2> HIDE DEF places
  <2> QED BY <2>1, LastPlace
<1> DEFINE x == leaves[j].payload
<1>8. /\ j \in 1..tally.size /\ VoteAt(leaves, j) /\ x.nullifier = voter
      /\ x \in LoggedEvents(log)
  <2>1. j \in 1..tally.size /\ VoteAt(leaves, j) /\ x.nullifier = voter
    BY <1>7 DEF VotesOf, VoteAt
  <2> QED BY <2>1, <1>1, LoggedInPrefix
<1>9. Replay(tally.selected)!IsLatestEvent(LoggedEvents(log), x)
  BY <1>1, <1>2, <1>7, LastIsLatest
<1>10. x.sequence \in Nat /\ v.event.sequence \in Nat
  <2>1. VoteLeafOK(leaves, j, x) /\ VoteLeafOK(leaves, i, v.event)
    BY <1>1, <1>5, <1>8, PrefixAt, VoteLeaf
  <2> QED BY <2>1 DEF VoteLeafOK
<1>11. x.sequence = v.event.sequence
  <2>1. v.event.sequence <= x.sequence /\ x.sequence <= v.event.sequence
    <3> HIDE DEF log, x
    <3> QED BY <1>4, <1>8, <1>9 DEF Replay!IsLatestEvent
  <2> QED BY <2>1, <1>10
<1>12. x = v.event
  <2>1. Replay(tally.selected)!Contiguous({e \in LoggedEvents(log) : e.nullifier = voter})
    <3> HIDE DEF log
    <3> QED BY <1>2, ReplayAsks
  <2> HIDE DEF log, x
  <2> QED BY <1>4, <1>8, <1>11, <2>1 DEF Replay!Contiguous
<1> QED BY <1>4, <1>7, <1>12

\* A verified tally counts of every voter the vote that was logged last, and nothing when
\* it was a withdrawal: requests may be prepared against any earlier vote and logged late,
\* again or in another order, and a prefix in which that left two votes side by side has
\* no tally.
THEOREM LastWordIsCounted == Spec => []LastWordCounts
<1>1. ASSUME IInv, tally # NoTally, NEW voter \in Voters
      PROVE  {v.event : v \in {w \in tally.votes : w.event.nullifier = voter}} =
               {leaves[i].payload : i \in
                  {j \in VotesOf(voter, tally.size) :
                     /\ \A k \in VotesOf(voter, tally.size) : k <= j
                     /\ leaves[j].payload.eventType # "withdraw"}}
  <2>1. ASSUME NEW v \in tally.votes, v.event.nullifier = voter
        PROVE  \E j \in VotesOf(voter, tally.size) :
                 /\ \A k \in VotesOf(voter, tally.size) : k <= j
                 /\ leaves[j].payload = v.event
                 /\ leaves[j].payload.eventType # "withdraw"
    BY <1>1, <2>1, AcceptedIsLastWord
  <2>2. ASSUME NEW j \in VotesOf(voter, tally.size),
               \A k \in VotesOf(voter, tally.size) : k <= j,
               leaves[j].payload.eventType # "withdraw"
        PROVE  \E v \in tally.votes : /\ v.event = leaves[j].payload
                                      /\ v.event.nullifier = voter
    <3>1. leaves[j].payload.nullifier = voter
      BY DEF VotesOf
    <3> QED BY <1>1, <2>2, <3>1, LastWordAccepted
  <2> QED BY <2>1, <2>2
<1>2. IInv => LastWordCounts
  BY <1>1 DEF LastWordCounts
<1> QED BY <1>2, Invariant, PTL
-------------------------------------------------------------------------------
(* Building a manifest.                                                          *)

\* A non-empty set of subsets of a finite set has a smallest one.
LEMMA SmallestSubset ==
  ASSUME NEW S, IsFiniteSet(S), NEW T, T \subseteq SUBSET S, T # {}
  PROVE  \E m \in T : \A t \in T : t \subseteq m => t = m
<1> DEFINE R == StrictSubsetOrdering(S)
           U == SUBSET S
<1>1. IsWellFoundedOn(R, U) /\ T \subseteq U /\ T # {}
  BY FS_StrictSubsetOrderingWellFounded, FS_FiniteSubsetsOfFinite
<1>2. PICK m \in T : \A t \in T : ~ (<<t, m>> \in R)
  <2> HIDE DEF R, U
  <2> QED BY <1>1, WFMin
<1> QED BY <1>2 DEF StrictSubsetOrdering

\* A strict total order, and a list in its order.
StrictOrder(R, S) ==
  \A x, y, z \in S :
    /\ <<x, x>> \notin R
    /\ <<x, y>> \in R /\ <<y, z>> \in R => <<x, z>> \in R
    /\ x # y => <<x, y>> \in R \/ <<y, x>> \in R

Sorts(order, R) ==
  \A i, j \in DOMAIN order :
    /\ order[i] = order[j] => i = j
    /\ <<order[i], order[j]>> \in R => i < j

\* What is strictly ordered and finite can be sorted.
LEMMA SortExists ==
  ASSUME NEW S, IsFiniteSet(S), NEW R, StrictOrder(R, S)
  PROVE  \E order \in [1..Cardinality(S) -> S] : Sorts(order, R)
<1> DEFINE Sortable(T) == \E order \in [1..Cardinality(T) -> T] : Sorts(order, R)
           Bad == {T \in SUBSET S : ~ Sortable(T)}
<1> SUFFICES ASSUME Bad # {} PROVE FALSE
  OBVIOUS
<1>2. PICK m \in Bad : \A t \in Bad : t \subseteq m => t = m
  <2>1. Bad \subseteq SUBSET S
    OBVIOUS
  <2> HIDE DEF Bad
  <2> QED BY <2>1, SmallestSubset
<1>3. m # {}
  <2>1. SUFFICES ASSUME m = {} PROVE FALSE
    OBVIOUS
  <2> DEFINE none == [i \in 1..0 |-> 0]
  <2>2. none \in [1..0 -> m] /\ Cardinality(m) = 0
    BY <2>1, FS_EmptySet
  <2>3. Sorts(none, R)
    BY DEF Sorts
  <2> HIDE DEF none
  <2> QED BY <1>2, <2>2, <2>3
<1>4. PICK x \in m : \A y \in m : <<x, y>> \notin R
  <2> DEFINE Above(y) == {z \in m : <<y, z>> \in R}
             All == {Above(y) : y \in m}
  <2>1. PICK least \in All : \A t \in All : t \subseteq least => t = least
    <3>1. All \subseteq SUBSET m
      <4>1. \A y \in m : Above(y) \in SUBSET m
        OBVIOUS
      <4> HIDE DEF Above
      <4> QED BY <4>1
    <3>2. All # {}
      BY <1>3
    <3>3. IsFiniteSet(m)
      BY <1>2, FS_Subset
    <3> HIDE DEF All
    <3> QED BY <3>1, <3>2, <3>3, SmallestSubset
  <2>2. PICK y \in m : least = Above(y)
    BY <2>1
  <2>3. ASSUME NEW z \in m, <<y, z>> \in R
        PROVE  FALSE
    <3>1. Above(z) \subseteq Above(y) /\ z \notin Above(z) /\ z \in Above(y)
      BY <1>2, <2>3 DEF StrictOrder
    <3> QED BY <2>1, <2>2, <2>3, <3>1
  <2> QED BY <2>3
<1> DEFINE r == m \ {x}
           n == Cardinality(m)
<1>5. n \in Nat \ {0} /\ Cardinality(r) = n - 1
  <2>1. IsFiniteSet(m)
    BY FS_Subset
  <2> QED BY <1>3, <2>1, FS_RemoveElement, FS_CardinalityType, FS_EmptySet
<1>6. r \in SUBSET S /\ r \notin Bad
  BY <1>2
<1>7. PICK s \in [1..(n - 1) -> r] : Sorts(s, R)
  <2>1. PICK s \in [1..Cardinality(r) -> r] : Sorts(s, R)
    BY <1>6
  <2> QED BY <2>1, <1>5
<1> DEFINE t == [i \in 1..n |-> IF i = n THEN x ELSE s[i]]
<1> HIDE DEF n
<1>8. \A i \in 1..(n - 1) : t[i] = s[i] /\ s[i] \in r /\ i \in 1..n /\ i < n
  BY <1>5, <1>7
<1>9. t[n] = x /\ n \in 1..n /\ \A i \in 1..n : i # n => i \in 1..(n - 1)
  BY <1>5
<1>10. t \in [1..n -> m]
  BY <1>8, <1>9
<1>11. Sorts(t, R)
  <2>1. ASSUME NEW i \in 1..n, NEW j \in 1..n
        PROVE  /\ t[i] = t[j] => i = j
               /\ <<t[i], t[j]>> \in R => i < j
    <3>1. CASE i # n /\ j # n
      BY <3>1, <1>7, <1>8, <1>9 DEF Sorts
    <3>2. CASE i = n
      <4>1. <<x, t[j]>> \notin R
        BY <1>4, <1>10
      <4> QED BY <3>2, <4>1, <1>8, <1>9
    <3>3. CASE i # n /\ j = n
      BY <3>3, <1>8, <1>9
    <3> QED BY <3>1, <3>2, <3>3
  <2>2. DOMAIN t = 1..n
    OBVIOUS
  <2> HIDE DEF t
  <2> QED BY <2>1, <2>2 DEF Sorts
<1>12. \E order \in [1..n -> m] : Sorts(order, R)
  <2> HIDE DEF t
  <2> QED BY <1>10, <1>11
<1> QED BY <1>2, <1>12 DEF n

\* A sequence without repetitions has as many elements as places.
LEMMA OneToOne ==
  ASSUME NEW s, NEW n \in Nat, DOMAIN s = 1..n, s = [i \in 1..n |-> s[i]],
         \A i, j \in 1..n : s[i] = s[j] => i = j
  PROVE  IsFiniteSet(Elements(s)) /\ Cardinality(Elements(s)) = n
<1> DEFINE E == Elements(s)
           I == 1..n
<1>1. s \in Bijection(I, E)
  BY DEF Elements, Bijection, Injection, Surjection, IsInjective
<1>2. IsFiniteSet(I) /\ Cardinality(I) = n
  <2>1. IsFiniteSet(1..n) /\ Cardinality(1..n) = IF 1 > n THEN 0 ELSE n - 1 + 1
    BY FS_Interval, 1 \in Int, n \in Int
  <2> QED BY <2>1
<1> HIDE DEF E, I
<1>3. IsFiniteSet(E) /\ Cardinality(E) = n
  <2>1. Cardinality(I) = Cardinality(E) /\ IsFiniteSet(E)
    BY <1>1, <1>2, FS_Bijection DEF ExistsBijection
  <2> QED BY <2>1, <1>2
<1> QED BY <1>3 DEF E

\* The comparison of the sort is a strict order of the choices of a draft.
LEMMA BeforeOrders ==
  ASSUME NEW draft \in Drafts
  PROVE  LET list == draft.choices IN
         \A i, j, k \in DOMAIN list :
           /\ ~ Before(list[i], list[i])
           /\ Before(list[i], list[j]) /\ Before(list[j], list[k]) => Before(list[i], list[k])
           /\ i # j => Before(list[i], list[j]) \/ Before(list[j], list[i])
<1> DEFINE list == draft.choices
<1>1. /\ \A i \in DOMAIN list : list[i].order \in Int /\ list[i].id \in Elements(IdOrder)
      /\ \A i, j \in DOMAIN list : list[i].id = list[j].id => i = j
      /\ IdOrder \in Seq(Elements(IdOrder))
  BY DraftsAssumption DEF Elements, Distinct, Ids
<1>2. \A i \in DOMAIN list : /\ Place(list[i].id) \in Int
                             /\ IdOrder[Place(list[i].id)] = list[i].id
  <2>1. DOMAIN IdOrder \subseteq Int
    BY <1>1
  <2> QED BY <1>1, <2>1 DEF Place, Elements
<1>3. \A i, j \in DOMAIN list : i # j => Place(list[i].id) # Place(list[j].id)
  BY <1>1, <1>2
<1> HIDE DEF list
<1>4. \A i, j, k \in DOMAIN list :
        /\ ~ Before(list[i], list[i])
        /\ Before(list[i], list[j]) /\ Before(list[j], list[k]) => Before(list[i], list[k])
        /\ i # j => Before(list[i], list[j]) \/ Before(list[j], list[i])
  <2> SUFFICES ASSUME NEW i \in DOMAIN list, NEW j \in DOMAIN list, NEW k \in DOMAIN list
               PROVE  /\ ~ Before(list[i], list[i])
                      /\ Before(list[i], list[j]) /\ Before(list[j], list[k])
                           => Before(list[i], list[k])
                      /\ i # j => Before(list[i], list[j]) \/ Before(list[j], list[i])
    OBVIOUS
  <2>1. /\ list[i].order \in Int /\ list[j].order \in Int /\ list[k].order \in Int
        /\ Place(list[i].id) \in Int /\ Place(list[j].id) \in Int /\ Place(list[k].id) \in Int
        /\ i # j => Place(list[i].id) # Place(list[j].id)
    BY <1>1, <1>2, <1>3
  <2> QED BY <2>1 DEF Before
<1> QED BY <1>4 DEF list

\* What the builder's sort makes of the choices: every choice once, in their order.
SortedFrom(list, s) ==
  /\ Len(list) \in Nat /\ Len(list) >= 2 /\ DOMAIN list = 1..Len(list)
  /\ s = [i \in 1..Len(list) |-> s[i]]
  /\ \A i \in 1..Len(list) : \E j \in DOMAIN list : s[i] = list[j]
  /\ \A j \in DOMAIN list : \E i \in 1..Len(list) : s[i] = list[j]
  /\ \A i, j \in 1..Len(list) :
       /\ i < j => Before(s[i], s[j]) /\ ~ Before(s[j], s[i])
       /\ s[i].id = s[j].id => i = j
       /\ s[i].slug = s[j].slug => i = j

\* The comparison as a relation of the places of a list.
Precedes(list) ==
  {p \in (DOMAIN list) \X (DOMAIN list) : Before(list[p[1]], list[p[2]])}

\* Membership in that relation.
LEMMA PrecedesForm ==
  ASSUME NEW list
  PROVE  \A i, j \in DOMAIN list : <<i, j>> \in Precedes(list) <=> Before(list[i], list[j])
BY DEF Precedes, Before

\* The meaning in a built manifest is the sorted list of its draft's choices.
LEMMA MeaningForm ==
  ASSUME NEW draft \in Drafts
  PROVE  SortedFrom(draft.choices, BuildManifest(draft).meaning)
<1> DEFINE list == draft.choices
           n == Len(list)
           R == Precedes(list)
           order == InOrder(list)
           s == [i \in DOMAIN order |-> list[order[i]]]
<1>1. /\ n \in Nat /\ n >= 2 /\ DOMAIN list = 1..n
      /\ \A i, j \in 1..n : /\ list[i].id = list[j].id => i = j
                            /\ list[i].slug = list[j].slug => i = j
  <2>1. /\ list \in Seq(Elements(list)) /\ n >= 2
        /\ Distinct(Ids(list)) /\ Distinct([i \in DOMAIN list |-> list[i].slug])
    BY DraftsAssumption
  <2> HIDE DEF list
  <2>2. n \in Nat /\ DOMAIN list = 1..n
    BY <2>1
  <2> HIDE DEF n
  <2> QED BY <2>1, <2>2 DEF Distinct, Ids
<1>2. StrictOrder(R, DOMAIN list)
  <2>1. \A i, j \in DOMAIN list : <<i, j>> \in R <=> Before(list[i], list[j])
    BY PrecedesForm
  <2>2. \A i, j, k \in DOMAIN list :
          /\ ~ Before(list[i], list[i])
          /\ Before(list[i], list[j]) /\ Before(list[j], list[k]) => Before(list[i], list[k])
          /\ i # j => Before(list[i], list[j]) \/ Before(list[j], list[i])
    BY BeforeOrders
  <2> HIDE DEF list, R
  <2> QED BY <2>1, <2>2 DEF StrictOrder
<1>3. IsFiniteSet(DOMAIN list) /\ Cardinality(DOMAIN list) = n
  BY <1>1, FS_Interval
<1>4. \E o \in [DOMAIN list -> DOMAIN list] :
        \A i, j \in DOMAIN list :
          /\ o[i] = o[j] => i = j
          /\ Before(list[o[i]], list[o[j]]) => i < j
  <2>1. PICK o \in [1..Cardinality(DOMAIN list) -> DOMAIN list] : Sorts(o, R)
    <3> HIDE DEF list, R
    <3> QED BY <1>2, <1>3, SortExists
  <2>2. o \in [DOMAIN list -> DOMAIN list]
    BY <1>1, <1>3, <2>1
  <2>3. \A i, j \in DOMAIN list :
          Before(list[o[i]], list[o[j]]) => <<o[i], o[j]>> \in R
    <3>1. \A i \in DOMAIN list : o[i] \in DOMAIN list
      BY <2>2
    <3>2. \A k, l \in DOMAIN list : Before(list[k], list[l]) => <<k, l>> \in R
      BY PrecedesForm
    <3> HIDE DEF list, R
    <3> QED BY <3>1, <3>2
  <2> HIDE DEF list, R
  <2> QED BY <2>1, <2>2, <2>3 DEF Sorts
<1>5. /\ order \in [DOMAIN list -> DOMAIN list]
      /\ \A i, j \in DOMAIN list :
           /\ order[i] = order[j] => i = j
           /\ Before(list[order[i]], list[order[j]]) => i < j
  <2> HIDE DEF list
  <2> QED BY <1>4 DEF InOrder
<1>6. \A j \in DOMAIN list : \E i \in DOMAIN list : order[i] = j
  <2> DEFINE I == DOMAIN list
  <2>1. order \in Injection(I, I)
    BY <1>5 DEF Injection, IsInjective
  <2>2. IsFiniteSet(I)
    BY <1>3
  <2> HIDE DEF I
  <2>3. order \in Surjection(I, I)
    BY <2>1, <2>2, FS_Injection
  <2> QED BY <2>3 DEF I, Surjection
<1>7. BuildManifest(draft).meaning = s
  BY DEF BuildManifest, Manifest
<1>8. \A i, j \in DOMAIN list :
        /\ ~ Before(list[i], list[i])
        /\ Before(list[i], list[j]) => ~ Before(list[j], list[i])
        /\ i # j => Before(list[i], list[j]) \/ Before(list[j], list[i])
  BY BeforeOrders
<1> HIDE DEF list, n, order
<1>9. DOMAIN s = 1..n /\ \A i \in 1..n : s[i] = list[order[i]] /\ order[i] \in DOMAIN list
  BY <1>1, <1>5
<1>10. ASSUME NEW i \in 1..n, NEW j \in 1..n, i < j
       PROVE  Before(s[i], s[j]) /\ ~ Before(s[j], s[i])
  <2>1. order[i] # order[j]
    <3>1. i \in DOMAIN list /\ j \in DOMAIN list /\ i # j
      BY <1>1, <1>10
    <3> QED BY <3>1, <1>5
  <2>2. Before(list[order[j]], list[order[i]]) => j < i
    BY <1>1, <1>5
  <2>3. ~ Before(list[order[j]], list[order[i]])
    BY <1>10, <2>2
  <2> QED BY <1>8, <1>9, <2>1, <2>3
<1>11. \A i, j \in 1..n : (s[i].id = s[j].id => i = j) /\ (s[i].slug = s[j].slug => i = j)
  <2>1. \A i, j \in 1..n : order[i] = order[j] => i = j
    BY <1>1, <1>5
  <2>2. \A i \in 1..n : order[i] \in 1..n /\ s[i] = list[order[i]]
    BY <1>1, <1>9
  <2> HIDE DEF s
  <2> QED BY <1>1, <2>1, <2>2
<1>12. /\ \A i \in 1..n : \E j \in DOMAIN list : s[i] = list[j]
       /\ \A j \in DOMAIN list : \E i \in 1..n : s[i] = list[j]
  BY <1>1, <1>6, <1>9
<1>13. s = [i \in 1..n |-> s[i]]
  BY <1>9
<1> HIDE DEF s
<1>14. SortedFrom(list, s)
  BY <1>1, <1>10, <1>11, <1>12, <1>13 DEF SortedFrom, n
<1> QED BY <1>7, <1>14 DEF list

\* One set of choices has one sorted list.
LEMMA SameMeaning ==
  ASSUME NEW list, NEW other, NEW s, NEW t, SortedFrom(list, s), SortedFrom(other, t),
         Elements(s) = Elements(t)
  PROVE  s = t
<1> DEFINE n == Len(list)
<1>1. /\ n \in Nat /\ DOMAIN s = 1..n /\ s = [i \in 1..n |-> s[i]]
      /\ \A i, j \in 1..n : /\ i < j => Before(s[i], s[j]) /\ ~ Before(s[j], s[i])
                            /\ s[i] = s[j] => i = j
  BY DEF SortedFrom
<1>2. Len(other) = n
  <2>1. Cardinality(Elements(s)) = n
    <3> HIDE DEF n
    <3> QED BY <1>1, OneToOne
  <2>2. Cardinality(Elements(t)) = Len(other)
    <3> DEFINE m == Len(other)
    <3>1. /\ m \in Nat /\ DOMAIN t = 1..m /\ t = [i \in 1..m |-> t[i]]
          /\ \A i, j \in 1..m : t[i] = t[j] => i = j
      BY DEF SortedFrom
    <3> HIDE DEF m
    <3>2. Cardinality(Elements(t)) = m
      BY <3>1, OneToOne
    <3> QED BY <3>2 DEF m
  <2> QED BY <2>1, <2>2
<1>3. /\ DOMAIN t = 1..n /\ t = [i \in 1..n |-> t[i]]
      /\ \A i, j \in 1..n : /\ i < j => Before(t[i], t[j]) /\ ~ Before(t[j], t[i])
                            /\ t[i] = t[j] => i = j
  BY <1>2 DEF SortedFrom
<1> HIDE DEF n
<1>4. SUFFICES ASSUME NEW k \in 1..n, s[k] # t[k] PROVE FALSE
  BY <1>1, <1>3
<1> DEFINE Differ == {i \in 1..n : s[i] # t[i]}
<1>5. PICK i \in Differ : \A j \in Differ : i <= j
  <2>1. Differ \subseteq Nat /\ Differ # {}
    BY <1>1, <1>4
  <2> HIDE DEF Differ
  <2> QED BY <2>1, LeastNat
<1>6. i \in 1..n /\ s[i] # t[i] /\ \A j \in 1..n : j < i => s[j] = t[j]
  BY <1>1, <1>5
<1>7. PICK j \in 1..n : t[j] = s[i]
  <2>1. s[i] \in Elements(t)
    BY <1>1, <1>6 DEF Elements
  <2> QED BY <2>1, <1>3 DEF Elements
<1>8. PICK h \in 1..n : s[h] = t[i]
  <2>1. t[i] \in Elements(s)
    <3>1. t[i] \in Elements(t)
      BY <1>3, <1>6 DEF Elements
    <3> QED BY <3>1
  <2> QED BY <2>1, <1>1 DEF Elements
<1>9. i < j /\ i < h
  <2>1. ~ (j < i) /\ j # i /\ ~ (h < i) /\ h # i
    BY <1>1, <1>3, <1>6, <1>7, <1>8
  <2> QED BY <2>1, <1>1, <1>6, <1>7, <1>8
<1>10. Before(t[i], t[j]) /\ Before(s[i], s[h]) /\ ~ Before(s[h], s[i])
  BY <1>1, <1>3, <1>6, <1>7, <1>8, <1>9
<1> QED BY <1>7, <1>8, <1>10

\* A manifest that was built and that shows its choices is in order.
LEMMA BuiltIsWellFormed ==
  ASSUME NEW m, NEW draft \in Drafts, m.meaning = BuildManifest(draft).meaning,
         Ids(m.shown) = Ids(m.meaning)
  PROVE  BallotWellFormed(m)
<1> DEFINE s == m.meaning
           n == Len(draft.choices)
<1>1. SortedFrom(draft.choices, s)
  BY MeaningForm
<1> HIDE DEF s
<1>2. /\ n \in Nat /\ n >= 2 /\ DOMAIN s = 1..n /\ s = [i \in 1..n |-> s[i]]
      /\ \A i, j \in 1..n : /\ i < j => Before(s[i], s[j])
                            /\ s[i].id = s[j].id => i = j
                            /\ s[i].slug = s[j].slug => i = j
  BY <1>1 DEF SortedFrom
<1>3. \A i \in 1..n : s[i].order \in Int
  <2>1. \A j \in DOMAIN draft.choices : draft.choices[j].order \in Int
    BY DraftsAssumption DEF Elements
  <2> QED BY <1>1, <2>1 DEF SortedFrom
<1> HIDE DEF n
<1>4. Len(s) = n
  BY <1>2
<1>5. Distinct(Ids(s)) /\ Distinct([i \in DOMAIN s |-> s[i].slug])
  BY <1>2 DEF Distinct, Ids
<1>6. \A i, j \in DOMAIN s : i < j => s[i].order <= s[j].order
  BY <1>2, <1>3 DEF Before
<1> QED BY <1>2, <1>4, <1>5, <1>6 DEF BallotWellFormed, s

-------------------------------------------------------------------------------
(* What manifests, requests and leaves are made of.                              *)

ManifestsBuilt ==
  \A m \in manifests : \E draft \in Drafts : m.meaning = BuildManifest(draft).meaning

\* A request is for a published manifest and continues a vote of its voter by one.
Follows(request, published) ==
  LET intent == request.intent IN
  /\ request.voter \in Voters /\ request.manifest \in published
  /\ intent.previous = Null => intent.sequence = 1
  /\ intent.previous # Null => /\ intent.previous.nullifier = request.voter
                               /\ intent.sequence = intent.previous.sequence + 1

RequestsFollow == \A i \in DOMAIN requests : Follows(requests[i], manifests)

ShapeOK(e) ==
  /\ e.choice = Null <=> e.eventType = "withdraw"
  /\ IF e.sequence = 1 THEN e.eventType = "cast" /\ e.previous = Null
                       ELSE e.eventType # "cast" /\ e.previous # Null

Decides(leaf, e) ==
  leaf.entryType = "vote_adjudication" /\ leaf.entryId = e.eventId
  /\ leaf.payload = Acceptance(e)

\* An event is followed by its acceptance, and an acceptance preceded by its event.
PairOK(log, j) ==
  \/ /\ VoteAt(log, j) /\ ShapeOK(log[j].payload)
     /\ j + 1 \in DOMAIN log /\ Decides(log[j + 1], log[j].payload)
  \/ /\ j - 1 \in DOMAIN log /\ VoteAt(log, j - 1) /\ Decides(log[j], log[j - 1].payload)

PairsOK == \A j \in DOMAIN leaves : PairOK(leaves, j)

MadeInv == ManifestsBuilt /\ RequestsFollow /\ PairsOK

\* MadeInv is inductive, with IInv for the log.
LEMMA MadeByPublish == MadeInv /\ Publish => MadeInv'
<1> SUFFICES ASSUME MadeInv, Publish PROVE MadeInv'
  OBVIOUS
<1>1. requests' = requests /\ leaves' = leaves /\ manifests \subseteq manifests'
  BY DEF Publish
<1>2. ManifestsBuilt'
  <2>1. PICK draft \in Drafts :
          \E shown : manifests' =
            manifests \cup {[BuildManifest(draft) EXCEPT !.shown = shown]}
    BY DEF Publish
  <2>2. PICK shown :
          manifests' = manifests \cup {[BuildManifest(draft) EXCEPT !.shown = shown]}
    BY <2>1
  <2>3. [BuildManifest(draft) EXCEPT !.shown = shown].meaning = BuildManifest(draft).meaning
    BY DEF BuildManifest, Manifest
  <2> QED BY <2>2, <2>3 DEF MadeInv, ManifestsBuilt
<1>3. RequestsFollow'
  BY <1>1 DEF MadeInv, RequestsFollow, Follows
<1>4. PairsOK'
  BY <1>1 DEF MadeInv, PairsOK
<1> QED BY <1>2, <1>3, <1>4 DEF MadeInv

LEMMA MadeByPrepare == IInv /\ MadeInv /\ PrepareRequest => MadeInv'
<1> SUFFICES ASSUME IInv, MadeInv, PrepareRequest PROVE MadeInv'
  OBVIOUS
<1>1. PICK voter \in Voters, locale \in Locales, m \in manifests, n \in manifests :
        \E eventType \in {"cast", "replace", "withdraw"},
           choice \in Elements(Ids(n.meaning)),
           base \in {Null} \cup {e \in LoggedEvents(leaves) : e.nullifier = voter},
           binding \in {m.binding, n.binding} :
          LET request == [voter |-> voter, locale |-> locale, manifest |-> m,
                          intent |-> Intent(eventType, n, binding, choice, base)]
          IN  RequestVerifies(request) /\ requests' = Append(requests, request)
  BY DEF PrepareRequest
<1>2. PICK eventType \in {"cast", "replace", "withdraw"},
           choice \in Elements(Ids(n.meaning)),
           base \in {Null} \cup {e \in LoggedEvents(leaves) : e.nullifier = voter},
           binding \in {m.binding, n.binding} :
          LET request == [voter |-> voter, locale |-> locale, manifest |-> m,
                          intent |-> Intent(eventType, n, binding, choice, base)]
          IN  RequestVerifies(request) /\ requests' = Append(requests, request)
  BY <1>1
<1> DEFINE request == [voter |-> voter, locale |-> locale, manifest |-> m,
                       intent |-> Intent(eventType, n, binding, choice, base)]
<1>3. manifests' = manifests /\ leaves' = leaves
  BY DEF PrepareRequest
<1>4. Follows(request, manifests)
  <2>1. /\ request.intent.previous = base
        /\ request.intent.sequence = IF base = Null THEN 1 ELSE base.sequence + 1
        /\ request.voter = voter /\ request.manifest = m
    BY DEF Intent
  <2>2. base # Null => base.nullifier = voter
    BY <1>2
  <2> HIDE DEF request
  <2> QED BY <2>1, <2>2 DEF Follows
<1>5. /\ \A i \in 1..Len(requests) : requests'[i] = requests[i]
      /\ requests'[Len(requests) + 1] = request
      /\ DOMAIN requests = 1..Len(requests) /\ DOMAIN requests' = 1..(Len(requests) + 1)
      /\ Len(requests) \in Nat
  <2>1. requests \in Seq(Elements(requests)) /\ requests' = Append(requests, request)
    BY <1>2 DEF IInv, SequencesOK
  <2> HIDE DEF request
  <2>2. /\ requests' \in Seq(Elements(requests')) /\ Len(requests') = Len(requests) + 1
        /\ Len(requests) \in Nat
        /\ \A i \in 1..Len(requests) : requests'[i] = requests[i]
        /\ requests'[Len(requests) + 1] = request
    BY <2>1, AppendGrows
  <2> QED BY <2>1, <2>2
<1> HIDE DEF request
<1>6. RequestsFollow'
  <2>1. ASSUME NEW i \in 1..(Len(requests) + 1)
        PROVE  Follows(requests'[i], manifests)
    <3>1. CASE i \in 1..Len(requests)
      BY <3>1, <1>5 DEF MadeInv, RequestsFollow
    <3>2. CASE i = Len(requests) + 1
      BY <3>2, <1>4, <1>5
    <3> QED BY <1>5, <3>1, <3>2
  <2> QED BY <2>1, <1>3, <1>5 DEF RequestsFollow
<1> QED BY <1>3, <1>6 DEF MadeInv, ManifestsBuilt, PairsOK

LEMMA MadeByLog == IInv /\ MadeInv /\ LogVote => MadeInv'
<1> SUFFICES ASSUME IInv, MadeInv, LogVote PROVE MadeInv'
  OBVIOUS
<1>1. PICK i \in DOMAIN requests :
        LET e == VoteEvent(i)
        IN  /\ Replay(requests[i].manifest)!WellFormedEvent(e)
            /\ leaves' = leaves \o <<Replay(requests[i].manifest)!EventLeaf(e),
                                     Replay(requests[i].manifest)!ReceiptLeaf(Acceptance(e))>>
  BY DEF LogVote
<1> DEFINE e == VoteEvent(i)
           last == Len(leaves)
<1>2. requests' = requests /\ manifests' = manifests
  BY DEF LogVote
<1>3. ShapeOK(e)
  <2> HIDE DEF e
  <2> QED BY <1>1 DEF e, Replay!WellFormedEvent, ShapeOK
<1>4. /\ Len(leaves') = last + 2 /\ last \in Nat
      /\ DOMAIN leaves = 1..last /\ DOMAIN leaves' = 1..(last + 2)
      /\ \A j \in 1..last : leaves'[j] = leaves[j]
      /\ VoteAt(leaves', last + 1) /\ leaves'[last + 1].payload = e
      /\ Decides(leaves'[last + 2], e)
  <2> DEFINE x == Replay(requests[i].manifest)!EventLeaf(e)
             y == Replay(requests[i].manifest)!ReceiptLeaf(Acceptance(e))
  <2>1. x.entryType = "vote_event" /\ x.payload = e /\ Decides(y, e)
    <3> HIDE DEF e
    <3> QED BY DEF Replay!EventLeaf, Replay!ReceiptLeaf, Decides, Acceptance
  <2>2. leaves' = leaves \o <<x, y>> /\ leaves \in Seq(Elements(leaves))
    BY <1>1 DEF IInv, SequencesOK
  <2> HIDE DEF e, x, y
  <2>3. /\ leaves' \in Seq(Elements(leaves'))
        /\ Len(leaves') = last + 2 /\ last \in Nat
        /\ \A j \in 1..last : leaves'[j] = leaves[j]
        /\ leaves'[last + 1] = x /\ leaves'[last + 2] = y
    BY <2>2, PairGrows
  <2> QED BY <2>1, <2>2, <2>3 DEF VoteAt
<1> HIDE DEF e, last
<1>5. ASSUME NEW j \in 1..last
      PROVE  PairOK(leaves', j)
  <2>1. CASE /\ VoteAt(leaves, j) /\ ShapeOK(leaves[j].payload)
             /\ j + 1 \in DOMAIN leaves /\ Decides(leaves[j + 1], leaves[j].payload)
    BY <2>1, <1>4 DEF PairOK, VoteAt
  <2>2. CASE /\ j - 1 \in DOMAIN leaves /\ VoteAt(leaves, j - 1)
             /\ Decides(leaves[j], leaves[j - 1].payload)
    BY <2>2, <1>4 DEF PairOK, VoteAt
  <2> QED BY <1>4, <2>1, <2>2 DEF MadeInv, PairsOK, PairOK
<1>6. PairOK(leaves', last + 1) /\ PairOK(leaves', last + 2)
  <2>1. /\ last + 1 \in DOMAIN leaves' /\ last + 2 \in DOMAIN leaves'
        /\ (last + 1) + 1 = last + 2 /\ (last + 2) - 1 = last + 1
    BY <1>4
  <2> QED BY <2>1, <1>3, <1>4 DEF PairOK
<1>7. PairsOK'
  <2>1. \A j \in DOMAIN leaves' : j \in 1..last \/ j = last + 1 \/ j = last + 2
    BY <1>4
  <2> QED BY <2>1, <1>5, <1>6 DEF PairsOK
<1> QED BY <1>2, <1>7 DEF MadeInv, ManifestsBuilt, RequestsFollow

LEMMA MadeInvariant == Spec => [](IInv /\ MadeInv)
<1>1. Init => MadeInv
  BY DEF Init, MadeInv, ManifestsBuilt, RequestsFollow, PairsOK
<1>2. IInv /\ MadeInv /\ [Next]_vars => MadeInv'
  <2>1. VerifyTally /\ MadeInv => MadeInv'
    BY DEF VerifyTally, MadeInv, ManifestsBuilt, RequestsFollow, PairsOK
  <2>2. UNCHANGED vars /\ MadeInv => MadeInv'
    BY DEF vars, MadeInv, ManifestsBuilt, RequestsFollow, PairsOK
  <2> QED BY <2>1, <2>2, MadeByPublish, MadeByPrepare, MadeByLog DEF Next
<1> QED BY <1>1, <1>2, Invariant, PTL DEF Spec

-------------------------------------------------------------------------------
(* An undisputed log replays.                                                    *)

\* What is known of a logged event.
Known(e, j) ==
  /\ VoteAt(leaves, j) /\ leaves[j].payload = e /\ leaves[j].entryId = e.eventId
  /\ e.nullifier \in Voters /\ e.sequence \in Nat \ {0} /\ ShapeOK(e)
  /\ j + 1 \in DOMAIN leaves /\ Decides(leaves[j + 1], e)

\* A leaf of type vote_event holds a known event.
LEMMA KnownEvent ==
  ASSUME IInv, MadeInv, NEW j \in DOMAIN leaves, VoteAt(leaves, j)
  PROVE  Known(leaves[j].payload, j)
<1>1. VoteLeafOK(leaves, j, leaves[j].payload)
  BY VoteLeaf
<1>2. PairOK(leaves, j)
  BY DEF MadeInv, PairsOK
<1>3. ~ Decides(leaves[j], leaves[j - 1].payload)
  BY DEF VoteAt, Decides
<1> QED BY <1>1, <1>2, <1>3 DEF Known, PairOK, VoteLeafOK

\* Every event of the log is of one request.
LEMMA EventOfRequest ==
  ASSUME IInv, NEW e \in LoggedEvents(leaves)
  PROVE  \E i \in DOMAIN requests : e = VoteEvent(i)
BY LoggedAt, VoteLeaf

\* In an undisputed log an event has one place.
LEMMA OnePlace ==
  ASSUME IInv, Undisputed(leaves), NEW j \in DOMAIN leaves, NEW k \in DOMAIN leaves,
         VoteAt(leaves, j), VoteAt(leaves, k),
         leaves[j].payload.nullifier = leaves[k].payload.nullifier,
         leaves[j].payload.previous = leaves[k].payload.previous
  PROVE  j = k
<1>1. j \in Int /\ k \in Int
  BY DEF IInv, SequencesOK
<1>2. ~ (j < k) /\ ~ (k < j)
  BY DEF Undisputed, VoteAt
<1> QED BY <1>1, <1>2

\* The event that an event continues.
LEMMA Continues ==
  ASSUME IInv, MadeInv, NEW e \in LoggedEvents(leaves)
  PROVE  /\ e.sequence \in Nat \ {0} /\ e.nullifier \in Voters /\ ShapeOK(e)
         /\ e.sequence # 1 => /\ e.previous \in LoggedEvents(leaves)
                              /\ e.previous.nullifier = e.nullifier
                              /\ e.previous.sequence = e.sequence - 1
<1>1. PICK j \in DOMAIN leaves : VoteAt(leaves, j) /\ leaves[j].payload = e
  BY LoggedAt
<1>2. Known(e, j)
  BY <1>1, KnownEvent
<1>3. PICK i \in DOMAIN requests : e = VoteEvent(i)
  BY EventOfRequest
<1>4. /\ e.sequence = requests[i].intent.sequence
      /\ e.previous = requests[i].intent.previous
      /\ e.nullifier = requests[i].voter
  BY <1>3 DEF VoteEvent
<1>5. Follows(requests[i], manifests) /\ RequestOK(requests[i], leaves)
  BY DEF MadeInv, RequestsFollow, IInv, RequestsOK
<1>6. ASSUME e.sequence # 1
      PROVE  /\ e.previous \in LoggedEvents(leaves)
             /\ e.previous.nullifier = e.nullifier
             /\ e.previous.sequence = e.sequence - 1
  <2>1. e.previous \in LoggedEvents(leaves)
    BY <1>4, <1>5, <1>6 DEF RequestOK
  <2>2. e.previous # Null
    BY <1>2, <1>6 DEF Known, ShapeOK
  <2>3. e.previous.nullifier = e.nullifier /\ e.sequence = e.previous.sequence + 1
    BY <1>4, <1>5, <2>2 DEF Follows
  <2>4. PICK k \in DOMAIN leaves : VoteAt(leaves, k) /\ leaves[k].payload = e.previous
    BY <2>1, LoggedAt
  <2>5. e.previous.sequence \in Nat
    BY <2>4, KnownEvent DEF Known
  <2> QED BY <2>1, <2>3, <2>5
<1> QED BY <1>2, <1>6 DEF Known

\* In an undisputed log two events of a voter never have one number.
LEMMA OnePerNumber ==
  ASSUME IInv, MadeInv, Undisputed(leaves),
         NEW x \in LoggedEvents(leaves), NEW y \in LoggedEvents(leaves),
         x.nullifier = y.nullifier, x.sequence = y.sequence
  PROVE  x = y
<1> DEFINE Doubled(n) == \E e, f \in LoggedEvents(leaves) :
             /\ e.nullifier = f.nullifier /\ e # f
             /\ e.sequence = n /\ f.sequence = n
           Numbers == {n \in Nat : Doubled(n)}
<1> SUFFICES ASSUME x # y PROVE FALSE
  OBVIOUS
<1>1. Numbers \subseteq Nat /\ Numbers # {}
  <2>1. x.sequence \in Nat /\ Doubled(x.sequence)
    BY Continues
  <2> HIDE DEF Doubled
  <2> QED BY <2>1
<1>2. PICK n \in Numbers : \A k \in Numbers : n <= k
  <2> HIDE DEF Numbers
  <2> QED BY <1>1, LeastNat
<1>3. PICK e \in LoggedEvents(leaves), f \in LoggedEvents(leaves) :
        e.nullifier = f.nullifier /\ e # f /\ e.sequence = n /\ f.sequence = n
  BY <1>2
<1>4. e.previous = f.previous
  <2>1. CASE n = 1
    BY <2>1, <1>3, Continues DEF ShapeOK
  <2>2. CASE n # 1
    <3> DEFINE d == e.previous
               g == f.previous
    <3>1. /\ d \in LoggedEvents(leaves) /\ g \in LoggedEvents(leaves)
          /\ d.nullifier = g.nullifier /\ d.sequence = n - 1 /\ g.sequence = n - 1
      BY <2>2, <1>3, Continues
    <3>2. n - 1 \in Nat /\ ~ (n <= n - 1)
      BY <3>1, Continues, <1>2
    <3>3. ASSUME d # g
          PROVE  FALSE
      <4>1. n - 1 \in Numbers
        <5> HIDE DEF d, g
        <5> QED BY <3>1, <3>2, <3>3
      <4> HIDE DEF Numbers
      <4> QED BY <4>1, <1>2, <3>2
    <3> QED BY <3>3
  <2> QED BY <2>1, <2>2
<1>5. PICK j \in DOMAIN leaves : VoteAt(leaves, j) /\ leaves[j].payload = e
  BY LoggedAt
<1>6. PICK k \in DOMAIN leaves : VoteAt(leaves, k) /\ leaves[k].payload = f
  BY LoggedAt
<1>7. j = k
  BY <1>3, <1>4, <1>5, <1>6, OnePlace
<1> QED BY <1>3, <1>5, <1>6, <1>7

\* The receipts of a log.
Logged(log) == Payloads(log, "vote_adjudication")

\* The decisions of the log are the acceptances of its events.
LEMMA LoggedDecisions ==
  ASSUME IInv, MadeInv
  PROVE  Logged(leaves) = {Acceptance(e) : e \in LoggedEvents(leaves)}
<1>1. ASSUME NEW r \in Logged(leaves)
      PROVE  \E e \in LoggedEvents(leaves) : r = Acceptance(e)
  <2>1. PICK j \in DOMAIN leaves :
          leaves[j].entryType = "vote_adjudication" /\ leaves[j].payload = r
    BY <1>1 DEF Logged, Payloads, Elements
  <2>2. /\ j - 1 \in DOMAIN leaves /\ VoteAt(leaves, j - 1)
        /\ Decides(leaves[j], leaves[j - 1].payload)
    BY <2>1 DEF MadeInv, PairsOK, PairOK, VoteAt
  <2>3. leaves[j - 1].payload \in LoggedEvents(leaves)
    BY <2>2, LoggedAt
  <2> QED BY <2>1, <2>2, <2>3 DEF Decides
<1>2. ASSUME NEW e \in LoggedEvents(leaves)
      PROVE  Acceptance(e) \in Logged(leaves)
  <2>1. PICK j \in DOMAIN leaves : VoteAt(leaves, j) /\ leaves[j].payload = e
    BY LoggedAt
  <2>2. Known(e, j)
    BY <2>1, KnownEvent
  <2>3. /\ j + 1 \in DOMAIN leaves /\ leaves[j + 1].entryType = "vote_adjudication"
        /\ leaves[j + 1].payload = Acceptance(e)
    BY <2>2 DEF Known, Decides
  <2> QED BY <2>3 DEF Logged, Payloads, Elements
<1> QED BY <1>1, <1>2

\* In an undisputed log no entry is logged twice.
LEMMA OneEntry ==
  ASSUME IInv, MadeInv, Undisputed(leaves),
         NEW j \in DOMAIN leaves, NEW k \in DOMAIN leaves,
         leaves[j].entryType = leaves[k].entryType, leaves[j].entryId = leaves[k].entryId
  PROVE  j = k
<1>1. \A h \in DOMAIN leaves : h \in Int
  BY DEF IInv, SequencesOK
<1>2. ASSUME NEW h \in DOMAIN leaves, NEW l \in DOMAIN leaves,
             VoteAt(leaves, h), VoteAt(leaves, l),
             leaves[h].payload.eventId = leaves[l].payload.eventId
      PROVE  h = l
  <2>1. PICK i \in DOMAIN requests : leaves[h].payload = VoteEvent(i)
    BY <1>2, VoteLeaf
  <2>2. PICK m \in DOMAIN requests : leaves[l].payload = VoteEvent(m)
    BY <1>2, VoteLeaf
  <2>3. i = m
    BY <1>2, <2>1, <2>2 DEF VoteEvent
  <2> QED BY <1>2, <2>1, <2>2, <2>3, OnePlace
<1>3. CASE VoteAt(leaves, j)
  <2>1. VoteAt(leaves, k)
    BY <1>3 DEF VoteAt
  <2>2. /\ leaves[j].entryId = leaves[j].payload.eventId
        /\ leaves[k].entryId = leaves[k].payload.eventId
    BY <1>3, <2>1, KnownEvent DEF Known
  <2> QED BY <1>2, <1>3, <2>1, <2>2
<1>4. CASE ~ VoteAt(leaves, j)
  <2>1. ~ VoteAt(leaves, k)
    BY <1>4 DEF VoteAt
  <2>2. /\ j - 1 \in DOMAIN leaves /\ VoteAt(leaves, j - 1)
        /\ Decides(leaves[j], leaves[j - 1].payload)
        /\ k - 1 \in DOMAIN leaves /\ VoteAt(leaves, k - 1)
        /\ Decides(leaves[k], leaves[k - 1].payload)
    BY <1>4, <2>1 DEF MadeInv, PairsOK, PairOK
  <2>3. leaves[j - 1].payload.eventId = leaves[k - 1].payload.eventId
    BY <2>2 DEF Decides
  <2>4. j - 1 = k - 1
    BY <1>2, <2>2, <2>3
  <2> QED BY <2>4, <1>1
<1> QED BY <1>3, <1>4

\* A log in which every event is on a ballot of the meaning and the binding of m, and
\* nothing is disputed, replays under m.
LEMMA UndisputedReplays ==
  ASSUME IInv, MadeInv, Undisputed(leaves), NEW m,
         \A e \in LoggedEvents(leaves) : /\ e.context = m.binding
                                         /\ e.choice \in Elements(Ids(m.meaning)) \cup {Null}
  PROVE  Replay(m)!ReplayGraphOK(InputSet(m, leaves))
<1> DEFINE in == InputSet(m, leaves)
           events == LoggedEvents(leaves)
<1>1. /\ in.context = m.binding /\ in.logId = LogId /\ in.events = events
      /\ in.authorizations = {e.authorization : e \in events}
      /\ in.receipts = Logged(leaves) /\ in.leaves = leaves /\ in.head = in.checkpoint
      /\ in.checkpoint.logId = LogId /\ in.checkpoint.treeSize = Len(leaves)
      /\ in.checkpoint.root = leaves
  BY DEF InputSet, Logged, Replay!TreeHead
<1>2. \A e \in events : \E i \in DOMAIN requests : e = VoteEvent(i)
  BY EventOfRequest
<1>3. in.receipts = {Acceptance(e) : e \in events}
  BY <1>1, LoggedDecisions
<1>4. \A e \in events : /\ e.context = m.binding
                        /\ e.choice \in Elements(Ids(m.meaning)) \cup {Null}
  OBVIOUS
<1>5. \A e \in events : \E j \in DOMAIN leaves : Known(e, j)
  BY LoggedAt, KnownEvent
<1>6. \A e \in events : /\ e.sequence \in Nat \ {0} /\ e.nullifier \in Voters /\ ShapeOK(e)
                        /\ e.sequence # 1 => /\ e.previous \in events
                                             /\ e.previous.nullifier = e.nullifier
                                             /\ e.previous.sequence = e.sequence - 1
  BY Continues
<1>7. \A e, f \in events : e.nullifier = f.nullifier /\ e.sequence = f.sequence => e = f
  BY OnePerNumber
<1>8. \A j, k \in DOMAIN leaves :
        leaves[j].entryType = leaves[k].entryType /\ leaves[j].entryId = leaves[k].entryId
          => j = k
  BY OneEntry
<1>9. \A j \in DOMAIN leaves :
        IF leaves[j].entryType = "vote_event"
        THEN leaves[j].payload \in events /\ leaves[j].entryId = leaves[j].payload.eventId
        ELSE /\ leaves[j].payload \in {Acceptance(e) : e \in events}
             /\ leaves[j].entryId = leaves[j].payload.receiptId
  <2>1. ASSUME NEW j \in DOMAIN leaves, VoteAt(leaves, j)
        PROVE  leaves[j].payload \in events /\ leaves[j].entryId = leaves[j].payload.eventId
    BY <2>1, LoggedAt, KnownEvent DEF Known
  <2>2. ASSUME NEW j \in DOMAIN leaves, ~ VoteAt(leaves, j)
        PROVE  /\ leaves[j].payload \in {Acceptance(e) : e \in events}
               /\ leaves[j].entryId = leaves[j].payload.receiptId
    <3>1. /\ j - 1 \in DOMAIN leaves /\ VoteAt(leaves, j - 1)
          /\ Decides(leaves[j], leaves[j - 1].payload)
      BY <2>2 DEF MadeInv, PairsOK, PairOK
    <3>2. leaves[j - 1].payload \in events
      BY <3>1, LoggedAt
    <3> HIDE DEF events
    <3> QED BY <3>1, <3>2 DEF Decides, Acceptance
  <2> QED BY <2>1, <2>2 DEF VoteAt
<1> HIDE DEF in, events
<1>10. Replay(m)!AuthorizationsOK(in)
  <2>1. \A e \in events : e.authorization.context = e.context
    BY <1>2 DEF VoteEvent
  <2> QED BY <1>1, <1>4, <2>1 DEF Replay!AuthorizationsOK
<1>11. Replay(m)!EventsOK(in)
  <2>1. \A e, f \in events : f.eventId = e.eventId => f = e
    BY <1>2 DEF VoteEvent
  <2>2. \A e \in events : Replay(m)!AuthorizationBinds(e)
    BY <1>2 DEF VoteEvent, Replay!AuthorizationBinds
  <2> QED BY <1>1, <1>4, <2>1, <2>2 DEF Replay!EventsOK
<1>12. Replay(m)!VoteChainsOK(in)
  <2>1. ASSUME NEW voter \in Voters
        PROVE  LET chain == {e \in events : e.nullifier = voter} IN
               /\ Replay(m)!Contiguous(chain)
               /\ \A e \in chain : e.sequence = 1 <=> e.eventType = "cast"
    <3> DEFINE chain == {e \in events : e.nullifier = voter}
    <3>1. \A x, y \in chain : x.sequence = y.sequence => x = y
      BY <1>7
    <3>2. \A x \in chain : IF x.sequence = 1 THEN x.previous = Null
                           ELSE x.previous \in chain /\ x.previous.sequence = x.sequence - 1
      BY <1>6 DEF ShapeOK
    <3>3. \A e \in chain : e.sequence = 1 <=> e.eventType = "cast"
      BY <1>6 DEF ShapeOK
    <3> HIDE DEF chain
    <3>4. Replay(m)!Contiguous(chain)
      BY <3>1, <3>2 DEF Replay!Contiguous
    <3> QED BY <3>3, <3>4 DEF chain
  <2> QED BY <1>1, <2>1 DEF Replay!VoteChainsOK, Replay!ChainOf
<1>13. \A e \in events : /\ Acceptance(e).event = e /\ Acceptance(e).logId = LogId
                         /\ Acceptance(e).receiptId = e.eventId
                         /\ Acceptance(e).sequence = 1 /\ Acceptance(e).previous = Null
                         /\ Acceptance(e).schema = "acceptance"
  BY DEF Acceptance
<1>14. Replay(m)!ReceiptsOK(in)
  <2>1. \A e, f \in events : f.eventId = e.eventId => f = e
    BY <1>2 DEF VoteEvent
  <2> QED BY <1>1, <1>3, <1>13, <2>1 DEF Replay!ReceiptsOK
<1>15. Replay(m)!ReceiptChainsOK(in)
  <2>1. ASSUME NEW e \in events
        PROVE  Replay(m)!ReceiptsOf(in.receipts, e) = {Acceptance(e)}
    BY <1>3, <1>13 DEF Replay!ReceiptsOf
  <2>2. ASSUME NEW e \in events
        PROVE  Replay(m)!Contiguous({Acceptance(e)})
    BY <1>13 DEF Replay!Contiguous
  <2> QED BY <1>1, <1>13, <2>1, <2>2 DEF Replay!ReceiptChainsOK
<1>16. Replay(m)!LogPrefixOK(in)
  <2>1. \A j \in DOMAIN leaves : Replay(m)!LeafMatched(in, leaves[j])
    BY <1>1, <1>3, <1>9 DEF Replay!LeafMatched
  <2> QED BY <1>1, <1>8, <2>1 DEF Replay!LogPrefixOK, Replay!SameEntry
<1>17. Replay(m)!ArtifactsLogged(in)
  <2>1. ASSUME NEW e \in events
        PROVE  \E j \in DOMAIN leaves :
                 Replay(m)!SameEntry(leaves[j], Replay(m)!EventLeaf(e))
    BY <1>5, <2>1 DEF Known, VoteAt, Replay!SameEntry, Replay!EventLeaf
  <2>2. ASSUME NEW e \in events
        PROVE  \E j \in DOMAIN leaves :
                 Replay(m)!SameEntry(leaves[j], Replay(m)!ReceiptLeaf(Acceptance(e)))
    BY <1>5, <2>2
       DEF Known, Decides, Acceptance, Replay!SameEntry, Replay!ReceiptLeaf
  <2> QED BY <1>1, <1>3, <2>1, <2>2 DEF Replay!ArtifactsLogged
<1>18. Replay(m)!ReplayGraphOK(in)
  BY <1>1, <1>10, <1>11, <1>12, <1>14, <1>15, <1>16, <1>17 DEF Replay!ReplayGraphOK
<1> QED BY <1>18 DEF in

\* Manifests that were built of the same choices in any order, and that show them, mean the
\* same (the sort of buildBallotManifestV3 leaves no two choices undecided), and the
\* undisputed votes on all of them replay under each of them (validateReplayGraphV3).
THEOREM TranslationsAreTalliedTogether == Spec => []TranslationsTallyTogether
<1> DEFINE built == {m \in manifests : Ids(m.shown) = Ids(m.meaning)}
<1>1. ASSUME IInv, MadeInv, Undisputed(leaves),
             \A m, n \in built : /\ Elements(m.meaning) = Elements(n.meaning)
                                 /\ m.binding = n.binding,
             NEW m \in built
      PROVE  Replays(m, built, leaves)
  <2>1. \A k \in built : BallotWellFormed(k)
    BY <1>1, BuiltIsWellFormed DEF MadeInv, ManifestsBuilt
  <2>2. ASSUME NEW k \in built
        PROVE  k.meaning = m.meaning /\ k.binding = m.binding
    <3>1. PICK draft \in Drafts : k.meaning = BuildManifest(draft).meaning
      BY <1>1 DEF MadeInv, ManifestsBuilt
    <3>2. PICK other \in Drafts : m.meaning = BuildManifest(other).meaning
      BY <1>1 DEF MadeInv, ManifestsBuilt
    <3>3. /\ SortedFrom(draft.choices, k.meaning) /\ SortedFrom(other.choices, m.meaning)
          /\ Elements(k.meaning) = Elements(m.meaning)
      BY <1>1, <3>1, <3>2, MeaningForm
    <3> QED BY <1>1, <3>3, SameMeaning
  <2>3. ManifestsOK(m, built)
    BY <1>1, <2>1, <2>2 DEF ManifestsOK
  <2>4. ASSUME NEW e \in LoggedEvents(leaves)
        PROVE  /\ e.manifest \in built /\ e.context = e.manifest.binding
               /\ e.choice \in Elements(Ids(e.manifest.meaning)) \cup {Null}
    <3>1. PICK i \in DOMAIN requests : e = VoteEvent(i)
      BY <1>1, EventOfRequest
    <3> DEFINE request == requests[i]
               intent == request.intent
    <3>2. /\ e.manifest = intent.manifest /\ e.context = intent.binding
          /\ e.choice = intent.choice /\ e.eventType = intent.eventType
      BY <3>1 DEF VoteEvent
    <3>3. /\ BallotWellFormed(request.manifest) /\ IntentWellFormed(intent)
          /\ RequestLinked(request) /\ request.manifest \in manifests
      BY <1>1 DEF IInv, RequestsOK, RequestOK, RequestVerifies, MadeInv, RequestsFollow,
                  Follows
    <3>4. e.manifest = request.manifest /\ e.context = request.manifest.binding
      BY <3>2, <3>3 DEF RequestLinked
    <3>5. Ids(request.manifest.shown) = Ids(request.manifest.meaning)
      BY <3>3 DEF BallotWellFormed
    <3>6. CASE intent.eventType = "withdraw"
      BY <3>2, <3>3, <3>4, <3>5, <3>6 DEF IntentWellFormed
    <3>7. CASE intent.eventType # "withdraw"
      <4>1. intent.choice \in Elements(Ids(request.manifest.shown))
        BY <3>3, <3>7 DEF RequestLinked
      <4> HIDE DEF request, intent
      <4> QED BY <3>2, <3>3, <3>4, <3>5, <4>1
    <3> QED BY <3>6, <3>7
  <2>5. EventManifestsOK(LoggedEvents(leaves), built)
    <3> HIDE DEF built
    <3> QED BY <2>4 DEF EventManifestsOK
  <2>6. Replay(m)!ReplayGraphOK(InputSet(m, leaves))
    <3>1. \A e \in LoggedEvents(leaves) :
            /\ e.context = m.binding
            /\ e.choice \in Elements(Ids(m.meaning)) \cup {Null}
      <4> HIDE DEF built
      <4> QED BY <2>2, <2>4
    <3> QED BY <1>1, <3>1, UndisputedReplays
  <2> HIDE DEF built
  <2> QED BY <2>3, <2>5, <2>6 DEF Replays
<1>2. IInv /\ MadeInv => TranslationsTallyTogether
  <2> HIDE DEF built
  <2>1. TranslationsTallyTogether <=>
          ((/\ \A m, n \in built : /\ Elements(m.meaning) = Elements(n.meaning)
                                   /\ m.binding = n.binding
            /\ Undisputed(leaves))
           => \A m \in built : Replays(m, built, leaves))
    BY DEF TranslationsTallyTogether, built
  <2> QED BY <1>1, <2>1
<1> QED BY <1>2, MadeInvariant, PTL
===============================================================================
