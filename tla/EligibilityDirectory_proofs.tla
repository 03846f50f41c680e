------------------------ MODULE EligibilityDirectory_proofs ------------------------
(***************************************************************************)
(* Proofs about the policy documents and the directory verifier.           *)
(*                                                                         *)
(* PolicyDocuments: for all rotations of a document an accepted one is     *)
(* never ambiguous, every sound one is accepted, and no edit reinterprets  *)
(* an old record.  DirectoryVerifier: for all records and pools of them,   *)
(* every pinned policy and every number of checkpoints, an accepted list   *)
(* is exact, what is accepted as current is what was witnessed, the parts  *)
(* of an accepted record belong together, and what was made together is    *)
(* accepted.                                                               *)
(***************************************************************************)
EXTENDS
  DirectoryVerifier, PolicyDocuments, FiniteSetTheorems, SequenceTheorems,
  WellFoundedInduction, TLAPS

-------------------------------------------------------------------------------
(* Sorting by start.                                                             *)

LEMMA SmallestSubset ==
  ASSUME NEW S, IsFiniteSet(S), NEW T, T \subseteq SUBSET S, T # {}
  PROVE  \E m \in T : \A t \in T : t \subseteq m => t = m
<1>1. IsWellFoundedOn(StrictSubsetOrdering(S), SUBSET S)
  BY FS_StrictSubsetOrderingWellFounded, FS_FiniteSubsetsOfFinite
<1>2. PICK m \in T : \A t \in T : ~ (<<t, m>> \in StrictSubsetOrdering(S))
  <2> DEFINE R == StrictSubsetOrdering(S)
             U == SUBSET S
  <2>1. IsWellFoundedOn(R, U) /\ T \subseteq U /\ T # {}
    BY <1>1
  <2> HIDE DEF R, U
  <2>2. \E m \in T : \A t \in T : ~ (<<t, m>> \in R)
    BY <2>1, WFMin
  <2> QED BY <2>2 DEF R
<1>3. ASSUME NEW t \in T, t \subseteq m
      PROVE  t = m
  <2>1. <<t, m>> \notin StrictSubsetOrdering(S)
    BY <1>2
  <2>2. t \in SUBSET S /\ m \in SUBSET S
    OBVIOUS
  <2> QED BY <1>3, <2>1, <2>2 DEF StrictSubsetOrdering
<1> QED BY <1>3

InStartOrder(windows, order) ==
  \A i, j \in DOMAIN order :
    /\ order[i] = order[j] => i = j
    /\ StartsBefore(windows[order[i]], windows[order[j]]) => i < j

\* Every finite group can be put in the order of its starts.
LEMMA OrderExists ==
  ASSUME NEW windows, NEW group, IsFiniteSet(group), \A i \in group : windows[i].from \in Int
  PROVE  \E order \in [1..Cardinality(group) -> group] : InStartOrder(windows, order)
<1> DEFINE start(i) == windows[i].from
           Sortable(T) == \E order \in [1..Cardinality(T) -> T] : InStartOrder(windows, order)
           Bad == {T \in SUBSET group : ~ Sortable(T)}
<1>1. \A i \in group : start(i) \in Int
  OBVIOUS
<1> SUFFICES ASSUME Bad # {} PROVE FALSE
  OBVIOUS
<1>2. PICK m \in Bad : \A t \in Bad : t \subseteq m => t = m
  <2>1. Bad \subseteq SUBSET group
    OBVIOUS
  <2> HIDE DEF Bad
  <2> QED BY <2>1, SmallestSubset
<1>3. m # {}
  <2>1. SUFFICES ASSUME m = {} PROVE FALSE
    OBVIOUS
  <2> DEFINE none == [i \in 1..0 |-> 0]
  <2>2. none \in [1..0 -> m] /\ Cardinality(m) = 0
    BY <2>1, FS_EmptySet
  <2>3. InStartOrder(windows, none)
    BY DEF InStartOrder
  <2> HIDE DEF none
  <2> QED BY <1>2, <2>2, <2>3
<1>4. PICK x \in m : \A y \in m : start(y) <= start(x)
  <2> DEFINE Above(y) == {z \in m : start(z) > start(y)}
             All == {Above(y) : y \in m}
  <2>1. PICK least \in All : \A t \in All : t \subseteq least => t = least
    <3>1. All \subseteq SUBSET m
      <4>1. \A y \in m : Above(y) \in SUBSET m
        OBVIOUS
      <4> HIDE DEF Above
      <4> QED BY <4>1
    <3>2. All # {}
      BY <1>3
    <3>3. IsFiniteSet(m)
      BY <1>2, FS_Subset
    <3> HIDE DEF All
    <3> QED BY <3>1, <3>2, <3>3, SmallestSubset
  <2>2. PICK y \in m : least = Above(y)
    BY <2>1
  <2>3. ASSUME NEW z \in Above(y)
        PROVE  FALSE
    <3>1. z \in m /\ start(z) > start(y) /\ start(z) \in Int /\ start(y) \in Int
      BY <1>1, <1>2
    <3>2. Above(z) \subseteq Above(y)
      BY <1>1, <1>2, <3>1
    <3>3. z \notin Above(z)
      BY <3>1
    <3> QED BY <2>1, <2>2, <2>3, <3>1, <3>2, <3>3
  <2>4. \A z \in m : start(z) <= start(y)
    BY <1>1, <1>2, <2>3
  <2> QED BY <2>4
<1> DEFINE r == m \ {x}
           n == Cardinality(m)
<1>5. n \in Nat \ {0} /\ Cardinality(r) = n - 1
  <2>1. IsFiniteSet(m)
    BY FS_Subset
  <2> QED BY <1>3, <2>1, FS_RemoveElement, FS_CardinalityType, FS_EmptySet
<1>6. r \in SUBSET group /\ r \notin Bad
  BY <1>2
<1>7. PICK s \in [1..(n - 1) -> r] : InStartOrder(windows, s)
  <2>1. PICK s \in [1..Cardinality(r) -> r] : InStartOrder(windows, s)
    BY <1>6
  <2> QED BY <2>1, <1>5
<1> DEFINE t == [i \in 1..n |-> IF i = n THEN x ELSE s[i]]
<1> HIDE DEF n
<1>8. t \in [1..n -> m]
  <2>1. ASSUME NEW i \in 1..n, i # n
        PROVE  i \in 1..(n - 1)
    BY <1>5, <2>1
  <2> QED BY <1>7, <2>1
<1>9. \A i \in 1..(n - 1) : t[i] = s[i] /\ s[i] \in r /\ i \in 1..n /\ i < n
  BY <1>5, <1>7
<1>10. t[n] = x /\ n \in 1..n /\ \A i \in 1..n : i # n => i \in 1..(n - 1)
  BY <1>5
<1>11. InStartOrder(windows, t)
  <2>1. ASSUME NEW i \in 1..n, NEW j \in 1..n, t[i] = t[j]
        PROVE  i = j
    <3>1. CASE i # n /\ j # n
      BY <3>1, <2>1, <1>7, <1>9, <1>10 DEF InStartOrder
    <3>2. CASE i = n \/ j = n
      BY <3>2, <2>1, <1>9, <1>10
    <3> QED BY <3>1, <3>2
  <2>2. ASSUME NEW i \in 1..n, NEW j \in 1..n, start(t[i]) < start(t[j])
        PROVE  i < j
    <3>1. CASE i # n /\ j # n
      BY <3>1, <2>2, <1>7, <1>9, <1>10 DEF InStartOrder, StartsBefore
    <3>2. CASE i = n
      <4>1. t[j] \in m /\ start(t[j]) <= start(x) /\ start(t[j]) \in Int /\ start(x) \in Int
        BY <1>1, <1>2, <1>4, <1>8
      <4> QED BY <3>2, <4>1, <2>2, <1>10
    <3>3. CASE i # n /\ j = n
      BY <3>3, <1>9, <1>10
    <3> QED BY <3>1, <3>2, <3>3
  <2>3. DOMAIN t = 1..n
    OBVIOUS
  <2> HIDE DEF t
  <2> QED BY <2>1, <2>2, <2>3 DEF InStartOrder, StartsBefore
<1>12. \E order \in [1..n -> m] : InStartOrder(windows, order)
  <2> HIDE DEF t
  <2> QED BY <1>8, <1>11
<1> QED BY <1>2, <1>12 DEF n

\* The order that the sort leaves: it has every place of the group once.
LEMMA OrderForm ==
  ASSUME NEW windows, NEW group, IsFiniteSet(group), \A i \in group : windows[i].from \in Int
  PROVE  LET order == InOrder(windows, group)
             n     == Cardinality(group)
         IN  /\ order \in [1..n -> group] /\ n \in Nat
             /\ \A i, j \in 1..n : /\ order[i] = order[j] => i = j
                                   /\ i <= j => windows[order[i]].from <= windows[order[j]].from
             /\ \A g \in group : \E i \in 1..n : order[i] = g
<1> DEFINE order == InOrder(windows, group)
           n == Cardinality(group)
<1>1. order \in [1..n -> group] /\ InStartOrder(windows, order)
  BY OrderExists DEF InOrder, InStartOrder
<1>2. n \in Nat
  BY FS_CardinalityType
<1> HIDE DEF order, n
<1>3. \A i, j \in 1..n : order[i] = order[j] => i = j
  BY <1>1 DEF InStartOrder
<1>4. ASSUME NEW i \in 1..n, NEW j \in 1..n, i <= j
      PROVE  windows[order[i]].from <= windows[order[j]].from
  <2>1. windows[order[i]].from \in Int /\ windows[order[j]].from \in Int
    BY <1>1
  <2>2. windows[order[j]].from < windows[order[i]].from => j < i
    BY <1>1 DEF InStartOrder, StartsBefore
  <2> QED BY <1>2, <1>4, <2>1, <2>2
<1>5. order \in Surjection(1..n, group)
  <2> DEFINE I == 1..n
  <2>1. Cardinality(I) = Cardinality(group)
    BY <1>2, FS_Interval DEF n
  <2>2. order \in Injection(I, group)
    BY <1>1, <1>3 DEF Injection, IsInjective
  <2> HIDE DEF I
  <2>3. order \in Surjection(I, group)
    BY <2>1, <2>2, FS_Injection
  <2> QED BY <2>3 DEF I
<1>6. \A g \in group : \E i \in 1..n : order[i] = g
  BY <1>5 DEF Surjection
<1> QED BY <1>1, <1>2, <1>3, <1>4, <1>6 DEF order, n

\* Comparing neighbours compares all: two windows of a group never contain one time.
LEMMA NeighboursSuffice ==
  ASSUME NEW windows, NEW group, IsFiniteSet(group),
         \A i \in group : windows[i].from \in Int /\ windows[i].until \in Int \cup {NoEnd},
         NoOverlappingWindows(windows, group),
         NEW time \in Int, NEW g \in group, NEW h \in group,
         ContainsTime(windows[g], time), ContainsTime(windows[h], time)
  PROVE  g = h
<1> DEFINE order == InOrder(windows, group)
           n == Cardinality(group)
<1>1. /\ order \in [1..n -> group] /\ n \in Nat
      /\ \A i, j \in 1..n : i <= j => windows[order[i]].from <= windows[order[j]].from
      /\ \A x \in group : \E i \in 1..n : order[i] = x
  BY OrderForm
<1>2. \A i \in 1..n - 1 : EndsBeforeNext(windows[order[i]], windows[order[i + 1]])
  BY DEF NoOverlappingWindows
<1> HIDE DEF order, n
<1>3. ASSUME NEW i \in 1..n, NEW j \in 1..n, i < j,
             ContainsTime(windows[order[i]], time), ContainsTime(windows[order[j]], time)
      PROVE  FALSE
  <2>1. i \in 1..n - 1 /\ i + 1 \in 1..n /\ i + 1 <= j
    BY <1>1, <1>3
  <2> DEFINE v == windows[order[i]]
             w == windows[order[i + 1]]
             u == windows[order[j]]
  <2>2. v.until # NoEnd /\ v.until <= w.from
    BY <1>2, <2>1 DEF EndsBeforeNext
  <2>3. w.from <= u.from
    BY <1>1, <2>1
  <2>4. u.from <= time /\ time < v.until
    BY <1>3, <2>2 DEF ContainsTime
  <2>5. v.until \in Int /\ w.from \in Int /\ u.from \in Int
    BY <1>1, <2>1, <2>2
  <2> HIDE DEF v, w, u
  <2> QED BY <2>2, <2>3, <2>4, <2>5
<1>4. PICK i \in 1..n, j \in 1..n : order[i] = g /\ order[j] = h
  BY <1>1
<1>5. i = j
  <2>1. ~ (i < j) /\ ~ (j < i)
    BY <1>3, <1>4
  <2> QED BY <1>1, <2>1
<1> QED BY <1>4, <1>5

-------------------------------------------------------------------------------
(* The documents that editing can produce.                                       *)

ListOK(list, entries) ==
  /\ entries \in Seq(Elements(entries)) /\ Len(entries) >= 1
  /\ \A w \in Elements(entries) : EntryOK(list, w)

DocumentOK(d) ==
  /\ d = [list \in Lists |-> d[list]]
  /\ \A list \in Lists : ListOK(list, d[list])

LEMMA DocumentReadable ==
  ASSUME NEW d, DocumentOK(d)
  PROVE  Readable(d)
BY DocumentsAssumption DEF DocumentOK, ListOK, EntryOK, Readable

LEMMA ElementsOf ==
  ASSUME NEW s, NEW S, s \in Seq(S)
  PROVE  /\ s \in Seq(Elements(s)) /\ Elements(s) \subseteq S
         /\ DOMAIN s = 1..Len(s) /\ Len(s) \in Nat
BY DEF Elements

\* A new entry leaves the others in the list.
LEMMA InsertedForm ==
  ASSUME NEW s, s \in Seq(Elements(s)), NEW i \in 1..Len(s) + 1, NEW x
  PROVE  /\ Inserted(s, i, x) \in Seq(Elements(Inserted(s, i, x)))
         /\ Elements(Inserted(s, i, x)) \subseteq Elements(s) \cup {x}
         /\ Len(Inserted(s, i, x)) >= 1
<1> DEFINE S == Elements(s) \cup {x}
           before == SubSeq(s, 1, i - 1)
           after == SubSeq(s, i, Len(s))
<1>1. s \in Seq(S) /\ Len(s) \in Nat /\ x \in S
  BY SeqMonotonic
<1> HIDE DEF S
<1>2. before \in Seq(S) /\ after \in Seq(S)
  BY <1>1, SubSeqProperties
<1>3. <<x>> \in Seq(S) /\ Len(<<x>>) = 1
  BY <1>1
<1> HIDE DEF before, after
<1>4. before \o <<x>> \in Seq(S) /\ Len(before \o <<x>>) >= 1
  BY <1>2, <1>3, ConcatProperties, LenProperties
<1> DEFINE y == before \o <<x>>
<1>5. y \in Seq(S) /\ Len(y) >= 1
  BY <1>4
<1> HIDE DEF y
<1>6. y \o after \in Seq(S) /\ Len(y \o after) >= 1
  BY <1>2, <1>5, ConcatProperties, LenProperties
<1>7. Inserted(s, i, x) \in Seq(S) /\ Len(Inserted(s, i, x)) >= 1
  BY <1>6 DEF Inserted, y, before, after
<1> QED BY <1>7, ElementsOf DEF S

LEMMA DocumentInitially == InitDocument => DocumentOK(document)
<1> SUFFICES ASSUME InitDocument PROVE DocumentOK(document)
  OBVIOUS
<1>1. document = Start
  BY DEF InitDocument
<1>2. \A list \in Lists : ListOK(list, Start[list])
  BY DocumentsAssumption DEF ListOK
<1> QED BY <1>1, <1>2, DocumentsAssumption DEF DocumentOK

LEMMA InsertStep ==
  ASSUME DocumentOK(document), NEW list \in Lists, Insert(list)
  PROVE  DocumentOK(document')
<1>1. PICK entry \in Universe(list), i \in 1..Len(document[list]) + 1 :
        document' = [document EXCEPT ![list] = Inserted(document[list], i, entry)]
  BY DEF Insert
<1> DEFINE old == document[list]
           new == Inserted(old, i, entry)
<1>2. ListOK(list, old) /\ document = [l \in Lists |-> document[l]]
  BY DEF DocumentOK
<1>3. /\ document' = [l \in Lists |-> document'[l]] /\ document'[list] = new
      /\ \A l \in Lists : l # list => document'[l] = document[l]
  BY <1>1, <1>2
<1>4. ListOK(list, new)
  <2> HIDE DEF old
  <2>1. EntryOK(list, entry)
    BY DocumentsAssumption
  <2>2. /\ new \in Seq(Elements(new)) /\ Elements(new) \subseteq Elements(old) \cup {entry}
        /\ Len(new) >= 1
    BY <1>2, InsertedForm DEF ListOK, old
  <2> HIDE DEF new
  <2> QED BY <1>2, <2>1, <2>2 DEF ListOK
<1> HIDE DEF old, new
<1>5. \A l \in Lists : ListOK(l, document'[l])
  BY <1>3, <1>4 DEF DocumentOK
<1> QED BY <1>3, <1>5 DEF DocumentOK

LEMMA CloseStep ==
  ASSUME DocumentOK(document), CloseWindow
  PROVE  DocumentOK(document')
<1>1. PICK list \in Lists, time \in Retirements :
        \E i \in DOMAIN document[list] :
          document' = [document EXCEPT ![list][i].until = time]
  BY DEF CloseWindow
<1>2. PICK i \in DOMAIN document[list] :
        document' = [document EXCEPT ![list][i].until = time]
  BY <1>1
<1> DEFINE old == document[list]
           w == [old[i] EXCEPT !.until = time]
           new == [old EXCEPT ![i] = w]
<1>3. ListOK(list, old) /\ document = [l \in Lists |-> document[l]]
  BY DEF DocumentOK
<1>4. /\ document' = [l \in Lists |-> document'[l]] /\ document'[list] = new
      /\ \A l \in Lists : l # list => document'[l] = document[l]
  BY <1>2, <1>3
<1>5. EntryOK(list, w)
  <2>1. EntryOK(list, old[i])
    BY <1>3 DEF ListOK, Elements
  <2>2. time \in Int /\ "until" \in Fields(list) /\ "from" \in Fields(list)
    BY DocumentsAssumption DEF Fields
  <2> QED BY <2>1, <2>2 DEF EntryOK
<1>6. ListOK(list, new)
  <2> HIDE DEF w
  <2>1. new \in Seq(Elements(old) \cup {w}) /\ Len(new) = Len(old)
    <3> DEFINE S == Elements(old) \cup {w}
    <3>1. old \in Seq(S)
      BY <1>3, SeqMonotonic DEF ListOK
    <3>2. i \in 1..Len(old) /\ w \in S
      BY <1>3 DEF ListOK
    <3> HIDE DEF old, S
    <3>3. new \in Seq(S) /\ Len(new) = Len(old)
      BY <3>1, <3>2, ExceptSeq
    <3> QED BY <3>3 DEF S
  <2> HIDE DEF new, old
  <2>2. new \in Seq(Elements(new)) /\ Elements(new) \subseteq Elements(old) \cup {w}
    BY <2>1, ElementsOf
  <2> QED BY <1>3, <1>5, <2>1, <2>2 DEF ListOK
<1> HIDE DEF old, new
<1>7. \A l \in Lists : ListOK(l, document'[l])
  BY <1>4, <1>6 DEF DocumentOK
<1> QED BY <1>4, <1>7 DEF DocumentOK

\* Whatever is inserted and retired, the document remains one that the parser can read.
THEOREM DocumentInvariant == DocumentSpec => []DocumentOK(document)
<1>1. DocumentOK(document) /\ [EditDocument]_document => DocumentOK(document)'
  <2>1. ASSUME DocumentOK(document), EditDocument PROVE DocumentOK(document')
    BY <2>1, InsertStep, CloseStep
       DEF EditDocument, AddVotingPolicy, AddServerKey, AddIdentityPolicy, Lists
  <2>2. ASSUME DocumentOK(document), UNCHANGED document PROVE DocumentOK(document')
    BY <2>2 
  <2> QED BY <2>1, <2>2
<1> QED BY DocumentInitially, <1>1, PTL DEF DocumentSpec

-------------------------------------------------------------------------------
(* Selection.                                                                    *)

\* An accepted document has one entry at most for what is asked of it at a time.
LEMMA Unambiguous ==
  ASSUME NEW d, Readable(d), PolicyAccepted(d), NEW time \in Int
  PROVE  /\ \A w \in Elements(d.votingPolicies) : AtMostOne(VotingMatches(d, w.binding, time))
         /\ \A k \in Elements(d.serverKeys) :
              AtMostOne(KeyMatches(d, k.keyId, k.purpose, time))
         /\ \A i, j \in IdentityCandidates(d, time) :
              d.identityPolicies[i].image = d.identityPolicies[j].image => i = j
<1>1. ASSUME NEW list \in Lists
      PROVE  /\ IsFiniteSet(DOMAIN d[list])
             /\ \A i \in DOMAIN d[list] : /\ d[list][i].from \in Int
                                          /\ d[list][i].until \in Int \cup {NoEnd}
  <2>1. DOMAIN d[list] = 1..Len(d[list]) /\ Len(d[list]) \in Nat
    BY DEF Readable
  <2>2. IsFiniteSet(DOMAIN d[list])
    BY <2>1, FS_Interval
  <2> QED BY <2>2 DEF Readable, Elements
<1>2. ASSUME NEW w \in Elements(d.votingPolicies)
      PROVE  AtMostOne(VotingMatches(d, w.binding, time))
  <2> DEFINE windows == d.votingPolicies
             group == VotingGroup(d, w.binding)
  <2>1. NoOverlappingWindows(windows, group)
    BY DEF PolicyAccepted
  <2>2. /\ IsFiniteSet(DOMAIN windows)
        /\ \A i \in DOMAIN windows : /\ windows[i].from \in Int
                                     /\ windows[i].until \in Int \cup {NoEnd}
    BY <1>1 DEF Lists
  <2>3. group \subseteq DOMAIN windows
    BY DEF VotingGroup
  <2>4. IsFiniteSet(group)
    BY <2>2, <2>3, FS_Subset
  <2>5. \A i \in VotingMatches(d, w.binding, time) :
          i \in group /\ ContainsTime(windows[i], time)
    BY DEF VotingMatches, VotingGroup
  <2> HIDE DEF windows, group
  <2>6. \A i, j \in VotingMatches(d, w.binding, time) : i = j
    BY <2>1, <2>2, <2>3, <2>4, <2>5, NeighboursSuffice
  <2> QED BY <2>6 DEF AtMostOne
<1>3. ASSUME NEW k \in Elements(d.serverKeys)
      PROVE  AtMostOne(KeyMatches(d, k.keyId, k.purpose, time))
  <2> DEFINE windows == d.serverKeys
             group == KeyGroup(d, k.purpose, k.keyId)
  <2>1. NoOverlappingWindows(windows, group)
    BY DEF PolicyAccepted
  <2>2. /\ IsFiniteSet(DOMAIN windows)
        /\ \A i \in DOMAIN windows : /\ windows[i].from \in Int
                                     /\ windows[i].until \in Int \cup {NoEnd}
    BY <1>1 DEF Lists
  <2>3. group \subseteq DOMAIN windows
    BY DEF KeyGroup
  <2>4. IsFiniteSet(group)
    BY <2>2, <2>3, FS_Subset
  <2>5. \A i \in KeyMatches(d, k.keyId, k.purpose, time) :
          i \in group /\ ContainsTime(windows[i], time)
    BY DEF KeyMatches, KeyGroup
  <2> HIDE DEF windows, group
  <2>6. \A i, j \in KeyMatches(d, k.keyId, k.purpose, time) : i = j
    BY <2>1, <2>2, <2>3, <2>4, <2>5, NeighboursSuffice
  <2> QED BY <2>6 DEF AtMostOne
<1>4. ASSUME NEW g \in IdentityCandidates(d, time), NEW h \in IdentityCandidates(d, time),
             d.identityPolicies[g].image = d.identityPolicies[h].image
      PROVE  g = h
  <2> DEFINE windows == d.identityPolicies
             group == ImageGroup(d, windows[g].image)
  <2>1. /\ g \in DOMAIN windows /\ ContainsTime(windows[g], time)
        /\ h \in DOMAIN windows /\ ContainsTime(windows[h], time)
    BY DEF IdentityCandidates
  <2>2. /\ IsFiniteSet(DOMAIN windows)
        /\ \A i \in DOMAIN windows : /\ windows[i].from \in Int
                                     /\ windows[i].until \in Int \cup {NoEnd}
    BY <1>1 DEF Lists
  <2>3. windows[g] \in Elements(windows)
    BY <2>1 DEF Elements
  <2>4. NoOverlappingWindows(windows, group)
    BY <2>3 DEF PolicyAccepted
  <2>5. group \subseteq DOMAIN windows /\ g \in group /\ h \in group
    BY <1>4, <2>1 DEF ImageGroup
  <2>6. IsFiniteSet(group)
    BY <2>2, <2>5, FS_Subset
  <2> HIDE DEF windows, group
  <2> QED BY <2>1, <2>2, <2>4, <2>5, <2>6, NeighboursSuffice
<1> QED BY <1>2, <1>3, <1>4

\* No accepted document is ambiguous at any time, though the parser compares neighbours
\* only (ensureNoOverlappingWindows).
THEOREM NeverAmbiguous == DocumentSpec => []SelectionUnambiguous
<1>1. DocumentOK(document) => SelectionUnambiguous
  BY DocumentReadable, Unambiguous, DocumentsAssumption DEF SelectionUnambiguous
<1> QED BY <1>1, DocumentInvariant, PTL

-------------------------------------------------------------------------------
(* Acceptance.                                                                   *)

\* Windows of which no two contain one of the starts follow one another.
LEMMA FollowOneAnother ==
  ASSUME NEW windows, NEW group, IsFiniteSet(group),
         \A i \in group : /\ windows[i].from \in Times
                          /\ windows[i].until \in Int \cup {NoEnd} /\ WindowOK(windows[i]),
         \A time \in Times, g, h \in group :
           ContainsTime(windows[g], time) /\ ContainsTime(windows[h], time) => g = h
  PROVE  NoOverlappingWindows(windows, group)
<1> DEFINE order == InOrder(windows, group)
           n == Cardinality(group)
<1>1. \A i \in group : windows[i].from \in Int
  BY DocumentsAssumption
<1>2. /\ order \in [1..n -> group] /\ n \in Nat
      /\ \A i, j \in 1..n : /\ order[i] = order[j] => i = j
                            /\ i <= j => windows[order[i]].from <= windows[order[j]].from
  BY <1>1, OrderForm
<1> HIDE DEF order, n
<1>3. ASSUME NEW i \in 1..n - 1
      PROVE  EndsBeforeNext(windows[order[i]], windows[order[i + 1]])
  <2> DEFINE g == order[i]
             h == order[i + 1]
  <2>1. i \in 1..n /\ i + 1 \in 1..n /\ i # i + 1 /\ i <= i + 1
    BY <1>2
  <2>2. g \in group /\ h \in group /\ g # h /\ windows[g].from <= windows[h].from
    BY <1>2, <2>1
  <2> HIDE DEF g, h
  <2>3. ContainsTime(windows[h], windows[h].from)
    BY <1>1, <2>2 DEF ContainsTime, WindowOK
  <2>4. ~ ContainsTime(windows[g], windows[h].from)
    BY <2>2, <2>3
  <2>5. windows[g].until # NoEnd /\ ~ (windows[h].from < windows[g].until)
    BY <2>2, <2>4 DEF ContainsTime
  <2> QED BY <1>1, <2>2, <2>5 DEF EndsBeforeNext, g, h
<1> QED BY <1>2, <1>3 DEF NoOverlappingWindows, order, n

LEMMA SoundIsAccepted ==
  ASSUME NEW d, DocumentOK(d),
         \A purpose \in {"eligibility", "receipt"} :
           \E k \in Elements(d.serverKeys) : k.purpose = purpose,
         \A list \in Lists : \A w \in Elements(d[list]) : WindowOK(w),
         \A k, l \in Elements(d.serverKeys) :
           k.purpose = l.purpose /\ k.keyId = l.keyId => k.spki = l.spki,
         \A time \in Times :
           /\ \A w \in Elements(d.votingPolicies) : AtMostOne(VotingMatches(d, w.binding, time))
           /\ \A k \in Elements(d.serverKeys) :
                AtMostOne(KeyMatches(d, k.keyId, k.purpose, time))
           /\ \A i, j \in IdentityCandidates(d, time) :
                d.identityPolicies[i].image = d.identityPolicies[j].image => i = j
  PROVE  PolicyAccepted(d)
<1>1. ASSUME NEW list \in Lists
      PROVE  /\ IsFiniteSet(DOMAIN d[list]) /\ Len(d[list]) \in Nat /\ Len(d[list]) >= 1
             /\ DOMAIN d[list] = 1..Len(d[list])
             /\ \A i \in DOMAIN d[list] : /\ d[list][i].from \in Times
                                          /\ d[list][i].until \in Int \cup {NoEnd}
                                          /\ WindowOK(d[list][i])
  <2>1. ListOK(list, d[list])
    BY DEF DocumentOK
  <2>2. DOMAIN d[list] = 1..Len(d[list]) /\ Len(d[list]) \in Nat /\ Len(d[list]) >= 1
    BY <2>1 DEF ListOK
  <2>3. IsFiniteSet(DOMAIN d[list])
    BY <2>2, FS_Interval
  <2>4. \A i \in DOMAIN d[list] : EntryOK(list, d[list][i])
    BY <2>1 DEF ListOK, Elements
  <2>5. \A i \in DOMAIN d[list] : WindowOK(d[list][i])
    BY DEF Elements
  <2> QED BY <2>2, <2>3, <2>4, <2>5 DEF EntryOK
<1>2. ASSUME NEW w \in Elements(d.votingPolicies)
      PROVE  NoOverlappingWindows(d.votingPolicies, VotingGroup(d, w.binding))
  <2> DEFINE windows == d.votingPolicies
             group == VotingGroup(d, w.binding)
  <2>1. /\ IsFiniteSet(DOMAIN windows)
        /\ \A i \in DOMAIN windows : /\ windows[i].from \in Times
                                     /\ windows[i].until \in Int \cup {NoEnd}
                                     /\ WindowOK(windows[i])
    BY <1>1 DEF Lists
  <2>2. group \subseteq DOMAIN windows
    BY DEF VotingGroup
  <2>3. IsFiniteSet(group)
    BY <2>1, <2>2, FS_Subset
  <2>4. ASSUME NEW time \in Times, NEW g \in group, NEW h \in group,
               ContainsTime(windows[g], time), ContainsTime(windows[h], time)
        PROVE  g = h
    <3>1. g \in VotingMatches(d, w.binding, time) /\ h \in VotingMatches(d, w.binding, time)
      BY <2>4 DEF VotingMatches, VotingGroup
    <3>2. AtMostOne(VotingMatches(d, w.binding, time))
      OBVIOUS
    <3> QED BY <3>1, <3>2 DEF AtMostOne
  <2> HIDE DEF windows, group
  <2>5. NoOverlappingWindows(windows, group)
    BY <2>1, <2>2, <2>3, <2>4, FollowOneAnother
  <2> QED BY <2>5 DEF windows, group
<1>3. ASSUME NEW k \in Elements(d.serverKeys)
      PROVE  NoOverlappingWindows(d.serverKeys, KeyGroup(d, k.purpose, k.keyId))
  <2> DEFINE windows == d.serverKeys
             group == KeyGroup(d, k.purpose, k.keyId)
  <2>1. /\ IsFiniteSet(DOMAIN windows)
        /\ \A i \in DOMAIN windows : /\ windows[i].from \in Times
                                     /\ windows[i].until \in Int \cup {NoEnd}
                                     /\ WindowOK(windows[i])
    BY <1>1 DEF Lists
  <2>2. group \subseteq DOMAIN windows
    BY DEF KeyGroup
  <2>3. IsFiniteSet(group)
    BY <2>1, <2>2, FS_Subset
  <2>4. ASSUME NEW time \in Times, NEW g \in group, NEW h \in group,
               ContainsTime(windows[g], time), ContainsTime(windows[h], time)
        PROVE  g = h
    <3>1. /\ g \in KeyMatches(d, k.keyId, k.purpose, time)
          /\ h \in KeyMatches(d, k.keyId, k.purpose, time)
      BY <2>4 DEF KeyMatches, KeyGroup
    <3>2. AtMostOne(KeyMatches(d, k.keyId, k.purpose, time))
      OBVIOUS
    <3> QED BY <3>1, <3>2 DEF AtMostOne
  <2> HIDE DEF windows, group
  <2>5. NoOverlappingWindows(windows, group)
    BY <2>1, <2>2, <2>3, <2>4, FollowOneAnother
  <2> QED BY <2>5 DEF windows, group
<1>4. ASSUME NEW w \in Elements(d.identityPolicies)
      PROVE  NoOverlappingWindows(d.identityPolicies, ImageGroup(d, w.image))
  <2> DEFINE windows == d.identityPolicies
             group == ImageGroup(d, w.image)
  <2>1. /\ IsFiniteSet(DOMAIN windows)
        /\ \A i \in DOMAIN windows : /\ windows[i].from \in Times
                                     /\ windows[i].until \in Int \cup {NoEnd}
                                     /\ WindowOK(windows[i])
    BY <1>1 DEF Lists
  <2>2. group \subseteq DOMAIN windows
    BY DEF ImageGroup
  <2>3. IsFiniteSet(group)
    BY <2>1, <2>2, FS_Subset
  <2>4. ASSUME NEW time \in Times, NEW g \in group, NEW h \in group,
               ContainsTime(windows[g], time), ContainsTime(windows[h], time)
        PROVE  g = h
    <3>1. /\ g \in IdentityCandidates(d, time) /\ h \in IdentityCandidates(d, time)
          /\ d.identityPolicies[g].image = d.identityPolicies[h].image
      BY <2>4 DEF IdentityCandidates, ImageGroup
    <3> QED BY <3>1
  <2> HIDE DEF windows, group
  <2>5. NoOverlappingWindows(windows, group)
    BY <2>1, <2>2, <2>3, <2>4, FollowOneAnother
  <2> QED BY <2>5 DEF windows, group
<1>5. \A k \in Elements(d.serverKeys) :
        \A i \in KeyGroup(d, k.purpose, k.keyId) : d.serverKeys[i].spki = k.spki
  BY DEF KeyGroup, Elements
<1>6. Len(d.serverKeys) >= 2
  <2>1. PICK k \in Elements(d.serverKeys), l \in Elements(d.serverKeys) :
          k.purpose = "eligibility" /\ l.purpose = "receipt"
    OBVIOUS
  <2>2. PICK i \in DOMAIN d.serverKeys, j \in DOMAIN d.serverKeys :
          k = d.serverKeys[i] /\ l = d.serverKeys[j]
    BY DEF Elements
  <2>3. i # j
    BY <2>1, <2>2
  <2>4. i \in 1..Len(d.serverKeys) /\ j \in 1..Len(d.serverKeys) /\ Len(d.serverKeys) \in Nat
    BY <1>1, <2>2 DEF Lists
  <2> QED BY <2>3, <2>4
<1>7. Len(d.identityPolicies) >= 1 /\ Len(d.votingPolicies) >= 1
  BY <1>1 DEF Lists
<1>8. \A w \in Elements(d.votingPolicies) \cup Elements(d.serverKeys)
                \cup Elements(d.identityPolicies) : WindowOK(w)
  BY DEF Lists
<1> QED BY <1>2, <1>3, <1>4, <1>5, <1>6, <1>7, <1>8 DEF PolicyAccepted

\* The parser accepts whatever has sound windows and is ambiguous at no start of a window.
THEOREM SoundAccepted == DocumentSpec => []SoundDocumentsAccepted
<1>1. DocumentOK(document) => SoundDocumentsAccepted
  BY SoundIsAccepted DEF SoundDocumentsAccepted
<1> QED BY <1>1, DocumentInvariant, PTL

-------------------------------------------------------------------------------
(* Old records.                                                                  *)

InForceUnder(d, list, time) ==
  {[w EXCEPT !.until = NoEnd] : w \in {v \in Elements(d[list]) : ContainsTime(v, time)}}

VerifiesUnder(d, r, time) ==
  /\ PolicyAccepted(d)
  /\ RecordIntact(r)
  /\ ChainHolds(d, Expected, Expected.binding, time, r)
  /\ RecordAttested(d, r) /\ RecordPasskeyBound(d, r)

\* An entry in force has a counterpart in every document that says the same at that time.
LEMMA Counterpart ==
  ASSUME NEW p, DocumentOK(p), NEW q, DocumentOK(q), NEW list \in Lists, NEW time,
         InForceUnder(p, list, time) \subseteq InForceUnder(q, list, time),
         NEW i \in DOMAIN p[list], ContainsTime(p[list][i], time)
  PROVE  \E j \in DOMAIN q[list] :
           /\ ContainsTime(q[list][j], time)
           /\ \A field \in Fields(list) \ {"until"} : q[list][j][field] = p[list][i][field]
<1> DEFINE v == p[list][i]
<1>1. v \in Elements(p[list]) /\ EntryOK(list, v)
  BY DEF DocumentOK, ListOK, Elements
<1>2. [v EXCEPT !.until = NoEnd] \in InForceUnder(q, list, time)
  BY <1>1 DEF InForceUnder
<1>3. PICK w \in Elements(q[list]) :
        ContainsTime(w, time) /\ [w EXCEPT !.until = NoEnd] = [v EXCEPT !.until = NoEnd]
  BY <1>2 DEF InForceUnder
<1>4. EntryOK(list, w)
  BY DEF DocumentOK, ListOK
<1>5. PICK j \in DOMAIN q[list] : w = q[list][j]
  BY DEF Elements
<1>6. ASSUME NEW field \in Fields(list) \ {"until"}
      PROVE  w[field] = v[field]
  <2>1. /\ [w EXCEPT !.until = NoEnd][field] = w[field]
        /\ [v EXCEPT !.until = NoEnd][field] = v[field]
    BY <1>1, <1>4 DEF EntryOK
  <2> QED BY <1>3, <2>1
<1> QED BY <1>3, <1>5, <1>6

LEMMA SoleForm ==
  ASSUME NEW S, IsFiniteSet(S)
  PROVE  Sole(S) <=> S # {} /\ AtMostOne(S)
<1>1. ASSUME Sole(S) PROVE S # {} /\ AtMostOne(S)
  <2>1. \E x : S = {x}
    BY <1>1, FS_Singleton DEF Sole
  <2> QED BY <2>1 DEF AtMostOne
<1>2. ASSUME S # {}, AtMostOne(S) PROVE Sole(S)
  <2>1. PICK x : S = {x}
    BY <1>2 DEF AtMostOne
  <2> QED BY <2>1, FS_Singleton DEF Sole
<1> QED BY <1>1, <1>2

\* The places of a document are finitely many.
LEMMA FinitePlaces ==
  ASSUME NEW d, Readable(d)
  PROVE  /\ IsFiniteSet(DOMAIN d.votingPolicies) /\ IsFiniteSet(DOMAIN d.serverKeys)
         /\ IsFiniteSet(DOMAIN d.identityPolicies)
<1>1. ASSUME NEW list \in Lists
      PROVE  IsFiniteSet(DOMAIN d[list])
  <2>1. DOMAIN d[list] = 1..Len(d[list]) /\ Len(d[list]) \in Nat
    BY DEF Readable
  <2> QED BY <2>1, FS_Interval
<1> QED BY <1>1 DEF Lists

LEMMA VotingKept ==
  ASSUME NEW p, DocumentOK(p), NEW q, DocumentOK(q), PolicyAccepted(q), NEW time \in Int,
         InForceUnder(p, "votingPolicies", time) \subseteq InForceUnder(q, "votingPolicies", time),
         NEW binding, VotingPolicyAt(p, binding, time)
  PROVE  VotingPolicyAt(q, binding, time)
<1>1. IsFiniteSet(VotingMatches(p, binding, time)) /\ IsFiniteSet(VotingMatches(q, binding, time))
  BY DocumentReadable, FinitePlaces, FS_Subset DEF VotingMatches
<1>2. PICK i : i \in VotingMatches(p, binding, time)
  BY <1>1, SoleForm DEF VotingPolicyAt
<1>3. /\ i \in DOMAIN p["votingPolicies"] /\ ContainsTime(p["votingPolicies"][i], time)
      /\ p["votingPolicies"][i]["binding"] = binding
  BY <1>2 DEF VotingMatches
<1>4. "votingPolicies" \in Lists /\ {"binding"} \subseteq Fields("votingPolicies") \ {"until"}
  BY DEF Lists, Fields
<1>5. PICK j \in DOMAIN q["votingPolicies"] :
        /\ ContainsTime(q["votingPolicies"][j], time)
        /\ \A field \in {"binding"} :
             q["votingPolicies"][j][field] = p["votingPolicies"][i][field]
  BY <1>3, <1>4, Counterpart
<1>6. q["votingPolicies"][j]["binding"] = binding
  BY <1>3, <1>5
<1>7. j \in VotingMatches(q, binding, time)
  BY <1>5, <1>6 DEF VotingMatches
<1>8. AtMostOne(VotingMatches(q, binding, time))
  <2>1. /\ q.votingPolicies[j] \in Elements(q.votingPolicies)
        /\ q.votingPolicies[j].binding = binding
    BY <1>5, <1>6 DEF Elements
  <2> QED BY <2>1, DocumentReadable, Unambiguous
<1> QED BY <1>1, <1>7, <1>8, SoleForm DEF VotingPolicyAt

LEMMA SignatureKept ==
  ASSUME NEW p, DocumentOK(p), NEW q, DocumentOK(q), PolicyAccepted(q), NEW time \in Int,
         InForceUnder(p, "serverKeys", time) \subseteq InForceUnder(q, "serverKeys", time),
         NEW envelope, SignedInForce(p, envelope, time)
  PROVE  SignedInForce(q, envelope, time)
<1> DEFINE id == envelope.keyId
           keys == KeyMatches(p, id, "eligibility", time)
           others == KeyMatches(q, id, "eligibility", time)
<1>1. IsFiniteSet(keys) /\ IsFiniteSet(others)
  BY DocumentReadable, FinitePlaces, FS_Subset DEF KeyMatches
<1>2. /\ Sole(keys) /\ EnvelopeIntact(envelope)
      /\ \A i \in keys : p.serverKeys[i].spki = envelope.signedBy
  BY DEF SignedInForce
<1>3. PICK i : i \in keys
  BY <1>1, <1>2, SoleForm
<1>4. /\ i \in DOMAIN p["serverKeys"] /\ ContainsTime(p["serverKeys"][i], time)
      /\ p["serverKeys"][i]["keyId"] = id /\ p["serverKeys"][i]["purpose"] = "eligibility"
      /\ p["serverKeys"][i]["spki"] = envelope.signedBy
  BY <1>2, <1>3 DEF KeyMatches
<1>5. "serverKeys" \in Lists /\ {"keyId", "purpose", "spki"} \subseteq Fields("serverKeys") \ {"until"}
  BY DEF Lists, Fields
<1>6. PICK j \in DOMAIN q["serverKeys"] :
        /\ ContainsTime(q["serverKeys"][j], time)
        /\ \A field \in {"keyId", "purpose", "spki"} :
             q["serverKeys"][j][field] = p["serverKeys"][i][field]
  BY <1>4, <1>5, Counterpart
<1>7. /\ q["serverKeys"][j]["keyId"] = id /\ q["serverKeys"][j]["purpose"] = "eligibility"
      /\ q["serverKeys"][j]["spki"] = envelope.signedBy
  BY <1>4, <1>6
<1>8. j \in others /\ q.serverKeys[j].spki = envelope.signedBy
  BY <1>6, <1>7 DEF KeyMatches
<1>9. AtMostOne(others)
  <2>1. /\ q.serverKeys[j] \in Elements(q.serverKeys)
        /\ q.serverKeys[j].keyId = id /\ q.serverKeys[j].purpose = "eligibility"
    BY <1>6, <1>7 DEF Elements
  <2> QED BY <2>1, DocumentReadable, Unambiguous
<1> HIDE DEF others
<1>10. Sole(others) /\ \A h \in others : q.serverKeys[h].spki = envelope.signedBy
  BY <1>1, <1>8, <1>9, SoleForm DEF AtMostOne
<1> QED BY <1>2, <1>10 DEF SignedInForce, others

\* The identity policy that a record selects keeps its image, account, environment, audience
\* and origin.
LEMMA IdentityKept ==
  ASSUME NEW p, DocumentOK(p), NEW q, DocumentOK(q), PolicyAccepted(q), NEW r,
         r.registration.token.issuedAt \in Int,
         InForceUnder(p, "identityPolicies", r.registration.token.issuedAt)
           \subseteq InForceUnder(q, "identityPolicies", r.registration.token.issuedAt),
         Sole(IdentityMatches(p, r))
  PROVE  /\ Sole(IdentityMatches(q, r))
         /\ \E i \in IdentityMatches(p, r) : \A j \in IdentityMatches(q, r) :
              \A field \in {"image", "account", "environment", "audience", "origin"} :
                q.identityPolicies[j][field] = p.identityPolicies[i][field]
<1> DEFINE time == r.registration.token.issuedAt
           signed == r.assertion.payload.identityPolicy
           same == {"image", "account", "environment", "audience", "origin"}
           mine == IdentityMatches(p, r)
           others == IdentityMatches(q, r)
<1>1. IsFiniteSet(mine) /\ IsFiniteSet(others)
  BY DocumentReadable, FinitePlaces, FS_Subset DEF IdentityMatches, IdentityCandidates
<1>2. PICK i : i \in mine
  BY <1>1, SoleForm
<1>3. /\ i \in DOMAIN p["identityPolicies"] /\ ContainsTime(p["identityPolicies"][i], time)
      /\ PoliciesMatch(p["identityPolicies"][i], signed)
  BY <1>2 DEF IdentityMatches, IdentityCandidates
<1>4. "identityPolicies" \in Lists /\ same \subseteq Fields("identityPolicies") \ {"until"}
  BY DEF Lists, Fields
<1>5. PICK j \in DOMAIN q["identityPolicies"] :
        /\ ContainsTime(q["identityPolicies"][j], time)
        /\ \A field \in same : q["identityPolicies"][j][field] = p["identityPolicies"][i][field]
  BY <1>3, <1>4, Counterpart
<1>6. PoliciesMatch(q["identityPolicies"][j], signed)
  BY <1>3, <1>5 DEF PoliciesMatch
<1>7. j \in others
  BY <1>5, <1>6 DEF IdentityMatches, IdentityCandidates
<1>8. \A g, h \in IdentityCandidates(q, time) :
        q.identityPolicies[g].image = q.identityPolicies[h].image => g = h
  BY DocumentReadable, Unambiguous
<1>9. \A g \in others :
        g \in IdentityCandidates(q, time) /\ q.identityPolicies[g].image = signed.image
  BY DEF IdentityMatches, PoliciesMatch
<1>10. AtMostOne(others)
  BY <1>8, <1>9 DEF AtMostOne
<1> HIDE DEF mine, others
<1>11. Sole(others)
  BY <1>1, <1>7, <1>10, SoleForm
<1>12. \A h \in others : h = j
  BY <1>7, <1>10 DEF AtMostOne
<1> QED BY <1>2, <1>5, <1>11, <1>12 DEF mine, others

\* A record that verifies under a document verifies under every accepted one that says the same
\* at its times.
LEMMA VerificationKept ==
  ASSUME NEW p, DocumentOK(p), NEW q, DocumentOK(q), PolicyAccepted(q),
         NEW r \in Records, NEW time \in Times, VerifiesUnder(p, r, time),
         \A list \in Lists, at \in TimesOf(r, time) :
           InForceUnder(p, list, at) \subseteq InForceUnder(q, list, at)
  PROVE  VerifiesUnder(q, r, time)
<1> DEFINE a == r.assertion.payload
           made == r.decision.payload.effectiveAt
           issued == r.registration.token.issuedAt
           binding == Expected.binding
           receipt == r.registration.payload
           mine == IdentityMatches(p, r)
           others == IdentityMatches(q, r)
<1>1. {a.issuedAt, made, issued, time} \subseteq Int
  BY DocumentsAssumption
<1>2. {a.issuedAt, made, issued, time} = TimesOf(r, time)
  BY DEF TimesOf
<1>3. ChainHolds(p, Expected, binding, time, r)
  BY DEF VerifiesUnder
<1>4. VotingPolicyAt(q, binding, a.issuedAt) /\ VotingPolicyAt(q, binding, time)
  <2>1. VotingPolicyAt(p, binding, a.issuedAt) /\ VotingPolicyAt(p, binding, time)
    BY <1>3 DEF ChainHolds
  <2>2. /\ InForceUnder(p, "votingPolicies", a.issuedAt)
              \subseteq InForceUnder(q, "votingPolicies", a.issuedAt)
        /\ InForceUnder(p, "votingPolicies", time)
              \subseteq InForceUnder(q, "votingPolicies", time)
    BY <1>2 DEF Lists
  <2> QED BY <1>1, <2>1, <2>2, VotingKept
<1>5. SignedInForce(q, r.assertion, a.issuedAt) /\ SignedInForce(q, r.decision, made)
  <2>1. SignedInForce(p, r.assertion, a.issuedAt) /\ SignedInForce(p, r.decision, made)
    BY <1>3 DEF ChainHolds
  <2>2. /\ InForceUnder(p, "serverKeys", a.issuedAt)
              \subseteq InForceUnder(q, "serverKeys", a.issuedAt)
        /\ InForceUnder(p, "serverKeys", made) \subseteq InForceUnder(q, "serverKeys", made)
    BY <1>2 DEF Lists
  <2> QED BY <1>1, <2>1, <2>2, SignatureKept
<1>6. /\ Sole(others)
      /\ \E i \in mine : \A j \in others :
           \A field \in {"image", "account", "environment", "audience", "origin"} :
             q.identityPolicies[j][field] = p.identityPolicies[i][field]
  <2>1. Sole(mine)
    BY <1>3 DEF ChainHolds
  <2>2. InForceUnder(p, "identityPolicies", issued)
          \subseteq InForceUnder(q, "identityPolicies", issued)
    BY <1>2 DEF Lists
  <2> QED BY <1>1, <2>1, <2>2, IdentityKept
<1>7. PICK i \in mine : \A j \in others :
        \A field \in {"image", "account", "environment", "audience", "origin"} :
          q.identityPolicies[j][field] = p.identityPolicies[i][field]
  BY <1>6
<1>8. ASSUME NEW j \in others
      PROVE  /\ q.identityPolicies[j].image = p.identityPolicies[i].image
             /\ q.identityPolicies[j].account = p.identityPolicies[i].account
             /\ q.identityPolicies[j].environment = p.identityPolicies[i].environment
             /\ q.identityPolicies[j].audience = p.identityPolicies[i].audience
             /\ q.identityPolicies[j].origin = p.identityPolicies[i].origin
  BY <1>7, <1>8
<1> HIDE DEF mine, others
<1>9. RecordAttested(q, r)
  <2>1. ClaimsVerify(r.registration.token, receipt, receipt.verifiedAt, p.identityPolicies[i])
    BY DEF VerifiesUnder, RecordAttested, mine
  <2>2. ASSUME NEW j \in others
        PROVE  ClaimsVerify(r.registration.token, receipt, receipt.verifiedAt,
                            q.identityPolicies[j])
    BY <1>8, <2>1 DEF ClaimsVerify, OfWorkload
  <2> QED BY <2>2 DEF RecordAttested, others
<1>10. RecordPasskeyBound(q, r)
  <2>1. PasskeyBound(receipt, p.identityPolicies[i])
    BY DEF VerifiesUnder, RecordPasskeyBound, mine
  <2>2. ASSUME NEW j \in others
        PROVE  PasskeyBound(receipt, q.identityPolicies[j])
    BY <1>8, <2>1 DEF PasskeyBound
  <2> QED BY <2>2 DEF RecordPasskeyBound, others
<1>11. ChainHolds(q, Expected, binding, time, r)
  BY <1>3, <1>4, <1>5, <1>6 DEF ChainHolds, others
<1> QED BY <1>9, <1>10, <1>11 DEF VerifiesUnder

\* No edit of the document reinterprets an old record.
THEOREM OldRecordsKept == DocumentSpec => OldRecordsKeepTheirMeaning
<1> DEFINE Kept(r, time) ==
             /\ Verifies(r, time) /\ PolicyAccepted(document)'
             /\ \A list \in Lists, at \in TimesOf(r, time) :
                  InForce(list, at) \subseteq InForce(list, at)'
             => Verifies(r, time)'
           Step == \A r \in Records, time \in Times : Kept(r, time)
<1>1. ASSUME DocumentOK(document), DocumentOK(document)', NEW r \in Records, NEW time \in Times
      PROVE  Kept(r, time)
  <2>1. /\ Verifies(r, time) <=> VerifiesUnder(document, r, time)
        /\ Verifies(r, time)' <=> VerifiesUnder(document', r, time)
    BY DEF Verifies, VerifiesUnder
  <2>2. \A list, at : /\ InForce(list, at) = InForceUnder(document, list, at)
                      /\ InForce(list, at)' = InForceUnder(document', list, at)
    BY DEF InForce, InForceUnder
  <2>3. /\ DocumentOK(document)' <=> DocumentOK(document')
        /\ PolicyAccepted(document)' <=> PolicyAccepted(document')
    OBVIOUS
  <2> QED BY <1>1, <2>1, <2>2, <2>3, VerificationKept
<1>2. DocumentOK(document) /\ DocumentOK(document)' => Step
  BY <1>1
<1>3. OldRecordsKeepTheirMeaning <=> [][Step]_document
  BY PTL DEF OldRecordsKeepTheirMeaning
<1> HIDE DEF Step
<1> QED BY <1>2, <1>3, DocumentInvariant, PTL

-----------------------------------------------------------------------------
(* The directory verifier.                                                 *)

\* What a turn of the loop has found of the record h, with an answer or a call c.
RecordGood(c, h) ==
  /\ ChainHolds(Policy, Expected, Expected.binding, c.checkpoint.issuedAt, Body[h])
  /\ RecordPasskeyBound(Policy, Body[h])

\* The records are the ones of the checkpoint: all of them, or the one asked for.
Listed(c) ==
  /\ c.checkpoint \in Checkpoint
  /\ c.records \subseteq c.checkpoint.members
  /\ c.whole => c.records = c.checkpoint.members
  /\ \A h \in c.records : RecordIntact(Body[h])

\* The head was witnessed: it is the one that the witness has now or an earlier one.
HeadWitnessed(head) ==
  /\ witnessed # NoHead
  /\ head.sequence <= witnessed.sequence
  /\ head.sequence = witnessed.sequence => head = witnessed

PublishedOK == published \subseteq Checkpoint
WitnessedOK == witnessed # NoHead => witnessed \in Checkpoint

\* The fields of a call.
IsCall(c) ==
  c = [checkpoint |-> c.checkpoint, records |-> c.records, heads |-> c.heads,
       whole |-> c.whole, remaining |-> c.remaining, ok |-> c.ok]

\* A call has found in order what it has gone through, while its answer may become true.
CallOK ==
  call # NoCall =>
    /\ IsCall(call) /\ Listed(call)
    /\ call.remaining \subseteq call.records
    /\ \A head \in call.heads : head \in Checkpoint /\ HeadWitnessed(head)
    /\ call.ok => \A h \in call.records \ call.remaining : RecordGood(call, h)

AnswerOK ==
  Accepted =>
    /\ Listed(answer)
    /\ \A h \in answer.records : RecordGood(answer, h)
    /\ answer.current => HeadWitnessed(answer.checkpoint)

IInv == pool \in Pools /\ PublishedOK /\ WitnessedOK /\ CallOK /\ AnswerOK

-----------------------------------------------------------------------------
(* What the checks of a record establish.                                  *)

LEMMA SoleIsSome ==
  ASSUME NEW S, Sole(S)
  PROVE  \E x \in S : TRUE
<1>1. S # {}  BY FS_EmptySet DEF Sole
<1> QED BY <1>1

\* A record that passed is active at the time of the checkpoint.
LEMMA GoodIsActive ==
  ASSUME NEW c, NEW h, RecordGood(c, h)
  PROVE  LET a == Body[h].assertion.payload IN
         /\ a.notBefore <= c.checkpoint.issuedAt
         /\ a.expiresAt # NoEnd => c.checkpoint.issuedAt < a.expiresAt
BY DEF RecordGood, ChainHolds, ActiveAt

\* The parts of a record that passed belong together.
BelongTogether(r) ==
  LET a       == r.assertion.payload
      receipt == r.registration.payload
      made    == receipt.passkey.registration
      used    == receipt.passkey.proof
  IN  /\ r.decision.payload.assertion = a /\ r.decision.payload.voter = a.voter
      /\ a.identityProof = receipt /\ a.evidence.subject = a.subject
      /\ Normalized(receipt.email) = Normalized(a.evidence.email)
      /\ Normalized(receipt.name) = Normalized(a.evidence.name)
      /\ made.authenticator.credential = a.rootKey.credential
      /\ made.authenticator.key = a.rootKey.key
      /\ used.signedBy = a.rootKey.key
      /\ \E p \in Elements(Policy.identityPolicies) :
           /\ ContainsTime(p, r.registration.token.issuedAt)
           /\ p.image = a.identityPolicy.image
           /\ p.environment = a.identityPolicy.environment
           /\ \A ceremony \in {made, used} :
                /\ ceremony.client.origin = p.origin
                /\ ceremony.authenticator.rp = p.origin
                /\ {"present", "verified"} \subseteq ceremony.authenticator.flags

LEMMA GoodBelongsTogether ==
  ASSUME NEW c, NEW h, RecordIntact(Body[h]), RecordGood(c, h)
  PROVE  BelongTogether(Body[h])
<1> DEFINE r       == Body[h]
           a       == r.assertion.payload
           receipt == r.registration.payload
           passkey == receipt.passkey
           made    == passkey.registration
           used    == passkey.proof
<1>1. RecordLinked(r, Expected, Expected.binding) /\ ReceiptLinked(receipt, a)
  BY DEF RecordGood, ChainHolds
<1>2. /\ r.registration.hash = receipt /\ r.assertion.hash = a
      /\ a.evidence.subject = a.subject
  BY DEF RecordIntact, EnvelopeIntact, AssertionWellFormed
<1>3. PICK i \in IdentityMatches(Policy, r) : TRUE
  BY SoleIsSome DEF RecordGood, ChainHolds
<1> DEFINE p == Policy.identityPolicies[i]
<1>4. p \in Elements(Policy.identityPolicies) /\ ContainsTime(p, r.registration.token.issuedAt)
  BY <1>3 DEF IdentityMatches, IdentityCandidates, Elements
<1>5. p.image = a.identityPolicy.image /\ p.environment = a.identityPolicy.environment
  BY <1>3 DEF IdentityMatches, PoliciesMatch
<1>6. PasskeyBound(receipt, p)  BY <1>3 DEF RecordGood, RecordPasskeyBound
<1>7. /\ passkey.origin = p.origin /\ passkey.rp = p.origin
      /\ made.authenticator.key = passkey.key
      /\ RegistrationVerifies(passkey) /\ AssertionVerifies(passkey, p.origin)
  BY <1>6 DEF PasskeyBound
<1>8. /\ made.client.origin = p.origin /\ made.authenticator.rp = p.origin
      /\ {"present", "verified"} \subseteq made.authenticator.flags
      /\ made.authenticator.credential = passkey.credential
  BY <1>7 DEF RegistrationVerifies, HeaderOK
<1>9. /\ used.client.origin = p.origin /\ used.authenticator.rp = p.origin
      /\ {"present", "verified"} \subseteq used.authenticator.flags
      /\ used.signedBy = passkey.key
  BY <1>7 DEF AssertionVerifies, HeaderOK
<1>10. r.decision.payload.assertion = a /\ r.decision.payload.voter = a.voter
       /\ a.identityProof = receipt
  BY <1>1, <1>2 DEF RecordLinked
<1>11. /\ Normalized(receipt.email) = Normalized(a.evidence.email)
       /\ Normalized(receipt.name) = Normalized(a.evidence.name)
       /\ passkey.credential = a.rootKey.credential /\ passkey.key = a.rootKey.key
  BY <1>1 DEF ReceiptLinked
<1>12. \A ceremony \in {made, used} :
         /\ ceremony.client.origin = p.origin
         /\ ceremony.authenticator.rp = p.origin
         /\ {"present", "verified"} \subseteq ceremony.authenticator.flags
  BY <1>8, <1>9
<1> HIDE DEF p
<1> QED BY <1>2, <1>4, <1>5, <1>7, <1>8, <1>9, <1>10, <1>11, <1>12 DEF BelongTogether

-----------------------------------------------------------------------------
(* The invariant.                                                          *)

\* A head that was witnessed is so for good.
LEMMA WitnessedForGood ==
  ASSUME WitnessedOK,
         \/ UNCHANGED witnessed
         \/ /\ witnessed' \in Checkpoint
            /\ witnessed # NoHead => witnessed.sequence < witnessed'.sequence,
         NEW head, head.sequence \in Nat, HeadWitnessed(head)
  PROVE  HeadWitnessed(head)'
<1>1. CASE UNCHANGED witnessed  BY <1>1 DEF HeadWitnessed
<1>2. CASE witnessed' \in Checkpoint /\ witnessed.sequence < witnessed'.sequence
  <2>1. witnessed.sequence \in Nat  BY DEF HeadWitnessed, WitnessedOK, Checkpoint
  <2>2. witnessed'.sequence \in Nat  BY <1>2 DEF Checkpoint
  <2>3. witnessed' # NoHead  BY <1>2, DirectoryAssumption
  <2>4. head.sequence < witnessed'.sequence  BY <1>2, <2>1, <2>2 DEF HeadWitnessed
  <2> QED BY <2>2, <2>3, <2>4 DEF HeadWitnessed
<1> QED BY <1>1, <1>2 DEF HeadWitnessed


LEMMA CallsKept ==
  ASSUME CallOK, AnswerOK, UNCHANGED <<call, answer>>,
         \A head \in Checkpoint : HeadWitnessed(head) => HeadWitnessed(head)'
  PROVE  CallOK' /\ AnswerOK'
<1>1. CallOK'  BY DEF CallOK, IsCall, Listed, RecordGood
<1>2. (Accepted' <=> Accepted) /\ answer' = answer  BY DEF Accepted
<1>3. AnswerOK'  BY <1>2 DEF AnswerOK, Listed, RecordGood
<1> QED BY <1>1, <1>3

\* What an answer to the call c says.
LEMMA AnswerFields ==
  ASSUME NEW c, NEW ok \in BOOLEAN
  PROVE  LET x == Answer(c, ok) IN
         /\ x.checkpoint = c.checkpoint /\ x.records = c.records /\ x.whole = c.whole
         /\ x.ok <=> ok
         /\ x.current <=> ok /\ c.heads # {}
BY DEF Answer

\* An answer is sound when what it stands on was found.
LEMMA AnswerGiven ==
  ASSUME NEW c, NEW ok \in BOOLEAN, answer' = Answer(c, ok), UNCHANGED witnessed,
         ok => /\ Listed(c)
               /\ CheckpointOK(c.checkpoint, c.heads)
               /\ \A h \in c.records : RecordGood(c, h)
               /\ \A head \in c.heads : HeadWitnessed(head)
  PROVE  AnswerOK'
<1> DEFINE x == Answer(c, ok)
<1>1. /\ x.checkpoint = c.checkpoint /\ x.records = c.records /\ x.whole = c.whole
      /\ x.ok <=> ok
      /\ x.current <=> ok /\ c.heads # {}
  BY AnswerFields
<1>2. answer' = x  OBVIOUS
<1> HIDE DEF x
<1>3. SUFFICES ASSUME ok
               PROVE  /\ Listed(x)
                      /\ \A h \in x.records : RecordGood(x, h)
                      /\ x.current => HeadWitnessed(x.checkpoint)
  BY <1>1, <1>2 DEF AnswerOK, Accepted, Listed, RecordGood, HeadWitnessed
<1>4. Listed(x)  BY <1>1, <1>3 DEF Listed
<1>5. \A h \in x.records : RecordGood(x, h)  BY <1>1, <1>3 DEF RecordGood
<1>6. ASSUME x.current PROVE HeadWitnessed(x.checkpoint)
  <2>1. PICK head \in c.heads : TRUE  BY <1>1, <1>6
  <2>2. head = c.checkpoint  BY <1>3 DEF CheckpointOK, IsWitnessedHead
  <2> QED BY <1>1, <1>3, <2>1, <2>2
<1> QED BY <1>4, <1>5, <1>6

\* A call begins with nothing found, or is answered at once.
LEMMA Begun ==
  ASSUME IInv, NEW checkpoint \in published, NEW records, NEW heads \in PassedHeads,
         NEW whole \in BOOLEAN, NEW integrity \in BOOLEAN,
         Begin(Call(checkpoint, records, heads, whole), integrity),
         UNCHANGED <<published, witnessed>>,
         integrity => /\ records \subseteq checkpoint.members
                      /\ whole => records = checkpoint.members
                      /\ \A h \in records : RecordIntact(Body[h])
  PROVE  CallOK' /\ AnswerOK'
<1> DEFINE c == Call(checkpoint, records, heads, whole)
<1>1. /\ c.checkpoint = checkpoint /\ c.records = records /\ c.heads = heads
      /\ c.remaining = records /\ IsCall(c)
  BY DEF Call, IsCall
<1>2. c.whole <=> whole  BY DEF Call
<1>3. Begin(c, integrity)  OBVIOUS
<1> HIDE DEF c
<1>4. \A head \in heads : head \in Checkpoint /\ HeadWitnessed(head)
  <2>1. ASSUME NEW head \in heads PROVE head = witnessed /\ witnessed # NoHead
    BY <2>1 DEF PassedHeads
  <2>2. ASSUME witnessed # NoHead PROVE witnessed \in Checkpoint /\ HeadWitnessed(witnessed)
    BY <2>2 DEF IInv, WitnessedOK, HeadWitnessed, Checkpoint
  <2> QED BY <2>1, <2>2
<1>5. integrity => Listed(c)  BY <1>1, <1>2 DEF Listed, IInv, PublishedOK
<1>6. UNCHANGED answer => AnswerOK'
  BY DEF IInv, AnswerOK, Accepted, Listed, RecordGood, HeadWitnessed
<1>7. CASE ~ integrity
  <2>1. answer' = Answer(c, FALSE) /\ call' = NoCall  BY <1>3, <1>7 DEF Begin
  <2> QED BY <2>1, AnswerGiven DEF CallOK
<1>8. CASE integrity /\ records = {}
  <2> DEFINE ok == CheckpointOK(c.checkpoint, c.heads)
  <2>1. answer' = Answer(c, ok) /\ call' = NoCall  BY <1>1, <1>3, <1>8 DEF Begin
  <2>2. ok \in BOOLEAN  BY DEF CheckpointOK
  <2>3. \A h \in c.records : RecordGood(c, h)  BY <1>1, <1>8
  <2> QED BY <1>1, <1>4, <1>5, <1>8, <2>1, <2>2, <2>3, AnswerGiven DEF CallOK
<1>9. CASE integrity /\ records # {}
  <2>1. call' = c /\ UNCHANGED answer  BY <1>1, <1>3, <1>9 DEF Begin
  <2>2. CallOK'
    BY <1>1, <1>4, <1>5, <1>9, <2>1 DEF CallOK, IsCall, Listed, RecordGood, HeadWitnessed
  <2> QED BY <1>6, <2>1, <2>2
<1> QED BY <1>7, <1>8, <1>9


\* A turn of the loop adds one record to those that were found good; the last one answers.
LEMMA VerifyRecordStep ==
  ASSUME IInv, VerifyRecord
  PROVE  CallOK' /\ AnswerOK'
<1> DEFINE Started(h) == ChainHolds(Policy, Expected, Expected.binding,
                                    call.checkpoint.issuedAt, Body[h])
           Ok(h) == /\ call.ok
                    /\ CheckpointOK(call.checkpoint, call.heads)
                    /\ Started(h) /\ RecordPasskeyBound(Policy, Body[h])
<1>1. PICK h \in call.remaining :
        /\ call' = IF call.remaining = {h} THEN NoCall
                   ELSE [call EXCEPT !.remaining = @ \ {h}, !.ok = Ok(h)]
        /\ answer' = IF call.remaining = {h} THEN Answer(call, Ok(h)) ELSE answer
  BY DEF VerifyRecord
<1>2. call # NoCall /\ UNCHANGED <<published, witnessed>>  BY DEF VerifyRecord
<1>3. /\ IsCall(call) /\ Listed(call) /\ call.remaining \subseteq call.records
      /\ \A head \in call.heads : head \in Checkpoint /\ HeadWitnessed(head)
      /\ call.ok => \A g \in call.records \ call.remaining : RecordGood(call, g)
  BY <1>2 DEF IInv, CallOK
<1>4. Ok(h) => \A g \in (call.records \ call.remaining) \cup {h} : RecordGood(call, g)
  BY <1>3 DEF RecordGood
<1>5. Ok(h) => CheckpointOK(call.checkpoint, call.heads)
  OBVIOUS
<1>6. Ok(h) \in BOOLEAN  BY DEF CheckpointOK
<1> HIDE DEF Ok, Started
<1>7. CASE call.remaining = {h}
  <2>1. Ok(h) => \A g \in call.records : RecordGood(call, g)  BY <1>4, <1>7
  <2>2. answer' = Answer(call, Ok(h)) /\ call' = NoCall  BY <1>1, <1>7
  <2>3. AnswerOK'  BY <1>2, <1>3, <1>5, <1>6, <2>1, <2>2, AnswerGiven
  <2> QED BY <2>2, <2>3 DEF CallOK
<1>8. CASE call.remaining # {h}
  <2>1. UNCHANGED answer  BY <1>1, <1>8
  <2>2. AnswerOK'
    BY <1>2, <2>1 DEF IInv, AnswerOK, Accepted, Listed, RecordGood, HeadWitnessed
  <2>3. call' = [call EXCEPT !.remaining = @ \ {h}, !.ok = Ok(h)]  BY <1>1, <1>8
  <2>4. /\ call'.checkpoint = call.checkpoint /\ call'.records = call.records
        /\ call'.heads = call.heads /\ call'.whole = call.whole
        /\ call'.remaining = call.remaining \ {h}
    BY <1>3, <2>3 DEF IsCall
  <2>5. call'.ok => Ok(h)  BY <1>3, <2>3 DEF IsCall
  <2>6. IsCall(call')  BY <1>3, <2>3 DEF IsCall
  <2>7. Listed(call')  BY <1>3, <2>4 DEF Listed
  <2>8. \A head \in call'.heads : head \in Checkpoint /\ HeadWitnessed(head)'
    BY <1>2, <1>3, <2>4 DEF HeadWitnessed
  <2>9. call'.ok => \A g \in call'.records \ call'.remaining : RecordGood(call', g)
    <3>1. call'.records \ call'.remaining \subseteq (call.records \ call.remaining) \cup {h}
      BY <2>4
    <3> QED BY <1>4, <2>4, <2>5, <3>1 DEF RecordGood
  <2>10. CallOK'  BY <1>3, <2>4, <2>6, <2>7, <2>8, <2>9 DEF CallOK, IsCall, Listed, RecordGood
  <2> QED BY <2>2, <2>10
<1> QED BY <1>7, <1>8


LEMMA Invariance == Spec => []IInv
<1>1. Init => IInv
  BY DEF Init, IInv, PublishedOK, WitnessedOK, CallOK, AnswerOK, Accepted
<1>2. IInv /\ [Next]_vars => IInv'
  <2> SUFFICES ASSUME IInv, [Next]_vars PROVE IInv'
    OBVIOUS
  <2>1. ASSUME WitnessedOK', \/ UNCHANGED witnessed
                             \/ /\ witnessed' \in Checkpoint
                                /\ witnessed # NoHead =>
                                     witnessed.sequence < witnessed'.sequence
        PROVE  \A head \in Checkpoint : HeadWitnessed(head) => HeadWitnessed(head)'
    BY <2>1, WitnessedForGood DEF IInv, Checkpoint
  <2>2. CASE Publish
    <3>1. published' \subseteq Checkpoint
      <4>1. PICK members \in SUBSET pool, sequence \in 1..MaxSequence :
              published' = published \cup {[sequence |-> sequence, members |-> members,
                                            issuedAt |-> sequence]}
        BY <2>2 DEF Publish
      <4>2. members \in SUBSET DOMAIN Body  BY DirectoryAssumption DEF IInv
      <4> QED BY <4>1, <4>2 DEF IInv, PublishedOK, Checkpoint
    <3>2. UNCHANGED <<pool, witnessed, call, answer>>  BY <2>2 DEF Publish
    <3>3. WitnessedOK'  BY <3>2 DEF IInv, WitnessedOK
    <3> QED BY <2>1, <3>1, <3>2, <3>3, CallsKept DEF IInv, PublishedOK
  <2>3. CASE Witness
    <3>1. PICK c \in published :
            witnessed' = c /\ (witnessed # NoHead => witnessed.sequence < c.sequence)
      BY <2>3 DEF Witness
    <3>2. UNCHANGED <<pool, published, call, answer>>  BY <2>3 DEF Witness
    <3>3. witnessed' \in Checkpoint  BY <3>1 DEF IInv, PublishedOK
    <3> QED BY <2>1, <3>1, <3>2, <3>3, CallsKept DEF IInv, PublishedOK, WitnessedOK
  <2>4. CASE CallBundle
    <3>1. PICK checkpoint \in published, records \in SUBSET pool, heads \in PassedHeads :
            Begin(Call(checkpoint, records, heads, TRUE), CompleteList(checkpoint, records))
      BY <2>4 DEF CallBundle
    <3>2. UNCHANGED <<pool, published, witnessed>>  BY <2>4 DEF CallBundle
    <3>3. CompleteList(checkpoint, records) \in BOOLEAN  BY DEF CompleteList
    <3>4. CompleteList(checkpoint, records) =>
            /\ records \subseteq checkpoint.members
            /\ records = checkpoint.members
            /\ \A h \in records : RecordIntact(Body[h])
      BY DEF CompleteList
    <3>5. CallOK' /\ AnswerOK'  BY <3>1, <3>2, <3>3, <3>4, Begun
    <3> QED BY <3>2, <3>5 DEF IInv, PublishedOK, WitnessedOK
  <2>5. CASE CallRecord
    <3>1. PICK checkpoint \in published, h \in pool, heads \in PassedHeads :
            Begin(Call(checkpoint, {h}, heads, FALSE),
                  h \in checkpoint.members /\ RecordIntact(Body[h]))
      BY <2>5 DEF CallRecord
    <3>2. UNCHANGED <<pool, published, witnessed>>  BY <2>5 DEF CallRecord
    <3> DEFINE integrity == h \in checkpoint.members /\ RecordIntact(Body[h])
    <3>3. integrity \in BOOLEAN  OBVIOUS
    <3>4. integrity => /\ {h} \subseteq checkpoint.members
                       /\ \A g \in {h} : RecordIntact(Body[g])
      OBVIOUS
    <3>5. Begin(Call(checkpoint, {h}, heads, FALSE), integrity)  BY <3>1
    <3> HIDE DEF integrity
    <3>6. CallOK' /\ AnswerOK'  BY <3>2, <3>3, <3>4, <3>5, Begun
    <3> QED BY <3>2, <3>6 DEF IInv, PublishedOK, WitnessedOK
  <2>6. CASE VerifyRecord
    <3>1. CallOK' /\ AnswerOK'  BY <2>6, VerifyRecordStep
    <3> QED BY <2>6, <3>1 DEF VerifyRecord, IInv, PublishedOK, WitnessedOK
  <2>7. CASE HostHandlesRejection \/ UNCHANGED vars
    <3>1. UNCHANGED <<pool, published, witnessed, call, answer>>
      BY <2>7 DEF HostHandlesRejection, vars
    <3>2. WitnessedOK'  BY <3>1 DEF IInv, WitnessedOK
    <3> QED BY <2>1, <3>1, <3>2, CallsKept DEF IInv, PublishedOK
  <2>8. CASE HostExits
    <3>1. UNCHANGED <<pool, published, witnessed, answer>> /\ call' = NoCall
      BY <2>8 DEF HostExits
    <3>2. AnswerOK'
      BY <3>1 DEF IInv, AnswerOK, Accepted, Listed, RecordGood, HeadWitnessed
    <3> QED BY <3>1, <3>2 DEF IInv, PublishedOK, WitnessedOK, CallOK
  <2> QED BY <2>2, <2>3, <2>4, <2>5, <2>6, <2>7, <2>8 DEF Next
<1> QED BY <1>1, <1>2, PTL DEF Spec

-----------------------------------------------------------------------------
(* The theorems.                                                           *)

\* What is accepted as current is what the witness has now, or had before: neither a second
\* checkpoint of the same number nor a stranger's passes, however many are published and
\* witnessed while the call goes on.
THEOREM CurrentIsWitnessed == Spec => []CurrentListIsWitnessed
<1>1. IInv => CurrentListIsWitnessed
  BY DEF IInv, AnswerOK, CurrentListIsWitnessed, HeadWitnessed, Listed
<1> QED BY <1>1, Invariance, PTL

\* Nobody is left out of an accepted list, nobody added, and nobody in it is inactive.
THEOREM AcceptedIsExact == Spec => []AcceptedListIsExact
<1>1. ASSUME IInv PROVE AcceptedListIsExact
  <2>1. SUFFICES ASSUME Accepted PROVE AcceptedListIsExact
    BY DEF AcceptedListIsExact
  <2>2. Listed(answer) /\ \A h \in answer.records : RecordGood(answer, h)
    BY <1>1, <2>1 DEF IInv, AnswerOK
  <2>3. \A h \in answer.records :
          LET a == Body[h].assertion.payload IN
          /\ a.notBefore <= answer.checkpoint.issuedAt
          /\ a.expiresAt # NoEnd => answer.checkpoint.issuedAt < a.expiresAt
    BY <2>2, GoodIsActive
  <2> QED BY <2>2, <2>3 DEF AcceptedListIsExact, Listed
<1> QED BY <1>1, Invariance, PTL

\* The parts of every accepted record belong together, whoever put them together and in
\* whatever mixture.
THEOREM AcceptedBelongTogether == Spec => []AcceptedRecordsBelongTogether
<1>1. ASSUME IInv PROVE AcceptedRecordsBelongTogether
  <2>1. SUFFICES ASSUME Accepted PROVE \A h \in answer.records : BelongTogether(Body[h])
    BY DEF AcceptedRecordsBelongTogether, BelongTogether
  <2>2. Listed(answer) /\ \A h \in answer.records : RecordGood(answer, h)
    BY <1>1, <2>1 DEF IInv, AnswerOK
  <2> QED BY <2>2, GoodBelongsTogether DEF Listed
<1> QED BY <1>1, Invariance, PTL

-----------------------------------------------------------------------------
(* What was made together is accepted.                                     *)

\* One eligibility key, or one voting policy, is found where there is one.
LEMMA KeyFound ==
  ASSUME NEW keyId, NEW spki, NEW time \in Int, HasKey(keyId, spki, time)
  PROVE  /\ Sole(KeyMatches(Policy, keyId, "eligibility", time))
         /\ \A i \in KeyMatches(Policy, keyId, "eligibility", time) :
              Policy.serverKeys[i].spki = spki
<1> DEFINE found == KeyMatches(Policy, keyId, "eligibility", time)
<1>1. PICK k \in Elements(Policy.serverKeys) :
        /\ k.purpose = "eligibility" /\ k.keyId = keyId /\ k.spki = spki
        /\ ContainsTime(k, time)
  BY DEF HasKey
<1>2. PICK i \in DOMAIN Policy.serverKeys : k = Policy.serverKeys[i]
  BY DEF Elements
<1>3. i \in found /\ Policy.serverKeys[i].spki = spki
  BY <1>1, <1>2 DEF KeyMatches
<1>4. IsFiniteSet(found)
  BY SoundRecordsAssumption, FinitePlaces, FS_Subset DEF KeyMatches
<1>5. AtMostOne(found)
  BY <1>1, SoundRecordsAssumption, DirectoryAssumption, Unambiguous
<1> HIDE DEF found
<1> QED BY <1>3, <1>4, <1>5, SoleForm DEF AtMostOne, found

LEMMA VotingPolicyFound ==
  ASSUME NEW time \in Int, HasVotingPolicy(time)
  PROVE  VotingPolicyAt(Policy, Expected.binding, time)
<1> DEFINE found == VotingMatches(Policy, Expected.binding, time)
<1>1. PICK w \in Elements(Policy.votingPolicies) :
        w.binding = Expected.binding /\ ContainsTime(w, time)
  BY DEF HasVotingPolicy
<1>2. PICK i \in DOMAIN Policy.votingPolicies : w = Policy.votingPolicies[i]
  BY DEF Elements
<1>3. i \in found
  BY <1>1, <1>2 DEF VotingMatches
<1>4. IsFiniteSet(found)
  BY SoundRecordsAssumption, FinitePlaces, FS_Subset DEF VotingMatches
<1>5. AtMostOne(found)
  BY <1>1, SoundRecordsAssumption, DirectoryAssumption, Unambiguous
<1> HIDE DEF found
<1> QED BY <1>3, <1>4, <1>5, SoleForm DEF found, VotingPolicyAt

\* The identity policy of the workload is the one that the record selects.
LEMMA IdentityFound ==
  ASSUME NEW r, r.registration.token.issuedAt \in Int,
         NEW p \in Elements(Policy.identityPolicies),
         ContainsTime(p, r.registration.token.issuedAt),
         PoliciesMatch(p, r.assertion.payload.identityPolicy)
  PROVE  /\ Sole(IdentityMatches(Policy, r))
         /\ \A i \in IdentityMatches(Policy, r) : Policy.identityPolicies[i] = p
<1> DEFINE found == IdentityMatches(Policy, r)
           time == r.registration.token.issuedAt
<1>1. PICK i \in DOMAIN Policy.identityPolicies : p = Policy.identityPolicies[i]
  BY DEF Elements
<1>2. i \in found
  BY <1>1 DEF IdentityMatches, IdentityCandidates
<1>3. IsFiniteSet(found)
  BY SoundRecordsAssumption, FinitePlaces, FS_Subset DEF IdentityMatches, IdentityCandidates
<1>4. \A g, h \in IdentityCandidates(Policy, time) :
        Policy.identityPolicies[g].image = Policy.identityPolicies[h].image => g = h
  BY SoundRecordsAssumption, DirectoryAssumption, Unambiguous
<1>5. AtMostOne(found)
  BY <1>4 DEF IdentityMatches, PoliciesMatch, AtMostOne
<1> HIDE DEF found
<1> QED BY <1>1, <1>2, <1>3, <1>5, SoleForm DEF AtMostOne, found

\* A record of parts made together passes every check of its chain while it is active.
LEMMA SoundPasses ==
  ASSUME NEW h \in SoundRecords, NEW time \in Int, HasVotingPolicy(time),
         ActiveAt(Body[h], time)
  PROVE  /\ RecordIntact(Body[h])
         /\ ChainHolds(Policy, Expected, Expected.binding, time, Body[h])
         /\ RecordPasskeyBound(Policy, Body[h])
<1> DEFINE r       == Body[h]
           receipt == r.registration.payload
           token   == r.registration.token
           a       == r.assertion.payload
           d       == r.decision.payload
<1>1. MadeTogether(r)
  BY SoundRecordsAssumption
<1>2. /\ r.registration.hash = receipt
      /\ r.assertion.hash = a /\ r.decision.hash = d
  <2>1. r = DirectoryRecord(r.voter, receipt, token,
                            Envelope(a, r.assertion.keyId, r.assertion.signedBy),
                            Envelope(d, r.decision.keyId, r.decision.signedBy))
    BY <1>1 DEF MadeTogether
  <2>2. /\ r.registration = [payload |-> receipt, hash |-> receipt, token |-> token]
        /\ r.assertion = Envelope(a, r.assertion.keyId, r.assertion.signedBy)
        /\ r.decision = Envelope(d, r.decision.keyId, r.decision.signedBy)
    <3> DEFINE x == Envelope(a, r.assertion.keyId, r.assertion.signedBy)
               y == Envelope(d, r.decision.keyId, r.decision.signedBy)
    <3>1. r = DirectoryRecord(r.voter, receipt, token, x, y)
      BY <2>1
    <3> HIDE DEF x, y, r
    <3> QED BY <3>1 DEF DirectoryRecord, x, y
  <2>3. \A payload, keyId, by : Envelope(payload, keyId, by).hash = payload
    BY DEF Envelope
  <2> HIDE DEF r
  <2> QED BY <2>2, <2>3
<1>3. /\ a.voter = r.voter /\ a.binding = Expected.binding /\ a.identityProof = receipt
      /\ a.policyHash = a.identityPolicy /\ a.evidenceHash = a.evidence
      /\ a.rootKey.credential = receipt.passkey.credential
      /\ a.rootKey.key = receipt.passkey.key
      /\ a.eligibilityPolicy = a.binding.eligibilityPolicy /\ a.terms = Expected.terms
      /\ a.evidence.subject = a.subject /\ a.issuer = r.assertion.keyId
  <2>1. a = EligibilityAssertion(r.voter, Expected.binding, receipt, a.identityPolicy,
                                 a.evidence, Expected.terms, a, r.assertion.keyId)
    BY <1>1 DEF MadeTogether
  <2> HIDE DEF r, a, receipt
  <2> QED BY <2>1 DEF EligibilityAssertion
<1>4. /\ d.voter = r.voter /\ d.assertion = a /\ d.status = "active" /\ d.sequence = 1
      /\ d.previous = Null /\ d.issuer = r.decision.keyId
  <2>1. d = [voter |-> r.voter, assertion |-> a, status |-> "active", sequence |-> 1,
             previous |-> Null, effectiveAt |-> d.effectiveAt, issuer |-> r.decision.keyId]
    BY <1>1 DEF MadeTogether
  <2> HIDE DEF r, a, d
  <2> QED BY <2>1
<1>5. RecordIntact(r)
  BY <1>1, <1>2, <1>3, <1>4
     DEF RecordIntact, AssertionWellFormed, DecisionWellFormed, EnvelopeIntact, MadeTogether
<1>6. RecordLinked(r, Expected, Expected.binding)
  BY <1>2, <1>3, <1>4 DEF RecordLinked
<1>7. PICK p \in Elements(Policy.identityPolicies) :
        /\ ContainsTime(p, token.issuedAt) /\ PoliciesMatch(p, a.identityPolicy)
        /\ PasskeyBound(receipt, p)
  BY <1>1 DEF MadeTogether
<1>8. {a.issuedAt, d.effectiveAt, token.issuedAt} \subseteq Int
  BY <1>1 DEF MadeTogether
<1>9. /\ Sole(IdentityMatches(Policy, r))
      /\ \A i \in IdentityMatches(Policy, r) : Policy.identityPolicies[i] = p
  BY <1>7, <1>8, IdentityFound
<1>10. RecordPasskeyBound(Policy, r)
  BY <1>7, <1>9 DEF RecordPasskeyBound
<1>11. ReceiptLinked(receipt, a)
  BY <1>1, <1>3, <1>7 DEF ReceiptLinked, PasskeyBound, PoliciesMatch, MadeTogether
<1>12. SignedInForce(Policy, r.assertion, a.issuedAt)
  <2>1. HasKey(r.assertion.keyId, r.assertion.signedBy, a.issuedAt)
    BY <1>1 DEF MadeTogether
  <2> QED BY <1>2, <1>8, <2>1, KeyFound DEF SignedInForce, EnvelopeIntact
<1>13. SignedInForce(Policy, r.decision, d.effectiveAt)
  <2>1. HasKey(r.decision.keyId, r.decision.signedBy, d.effectiveAt)
    BY <1>1 DEF MadeTogether
  <2> QED BY <1>2, <1>8, <2>1, KeyFound DEF SignedInForce, EnvelopeIntact
<1>14. /\ VotingPolicyAt(Policy, Expected.binding, a.issuedAt)
       /\ VotingPolicyAt(Policy, Expected.binding, time)
  BY <1>1, <1>8, VotingPolicyFound DEF MadeTogether
<1>15. AssertionIntact(a) /\ ReceiptWellFormed(receipt)
  BY <1>1, <1>3 DEF AssertionIntact, MadeTogether
<1>16. ChainHolds(Policy, Expected, Expected.binding, time, r)
  BY <1>6, <1>9, <1>11, <1>12, <1>13, <1>14, <1>15 DEF ChainHolds
<1> QED BY <1>5, <1>10, <1>16

\* The published checkpoints begin at the first number, and the witness saw one of them.
PublishedInOrder ==
  /\ IsFiniteSet(published)
  /\ \A c \in published : c.issuedAt = c.sequence
  /\ published # {} => \E c \in published : c.sequence = 1
  /\ witnessed # NoHead => witnessed \in published

\* A call or an answer c is about nothing but active records that were made together.
AboutSound(c) ==
  /\ c.records \subseteq SoundRecords \cap c.checkpoint.members
  /\ c.whole => c.records = c.checkpoint.members
  /\ \A h \in c.records : ActiveAt(Body[h], c.checkpoint.issuedAt)

EarlyCallOK ==
  call # NoCall =>
    /\ call.checkpoint \in published /\ call.heads \subseteq published
    /\ call.remaining \subseteq call.records
    /\ Cardinality(published) = 1 /\ AboutSound(call) => call.ok

EarlyAnswerOK ==
  answer # NoAnswer =>
    /\ answer.checkpoint \in published
    /\ Cardinality(published) = 1 /\ AboutSound(answer) => answer.ok

EarlyInv == PublishedInOrder /\ EarlyCallOK /\ EarlyAnswerOK

\* With one checkpoint there is nothing to mistake it for.
LEMMA OnlyCheckpoint ==
  ASSUME PublishedInOrder, Cardinality(published) = 1,
         NEW c \in published, NEW heads, heads \subseteq published
  PROVE  c.issuedAt = 1 /\ CheckpointOK(c, heads)
<1>1. PICK x : published = {x}
  BY FS_Singleton DEF PublishedInOrder
<1>2. c = x /\ \A head \in heads : head = x
  BY <1>1
<1>3. c.issuedAt = 1
  BY <1>1, <1>2 DEF PublishedInOrder
<1>4. KeyTrusted(1)
  BY SoundRecordsAssumption, KeyFound DEF KeyTrusted
<1> QED BY <1>2, <1>3, <1>4 DEF CheckpointOK, IsWitnessedHead

\* Adding a checkpoint to none, or a second one, spoils no sound answer.
LEMMA OneBefore ==
  ASSUME PublishedInOrder, NEW c, published' = published \cup {c}, published # {},
         Cardinality(published') = 1
  PROVE  published' = published
<1>1. IsFiniteSet(published')
  BY FS_AddElement DEF PublishedInOrder
<1>2. PICK x : published' = {x}
  BY <1>1, FS_Singleton
<1> QED BY <1>2

LEMMA EarlyPublish ==
  ASSUME EarlyInv, Publish
  PROVE  EarlyInv'
<1>1. PICK members \in SUBSET pool, sequence \in 1..MaxSequence :
        /\ sequence > 1 => \E c \in published : c.sequence >= sequence - 1
        /\ published' = published \cup {[sequence |-> sequence, members |-> members,
                                         issuedAt |-> sequence]}
  BY DEF Publish
<1> DEFINE new == [sequence |-> sequence, members |-> members, issuedAt |-> sequence]
<1>2. UNCHANGED <<witnessed, call, answer>>
  BY DEF Publish
<1>3. published' = published \cup {new} /\ new.issuedAt = new.sequence /\ new.sequence = sequence
  BY <1>1
<1>4. published = {} => new.sequence = 1
  BY <1>1, <1>3, DirectoryAssumption
<1> HIDE DEF new
<1>5. PublishedInOrder'
  BY <1>2, <1>3, <1>4, FS_AddElement DEF EarlyInv, PublishedInOrder
<1>6. published # {} /\ Cardinality(published') = 1 => published' = published
  BY <1>3, OneBefore DEF EarlyInv
<1>7. EarlyCallOK'
  BY <1>2, <1>3, <1>6 DEF EarlyInv, EarlyCallOK, AboutSound
<1>8. EarlyAnswerOK'
  BY <1>2, <1>3, <1>6 DEF EarlyInv, EarlyAnswerOK, AboutSound
<1> QED BY <1>5, <1>7, <1>8 DEF EarlyInv

LEMMA EarlyBegun ==
  ASSUME EarlyInv, NEW checkpoint \in published, NEW records, NEW heads \in PassedHeads,
         NEW whole \in BOOLEAN, NEW integrity \in BOOLEAN,
         Begin(Call(checkpoint, records, heads, whole), integrity),
         UNCHANGED <<published, witnessed>>,
         /\ records \subseteq checkpoint.members
         /\ whole => records = checkpoint.members
         /\ \A h \in records : RecordIntact(Body[h])
         => integrity
  PROVE  EarlyInv'
<1> DEFINE c == Call(checkpoint, records, heads, whole)
<1>1. /\ c.checkpoint = checkpoint /\ c.records = records /\ c.heads = heads
      /\ c.remaining = records /\ c.ok = TRUE
  BY DEF Call
<1>2. c.whole <=> whole
  BY DEF Call
<1>3. Begin(c, integrity)
  OBVIOUS
<1> HIDE DEF c
<1>4. heads \subseteq published
  BY DEF PassedHeads, EarlyInv, PublishedInOrder
<1>5. Cardinality(published) = 1 => checkpoint.issuedAt = 1 /\ CheckpointOK(checkpoint, heads)
  BY <1>4, OnlyCheckpoint DEF EarlyInv
<1>6. Cardinality(published) = 1 /\ AboutSound(c) => integrity
  <2>1. SUFFICES ASSUME Cardinality(published) = 1, AboutSound(c)
                 PROVE  \A h \in records : RecordIntact(Body[h])
    BY <1>1, <1>2 DEF AboutSound
  <2> QED BY <1>1, <1>5, <2>1, SoundRecordsAssumption, SoundPasses DEF AboutSound
<1>7. PublishedInOrder'
  BY DEF EarlyInv, PublishedInOrder
<1>8. ASSUME NEW ok \in BOOLEAN, answer' = Answer(c, ok), call' = NoCall,
             Cardinality(published) = 1 /\ AboutSound(c) => ok
      PROVE  EarlyInv'
  <2> DEFINE x == Answer(c, ok)
  <2>1. x.checkpoint = c.checkpoint /\ x.records = c.records /\ x.whole = c.whole /\ (x.ok <=> ok)
    BY AnswerFields
  <2>2. answer' = x
    BY <1>8
  <2> HIDE DEF x
  <2>3. EarlyAnswerOK'
    BY <1>1, <1>8, <2>1, <2>2 DEF EarlyAnswerOK, AboutSound
  <2> QED BY <1>7, <1>8, <2>3 DEF EarlyInv, EarlyCallOK
<1>9. CASE ~ integrity
  BY <1>3, <1>6, <1>8, <1>9 DEF Begin
<1>10. CASE integrity /\ records = {}
  <2>1. answer' = Answer(c, CheckpointOK(c.checkpoint, c.heads)) /\ call' = NoCall
    BY <1>1, <1>3, <1>10 DEF Begin
  <2>2. CheckpointOK(c.checkpoint, c.heads) \in BOOLEAN
    BY DEF CheckpointOK
  <2> QED BY <1>1, <1>5, <1>8, <2>1, <2>2
<1>11. CASE integrity /\ records # {}
  <2>1. call' = c /\ UNCHANGED answer
    BY <1>1, <1>3, <1>11 DEF Begin
  <2>2. EarlyCallOK'
    BY <1>1, <1>4, <2>1 DEF EarlyCallOK, AboutSound
  <2>3. EarlyAnswerOK'
    BY <2>1 DEF EarlyInv, EarlyAnswerOK, AboutSound
  <2> QED BY <1>7, <2>2, <2>3 DEF EarlyInv
<1> QED BY <1>9, <1>10, <1>11

LEMMA EarlyTurn ==
  ASSUME IInv, EarlyInv, VerifyRecord
  PROVE  EarlyInv'
<1> DEFINE Started(h) == ChainHolds(Policy, Expected, Expected.binding,
                                    call.checkpoint.issuedAt, Body[h])
           Ok(h) == /\ call.ok
                    /\ CheckpointOK(call.checkpoint, call.heads)
                    /\ Started(h) /\ RecordPasskeyBound(Policy, Body[h])
<1>1. PICK h \in call.remaining :
        /\ call' = IF call.remaining = {h} THEN NoCall
                   ELSE [call EXCEPT !.remaining = @ \ {h}, !.ok = Ok(h)]
        /\ answer' = IF call.remaining = {h} THEN Answer(call, Ok(h)) ELSE answer
  BY DEF VerifyRecord
<1>2. call # NoCall /\ UNCHANGED <<published, witnessed>>
  BY DEF VerifyRecord
<1>3. /\ IsCall(call) /\ call.checkpoint \in published /\ call.heads \subseteq published
      /\ call.remaining \subseteq call.records
      /\ Cardinality(published) = 1 /\ AboutSound(call) => call.ok
  BY <1>2 DEF EarlyInv, EarlyCallOK, IInv, CallOK
<1>4. Cardinality(published) = 1 /\ AboutSound(call) => Ok(h)
  <2> SUFFICES ASSUME Cardinality(published) = 1, AboutSound(call) PROVE Ok(h)
    OBVIOUS
  <2>1. call.checkpoint.issuedAt = 1 /\ CheckpointOK(call.checkpoint, call.heads)
    BY <1>3, OnlyCheckpoint DEF EarlyInv
  <2>2. h \in SoundRecords /\ ActiveAt(Body[h], 1)
    BY <1>3, <2>1 DEF AboutSound
  <2>3. /\ ChainHolds(Policy, Expected, Expected.binding, 1, Body[h])
        /\ RecordPasskeyBound(Policy, Body[h])
    BY <2>2, SoundRecordsAssumption, SoundPasses
  <2> QED BY <1>3, <2>1, <2>3
<1>5. Ok(h) \in BOOLEAN
  BY DEF CheckpointOK
<1> HIDE DEF Ok, Started
<1>6. PublishedInOrder'
  BY <1>2 DEF EarlyInv, PublishedInOrder
<1>7. CASE call.remaining = {h}
  <2> DEFINE x == Answer(call, Ok(h))
  <2>1. /\ x.checkpoint = call.checkpoint /\ x.records = call.records /\ x.whole = call.whole
        /\ x.ok <=> Ok(h)
    BY <1>5, AnswerFields
  <2>2. answer' = x /\ call' = NoCall
    BY <1>1, <1>7
  <2> HIDE DEF x
  <2>3. EarlyAnswerOK'
    BY <1>2, <1>3, <1>4, <2>1, <2>2 DEF EarlyAnswerOK, AboutSound
  <2> QED BY <1>6, <2>2, <2>3 DEF EarlyInv, EarlyCallOK
<1>8. CASE call.remaining # {h}
  <2>1. UNCHANGED answer /\ call' = [call EXCEPT !.remaining = @ \ {h}, !.ok = Ok(h)]
    BY <1>1, <1>8
  <2>2. /\ call'.checkpoint = call.checkpoint /\ call'.records = call.records
        /\ call'.heads = call.heads /\ call'.whole = call.whole
        /\ call'.remaining = call.remaining \ {h} /\ call'.ok = Ok(h)
    BY <1>3, <2>1 DEF IsCall
  <2>3. EarlyCallOK'
    BY <1>2, <1>3, <1>4, <2>2 DEF EarlyCallOK, AboutSound
  <2>4. EarlyAnswerOK'
    BY <1>2, <2>1 DEF EarlyInv, EarlyAnswerOK, AboutSound
  <2> QED BY <1>6, <2>3, <2>4 DEF EarlyInv
<1> QED BY <1>7, <1>8

\* Nothing but the calls and the publisher touches what a sound answer rests on.
LEMMA EarlyOthers ==
  ASSUME EarlyInv, UNCHANGED <<published, answer>>, call' \in {call, NoCall},
         witnessed' = witnessed \/ witnessed' \in published
  PROVE  EarlyInv'
<1>1. PublishedInOrder'
  BY DEF EarlyInv, PublishedInOrder
<1>2. EarlyCallOK'
  BY DEF EarlyInv, EarlyCallOK, AboutSound
<1>3. EarlyAnswerOK'
  BY DEF EarlyInv, EarlyAnswerOK, AboutSound
<1> QED BY <1>1, <1>2, <1>3 DEF EarlyInv

LEMMA EarlyInvariance == Spec => []EarlyInv
<1>1. Init => EarlyInv
  BY FS_EmptySet DEF Init, EarlyInv, PublishedInOrder, EarlyCallOK, EarlyAnswerOK
<1>2. IInv /\ EarlyInv /\ [Next]_vars => EarlyInv'
  <2> SUFFICES ASSUME IInv, EarlyInv, [Next]_vars PROVE EarlyInv'
    OBVIOUS
  <2>1. CASE Publish
    BY <2>1, EarlyPublish
  <2>2. CASE Witness
    BY <2>2, EarlyOthers DEF Witness
  <2>3. CASE CallBundle
    <3>1. PICK checkpoint \in published, records \in SUBSET pool, heads \in PassedHeads :
            Begin(Call(checkpoint, records, heads, TRUE), CompleteList(checkpoint, records))
      BY <2>3 DEF CallBundle
    <3>2. UNCHANGED <<published, witnessed>>
      BY <2>3 DEF CallBundle
    <3> DEFINE integrity == CompleteList(checkpoint, records)
    <3>3. integrity \in BOOLEAN
      BY DEF CompleteList
    <3>4. records = checkpoint.members /\ (\A h \in records : RecordIntact(Body[h])) => integrity
      BY DEF CompleteList
    <3>5. Begin(Call(checkpoint, records, heads, TRUE), integrity)
      BY <3>1
    <3> HIDE DEF integrity
    <3> QED BY <3>2, <3>3, <3>4, <3>5, EarlyBegun
  <2>4. CASE CallRecord
    <3>1. PICK checkpoint \in published, h \in pool, heads \in PassedHeads :
            Begin(Call(checkpoint, {h}, heads, FALSE),
                  h \in checkpoint.members /\ RecordIntact(Body[h]))
      BY <2>4 DEF CallRecord
    <3>2. UNCHANGED <<published, witnessed>>
      BY <2>4 DEF CallRecord
    <3> DEFINE integrity == h \in checkpoint.members /\ RecordIntact(Body[h])
    <3>3. integrity \in BOOLEAN
      OBVIOUS
    <3>4. {h} \subseteq checkpoint.members /\ (\A g \in {h} : RecordIntact(Body[g])) => integrity
      OBVIOUS
    <3>5. Begin(Call(checkpoint, {h}, heads, FALSE), integrity)
      BY <3>1
    <3> HIDE DEF integrity
    <3> QED BY <3>2, <3>3, <3>4, <3>5, EarlyBegun
  <2>5. CASE VerifyRecord
    BY <2>5, EarlyTurn
  <2>6. CASE HostHandlesRejection \/ HostExits \/ UNCHANGED vars
    BY <2>6, EarlyOthers DEF HostHandlesRejection, HostExits, vars
  <2> QED BY <2>1, <2>2, <2>3, <2>4, <2>5, <2>6 DEF Next
<1> QED BY <1>1, <1>2, Invariance, PTL DEF Spec

\* Whatever the builders made of one registration is accepted from the first checkpoint on,
\* alone or in any list of such records, while everybody in it is active.
THEOREM SoundAreAccepted == Spec => []SoundRecordsAccepted
<1>1. ASSUME EarlyInv PROVE SoundRecordsAccepted
  <2>1. SUFFICES ASSUME answer # NoAnswer, Cardinality(published) = 1,
                        answer.records \subseteq SoundRecords \cap answer.checkpoint.members,
                        answer.whole => answer.records = answer.checkpoint.members,
                        \A h \in answer.records :
                          LET a == Body[h].assertion.payload IN
                          /\ a.notBefore <= answer.checkpoint.issuedAt
                          /\ Body[h].decision.payload.effectiveAt <= answer.checkpoint.issuedAt
                          /\ a.expiresAt # NoEnd => answer.checkpoint.issuedAt < a.expiresAt
                 PROVE  answer.ok
    BY DEF SoundRecordsAccepted
  <2>2. AboutSound(answer)
    BY <2>1 DEF AboutSound, ActiveAt
  <2> QED BY <1>1, <2>1, <2>2 DEF EarlyInv, EarlyAnswerOK
<1> QED BY <1>1, EarlyInvariance, PTL
===============================================================================
