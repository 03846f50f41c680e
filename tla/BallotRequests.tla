--------------------------- MODULE BallotRequests ---------------------------
(***************************************************************************)
(* From the ballot that a voter is shown to the choice that is counted     *)
(* (packages/protocol: v3-builders.ts, v3-validate.ts,                     *)
(* vote-signing-request-v3.ts and the manifests of tally-v3.ts).           *)
(*                                                                         *)
(* The publisher, outside this repository, publishes ballot manifests of   *)
(* one question: translations, and revisions that may change what a choice *)
(* means.  A service prepares an intent to vote from a manifest and from   *)
(* the vote that it takes for the voter's last one; the issuer verifies    *)
(* this request, shows the ballot to the voter and has the event signed.   *)
(* Until the event is in the log other requests of the same voter may have *)
(* been prepared, signed and logged.  It may be logged late, again, or     *)
(* never, and a tally may be asked for under any manifest.                 *)
(*                                                                         *)
(* Hashes stand for what is hashed.  The question, the ballot, the epoch   *)
(* and the protocol binding of a manifest are its binding.  A session has  *)
(* one item (QUESTION_SCOPED_VOTE_SESSION_MAX_ITEMS).  TallyReplay.tla has *)
(* the replay of events and receipts; here an event is logged together     *)
(* with its acceptance, and a tally is offered with all that was logged.   *)
(***************************************************************************)
EXTENDS Integers, Sequences, FiniteSets

CONSTANTS
  Voters,        \* the question nullifiers
  Drafts,        \* what the publisher may build a ballot manifest of
  IdOrder,       \* the identifiers of choices as localeCompare orders them
  Locales,       \* the languages of signing sessions
  LogId, Null,
  MaxManifests, MaxRequests, MaxEvents,   \* bounds
  NoTally

ASSUME RequestsAssumption ==
  /\ Null \notin Voters
  /\ MaxManifests \in Nat /\ MaxRequests \in Nat /\ MaxEvents \in Nat

VARIABLES
  manifests,  \* the published ballot manifests
  requests,   \* the verified requests, in the order in which they were prepared
  leaves,     \* the question log
  tally       \* the last tally that verified

vars == <<manifests, requests, leaves, tally>>

Init == manifests = {} /\ requests = <<>> /\ leaves = <<>> /\ tally = NoTally

Elements(list) == {list[i] : i \in DOMAIN list}
Ids(list) == [i \in DOMAIN list |-> list[i].id]
Place(id) == CHOOSE i \in DOMAIN IdOrder : IdOrder[i] = id

-----------------------------------------------------------------------------
(* Ballot manifests.                                                       *)

Manifest(draft, meaning) ==
  [binding |-> draft.binding, locale |-> draft.locale, meaning |-> meaning,
   shown |-> [i \in DOMAIN meaning |->
                [id |-> meaning[i].id, label |-> draft.labels[meaning[i].id]]]]

\* Mutant of BuildManifest: the choices stay as the publisher listed them.
ManifestAsListed(draft) == Manifest(draft, draft.choices)

\* The comparison of the builder's sort, and the places of a list in the order that it leaves.
Before(a, b) ==
  a.order < b.order \/ (a.order = b.order /\ Place(a.id) < Place(b.id))

InOrder(list) ==
  CHOOSE order \in [DOMAIN list -> DOMAIN list] :
    \A i, j \in DOMAIN list :
      /\ order[i] = order[j] => i = j
      /\ Before(list[order[i]], list[order[j]]) => i < j

\* buildBallotManifestV3
BuildManifest(draft) ==
  LET order == InOrder(draft.choices)
  IN  Manifest(draft, [i \in DOMAIN order |-> draft.choices[order[i]]])

Distinct(list) == \A i, j \in DOMAIN list : list[i] = list[j] => i = j

\* For any other draft the builder throws, as it asserts what it has built.
ASSUME DraftsAssumption ==
  /\ IdOrder \in Seq(Elements(IdOrder))
  /\ \A draft \in Drafts :
       LET list == draft.choices IN
       /\ list \in Seq(Elements(list)) /\ Len(list) >= 2
       /\ \A c \in Elements(list) : c.order \in Int /\ c.id \in Elements(IdOrder)
       /\ Distinct(Ids(list))
       /\ Distinct([i \in DOMAIN list |-> list[i].slug])

\* collectBallotErrors
BallotWellFormed(m) ==
  /\ Len(m.meaning) >= 2
  /\ Distinct(Ids(m.meaning))
  /\ Distinct([i \in DOMAIN m.meaning |-> m.meaning[i].slug])
  /\ \A i, j \in DOMAIN m.meaning : i < j => m.meaning[i].order <= m.meaning[j].order
  /\ Ids(m.shown) = Ids(m.meaning)

\* A manifest is built, or was put together without the builder: a choice is not shown, or
\* the first two labels are exchanged together with their identifiers.
Publish ==
  /\ Cardinality(manifests) < MaxManifests
  /\ \E draft \in Drafts :
       LET m == BuildManifest(draft) IN
       \E shown \in {m.shown, Tail(m.shown),
                     [m.shown EXCEPT ![1] = m.shown[2], ![2] = m.shown[1]]} :
         manifests' = manifests \cup {[m EXCEPT !.shown = shown]}
  /\ UNCHANGED <<requests, leaves, tally>>

-----------------------------------------------------------------------------
(* Requests and events.                                                    *)

\* The replay of TallyReplay.tla with the choices of a manifest.
Replay(m) ==
  INSTANCE TallyReplay WITH
    Nullifiers <- Voters,
    Choices <- Elements(Ids(m.meaning)),
    CountedChoices <- {c.id : c \in {d \in Elements(m.meaning) : d.isCounted}},
    Events <- {}, Receipts <- {}, Seals <- {}

\* buildVoteSigningIntentV3, for a vote that continues the one in base.
Intent(eventType, m, binding, choice, base) ==
  [eventType |-> eventType, manifest |-> m, binding |-> binding,
   choice |-> IF eventType = "withdraw" THEN Null ELSE choice,
   sequence |-> IF base = Null THEN 1 ELSE base.sequence + 1,
   previous |-> base]

\* assertVoteSigningIntentV3
IntentWellFormed(intent) == intent.choice = Null <=> intent.eventType = "withdraw"

\* Mutant of RequestLinked: the choice only has to be one of the ballot.
RequestOfBallot(request) ==
  LET intent == request.intent
      m      == request.manifest
  IN  /\ intent.manifest = m /\ intent.binding = m.binding
      /\ m.locale = request.locale
      /\ intent.choice \in Elements(Ids(m.meaning)) \cup {Null}

\* The comparisons of vote_signing_request_link_mismatch.
RequestLinked(request) ==
  LET intent == request.intent
      m      == request.manifest
  IN  /\ intent.manifest = m /\ intent.binding = m.binding
      /\ m.locale = request.locale
      /\ intent.eventType # "withdraw" =>
           /\ \E c \in Elements(m.meaning) : c.id = intent.choice /\ c.isCounted
           /\ intent.choice \in Elements(Ids(m.shown))

\* verifyVoteSigningRequestBatchV3
RequestVerifies(request) ==
  /\ BallotWellFormed(request.manifest)
  /\ IntentWellFormed(request.intent)
  /\ RequestLinked(request)

\* buildVoteEventV3 with what the issuer adds: nullifier, authorization and fresh key.
VoteEvent(i) ==
  LET intent == requests[i].intent
      voter  == requests[i].voter
  IN  [eventId |-> i, eventType |-> intent.eventType, context |-> intent.binding,
       nullifier |-> voter, key |-> i, issuedAt |-> 0,
       authorization |-> [context |-> intent.binding, nullifier |-> voter, key |-> i,
                          issuedAt |-> 0, expiresAt |-> 1],
       manifest |-> intent.manifest, choice |-> intent.choice,
       sequence |-> intent.sequence, previous |-> intent.previous]

Acceptance(e) ==
  [receiptId |-> e.eventId, logId |-> LogId, schema |-> "acceptance", event |-> e,
   sequence |-> 1, status |-> "counted", previous |-> Null]

Payloads(log, entryType) ==
  {leaf.payload : leaf \in {l \in Elements(log) : l.entryType = entryType}}

LoggedEvents(log) == Payloads(log, "vote_event")

\* A service prepares a request, rightly or not, from what is published and from any vote
\* of the voter that has been logged, and the issuer finds it in order.
PrepareRequest ==
  /\ Len(requests) < MaxRequests
  /\ \E voter \in Voters, locale \in Locales, m, n \in manifests :
     \E eventType \in {"cast", "replace", "withdraw"}, choice \in Elements(Ids(n.meaning)),
        base \in {Null} \cup {e \in LoggedEvents(leaves) : e.nullifier = voter},
        binding \in {m.binding, n.binding} :
       LET request == [voter |-> voter, locale |-> locale, manifest |-> m,
                       intent |-> Intent(eventType, n, binding, choice, base)]
       IN  RequestVerifies(request) /\ requests' = Append(requests, request)
  /\ UNCHANGED <<manifests, leaves, tally>>

\* The signed event reaches the log, for the first time or again.  Building an event
\* without its shape is an exception.
LogVote ==
  /\ Len(leaves) < 2 * MaxEvents
  /\ \E i \in DOMAIN requests :
       LET e == VoteEvent(i)
       IN  /\ Replay(requests[i].manifest)!WellFormedEvent(e)
           /\ leaves' = leaves \o <<Replay(requests[i].manifest)!EventLeaf(e),
                                    Replay(requests[i].manifest)!ReceiptLeaf(Acceptance(e))>>
  /\ UNCHANGED <<manifests, requests, tally>>

-----------------------------------------------------------------------------
(* The tally.                                                              *)

\* Mutant of ManifestsOK: manifests of one question may differ in their meaning.
OfOneQuestion(selected, published) ==
  /\ selected \in published
  /\ \A m \in published : BallotWellFormed(m) /\ m.binding = selected.binding

\* What validateReplayGraphV3 asks of the manifests.
ManifestsOK(selected, published) ==
  /\ selected \in published
  /\ \A m \in published :
       /\ BallotWellFormed(m)
       /\ m.meaning = selected.meaning
       /\ m.binding = selected.binding

\* What it asks of the manifest of each event.
EventManifestsOK(events, published) ==
  \A e \in events :
    /\ e.manifest \in published
    /\ e.choice \in Elements(Ids(e.manifest.meaning)) \cup {Null}

\* buildTallyInputSetV3, with all that was logged up to a checkpoint.
InputSet(selected, log) ==
  LET head   == Replay(selected)!TreeHead(LogId, log, Null)
      events == LoggedEvents(log)
  IN  [context |-> selected.binding, logId |-> LogId, events |-> events,
       authorizations |-> {e.authorization : e \in events},
       receipts |-> Payloads(log, "vote_adjudication"),
       leaves |-> log, checkpoint |-> head, head |-> head]

Replays(selected, published, log) ==
  /\ ManifestsOK(selected, published)
  /\ EventManifestsOK(LoggedEvents(log), published)
  /\ Replay(selected)!ReplayGraphOK(InputSet(selected, log))

VerifyTally ==
  /\ \E selected \in manifests, published \in SUBSET manifests, n \in 0..Len(leaves) :
       LET log == SubSeq(leaves, 1, n) IN
       /\ Replays(selected, published, log)
       /\ tally' = [selected |-> selected, size |-> n,
                    votes |-> Replay(selected)!AcceptedDirectVotes(InputSet(selected, log))]
  /\ UNCHANGED <<manifests, requests, leaves>>

Next == Publish \/ PrepareRequest \/ LogVote \/ VerifyTally

Spec == Init /\ [][Next]_vars

-----------------------------------------------------------------------------
(* Properties.                                                             *)

\* The ballot that a counted vote was shown on is the ballot of the tally: in the language
\* of the session the voter saw every choice of the tally, in its order, and the choice
\* means in the tally what it meant there, whatever was revised or translated since.
ShownIsCounted ==
  tally # NoTally =>
    \A v \in tally.votes :
      LET shown == requests[v.event.eventId] IN
      /\ shown.manifest.meaning = tally.selected.meaning
      /\ Ids(shown.manifest.shown) = Ids(tally.selected.meaning)
      /\ shown.manifest.locale = shown.locale

\* The events of a voter that were logged up to a checkpoint, by their places in the log.
VotesOf(voter, size) ==
  {i \in 1..size : leaves[i].entryType = "vote_event" /\ leaves[i].payload.nullifier = voter}

\* A verified tally counts for every voter the vote that was logged last, and nothing if it
\* was a withdrawal: no vote that was signed through a verified request is left out for its
\* choice, and none that was prepared against a vote replaced meanwhile is counted beside
\* the vote that replaced it, or wins over it.
LastWordCounts ==
  tally # NoTally =>
    \A voter \in Voters :
      {v.event : v \in {w \in tally.votes : w.event.nullifier = voter}} =
        {leaves[i].payload : i \in
           {j \in VotesOf(voter, tally.size) :
              /\ \A k \in VotesOf(voter, tally.size) : k <= j
              /\ leaves[j].payload.eventType # "withdraw"}}

\* Nobody continued a vote that was continued already, and nothing was logged twice.
Undisputed(log) ==
  \A i, j \in DOMAIN log : i < j /\ log[i].entryType = "vote_event"
    /\ log[j].entryType = "vote_event" /\ log[i].payload.nullifier = log[j].payload.nullifier
      => log[i].payload.previous # log[j].payload.previous

\* Translations of one meaning are tallied together: however the publisher listed the
\* choices, the manifests that were built of the same choices and show them, and all the
\* votes on them, replay under each of them.
TranslationsTallyTogether ==
  LET built == {m \in manifests : Ids(m.shown) = Ids(m.meaning)} IN
  /\ \A m, n \in built : /\ Elements(m.meaning) = Elements(n.meaning)
                         /\ m.binding = n.binding
  /\ Undisputed(leaves)
  => \A m \in built : Replays(m, built, leaves)
=============================================================================
