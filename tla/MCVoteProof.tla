---------------------------- MODULE MCVoteProof -----------------------------
(* A vote that is replaced and adjudicated, another voter's ballots that must not     *)
(* count: under an authorization with a stale directory witness, under one that       *)
(* borrows its token from the other voter, and at the instant its authorization       *)
(* expires.  A receipt signed with a retired key, and tree heads and snapshots on     *)
(* both sides of a key rotation and of the end of the voting policy.                  *)
EXTENDS VoteProof, TLC

CONSTANTS n1, n2, yes, no, unsure, q, voteLog, none, app, site, image, retired, account,
          tag, k1, k2, checkpoint

MCNullifiers == {n1, n2}
MCChoices == {yes, no, unsure}
MCCounted == {yes, no}

Identity(i, from, until) ==
  [image |-> i, account |-> account, environment |-> tag :> i, audience |-> app,
   origin |-> site, witnessMaxAge |-> 1, from |-> from, until |-> until]
Token(payload) ==
  [genuine |-> TRUE, issuedAt |-> 1, nonce |-> payload, image |-> image, account |-> account,
   audience |-> app, environment |-> tag :> retired, overrides |-> tag :> image]

PinnedPolicy ==
  [votingPolicies   |-> <<[binding |-> q, audience |-> app, from |-> 0, until |-> 5]>>,
   serverKeys       |->
     <<[keyId |-> k1, purpose |-> "receipt", spki |-> k1, from |-> 0, until |-> 3],
       [keyId |-> k2, purpose |-> "receipt", spki |-> k2, from |-> 2, until |-> NoEnd],
       [keyId |-> k2, purpose |-> "eligibility", spki |-> k2, from |-> 0,
        until |-> NoEnd]>>,
   identityPolicies |-> <<Identity(retired, 0, 2), Identity(image, 1, NoEnd)>>]

MCPolicy == PinnedPolicy

MCManifest == [publishedAt |-> 0, key |-> k1]

Authorization(n, key, observedAt) ==
  [context |-> q, nullifier |-> n, key |-> key, issuedAt |-> 1, expiresAt |-> 3,
   audience |-> app, checkpoint |-> checkpoint,
   witness |-> [checkpoint |-> checkpoint, observedAt |-> observedAt]]

Attested(payload, nonce) == ("token" :> Token(nonce)) @@ payload

Event(id, n, type, choice, seq, previous, at, observedAt) ==
  LET payload == Authorization(n, id, observedAt) IN
  [eventId |-> id, context |-> q, nullifier |-> n,
   authorization |-> Attested(payload, payload), key |-> id, eventType |-> type,
   choice |-> choice, sequence |-> seq, previous |-> previous, issuedAt |-> at]

Receipt(id, schema, e, seq, status, previous, at, key) ==
  [receiptId |-> id, logId |-> voteLog, schema |-> schema, event |-> e, sequence |-> seq,
   status |-> status, previous |-> previous, receivedAt |-> at, key |-> key]

Cast    == Event(1, n1, "cast", yes, 1, none, 1, 1)
Replace == Event(2, n1, "replace", no, 2, Cast, 2, 2)
Stale   == Event(3, n2, "cast", yes, 1, none, 1, -1)
Expired == Event(4, n2, "cast", yes, 1, none, 3, 1)
Borrowed ==
  [Event(5, n2, "cast", yes, 1, none, 1, 1) EXCEPT
     !.authorization = Attested(Authorization(n2, 5, 1), Authorization(n1, 1, 1))]

CastAccepted    == Receipt(1, "acceptance", Cast, 1, "counted", none, 1, k1)
ReplaceAccepted == Receipt(2, "acceptance", Replace, 1, "counted", none, 2, k1)
ReplaceLate     == Receipt(3, "acceptance", Replace, 1, "counted", none, 4, k1)
CastExcluded    == Receipt(4, "adjudication", Cast, 2, "excluded", CastAccepted, 4, k2)

Unsound == {Stale, Expired, Borrowed}

MCEvents == {Cast, Replace} \cup Unsound
MCReceipts ==
  {CastAccepted, ReplaceAccepted, ReplaceLate, CastExcluded}
    \cup {Receipt(4 + e.eventId, "acceptance", e, 1, "counted", none, 3, k2) : e \in Unsound}

MCSeals == {[issuedAt |-> 4, key |-> k2], [issuedAt |-> 5, key |-> k2]}
MCStamps == {[generatedAt |-> 4, key |-> k1], [generatedAt |-> 4, key |-> k2]}

Run(anchored, requireCounted, snapshot) ==
  [anchored |-> anchored, requireCounted |-> requireCounted, snapshot |-> snapshot]
MCOptions ==
  {Run(TRUE, TRUE, TRUE), Run(TRUE, TRUE, FALSE), Run(FALSE, TRUE, TRUE)}

\* Nothing is appended twice, and a log has one of the unsound ballots at most.
AppendedOnce == \A i, j \in DOMAIN leaves : leaves[i] = leaves[j] => i = j
BallotIn(leaf) == IF leaf.entryType = "vote_event" THEN leaf.payload ELSE leaf.payload.event
OneUnsound == Cardinality({BallotIn(leaves[i]) : i \in DOMAIN leaves} \cap Unsound) <= 1
=============================================================================
