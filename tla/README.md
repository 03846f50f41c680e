# A verification development for the Qualified Opinion Protocol

This directory models the TypeScript packages of the repository (`packages/protocol`,
`packages/verifier`) and the publication hardening script in TLA+, checks the models with
TLC on small instances, and proves all safety properties with TLAPS for every value of the
constants. `PROJECT.json` lists the runs, the lines of code that each definition translates,
the hazards, and the theorems.

## 1. Inventory

The repository is a protocol library and an offline verifier. The service that runs the
polls (it appends to logs, signs tree heads and answers downloads) is not in it. Nothing
in the library keeps state between calls; the state that makes it hard lives around it: an
append-only log that grows between two downloads, signed heads of different ages, keys and
policies that rotate, a directory that publishes again and again.

| component | state | operations | correct when |
|---|---|---|---|
| tally replay (`protocol/src/tally-v3.ts`) | none; input: log prefix, artifacts, signed head | `buildTallyInputSetV3`, `replayTallyV3`, `verifyTallySnapshotStructureV3` | the votes selected are those the voters and the service last meant, and no log with forks or gaps is tallied |
| question log (external; `question-vote-log-v3.ts`, `types.ts`) | sequence of leaves, signed heads | append event, append receipt, sign head | append-only (assumed; checked by consistency proofs) |
| authorizations and events (`v3-validate.ts`) | none | `verifyVoteEventV3AuthorizationBinding` and schema checks | an event counts only inside its authorization |
| proof bundle (`vote-proof-v3.ts`) | none | `verifyPublicVoteProofBundleV3Integrity` | both artifacts are in the log under their heads |
| offline verifier (`verifier-v3.ts`, `verifier.ts`, `tally-checkpoint-v3.ts`, `cli.ts`, `node.ts`) | one run | bundle stage, checkpoint stage, exit code | a vote is called counted only if it counts at the checkpoint |
| verification policy (`policy.ts`) | a pinned document | parse, select by time | exactly one entry for an artifact, or an error |
| Merkle trees (`merkle.ts`) | none; node store behind a loader | create and verify proofs, from leaves or from the store | accepted heads are prefixes of one another |
| ballots and signing requests (`v3-builders.ts`, `v3-validate.ts`, `vote-signing-request-v3.ts`) | none; manifests translated and revised over time | build and check a manifest, an intent, a request, an event | what is counted is the voter's last word and means what the voter was shown |
| directory (`protocol` and `verifier` `eligibility-directory-v3.ts`) | none; checkpoints published over time | verify checkpoint, record, list | an accepted list is exactly the active members of the witnessed head |
| directory records (`eligibility-v3.ts`, `validate.ts`; `identity-receipt.ts`, `webauthn-binding.ts`, `verifyRecordChain`) | none; documents of several signers | build and check receipt, passkey, assertion, decision; link them | the parts of an accepted record belong to one person and one time, and a sound record is accepted |
| directory witness (`witness-status-v3.ts`, `eligibility-directory-witness-v3.ts`, `authorization-witness-v3.ts`) | none; statuses signed over time | sign and verify a status, verify it for an authorization | an authorization commits to a checkpoint that was the newest shortly before |
| attestation (`attestation.ts`) | none | verify the claims of one token against the policy | fresh, of the pinned workload and of this payload |
| publication hardening (`scripts/publication-hardening.ts`, its workflow and its doc) | GitHub repository: settings, secret, workflow, members, checks; a run | preflight, write, audit, retire | the credential goes only when all is hardened, and goes in the end |
| authorization requests, session results, vote attribution | none | build and check one document | (not modelled, see section 7) |
| canonical JSON, encodings, other builders, release scripts, fixtures | none | conversions, file checks | (not modelled, see section 7) |

Interactions. A voter's device signs events under an authorization; the service appends
them and, later, an acceptance and perhaps adjudications. A snapshot publisher packs the
log prefix of a head into an input set; an auditor replays it. The offline verifier joins a
bundle, a snapshot, perhaps a head from an independent channel, and the pinned policy. The
policy is consulted for the time of every artifact. Directory checkpoints are committed to
by authorizations through a witness. A publisher makes ballot manifests; a service
prepares intents from a manifest and from the vote that it takes for the voter's last; the
issuer verifies the request, shows the ballot and has the event signed.

What is hard here: logs in which concurrent devices or adjudicators forked a chain; heads
signed between an event and its acceptance; stale but valid snapshots; half-open windows
that meet at an instant; proofs between sizes at powers of two; awaits during which the log
changes; a promise nobody awaits; a script that dies between two steps of a retirement; a
ballot revised between the vote and the tally; a record put together of intact documents of
different people. Each is a hazard in `PROJECT.json`, at its line, with the property that is
about it.

## 2. Modules

| module | models | refers to |
|---|---|---|
| `TallyReplay` | `validateReplayGraphV3`, `replayTallyV3`, `verifyTallySnapshotStructureV3` as operators on an input set | |
| `QuestionLog` | the log, its heads, the material that can be offered for a prefix; what a tally should be, by hash links | extends `TallyReplay` |
| `TallyAudit` | an auditor that verifies snapshots while the log grows | extends `QuestionLog`, refines `TallyPromise` |
| `TallyTotals` | the second half of `replayTallyV3`: source positions, groups, weights, percentages, and the comparison of a published result with the replay | extends `Doubles` |
| `Doubles` | finite doubles that are not negative, with a given number of bits: sum, quotient and `toFixed`, rounded as ECMAScript rounds | |
| `TallyPromise` | abstract: a tally is the counted chain tips of a sound prefix | extends `QuestionLog` |
| `VerificationPolicy`, `PolicyDocuments` | parser and selectors; the documents that editing can produce, and a record under each | the second extends `EligibilityRecord` |
| `VoteProof` | the offline verifier from the bundle to the exit code | extends `QuestionLog`, `Attestation` |
| `MerkleTree`, `MerkleLog` | proofs as operators; a publisher with a node store and an auditor that follows it | |
| `Attestation` | the claims of a Confidential Space token against a policy | extends `VerificationPolicy` |
| `EligibilityRecord` | the documents of one directory record, their builders, and `verifyRecordChain` | extends `Attestation` |
| `DirectoryVerifier` | directory verification inside a JavaScript host, over a pool of records | extends `EligibilityRecord` |
| `BallotRequests` | manifests, signing requests, logged votes and the manifests of a tally | instantiates `TallyReplay` for the choices of each manifest |
| `WitnessedDirectory` | the witness's status from its signature to the audit of an authorization that commits to it | |
| `PublicationHardening` | hardening runs, GitHub, the owner | |
| `QuestionLog_proofs` | theorems about the replay and the log | |
| `LogClients_proofs` | theorems about the auditor (`TallyAudit`) and the offline verifier (`VoteProof`) | extends `QuestionLog_proofs` |
| `MerkleLog_proofs` | theorems about `MerkleTree` and `MerkleLog` | |
| `BallotRequests_proofs`, `TallyTotals_proofs`, `WitnessedDirectory_proofs`, `PublicationHardening_proofs` | theorems about the module of the same name | |
| `EligibilityDirectory_proofs` | theorems about records under edited policies and in verified lists | extends `DirectoryVerifier`, `PolicyDocuments` |

`MC*.tla` and `*.cfg` hold the small instances; `MCRecords` has the directory records that two
of them share.

Conventions. A hash is the value that was hashed, so SHA-256 is injective and a chain of
hashes is a chain of values; a Merkle root is the sequence of leaves below it (`MerkleTree`
has real trees of terms instead, and `MerkleLog_proofs` shows that roots commit to their
leaves and that the proofs bear this out, for trees of every size). Signatures are
those of the key that they name: a signature check is the selection of a trusted key for a
time. Arrays keyed by hash are sets. Fields that are only compared for equality are folded
into one value (`context`). Where the code collects errors and goes on, the model has a
conjunction. Definitions named "mutant of" are not used by any specification: each is a
plausible mistake in the definition that it names, which some property is known to notice.

How the state corresponds to the code:

- `leaves` is `questionLogLeaves` before it is cut at a checkpoint; `HeadAt(n, seal)` is a
  `MerkleTreeHeadV3` of size n. Two seals of one size are two heads, since a head is
  compared by its payload hash and carries its issue time.
- `witnessed` and `report` are what a caller passes as `expectedLatestTreeHead` and what it
  keeps of the result. `Offers` is complete material, material with one artifact too few or
  too many, and material cut by a leaf, under the right or the previous checkpoint.
- `session` (VoteProof) is one process of `cli.ts`: what the bundle stage found, the state of
  the vote, the exit code. `Pending` stands between the two stages, when the log may grow. The
  payload of an authorization (`Payload`) stands for its hash, and is the nonce that its token
  has to carry.
- `call` (MerkleLog) is the promise of `createStoredMerkleConsistencyProof` while its loader
  is awaited; `pinned` is the caller's last accepted head. Their field `leaves` is history, the
  leaves that stand under the head: the library never sees them and no guard reads them.
- `call`, `answer`, `rejection`, `process` (DirectoryVerifier) are a suspended call, its
  result, the unhandled rejection, and the host.
- `snapshot` and `report` (TallyTotals) are a `TallySnapshotV3` with the inputs it was built
  from and the last result that verified; `votes`, `positions` and `policy` are the service's.
  `TallyReplay` decides which votes are accepted; here each voter has one or none. A weight is
  a double, written as a multiple of the smallest one; sums run over voters and positions in
  one order (`Order`), as the sorted lists of an input set do, and round at every step.
- `pool` (DirectoryVerifier) are the records in circulation, `Body` their documents: sound ones,
  or one of the mixtures that exchange a part of a sound record for an equally intact one.
- `manifests` and `requests` (BallotRequests) are the published `BallotManifestV3` and the
  verified items of `VoteSigningRequestBatchV3`; `leaves` is the log, in which an event is
  followed by its acceptance; `tally` is what `replayTallyV3` returned last, and for what.
- `pending` (PublicationHardening) is an invocation as the environment of a run will show it
  and, in `by`, the person who asked for it, which the environment does not show.
- `statement` (WitnessedDirectory) is the last `TransparencyWitnessStatusV3`, `envelopes` are
  the `SignedTransparencyWitnessStatusV3` ever signed, `issued` is the part of a
  `QuestionVotingAuthorizationPayloadV3` that names checkpoint, envelope and time.
- `run` (PublicationHardening) is the position in `applyAndRetireGitHubPublicationRepository`
  and, in `next`, in the requests of `inspect`.

## 3. Runs

Run a configuration with `tlc -config <cfg> <module>`.

| run | module, cfg | shows | bounds and why they suffice |
|---|---|---|---|
| `audit` | `MCTallyAudit`, `MCAudit.cfg` | type, right votes, sound prefix, within the witness, no way back, refinement, superseded for good | two worlds of one log (`OneWorld`). Votes: 4 events of 2 nullifiers (two first casts, a replacement, an expired authorization), 2 seals, logs of 4 leaves, or of 3 with an entry logged twice: enough for a fork complete with its receipts, and a snapshot older and newer than the witnessed head. Decisions: a withdrawal and four decisions on one event, two of which fork, in every order, 6 leaves: the longest receipt chain (accept, exclude, restore) beside the event chain. Entries once, no witness (both are in the other world) |
| `ballots` | `MCBallotRequests` | what was shown is counted, the last word counts, translations are tallied together | 3 choices of which two share a place, 2 languages that list them differently, 2 revisions of meaning and one of binding, each also with a choice hidden or exchanged; 2 manifests, 2 requests, 2 logged events of 2 voters: two requests that continue one vote, a replacement or withdrawal, an event logged twice, a tally under either manifest of any prefix |
| `policy` | `MCPolicyDocuments` | parser and selectors agree, edits do not reinterpret records | two edits of a document with a window per list (a window is added, or an open one closed): three windows in one group, all ends and starts on a grid of 4 instants; records with a token of the old or the new image and an assertion for either |
| `vote_proof` | `MCVoteProof` | reported state, nothing hidden, exit code, bundle in the log | a key rotation, the end of a voting policy, a stale witness, a receipt under a retired key, an exclusion, a vote cast at the very instant its authorization expires, one under an authorization with the token of another; logs of 4 leaves hold two events with their receipts, or one vote with its replacement or exclusion, each artifact once and at most one of the unsound ones (`AppendedOnce`, `OneUnsound`) |
| `merkle` | `MCMerkleLog` | stored proofs exact and accepted, inclusion exact, one log followed | sizes 0..8 (every shape around 2, 4 and 8; the theorems are for all sizes) and one restore at any point |
| `directory` | `MCDirectoryVerifier` | current list is the witnessed one, accepted list is exact, records belong together, sound ones are accepted | 4 records together (two sound, one that expires, one with a false token), or any one of 288 mixtures of 6 receipts, 2 tokens, 8 assertions and 3 decisions; 2 checkpoints, also two with one number |
| `attestation` | `MCDirectoryVerifier`, `MCAttestation.cfg` | violated: see section 6 | the same instance |
| `totals` | `MCTallyTotals` | figures reconcile, percentages faithful, order of rules irrelevant, bound policy only, channels independent | 2 voters, 2 positions with ten kinds of rows (each way not to count is one), 2 policies, of which one has rules that overlap, 3 changes between publication and audit: a vote, a position and the policy. `Units = 1`, so that rounding is coarse, and doubles of 10 bits with weights of 994, 5 and 2: there are tallies whose choices do not add up to the total weight, and percentages that exact arithmetic would round to another unit |
| `locale` | `MCTallyTotals`, `MCLocale.cfg` | violated: see section 6 | the same instance with auditors in two locales |
| `witness` | `MCWitnessedDirectory` | checkpoint was current, only successes accepted, sound ones accepted, audits agree | clock 0..3 with lead, maximum age and drift of one tick: a status can be just fresh, just too old and just ahead; 2 log entries, 2 attempts, one of which may fail, one change of revision |
| `hardening` | `MCPublicationHardening` | evidence, retirement only when hardened, only the owner's runs write, every run ends, retired in the end | 2 settings (one read first, one last), 2 audits, 2 faults of any kind, one move of main, one person: a fault in the retirement and another in the recovery |
| `invitation` | `MCPublicationHardening`, `MCInvitation.cfg` | violated: see section 6 | the same instance |

All bounds are constants (`MaxLeaves`, `MaxRestores`, `MaxInsertions`, `MaxSequence`,
`MaxPublished`, `MaxAttempts`, `MaxMoves`, `MaxFaults`, `MaxChanges`, `MaxTime`,
`MaxEntries`, `MaxManifests`, `MaxRequests`, `MaxEvents`) or state constraints of an MC module
(`OneWorld`). `CHECK_DEADLOCK FALSE` is set where a bounded log ends or a
process has exited, which is no deadlock of the code.

## 4. Fairness

Only `PublicationHardening` states liveness; the library has no scheduling of its own. A
run that started goes on (weak fairness of `Start` and `RunStep`): it is a sequential script
whose requests time out after 30 s, and a timeout is the fault `RunDies`. Settings that
GitHub accepted settle, and required checks of the current commit pass: without that, no
audit could succeed and the documented recovery cannot either. The owner removes what is
wrong, restores the secret, enables the workflow and dispatches again, as
`docs/publication-hardening.md` prescribes; `EventuallyRetired` is a statement about this
recovery and is therefore under this assumption. Nothing is assumed of faults, reruns of
checks, moves of main, early dispatches, invitations, or their acceptance; faults are
bounded, so they cease. `EveryRunEnds` needs the fairness of runs only.

## 5. Proofs

Every safety property that a passing run checks is also a theorem for all values of the
constants. The only assumptions are the named `ASSUME`s of the modules, which TLC evaluates
in the runs; the Merkle trees need none. `tlapm <module>_proofs.tla` checks a module.

| proofs | theorems | inductive invariant |
|---|---|---|
| `QuestionLog_proofs` | what a replay covers and selects | |
| `LogClients_proofs` | all properties of the run `audit`; all properties of `vote_proof` | `TypeOK`, `ReportSound`; `SessionTypeOK`, `SessionSound` |
| `MerkleLog_proofs` | what roots and proofs show; all properties of `merkle` | `Logged`, `CallInv`, `PinnedInv` |
| `BallotRequests_proofs` | all properties of `ballots` | `IInv` of the log and the tally, `MadeInv` of manifests and requests |
| `TallyTotals_proofs` | all properties of `totals` | `WorldOK`, `SnapshotOK`, `ReportOK` |
| `EligibilityDirectory_proofs` | all properties of `policy` and of `directory` | `DocumentOK`; `PublishedOK`, `WitnessedOK`, `CallOK`, `AnswerOK`; `EarlyInv` |
| `WitnessedDirectory_proofs` | all properties of `witness` | `IInv` |
| `PublicationHardening_proofs` | the safety properties of `hardening` | `PendingHonest`, `RunPromise`, `Retired` |

The prover has no induction over data. Where an argument would be by induction on numbers or
on finite sets, it looks at the smallest counterexample instead (`LeastNat`, `SmallestSubset`,
both from well-founded minima).

### The tally

The theorems of `QuestionLog_proofs` and of the auditor hold for all sets of nullifiers, choices, events, receipts and seals that satisfy `ArtifactsAssumption` (an event
or receipt has the shape that its schema check enforces) and for all `MaxLeaves`.

The argument. `ReplayGraphOK` speaks of sequence numbers; what is wanted is a statement
about hash links in the log.

1. `ReplayCoversLog`: if material verifies under a head of the log, its events and receipts
   are exactly those of the prefix. One direction is `LogPrefixOK` (each leaf is matched, the
   root is the leaf sequence), the other is `ArtifactsLogged` with `LeafForms`.
2. `ReplayChains`, `NoForkInChain`, `ReplayCoversSoundPrefix`: contiguous chains have no two
   successors of one artifact, so the prefix is not `Forked`; with 1 it is not `Incomplete`.
3. `LargestIsTip`: in a contiguous chain the element with the largest number is the one that
   nothing links back to. `LeastNat` (from well-founded induction on the naturals) supplies
   the least number above a given one, so no finiteness of the chain is needed.
   `ReplaySelectsTips` joins them: the replay selects `TipVotes`.
4. `TypeCorrect`, and `ReportSound`, the inductive invariant: a report is of a prefix that is
   sound and has exactly its tip votes, and it is not larger than the witnessed head.
   The conjuncts are needed together: `LogGrows` keeps them because a prefix does not change
   (`PrefixKept`), and `VerifySnapshot` establishes them by 1 to 3 (`VerifiedReport`).
   From it follow `TallyIsTipVotes`, `TallyCoversSoundPrefix`, `TallyWithinWitness`.
5. `SupersededStaysSo` uses that a superseded event stays superseded in a longer prefix
   (`LoggedGrows`, `TipsAreNotSuperseded`); `TallyNeverRollsBack` that a verified snapshot is
   of the witnessed head, which is at least as large as the report.
6. `AuditKeepsPromise`: the refinement. `LogGrows` maps to `LogGrows`, `VerifySnapshot` to
   `AcceptTally` by 4, `WitnessLatestHead` to a stutter.

### Merkle trees

The trees, their proofs and the verifiers are recursive functions on the natural numbers, and all
that is known of such a function is a `CHOOSE`. `Recursion` shows once that a function is defined
by its values for smaller arguments: below every bound there is exactly one (`DefinedBelow`,
`DefinedOnce`), and the smallest number at which it would fail is none. A function that contains
hashes has no set of values given beforehand; `Closure` supplies one, a set that is closed under
`Node`. Each function then has an equation (`RootSolved`, `PlanSolved`, `RebuildSolved`,
`ClimbsSolved`), and what follows about it is again by the smallest counterexample.

1. `RootsCommit`: equal roots of equally many leaves have equal leaves, since terms are injective.
   Sizes have to be equal: a root alone does not tell a leaf from a node.
2. From the store: the plan of a range asks only for nodes that lie in it (`PlanInside`), and they
   resolve to its root (`ResolveExact`), also for a log that has grown, or was restored and
   has still (or again) as many leaves. Stored paths and paths from the leaves solve the same
   equation (`AuditEquation`, `ConsistencyEquation`), with names of ranges as items in one and
   roots in the other, so that one is the image of the other (`Maps`, `StoreIsExact`). With
   `CallInv` this gives `ServedProofIsExact`.
3. Inclusion: `reconstructRoot` takes as many nodes as the audit path has, and rebuilds the root
   exactly when it starts from the leaf and takes the nodes of that path (`RebuiltExactly`,
   `InclusionVerifies`). From it `InclusionIsExact`, for damage of any kind: the theorem on the
   operators is about every sequence of nodes.
4. The verifier of consistency proofs does not recur on ranges; it climbs from level to level in
   both trees at once, and skips levels at which a last node has no sibling. `Tree(h, N, k, i)`
   is the node at level k and index i in the tree of N leaves (short, if it is the last), `TreePair` and
   `TreeLast` say how it is made of the nodes below, or is one of them.
   - What it shows (`VerifiedPrefix`, hence `FollowsOneLog`): at the end both reconstructed
     hashes are the roots, so both are the nodes that they should be. `Good` descends from there to the first
     node of the path (`Descends`): the hashes of a step are those of the trees only if those of
     the step before are, and the left siblings that it took in are then the same node of both
     trees. So all leaves of the smaller tree agree. Nothing is assumed about the path.
   - That it accepts (`ConsistencyVerifies`, hence `ServedProofVerifies`): the path of a range leads from
     the start to the node over the range (`Reaches`, `PathsLead`), by the cases of
     `buildConsistencyPath`: to the left, the right sibling is added (`LeadsLeft`), to the right, the
     left one (`LeadsRight`), and levels without a sibling are passed (`Lifts`).
     `WholePath` adds the root that the code puts in front when the size is a power of two.
5. `IInv` is what the log adds: a leaf holds its position, a call that is served has a path from the
   leaves that the log had then, and the accepted head is the root of its leaves.

The other models may therefore take a root as the sequence of its leaves, and an accepted
consistency proof as the prefix relation.

### The witnessed directory

All four properties of the run `witness` hold under `WitnessAssumption` alone: tolerances
and bounds are any naturals, the failures any set.

`CheckpointWasCurrent` is not inductive: it relates the authorization to the log by way of an
envelope signed long before. `IInv` says of every envelope that it has the pinned key, and of
every signed success that it is true of the log as it is now (`TrueOfLog`): it names the newest
checkpoint of a prefix, and all that follows the prefix was logged at or after the observation.
`TrueForGood` shows that appending keeps this, which needs that the log is in the order of time
(`LogInTime`). `VerdictStands` ties the verdict to the check of the authorization, which does not
depend on the time of the audit. `LatestIsNewest` (a non-empty set of places in the log has a
largest member, from well-founded induction) gives the choice in `LatestCheckpoint` its meaning.
Then the theorem is arithmetic: the newer checkpoint was logged no earlier than the observation,
and the issue is at most the maximum age and the drift after it.

### The offline verifier

`LogClients_proofs` uses the theorems on the replay: material that verifies under a head is of
exactly that prefix, so the state derived from it is that of the hash links. `SessionSound`
says of a run that its bundle is logged (`BundleStage`), that a state it has found is true of
the prefix and that all below the checkpoint is trusted (`CheckpointStage`), and that its exit
code stands for both. It has to name the prefix by its size, since the log goes on growing
between the stages and after the run. `VoteProofAssumption` pins an accepted policy.

`NoInvalidBallotHidden` is stated without the definitions that the verifier is made of, so that a
wrong boundary or a comparison left out there would break it: `SoundBallot` and `SoundReceipt`
say for which payload the token was issued, by which image, within which window and before which
expiry, in terms of the artifacts alone. Only the check of the image's environment
(`EnvironmentOK`) is shared. `TrustedBallotIsSound` and `TrustedReceiptIsSound` derive them from
the checks.

### Ballots

`LastWordCounts` compares the order of the log with numbers that were given when requests were
prepared, in any order. The invariant says therefore that the vote a request continues is in
the log (`RequestsOK`) and that every vote leaf is of one request and stands after the vote
that it continues (`LeavesOK`). In a prefix that replays, the vote logged last is then the one
of the largest number (`LastIsLatest`): otherwise the chain would hold a vote that continues
it (`Successor`), logged later. `ShownIsCounted` follows from the issuer's comparison with the
shown choices and the tally's comparison of the meanings.

`TranslationsTallyTogether` says that something is accepted, so all of `ReplayGraphOK` has to be
derived. `MadeInv` adds what the log is made of: events of published manifests that continue a
vote of the same voter by one, each followed by its acceptance. `UndisputedReplays` shows
every check of the replay; of two different events of one voter with one number
the smallest pair would continue one vote, which is a dispute (`OnePerNumber`). That two lists
of the same choices are sorted into one is `SameMeaning`: at the first place where they
differ, each would have to come before the other. `DraftsAssumption` says what the builder
asserts of its own result: choices with different identifiers and slugs, and two at least.

### Totals

`VerifiedOK` says that a verified result is that of its inputs, under the policy that they bind.
`RuleOrderIsIrrelevant` then needs only that a row matched by two rules bars the tally
(`OnlyRule`, `SameRule`). For `TotalsReconcile` sums over sets are needed. The community
modules define them by a choice of one element after the other; `Sums` shows that such a sum
exists and does not depend on the choice, and `SumPartition`, `SumJoin` and `CountPartition`
that parts add up to the whole. Group results are a list sorted in some collation:
`SortedList` shows that it has each code once, `GroupsAddUp` that nothing is counted twice or
left out.

Weights may be any positive doubles, and their sums are rounded, so counts reconcile always and
weights only where every partial sum is a double (`AddsExactly`; with weights of 0.1, 0.2 and 0.3
the parts and the whole differ in the last place). `SmallTotalsAreExact` says when that is so:
for weights that are multiples of one power of two, such as whole numbers, while their total fits
into the bits of a double, 2^53 for whole numbers. `NothingRounded` shows that the running sum
is then the exact one. However sums are rounded, a choice or a group never outweighs the whole:
`WeightGrows` compares the two running sums place by place, and rounding is monotonic
(`NearestGrows`) and keeps what is a double already (`NearestExact`, `NearestIsDouble`).

The arithmetic of the percentages is `Rounding`: the quotient and its hundredfold are off by one
part in 2^Precision at most (`NearestError`, `QuotientForm`, `HundredfoldForm`), rounding to the
last place adds half a unit (`FixedForm`), and every step is monotonic. All this holds for every
`Precision` and every `Scale` that is not smaller, so for the 53 and 1074 of IEEE 754.
The final `Number(...)` reads a decimal with 9 digits at most, and two of those are never one
double. `TotalsAssumption` has finite sets, weights that are positive doubles (which the policy's
parser enforces), an order that lists all voters and positions once, and collations that order
all codes.

### Policy documents

`DocumentSpec` is the specification of `PolicyDocuments`. `DocumentOK` (every entry has the fields
and the times of its list) is all that has to be inductive, since the rest is about one document or
about two neighbouring ones. The code sorts the windows of a group and compares neighbours.
`OrderExists` shows that a sort has a result; `NeighboursSuffice` that if each window ends before
the next starts, none contains an instant of another, for any number of windows;
`FollowOneAnother` the converse, that unambiguous windows pass. For
`OldRecordsKeepTheirMeaning`, `Counterpart` finds in the edited document the entries that were in
force, and `VerificationKept` goes through all selectors of a record: what was the only candidate
is the only one still, because the edited document was accepted. `DocumentsAssumption` gives entries
their fields and integer times.

### The directory verifier

The invariant follows a suspended call: what `verifyCheckpoint` established when the call began holds
when it goes on (`CallOK`), though the directory has published more and the witness has moved on
(`WitnessedForGood`), and every answer has it (`AnswerOK`). `RecordGood` collects what the checks
of one record establish, by all its links (`GoodBelongsTogether`).

`SoundRecordsAccepted` is the opposite direction. `MadeTogether` states what the service
does: it calls the builders in order, for one registration, with keys and policies in force
at the times it writes into the documents. `SoundRecordsAssumption` says that the sound
records are so made; that they are not a special case that could not exist, TLC checks on
the instance. `SoundPasses` takes such a record through every check, `EarlyInv` keeps that
the call in hand is under the only checkpoint published. The proof showed that the property
needs the decision to be in effect when the checkpoint is issued, as the code asks
(`eligibility-directory-v3.ts:264`); the property says so.

### Hardening

`OnlyTheOwnerRuns` needs that a queued invocation that will look like a first attempt of the owner
is one (`PendingHonest`). `RetiresHardened` and `EvidenceMeansRetired` need, of a run at any
request, what it has read and what can no longer change since: a setting read as converged stays,
nobody is invited during a run, so who is not among the collaborators of the audit does not come
(`SettingsSeen`, `InvitationsSeen`, `CollaboratorsSeen`). With an arbitrary list of settings and
any number of members, attempts and faults, this is the argument that two inventories in one
order suffice for the audit, although they do not for the preflight (section 6).

### Only model-checked

- Liveness (`EveryRunEnds`, `EventuallyRetired`): fairness and `ENABLED` are beyond the prover.
- The three properties of section 6, which are violated.

## 6. Disagreements between code and documentation

- `packages/verifier/src/eligibility-directory-v3.ts:315` does not await the verification of
  the attestation. `packages/verifier/README.md:33` says that the function verifies it. Run
  `attestation` reaches an accepted record whose attestation fails.
- `scripts/publication-hardening.ts` reads collaborators (line 918) before invitations (line
  946). `docs/publication-hardening.md:16` says that nothing is written unless both inventories
  are proven clean. Run `invitation` accepts an invitation between the two reads. The audit reads
  collaborators again, so `RetiresHardened` holds nevertheless.
- `packages/protocol/src/tally-v3.ts:1510` orders group results with `localeCompare`, hence by
  the default locale of the process, and line 534 compares results as canonical JSON.
  `docs/threat-model.md:14` says that an independent verifier can "replay tally inputs
  deterministically". In run `locale` an auditor whose locale collates the group codes otherwise
  (Czech puts ch after h) refuses a snapshot in which nothing was altered. The order of
  directory leaves (`packages/protocol/src/eligibility-directory-v3.ts:134`) has the same cause.

Noted without a run: `transparencyLogId` of the policy (`policy.ts:47`) is parsed but never
compared; `not_observed_at_checkpoint` (`tally-checkpoint-v3.ts:458`) cannot be reached behind
`verifyTargetIncluded`; `--latest-question-head` without `--tally-snapshot` has no effect;
consistency proofs do not bind the tree sizes by themselves (the signed heads do); published
weights of groups and choices need not add up to the published total weight when a policy has
weights such as 0.1, which nothing in the documentation promises.

## 7. Not modelled, and why

- Totals that are not finite: the weights of a policy may be so large that their sum overflows. A
  snapshot with such a total is refused (`positiveOrZero` in `tally-v3.ts`), so there is no
  report; `Doubles` has no infinity. Its numbers are otherwise those of ECMAScript, with fewer
  bits in the run.
- That the identifiers of source positions differ: no code compares them.
- Question authorization requests (`question-authorization-request-v3.ts`), the results of a
  signing session and vote attributions: each is the shape, the hash and the signature of one
  document. No code here compares a request with the batch that it names, an event with the
  intent that it was signed for, or `expiresAt` of a batch with a clock, so a model of a whole
  session would be about the service, not about this repository.
- The locale of the publisher of a ballot: choices with one `displayOrder` are put in order with
  `localeCompare`, so publishers in two locales could still disagree (the cause that run
  `locale` shows); `BallotRequests` has one collation.
- The format of single fields, canonical JSON, encodings, CBOR, signature algorithms, X.509
  chains: conversions and cryptography, taken as correct; the models start from documents
  whose fields have their types.
- The paging of GitHub's inventories: those that matter fit one page (none or one entry).
- The remaining builders, fixtures, vectors: they make the inputs.
- Build and release scripts: file input and output without state of their own.
- Exit code 2 (unreadable input) and the text of the command line.

## 8. Plan

Done, in this order: replay, log and auditor with their proofs and the refinement; policy;
offline verifier; Merkle trees; directory; hardening; totals; the directory's witness; the
records of the directory with attestation, passkeys and policies; ballots and signing requests;
foreign invocations of the hardening; theorems for every safety property, those of the Merkle
trees last. Next:

1. That each event of `BallotRequests` is one of `TallyReplay`'s, so that the theorems of
   `QuestionLog_proofs` apply to its log instead of being derived again.
2. The chain of directory checkpoints and the uniqueness of source positions, should code for
   them appear.
