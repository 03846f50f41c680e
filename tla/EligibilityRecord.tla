-------------------------- MODULE EligibilityRecord --------------------------
(***************************************************************************)
(* One record of the active eligibility directory: the registration of a   *)
(* passkey (identity-receipt.ts, webauthn-binding.ts), the assertion that  *)
(* its holder is qualified (eligibility-v3.ts), the decision that made it  *)
(* active (validate.ts), and the chain of checks that the verifier         *)
(* (eligibility-directory-v3.ts of packages/verifier) makes of the three.  *)
(*                                                                         *)
(* A hash stands for what is hashed.  An envelope names a key and carries  *)
(* the signature of its hash by signedBy.  A text has spellings and one    *)
(* normal form.  An origin stands for its host.  The claim, the reviewer   *)
(* and the subject's issuer and scheme are the terms of an assertion.      *)
(***************************************************************************)
EXTENDS Attestation

CONSTANTS
  Null,
  Expected   \* the protocol binding and terms that the caller expects of an assertion

\* normalizeVerifiedEmail, normalizeVerifiedFullName
Normalized(text) == text.normal

-----------------------------------------------------------------------------
(* The registration of a passkey.                                          *)

\* createEmailVerificationReceiptPayloadV3
Receipt(email, name, passkey, verifiedAt) ==
  [email |-> email, name |-> name, passkey |-> passkey, verifiedAt |-> verifiedAt]

\* isEmailVerificationReceiptPayload
ReceiptWellFormed(receipt) ==
  /\ receipt.passkey.rp = receipt.passkey.origin
  /\ receipt.passkey.count >= 0

\* authenticatorHeader: the relying party, a person present and verified.
HeaderOK(authenticator, rp) ==
  authenticator.rp = rp /\ {"present", "verified"} \subseteq authenticator.flags

\* verifyRegistration
RegistrationVerifies(passkey) ==
  LET made == passkey.registration IN
  /\ made.client = [type |-> "create", challenge |-> made.challenge,
                    origin |-> passkey.origin, frame |-> "top"]
  /\ made.format = "none"
  /\ HeaderOK(made.authenticator, passkey.rp)
  /\ made.authenticator.credential = passkey.credential

\* verifyWebAuthnP256SpkiAssertion, for the origin of the identity policy.
AssertionVerifies(passkey, origin) ==
  LET used == passkey.proof IN
  /\ used.client.type = "get"
  /\ used.client.challenge = used.challenge
  /\ used.client.origin = origin
  /\ used.client.frame # "crossOrigin"
  /\ HeaderOK(used.authenticator, origin)
  /\ used.signedBy = passkey.key

\* verifyIdentityPasskeyBinding
PasskeyBound(receipt, p) ==
  LET passkey == receipt.passkey IN
  /\ passkey.origin = p.origin /\ passkey.rp = p.origin
  /\ RegistrationVerifies(passkey)
  /\ passkey.registration.authenticator.key = passkey.key
  /\ passkey.proof.user \in {Null, passkey.user}
  /\ AssertionVerifies(passkey, p.origin)
  /\ passkey.proof.authenticator.count = passkey.count

-----------------------------------------------------------------------------
(* The assertion, the decision and the record.                             *)

\* buildEligibilityAssertionV3
EligibilityAssertion(voter, binding, receipt, p, evidence, terms, window, issuer) ==
  [voter |-> voter, binding |-> binding, identityProof |-> receipt,
   identityPolicy |-> p, policyHash |-> p,
   rootKey |-> [credential |-> receipt.passkey.credential, key |-> receipt.passkey.key],
   eligibilityPolicy |-> binding.eligibilityPolicy, terms |-> terms,
   subject |-> evidence.subject, evidence |-> evidence, evidenceHash |-> evidence,
   issuedAt |-> window.issuedAt,
   notBefore |-> IF window.notBefore = Null THEN window.issuedAt ELSE window.notBefore,
   expiresAt |-> window.expiresAt, issuer |-> issuer]

\* validateEligibilityAssertionV3
AssertionWellFormed(a) ==
  /\ a.eligibilityPolicy = a.binding.eligibilityPolicy
  /\ a.evidence.subject = a.subject
  /\ a.expiresAt # NoEnd => a.notBefore < a.expiresAt
  /\ DOMAIN a.identityPolicy.environment # {}

\* verifyEligibilityAssertionV3Integrity
AssertionIntact(a) == a.evidenceHash = a.evidence /\ a.policyHash = a.identityPolicy

\* collectEligibilityDecisionErrors
DecisionWellFormed(d) ==
  /\ d.sequence \in Nat \ {0}
  /\ d.status \in {"active", "revoked"}
  /\ d.sequence = 1 <=> d.previous = Null

\* attachDetachedSignature
Envelope(payload, keyId, signedBy) ==
  [payload |-> payload, hash |-> payload, keyId |-> keyId, signedBy |-> signedBy]

\* verifySignedPayloadHash
EnvelopeIntact(envelope) == envelope.hash = envelope.payload

\* buildActiveEligibilityDirectoryRecordV3
DirectoryRecord(voter, receipt, token, assertion, decision) ==
  [voter |-> voter,
   registration |-> [payload |-> receipt, hash |-> receipt, token |-> token],
   assertion |-> assertion, decision |-> decision]

\* verifyActiveEligibilityDirectoryRecordIntegrityV3
RecordIntact(r) ==
  /\ AssertionWellFormed(r.assertion.payload)
  /\ DecisionWellFormed(r.decision.payload)
  /\ r.registration.hash = r.registration.payload
  /\ EnvelopeIntact(r.assertion) /\ EnvelopeIntact(r.decision)

-----------------------------------------------------------------------------
(* verifyRecordChain                                                       *)

VotingPolicyAt(p, binding, time) == Sole(VotingMatches(p, binding, time))

\* The envelope is signed with the eligibility key that it names, in force at the time.
SignedInForce(p, envelope, time) ==
  LET keys == KeyMatches(p, envelope.keyId, "eligibility", time) IN
  /\ Sole(keys) /\ EnvelopeIntact(envelope)
  /\ \A i \in keys : p.serverKeys[i].spki = envelope.signedBy

\* The comparisons of directory_record_links_invalid.
RecordLinked(r, expected, binding) ==
  LET a == r.assertion.payload
      d == r.decision.payload
  IN  /\ r.voter = a.voter /\ r.voter = d.voter
      /\ r.registration.hash = a.identityProof
      /\ r.assertion.hash = d.assertion
      /\ a.issuer = r.assertion.keyId /\ d.issuer = r.decision.keyId
      /\ d.status = "active" /\ d.sequence = 1 /\ d.previous = Null
      /\ a.binding = expected.binding /\ binding = a.binding
      /\ a.terms = expected.terms

\* Mutant of ActiveAt: the last instant of a record counts as active.
ActiveUntil(r, time) ==
  LET a == r.assertion.payload IN
  /\ a.notBefore <= time /\ r.decision.payload.effectiveAt <= time
  /\ a.expiresAt # NoEnd => time <= a.expiresAt

\* Mutant of ActiveAt: a record becomes active after the instant that it names.
ActiveAfter(r, time) ==
  LET a == r.assertion.payload IN
  /\ a.notBefore < time /\ r.decision.payload.effectiveAt < time
  /\ a.expiresAt # NoEnd => time < a.expiresAt

ActiveAt(r, time) ==
  LET a == r.assertion.payload IN
  /\ a.notBefore <= time /\ r.decision.payload.effectiveAt <= time
  /\ a.expiresAt # NoEnd => time < a.expiresAt

\* Mutant of ReceiptLinked: the credential identifier stands for the key.
CredentialLinked(receipt, a) ==
  /\ Normalized(receipt.email) = Normalized(a.evidence.email)
  /\ Normalized(receipt.name) = Normalized(a.evidence.name)
  /\ receipt.passkey.credential = a.rootKey.credential
  /\ receipt.passkey.origin = a.identityPolicy.origin

\* verifyReceiptAssertionLinks
ReceiptLinked(receipt, a) ==
  /\ Normalized(receipt.email) = Normalized(a.evidence.email)
  /\ Normalized(receipt.name) = Normalized(a.evidence.name)
  /\ receipt.passkey.credential = a.rootKey.credential
  /\ receipt.passkey.key = a.rootKey.key
  /\ receipt.passkey.origin = a.identityPolicy.origin
  /\ receipt.passkey.rp = a.identityPolicy.origin

\* Mutant of PoliciesMatch: any identity policy of that time will do.
AnyPolicyMatches(pinned, signed) == TRUE

\* identityPoliciesMatch
PoliciesMatch(pinned, signed) ==
  /\ pinned.audience = signed.audience
  /\ pinned.image = signed.image
  /\ pinned.account = signed.account
  /\ pinned.environment = signed.environment
  /\ pinned.origin = signed.origin

\* selectExactIdentityPolicy: the candidates at the time that the token claims.
IdentityMatches(p, r) ==
  {i \in IdentityCandidates(p, r.registration.token.issuedAt) :
     PoliciesMatch(p.identityPolicies[i], r.assertion.payload.identityPolicy)}

\* The chain up to the call that verifies the attestation.
ChainHolds(p, expected, binding, time, r) ==
  LET a == r.assertion.payload IN
  /\ ReceiptWellFormed(r.registration.payload)
  /\ RecordLinked(r, expected, binding)
  /\ VotingPolicyAt(p, binding, a.issuedAt) /\ VotingPolicyAt(p, binding, time)
  /\ ActiveAt(r, time)
  /\ AssertionIntact(a)
  /\ SignedInForce(p, r.assertion, a.issuedAt)
  /\ SignedInForce(p, r.decision, r.decision.payload.effectiveAt)
  /\ ReceiptLinked(r.registration.payload, a)
  /\ Sole(IdentityMatches(p, r))

\* verifyConfidentialSpacePkiAttestation, under the selected policy.
RecordAttested(p, r) ==
  LET receipt == r.registration.payload IN
  \A i \in IdentityMatches(p, r) :
    ClaimsVerify(r.registration.token, receipt, receipt.verifiedAt, p.identityPolicies[i])

RecordPasskeyBound(p, r) ==
  \A i \in IdentityMatches(p, r) :
    PasskeyBound(r.registration.payload, p.identityPolicies[i])
=============================================================================
