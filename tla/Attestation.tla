----------------------------- MODULE Attestation -----------------------------
(***************************************************************************)
(* Offline verification of a Confidential Space token                      *)
(* (packages/verifier/src/attestation.ts), for the registration receipt of *)
(* a directory record and for a question authorization.                    *)
(*                                                                         *)
(* A token is genuine when it parses, its chain of three certificates ends *)
(* at the pinned root and was valid when it was issued, its signature and  *)
(* its own times hold, and it speaks of a production workload that is not  *)
(* debugged or monitored.  Its nonce is the payload whose hash it carries. *)
(***************************************************************************)
EXTENDS VerificationPolicy

LOCAL INSTANCE TLC

CONSTANTS
  TokenEarly,  \* a token may be issued this much before what it attests
  TokenLate    \* or this much after it

ASSUME AttestationAssumption == TokenEarly \in Nat /\ TokenLate \in Nat

\* The token was issued around the time of its payload.
TokenTimely(token, time) ==
  token.issuedAt >= time - TokenEarly /\ token.issuedAt <= time + TokenLate

\* verifyExpectedEnvironment: what the operator overrides is what the workload sees, and
\* nothing else may be overridden.
EnvironmentOK(token, expected) ==
  LET effective == token.overrides @@ token.environment IN
  /\ \A name \in DOMAIN expected :
       name \in DOMAIN effective /\ effective[name] = expected[name]
  /\ DOMAIN token.overrides \subseteq DOMAIN expected

\* The token is of the workload that the policy p pins.
OfWorkload(token, p) ==
  /\ token.audience = p.audience
  /\ token.image = p.image
  /\ token.account = p.account
  /\ EnvironmentOK(token, p.environment)

\* verifyConfidentialSpacePkiAttestationClaims
ClaimsVerify(token, payload, time, p) ==
  /\ token.genuine
  /\ TokenTimely(token, time)
  /\ token.nonce = payload
  /\ OfWorkload(token, p)
=============================================================================
