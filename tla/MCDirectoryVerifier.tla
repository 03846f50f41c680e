------------------------ MODULE MCDirectoryVerifier -------------------------
(* Four records drawn together: two sound ones, one that expires at the second        *)
(* checkpoint and one whose attestation token is not genuine.  And every mixture, one *)
(* at a time, of six receipts, two tokens, eight assertions and three decisions.  The *)
(* issuer's key and the workload's image are rotated while the records are made.      *)
EXTENDS DirectoryVerifier, MCRecords

CONSTANTS other, v1, v2, v3, k2

PinnedPolicy ==
  [votingPolicies   |->
     <<[binding |-> MCBinding, audience |-> app, from |-> 0, until |-> NoEnd]>>,
   serverKeys       |->
     <<IssuerKey(k0, "eligibility", 0, 2), IssuerKey(k1, "eligibility", 1, 3),
       IssuerKey(k2, "receipt", 0, NoEnd)>>,
   identityPolicies |-> <<Identity(old, 0, 2), Identity(new, 1, NoEnd)>>]

MCPolicy == PinnedPolicy

-----------------------------------------------------------------------------
\* The six receipts: two sound ones, one for a key other than the one registered, one from
\* another origin, one used by another key and one without user verification.
MixedReceipts ==
  LET passkey == Passkey(keyA, keyA, site, Both) IN
  <<Sound(ann), Sound(bob), Registered(ann, [passkey EXCEPT !.key = keyB]),
    Registered(ann, Passkey(keyA, keyA, other, Both)),
    Registered(ann, [passkey EXCEPT !.proof.signedBy = keyB]),
    Registered(ann, Passkey(keyA, keyA, site, {"present"}))>>

\* The eight assertions about a receipt: for the old image or the new one, with evidence of
\* ann or of bob, with another root key, signed over another policy, or about ann's receipt.
MixedAssertions(receipt) ==
  LET a == Asserted(v1, receipt, old, ann, NoEnd) IN
  <<a, Asserted(v1, receipt, new, ann, NoEnd), Asserted(v1, receipt, old, bob, NoEnd),
    [a EXCEPT !.rootKey.key = keyB], [a EXCEPT !.rootKey.credential = keyB],
    [a EXCEPT !.policyHash = Identity(new, 0, NoEnd)],
    Asserted(v2, receipt, old, ann, NoEnd), Asserted(v1, Sound(ann), old, ann, NoEnd)>>

Mixtures == {"mix"} \X (1..6) \X {old, new} \X (1..8) \X (1..3)

Mixture(m) ==
  LET receipt   == MixedReceipts[m[2]]
      a         == MixedAssertions(receipt)[m[4]]
      decisions == <<Decided(v1, a), Decided(v2, a),
                     Decided(v1, Asserted(v1, Sound(bob), old, bob, NoEnd))>>
  IN  Record(v1, receipt, Token(m[3], receipt), a, decisions[m[5]])

MCTogether == {<<"together", i>> : i \in 1..4}
Bodies ==
  [h \in Mixtures |-> Mixture(h)]
  @@ <<"together", 1>> :> Genuine(v1, ann, NoEnd)
  @@ <<"together", 2>> :> Genuine(v2, bob, 2)
  @@ <<"together", 3>> :>
       [Genuine(v3, ann, NoEnd) EXCEPT !.registration.token.genuine = FALSE]
  @@ <<"together", 4>> :>
       [Genuine(v3, bob, NoEnd) EXCEPT
          !.registration.payload.passkey.proof.signedBy = keyA,
          !.registration.hash.passkey.proof.signedBy = keyA]
MCBody == Bodies
MCSoundRecords ==
  {<<"together", 1>>, <<"together", 2>>, <<"mix", 1, old, 1, 1>>, <<"mix", 1, new, 2, 1>>}
MCPools == {MCTogether} \cup {{h} : h \in Mixtures}
=============================================================================
