------------------------------ MODULE MCRecords ------------------------------
(* Sound directory records of two people, made while the issuer's key and the         *)
(* workload's image are rotated: the assertion is signed with the old key, the        *)
(* decision with the new one, and a token is of the old image or of the new one.      *)
EXTENDS EligibilityRecord, TLC

CONSTANTS app, site, old, new, account, tag, ann, bob, k0, k1, rules, terms, keyA, keyB

MCBinding == [instance |-> app, eligibilityPolicy |-> rules]
MCExpected == [binding |-> MCBinding, terms |-> terms]

Identity(image, from, until) ==
  [image |-> image, account |-> account, environment |-> tag :> image,
   audience |-> app, origin |-> site, witnessMaxAge |-> 1, from |-> from, until |-> until]
IssuerKey(id, purpose, from, until) ==
  [keyId |-> id, purpose |-> purpose, spki |-> id, from |-> from, until |-> until]

Text(who, spelling) == [normal |-> who, spelling |-> spelling]
Evidence(who) ==
  [email |-> Text(who, "registry"), name |-> Text(who, "registry"), subject |-> who]

\* A ceremony with the key at the origin; seen is what the authenticator reports.
Passkey(credential, key, origin, seen) ==
  [credential |-> credential, key |-> key, origin |-> site, rp |-> site, user |-> key,
   count |-> 1,
   registration |->
     [challenge |-> 1, format |-> "none",
      client |-> [type |-> "create", challenge |-> 1, origin |-> origin, frame |-> "top"],
      authenticator |-> [rp |-> origin, flags |-> {"present", "verified"},
                         credential |-> credential, key |-> key]],
   proof |->
     [challenge |-> 2, user |-> Null, signedBy |-> key,
      client |-> [type |-> "get", challenge |-> 2, origin |-> origin, frame |-> "top"],
      authenticator |-> [rp |-> origin, flags |-> seen, count |-> 1]]]

Both == {"present", "verified"}
Registered(who, passkey) == Receipt(Text(who, "typed"), Text(who, "typed"), passkey, 1)
KeyOf(who) == IF who = ann THEN keyA ELSE keyB
Sound(who) == Registered(who, Passkey(KeyOf(who), KeyOf(who), site, Both))

Token(image, receipt) ==
  [genuine |-> TRUE, audience |-> app, image |-> image, account |-> account,
   environment |-> tag :> old, overrides |-> tag :> image,
   nonce |-> receipt, issuedAt |-> IF image = old THEN 1 ELSE 2]

Window(expiresAt) == [issuedAt |-> 1, notBefore |-> Null, expiresAt |-> expiresAt]
Asserted(voter, receipt, image, who, expiresAt) ==
  EligibilityAssertion(voter, MCBinding, receipt, Identity(image, 0, NoEnd),
                       Evidence(who), terms, Window(expiresAt), k0)
Decided(voter, a) ==
  [voter |-> voter, assertion |-> a, status |-> "active", sequence |-> 1,
   previous |-> Null, effectiveAt |-> 1, issuer |-> k1]
Record(voter, receipt, token, a, decision) ==
  DirectoryRecord(voter, receipt, token, Envelope(a, k0, k0), Envelope(decision, k1, k1))
Genuine(voter, who, expiresAt) ==
  LET a == Asserted(voter, Sound(who), old, who, expiresAt)
  IN  Record(voter, Sound(who), Token(old, Sound(who)), a, Decided(voter, a))
=============================================================================
