------------------------- MODULE VerificationPolicy -------------------------
(***************************************************************************)
(* The pinned verification policy of packages/verifier/src/policy.ts: what *)
(* parseVerificationPolicy accepts, and how a voting policy, a server key  *)
(* or an identity policy is selected for the time of an artifact.          *)
(*                                                                         *)
(* Times are integers.  The fields of an identity policy that are pinned   *)
(* and only compared (root certificate, project, service account) are      *)
(* folded into its account; its rpId is the host of its origin.            *)
(***************************************************************************)
EXTENDS Integers, Sequences, FiniteSets

CONSTANT NoEnd   \* validUntil of a window that is still open

\* containsTime
ContainsTime(window, time) ==
  /\ window.from <= time
  /\ window.until # NoEnd => time < window.until

\* parseWindow
WindowOK(window) == window.until # NoEnd => window.from < window.until

-----------------------------------------------------------------------------
(* validatePolicySemantics                                                 *)

StartsBefore(v, w) == v.from < w.from

\* Mutant of EndsBeforeNext: a window may reach one unit into the next.
EndsAroundNext(v, w) == v.until # NoEnd /\ v.until <= w.from + 1

\* Mutant of EndsBeforeNext: a window may not start at the instant another ends.
EndsWithGap(v, w) == v.until # NoEnd /\ v.until < w.from

EndsBeforeNext(v, w) == v.until # NoEnd /\ v.until <= w.from

Elements(s) == {s[i] : i \in DOMAIN s}

Lists == {"votingPolicies", "serverKeys", "identityPolicies"}

\* The lists of a document that parses, their entries with the times of a window.
Readable(p) ==
  \A list \in Lists :
    /\ p[list] \in Seq(Elements(p[list]))
    /\ \A w \in Elements(p[list]) : w.from \in Int /\ w.until \in Int \cup {NoEnd}

\* The places of a group of windows in an order in which a sort by start may leave them.
InOrder(windows, group) ==
  CHOOSE order \in [1..Cardinality(group) -> group] :
    \A i, j \in DOMAIN order :
      /\ order[i] = order[j] => i = j
      /\ StartsBefore(windows[order[i]], windows[order[j]]) => i < j

\* ensureNoOverlappingWindows compares neighbours in the order of their start.
NoOverlappingWindows(windows, group) ==
  LET order == InOrder(windows, group)
  IN  \A i \in 1..Cardinality(group) - 1 :
        EndsBeforeNext(windows[order[i]], windows[order[i + 1]])

VotingGroup(p, binding) ==
  {i \in DOMAIN p.votingPolicies : p.votingPolicies[i].binding = binding}

KeyGroup(p, purpose, keyId) ==
  {i \in DOMAIN p.serverKeys :
     p.serverKeys[i].purpose = purpose /\ p.serverKeys[i].keyId = keyId}

ImageGroup(p, image) ==
  {i \in DOMAIN p.identityPolicies : p.identityPolicies[i].image = image}

PolicyAccepted(p) ==
  /\ \A w \in Elements(p.votingPolicies) \cup Elements(p.serverKeys)
              \cup Elements(p.identityPolicies) : WindowOK(w)
  /\ Len(p.identityPolicies) >= 1 /\ Len(p.serverKeys) >= 2 /\ Len(p.votingPolicies) >= 1
  /\ \A w \in Elements(p.identityPolicies) :
       NoOverlappingWindows(p.identityPolicies, ImageGroup(p, w.image))
  /\ \A w \in Elements(p.votingPolicies) :
       NoOverlappingWindows(p.votingPolicies, VotingGroup(p, w.binding))
  /\ \A k \in Elements(p.serverKeys) :
       LET group == KeyGroup(p, k.purpose, k.keyId) IN
       /\ NoOverlappingWindows(p.serverKeys, group)
       /\ \A i \in group : p.serverKeys[i].spki = k.spki
  /\ \A purpose \in {"eligibility", "receipt"} :
       \E k \in Elements(p.serverKeys) : k.purpose = purpose

-----------------------------------------------------------------------------
(* Selection.  The code throws unless exactly one entry matches.           *)

Sole(S) == Cardinality(S) = 1

\* selectVotingPolicyForBinding: the matching places in the list.
VotingMatches(p, binding, time) ==
  {i \in DOMAIN p.votingPolicies :
     /\ p.votingPolicies[i].binding = binding
     /\ ContainsTime(p.votingPolicies[i], time)}

\* selectServerKey
KeyMatches(p, keyId, purpose, time) ==
  {i \in DOMAIN p.serverKeys :
     /\ p.serverKeys[i].keyId = keyId
     /\ p.serverKeys[i].purpose = purpose
     /\ ContainsTime(p.serverKeys[i], time)}

\* selectIdentityPolicyCandidates
IdentityCandidates(p, time) ==
  {i \in DOMAIN p.identityPolicies : ContainsTime(p.identityPolicies[i], time)}
=============================================================================
