--------------------- MODULE PublicationHardening_proofs ---------------------
(***************************************************************************)
(* Proofs about PublicationHardening: for every list of settings, every    *)
(* number of people, attempts and faults, only the owner runs the          *)
(* hardening, the credential goes only when everything has converged and   *)
(* nobody else is left, and a reported retirement is final.                *)
(***************************************************************************)
EXTENDS PublicationHardening, SequenceTheorems, TLAPS

Name == Settings \cup Conditions

People == Others \cup {Owner}

Phase == {"preflight", "apply", "audit", "delete", "prove", "disable", "readback"}

Run ==
  [phase : Phase, next : Nat \ {0}, attempt : Nat, blockers : SUBSET Name,
   commit : Nat, by : People]

Dispatch == [commit : Nat, actor : People, attempt : {1, 2}, by : People]

TypeOK ==
  /\ settings \in [Settings -> {"unset", "settling", "set"}]
  /\ credential \in {"present", "late", "absent"}
  /\ workflow \in {"active", "late", "disabled"}
  /\ others \in [Others -> {"none", "invited", "member"}]
  /\ main \in Nat /\ green \subseteq Nat /\ faults \in Nat
  /\ pending = NoDispatch \/ pending \in Dispatch
  /\ run = NoRun \/ run \in Run
  /\ evidence \in BOOLEAN

\* A waiting invocation that will pass for the owner's first attempt is the owner's.
PendingHonest == pending # NoDispatch /\ InvocationOK(pending) => pending.by = Owner

AllSet == \A s \in Settings : settings[s] = "set"
NobodyInvited == \A p \in Others : others[p] # "invited"
Alone == \A p \in Others : others[p] = "none"

Inspecting == In("preflight") \/ In("audit")
Retiring == In("delete") \/ In("prove") \/ In("disable") \/ In("readback")

\* A setting that was read and did not block has converged, and stays so.
SettingsSeen ==
  Inspecting =>
    \A i \in DOMAIN Reads :
      i < run.next /\ Reads[i] \in Settings /\ Reads[i] \notin run.blockers
        => settings[Reads[i]] = "set"

\* Once the preflight has seen no invitation there is none for the rest of the run, since
\* the owner invites only between runs; so whoever the audit does not find among the
\* collaborators is not there and does not come.
InvitationsSeen ==
  /\ In("preflight") /\ run.next > 6 /\ "invitations" \notin run.blockers => NobodyInvited
  /\ In("apply") \/ In("audit") => NobodyInvited

CollaboratorsSeen ==
  In("audit") /\ run.next > 5 /\ "collaborators" \notin run.blockers => Alone

RetiringHardened == Retiring => AllSet /\ Alone

CredentialGone == In("disable") \/ In("readback") => credential = "absent"

\* What is promised of the run under way.
RunPromise ==
  /\ OnlyTheOwnerRuns /\ SettingsSeen /\ InvitationsSeen /\ CollaboratorsSeen
  /\ RetiringHardened /\ CredentialGone

Retired ==
  evidence => run = NoRun /\ credential = "absent" /\ workflow = "disabled" /\ AllSet

IInv == TypeOK /\ PendingHonest /\ RunPromise /\ Retired

-----------------------------------------------------------------------------
(* What a run reads.                                                       *)

LEMMA SevenInSeq ==
  ASSUME NEW S, NEW a \in S, NEW b \in S, NEW c \in S, NEW d \in S, NEW e \in S,
         NEW f \in S, NEW g \in S
  PROVE  <<a, b, c, d, e, f, g>> \in Seq(S)
OBVIOUS

\* An inspection reads every setting, the collaborators and then the invitations.
LEMMA ReadsShape ==
  /\ Reads \in Seq(Name)
  /\ Len(Reads) = Len(Requests) + 6 /\ DOMAIN Reads = 1..Len(Reads)
  /\ Reads[5] = "collaborators" /\ Reads[6] = "invitations"
  /\ \A s \in Settings : \E i \in DOMAIN Reads : Reads[i] = s
<1> DEFINE Fixed == <<Requests[1], "ref", "checks", "secrets", "collaborators",
                      "invitations", "workflow">>
           Rest == Tail(Requests)
<1>0. Settings \subseteq Name  BY DEF Name
<1>1. Requests \in Seq(Name) /\ Requests # << >> /\ Len(Requests) \in Nat \ {0}
  BY <1>0, HardeningAssumption, SeqMonotonic
<1>2. Requests[1] \in Name  BY <1>1, ElementOfSeq
<1>3. Fixed \in Seq(Name) /\ Len(Fixed) = 7
  <2>1. Fixed \in Seq(Name)  BY <1>2, SevenInSeq DEF Name, Conditions
  <2>2. Len(Fixed) = 7  OBVIOUS
  <2> QED BY <2>1, <2>2
<1>4. /\ Rest \in Seq(Name) /\ Len(Rest) = Len(Requests) - 1
      /\ \A i \in 1..Len(Rest) : Rest[i] = Requests[i + 1]
  BY <1>1, HeadTailProperties
<1>5. Fixed[1] = Requests[1] /\ Fixed[5] = "collaborators" /\ Fixed[6] = "invitations"
  OBVIOUS
<1>6. Reads = Fixed \o Rest  BY DEF Reads
<1> HIDE DEF Fixed, Rest
<1>7. /\ Reads \in Seq(Name) /\ Len(Reads) = 7 + Len(Rest)
      /\ \A i \in 1..(7 + Len(Rest)) :
           Reads[i] = IF i <= 7 THEN Fixed[i] ELSE Rest[i - 7]
  <2>1. /\ Fixed \o Rest \in Seq(Name) /\ Len(Fixed \o Rest) = Len(Fixed) + Len(Rest)
        /\ \A i \in 1..(Len(Fixed) + Len(Rest)) :
             (Fixed \o Rest)[i] = IF i <= Len(Fixed) THEN Fixed[i] ELSE Rest[i - Len(Fixed)]
    BY <1>3, <1>4, ConcatProperties
  <2> QED BY <1>3, <1>6, <2>1
<1>8. Len(Reads) = Len(Requests) + 6 /\ DOMAIN Reads = 1..Len(Reads)
  BY <1>1, <1>4, <1>7, LenProperties
<1>9. ASSUME NEW s \in Settings
      PROVE  \E i \in DOMAIN Reads : Reads[i] = s
  <2>1. PICK j \in DOMAIN Requests : s = Requests[j]  BY DEF Settings
  <2>2. j \in 1..Len(Requests)  BY <1>1, <2>1, LenProperties
  <2>3. CASE j = 1
    <3>1. Reads[1] = s  BY <1>1, <1>4, <1>5, <1>7, <2>1, <2>3
    <3> QED BY <1>1, <1>8, <3>1
  <2>4. CASE j # 1
    <3>1. j - 1 \in 1..Len(Rest) /\ j + 6 \in 1..(7 + Len(Rest)) /\ ~ (j + 6 <= 7)
      BY <1>1, <1>4, <2>2, <2>4
    <3>2. Reads[j + 6] = Rest[(j + 6) - 7]  BY <1>7, <3>1
    <3>3. Rest[j - 1] = Requests[(j - 1) + 1]  BY <1>4, <3>1
    <3>4. (j + 6) - 7 = j - 1 /\ (j - 1) + 1 = j  BY <2>2
    <3>5. j + 6 \in DOMAIN Reads  BY <1>4, <1>8, <3>1, <1>1
    <3> QED BY <2>1, <3>2, <3>3, <3>4, <3>5
  <2> QED BY <2>3, <2>4
<1>10. Reads[5] = "collaborators" /\ Reads[6] = "invitations"
  BY <1>1, <1>4, <1>5, <1>7
<1> QED BY <1>7, <1>8, <1>9, <1>10

\* What it means that a reading did not block.
LEMMA NotBlocked ==
  /\ \A s \in Settings : ~ Blocked(s) => settings[s] = "set"
  /\ TypeOK /\ ~ Blocked("invitations") => NobodyInvited
  /\ TypeOK /\ ~ Blocked("collaborators") /\ NobodyInvited => Alone
<1>1. "invitations" \notin Settings /\ "collaborators" \notin Settings
  BY HardeningAssumption DEF Conditions
<1>2. \A s \in Settings :
        s \notin {"ref", "checks", "secrets", "collaborators", "invitations", "workflow"}
  BY HardeningAssumption DEF Conditions
<1>3. \A s \in Settings : ~ Blocked(s) => settings[s] = "set"
  BY <1>2 DEF Blocked
<1>4. Blocked("invitations") = \E p \in Others : others[p] = "invited"
  BY <1>1 DEF Blocked
<1>5. Blocked("collaborators") = \E p \in Others : others[p] = "member"
  BY <1>1 DEF Blocked
<1>6. TypeOK => \A p \in Others : others[p] \in {"none", "invited", "member"}
  BY DEF TypeOK
<1> QED BY <1>3, <1>4, <1>5, <1>6 DEF NobodyInvited, Alone

-----------------------------------------------------------------------------
(* The invariant.                                                          *)

\* What is promised of a run holds when there is none.
LEMMA NoRunNoPromise ==
  /\ run = NoRun => RunPromise
  /\ run' = NoRun => RunPromise'
BY DEF RunPromise, OnlyTheOwnerRuns, SettingsSeen, InvitationsSeen, CollaboratorsSeen,
       RetiringHardened, CredentialGone, Inspecting, Retiring, In

LEMMA InitIInv == Init => IInv
<1> SUFFICES ASSUME Init PROVE IInv
  OBVIOUS
<1>1. TypeOK
  <2>1. pending \in Dispatch  BY DEF Init, Invocation, Dispatch, People
  <2>2. settings \in [Settings -> {"unset", "settling", "set"}]  BY DEF Init
  <2>3. others \in [Others -> {"none", "invited", "member"}]  BY DEF Init
  <2>4. evidence \in BOOLEAN  BY Zenon DEF Init
  <2> QED BY <2>1, <2>2, <2>3, <2>4 DEF Init, TypeOK
<1>2. run = NoRun /\ evidence = FALSE  BY DEF Init
<1>3. PendingHonest  BY DEF Init, PendingHonest, Invocation
<1>4. Retired  BY <1>2 DEF Retired
<1> QED BY <1>1, <1>2, <1>3, <1>4, NoRunNoPromise DEF IInv


\* The changes that a run makes to its own record.
LEMMA RunFields ==
  ASSUME NEW r \in Run
  PROVE  /\ r.next \in Nat \ {0} /\ r.next + 1 \in Nat \ {0}
         /\ r.attempt \in Nat /\ r.attempt + 1 \in Nat /\ r.blockers \in SUBSET Name
BY DEF Run

LEMMA NewPhase ==
  ASSUME NEW r \in Run, NEW p \in Phase, NEW n \in Nat \ {0}, NEW b \in SUBSET Name
  PROVE  [r EXCEPT !.phase = p, !.next = n, !.blockers = b] \in Run
BY DEF Run

LEMMA NewReading ==
  ASSUME NEW r \in Run, NEW n \in Nat \ {0}, NEW b \in SUBSET Name
  PROVE  [r EXCEPT !.next = n, !.blockers = b] \in Run
BY DEF Run

LEMMA NewRequest ==
  ASSUME NEW r \in Run, NEW n \in Nat \ {0}
  PROVE  [r EXCEPT !.next = n] \in Run
BY DEF Run

LEMMA NewAttempt ==
  ASSUME NEW r \in Run, NEW n \in Nat \ {0}, NEW b \in SUBSET Name, NEW a \in Nat
  PROVE  [r EXCEPT !.next = n, !.blockers = b, !.attempt = a] \in Run
BY DEF Run

\* The state stays of its type.
LEMMA TypeStep == TypeOK /\ [Next]_vars => TypeOK'
<1> SUFFICES ASSUME TypeOK, [Next]_vars PROVE TypeOK'
  OBVIOUS
<1> USE DEF TypeOK
<1>1. ASSUME UNCHANGED vars PROVE TypeOK'
  BY <1>1 DEF vars
<1>2. ASSUME Start PROVE TypeOK'
  <2>1. run' = NoRun \/ run' \in Run
    <3>1. CASE run' = NoRun  BY <3>1
    <3>2. CASE run' # NoRun
      <4>1. pending \in Dispatch  BY <1>2 DEF Start
      <4>2. run' = [phase |-> "preflight", next |-> 1, attempt |-> 1, blockers |-> {},
                    commit |-> pending.commit, by |-> pending.by]
        BY <1>2, <3>2 DEF Start, Fail
      <4>3. pending.commit \in Nat /\ pending.by \in People  BY <4>1 DEF Dispatch
      <4> QED BY <4>2, <4>3 DEF Run, Phase
    <3> QED BY <3>1, <3>2
  <2> QED BY <1>2, <2>1 DEF Start, repository
<1>3. ASSUME Read PROVE TypeOK'
  <2>1. run \in Run  BY <1>3 DEF Read, In
  <2>2. Reads[run.next] \in Name
    BY <1>3, ReadsShape, ElementOfSeq DEF Read
  <2>3. run.next + 1 \in Nat \ {0} /\ run.blockers \in SUBSET Name
    BY <2>1, RunFields
  <2> DEFINE b == IF Blocked(Reads[run.next]) THEN run.blockers \cup {Reads[run.next]}
                                               ELSE run.blockers
  <2>5. b \in SUBSET Name  BY <2>2, <2>3
  <2>6. run' = NoRun \/ run' = [run EXCEPT !.next = run.next + 1, !.blockers = b]
    BY <1>3, Zenon DEF Read, Fail
  <2>7. run' = NoRun \/ run' \in Run
    <3> HIDE DEF b
    <3>1. [run EXCEPT !.next = run.next + 1, !.blockers = b] \in Run
      BY <2>1, <2>3, <2>5, NewReading
    <3> QED BY <2>6, <3>1, Zenon
  <2> QED BY <1>3, <2>7 DEF Read, repository
<1>4. ASSUME NEW phase \in Phase, run # NoRun, Enter(phase) PROVE run' \in Run
  <2>1. run \in Run  BY <1>4
  <2>2. 1 \in Nat \ {0} /\ {} \in SUBSET Name  OBVIOUS
  <2>3. run' = [run EXCEPT !.phase = phase, !.next = 1, !.blockers = {}]
    BY <1>4, Zenon DEF Enter
  <2> QED BY <2>1, <2>2, <2>3, NewPhase, Zenon
<1>5. ASSUME EndPreflight PROVE TypeOK'
  <2>1. run' = NoRun \/ run' \in Run
    BY <1>4, <1>5 DEF EndPreflight, In, Fail, Phase
  <2> QED BY <1>5, <2>1 DEF EndPreflight, repository
<1>6. ASSUME Apply PROVE TypeOK'
  <2>1. run' = NoRun \/ run' \in Run
    <3>1. run \in Run  BY <1>6 DEF Apply, In
    <3>2. CASE run' = [run EXCEPT !.next = @ + 1]  BY <3>1, <3>2, RunFields, NewRequest, Zenon
    <3>3. CASE Enter("audit")  BY <1>4, <1>6, <3>3 DEF Apply, In, Phase
    <3> QED BY <1>6, <3>2, <3>3 DEF Apply
  <2>2. settings' \in [Settings -> {"unset", "settling", "set"}]  BY <1>6 DEF Apply
  <2> QED BY <1>6, <2>1, <2>2 DEF Apply
<1>7. ASSUME EndAudit PROVE TypeOK'
  <2>1. run' = NoRun \/ run' \in Run
    <3>1. run \in Run /\ run # NoRun  BY <1>7 DEF EndAudit, In
    <3>2. CASE run' = [run EXCEPT !.next = 1, !.blockers = {},
                                  !.attempt = IF @ < MaxAttempts THEN @ + 1 ELSE @]
      <4> DEFINE a == IF run.attempt < MaxAttempts THEN run.attempt + 1 ELSE run.attempt
      <4>1. a \in Nat  BY <3>1, RunFields
      <4>2. 1 \in Nat \ {0} /\ {} \in SUBSET Name  OBVIOUS
      <4>3. run' = [run EXCEPT !.next = 1, !.blockers = {}, !.attempt = a]
        BY <3>2, Zenon
      <4> HIDE DEF a
      <4> QED BY <3>1, <4>1, <4>2, <4>3, NewAttempt, Zenon
    <3>3. CASE Enter("delete")  BY <1>4, <3>1, <3>3 DEF Phase
    <3> QED BY <1>7, <3>2, <3>3 DEF EndAudit, Fail
  <2> QED BY <1>7, <2>1 DEF EndAudit, repository
<1>8. ASSUME DeleteSecret PROVE TypeOK'
  <2>1. run' = NoRun \/ run' \in Run
    BY <1>4, <1>8 DEF DeleteSecret, In, Fail, Phase
  <2> QED BY <1>8, <2>1 DEF DeleteSecret, Fault
<1>9. ASSUME ProveAbsent PROVE TypeOK'
  <2>1. run' = NoRun \/ run' \in Run
    BY <1>4, <1>9 DEF ProveAbsent, In, Fail, Phase
  <2> QED BY <1>9, <2>1 DEF ProveAbsent, repository
<1>10. ASSUME DisableWorkflow PROVE TypeOK'
  <2>1. run' \in Run  BY <1>4, <1>10 DEF DisableWorkflow, In, Phase
  <2> QED BY <1>10, <2>1 DEF DisableWorkflow, Fault
<1>11. ASSUME ReadBack PROVE TypeOK'
  <2>1. evidence' \in BOOLEAN  BY <1>11 DEF ReadBack
  <2> QED BY <1>11, <2>1 DEF ReadBack, repository
<1>12. ASSUME RunStep PROVE TypeOK'
  BY <1>3, <1>5, <1>6, <1>7, <1>8, <1>9, <1>10, <1>11, <1>12 DEF RunStep
<1>13. ASSUME RunDies PROVE TypeOK'
  BY <1>13 DEF RunDies, Fail, Fault, repository
<1>14. ASSUME NEW s \in Settings, Settle(s) PROVE TypeOK'
  BY <1>14 DEF Settle
<1>15. ASSUME SettleCredential \/ SettleWorkflow PROVE TypeOK'
  BY <1>15 DEF SettleCredential, SettleWorkflow
<1>16. ASSUME ChecksPass \/ ChecksRunAgain \/ MainMoves PROVE TypeOK'
  <2>1. main' \in Nat /\ green' \subseteq Nat /\ faults' \in Nat
    <3>1. CASE ChecksPass  BY <3>1 DEF ChecksPass
    <3>2. CASE ChecksRunAgain  BY <3>2 DEF ChecksRunAgain, Fault
    <3>3. CASE MainMoves  BY <3>3 DEF MainMoves
    <3> QED BY <1>16, <3>1, <3>2, <3>3
  <2> QED BY <1>16, <2>1 DEF ChecksPass, ChecksRunAgain, MainMoves
<1>17. ASSUME NEW p \in Others, AcceptInvitation(p) \/ Invite(p) \/ Remove(p)
       PROVE  TypeOK'
  <2>1. others' \in [Others -> {"none", "invited", "member"}]
    BY <1>17 DEF AcceptInvitation, Invite, Remove
  <2>2. faults' \in Nat  BY <1>17 DEF AcceptInvitation, Invite, Remove, Fault
  <2> QED BY <1>17, <2>1, <2>2 DEF AcceptInvitation, Invite, Remove
<1>18. ASSUME NEW p \in Others, MemberDispatches(p) PROVE TypeOK'
  <2>1. pending' \in Dispatch
    BY <1>18 DEF MemberDispatches, Invocation, Dispatch, People
  <2> QED BY <1>18, <2>1 DEF MemberDispatches, Fault, repository
<1>19. ASSUME NEW p \in Others \cup {Owner}, RunAgain(p) PROVE TypeOK'
  <2>1. pending' \in Dispatch  BY <1>19 DEF RunAgain, Invocation, Dispatch, People
  <2> QED BY <1>19, <2>1 DEF RunAgain, Fault, repository
<1>20. ASSUME RestoreSecret \/ EnableWorkflow PROVE TypeOK'
  BY <1>20 DEF RestoreSecret, EnableWorkflow
<1>21. ASSUME Redispatch \/ DispatchEarly PROVE TypeOK'
  <2>1. pending' \in Dispatch
    BY <1>21 DEF Redispatch, DispatchEarly, Invocation, Dispatch, People
  <2>2. faults' \in Nat  BY <1>21 DEF Redispatch, DispatchEarly, Fault
  <2> QED BY <1>21, <2>1, <2>2 DEF Redispatch, DispatchEarly, repository
<1>22. ASSUME Environment PROVE TypeOK'
  BY <1>13, <1>14, <1>15, <1>16, <1>17, <1>18, <1>19, <1>20, <1>21, <1>22 DEF Environment
<1> QED BY <1>1, <1>2, <1>12, <1>22 DEF Next


\* What the environment may do during a run leaves the promises standing.
LEMMA PromiseKept ==
  ASSUME RunPromise, UNCHANGED run,
         \A s \in Settings : settings[s] = "set" => settings'[s] = "set",
         run # NoRun => /\ NobodyInvited => NobodyInvited'
                        /\ Alone => Alone'
                        /\ credential = "absent" => credential' = "absent"
  PROVE  RunPromise'
<1>1. CASE run = NoRun  BY <1>1, NoRunNoPromise
<1>2. CASE run # NoRun
  <2>1. \A phase \in Phase : In(phase)' <=> In(phase)  BY DEF In
  <2>2. (Inspecting' <=> Inspecting) /\ (Retiring' <=> Retiring)
    BY <2>1 DEF Inspecting, Retiring, Phase
  <2>3. Reads' = Reads  BY DEF Reads
  <2>4. OnlyTheOwnerRuns'  BY DEF RunPromise, OnlyTheOwnerRuns
  <2>5. SettingsSeen'  BY <2>2, <2>3 DEF RunPromise, SettingsSeen
  <2>6. InvitationsSeen'  BY <1>2, <2>1 DEF RunPromise, InvitationsSeen, Phase
  <2>7. CollaboratorsSeen'  BY <1>2, <2>1 DEF RunPromise, CollaboratorsSeen, Phase
  <2>8. RetiringHardened'  BY <1>2, <2>2 DEF RunPromise, RetiringHardened, AllSet
  <2>9. CredentialGone'  BY <1>2, <2>1 DEF RunPromise, CredentialGone, Phase
  <2> QED BY <2>4, <2>5, <2>6, <2>7, <2>8, <2>9 DEF RunPromise
<1> QED BY <1>1, <1>2

\* A run begins with nothing seen, and it is the owner's.
LEMMA StartStep ==
  ASSUME IInv, Start
  PROVE  RunPromise'
<1>1. CASE run' = NoRun  BY <1>1, NoRunNoPromise
<1>2. CASE run' # NoRun
  <2>1. InvocationOK(pending) /\ pending # NoDispatch /\ credential # "absent"
    BY <1>2 DEF Start, Fail
  <2>2. run' = [phase |-> "preflight", next |-> 1, attempt |-> 1, blockers |-> {},
                commit |-> pending.commit, by |-> pending.by]
    BY <1>2 DEF Start, Fail
  <2>3. run'.by = Owner  BY <2>1, <2>2 DEF IInv, PendingHonest
  <2>4. run'.phase = "preflight" /\ run'.next = 1  BY <2>2
  <2>5. OnlyTheOwnerRuns'  BY <2>3 DEF OnlyTheOwnerRuns
  <2>6. SettingsSeen'
    <3>1. \A i \in DOMAIN Reads : ~ (i < 1)  BY ReadsShape
    <3>2. Reads' = Reads  BY DEF Reads
    <3> QED BY <2>4, <3>1, <3>2 DEF SettingsSeen
  <2>7. InvitationsSeen' /\ CollaboratorsSeen' /\ RetiringHardened' /\ CredentialGone'
    BY <2>4 DEF InvitationsSeen, CollaboratorsSeen, RetiringHardened, CredentialGone,
                Retiring, In
  <2> QED BY <2>5, <2>6, <2>7 DEF RunPromise
<1> QED BY <1>1, <1>2

\* A reading is remembered as a blocker, or it found things as they are to be.
LEMMA ReadStep ==
  ASSUME IInv, Read
  PROVE  RunPromise'
<1> DEFINE item == Reads[run.next]
<1>1. CASE run' = NoRun  BY <1>1, NoRunNoPromise
<1>2. CASE run' # NoRun
  <2>1. run \in Run /\ run # NoRun /\ run.next \in DOMAIN Reads
    BY DEF IInv, TypeOK, Read, In
  <2>2. run' = [run EXCEPT !.next = @ + 1,
                           !.blockers = IF Blocked(item) THEN @ \cup {item} ELSE @]
    BY <1>2 DEF Read, Fail
  <2>3. /\ run'.phase = run.phase /\ run'.by = run.by /\ run'.next = run.next + 1
        /\ run'.blockers = IF Blocked(item) THEN run.blockers \cup {item} ELSE run.blockers
    BY <2>1, <2>2 DEF Run
  <2>4. UNCHANGED <<settings, credential, workflow, others>>  BY DEF Read, repository
  <2>5. run.blockers \subseteq run'.blockers /\ (item \notin run'.blockers => ~ Blocked(item))
    BY <2>3
  <2>6. run.next \in Nat  BY <2>1, RunFields
  <2>7. \A phase \in Phase : In(phase)' <=> In(phase)  BY <1>2, <2>1, <2>3 DEF In
  <2>8. OnlyTheOwnerRuns'  BY <2>1, <2>3 DEF IInv, RunPromise, OnlyTheOwnerRuns
  <2>9. SettingsSeen'
    <3>1. Reads' = Reads  BY DEF Reads
    <3>2. Inspecting  BY DEF Read, Inspecting
    <3>3. ASSUME NEW i \in DOMAIN Reads, i < run.next + 1, Reads[i] \in Settings,
                 Reads[i] \notin run'.blockers
          PROVE  settings[Reads[i]] = "set"
      <4>1. i \in Nat  BY ReadsShape
      <4>2. CASE i = run.next  BY <2>5, <3>3, <4>2, NotBlocked
      <4>3. CASE i < run.next
        BY <2>5, <3>2, <3>3, <4>3 DEF IInv, RunPromise, SettingsSeen
      <4> QED BY <2>6, <3>3, <4>1, <4>2, <4>3
    <3> QED BY <2>3, <2>4, <3>1, <3>3 DEF SettingsSeen
  <2>10. InvitationsSeen'
    <3>1. NobodyInvited' <=> NobodyInvited  BY <2>4 DEF NobodyInvited
    <3>2. In("apply") \/ In("audit") => NobodyInvited
      BY DEF IInv, RunPromise, InvitationsSeen
    <3>3. ASSUME In("preflight"), run.next + 1 > 6, "invitations" \notin run'.blockers
          PROVE  NobodyInvited
      <4>1. CASE run.next = 6
        BY <2>5, <3>3, <4>1, ReadsShape, NotBlocked DEF IInv
      <4>2. CASE run.next > 6
        BY <2>5, <3>3, <4>2 DEF IInv, RunPromise, InvitationsSeen
      <4> QED BY <2>6, <3>3, <4>1, <4>2
    <3> QED BY <2>3, <2>7, <3>1, <3>2, <3>3 DEF InvitationsSeen, Phase
  <2>11. CollaboratorsSeen'
    <3>1. Alone' <=> Alone  BY <2>4 DEF Alone
    <3>2. ASSUME In("audit"), run.next + 1 > 5, "collaborators" \notin run'.blockers
          PROVE  Alone
      <4>1. NobodyInvited  BY <3>2 DEF IInv, RunPromise, InvitationsSeen
      <4>2. CASE run.next = 5
        BY <2>5, <3>2, <4>1, <4>2, ReadsShape, NotBlocked DEF IInv
      <4>3. CASE run.next > 5
        BY <2>5, <3>2, <4>3 DEF IInv, RunPromise, CollaboratorsSeen
      <4> QED BY <2>6, <3>2, <4>2, <4>3
    <3> QED BY <2>3, <2>7, <3>1, <3>2 DEF CollaboratorsSeen, Phase
  <2>12. RetiringHardened' /\ CredentialGone'
    BY <2>3 DEF Read, In, RetiringHardened, CredentialGone, Retiring
  <2> QED BY <2>8, <2>9, <2>10, <2>11, <2>12 DEF RunPromise
<1> QED BY <1>1, <1>2


\* A run enters a phase with nothing read in it.
LEMMA Entered ==
  ASSUME IInv, run # NoRun, NEW phase \in Phase, Enter(phase)
  PROVE  /\ run'.phase = phase /\ run'.next = 1 /\ run'.blockers = {}
         /\ OnlyTheOwnerRuns' /\ SettingsSeen'
<1>1. run \in Run  BY DEF IInv, TypeOK
<1>2. run'.phase = phase /\ run'.next = 1 /\ run'.blockers = {} /\ run'.by = run.by
  BY <1>1 DEF Enter, Run
<1>3. OnlyTheOwnerRuns'  BY <1>2 DEF IInv, RunPromise, OnlyTheOwnerRuns
<1>4. SettingsSeen'
  <2>1. Reads' = Reads /\ \A i \in DOMAIN Reads : ~ (i < 1)  BY ReadsShape DEF Reads
  <2> QED BY <1>2, <2>1 DEF SettingsSeen
<1> QED BY <1>2, <1>3, <1>4

\* The preflight and the audit leave off at the end of what there is to read.
LEMMA EndPreflightStep ==
  ASSUME IInv, EndPreflight
  PROVE  RunPromise'
<1>1. CASE run' = NoRun  BY <1>1, NoRunNoPromise
<1>2. CASE run' # NoRun
  <2>1. run # NoRun /\ Enter("apply") /\ PreflightOK(run.blockers)
    BY <1>2 DEF EndPreflight, Fail, In
  <2>2. NobodyInvited
    <3>1. "invitations" \notin run.blockers
      BY <2>1, HardeningAssumption DEF PreflightOK, Conditions
    <3>2. run.next > 6  BY ReadsShape, HardeningAssumption DEF EndPreflight
    <3> QED BY <3>1, <3>2 DEF IInv, RunPromise, InvitationsSeen, EndPreflight
  <2>3. run'.phase = "apply" /\ OnlyTheOwnerRuns' /\ SettingsSeen'
    BY <2>1, Entered DEF Phase
  <2>4. InvitationsSeen'
    BY <2>2, <2>3 DEF EndPreflight, repository, InvitationsSeen, NobodyInvited, In
  <2>5. CollaboratorsSeen' /\ RetiringHardened' /\ CredentialGone'
    BY <2>3 DEF CollaboratorsSeen, RetiringHardened, CredentialGone, Retiring, In
  <2> QED BY <2>3, <2>4, <2>5 DEF RunPromise
<1> QED BY <1>1, <1>2

LEMMA ApplyStep ==
  ASSUME IInv, Apply
  PROVE  RunPromise'
<1>1. run \in Run /\ run # NoRun /\ run.phase = "apply"  BY DEF IInv, TypeOK, Apply, In
<1>2. NobodyInvited'
  BY DEF Apply, IInv, RunPromise, InvitationsSeen, NobodyInvited
<1>3. CASE Enter("audit")
  <2>1. run'.phase = "audit" /\ run'.next = 1 /\ OnlyTheOwnerRuns' /\ SettingsSeen'
    BY <1>1, <1>3, Entered DEF Phase
  <2>2. CollaboratorsSeen'  BY <2>1 DEF CollaboratorsSeen
  <2>3. InvitationsSeen'  BY <1>2, <2>1 DEF InvitationsSeen, In
  <2>4. RetiringHardened' /\ CredentialGone'
    BY <2>1 DEF RetiringHardened, CredentialGone, Retiring, In
  <2> QED BY <2>1, <2>2, <2>3, <2>4 DEF RunPromise
<1>4. CASE run' = [run EXCEPT !.next = @ + 1]
  <2>1. run'.phase = "apply" /\ run'.by = run.by  BY <1>1, <1>4 DEF Run
  <2>2. OnlyTheOwnerRuns'  BY <1>1, <2>1 DEF IInv, RunPromise, OnlyTheOwnerRuns
  <2>3. SettingsSeen' /\ CollaboratorsSeen' /\ RetiringHardened' /\ CredentialGone'
    BY <2>1 DEF SettingsSeen, CollaboratorsSeen, RetiringHardened, CredentialGone,
                Inspecting, Retiring, In
  <2>4. InvitationsSeen'  BY <1>2, <2>1 DEF InvitationsSeen, In
  <2> QED BY <2>2, <2>3, <2>4 DEF RunPromise
<1> QED BY <1>3, <1>4 DEF Apply

\* An audit that leaves nothing has seen every setting and no collaborator.
LEMMA CleanAudit ==
  ASSUME IInv, In("audit"), run.next = Len(Reads) + 1, AuditOK(run.blockers)
  PROVE  AllSet /\ Alone
<1>1. run.blockers = {}  BY DEF AuditOK
<1>2. ASSUME NEW s \in Settings
      PROVE  settings[s] = "set"
  <2>1. PICK i \in DOMAIN Reads : Reads[i] = s  BY ReadsShape
  <2>2. i < run.next  BY <2>1, ReadsShape, HardeningAssumption
  <2> QED BY <1>1, <2>1, <2>2 DEF IInv, RunPromise, SettingsSeen, Inspecting
<1>3. run.next > 5  BY ReadsShape, HardeningAssumption
<1>4. Alone  BY <1>1, <1>3 DEF IInv, RunPromise, CollaboratorsSeen
<1> QED BY <1>2, <1>4 DEF AllSet

LEMMA EndAuditStep ==
  ASSUME IInv, EndAudit
  PROVE  RunPromise'
<1>1. run \in Run /\ run # NoRun /\ run.phase = "audit" /\ In("audit")
  BY DEF IInv, TypeOK, EndAudit, In
<1>2. UNCHANGED <<settings, credential, workflow, others>>  BY DEF EndAudit, repository
<1>3. CASE run' = NoRun  BY <1>3, NoRunNoPromise
<1>4. CASE AuditOK(run.blockers) /\ Enter("delete")
  <2>1. AllSet /\ Alone  BY <1>1, <1>4, CleanAudit DEF EndAudit
  <2>2. AllSet' /\ Alone'  BY <1>2, <2>1 DEF AllSet, Alone
  <2>3. run'.phase = "delete" /\ OnlyTheOwnerRuns' /\ SettingsSeen'
    BY <1>1, <1>4, Entered DEF Phase
  <2>4. InvitationsSeen' /\ CollaboratorsSeen' /\ CredentialGone'
    BY <2>3 DEF InvitationsSeen, CollaboratorsSeen, CredentialGone, In
  <2>5. RetiringHardened'  BY <2>2 DEF RetiringHardened
  <2> QED BY <2>3, <2>4, <2>5 DEF RunPromise
<1>5. CASE run' = [run EXCEPT !.next = 1, !.blockers = {},
                              !.attempt = IF @ < MaxAttempts THEN @ + 1 ELSE @]
  <2>1. run'.phase = "audit" /\ run'.next = 1 /\ run'.by = run.by
    BY <1>1, <1>5 DEF Run
  <2>2. OnlyTheOwnerRuns'  BY <1>1, <2>1 DEF IInv, RunPromise, OnlyTheOwnerRuns
  <2>3. SettingsSeen'
    <3>1. Reads' = Reads /\ \A i \in DOMAIN Reads : ~ (i < 1)  BY ReadsShape DEF Reads
    <3> QED BY <2>1, <3>1 DEF SettingsSeen
  <2>4. NobodyInvited'
    BY <1>1, <1>2 DEF IInv, RunPromise, InvitationsSeen, NobodyInvited
  <2>5. InvitationsSeen' /\ CollaboratorsSeen'
    BY <2>1, <2>4 DEF InvitationsSeen, CollaboratorsSeen, In
  <2>6. RetiringHardened' /\ CredentialGone'
    BY <2>1 DEF RetiringHardened, CredentialGone, Retiring, In
  <2> QED BY <2>2, <2>3, <2>5, <2>6 DEF RunPromise
<1> QED BY <1>3, <1>4, <1>5 DEF EndAudit, Fail

\* The steps of the retirement, in their order.
LEMMA RetiringStep ==
  ASSUME IInv, DeleteSecret \/ ProveAbsent \/ DisableWorkflow \/ ReadBack
  PROVE  RunPromise'
<1>1. CASE run' = NoRun  BY <1>1, NoRunNoPromise
<1>2. CASE run' # NoRun
  <2>1. Retiring /\ run # NoRun
    BY DEF DeleteSecret, ProveAbsent, DisableWorkflow, ReadBack, Retiring, In
  <2>2. UNCHANGED <<settings, others>>
    BY DEF DeleteSecret, ProveAbsent, DisableWorkflow, ReadBack, repository
  <2>3. AllSet' /\ Alone'
    BY <2>1, <2>2 DEF IInv, RunPromise, RetiringHardened, AllSet, Alone
  <2>4. \/ Enter("prove")
        \/ Enter("disable") /\ credential' = "absent"
        \/ Enter("readback") /\ credential' = "absent"
    BY <1>2 DEF DeleteSecret, ProveAbsent, DisableWorkflow, ReadBack, repository, Fail,
                IInv, RunPromise, CredentialGone
  <2>5. PICK phase \in {"prove", "disable", "readback"} :
          Enter(phase) /\ (phase # "prove" => credential' = "absent")
    BY <2>4
  <2>6. run'.phase = phase /\ OnlyTheOwnerRuns' /\ SettingsSeen'
    BY <2>1, <2>5, Entered DEF Phase
  <2>7. InvitationsSeen' /\ CollaboratorsSeen' /\ CredentialGone'
    BY <2>5, <2>6 DEF InvitationsSeen, CollaboratorsSeen, CredentialGone, In
  <2>8. RetiringHardened'  BY <2>3 DEF RetiringHardened
  <2> QED BY <2>6, <2>7, <2>8 DEF RunPromise
<1> QED BY <1>1, <1>2

\* Nothing that happens outside of the run takes back what it relies on.
LEMMA EnvironmentStep ==
  ASSUME IInv, Environment
  PROVE  RunPromise'
<1>1. CASE RunDies  BY <1>1, NoRunNoPromise DEF RunDies, Fail
<1>2. ASSUME UNCHANGED run,
             \A s \in Settings : settings[s] = "set" => settings'[s] = "set",
             run # NoRun => /\ NobodyInvited => NobodyInvited'
                            /\ Alone => Alone'
                            /\ credential = "absent" => credential' = "absent"
      PROVE  RunPromise'
  BY <1>2, PromiseKept DEF IInv
<1>3. ASSUME NEW s \in Settings, Settle(s) PROVE RunPromise'
  <2>1. \A t \in Settings : settings[t] = "set" => settings'[t] = "set"
    BY <1>3 DEF Settle, IInv, TypeOK
  <2> QED BY <1>2, <1>3, <2>1 DEF Settle, NobodyInvited, Alone
<1>4. CASE /\ UNCHANGED <<settings, others, run>>
           /\ credential = "absent" => credential' = "absent"
  BY <1>2, <1>4 DEF NobodyInvited, Alone
<1>5. CASE SettleCredential \/ SettleWorkflow \/ ChecksPass \/ ChecksRunAgain \/ MainMoves
  BY <1>4, <1>5 DEF SettleCredential, SettleWorkflow, ChecksPass, ChecksRunAgain, MainMoves
<1>6. ASSUME NEW p \in Others, AcceptInvitation(p) PROVE RunPromise'
  <2>1. NobodyInvited => FALSE  BY <1>6 DEF AcceptInvitation, NobodyInvited
  <2>2. Alone => FALSE  BY <1>6 DEF AcceptInvitation, Alone
  <2> QED BY <1>2, <1>6, <2>1, <2>2 DEF AcceptInvitation
<1>7. ASSUME NEW p \in Others, Invite(p) \/ Remove(p) PROVE RunPromise'
  BY <1>7, NoRunNoPromise DEF Invite, Remove, OwnerActs
<1>8. CASE RestoreSecret \/ EnableWorkflow
  BY <1>8, NoRunNoPromise DEF RestoreSecret, EnableWorkflow, OwnerActs
<1>9. ASSUME NEW p \in Others, MemberDispatches(p) PROVE RunPromise'
  BY <1>4, <1>9 DEF MemberDispatches, repository
<1>10. ASSUME NEW p \in Others \cup {Owner}, RunAgain(p) PROVE RunPromise'
  BY <1>4, <1>10 DEF RunAgain, repository
<1>11. CASE Redispatch \/ DispatchEarly
  BY <1>4, <1>11 DEF Redispatch, DispatchEarly, repository
<1> QED BY <1>1, <1>3, <1>5, <1>6, <1>7, <1>8, <1>9, <1>10, <1>11 DEF Environment


\* Whoever else brings an invocation about cannot make it look like the owner's first.
LEMMA PendingStep ==
  ASSUME IInv, [Next]_vars
  PROVE  PendingHonest'
<1>1. CASE UNCHANGED pending  BY <1>1 DEF IInv, PendingHonest, InvocationOK
<1>2. CASE pending' = NoDispatch  BY <1>2 DEF PendingHonest
<1>3. CASE \E c \in Nat : pending' = Invocation(c, Owner, 1, Owner)
  BY <1>3 DEF PendingHonest, Invocation
<1>4. ASSUME NEW p \in Others, MemberDispatches(p) PROVE PendingHonest'
  <2>1. pending'.actor # Owner
    BY <1>4, HardeningAssumption DEF MemberDispatches, Invocation
  <2> QED BY <2>1 DEF PendingHonest, InvocationOK
<1>5. ASSUME NEW p \in Others \cup {Owner}, RunAgain(p) PROVE PendingHonest'
  <2>1. pending'.attempt = 2  BY <1>5 DEF RunAgain, Invocation
  <2> QED BY <2>1 DEF PendingHonest, InvocationOK
<1>6. ASSUME Redispatch \/ DispatchEarly PROVE PendingHonest'
  <2>1. main \in Nat  BY DEF IInv, TypeOK
  <2> QED BY <1>3, <1>6, <2>1 DEF Redispatch, DispatchEarly
<1>7. CASE UNCHANGED vars  BY <1>1, <1>7 DEF vars
<1>8. CASE Start  BY <1>2, <1>8 DEF Start
<1>9. CASE RunStep
  BY <1>1, <1>9 DEF RunStep, Read, EndPreflight, Apply, EndAudit, DeleteSecret, ProveAbsent,
                    DisableWorkflow, ReadBack
<1>10. CASE Environment
  <2>1. ASSUME RunDies \/ SettleCredential \/ SettleWorkflow \/ ChecksPass \/ ChecksRunAgain
               \/ MainMoves \/ RestoreSecret \/ EnableWorkflow
        PROVE  UNCHANGED pending
    BY <2>1 DEF RunDies, SettleCredential, SettleWorkflow, ChecksPass, ChecksRunAgain,
                MainMoves, RestoreSecret, EnableWorkflow
  <2>2. ASSUME NEW s \in Settings, Settle(s) PROVE UNCHANGED pending
    BY <2>2 DEF Settle
  <2>3. ASSUME NEW p \in Others, AcceptInvitation(p) \/ Invite(p) \/ Remove(p)
        PROVE  UNCHANGED pending
    BY <2>3 DEF AcceptInvitation, Invite, Remove
  <2> QED BY <1>1, <1>4, <1>5, <1>6, <1>10, <2>1, <2>2, <2>3 DEF Environment
<1> QED BY <1>7, <1>8, <1>9, <1>10 DEF Next

\* The report is made by a run that found everything gone, and nothing brings it back: an
\* owner who has it leaves the repository alone, and a dispatch that waited finds no
\* credential.
LEMMA RetiredStep ==
  ASSUME IInv, [Next]_vars
  PROVE  Retired'
<1>1. CASE evidence
  <2>1. run = NoRun /\ credential = "absent" /\ workflow = "disabled" /\ AllSet
    BY <1>1 DEF IInv, Retired
  <2>2. ASSUME UNCHANGED <<settings, credential, workflow, run>> PROVE Retired'
    BY <2>1, <2>2 DEF Retired, AllSet
  <2>3. CASE UNCHANGED vars  BY <2>2, <2>3 DEF vars
  <2>4. CASE Start  BY <2>1, <2>2, <2>4 DEF Start, Fail, repository
  <2>5. CASE RunStep
    BY <2>1, <2>5 DEF RunStep, Read, EndPreflight, Apply, EndAudit, DeleteSecret, ProveAbsent,
                      DisableWorkflow, ReadBack, In
  <2>6. CASE Environment
    <3>1. ~ OwnerActs  BY <1>1 DEF OwnerActs
    <3>2. ~ RunDies /\ ~ SettleCredential /\ ~ SettleWorkflow
      BY <2>1 DEF RunDies, SettleCredential, SettleWorkflow
    <3>3. \A s \in Settings : ~ Settle(s)  BY <2>1 DEF Settle, AllSet
    <3>4. ~ RestoreSecret /\ ~ EnableWorkflow /\ ~ Redispatch
      BY <3>1 DEF RestoreSecret, EnableWorkflow, Redispatch
    <3>5. ASSUME ChecksPass \/ ChecksRunAgain \/ MainMoves \/ DispatchEarly
          PROVE  UNCHANGED <<settings, credential, workflow, run>>
      BY <3>5 DEF ChecksPass, ChecksRunAgain, MainMoves, DispatchEarly, repository
    <3>6. ASSUME NEW p \in Others,
                 AcceptInvitation(p) \/ Invite(p) \/ Remove(p) \/ MemberDispatches(p)
          PROVE  UNCHANGED <<settings, credential, workflow, run>>
      BY <3>1, <3>6 DEF AcceptInvitation, Invite, Remove, MemberDispatches, repository
    <3>7. ASSUME NEW p \in Others \cup {Owner}, RunAgain(p)
          PROVE  UNCHANGED <<settings, credential, workflow, run>>
      BY <3>7 DEF RunAgain, repository
    <3> QED BY <2>2, <2>6, <3>2, <3>3, <3>4, <3>5, <3>6, <3>7 DEF Environment
  <2> QED BY <2>3, <2>4, <2>5, <2>6 DEF Next
<1>2. CASE ~ evidence /\ ReadBack
  <2>1. credential = "absent" /\ AllSet
    BY <1>2 DEF ReadBack, IInv, RunPromise, CredentialGone, RetiringHardened, Retiring
  <2>2. evidence' => workflow = "disabled"  BY <1>2 DEF ReadBack
  <2> QED BY <1>2, <2>1, <2>2 DEF ReadBack, repository, Retired, AllSet
<1>3. CASE ~ evidence /\ UNCHANGED evidence  BY <1>3 DEF Retired
<1>4. ReadBack \/ UNCHANGED evidence
  <2>1. CASE UNCHANGED vars  BY <2>1 DEF vars
  <2>2. CASE Start  BY <2>2 DEF Start
  <2>3. CASE RunStep
    BY <2>3 DEF RunStep, Read, EndPreflight, Apply, EndAudit, DeleteSecret, ProveAbsent,
                DisableWorkflow
  <2>4. CASE Environment
    BY <2>4 DEF Environment, RunDies, Settle, SettleCredential, SettleWorkflow, ChecksPass,
                ChecksRunAgain, MainMoves, AcceptInvitation, Invite, Remove, MemberDispatches,
                RunAgain, RestoreSecret, EnableWorkflow, Redispatch, DispatchEarly
  <2> QED BY <2>1, <2>2, <2>3, <2>4 DEF Next
<1> QED BY <1>1, <1>2, <1>3, <1>4

LEMMA Invariance == Spec => []IInv
<1>1. IInv /\ [Next]_vars => IInv'
  <2> SUFFICES ASSUME IInv, [Next]_vars PROVE IInv'
    OBVIOUS
  <2>1. TypeOK'  BY TypeStep DEF IInv
  <2>2. PendingHonest' /\ Retired'  BY PendingStep, RetiredStep
  <2>3. RunPromise'
    <3>1. CASE UNCHANGED vars
      BY <3>1, PromiseKept DEF vars, IInv, NobodyInvited, Alone
    <3>2. CASE Start  BY <3>2, StartStep
    <3>3. CASE RunStep
      BY <3>3, ReadStep, EndPreflightStep, ApplyStep, EndAuditStep, RetiringStep DEF RunStep
    <3>4. CASE Environment  BY <3>4, EnvironmentStep
    <3> QED BY <3>1, <3>2, <3>3, <3>4 DEF Next
  <2> QED BY <2>1, <2>2, <2>3 DEF IInv
<1> QED BY <1>1, InitIInv, PTL DEF Spec

-----------------------------------------------------------------------------
(* The theorems.                                                           *)

\* Every value that the hardening and the repository keep is of its type.
THEOREM TypeCorrect == Spec => []TypeOK
BY Invariance, PTL DEF IInv

\* Only a run that the owner asked for gets past the checks of the invocation, whatever
\* the members dispatch and whoever asks for another attempt.
THEOREM OwnerOnly == Spec => []OnlyTheOwnerRuns
BY Invariance, PTL DEF IInv, RunPromise

\* When the credential goes, every setting has converged and nobody else is a member or
\* invited, for every number of settings and people: the readings were made one after the
\* other, but what each of them saw still stands.
THEOREM CredentialOutlivesOnlyHardened == Spec => RetiresHardened
<1> DEFINE Hardened == credential = "present" /\ credential' # "present" =>
                         /\ \A s \in Settings : settings[s] = "set"
                         /\ \A p \in Others : others[p] = "none"
<1>1. ASSUME IInv, [Next]_vars PROVE Hardened
  <2>1. CASE UNCHANGED credential  BY <2>1
  <2>2. CASE DeleteSecret
    BY <1>1, <2>2 DEF DeleteSecret, IInv, RunPromise, RetiringHardened, Retiring, AllSet, Alone
  <2>3. CASE SettleCredential \/ RestoreSecret
    BY <2>3 DEF SettleCredential, RestoreSecret
  <2>4. DeleteSecret \/ SettleCredential \/ RestoreSecret \/ UNCHANGED credential
    <3>1. CASE UNCHANGED vars  BY <3>1 DEF vars
    <3>2. CASE Start  BY <3>2 DEF Start, repository
    <3>3. CASE RunStep
      BY <3>3 DEF RunStep, Read, EndPreflight, Apply, EndAudit, ProveAbsent, DisableWorkflow,
                  ReadBack, repository
    <3>4. CASE Environment
      BY <3>4 DEF Environment, RunDies, Settle, SettleWorkflow, ChecksPass, ChecksRunAgain,
                  MainMoves, AcceptInvitation, Invite, Remove, MemberDispatches, RunAgain,
                  EnableWorkflow, Redispatch, DispatchEarly, repository
    <3> QED BY <1>1, <3>1, <3>2, <3>3, <3>4 DEF Next
  <2> QED BY <2>1, <2>2, <2>3, <2>4
<1>2. IInv /\ [Next]_vars => [Hardened]_vars
  BY <1>1
<1> QED BY <1>2, Invariance, PTL DEF Spec, RetiresHardened

\* A reported retirement is final: the credential is gone, the workflow disabled and every
\* setting made, whatever waits or arrives late.
THEOREM RetirementIsFinal == Spec => []EvidenceMeansRetired
<1>1. IInv => EvidenceMeansRetired
  BY DEF IInv, Retired, EvidenceMeansRetired, AllSet
<1> QED BY <1>1, Invariance, PTL

=============================================================================
