------------------------ MODULE PublicationHardening ------------------------
(***************************************************************************)
(* The hardening of the repository after it was made public                *)
(* (scripts/publication-hardening.ts): a run inspects the repository,      *)
(* writes its settings once, audits until they have converged, deletes the *)
(* one-time credential and disables its own workflow.                      *)
(*                                                                         *)
(* Every request to GitHub is a step.  Between two of them settings        *)
(* converge, checks are run again, the default branch moves, an invitation *)
(* is accepted, and the run may die: a request failed with or without      *)
(* effect, or the job timed out.  The owner, following                     *)
(* docs/publication-hardening.md, corrects what is wrong between runs and  *)
(* dispatches a fresh one; one dispatch at most waits for the run before.  *)
(* People who became members may dispatch runs and run old ones again, in  *)
(* which case the invocation names the actor of the first attempt, as      *)
(* GITHUB_ACTOR does, and not the person who asked for another one.        *)
(*                                                                         *)
(* A value that GitHub was told to change reads as the old one until it    *)
(* has settled.  Pagination and the validation of the source tree before   *)
(* the run are left out; deploy keys, rulesets and foreign secrets are     *)
(* read like collaborators and are not modelled apart.  Runs of another    *)
(* branch or repository are left out, since those run other code.          *)
(***************************************************************************)
EXTENDS Integers, Sequences, FiniteSets

CONSTANTS
  Requests,     \* the settings, in the order in which they are written
  Owner,        \* the owner that the manifest names
  Others,       \* people other than the owner
  MaxAttempts,  \* auditAttempts
  MaxMoves,     \* bound on the moves of the default branch
  MaxFaults,    \* bound on deaths, early dispatches, invitations, reruns, late effects
  NoRun, NoDispatch

Settings == {Requests[i] : i \in DOMAIN Requests}

\* What a run reads besides the settings.
Conditions == {"ref", "checks", "secrets", "collaborators", "invitations", "workflow"}

ASSUME HardeningAssumption ==
  /\ Requests \in Seq(Settings) /\ Len(Requests) >= 1
  /\ Settings \cap Conditions = {}
  /\ Owner \notin Others
  /\ MaxAttempts \in Nat \ {0}
  /\ MaxMoves \in Nat /\ MaxFaults \in Nat

VARIABLES
  settings,    \* "unset", "settling" or "set"
  credential,  \* the repository secret: "present", "late" (deleted, still seen), "absent"
  workflow,    \* "active", "late" (disabled, still seen as active), "disabled"
  others,      \* "none", "invited" or "member"
  main,        \* the commit of the default branch
  green,       \* the commits whose required checks have succeeded
  pending,     \* the invocation that waits
  run,         \* the run under way
  evidence,    \* a run has reported the retirement
  faults

repository == <<settings, credential, workflow, others, main, green>>
vars == <<settings, credential, workflow, others, main, green, pending, run, evidence, faults>>

\* An invocation as the run will see it, and by, the person who asked for it, which the
\* run cannot see.
Invocation(commit, actor, attempt, by) ==
  [commit |-> commit, actor |-> actor, attempt |-> attempt, by |-> by]

Init ==
  /\ settings \in [Settings -> {"unset", "set"}]
  /\ credential = "present" /\ workflow = "active"
  /\ others \in [Others -> {"none", "invited"}]
  /\ main = 0 /\ green \in SUBSET {0}
  /\ pending = Invocation(0, Owner, 1, Owner)   \* the public event
  /\ run = NoRun /\ evidence = FALSE /\ faults = 0

Fault == faults < MaxFaults /\ faults' = faults + 1

-----------------------------------------------------------------------------
(* A run.                                                                  *)

\* What inspect reads, in its order.  The settings of the repository itself come with
\* the first response; deploy keys and rulesets are read around the invitations.
Reads ==
  <<Requests[1], "ref", "checks", "secrets", "collaborators", "invitations", "workflow">>
    \o Tail(Requests)

Blocked(item) ==
  CASE item \in Settings -> settings[item] # "set"
    [] item = "ref" -> FALSE
    [] item = "checks" -> run.commit \notin green
    [] item = "secrets" -> credential = "absent"
    [] item = "collaborators" -> \E p \in Others : others[p] = "member"
    [] item = "invitations" -> \E p \in Others : others[p] = "invited"
    [] item = "workflow" -> workflow = "disabled"

\* A run leaves its phase for another.
Enter(phase) == run' = [run EXCEPT !.phase = phase, !.next = 1, !.blockers = {}]

\* An exception ends the run.
Fail == run' = NoRun

In(phase) == run # NoRun /\ run.phase = phase

\* Mutant of InvocationOK: any attempt of a run of the owner will do.
OfOwner(invocation) == invocation.actor = Owner

InvocationOK(invocation) == invocation.actor = Owner /\ invocation.attempt = 1

\* A dispatch becomes a run; outside of what was reviewed, or without the credential in
\* its environment, it ends at once.
Start ==
  /\ run = NoRun /\ pending # NoDispatch
  /\ pending' = NoDispatch
  /\ IF credential = "absent" \/ ~ InvocationOK(pending)
     THEN Fail
     ELSE run' = [phase |-> "preflight", next |-> 1, attempt |-> 1, blockers |-> {},
                  commit |-> pending.commit, by |-> pending.by]
  /\ UNCHANGED <<repository, evidence, faults>>

\* One request of inspect.  A moved branch is an exception, the rest are blockers.
Read ==
  /\ In("preflight") \/ In("audit")
  /\ run.next \in DOMAIN Reads
  /\ LET item == Reads[run.next] IN
     IF item = "ref" /\ main # run.commit
     THEN Fail
     ELSE run' = [run EXCEPT !.next = @ + 1,
                             !.blockers = IF Blocked(item) THEN @ \cup {item} ELSE @]
  /\ UNCHANGED <<repository, pending, evidence, faults>>

\* Mutant of PreflightOK: what is yet to be written blocks.
NothingToDo(blockers) == blockers = {}

\* Only what the run is going to write may still differ.
PreflightOK(blockers) == blockers \subseteq Settings

EndPreflight ==
  /\ In("preflight") /\ run.next = Len(Reads) + 1
  /\ IF PreflightOK(run.blockers) THEN Enter("apply") ELSE Fail
  /\ UNCHANGED <<repository, pending, evidence, faults>>

Apply ==
  /\ In("apply")
  /\ settings' = [settings EXCEPT ![Requests[run.next]] = IF @ = "set" THEN @ ELSE "settling"]
  /\ IF run.next = Len(Requests) THEN Enter("audit")
                                 ELSE run' = [run EXCEPT !.next = @ + 1]
  /\ UNCHANGED <<credential, workflow, others, main, green, pending, evidence, faults>>

\* Mutant of LastAttempt: only the deadline ends the audits.
NoLastAttempt(attempt) == FALSE

LastAttempt(attempt) == attempt = MaxAttempts

\* Mutant of AuditOK: the audit forgives what the preflight forgives.
AuditAsPreflight(blockers) == blockers \subseteq Settings

AuditOK(blockers) == blockers = {}

\* The end of an attempt: on to the retirement, another attempt, or the last attempt or
\* the deadline was reached.
EndAudit ==
  /\ In("audit") /\ run.next = Len(Reads) + 1
  /\ IF AuditOK(run.blockers) THEN Enter("delete")
     ELSE \/ Fail
          \/ /\ ~ LastAttempt(run.attempt)
             /\ run' = [run EXCEPT !.next = 1, !.blockers = {},
                                   !.attempt = IF @ < MaxAttempts THEN @ + 1 ELSE @]
  /\ UNCHANGED <<repository, pending, evidence, faults>>

\* Deleting a secret that is gone is an exception.  The effect may be seen late.
DeleteSecret ==
  /\ In("delete")
  /\ IF credential = "absent" THEN Fail /\ UNCHANGED <<credential, faults>>
     ELSE /\ Enter("prove")
          /\ \/ credential' = "absent" /\ UNCHANGED faults
             \/ credential' = "late" /\ Fault
  /\ UNCHANGED <<settings, workflow, others, main, green, pending, evidence>>

ProveAbsent ==
  /\ In("prove")
  /\ IF credential = "absent" THEN Enter("disable") ELSE Fail
  /\ UNCHANGED <<repository, pending, evidence, faults>>

DisableWorkflow ==
  /\ In("disable")
  /\ Enter("readback")
  /\ \/ workflow' = "disabled" /\ UNCHANGED faults
     \/ workflow' = "late" /\ Fault
  /\ UNCHANGED <<settings, credential, others, main, green, pending, evidence>>

\* Mutant of ReadBack: the disabled state is taken for granted.
ReportAtOnce ==
  /\ In("readback")
  /\ run' = NoRun
  /\ evidence' = TRUE
  /\ UNCHANGED <<repository, pending, faults>>

ReadBack ==
  /\ In("readback")
  /\ run' = NoRun
  /\ evidence' = (evidence \/ workflow = "disabled")
  /\ UNCHANGED <<repository, pending, faults>>

RunStep ==
  \/ Read \/ EndPreflight \/ Apply \/ EndAudit
  \/ DeleteSecret \/ ProveAbsent \/ DisableWorkflow \/ ReadBack

-----------------------------------------------------------------------------
(* GitHub, the invited and the owner.                                      *)

RunDies ==
  /\ run # NoRun /\ Fault
  /\ Fail
  /\ UNCHANGED <<repository, pending, evidence>>

Settle(s) ==
  /\ settings[s] = "settling"
  /\ settings' = [settings EXCEPT ![s] = "set"]
  /\ UNCHANGED <<credential, workflow, others, main, green, pending, run, evidence, faults>>

SettleCredential ==
  /\ credential = "late" /\ credential' = "absent"
  /\ UNCHANGED <<settings, workflow, others, main, green, pending, run, evidence, faults>>

SettleWorkflow ==
  /\ workflow = "late" /\ workflow' = "disabled"
  /\ UNCHANGED <<settings, credential, others, main, green, pending, run, evidence, faults>>

ChecksPass ==
  /\ main \notin green /\ green' = green \cup {main}
  /\ UNCHANGED <<settings, credential, workflow, others, main, pending, run, evidence, faults>>

ChecksRunAgain ==
  /\ main \in green /\ green' = green \ {main} /\ Fault
  /\ UNCHANGED <<settings, credential, workflow, others, main, pending, run, evidence>>

MainMoves ==
  /\ main < MaxMoves /\ main' = main + 1
  /\ UNCHANGED <<settings, credential, workflow, others, green, pending, run, evidence, faults>>

AcceptInvitation(p) ==
  /\ others[p] = "invited" /\ others' = [others EXCEPT ![p] = "member"]
  /\ UNCHANGED <<settings, credential, workflow, main, green, pending, run, evidence, faults>>

\* The owner changes the repository only between runs, and not once it is retired.
OwnerActs == run = NoRun /\ ~ evidence

Invite(p) ==
  /\ OwnerActs /\ Fault
  /\ others[p] = "none" /\ others' = [others EXCEPT ![p] = "invited"]
  /\ UNCHANGED <<settings, credential, workflow, main, green, pending, run, evidence>>

Remove(p) ==
  /\ OwnerActs
  /\ others[p] # "none" /\ others' = [others EXCEPT ![p] = "none"]
  /\ UNCHANGED <<settings, credential, workflow, main, green, pending, run, evidence, faults>>

RestoreSecret ==
  /\ OwnerActs
  /\ credential = "absent" /\ credential' = "present"
  /\ UNCHANGED <<settings, workflow, others, main, green, pending, run, evidence, faults>>

EnableWorkflow ==
  /\ OwnerActs
  /\ workflow = "disabled" /\ workflow' = "active"
  /\ UNCHANGED <<settings, credential, others, main, green, pending, run, evidence, faults>>

\* "use a fresh dispatch after correcting the reported state"
Redispatch ==
  /\ OwnerActs /\ pending = NoDispatch
  /\ credential # "absent" /\ workflow # "disabled" /\ \A p \in Others : others[p] = "none"
  /\ pending' = Invocation(main, Owner, 1, Owner)
  /\ UNCHANGED <<repository, run, evidence, faults>>

\* A dispatch while a run is under way waits for it.
DispatchEarly ==
  /\ run # NoRun /\ pending = NoDispatch /\ workflow # "disabled" /\ Fault
  /\ pending' = Invocation(main, Owner, 1, Owner)
  /\ UNCHANGED <<repository, run, evidence>>

\* A member dispatches a run.
MemberDispatches(p) ==
  /\ others[p] = "member" /\ pending = NoDispatch /\ workflow # "disabled" /\ Fault
  /\ pending' = Invocation(main, p, 1, p)
  /\ UNCHANGED <<repository, run, evidence>>

\* Somebody asks for another attempt of the run that the public event started.
RunAgain(p) ==
  /\ p \in Others => others[p] = "member"
  /\ run = NoRun /\ pending = NoDispatch /\ workflow # "disabled" /\ Fault
  /\ pending' = Invocation(0, Owner, 2, p)
  /\ UNCHANGED <<repository, run, evidence>>

Environment ==
  \/ RunDies
  \/ \E s \in Settings : Settle(s)
  \/ SettleCredential \/ SettleWorkflow
  \/ ChecksPass \/ ChecksRunAgain \/ MainMoves
  \/ \E p \in Others : AcceptInvitation(p) \/ Invite(p) \/ Remove(p) \/ MemberDispatches(p)
  \/ \E p \in Others \cup {Owner} : RunAgain(p)
  \/ RestoreSecret \/ EnableWorkflow \/ Redispatch \/ DispatchEarly

Next == Start \/ RunStep \/ Environment

\* A run that was dispatched goes on, GitHub converges, and the owner recovers from what
\* went wrong as the documentation says.  Nothing else has to happen.
Fairness ==
  /\ WF_vars(Start) /\ WF_vars(RunStep)
  /\ \A s \in Settings : WF_vars(Settle(s))
  /\ WF_vars(SettleCredential) /\ WF_vars(SettleWorkflow) /\ WF_vars(ChecksPass)
  /\ \A p \in Others : WF_vars(Remove(p))
  /\ WF_vars(RestoreSecret) /\ WF_vars(EnableWorkflow) /\ WF_vars(Redispatch)

Spec == Init /\ [][Next]_vars /\ Fairness

-----------------------------------------------------------------------------
(* Properties.                                                             *)

\* "Only an exact successful audit allows the hardener to delete" the credential
\* (docs/publication-hardening.md): when it does, every setting has converged and nobody
\* else is in the repository or invited, although the reads were made one after the other
\* while invitations were accepted and settings converged.
RetiresHardened ==
  [][credential = "present" /\ credential' # "present" =>
       /\ \A s \in Settings : settings[s] = "set"
       /\ \A p \in Others : others[p] = "none"]_vars

\* "Retirement is reported only after both proofs succeed": after the report the
\* credential is gone and the workflow disabled for good, whatever queued dispatches and
\* late effects of earlier runs arrive afterwards.
EvidenceMeansRetired ==
  evidence => /\ credential = "absent" /\ workflow = "disabled"
              /\ \A s \in Settings : settings[s] = "set"

\* "The hardener refuses to mutate the repository unless" the invocation is "the first
\* attempt" of a run of the owner: nobody else brings a run to its requests, neither by a
\* dispatch that outlives a membership nor by another attempt of a run that the owner
\* started.
OnlyTheOwnerRuns == run # NoRun => run.by = Owner

\* Every run ends, though its audits may never succeed.
EveryRunEnds == run # NoRun ~> run = NoRun

\* The recovery that the documentation describes works from wherever a run stopped:
\* the repository is retired in the end, when the faults cease.
EventuallyRetired == <>[]evidence

\* "The hardener refuses to mutate the repository unless it proves" that there are no
\* other collaborators and no pending invitations: while it writes there are none.
MutatesAlone == In("apply") => \A p \in Others : others[p] = "none"
=============================================================================
