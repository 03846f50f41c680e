----------------------------- MODULE QuestionLog -----------------------------
(***************************************************************************)
(* One question's append-only vote log, and the replay material that a     *)
(* verifier may be handed with a signed checkpoint of it.                  *)
(*                                                                         *)
(* The service that keeps the log is outside this repository.  Nothing is  *)
(* assumed of its order, so it may append any signed event, acceptance or  *)
(* adjudication at any time: concurrent replacements of one vote, a        *)
(* receipt before its event, an artifact twice, a crash between an event   *)
(* and its acceptance.  A tree head can be signed at every size, and again *)
(* at the same size.                                                       *)
(***************************************************************************)
EXTENDS TallyReplay

CONSTANTS
  Context,    \* the question, ballot and binding being tallied
  LogId,      \* questionVoteLogIdV3 of that question
  MaxLeaves   \* bound on the length of the log

ASSUME LogAssumption == MaxLeaves \in Nat

VARIABLE leaves

Prefix(n) == SubSeq(leaves, 1, n)

HeadAt(n, seal) == TreeHead(LogId, Prefix(n), seal)

LoggedEvents(log) == {e \in Events : \E i \in DOMAIN log : log[i] = EventLeaf(e)}

LoggedReceipts(log) ==
  {r \in Receipts : \E i \in DOMAIN log : log[i] = ReceiptLeaf(r)}

Publish(leaf) ==
  /\ Len(leaves) < MaxLeaves
  /\ leaves' = Append(leaves, leaf)

PublishVoteEvent == \E e \in Events : Publish(EventLeaf(e))

PublishReceipt == \E r \in Receipts : Publish(ReceiptLeaf(r))

-----------------------------------------------------------------------------
(* Replay material for a checkpoint.                                       *)

\* buildTallyInputSetV3 over a choice of artifacts.
InputSet(head, checkpoint, events, receipts, log) ==
  [context        |-> Context,
   logId          |-> LogId,
   authorizations |-> {e.authorization : e \in events},
   events         |-> events,
   receipts       |-> receipts,
   leaves         |-> log,
   checkpoint     |-> checkpoint,
   head           |-> head]

\* A set, the set with one element left out, and the set with one more put in.
Near(S, universe) == {S} \cup {S \ {x} : x \in S} \cup {S \cup {x} : x \in universe}

\* The complete material of the prefix, material with one artifact too few or too many,
\* and material without the last leaf under the new checkpoint or the one before it.
Offers(n, seal) ==
  LET log == Prefix(n)
      E   == LoggedEvents(log)
      R   == LoggedReceipts(log)
      now == HeadAt(n, seal)
  IN  {InputSet(now, now, X, R, log) : X \in Near(E, Events)}
        \cup {InputSet(now, now, E, X, log) : X \in Near(R, Receipts)}
        \cup {InputSet(now, c, E, R, Prefix(n - 1)) : c \in {now, HeadAt(n - 1, seal)}}

-----------------------------------------------------------------------------
(* What a verified tally should be, told by the hash links alone.          *)

Vote == [event : Events, decision : Receipts]

\* An artifact is the tip of its chain when no logged artifact links back to it.
IsTip(x, logged) == \A y \in logged : y.previous # x

\* The votes at the tip of their chain whose decision at the tip of its chain counts.
TipVotes(log) ==
  {v \in [event : LoggedEvents(log), decision : LoggedReceipts(log)] :
     /\ v.decision.event = v.event
     /\ IsTip(v.event, LoggedEvents(log))
     /\ IsTip(v.decision, LoggedReceipts(log))
     /\ v.decision.status = "counted"
     /\ v.event.choice \in CountedChoices}

\* Two logged artifacts of one chain that continue the same artifact: two first
\* casts of a nullifier, two successors of an event, two successors of a receipt,
\* two acceptances of an event.
Forked(log) ==
  \/ \E e, f \in LoggedEvents(log) :
       e # f /\ e.nullifier = f.nullifier /\ e.previous = f.previous
  \/ \E r, s \in LoggedReceipts(log) :
       r # s /\ r.event = s.event /\ r.previous = s.previous

\* An event without a receipt, a receipt without its event, an entry logged twice.
Incomplete(log) ==
  \/ \E e \in LoggedEvents(log) : \A r \in LoggedReceipts(log) : r.event # e
  \/ \E r \in LoggedReceipts(log) : r.event \notin LoggedEvents(log)
  \/ \E i, j \in DOMAIN log : i # j /\ log[i] = log[j]

Superseded(log) == {e \in LoggedEvents(log) : ~ IsTip(e, LoggedEvents(log))}
=============================================================================
