-------------------------- MODULE MCBallotRequests --------------------------
(* A ballot with three choices, of which two share a place, in two languages   *)
(* whose publishers list the choices in different orders, and three revisions: *)
(* the third choice counts, the slugs of the others are exchanged, and another *)
(* binding.                                                                    *)
EXTENDS BallotRequests

CONSTANTS n1, n2, q1, q2, voteLog, none

MCVoters == {n1, n2}
MCIdOrder == <<"no", "unsure", "yes">>

Choice(id, slug, order, isCounted) ==
  [id |-> id, slug |-> slug, order |-> order, isCounted |-> isCounted]

Yes == Choice("yes", "for", 1, TRUE)
No == Choice("no", "against", 1, TRUE)
Unsure == Choice("unsure", "unsure", 2, FALSE)

Draft(binding, locale, choices) ==
  [binding |-> binding, locale |-> locale, choices |-> choices,
   labels |-> [id \in Elements(MCIdOrder) |-> <<locale, id>>]]

English == Draft(q1, "en", <<Yes, No, Unsure>>)
Kurdish == Draft(q1, "ku", <<Unsure, No, Yes>>)
MCDrafts ==
  {English, Kurdish,
   [English EXCEPT !.choices[3].isCounted = TRUE],
   [English EXCEPT !.choices[1].slug = "against", !.choices[2].slug = "for"],
   [English EXCEPT !.binding = q2]}
MCLocales == {"en", "ku"}
=============================================================================
