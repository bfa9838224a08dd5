------------------------------ MODULE MCLadder ------------------------------
(* Instances of Ladder for TLC. *)
EXTENDS Ladder

MCRung(c, t) == [context |-> c, turn |-> t]

(* Up to three rungs in any order, good and bad ladders among them. *)
SmallRungs == {MCRung(c, t) : c \in {2, 3, 5}, t \in {1, 2, 3}}

MCConfigurations == UNION {[1..n -> SmallRungs] : n \in 0..2} \cup
  [1..3 -> {MCRung(2, 1), MCRung(3, 1), MCRung(3, 2), MCRung(5, 2), MCRung(5, 1)}]

(* Up to three messages: substantive ones of several lengths, with and      *)
(* without an image pattern, after whitespace, or made by a cut, filler,    *)
(* attachments, and other roles.                                            *)
Said(u, l, c, t, i, n) ==
  [user |-> u, lead |-> l, chars |-> c, trivial |-> t, image |-> i, cuts |-> n]
User(c, i) == Said(TRUE, 0, c, FALSE, i, {})

Turns ==
  {User(1, 0), User(1, 1), User(2, 0), User(3, 2), User(6, 3),
   Said(TRUE, 2, 2, FALSE, 3, {}), Said(TRUE, 0, 2, FALSE, 0, {1}),
   Said(TRUE, 0, 1, TRUE, 0, {}), Said(TRUE, 0, 0, FALSE, 0, {}), Said(FALSE, 0, 2, FALSE, 0, {})}

MCConversations == UNION {[1..n -> Turns] : n \in 0..3}
=============================================================================
