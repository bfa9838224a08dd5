----------------------------- MODULE MCClassify -----------------------------
(* Instances of Classify for TLC, over those of Ladder. *)
EXTENDS MCLadder, Classify

(* Findings that lead to each tier, with ties, with an image at, above and  *)
(* below a threshold and a tier, and with NaN in every place it decides.    *)
Rows(f, b, r, i) == [kind |-> "nli", rows |-> <<0, f, 0, b, 0, r, 0, i>>]
Sim(f, b, r, i) ==
  [p \in Tiers \cup {"image"} |->
     CASE p = "fast" -> f [] p = "balanced" -> b [] p = "frontier" -> r [] p = "image" -> i]
Vectors(w, t) == [kind |-> "embedding", window |-> w, turn |-> t]

MCAnswers ==
  {Rows(1, 2, 1, 1), Rows(2, 2, 2, 2), Rows(1, 2, 3, 3), Rows(NaN, NaN, 1, NaN),
   [kind |-> "nli", rows |-> [i \in DOMAIN Hypotheses |-> NaN]]} \cup
  {Vectors(w, t) : w \in {Sim(1, 2, 1, 3), Sim(2, 2, 3, 0), Alike, Sim(NaN, 1, 2, NaN)},
                   t \in {Sim(1, 1, 1, 2), Sim(2, 1, 1, 2), Sim(0, 1, 0, NaN)}}

MCFloors == {[own |-> -1, global |-> 2], [own |-> 3, global |-> 1]}
=============================================================================
