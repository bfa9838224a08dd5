------------------------------ MODULE Classify ------------------------------
(***************************************************************************)
(* What a classification says (proxy.rs, the scoring of the NLI engine and *)
(* of the embedding engines): the selected engine of Ladder reads the      *)
(* window and the current turn, its scores are folded into a tier and an   *)
(* image flag, and what cannot be classified gets a default.               *)
(*                                                                         *)
(* Scores are numbers that are only compared: the probability of each      *)
(* hypothesis (`softmax2`), or the cosine with each prototype.  NaN is what*)
(* arithmetic may yield of logits or vectors that are not finite.          *)
(***************************************************************************)
EXTENDS Ladder, Integers

CONSTANTS
  NaN,      \* not a number
  Answers,  \* what the models may find
  Floors    \* thresholds: the engine's own (-1 if it has none), and the global one

Tiers  == {"fast", "balanced", "frontier"}
Scores == Int \cup {NaN}

(* What each row of the NLI batch speaks for; the last is image generation. *)
Hypotheses ==
  <<"fast", "fast", "fast", "balanced", "frontier", "frontier", "frontier", "image">>

(* Of an embedding, its similarities to the prototypes; a zero vector, or   *)
(* one of another length, is no more similar to one than to another.        *)
Similarities == [Tiers \cup {"image"} -> Scores]
Alike == [p \in Tiers \cup {"image"} |-> 0]

Answer ==
  [kind : {"nli"}, rows : [DOMAIN Hypotheses -> Scores]] \cup
  [kind : {"embedding"}, window : Similarities, turn : Similarities]

ASSUME ClassifyAssumption ==
  /\ NaN \notin Int
  /\ Answers \subseteq Answer
  /\ Floors \subseteq [own : Nat \cup {-1}, global : Nat]

VARIABLE verdict  \* the classification, the scores of its tier, and how much text was sent for it

vars2 == <<vars, verdict>>

Pending ==
  [by |-> "pending", tier |-> "balanced", image |-> FALSE, scores |-> <<>>, sent |-> <<>>]

(* The default: of no user text, or of an engine that failed. *)
BalancedDefault(by) == [Pending EXCEPT !.by = by]

CInit == Init /\ verdict = Pending

----------------------------------------------------------------------------
(* Scoring. *)

(* The slip of a tie that the higher tier wins. *)
BeatsOrTies(p, q) == p # NaN /\ q # NaN /\ p >= q

Beats(p, q)   == p # NaN /\ q # NaN /\ p > q
Reaches(p, q) == p # NaN /\ p >= q

(* An engine's own threshold stands instead of the global one. *)
Threshold(floor) == IF floor.own = -1 THEN floor.global ELSE floor.own

(* `combine`: row after row, whether it takes the lead (0: no row leads     *)
(* yet), which one that is not a number never does ...                      *)
Leader(rows, n, lead) ==
  IF /\ Hypotheses[n] # "image" /\ rows[n] # NaN
     /\ lead # 0 => Beats(rows[n], rows[lead])
  THEN n ELSE lead

(* ... and the tier of the row that leads in the end; balanced if none does.*)
NliTier(rows) ==
  LET leading[n \in 0..Len(Hypotheses)] ==
        IF n = 0 THEN 0 ELSE Leader(rows, n, leading[n - 1])
      best == leading[Len(Hypotheses)]
  IN IF best = 0 THEN "balanced" ELSE Hypotheses[best]

NliImage(rows, floor) == Reaches(rows[Len(Hypotheses)], Threshold(floor))

(* `combine_similarities`: a higher tier has to beat a lower one.           *)
NearestTier(sim) ==
  LET lower == IF Beats(sim["balanced"], sim["fast"]) THEN "balanced" ELSE "fast"
  IN IF Beats(sim["frontier"], sim[lower]) THEN "frontier" ELSE lower

(* The image prototype is nearer than every tier's, and near enough.        *)
NearestImage(sim, floor) ==
  /\ Reaches(sim["image"], Threshold(floor))
  /\ \A t \in Tiers : sim[t] # NaN => Beats(sim["image"], sim[t])

----------------------------------------------------------------------------
(* The characters of the current turn that a remote engine sends: the turn  *)
(* is cut with the whitespace that leads it, and then trimmed.  (A cut that *)
(* ends in whitespace sends fewer, but not none.)                           *)
TurnChars ==
  IF CurrentTurn = 0 THEN 0
  ELSE LET turn == talk[CurrentTurn]
           left == rungs[engine].turn - turn.lead
       IN IF left <= 0 THEN 0 ELSE IF turn.chars <= left THEN turn.chars ELSE left

Judging == phase = "done" /\ verdict.by = "pending"

(* The slip of a current turn that decides whether there is a window. *)
FillerIsFast ==
  /\ Judging /\ (CurrentTurn # 0 => ~Substantive(talk[CurrentTurn]))
  /\ verdict' = [BalancedDefault("nobody") EXCEPT !.tier =
       IF \E i \in DOMAIN talk : talk[i].user /\ talk[i].chars > 0 THEN "fast" ELSE "balanced"]
  /\ UNCHANGED vars

(* `classify_without_model`: no window. *)
WithoutModel ==
  /\ Judging /\ taken = <<>>
  /\ verdict' = [BalancedDefault("nobody") EXCEPT !.tier =
       IF \E i \in DOMAIN talk : talk[i].user /\ talk[i].chars > 0 THEN "fast" ELSE "balanced"]
  /\ UNCHANGED vars

(* The scores a tier is chosen by, each with the tier it speaks for. *)
NliScores(rows) ==
  [i \in 1..(Len(Hypotheses) - 1) |-> [tier |-> Hypotheses[i], score |-> rows[i]]]
EmbeddingScores(sim) ==
  <<[tier |-> "fast", score |-> sim["fast"]], [tier |-> "balanced", score |-> sim["balanced"]],
    [tier |-> "frontier", score |-> sim["frontier"]]>>

(* The embedded engine: one batch over both premises; the image row reads   *)
(* the current turn, even an empty one.  Nothing is sent.                   *)
ByNli ==
  /\ Judging /\ taken # <<>>
  /\ \E answer \in Answers, floor \in Floors :
       /\ answer.kind = "nli"
       /\ verdict' = [by |-> "nli", tier |-> NliTier(answer.rows),
                      image |-> LexicalImage \/ NliImage(answer.rows, floor),
                      scores |-> NliScores(answer.rows), sent |-> <<>>]
  /\ UNCHANGED vars

(* The slip of asking whether the turn has text before it is cut. *)
ByEmbeddingOfAnyText ==
  /\ Judging /\ taken # <<>>
  /\ \E answer \in Answers, floor \in Floors :
       LET said == CurrentTurn # 0 /\ talk[CurrentTurn].chars > 0
       IN /\ answer.kind = "embedding"
          /\ verdict' = [by |-> "embedding", tier |-> NearestTier(answer.window),
                         image |-> LexicalImage \/ (said /\ NearestImage(answer.turn, floor)),
                         scores |-> EmbeddingScores(answer.window),
                         sent |-> IF said THEN <<WindowChars, TurnChars>> ELSE <<WindowChars>>]
  /\ UNCHANGED vars

(* A remote engine: the window is sent, and the current turn if it has text *)
(* left once it is cut and trimmed.                                         *)
ByEmbedding ==
  /\ Judging /\ taken # <<>>
  /\ \E answer \in Answers, floor \in Floors :
       /\ answer.kind = "embedding"
       /\ verdict' = [by |-> "embedding", tier |-> NearestTier(answer.window),
                      image |-> LexicalImage \/ (TurnChars > 0 /\ NearestImage(answer.turn, floor)),
                      scores |-> EmbeddingScores(answer.window),
                      sent |-> IF TurnChars > 0 THEN <<WindowChars, TurnChars>> ELSE <<WindowChars>>]
  /\ UNCHANGED vars

(* An error of the tokenizer, the runtime, the shape of the logits or the   *)
(* transport. *)
Fails ==
  /\ Judging /\ taken # <<>>
  /\ verdict' = BalancedDefault("error")
  /\ UNCHANGED vars

CNext ==
  \/ Next /\ UNCHANGED verdict
  \/ WithoutModel \/ ByNli \/ ByEmbedding \/ Fails

CSpec == CInit /\ [][CNext]_vars2

----------------------------------------------------------------------------
(* "Some models reject empty content": whatever is sent to a remote model  *)
(* has text, though the window is trimmed before it is cut and the current  *)
(* turn after; the turn's text is within the budget of the engine that was  *)
(* selected, and the window's exceeds its by fewer newlines than pieces.    *)
TextsFitEngine ==
  verdict.by = "embedding" =>
    /\ \A i \in DOMAIN verdict.sent : verdict.sent[i] > 0
    /\ verdict.sent[1] <= rungs[engine].context + (Len(taken) - 1)
    /\ Len(verdict.sent) = 2 => verdict.sent[2] <= rungs[engine].turn

(* A tier is earned: it has a score that no other tier's exceeds, and that  *)
(* is more than any of a lower tier, so a tie is resolved downwards; the    *)
(* scores that are not numbers decide nothing, unless they are all that the *)
(* chosen tier has, and then it is the engine's default.                    *)
Height == [fast |-> 1, balanced |-> 2, frontier |-> 3]

TierIsEarned ==
  verdict.by \in {"nli", "embedding"} =>
    LET numbers == {verdict.scores[i] : i \in {j \in DOMAIN verdict.scores : verdict.scores[j].score # NaN}}
        mine    == {s \in numbers : s.tier = verdict.tier}
    IN IF mine = {} THEN verdict.tier = IF verdict.by = "nli" THEN "balanced" ELSE "fast"
       ELSE \A s \in numbers : \E m \in mine :
              /\ m.score >= s.score
              /\ Height[s.tier] < Height[verdict.tier] => m.score > s.score

(* "A terse follow-up inherits the difficulty of its recent context": a     *)
(* conversation in which the user has asked for anything of substance is    *)
(* judged by an engine, however trivial its last turn, and only one that is *)
(* nothing but chit-chat is called fast without one.                        *)
FollowUpInheritsContext ==
  verdict.by = "nobody" =>
    /\ \A i \in DOMAIN talk : ~Substantive(talk[i])
    /\ verdict.tier = "fast" <=> \E i \in DOMAIN talk : talk[i].user /\ talk[i].chars > 0
=============================================================================
