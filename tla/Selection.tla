----------------------------- MODULE Selection -----------------------------
(***************************************************************************)
(* The model-selection policy (selection.rs), which is pure: given the     *)
(* catalogue in declaration order, the modalities a request requires, the  *)
(* complexity tier it was given and the estimate of its size, which model  *)
(* gets it.                                                                *)
(*                                                                         *)
(* A model is a record: its complexity tier, its declared context window   *)
(* in tokens, its declared modalities, and `adc`, whether its bearer is a  *)
(* Google token fetched per request.  A selection is a position in the     *)
(* catalogue.                                                              *)
(***************************************************************************)
EXTENDS Integers, Sequences, FiniteSets

Tiers == {"fast", "balanced", "frontier"}

Modalities == {"text", "image-input", "audio-input", "file-input",
               "audio-output", "image-output", "tools"}

Model == [tier : Tiers, window : Nat \ {0}, modalities : SUBSET Modalities, adc : BOOLEAN]

(* What `RouterConfig::validate` lets through: at least one model, each with *)
(* some modality, and one of them for text.                                  *)
Catalogue ==
  {models \in Seq(Model) :
     /\ \A i \in DOMAIN models : models[i].modalities # {}
     /\ \E i \in DOMAIN models : "text" \in models[i].modalities}

None == 0   \* no model: the positions of a catalogue start at 1

----------------------------------------------------------------------------
TierLevel == [t \in Tiers |->
                CASE t = "fast" -> 0 [] t = "balanced" -> 1 [] t = "frontier" -> 2]

EscalationBase == 10
FallbackBase == 100

(* The slip of one distance for both directions. *)
TierRankBySide(tier, want) ==
  LET t == TierLevel[tier]
      w == TierLevel[want]
  IN IF t > w THEN t - w ELSE w - t

(* Lower is better: the wanted tier, then the nearest higher one, then the  *)
(* highest lower one.                                                       *)
TierRank(tier, want) ==
  LET t == TierLevel[tier]
      w == TierLevel[want]
  IN CASE t = w -> 0
       [] t > w -> EscalationBase + (t - w)
       [] t < w -> FallbackBase + (w - t)

Covers(model, required) == required \subseteq model.modalities

Fits(model, estimate) == estimate <= model.window

Covering(models, required) ==
  {i \in DOMAIN models : Covers(models[i], required)}

(* The models that serve the request within their window. *)
Fitting(models, required, estimate) ==
  {i \in Covering(models, required) : Fits(models[i], estimate)}

(* `min_by_key`: of the positions in `among`, the first with the least rank. *)
BestRanked(models, among, want) ==
  CHOOSE i \in among : \A j \in among :
    LET ri == TierRank(models[i].tier, want)
        rj == TierRank(models[j].tier, want)
    IN ri < rj \/ (ri = rj /\ i <= j)

(* The positions in `among` with the largest window. *)
Widest(models, among) ==
  {i \in among : \A j \in among : models[j].window <= models[i].window}

(* Among the models that cover and fit, the best tier; when none fits, the  *)
(* best tier among the largest of those that cover.                         *)
SelectCandidate(models, required, want, estimate) ==
  LET covering == Covering(models, required)
      fitting  == Fitting(models, required, estimate)
  IN IF fitting # {} THEN BestRanked(models, fitting, want)
     ELSE IF covering # {} THEN BestRanked(models, Widest(models, covering), want)
     ELSE None

CountCandidates(models, required, estimate) ==
  Cardinality(Fitting(models, required, estimate))
=============================================================================
