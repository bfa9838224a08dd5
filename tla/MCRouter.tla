------------------------------ MODULE MCRouter ------------------------------
(* Instances of Router for TLC. *)
EXTENDS Router

Text      == {"text"}
TextImage == {"text", "image-output"}
TextTools == {"text", "tools"}

MCModel(t, w, m) == [tier |-> t, window |-> w, modalities |-> m, adc |-> t = "frontier"]

(***************************************************************************)
(* Routing: every catalogue of up to two models over three tiers, two      *)
(* windows and three modality sets, every catalogue of three models that   *)
(* differ in tier and window, and every size of request: one that fits     *)
(* all windows, one that fits the larger, and one that fits none.          *)
(***************************************************************************)
Windows == {1, 2}

Pool(ts, sets) == {MCModel(t, w, m) : t \in ts, w \in Windows, m \in sets}

SmallCatalogues ==
  {c \in UNION {[1..n -> Pool(Tiers, {Text, TextImage, {"image-output"}})] : n \in 1..2} :
     \E i \in DOMAIN c : "text" \in c[i].modalities}

TripleCatalogues ==
  [1..3 -> Pool(Tiers, {Text})] \cup [1..3 -> Pool({"fast", "frontier"}, {Text, TextImage})]

RoutingCatalogues == SmallCatalogues \cup TripleCatalogues

RoutingInputs ==
  {x \in [valid : {TRUE}, needs : {Text, TextImage, TextTools}, estimate : 1..3,
          text : Texts, lexical : BOOLEAN, stream : {FALSE}] :
     /\ x.lexical => x.text = "substantive"
     /\ x.needs = TextTools => x.text = "none"}

(* The routing runs stop where the route is decided; the idle guard does    *)
(* not matter there.                                                        *)
UpToRoute ==
  /\ server = "serving" /\ idleGuard
  /\ \A r \in Requests : pc[r] \in {"idle", "receive", "resolve", "classify", "select", "auth", "ended"}

(***************************************************************************)
(* Lifecycle: two models, one of them with a fetched token, and requests   *)
(* that are refused, forwarded or streamed.                                *)
(***************************************************************************)
PairCatalogue == {<<MCModel("fast", 1, Text), MCModel("frontier", 2, Text)>>}

LifecycleInput(v, n, t, s) ==
  [valid |-> v, needs |-> n, estimate |-> 1, text |-> t, lexical |-> FALSE, stream |-> s]

LifecycleInputs ==
  {LifecycleInput(TRUE, Text, "substantive", TRUE),
   LifecycleInput(TRUE, Text, "filler", FALSE),
   LifecycleInput(TRUE, TextTools, "none", FALSE),
   LifecycleInput(FALSE, Text, "none", FALSE)}
=============================================================================
