------------------------------ MODULE Request ------------------------------
(***************************************************************************)
(* What the router reads of a request's JSON (modality.rs, prompt.rs): the *)
(* `input` of Router is what these helpers make of a body, which is        *)
(* forwarded whole.                                                        *)
(*                                                                         *)
(* Of a body the model keeps the fields the router looks at.  A numeric    *)
(* field is absent, a number, or anything else (null, say); an array field *)
(* is absent (or no array), empty or not.  A message keeps the shape of    *)
(* its content, the number of its characters, what its text says (nothing  *)
(* but blanks, trivial filler, something substantive), the position where  *)
(* an image-generation phrase in it ends (0: there is none), the types of  *)
(* its parts, and the traces of tool calls.                                *)
(***************************************************************************)
EXTENDS Router, Sizes, SequencesExt

CONSTANTS
  Bodies,     \* the request bodies to consider
  TurnBudgets,\* how much of the current turn an engine sees, in characters
  U64         \* the number of values of a u64

Field == [is : {"absent", "number", "other"}, value : Nat]
Array == {"absent", "empty", "list"}

PartTypes == {"text", "image_url", "input_image", "input_audio", "file", "other"}

(* The text of a content is a string, or that of its parts; anything else   *)
(* has none.                                                                *)
Message ==
  {m \in [role : {"user", "assistant", "system", "tool"},
          content : {"string", "parts", "other"}, parts : SUBSET PartTypes,
          chars : Nat, gist : {"blank", "filler", "substantive"}, image : Nat,
          tool_calls : Array, function_call : BOOLEAN] :
     /\ m.content # "parts" => m.parts = {}
     /\ m.content = "other" \/ m.chars = 0 => m.gist = "blank"
     /\ m.image <= m.chars
     /\ m.image > 0 => m.gist = "substantive"}

Body ==
  [object : BOOLEAN, n : Field, stream : BOOLEAN, messages : Seq(Message),
   tools : Array, functions : Array, modalities : SUBSET {"text", "audio", "image"},
   max_completion_tokens : Field, max_tokens : Field]

ASSUME RequestAssumption ==
  /\ Bodies \subseteq Body
  /\ TurnBudgets \subseteq Nat
  /\ U64 \in Nat \ {0}

VARIABLE body  \* the JSON of each request

CharsPerToken == 4

----------------------------------------------------------------------------
(* `detect_required_modalities`. *)

(* The slip of looking for tools only in what the request offers. *)
NoToolTrace(m) == FALSE

(* "A transcript carrying tool artifacts also requires a tool-capable       *)
(* backend even when the follow-up request omits the `tools` field".        *)
ToolTrace(m) ==
  m.role = "tool" \/ m.tool_calls = "list" \/ m.function_call

Takes ==
  [image_url |-> "image-input", input_image |-> "image-input",
   input_audio |-> "audio-input", file |-> "file-input"]

Needs(b) ==
  LET inputs == {Takes[t] : t \in (UNION {m.parts : m \in ToSet(b.messages)}) \cap DOMAIN Takes}
      tools  == \/ \E m \in ToSet(b.messages) : ToolTrace(m)
                \/ "list" \in {b.tools, b.functions}
  IN {"text"} \cup inputs
     \cup (IF "audio" \in b.modalities THEN {"audio-output"} ELSE {})
     \cup (IF "image" \in b.modalities THEN {"image-output"} ELSE {})
     \cup (IF tools THEN {"tools"} ELSE {})

----------------------------------------------------------------------------
(* `estimate_request_tokens`. *)

HasText(m) == m.content # "other"

TextSizes(b) ==
  [i \in DOMAIN b.messages |-> IF HasText(b.messages[i]) THEN b.messages[i].chars ELSE 0]

Chars(b) == Total(TextSizes(b))

(* The slip of a budget read under its present name only. *)
CompletionUnderOneName(b) ==
  IF b.max_completion_tokens.is = "number" THEN b.max_completion_tokens.value ELSE 0

(* The field that is present decides; a null hides the older name. *)
Completion(b) ==
  LET field == IF b.max_completion_tokens.is # "absent"
               THEN b.max_completion_tokens ELSE b.max_tokens
  IN IF field.is = "number" THEN field.value ELSE 0

(* A token takes four characters; the addition wraps. *)
Estimate(b) ==
  ((Chars(b) + CharsPerToken - 1) \div CharsPerToken + Completion(b)) % U64

----------------------------------------------------------------------------
(* What classification reads: the texts of the user's turns, and the        *)
(* beginning of the last one, as much of it as the engine sees.             *)
Turns(b) == SelectSeq(b.messages, LAMBDA m : m.role = "user")

Gist(b) ==
  LET gists == {m.gist : m \in ToSet(Turns(b))}
  IN CASE "substantive" \in gists -> "substantive"
       [] "filler" \in gists /\ "substantive" \notin gists -> "filler"
       [] OTHER -> "none"

LooksLikeImage(b, budget) ==
  Turns(b) # <<>> /\ Last(Turns(b)).image \in 1..budget

(* `requests_multiple_choices`, after the parse: both are refused alike. *)
Accepted(b) == b.object /\ ~(b.n.is = "number" /\ b.n.value > 1)

Analyse(b, budget) ==
  [valid |-> Accepted(b), needs |-> Needs(b), estimate |-> Estimate(b),
   text |-> Gist(b), lexical |-> LooksLikeImage(b, budget), stream |-> b.stream]

(* The engine, and so its budget, is whichever the window's length selects. *)
RInit ==
  /\ body \in [Requests -> Bodies]
  /\ input \in [Requests -> Inputs]
  /\ \A r \in Requests : input[r] \in {Analyse(body[r], budget) : budget \in TurnBudgets}
  /\ Init

RNext == Next /\ UNCHANGED body

RSpec == RInit /\ [][RNext]_<<vars, body>>

----------------------------------------------------------------------------
(* Whatever the body carries, the backend takes it: every part of every     *)
(* turn, however old, what the client wants back, and a transcript with     *)
(* tool calls in it, whether or not the request still offers tools; and an  *)
(* attachment the router knows no modality for is no ground for a refusal.  *)
BodyServed ==
  \A r \in Requests :
    LET Carries(types) == \E i \in DOMAIN body[r].messages :
                            body[r].messages[i].parts \cap types # {}
        Calls == \E i \in DOMAIN body[r].messages :
                   LET m == body[r].messages[i]
                   IN m.role = "tool" \/ m.tool_calls = "list" \/ m.function_call
        Served(i) ==
          /\ Carries({"image_url", "input_image"}) => "image-input" \in models[i].modalities
          /\ Carries({"input_audio"}) => "audio-input" \in models[i].modalities
          /\ Carries({"file"}) => "file-input" \in models[i].modalities
          /\ "audio" \in body[r].modalities => "audio-output" \in models[i].modalities
          /\ "image" \in body[r].modalities => "image-output" \in models[i].modalities
          /\ Calls \/ "list" \in {body[r].tools, body[r].functions}
             => "tools" \in models[i].modalities
          /\ "text" \in models[i].modalities
    IN /\ backend[r] # None => Served(backend[r])
       /\ answer[r] = "422" => \A i \in DOMAIN models : ~Served(i)

(* The completion the request asks for, whatever the name it is given, as   *)
(* far as the router honours it; and the sizes a u64 holds.                 *)
Plain(b) ==
  /\ b.max_completion_tokens.is = "other" => b.max_tokens.is # "number"
  /\ Chars(b) + CharsPerToken * (b.max_completion_tokens.value + b.max_tokens.value)
     < CharsPerToken * (U64 - 1)

(* "A context window must hold prompt AND completion": if some model that   *)
(* takes what the body carries has room for the text of all its messages    *)
(* and for the completion, the backend has.  (Stated for the exact size.    *)
(* It does not hold of a null `max_completion_tokens` beside `max_tokens`,  *)
(* nor of a completion near 2^64, which the addition wraps.)                *)
RoomForAll ==
  \A r \in Requests : (backend[r] # None /\ Plain(body[r])) =>
    LET completion == IF body[r].max_completion_tokens.is = "number"
                      THEN body[r].max_completion_tokens.value
                      ELSE IF body[r].max_tokens.is = "number"
                           THEN body[r].max_tokens.value ELSE 0
        Holds(i) == Chars(body[r]) + CharsPerToken * completion
                      <= CharsPerToken * models[i].window
    IN (\E i \in Covering(models, input[r].needs) : Holds(i)) => Holds(backend[r])
=============================================================================
