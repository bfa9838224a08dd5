----------------------------- MODULE MCRequest -----------------------------
(* Instances of Request for TLC: the routing catalogues of MCRouter, and    *)
(* two models that differ in what else they take.                           *)
EXTENDS MCRouter, Request

Absent    == [is |-> "absent", value |-> 0]
Null      == [is |-> "other", value |-> 0]
Number(v) == [is |-> "number", value |-> v]

Turn(role, chars, gist) ==
  [role |-> role, content |-> "string", parts |-> {}, chars |-> chars, gist |-> gist,
   image |-> 0, tool_calls |-> "absent", function_call |-> FALSE]

System    == Turn("system", 3, "substantive")
Assistant == Turn("assistant", 3, "substantive")
Greeting  == Turn("user", 3, "filler")
Question  == Turn("user", 3, "substantive")
Drawing   == [Question EXCEPT !.image = 2]

Attachment(types, chars, gist) ==
  [Turn("user", chars, gist) EXCEPT !.content = "parts", !.parts = types]

Ask(messages) ==
  [object |-> TRUE, n |-> Absent, stream |-> FALSE, messages |-> messages,
   tools |-> "absent", functions |-> "absent", modalities |-> {},
   max_completion_tokens |-> Absent, max_tokens |-> Absent]

(* A prompt of one token, and completions that make one to three of it.     *)
Sized(b) ==
  {b, [b EXCEPT !.max_tokens = Number(1)],
      [b EXCEPT !.max_completion_tokens = Number(2), !.max_tokens = Number(1)]}

(* What the client says, with and without an image wanted back.             *)
TextBodies ==
  UNION {Sized([Ask(<<m>>) EXCEPT !.modalities = out]) :
           m \in {System, Greeting, Question, Drawing}, out \in {{}, {"image"}}}

(* Tools, offered under either name or only traced in the transcript.       *)
ToolBodies ==
  UNION {Sized(b) :
           b \in {[Ask(<<System>>) EXCEPT !.tools = "list"],
                  [Ask(<<System>>) EXCEPT !.functions = "list", !.tools = "empty"]}}
  \cup {Ask(<<Greeting, [Assistant EXCEPT !.tool_calls = "list", !.chars = 0, !.gist = "blank"],
              Turn("tool", 1, "substantive"), Question>>),
        Ask(<<Turn("tool", 3, "substantive")>>),
        Ask(<<Greeting, [Assistant EXCEPT !.function_call = TRUE, !.chars = 1]>>),
        Ask(<<[Assistant EXCEPT !.tool_calls = "empty"]>>)}

(* Attachments of the current turn and of one long ago, and long talks.     *)
TalkBodies ==
  {Ask(<<Attachment({"image_url", "text"}, 3, "filler"), Question>>),
   Ask(<<Attachment({"input_image"}, 0, "blank")>>),
   Ask(<<Attachment({"other", "text"}, 3, "substantive")>>),
   Ask(<<Question, Attachment({"input_audio"}, 0, "blank")>>),
   Ask(<<Question, Attachment({"file"}, 0, "blank")>>),
   [Ask(<<Question>>) EXCEPT !.modalities = {"text", "audio"}],
   Ask(<<Question, Assistant, Greeting>>),
   Ask(<<Drawing, Assistant, Question>>),
   Ask(<<System, Turn("user", 2, "filler")>>),
   Ask(<<>>)}

(* What is refused, and the completions RoomForAll is not stated for.       *)
EdgeBodies ==
  {[Ask(<<Question>>) EXCEPT !.object = FALSE],
   [Ask(<<Question>>) EXCEPT !.n = Number(2)],
   [Ask(<<Question>>) EXCEPT !.n = Number(1)],
   [Ask(<<Question>>) EXCEPT !.max_completion_tokens = Null, !.max_tokens = Number(2)],
   [Ask(<<Question>>) EXCEPT !.max_completion_tokens = Number(7)]}

MCBodies == TextBodies \cup ToolBodies \cup TalkBodies \cup EdgeBodies

(* Every content RInit can make of these bodies, and more. *)
MCInputs ==
  {x \in [valid : BOOLEAN, needs : {Needs(b) : b \in MCBodies}, estimate : 0..U64 - 1,
          text : Texts, lexical : BOOLEAN, stream : {FALSE}] :
     x.lexical => x.text = "substantive"}

Abilities == {Text, TextTools, {"text", "image-input", "file-input"},
              {"text", "audio-input", "audio-output", "tools"}}

MCCatalogues ==
  RoutingCatalogues \cup
  [1..2 -> {MCModel("fast", 1, m) : m \in Abilities} \cup
           {MCModel("frontier", 2, m) : m \in Abilities}]
=============================================================================
