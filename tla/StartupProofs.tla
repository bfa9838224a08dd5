--------------------------- MODULE StartupProofs ---------------------------
(***************************************************************************)
(* Proofs about Startup, for any document, world and host.                 *)
(***************************************************************************)
EXTENDS Startup, DataLemmas, FiniteSetTheorems

(***************************************************************************)
(* The checks that `validate` and `serve` share, in their order.           *)
(***************************************************************************)
Decoded1  == Decode(doc, world.env)
Resolved1 == ResolveSecrets(doc, Decoded1, world.keyring)
LookUps   == Slots(doc, Decoded1)

Holds(p) ==
  \/ p = "path" /\ (world.explicit # {} \/ Present # {})
  \/ p = "format" /\ FormatOf(ConfigPath.ext) \in Formats
  \/ p = "read" /\ ConfigPath \in world.files
  \/ p = "syntax" /\ FormatOf(ConfigPath.ext) \in doc.syntax
  \/ p = "environment" /\ Expandable(doc, world.env)
  \/ p = "schema" /\ Decodable(doc, world.env)
  \/ p = "validate" /\ Valid(doc)
  \/ p = "keyring" /\ Unreadable(LookUps, world.keyring) = {}
  \/ p = "engines" /\ EnginesValid(doc, Resolved1)

(* While the scenario is the same, so is the path it resolves to.           *)
LEMMA PathSame ==
  ASSUME UNCHANGED scenario
  PROVE  ConfigPath' = ConfigPath /\ Present' = Present
<1>1. Present' = Present
  BY DEF Present, Candidates, Names, scenario
<1>2. ConfigPath' = ConfigPath
  BY <1>1 DEF ConfigPath, Candidates, Names, scenario
<1> QED
  BY <1>1, <1>2

(* What a step finds in the document and the world it finds in every run.   *)
LEMMA HoldsSame ==
  ASSUME UNCHANGED scenario, NEW p
  PROVE  Holds(p)' <=> Holds(p)
<1>1. doc' = doc /\ world' = world
  BY DEF scenario
<1>2. Decoded1' = Decoded1 /\ Resolved1' = Resolved1 /\ LookUps' = LookUps
  BY <1>1 DEF Decoded1, Resolved1, LookUps
<1> QED
  BY <1>1, <1>2, PathSame DEF Holds

(* Where a check stands; what is no check is after all of them. *)
Rank(p) ==
  CASE p = "path" -> 1 [] p = "format" -> 2 [] p = "read" -> 3 [] p = "syntax" -> 4
    [] p = "environment" -> 5 [] p = "schema" -> 6 [] p = "validate" -> 7 [] p = "keyring" -> 8
    [] p = "telemetry" -> 9 [] p = "engines" -> 10 [] OTHER -> 11

Passed(p) == \A q \in Offline : Rank(q) < Rank(p) => Holds(q)

(***************************************************************************)
(* The inductive invariant.  Where a command is, or where it has ended,    *)
(* says which checks the scenario passes and fails (Stage), what of the    *)
(* configuration is decoded and resolved (CfgStage), and which secrets     *)
(* were looked up (Asked); since `validate` and `serve` share the scenario,*)
(* one command's verdict foretells the other's.                            *)
(***************************************************************************)
Shape ==
  /\ [doc |-> doc, world |-> world] \in Scenarios
  /\ command \in Commands
  /\ verdict = [c \in Commands |-> verdict[c]]
  /\ roster \in Seq(Engines)
  /\ effects = [c \in Commands |-> effects[c]]
  /\ \A c \in Commands : effects[c] = [keyring |-> effects[c].keyring, adc |-> effects[c].adc,
                                       remote |-> effects[c].remote]

Turns ==
  /\ phase \in Offline \cup {"telemetry", "build", "state", "bind", "serving", "ended"}
  /\ command = "validate" =>
       /\ verdict["serve"] = "pending" /\ phase \in Offline \cup {"ended"}
       /\ phase # "ended" => verdict["validate"] = "pending"
  /\ command = "serve" \/ phase = "ended" => verdict["validate"] \in Offline \cup {"ok"}
  /\ command = "serve" => (phase \notin {"serving", "ended"} <=> verdict["serve"] = "pending")

Stage ==
  /\ phase # "ended" => Passed(phase)
  /\ \A c \in Commands : verdict[c] # "pending" =>
       Passed(verdict[c]) /\ (verdict[c] \in Offline => ~Holds(verdict[c]))

CfgStage ==
  /\ phase \in {"validate", "keyring"} => cfg = Decoded1
  /\ phase \in {"telemetry", "engines", "build", "state", "bind", "serving"} => cfg = Resolved1

(* How far a command has come. *)
Reached(c) ==
  CASE verdict[c] # "pending"                    -> verdict[c]
    [] verdict[c] = "pending" /\ command = c     -> phase
    [] verdict[c] = "pending" /\ command # c     -> "path"

Asked ==
  \A c \in Commands :
    effects[c].keyring =
      IF Rank(Reached(c)) > 8 \/ verdict[c] = "keyring" THEN LookedUp(LookUps, world.keyring) ELSE {}

Untouched(c) == effects[c].adc = 0 /\ effects[c].remote = {}

Quiet ==
  /\ Untouched("validate")
  /\ Rank(Reached("serve")) <= 10 =>
       Untouched("serve") /\ roster = <<>> /\ metrics = "unbound"

CommonInv == Shape /\ Turns /\ Stage /\ CfgStage /\ Asked /\ Quiet

USE DEF Offline, Commands

(* Before the first step of validate nothing was done and nothing is known. *)
LEMMA CommonInit == Init => CommonInv
<1> SUFFICES ASSUME Init PROVE CommonInv
  OBVIOUS
<1>1. Shape
  <2>1. PICK s \in Scenarios : doc = s.doc /\ world = s.world
    BY DEF Init
  <2>2. s = [doc |-> s.doc, world |-> s.world]
    BY StartupAssumption
  <2>3. [doc |-> doc, world |-> world] \in Scenarios
    BY <2>1, <2>2
  <2> QED
    BY <2>3 DEF Init, Shape, NoEffect
<1>2. Turns /\ CfgStage
  BY DEF Init, Turns, CfgStage
<1>3. Stage
  <2>1. \A q \in Offline : ~(Rank(q) < Rank("path"))
    BY DEF Rank
  <2> QED
    BY <2>1 DEF Init, Stage, Passed
<1>4. Asked /\ Quiet
  <2>1. \A c \in Commands : Reached(c) = "path"
    BY DEF Init, Reached
  <2>2. Rank("path") = 1
    BY DEF Rank
  <2> QED
    BY <2>1, <2>2 DEF Init, Asked, Quiet, Untouched, NoEffect
<1> QED
  BY <1>1, <1>2, <1>3, <1>4 DEF CommonInv

(* One check further. *)
LEMMA PassedOn ==
  ASSUME NEW p, NEW q, Passed(p), Holds(p),
         <<p, q>> \in {<<"path", "format">>, <<"format", "read">>, <<"read", "syntax">>,
                       <<"syntax", "environment">>, <<"environment", "schema">>,
                       <<"schema", "validate">>, <<"validate", "keyring">>,
                       <<"keyring", "telemetry">>, <<"keyring", "engines">>,
                       <<"engines", "build">>, <<"engines", "ok">>}
  PROVE  Passed(q)
BY DEF Passed, Rank

(* What a step of a command can be: it goes on from p to q, or ends with a  *)
(* verdict.                                                                *)
GoesOn(p, q) == phase = p /\ phase' = q /\ verdict' = verdict /\ command' = command

Ends(r) ==
  phase' = "ended" /\ verdict' = [verdict EXCEPT ![command] = r] /\ command' = command

(* A step that passes keeps the order of the commands and what the earlier  *)
(* steps found.                                                             *)
LEMMA GoesOnKept ==
  ASSUME CommonInv, UNCHANGED scenario, NEW p, NEW q, GoesOn(p, q), Passed(q),
         p \notin {"ended", "serving"},
         \/ q \in Offline
         \/ command = "serve" /\ q \in {"telemetry", "build", "state", "bind"}
  PROVE  Turns' /\ Stage'
<1>1. Turns'
  BY DEF CommonInv, Turns, GoesOn, Shape
<1>2. \A r : Passed(r)' <=> Passed(r)
  BY HoldsSame DEF Passed
<1>3. Stage'
  BY <1>2, HoldsSame DEF CommonInv, Stage, GoesOn
<1> QED
  BY <1>1, <1>3

(* So does a step that ends its command, with the step as its verdict.      *)
LEMMA EndsKept ==
  ASSUME CommonInv, UNCHANGED scenario, NEW r, r # "pending", phase \notin {"ended", "serving"},
         phase \in Offline => r = phase \/ (r = "ok" /\ phase = "engines"),
         Ends(r), Passed(r), r \in Offline => ~Holds(r),
         command = "serve" \/ r \in Offline \cup {"ok"}
  PROVE  Turns' /\ Stage'
<1>0. /\ verdict' = [c \in Commands |-> IF c = command THEN r ELSE verdict[c]]
      /\ command \in Commands
  BY DEF CommonInv, Shape, Ends
<1>1. Turns'
  <2>1. CASE command = "validate"
    BY <1>0, <2>1 DEF CommonInv, Turns, Ends
  <2>2. CASE command = "serve"
    BY <1>0, <2>2 DEF CommonInv, Turns, Ends
  <2> QED
    BY <1>0, <2>1, <2>2
<1>2. \A x : Passed(x)' <=> Passed(x)
  BY HoldsSame DEF Passed
<1>3. Stage'
  BY <1>0, <1>2, HoldsSame DEF CommonInv, Stage, Ends
<1> QED
  BY <1>1, <1>3

(* A check that both commands make. *)
LEMMA CheckKept ==
  ASSUME CommonInv, UNCHANGED <<scenario, command>>, NEW p, NEW q, Step(p, q, Holds(p)),
         <<p, q>> \in {<<"path", "format">>, <<"format", "read">>, <<"read", "syntax">>,
                       <<"syntax", "environment">>, <<"environment", "schema">>,
                       <<"schema", "validate">>, <<"validate", "keyring">>,
                       <<"keyring", "telemetry">>, <<"keyring", "engines">>},
         q = "telemetry" => command = "serve"
  PROVE  Turns' /\ Stage'
<1>1. Passed(p) /\ p \in Offline /\ phase = p
  BY DEF CommonInv, Stage, Step
<1>2. CASE Holds(p) /\ Pass(p, q)
  <2>1. Passed(q)
    BY <1>1, <1>2, PassedOn
  <2> QED
    BY <1>1, <1>2, <2>1, GoesOnKept DEF Pass, GoesOn
<1>3. CASE ~Holds(p) /\ Refuse(p)
  BY <1>1, <1>3, EndsKept DEF Refuse, End, Ends
<1> QED
  BY <1>2, <1>3 DEF Step


(* Where the commands are after such a step. *)
LEMMA ReachedNext ==
  ASSUME CommonInv, phase \notin {"ended", "serving"}, command' = command,
         NEW r, r # "pending", r # "ended", GoesOn(phase, r) \/ Ends(r)
  PROVE  /\ Reached(command) = phase /\ verdict[command] = "pending"
         /\ Reached(command)' = r
         /\ Ends(r) => verdict'[command] = r
         /\ GoesOn(phase, r) => verdict'[command] = "pending"
         /\ \A c \in Commands \ {command} :
              Reached(c)' = Reached(c) /\ verdict'[c] = verdict[c]
<1>1. command \in Commands /\ verdict[command] = "pending"
  BY DEF CommonInv, Shape, Turns
<1>2. CASE GoesOn(phase, r)
  <2>1. verdict' = verdict /\ phase' = r /\ ~Ends(r)
    BY <1>2 DEF GoesOn, Ends
  <2> QED
    BY <1>1, <1>2, <2>1 DEF Reached
<1>3. CASE Ends(r)
  <2>1. \A c \in Commands : verdict'[c] = IF c = command THEN r ELSE verdict[c]
    BY <1>3 DEF CommonInv, Shape, Ends
  <2>2. ~GoesOn(phase, r)
    BY <1>3 DEF Ends, GoesOn
  <2>3. Reached(command) = phase /\ Reached(command)' = r /\ verdict'[command] = r
    BY <1>1, <2>1 DEF Reached
  <2>4. \A c \in Commands \ {command} : Reached(c)' = Reached(c) /\ verdict'[c] = verdict[c]
    BY <2>1 DEF Reached
  <2> QED
    BY <1>1, <1>3, <2>2, <2>3, <2>4
<1> QED
  BY <1>2, <1>3

(* What a step that looks up no secret and builds nothing keeps. *)
LEMMA RestKept ==
  ASSUME CommonInv, phase \notin {"ended", "serving"},
         UNCHANGED <<scenario, command, roster, metrics, effects>>,
         NEW r, r \notin {"pending", "ended"},
         GoesOn(phase, r) \/ Ends(r),
         phase # "keyring",
         Rank(r) > 8 <=> Rank(phase) > 8,
         Rank(r) <= 10 => Rank(phase) <= 10,
         Ends(r) => r # "keyring"
  PROVE  Shape' /\ Asked' /\ Quiet'
<1>1. Shape'
  BY DEF CommonInv, Shape, scenario, GoesOn, Ends
<1>2. LookUps' = LookUps /\ world' = world
  BY DEF LookUps, Decoded1, scenario
<1>3. Asked'
  <2> SUFFICES ASSUME NEW c \in Commands
               PROVE  (Rank(Reached(c)') > 8 \/ verdict'[c] = "keyring")
                        <=> (Rank(Reached(c)) > 8 \/ verdict[c] = "keyring")
    BY <1>2 DEF CommonInv, Asked
  <2>1. CASE c # command
    BY <2>1, ReachedNext
  <2>2. CASE c = command
    <3>1. verdict'[c] # "keyring" /\ verdict[c] # "keyring"
      BY <2>2, ReachedNext
    <3>2. Reached(c) = phase /\ Reached(c)' = r
      BY <2>2, ReachedNext
    <3> QED
      BY <3>1, <3>2
  <2> QED
    BY <2>1, <2>2
<1>4. Quiet'
  BY <1>1, ReachedNext DEF CommonInv, Quiet, Untouched, Shape
<1> QED
  BY <1>1, <1>3, <1>4

(* A step that leaves the configuration alone, at a place where it is of    *)
(* the same stage, keeps what is known of it.                               *)
LEMMA CfgKept ==
  ASSUME CommonInv, UNCHANGED <<scenario, cfg>>,
         \/ phase' \notin {"validate", "keyring", "telemetry", "engines", "build", "state", "bind",
                           "serving"}
         \/ phase = "validate" /\ phase' = "keyring"
         \/ /\ phase \in {"telemetry", "engines", "build", "state", "bind", "serving"}
            /\ phase' \in {"telemetry", "engines", "build", "state", "bind", "serving"}
  PROVE  CfgStage'
<1>1. Decoded1' = Decoded1 /\ Resolved1' = Resolved1
  BY DEF Decoded1, Resolved1, scenario
<1> QED
  BY <1>1 DEF CommonInv, CfgStage

(* The engines change nothing that the commands share. *)
LEMMA BuildKept ==
  ASSUME CommonInv, UNCHANGED <<scenario, cfg>>, phase \in {"build", "state", "bind"},
         NEW r, r \notin Offline \cup {"pending", "ended", "telemetry"}, Rank(r) = 11,
         Ends(r) \/ (GoesOn(phase, r) /\ r \in {"build", "state", "bind"}),
         roster' \in Seq(Engines),
         effects' = [c \in Commands |-> IF c = command THEN effects'[c] ELSE effects[c]],
         effects'[command] = [keyring |-> effects[command].keyring,
                              adc |-> effects'[command].adc, remote |-> effects'[command].remote]
  PROVE  CommonInv'
<1>1. command = "serve" /\ Rank(phase) = 11
  BY DEF CommonInv, Shape, Turns, Rank
<1>2. Passed(r)
  BY <1>1 DEF CommonInv, Stage, Passed
<1>3. Turns' /\ Stage'
  BY <1>1, <1>2, GoesOnKept, EndsKept
<1>4. command' = command /\ verdict' = [c \in Commands |-> verdict'[c]]
  BY DEF CommonInv, Shape, GoesOn, Ends
<1>5. Shape'
  BY <1>4 DEF CommonInv, Shape, scenario
<1>6. CfgStage'
  BY CfgKept DEF GoesOn, Ends
<1>7. /\ Reached("serve") = phase /\ Reached("serve")' = r
      /\ Reached("validate")' = Reached("validate") /\ verdict'["validate"] = verdict["validate"]
      /\ verdict'["serve"] # "keyring" /\ verdict["serve"] = "pending"
  BY <1>1, <1>4, ReachedNext
<1>8. LookUps' = LookUps /\ world' = world
  BY DEF LookUps, Decoded1, scenario
<1>9. Asked'
  BY <1>1, <1>7, <1>8 DEF CommonInv, Asked
<1>10. Quiet'
  BY <1>1, <1>7 DEF CommonInv, Quiet, Untouched
<1> QED
  BY <1>3, <1>5, <1>6, <1>9, <1>10 DEF CommonInv

(* The selected engines. *)
LEMMA SelectedEngines ==
  ASSUME Shape
  PROVE  /\ doc \in Document /\ world \in World
         /\ Selected(doc) \in Seq(Engines) /\ Active(doc) \subseteq Remotes
         /\ \A p \in 1..Len(Selected(doc)) :
              Selected(doc)[p] # Local => Selected(doc)[p] \in Active(doc)
<1>1. [doc |-> doc, world |-> world] \in [doc : Document, world : World]
  BY StartupAssumption DEF Shape
<1>2. doc \in Document /\ world \in World
  BY <1>1
<1>3. doc.model.ids \in Seq(Engines)
  BY <1>2 DEF Document
<1>4. Local \in Engines
  BY DEF Local, Engines
<1>5. <<Local>> \in Seq(Engines)
  BY <1>4
<1>6. Selected(doc) \in Seq(Engines)
  BY <1>3, <1>5 DEF Selected
<1>7. /\ \A p \in 1..Len(Selected(doc)) : Selected(doc)[p] \in Engines
      /\ DOMAIN Selected(doc) = 1..Len(Selected(doc))
  BY <1>6
<1> QED
  BY <1>2, <1>6, <1>7 DEF Active, Range, Remotes

(* One command's credentials and calls are counted; the rest stays. *)
LEMMA EffectPut ==
  ASSUME CommonInv, NEW n, NEW r,
         \/ effects' = effects
         \/ effects' = [effects EXCEPT ![command].adc = @ + n]
         \/ effects' = [effects EXCEPT ![command].adc = @ + n, ![command].remote = @ \cup r]
  PROVE  /\ effects' = [c \in Commands |-> IF c = command THEN effects'[c] ELSE effects[c]]
         /\ effects'[command] = [keyring |-> effects[command].keyring,
                                 adc |-> effects'[command].adc, remote |-> effects'[command].remote]
<1>1. /\ effects = [c \in Commands |-> effects[c]] /\ command \in Commands
      /\ effects[command] = [keyring |-> effects[command].keyring, adc |-> effects[command].adc,
                             remote |-> effects[command].remote]
  BY DEF CommonInv, Shape
<1>2. CASE effects' = effects
  BY <1>1, <1>2
<1>3. CASE effects' = [effects EXCEPT ![command].adc = @ + n]
  BY <1>1, <1>3
<1>4. CASE effects' = [effects EXCEPT ![command].adc = @ + n, ![command].remote = @ \cup r]
  BY <1>1, <1>4
<1> QED
  BY <1>2, <1>3, <1>4

(* Every step of either command keeps the common invariant.                 *)
LEMMA CommonStep ==
  ASSUME CommonInv, [Next]_vars
  PROVE  CommonInv'
<1> USE DEF built
<1>0. /\ Decoded1' = Decoded1 /\ Resolved1' = Resolved1 /\ LookUps' = LookUps
      /\ UNCHANGED scenario
  <2>1. UNCHANGED scenario
    BY DEF Next, vars, scenario, ResolvePath, FormatForPath, Read, Parse, ExpandEnv, Deserialize,
           Validate, ResolveKeyring, InitTelemetry, CheckEngines, Deploy, BuildLocal, BuildRemote,
           Assemble, NewState, Bind
  <2> QED
    BY <2>1 DEF Decoded1, Resolved1, LookUps, scenario
<1>1. ASSUME ResolvePath \/ FormatForPath \/ Read \/ Parse \/ ExpandEnv \/ Validate
      PROVE  CommonInv'
  <2>1. PICK p, q :
          /\ <<p, q>> \in {<<"path", "format">>, <<"format", "read">>, <<"read", "syntax">>,
                           <<"syntax", "environment">>, <<"environment", "schema">>,
                           <<"validate", "keyring">>}
          /\ Step(p, q, Holds(p)) /\ UNCHANGED <<command, cfg, built, metrics, effects>>
    <3>1. ResolvePath => Step("path", "format", Holds("path"))
      BY DEF ResolvePath, Holds, Step
    <3>2. FormatForPath => Step("format", "read", Holds("format"))
      BY DEF FormatForPath, Holds, Step
    <3>3. Read => Step("read", "syntax", Holds("read"))
      BY DEF Read, Holds, Step
    <3>4. Parse => Step("syntax", "environment", Holds("syntax"))
      BY DEF Parse, Holds, Step
    <3>5. ExpandEnv => Step("environment", "schema", Holds("environment"))
      BY DEF ExpandEnv, Holds, Step
    <3>6. Validate => Step("validate", "keyring", Holds("validate"))
      BY DEF Validate, Holds, Step
    <3>7. UNCHANGED <<command, cfg, built, metrics, effects>>
      BY <1>1 DEF ResolvePath, FormatForPath, Read, Parse, ExpandEnv, Validate
    <3> QED
      BY <1>1, <3>1, <3>2, <3>3, <3>4, <3>5, <3>6, <3>7
  <2>2. Turns' /\ Stage'
    BY <1>0, <2>1, CheckKept
  <2>3. CfgStage'
    BY <1>0, <2>1, CfgKept DEF Step, Pass, Refuse, End
  <2>4. phase = p /\ (GoesOn(phase, q) \/ Ends(p))
    BY <2>1 DEF Step, Pass, Refuse, End, GoesOn, Ends
  <2>5. /\ \A r \in {p, q} : Rank(r) <= 8 /\ r \notin {"pending", "ended", "serving"}
        /\ p # "keyring"
    BY <2>1 DEF Rank
  <2>6. PICK r \in {p, q} : (GoesOn(phase, r) \/ Ends(r)) /\ (Ends(r) => r = p)
    BY <2>4, <2>5 DEF GoesOn, Ends
  <2>7. /\ ~(Rank(r) > 8) /\ ~(Rank(phase) > 8) /\ Rank(phase) <= 10
        /\ phase \notin {"ended", "serving", "keyring"}
    <3>1. Rank(p) \in 1..11 /\ Rank(q) \in 1..11
      BY DEF Rank
    <3> QED
      BY <2>4, <2>5, <3>1
  <2>8. UNCHANGED <<scenario, command, roster, metrics, effects>>
    BY <1>0, <2>1
  <2>9. Shape' /\ Asked' /\ Quiet'
    BY <2>5, <2>6, <2>7, <2>8, RestKept
  <2> QED
    BY <2>2, <2>3, <2>9 DEF CommonInv
<1>2. CASE Deserialize
  <2>1. Step("schema", "validate", Holds("schema")) /\ UNCHANGED <<command, built, metrics, effects>>
    BY <1>2 DEF Deserialize, Holds, Step
  <2>2. Turns' /\ Stage'
    BY <1>0, <2>1, CheckKept
  <2>3. phase = "schema" /\ (GoesOn(phase, "validate") \/ Ends("schema"))
    BY <2>1 DEF Step, Pass, Refuse, End, GoesOn, Ends
  <2>4. CfgStage'
    BY <1>0, <1>2, <2>3 DEF Deserialize, Step, Pass, Refuse, End, CfgStage, Decoded1
  <2>5. Shape' /\ Asked' /\ Quiet'
    BY <1>0, <2>1, <2>3, RestKept DEF Rank
  <2> QED
    BY <2>2, <2>4, <2>5 DEF CommonInv
<1>3. CASE ResolveKeyring
  <2> DEFINE q == IF command = "serve" THEN "telemetry" ELSE "engines"
  <2>1. /\ phase = "keyring" /\ cfg = Decoded1 /\ command \in Commands
        /\ UNCHANGED <<command, built, metrics>>
    BY <1>3 DEF ResolveKeyring, Step, CommonInv, CfgStage, Shape
  <2>2. Step("keyring", q, Holds("keyring"))
    BY <1>3, <2>1 DEF ResolveKeyring, Holds, LookUps, Step
  <2>3. Turns' /\ Stage'
    BY <1>0, <2>1, <2>2, CheckKept
  <2>4. PICK r \in {"telemetry", "engines", "keyring"} :
          (GoesOn(phase, r) /\ r # "keyring") \/ (Ends(r) /\ r = "keyring")
    BY <2>1, <2>2 DEF Step, Pass, Refuse, End, GoesOn, Ends
  <2>5. CfgStage'
    BY <1>0, <1>3, <2>1, <2>2
       DEF ResolveKeyring, Step, Pass, Refuse, End, Holds, CfgStage, Resolved1, LookUps
  <2>6. effects' = [effects EXCEPT ![command].keyring = @ \cup LookedUp(LookUps, world.keyring)]
    BY <1>3, <2>1 DEF ResolveKeyring, LookUps
  <2>7. /\ Reached(command) = "keyring" /\ Reached(command)' = r /\ verdict[command] = "pending"
        /\ Ends(r) => verdict'[command] = "keyring"
        /\ \A c \in Commands \ {command} :
             Reached(c)' = Reached(c) /\ verdict'[c] = verdict[c]
    BY <2>1, <2>4, ReachedNext
  <2>8. effects[command].keyring = {}
    <3>1. ~(Rank("keyring") > 8)
      BY DEF Rank
    <3> QED
      BY <2>1, <2>7, <3>1 DEF CommonInv, Asked
  <2> DEFINE L == LookedUp(LookUps, world.keyring)
  <2> HIDE DEF L, q
  <2>9. \A c \in Commands :
          effects'[c] = [keyring |-> IF c = command THEN L ELSE effects[c].keyring,
                         adc |-> effects[c].adc, remote |-> effects[c].remote]
    <3>1. effects = [c \in Commands |-> effects[c]]
      BY DEF CommonInv, Shape
    <3>2. effects' = [effects EXCEPT ![command] = [effects[command] EXCEPT !.keyring = L]]
      <4>1. effects[command].keyring \cup L = L
        BY <2>8
      <4> QED
        BY <2>6, <4>1 DEF L
    <3>3. /\ \A c \in Commands : c # command => effects'[c] = effects[c]
          /\ effects'[command] = [effects[command] EXCEPT !.keyring = L]
      BY <2>1, <3>1, <3>2
    <3>4. \A c \in Commands : effects[c] = [keyring |-> effects[c].keyring,
                                            adc |-> effects[c].adc, remote |-> effects[c].remote]
      BY DEF CommonInv, Shape
    <3>5. [effects[command] EXCEPT !.keyring = L] =
            [keyring |-> L, adc |-> effects[command].adc, remote |-> effects[command].remote]
      BY <2>1, <3>4
    <3> QED
      BY <3>3, <3>4, <3>5
  <2>10. Shape'
    <3>1. effects' = [c \in Commands |-> effects'[c]] /\ verdict' = [c \in Commands |-> verdict'[c]]
      BY <2>4, <2>6 DEF CommonInv, Shape, GoesOn, Ends
    <3>2. roster' = roster /\ command' = command
      BY <2>1
    <3> QED
      BY <1>0, <2>9, <3>1, <3>2 DEF CommonInv, Shape, scenario
  <2>11. LookedUp(LookUps, world.keyring)' = L
    BY <1>0 DEF L, scenario
  <2>12. Asked'
    <3>1. Rank("telemetry") > 8 /\ Rank("engines") > 8
      BY DEF Rank
    <3>2. Rank(r) > 8 \/ verdict'[command] = "keyring"
      BY <2>4, <2>7, <3>1
    <3> SUFFICES ASSUME NEW c \in Commands
                 PROVE  effects'[c].keyring =
                          IF Rank(Reached(c)') > 8 \/ verdict'[c] = "keyring" THEN L ELSE {}
      BY <2>11 DEF Asked
    <3>3. CASE c = command
      <4>1. effects'[c].keyring = L
        BY <2>9, <3>3
      <4>2. verdict'[c] = verdict'[command]
        BY <3>3
      <4>3. Reached(c)' = r
        BY <2>1, <2>7, <3>3 DEF Reached
      <4> QED
        BY <3>2, <4>1, <4>2, <4>3
    <3>4. CASE c # command
      <4>1. effects'[c].keyring = effects[c].keyring
        BY <2>9, <3>4
      <4>2. Reached(c)' = Reached(c) /\ verdict'[c] = verdict[c]
        BY <2>7, <3>4
      <4>3. effects[c].keyring =
              IF Rank(Reached(c)) > 8 \/ verdict[c] = "keyring" THEN L ELSE {}
        BY DEF CommonInv, Asked, L
      <4> QED
        BY <4>1, <4>2, <4>3
    <3> QED
      BY <3>3, <3>4
  <2>13. Quiet'
    <3>1. Rank("keyring") <= 10
      BY DEF Rank
    <3> QED
      BY <2>1, <2>7, <2>9, <3>1 DEF CommonInv, Quiet, Untouched
  <2> QED
    BY <2>3, <2>5, <2>10, <2>12, <2>13 DEF CommonInv
<1>4. CASE InitTelemetry
  <2>1. /\ phase = "telemetry" /\ command = "serve"
        /\ UNCHANGED <<command, cfg, built, metrics, effects>>
    BY <1>4 DEF InitTelemetry, CommonInv, Turns, Shape
  <2>2. Passed("telemetry") /\ Passed("engines")
    BY <2>1 DEF CommonInv, Stage, Passed, Rank
  <2>3. GoesOn(phase, "engines") \/ Ends("telemetry")
    BY <1>4, <2>1 DEF InitTelemetry, Pass, Refuse, End, GoesOn, Ends
  <2>4. Turns' /\ Stage'
    BY <1>0, <2>1, <2>2, <2>3, GoesOnKept, EndsKept
  <2>5. CfgStage'
    BY <1>0, <2>1, <2>3, CfgKept DEF GoesOn, Ends
  <2>6. Shape' /\ Asked' /\ Quiet'
    BY <1>0, <2>1, <2>3, RestKept DEF Rank
  <2> QED
    BY <2>4, <2>5, <2>6 DEF CommonInv
<1>5. CASE CheckEngines
  <2>1. /\ phase = "engines" /\ cfg = Resolved1 /\ Passed("engines")
        /\ UNCHANGED <<command, cfg, built, metrics, effects>>
    BY <1>5 DEF CheckEngines, CommonInv, CfgStage, Stage
  <2>2. CASE ~Holds("engines") /\ Ends("engines")
    <3>1. Turns' /\ Stage'
      BY <1>0, <2>1, <2>2, EndsKept
    <3>2. CfgStage'
      BY <1>0, <2>1, <2>2, CfgKept DEF Ends
    <3>3. Shape' /\ Asked' /\ Quiet'
      BY <1>0, <2>1, <2>2, RestKept DEF Rank
    <3> QED
      BY <3>1, <3>2, <3>3 DEF CommonInv
  <2>3. CASE Holds("engines") /\ command = "validate" /\ Ends("ok")
    <3>1. Passed("ok")
      BY <2>1, <2>3, PassedOn
    <3>2. Turns' /\ Stage'
      BY <1>0, <2>1, <2>3, <3>1, EndsKept
    <3>3. CfgStage'
      BY <1>0, <2>1, <2>3, CfgKept DEF Ends
    <3>4. Shape' /\ Asked' /\ Quiet'
      BY <1>0, <2>1, <2>3, RestKept DEF Rank
    <3> QED
      BY <3>2, <3>3, <3>4 DEF CommonInv
  <2>4. CASE Holds("engines") /\ command = "serve" /\ GoesOn("engines", "build")
    <3>1. Passed("build")
      BY <2>1, <2>4, PassedOn
    <3>2. Turns' /\ Stage'
      BY <1>0, <2>1, <2>4, <3>1, GoesOnKept
    <3>3. CfgStage'
      BY <1>0, <2>1, <2>4, CfgKept DEF GoesOn
    <3>4. Shape' /\ Asked' /\ Quiet'
      BY <1>0, <2>1, <2>4, RestKept DEF Rank
    <3> QED
      BY <3>2, <3>3, <3>4 DEF CommonInv
  <2> QED
    BY <1>5, <2>1, <2>2, <2>3, <2>4
       DEF CheckEngines, Holds, Refuse, Pass, End, Ends, GoesOn
<1>6. CASE Deploy
  <2>1. /\ phase = "ended" /\ command = "validate" /\ command' = "serve" /\ phase' = "path"
        /\ UNCHANGED <<built, metrics, effects, verdict>>
    BY <1>6 DEF Deploy
  <2>2. verdict["serve"] = "pending" /\ verdict["validate"] \in Offline \cup {"ok"}
    BY <2>1 DEF CommonInv, Turns
  <2>3. \A c \in Commands : Reached(c)' = Reached(c)
    BY <2>1, <2>2 DEF Reached
  <2>4. Turns' /\ CfgStage'
    BY <1>0, <2>1, <2>2 DEF Turns, CfgStage
  <2>5. Stage'
    <3>1. \A x : Passed(x)' <=> Passed(x)
      BY <1>0, HoldsSame DEF Passed
    <3>2. Passed("path")
      BY DEF Passed, Rank
    <3> QED
      BY <1>0, <2>1, <3>1, <3>2, HoldsSame DEF CommonInv, Stage
  <2>6. Shape'
    BY <1>0, <2>1 DEF CommonInv, Shape, scenario
  <2>7. Asked' /\ Quiet'
    BY <1>0, <2>1, <2>3 DEF CommonInv, Asked, Quiet, Untouched, scenario
  <2> QED
    BY <2>4, <2>5, <2>6, <2>7 DEF CommonInv
<1>7. CASE BuildLocal
  <2>1. /\ phase = "build" /\ UNCHANGED <<command, cfg, effects>>
        /\ GoesOn("build", "build") \/ Ends("sessions")
    BY <1>7 DEF BuildLocal, Building, End, Ends, GoesOn
  <2>2. roster' \in Seq(Engines)
    <3>1. Local \in Engines /\ roster \in Seq(Engines)
      BY DEF Local, Engines, CommonInv, Shape
    <3>2. roster' = roster \/ roster' = Append(roster, Local)
      BY <1>7 DEF BuildLocal
    <3> QED
      BY <3>1, <3>2
  <2>3. \A c \in Commands : effects[c] = [keyring |-> effects[c].keyring, adc |-> effects[c].adc,
                                          remote |-> effects[c].remote]
    BY DEF CommonInv, Shape
  <2>4. command \in Commands /\ effects = [c \in Commands |-> effects[c]]
    BY DEF CommonInv, Shape
  <2> QED
    BY <1>0, <2>1, <2>2, <2>3, <2>4, BuildKept DEF Rank
<1>8. CASE BuildRemote
  <2>0. /\ phase = "build" /\ Current \in Engines /\ UNCHANGED <<command, cfg>>
        /\ roster \in Seq(Engines)
    <3>1. /\ roster \in Seq(Engines) /\ Selected(doc) \in Seq(Engines)
          /\ Len(roster) < Len(Selected(doc))
      BY <1>8, SelectedEngines DEF BuildRemote, Building, CommonInv, Shape
    <3>2. Len(roster) + 1 \in 1..Len(Selected(doc))
      BY <3>1
    <3> QED
      BY <1>8, <3>1, <3>2 DEF BuildRemote, Building, Current
  <2>1. PICK outcome \in Outcomes(Current) :
          /\ \/ outcome = "built" /\ roster' = Append(roster, Current) /\ UNCHANGED <<phase, verdict>>
             \/ outcome # "built" /\ End(outcome) /\ UNCHANGED roster
          /\ effects' = [effects EXCEPT
               ![command].adc    = @ + (IF NeedsAdc(Current, cfg.tables[Current]) THEN 1 ELSE 0),
               ![command].remote = @ \cup (IF outcome \in {"anchors", "built"}
                                           THEN {Current} ELSE {})]
    BY <1>8 DEF BuildRemote
  <2>2. outcome \in {"adc", "unresolved", "quota_project", "client", "max_concurrency", "anchors",
                     "built"}
    BY <2>1 DEF Outcomes
  <2>3. GoesOn("build", "build") \/ (Ends(outcome) /\ outcome # "built")
    BY <2>0, <2>1 DEF End, Ends, GoesOn
  <2>4. roster' \in Seq(Engines)
    BY <2>0, <2>1
  <2>5. /\ effects' = [c \in Commands |-> IF c = command THEN effects'[c] ELSE effects[c]]
        /\ effects'[command] = [keyring |-> effects[command].keyring,
                                adc |-> effects'[command].adc, remote |-> effects'[command].remote]
    BY <2>1, EffectPut
  <2> QED
    BY <1>0, <2>0, <2>2, <2>3, <2>4, <2>5, BuildKept DEF Rank
<1>9. CASE Assemble
  <2>1. /\ phase = "build" /\ UNCHANGED <<command, cfg, effects, roster>>
        /\ GoesOn("build", "state") \/ Ends("roster")
    BY <1>9 DEF Assemble, Pass, End, Ends, GoesOn
  <2>2. /\ \A c \in Commands : effects[c] = [keyring |-> effects[c].keyring, adc |-> effects[c].adc,
                                             remote |-> effects[c].remote]
        /\ command \in Commands /\ effects = [c \in Commands |-> effects[c]]
        /\ roster \in Seq(Engines)
    BY DEF CommonInv, Shape
  <2> QED
    BY <1>0, <2>1, <2>2, BuildKept DEF Rank
<1>10. CASE NewState
  <2>1. /\ phase = "state" /\ UNCHANGED <<command, cfg, roster>>
        /\ GoesOn("state", "bind") \/ \E r \in {"client", "unresolved", "adc"} : Ends(r)
    BY <1>10 DEF NewState, Pass, End, Ends, GoesOn
  <2>2. \/ effects' = effects
        \/ effects' = [effects EXCEPT ![command].adc = @ + Discoveries(cfg.auth)]
    BY <1>10 DEF NewState
  <2>3. /\ effects' = [c \in Commands |-> IF c = command THEN effects'[c] ELSE effects[c]]
        /\ effects'[command] = [keyring |-> effects[command].keyring,
                                adc |-> effects'[command].adc, remote |-> effects'[command].remote]
    BY <2>2, EffectPut
  <2>4. roster \in Seq(Engines)
    BY DEF CommonInv, Shape
  <2> QED
    BY <1>0, <2>1, <2>3, <2>4, BuildKept DEF Rank
<1>11. CASE Bind
  <2>1. phase = "bind" /\ UNCHANGED <<command, cfg, built, metrics, effects>> /\ command = "serve"
    BY <1>11 DEF Bind, CommonInv, Turns, Shape
  <2>2. /\ \A c \in Commands : effects[c] = [keyring |-> effects[c].keyring, adc |-> effects[c].adc,
                                             remote |-> effects[c].remote]
        /\ command \in Commands /\ effects = [c \in Commands |-> effects[c]]
        /\ roster \in Seq(Engines)
    BY DEF CommonInv, Shape
  <2>3. CASE Ends("bind")
    BY <1>0, <2>1, <2>2, <2>3, BuildKept DEF Rank
  <2>4. CASE phase' = "serving" /\ verdict' = [verdict EXCEPT ![command] = "ok"]
    <3>1. /\ verdict' = [c \in Commands |-> verdict'[c]] /\ verdict'["serve"] = "ok"
          /\ verdict'["validate"] = verdict["validate"]
      BY <2>1, <2>4 DEF CommonInv, Shape
    <3>2. Shape'
      BY <1>0, <2>1, <3>1 DEF CommonInv, Shape, scenario
    <3>3. Turns'
      BY <2>1, <2>4, <3>1 DEF CommonInv, Turns
    <3>4. Stage'
      <4>1. \A x : Passed(x)' <=> Passed(x)
        BY <1>0, HoldsSame DEF Passed
      <4>2. Passed("bind") /\ Passed("serving") /\ Passed("ok")
        BY <2>1 DEF CommonInv, Stage, Passed, Rank
      <4> QED
        BY <1>0, <2>1, <2>4, <3>1, <4>1, <4>2, HoldsSame DEF CommonInv, Stage
    <3>5. CfgStage'
      BY <1>0, <2>1, <2>4, CfgKept
    <3>6. /\ Reached("serve") = "bind" /\ Reached("serve")' = "ok"
          /\ Reached("validate")' = Reached("validate") /\ verdict["serve"] = "pending"
      BY <2>1, <2>4, <3>1 DEF Reached, CommonInv, Turns
    <3>7. Rank("bind") = 11 /\ Rank("ok") = 11
      BY DEF Rank
    <3>8. Asked'
      BY <1>0, <2>1, <3>1, <3>6, <3>7 DEF CommonInv, Asked, scenario
    <3>9. Quiet'
      BY <2>1, <3>6, <3>7 DEF CommonInv, Quiet, Untouched
    <3> QED
      BY <3>2, <3>3, <3>4, <3>5, <3>8, <3>9 DEF CommonInv
  <2> QED
    BY <1>11, <2>1, <2>3, <2>4 DEF Bind, Refuse, End, Ends
<1>12. CASE UNCHANGED vars
  <2>1. \A x : Passed(x)' <=> Passed(x)
    BY <1>0, HoldsSame DEF Passed
  <2>2. \A c \in Commands : Reached(c)' = Reached(c)
    BY <1>12 DEF vars, Reached
  <2>3. Shape' /\ Turns' /\ CfgStage'
    BY <1>0, <1>12 DEF vars, CommonInv, Shape, Turns, CfgStage
  <2>4. Stage'
    BY <1>0, <1>12, <2>1, HoldsSame DEF vars, CommonInv, Stage
  <2>5. Asked' /\ Quiet'
    BY <1>0, <1>12, <2>2 DEF vars, CommonInv, Asked, Quiet, Untouched, scenario
  <2> QED
    BY <2>3, <2>4, <2>5 DEF CommonInv
<1> QED
  BY <1>1, <1>2, <1>3, <1>4, <1>5, <1>6, <1>7, <1>8, <1>9, <1>10, <1>11, <1>12 DEF Next

(* Both commands see the same document in the same world, step by step, and *)
(* a verdict tells what was found at each step before it.                   *)
THEOREM CommonAlways == Spec => []CommonInv
<1>1. Init => CommonInv
  BY CommonInit
<1>2. CommonInv /\ [Next]_vars => CommonInv'
  BY CommonStep
<1> QED
  BY <1>1, <1>2, PTL DEF Spec

(***************************************************************************)
(* The keyring.                                                            *)
(***************************************************************************)

(* A secret that refers to the keyring is decoded from a key that names it. *)
LEMMA DecodedReference ==
  ASSUME NEW key \in Key, NEW env, Refers(DecodeKey(key, env))
  PROVE  key.source = "keyring" /\ DecodeKey(key, env).entry = key.entry
<1>1. key.source \in {"omitted", "google-adc", "malformed", "string", "keyring"}
  BY DEF Key
<1>2. key.source = "keyring"
  BY <1>1 DEF Refers, DecodeKey, NoSecret, StaticSecret
<1> QED
  BY <1>2 DEF DecodeKey

(* Every slot that refers to an entry is a routed model's or a selected     *)
(* engine's.                                                                *)
LEMMA LookUpsRun ==
  ASSUME Shape, NEW p \in DOMAIN LookUps, Refers(LookUps[p])
  PROVE  LookUps[p].entry \in RunningEntries
<1> DEFINE auth  == Decoded1.auth
           engine(q) == Selected(doc)[(q + 1) \div 2]
           slot(q) == IF engine(q) = Local THEN NoSecret
                      ELSE IF q % 2 = 1 THEN Decoded1.tables[engine(q)].api_key
                      ELSE Decoded1.tables[engine(q)].access_token
           own   == [q \in 1..(2 * Len(Selected(doc))) |-> slot(q)]
           any   == {auth[i] : i \in DOMAIN auth} \cup {own[q] : q \in DOMAIN own}
<1>1. /\ doc \in Document /\ Selected(doc) \in Seq(Engines) /\ Active(doc) \subseteq Remotes
      /\ \A i \in 1..Len(Selected(doc)) :
           Selected(doc)[i] # Local => Selected(doc)[i] \in Active(doc)
  BY SelectedEngines
<1>2. doc.models \in Seq(RoutedModel) /\ doc.tables \in [Remotes -> Table]
  BY <1>1 DEF Document
<1>3. auth = [i \in 1..Len(doc.models) |-> DecodeKey(doc.models[i].api_key, world.env)]
  BY <1>2 DEF Decoded1, Decode
<1>4. LookUps = auth \o own
  BY DEF LookUps, Slots
<1>5. auth \in Seq(any) /\ own \in Seq(any) /\ Len(auth) = Len(doc.models)
      /\ Len(own) = 2 * Len(Selected(doc)) /\ Len(auth) \in Nat /\ Len(Selected(doc)) \in Nat
  <2>1. Len(doc.models) \in Nat /\ Len(Selected(doc)) \in Nat
    BY <1>1, <1>2
  <2>2. \A i \in 1..Len(doc.models) : auth[i] \in any
    BY <1>3
  <2>3. \A q \in 1..(2 * Len(Selected(doc))) : own[q] \in any
    OBVIOUS
  <2> HIDE DEF any, slot
  <2>4. own \in Seq(any) /\ Len(own) = 2 * Len(Selected(doc))
    BY <2>1, <2>3
  <2> HIDE DEF own, auth
  <2>5. auth \in Seq(any) /\ Len(auth) = Len(doc.models)
    <3>1. auth \in [1..Len(doc.models) -> any]
      BY <1>3, <2>2
    <3> QED
      BY <2>1, <3>1
  <2> QED
    BY <2>1, <2>4, <2>5
<1> HIDE DEF auth, own, any
<1>6. /\ LookUps \in Seq(any) /\ Len(LookUps) = Len(auth) + Len(own)
      /\ p \in 1..(Len(auth) + Len(own))
      /\ LookUps[p] = IF p <= Len(auth) THEN auth[p] ELSE own[p - Len(auth)]
  <2>1. /\ auth \o own \in Seq(any) /\ Len(auth \o own) = Len(auth) + Len(own)
        /\ \A i \in 1..(Len(auth) + Len(own)) :
             (auth \o own)[i] = IF i <= Len(auth) THEN auth[i] ELSE own[i - Len(auth)]
    BY <1>5, ConcatProperties
  <2> QED
    BY <1>4, <2>1
<1>7. CASE p <= Len(auth)
  <2>1. p \in 1..Len(doc.models) /\ LookUps[p] = DecodeKey(doc.models[p].api_key, world.env)
    BY <1>3, <1>5, <1>6, <1>7
  <2>2. p \in DOMAIN doc.models /\ doc.models[p].api_key \in Key
    <3>1. doc.models[p] \in RoutedModel /\ p \in DOMAIN doc.models
      BY <1>2, <2>1
    <3> QED
      BY <3>1 DEF RoutedModel
  <2>3. doc.models[p].api_key.source = "keyring"
        /\ LookUps[p].entry = doc.models[p].api_key.entry
    BY <2>1, <2>2, DecodedReference
  <2> QED
    BY <2>2, <2>3 DEF RunningEntries
<1>8. CASE ~(p <= Len(auth))
  <2> DEFINE q == p - Len(auth)
             e == engine(q)
  <2>1. q \in 1..(2 * Len(Selected(doc))) /\ LookUps[p] = own[q]
    <3>1. LookUps[p] = own[q]
      BY <1>6, <1>8
    <3>2. \A a, b \in Nat : \A x \in 1..(a + b) : ~(x <= a) => x - a \in 1..b
      OBVIOUS
    <3>3. Len(own) \in Nat
      BY <1>5
    <3>4. p - Len(auth) \in 1..Len(own)
      BY <1>5, <1>6, <1>8, <3>2, <3>3
    <3> QED
      BY <1>5, <3>1, <3>4
  <2>2. (q + 1) \div 2 \in 1..Len(Selected(doc))
    BY <1>5, <2>1
  <2>3. LookUps[p] = slot(q)
    BY <2>1 DEF own
  <2>4. e # Local
    <3> SUFFICES ASSUME e = Local
                 PROVE  slot(q) = NoSecret
      <4> HIDE DEF slot, e
      <4> QED
        BY <2>3 DEF Refers, NoSecret
    <3> HIDE DEF engine, q
    <3> QED
      OBVIOUS
  <2>5. e \in Active(doc) /\ e \in Remotes
    BY <1>1, <2>2, <2>4
  <2> HIDE DEF q
  <2>6. PICK key \in {doc.tables[e].api_key, doc.tables[e].access_token} :
          LookUps[p] = DecodeKey(key, world.env)
    <3>1. /\ Decoded1.tables[e].api_key = DecodeKey(doc.tables[e].api_key, world.env)
          /\ Decoded1.tables[e].access_token = DecodeKey(doc.tables[e].access_token, world.env)
      BY <2>5 DEF Decoded1, Decode
    <3>2. LookUps[p] \in {Decoded1.tables[e].api_key, Decoded1.tables[e].access_token}
      BY <2>3, <2>4
    <3> QED
      BY <3>1, <3>2
  <2>7. key \in Key
    BY <1>2, <2>5, <2>6 DEF Table
  <2>8. key.source = "keyring" /\ LookUps[p].entry = key.entry
    BY <2>6, <2>7, DecodedReference
  <2> HIDE DEF e
  <2> QED
    BY <2>5, <2>6, <2>8 DEF RunningEntries
<1> QED
  BY <1>7, <1>8

(* The keyring is asked only for what runs, once the document is valid.     *)
LEMMA KeyringOnly == CommonInv => KeyringOnlyForRunning
<1> SUFFICES ASSUME CommonInv, NEW c \in Commands
             PROVE  /\ effects[c].keyring \subseteq RunningEntries
                    /\ effects[c].keyring # {} => Valid(doc)
                    /\ verdict[c] = "keyring" =>
                         \E e \in RunningEntries : world.keyring[e] = "missing"
  BY DEF KeyringOnlyForRunning
<1>1. \A p \in DOMAIN LookUps : Refers(LookUps[p]) => LookUps[p].entry \in RunningEntries
  BY LookUpsRun DEF CommonInv
<1>2. effects[c].keyring =
        IF Rank(Reached(c)) > 8 \/ verdict[c] = "keyring" THEN LookedUp(LookUps, world.keyring)
        ELSE {}
  BY DEF CommonInv, Asked
<1>3. effects[c].keyring \subseteq RunningEntries
  BY <1>1, <1>2 DEF LookedUp
<1>4. ASSUME effects[c].keyring # {}
      PROVE  Valid(doc)
  <2>1. Rank(Reached(c)) > 8 \/ verdict[c] = "keyring"
    BY <1>2, <1>4
  <2>2. Passed(Reached(c))
    <3>1. CASE verdict[c] # "pending"
      BY <3>1 DEF CommonInv, Stage, Reached
    <3>2. CASE verdict[c] = "pending" /\ command = c
      <4>1. Reached(c) = phase /\ phase # "ended"
        BY <3>2 DEF CommonInv, Turns, Reached
      <4> QED
        BY <4>1 DEF CommonInv, Stage
    <3>3. CASE verdict[c] = "pending" /\ command # c
      BY <3>3 DEF Reached, Passed, Rank
    <3> QED
      BY <3>1, <3>2, <3>3
  <2>3. Rank(Reached(c)) > 7
    BY <2>1 DEF Reached, Rank
  <2>4. Holds("validate")
    BY <2>2, <2>3 DEF Passed, Rank
  <2> QED
    BY <2>4 DEF Holds
<1>5. ASSUME verdict[c] = "keyring"
      PROVE  \E e \in RunningEntries : world.keyring[e] = "missing"
  <2>1. ~Holds("keyring")
    BY <1>5 DEF CommonInv, Stage
  <2>2. Unreadable(LookUps, world.keyring) # {}
    BY <2>1 DEF Holds
  <2> QED
    BY <1>1, <2>2 DEF Unreadable
<1> QED
  BY <1>3, <1>4, <1>5

(* The keyring is only read for the models and the engines that run, after  *)
(* the configuration has been validated.                                    *)
THEOREM KeyringAlwaysForRunning == Spec => []KeyringOnlyForRunning
<1> QED
  BY CommonAlways, KeyringOnly, PTL

(***************************************************************************)
(* Nothing that `validate` accepted stops the build.                       *)
(***************************************************************************)

(* The engines built so far are the first of the selected ones, and no      *)
(* command has ended for a reason that was to be found earlier.             *)
Built ==
  /\ Len(roster) <= Len(Selected(doc))
  /\ \A i \in 1..Len(roster) : roster[i] = Selected(doc)[i]

Verdicts == \A c \in Commands : verdict[c] \in {"pending", "ok"} \cup Offline \cup AtBoot

BuildInv == Built /\ Verdicts

(* After the keyring no secret of what runs refers to it. *)
LEMMA NothingRefers ==
  ASSUME Shape
  PROVE  /\ \A i \in DOMAIN Resolved1.auth : ~Refers(Resolved1.auth[i])
         /\ \A e \in Active(doc) : /\ ~Refers(Resolved1.tables[e].api_key)
                                   /\ ~Refers(Resolved1.tables[e].access_token)
<1>1. \A s : ~Refers(Resolved(s, world.keyring))
  BY DEF Refers, Resolved, NoSecret, StaticSecret
<1>2. \A i \in DOMAIN Resolved1.auth : ~Refers(Resolved1.auth[i])
  BY <1>1 DEF Resolved1, ResolveSecrets
<1>3. ASSUME NEW e \in Active(doc)
      PROVE  /\ ~Refers(Resolved1.tables[e].api_key)
             /\ ~Refers(Resolved1.tables[e].access_token)
  <2>1. e \in Remotes
    BY SelectedEngines
  <2> DEFINE t == Decoded1.tables[e]
  <2>2. t = [api_key |-> t.api_key, access_token |-> t.access_token, project |-> t.project,
             location |-> t.location, quota_project |-> t.quota_project]
    BY <2>1 DEF Decoded1, Decode
  <2> HIDE DEF t
  <2>3. Resolved1.tables[e] = [t EXCEPT !.api_key      = Resolved(t.api_key, world.keyring),
                                        !.access_token = Resolved(t.access_token, world.keyring)]
    BY <2>1 DEF Resolved1, ResolveSecrets, t
  <2>4. /\ Resolved1.tables[e].api_key = Resolved(t.api_key, world.keyring)
        /\ Resolved1.tables[e].access_token = Resolved(t.access_token, world.keyring)
    BY <2>2, <2>3
  <2> QED
    BY <1>1, <2>4
<1> QED
  BY <1>2, <1>3

(* Engines with a wider window judge no shorter a turn. *)
LEMMA TurnsGrow ==
  ASSUME NEW e \in Engines, NEW f \in Engines, Budgets[e].context < Budgets[f].context
  PROVE  Budgets[e].turn <= Budgets[f].turn
BY DEF Budgets, Engines, Local

(* What ordering the roster by budget returns. *)
LEMMA SortedRoster ==
  ASSUME roster \in Seq(Engines),
         NEW rungs \in ByBudget([i \in DOMAIN roster |-> Budgets[roster[i]]])
  PROVE  \E p \in Bijection(1..Len(roster), 1..Len(roster)) :
           /\ rungs = [i \in 1..Len(roster) |-> Budgets[roster[p[i]]]]
           /\ \A i, j \in 1..Len(roster) : i < j => rungs[i].context <= rungs[j].context
<1> DEFINE n == Len(roster)
           configured == [i \in DOMAIN roster |-> Budgets[roster[i]]]
<1>1. DOMAIN configured = 1..n /\ \A i \in 1..n : configured[i] = Budgets[roster[i]]
  OBVIOUS
<1>2. rungs \in {[i \in DOMAIN configured |-> configured[p[i]]] :
                   p \in Bijection(DOMAIN configured, DOMAIN configured)}
  BY DEF ByBudget
<1> HIDE DEF configured, n
<1>3. PICK p \in Bijection(1..n, 1..n) : rungs = [i \in 1..n |-> configured[p[i]]]
  BY <1>1, <1>2
<1>4. p \in [1..n -> 1..n]
  BY <1>3 DEF Bijection, Injection
<1>5. rungs = [i \in 1..n |-> Budgets[roster[p[i]]]]
  BY <1>1, <1>3, <1>4
<1>6. \A i, j \in DOMAIN rungs : i < j => rungs[i].context <= rungs[j].context
  BY DEF ByBudget
<1> QED
  BY <1>3, <1>5, <1>6 DEF n

(* Engines that the check of the configuration lets pass make a ladder. *)
LEMMA RosterAccepted ==
  ASSUME Shape, Built, Len(roster) = Len(Selected(doc)), Valid(doc), EnginesValid(doc, Resolved1),
         NEW rungs \in ByBudget([i \in DOMAIN roster |-> Budgets[roster[i]]])
  PROVE  Accepted(rungs)
<1> DEFINE n == Len(roster)
<1>1. /\ roster \in Seq(Engines) /\ n \in Nat /\ n # 0 /\ DOMAIN roster = 1..n
      /\ DOMAIN Selected(doc) = 1..n
  <2>1. roster \in Seq(Engines) /\ Selected(doc) \in Seq(Engines) /\ Selected(doc) # <<>>
    BY SelectedEngines DEF Shape, Valid
  <2> QED
    BY <2>1
<1> HIDE DEF n
<1>2. PICK p \in Bijection(1..n, 1..n) :
        /\ rungs = [i \in 1..n |-> Budgets[roster[p[i]]]]
        /\ \A i, j \in 1..n : i < j => rungs[i].context <= rungs[j].context
  BY <1>1, SortedRoster DEF n
<1>3. p \in [1..n -> 1..n] /\ \A i, j \in 1..n : p[i] = p[j] => i = j
  BY <1>2 DEF Bijection, Injection, IsInjective
<1>4. \A i, j \in 1..n : i # j => Budgets[roster[i]].context # Budgets[roster[j]].context
  BY <1>1 DEF Built, EnginesValid, n
<1>5. rungs # <<>> /\ Len(rungs) = n
  BY <1>1, <1>2
<1>6. ASSUME NEW i \in 1..(Len(rungs) - 1)
      PROVE  /\ rungs[i].context # rungs[i + 1].context
             /\ rungs[i].turn <= rungs[i + 1].turn
  <2>1. i \in 1..n /\ i + 1 \in 1..n /\ i < i + 1
    BY <1>1, <1>5
  <2> DEFINE e == roster[p[i]]
             f == roster[p[i + 1]]
  <2>2. e \in Engines /\ f \in Engines /\ rungs[i] = Budgets[e] /\ rungs[i + 1] = Budgets[f]
    BY <1>1, <1>2, <1>3, <2>1
  <2>3. Budgets[e].context # Budgets[f].context
    BY <1>3, <1>4, <2>1
  <2>4. Budgets[e].context <= Budgets[f].context
    BY <1>2, <2>1, <2>2
  <2> HIDE DEF e, f
  <2>5. Budgets[e].context \in Nat /\ Budgets[f].context \in Nat
    BY <2>2 DEF Budgets, Engines, Local
  <2>6. Budgets[e].context < Budgets[f].context
    BY <2>3, <2>4, <2>5
  <2> QED
    BY <2>2, <2>3, <2>6, TurnsGrow
<1> QED
  BY <1>5, <1>6 DEF Accepted

(* No step ends a command for a reason that `validate` had to report. *)
LEMMA BuildStep ==
  ASSUME CommonInv, BuildInv, [Next]_vars
  PROVE  BuildInv'
<1>0. /\ UNCHANGED doc /\ Selected(doc)' = Selected(doc) /\ command \in Commands
      /\ roster \in Seq(Engines) /\ Selected(doc) \in Seq(Engines)
      /\ verdict = [c \in Commands |-> verdict[c]]
  <2>1. UNCHANGED doc
    BY DEF Next, vars, scenario, ResolvePath, FormatForPath, Read, Parse, ExpandEnv, Deserialize,
           Validate, ResolveKeyring, InitTelemetry, CheckEngines, Deploy, BuildLocal, BuildRemote,
           Assemble, NewState, Bind
  <2> QED
    BY <2>1, SelectedEngines DEF CommonInv, Shape, Selected
<1>1. ASSUME UNCHANGED roster,
             \/ UNCHANGED verdict
             \/ \E r \in {"ok"} \cup Offline \cup AtBoot : verdict' = [verdict EXCEPT ![command] = r]
      PROVE  BuildInv'
  <2>1. Built'
    BY <1>0, <1>1 DEF BuildInv, Built
  <2>2. Verdicts'
    BY <1>0, <1>1 DEF BuildInv, Verdicts, AtBoot
  <2> QED
    BY <2>1, <2>2 DEF BuildInv
<1>2. ASSUME phase \in {"build", "state", "bind"}
      PROVE  cfg = Resolved1 /\ Passed(phase) /\ Valid(doc) /\ EnginesValid(doc, Resolved1)
  <2>1. cfg = Resolved1 /\ Passed(phase)
    BY <1>2 DEF CommonInv, CfgStage, Stage
  <2>2. Holds("validate") /\ Holds("engines")
    BY <1>2, <2>1 DEF Passed, Rank
  <2> QED
    BY <2>1, <2>2 DEF Holds
<1>3. ASSUME Building, roster' = Append(roster, Current), UNCHANGED verdict
      PROVE  BuildInv'
  <2>1. Len(roster) \in Nat /\ Len(Selected(doc)) \in Nat /\ Len(roster) < Len(Selected(doc))
    BY <1>0, <1>3 DEF Building
  <2>2. /\ Len(roster') = Len(roster) + 1
        /\ \A i \in 1..(Len(roster) + 1) :
             roster'[i] = IF i <= Len(roster) THEN roster[i] ELSE Selected(doc)[Len(roster) + 1]
    <3>1. Current \in Engines /\ Current = Selected(doc)[Len(roster) + 1]
      BY <1>0, <2>1 DEF Current
    <3> QED
      BY <1>0, <1>3, <2>1, <3>1
  <2>3. Built'
    BY <1>0, <2>1, <2>2 DEF BuildInv, Built
  <2> QED
    BY <1>3, <2>3 DEF BuildInv, Verdicts
<1>4. CASE ResolvePath \/ FormatForPath \/ Read \/ Parse \/ ExpandEnv \/ Deserialize \/ Validate
  <2>1. /\ UNCHANGED roster
        /\ UNCHANGED verdict \/ \E r \in Offline : verdict' = [verdict EXCEPT ![command] = r]
    BY <1>4 DEF ResolvePath, FormatForPath, Read, Parse, ExpandEnv, Deserialize, Validate,
                Step, Pass, Refuse, End, built
  <2> QED
    BY <1>1, <2>1
<1>5. CASE ResolveKeyring \/ InitTelemetry \/ CheckEngines \/ Deploy
  <2>1. /\ UNCHANGED roster
        /\ \/ UNCHANGED verdict
           \/ \E r \in {"ok", "keyring", "telemetry", "engines"} :
                verdict' = [verdict EXCEPT ![command] = r]
    BY <1>5 DEF ResolveKeyring, InitTelemetry, CheckEngines, Deploy, Step, Pass, Refuse, End, built
  <2> QED
    BY <1>1, <2>1 DEF AtBoot
<1>6. CASE BuildLocal
  <2>1. CASE roster' = Append(roster, Current) /\ UNCHANGED verdict
    BY <1>3, <1>6, <2>1 DEF BuildLocal
  <2>2. CASE End("sessions") /\ UNCHANGED roster
    BY <1>1, <2>2 DEF End, AtBoot
  <2> QED
    BY <1>6, <2>1, <2>2 DEF BuildLocal
<1>7. CASE BuildRemote
  <2>1. PICK outcome \in Outcomes(Current) :
          \/ outcome = "built" /\ roster' = Append(roster, Current) /\ UNCHANGED verdict
          \/ outcome # "built" /\ End(outcome) /\ UNCHANGED roster
    BY <1>7 DEF BuildRemote
  <2>2. Building /\ Current # Local /\ cfg = Resolved1
    BY <1>2, <1>7 DEF BuildRemote, Building
  <2>3. Current \in Active(doc)
    <3>1. Len(roster) + 1 \in 1..Len(Selected(doc))
      BY <1>0, <2>2 DEF Building
    <3> QED
      BY <2>2, <3>1, SelectedEngines DEF CommonInv, Current
  <2>4. outcome \in {"built"} \cup AtBoot
    BY <2>1, <2>2, <2>3, NothingRefers DEF CommonInv, Outcomes, AtBoot
  <2>5. CASE outcome = "built"
    BY <1>3, <2>1, <2>2, <2>5
  <2>6. CASE outcome # "built"
    BY <1>1, <2>1, <2>4, <2>6 DEF End
  <2> QED
    BY <2>5, <2>6
<1>8. CASE Assemble
  <2>1. phase = "build" /\ ~Building /\ UNCHANGED roster
    BY <1>8 DEF Assemble
  <2>2. Len(roster) = Len(Selected(doc))
    BY <1>0, <2>1 DEF Building, BuildInv, Built
  <2>3. \A rungs \in ByBudget([i \in DOMAIN roster |-> Budgets[roster[i]]]) : Accepted(rungs)
    BY <1>2, <2>1, <2>2, RosterAccepted DEF CommonInv, BuildInv
  <2>4. UNCHANGED verdict
    BY <1>8, <2>3 DEF Assemble, Pass
  <2> QED
    BY <1>1, <2>1, <2>4
<1>9. CASE NewState
  <2>1. phase = "state" /\ cfg = Resolved1 /\ UNCHANGED roster
    BY <1>2, <1>9 DEF NewState, built
  <2>2. \A i \in DOMAIN cfg.auth : ~Refers(cfg.auth[i])
    BY <2>1, NothingRefers DEF CommonInv
  <2>3. UNCHANGED verdict \/ \E r \in {"client", "adc"} : verdict' = [verdict EXCEPT ![command] = r]
    <3> DEFINE bad == {i \in DOMAIN cfg.auth :
                         Refers(cfg.auth[i]) \/ (cfg.auth[i].kind = "google-adc" /\ ~world.adc)}
    <3>1. CASE End("client")
      BY <3>1 DEF End
    <3>2. CASE \E i \in DOMAIN cfg.auth : End(IF Refers(cfg.auth[i]) THEN "unresolved" ELSE "adc")
      BY <2>2, <3>2 DEF End
    <3>3. CASE Pass("state", "bind")
      BY <3>3 DEF Pass
    <3>4. ASSUME bad # {},
                 LET i == CHOOSE i \in bad : \A j \in bad : i <= j
                 IN End(IF Refers(cfg.auth[i]) THEN "unresolved" ELSE "adc")
          PROVE  \E i \in DOMAIN cfg.auth : End(IF Refers(cfg.auth[i]) THEN "unresolved" ELSE "adc")
      <4>1. bad \in SUBSET Nat
        <5>1. DOMAIN cfg.auth = DOMAIN doc.models /\ doc.models \in Seq(RoutedModel)
          BY <2>1, SelectedEngines
             DEF CommonInv, Resolved1, ResolveSecrets, Decoded1, Decode, Document
        <5> QED
          BY <5>1
      <4>2. \E i \in bad : \A j \in bad : i <= j
        <5> HIDE DEF bad
        <5> QED
          BY <3>4, <4>1, LeastNat
      <4>3. (CHOOSE i \in bad : \A j \in bad : i <= j) \in bad
        <5> HIDE DEF bad
        <5> QED
          BY <4>2
      <4> QED
        BY <3>4, <4>3
    <3> QED
      BY <1>9, <3>1, <3>2, <3>3, <3>4 DEF NewState
  <2> QED
    BY <1>1, <2>1, <2>3 DEF AtBoot
<1>10. CASE Bind
  <2>1. /\ UNCHANGED roster
        /\ \E r \in {"ok", "bind"} : verdict' = [verdict EXCEPT ![command] = r]
    BY <1>10 DEF Bind, Refuse, End, built
  <2> QED
    BY <1>1, <2>1 DEF AtBoot
<1>11. CASE UNCHANGED vars
  BY <1>1, <1>11 DEF vars
<1> QED
  BY <1>4, <1>5, <1>6, <1>7, <1>8, <1>9, <1>10, <1>11 DEF Next

(* Before anything runs no engine is built.                                 *)
LEMMA BuildInit == Init => BuildInv
<1> SUFFICES ASSUME Init PROVE BuildInv
  OBVIOUS
<1>1. Shape
  BY CommonInit DEF CommonInv
<1>2. Len(Selected(doc)) \in Nat
  BY <1>1, SelectedEngines
<1> QED
  BY <1>2 DEF Init, BuildInv, Built, Verdicts

(* The roster is always the beginning of the document's list of engines, and*)
(* no command ends for a reason that is not foreseen.                       *)
THEOREM BuildAlways == Spec => []BuildInv
<1>1. Init => BuildInv
  BY BuildInit
<1>2. CommonInv /\ BuildInv /\ [Next]_vars => BuildInv'
  BY BuildStep
<1> QED
  BY <1>1, <1>2, CommonAlways, PTL DEF Spec

(* The steps that both commands fail at alike. *)
LEMMA Foretold == CommonInv /\ BuildInv => ValidateForetells
<1> SUFFICES ASSUME CommonInv, BuildInv, verdict["serve"] # "pending"
             PROVE  /\ verdict["validate"] # "ok" =>
                         /\ \/ verdict["serve"] = verdict["validate"]
                            \/ verdict["serve"] = "telemetry" /\ verdict["validate"] = "engines"
                         /\ effects["serve"] = effects["validate"]
                         /\ roster = <<>> /\ metrics = "unbound"
                    /\ verdict["validate"] = "ok" => verdict["serve"] \in AtBoot \cup {"ok"}
                    /\ effects["validate"].adc = 0 /\ effects["validate"].remote = {}
  BY DEF ValidateForetells
<1> DEFINE v == verdict["validate"]
           s == verdict["serve"]
<1>1. /\ command = "serve" /\ v \in Offline \cup {"ok"} /\ Passed(s) /\ Passed(v)
      /\ v \in Offline => ~Holds(v)
      /\ s \in Offline => ~Holds(s)
      /\ s \in {"ok"} \cup Offline \cup AtBoot
  BY DEF CommonInv, Turns, Stage, Shape, BuildInv, Verdicts
<1>2. Reached("serve") = s /\ Reached("validate") = v
  BY <1>1 DEF Reached
<1> HIDE DEF v, s
<1>3. Untouched("validate")
  BY DEF CommonInv, Quiet
<1>4. ASSUME v = "ok"
      PROVE  s \in AtBoot \cup {"ok"}
  <2>1. s \in Offline => Rank(s) < Rank("ok")
    BY DEF Rank
  <2>2. s \notin Offline
    BY <1>1, <1>4, <2>1 DEF Passed
  <2> QED
    BY <1>1, <2>2
<1>5. ASSUME v # "ok"
      PROVE  /\ s = v \/ (s = "telemetry" /\ v = "engines")
             /\ effects["serve"] = effects["validate"]
             /\ roster = <<>> /\ metrics = "unbound"
  <2>1. v \in Offline /\ ~Holds(v)
    BY <1>1, <1>5
  <2>2. ~(Rank(v) < Rank(s)) /\ (s \in Offline => ~(Rank(s) < Rank(v)))
    BY <1>1, <2>1 DEF Passed
  <2>3. s = v \/ (s = "telemetry" /\ v = "engines")
    BY <1>1, <2>1, <2>2 DEF Rank, AtBoot
  <2>4. Rank(s) <= 10 /\ (Rank(s) > 8 <=> Rank(v) > 8) /\ (s = "keyring" <=> v = "keyring")
    BY <2>1, <2>3 DEF Rank
  <2>5. Untouched("serve") /\ roster = <<>> /\ metrics = "unbound"
    BY <1>2, <2>4 DEF CommonInv, Quiet
  <2>6. effects["serve"].keyring = effects["validate"].keyring
    BY <1>2, <2>4 DEF CommonInv, Asked, s, v
  <2>7. effects["serve"] = effects["validate"]
    BY <1>3, <2>5, <2>6 DEF CommonInv, Shape, Untouched
  <2> QED
    BY <2>3, <2>5, <2>7
<1> QED
  BY <1>3, <1>4, <1>5 DEF Untouched, s, v

(* What `validate` says of a document is what `serve` makes of it. *)
THEOREM ValidateAlwaysForetells == Spec => []ValidateForetells
<1> QED
  BY CommonAlways, BuildAlways, Foretold, PTL
=============================================================================
