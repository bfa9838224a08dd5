------------------------------- MODULE Ladder -------------------------------
(***************************************************************************)
(* How much of a conversation is classified, and by which engine: the      *)
(* capacity ladder (classifier.rs), and the window of recent substantive   *)
(* user turns that is built at the top rung's budget (prompt.rs).          *)
(*                                                                         *)
(* A rung has a budget for the window and one for the current turn, in     *)
(* characters.  A message keeps its author, its number of characters once  *)
(* trimmed, the whitespace that leads it, and whether `looks_trivial` holds*)
(* of it.  Of the image-generation patterns it keeps how far it has to be  *)
(* read, whitespace included, for one to be seen (`image`, 0 if none), and *)
(* `cuts`: the shorter lengths at which there is one only because the cut  *)
(* ends a word early ("create a logo" of "create a logogram").  The walk   *)
(* over the messages is one step per message.                              *)
(***************************************************************************)
EXTENDS Roster, Sizes, FiniteSets

CONSTANTS
  Configurations,  \* the rosters the configuration may name, in its order
  Conversations    \* the conversations to consider

Message ==
  {m \in [user : BOOLEAN, lead : Nat, chars : Nat, trivial : BOOLEAN, image : Nat, cuts : SUBSET Nat] :
     /\ m.image <= m.lead + m.chars
     /\ \A n \in m.cuts : n < m.lead + m.chars
     /\ m.chars = 0 \/ m.trivial => m.image = 0 /\ m.cuts = {}}   \* filler matches no such pattern

ASSUME LadderAssumption ==
  /\ Configurations \subseteq Seq(Rung)
  /\ Conversations \subseteq Seq(Message)

VARIABLES
  rungs,   \* the engines, by ascending budget; none if the boot failed
  talk,    \* the conversation
  phase,   \* "boot", "walk", "done", or "refused"
  at,      \* the message the walk is at, from the last to the first
  taken,   \* the pieces taken so far, the newest first
  used,    \* how many characters they have
  engine   \* the position of the selected rung

vars == <<rungs, talk, phase, at, taken, used, engine>>

----------------------------------------------------------------------------
Top == Len(rungs)
Budget == rungs[Top].context

(* The lowest rung that covers the window; the top one when none does. *)
SelectRung(chars) ==
  LET covering == {i \in DOMAIN rungs : rungs[i].context >= chars}
  IN IF covering = {} THEN Top
     ELSE CHOOSE i \in covering : \A j \in covering : i <= j

----------------------------------------------------------------------------
Init ==
  /\ rungs \in Configurations
  /\ talk \in Conversations
  /\ phase = "boot"
  /\ at = Len(talk)
  /\ taken = <<>>
  /\ used = 0
  /\ engine = 0

(* The roster is sorted and validated at boot, or the server does not start.*)
Boot ==
  /\ phase = "boot"
  /\ \E ladder \in ByBudget(rungs) :
       \/ Accepted(ladder) /\ rungs' = ladder /\ phase' = "walk"
       \/ ~Accepted(ladder) /\ rungs' = <<>> /\ phase' = "refused"
  /\ UNCHANGED <<talk, at, taken, used, engine>>

(* The slip of walking to the first message, full or not. *)
WalkingOn == phase = "walk" /\ at > 0

Walking == phase = "walk" /\ at > 0 /\ used < Budget

Substantive(m) == m.user /\ m.chars > 0 /\ ~m.trivial

(* Another role, no text, or filler. *)
Skip ==
  /\ Walking /\ ~Substantive(talk[at])
  /\ at' = at - 1
  /\ UNCHANGED <<rungs, talk, phase, taken, used, engine>>

(* The slip of a turn that is dropped when it does not fit whole. *)
TakeIfWhole ==
  /\ Walking /\ Substantive(talk[at])
  /\ IF talk[at].chars <= Budget - used
       THEN /\ taken' = Append(taken, [turn |-> at, chars |-> talk[at].chars])
            /\ used' = used + talk[at].chars
       ELSE UNCHANGED <<taken, used>>
  /\ at' = at - 1
  /\ UNCHANGED <<rungs, talk, phase, engine>>

(* A substantive user turn is taken, cut to what remains of the budget. *)
Take ==
  LET rest  == Budget - used
      chars == IF talk[at].chars <= rest THEN talk[at].chars ELSE rest
  IN /\ Walking /\ Substantive(talk[at])
     /\ taken' = Append(taken, [turn |-> at, chars |-> chars])
     /\ used' = used + chars
     /\ at' = at - 1
     /\ UNCHANGED <<rungs, talk, phase, engine>>

(* The pieces are joined with a newline between them: the characters of the *)
(* window, 0 when there is none.                                            *)
WindowChars == IF taken = <<>> THEN 0 ELSE used + (Len(taken) - 1)

(* The window is complete, and selects an engine. *)
SelectEngine ==
  /\ phase = "walk" /\ ~Walking
  /\ phase' = "done"
  /\ engine' = SelectRung(WindowChars)
  /\ UNCHANGED <<rungs, talk, at, taken, used>>

Next == Boot \/ Skip \/ Take \/ SelectEngine

Spec == Init /\ [][Next]_vars

----------------------------------------------------------------------------
(* The last message of the user: the current turn (0 if there is none). *)
CurrentTurn ==
  LET mine == {i \in DOMAIN talk : talk[i].user}
  IN IF mine = {} THEN 0 ELSE CHOOSE i \in mine : \A j \in mine : j <= i

(* Whether the lexical prefilter, which reads the current turn up to the    *)
(* selected engine's budget, sees an image-generation pattern there, or one *)
(* that the cut makes.                                                      *)
LexicalImage ==
  /\ CurrentTurn # 0
  /\ LET budget == rungs[engine].turn
     IN talk[CurrentTurn].image \in 1..budget \/ budget \in talk[CurrentTurn].cuts

(* Every variable stays in its range. *)
TypeOK ==
  /\ rungs \in Seq(Rung)
  /\ talk \in Seq(Message)
  /\ phase \in {"boot", "walk", "done", "refused"}
  /\ at \in 0..Len(talk)
  /\ taken \in Seq([turn : 1..Len(talk), chars : Nat \ {0}])
  /\ used \in Nat
  /\ engine \in 0..Len(rungs)

(* Of the user's text no more than the top rung's budget is collected, all  *)
(* pieces together; and as no piece is empty, the newlines that join them   *)
(* do not make the window twice as long as that.                            *)
TextWithinBudget ==
  phase \in {"walk", "done"} =>
    /\ used = Total([i \in DOMAIN taken |-> taken[i].chars])
    /\ used <= Budget
    /\ taken # <<>> => WindowChars < 2 * Budget

(* The window is the end of the user's substantive text: the newest turns   *)
(* without a gap, whole but for the oldest, and nothing is left out while   *)
(* there is room.                                                           *)
WindowIsRecent ==
  phase = "done" =>
    LET inside == {taken[i].turn : i \in DOMAIN taken}
        whole(i) == taken[i].chars = talk[taken[i].turn].chars
        all == {i \in DOMAIN talk : Substantive(talk[i])}
    IN /\ inside \subseteq all
       /\ \A i, j \in DOMAIN taken : i < j => taken[i].turn > taken[j].turn
       /\ \A i \in inside, j \in all : j > i => j \in inside
       /\ \A i \in DOMAIN taken : i < Len(taken) => whole(i)
       /\ (inside # all \/ \E i \in DOMAIN taken : ~whole(i)) => used = Budget

(* Escalating is never needless and never blind: every rung below the       *)
(* selected one is too small for the window, and an image intent that some  *)
(* lower rung would have seen in the current turn is seen.  (What a lower   *)
(* rung would only have seen by cutting a word short is no intent, and may  *)
(* vanish.)                                                                 *)
EscalationSound ==
  phase = "done" =>
    /\ \A i \in 1..(engine - 1) : rungs[i].context < WindowChars
    /\ CurrentTurn # 0 =>
         \A i \in 1..(engine - 1) :
           talk[CurrentTurn].image \in 1..rungs[i].turn => LexicalImage

(* "The selected engine's own budget is guaranteed to cover it": false of a *)
(* window whose newlines exceed the top budget.                             *)
SelectedCovers ==
  phase = "done" => WindowChars <= rungs[engine].context
=============================================================================
