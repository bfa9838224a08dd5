------------------------------- MODULE Roster -------------------------------
(***************************************************************************)
(* The capacity ladder that `EngineRoster::new` (classifier.rs) makes of   *)
(* the configured engines, and the budgets of the engines there are.       *)
(***************************************************************************)
EXTENDS Naturals, Sequences, Functions

(* What the ladder knows of an engine: how many characters of a window, and *)
(* how many of the current turn, it reads.                                  *)
Rung == [context : Nat \ {0}, turn : Nat]

Engines ==
  {"deberta-v3-xsmall-zeroshot", "gemini-embedding-001", "gemini-embedding-2", "text-embedding-005"}

Local == "deberta-v3-xsmall-zeroshot"
Remotes == Engines \ {Local}

(* The budgets each engine's file declares. *)
Budgets ==
  [e \in Engines |->
     CASE e = Local                -> [context |-> 1000, turn |-> 400]
       [] e = "gemini-embedding-2" -> [context |-> 24000, turn |-> 8000]
       [] OTHER                    -> [context |-> 6000, turn |-> 2000]]

(* The orders of a list of rungs by ascending window; more than one only if *)
(* two windows are equal, and such a list is refused.                       *)
ByBudget(configured) ==
  {s \in {[i \in DOMAIN configured |-> configured[p[i]]] :
            p \in Bijection(DOMAIN configured, DOMAIN configured)} :
     \A i, j \in DOMAIN s : i < j => s[i].context <= s[j].context}

(* The slip of a roster that only has to be ordered. *)
OrderedOnly(ladder) ==
  /\ ladder # <<>>
  /\ \A i \in 1..(Len(ladder) - 1) : ladder[i].context # ladder[i + 1].context

(* A ladder: strictly ascending windows, and current turns that do not      *)
(* shrink.                                                                  *)
Accepted(ladder) ==
  /\ ladder # <<>>
  /\ \A i \in 1..(Len(ladder) - 1) :
       /\ ladder[i].context # ladder[i + 1].context
       /\ ladder[i].turn <= ladder[i + 1].turn
=============================================================================
