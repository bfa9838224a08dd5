----------------------------- MODULE Admission -----------------------------
(***************************************************************************)
(* What the local classification engine promises its callers, without the  *)
(* means: a service with a fixed number of slots and a first-come,         *)
(* first-served line in front of it.  A call that finds a free slot is     *)
(* served at once, a slot that frees goes to the call that has waited the  *)
(* longest, and a call whose client has gone leaves the line (or gives its *)
(* slot on).  SessionPool.tla implements it with a semaphore, tokio's      *)
(* blocking pool and a condition variable.                                 *)
(***************************************************************************)
EXTENDS Naturals, Sequences, FiniteSets, SequencesExt

CONSTANTS
  Calls,   \* the classification calls a burst can have in flight
  Slots    \* how many of them may be served at once, at least one

VARIABLES
  line,    \* the calls that wait, the oldest first
  served   \* the calls that own a slot

avars == <<line, served>>

InLine(c) == \E i \in DOMAIN line : line[i] = c

Init ==
  /\ line = <<>>
  /\ served = {}

(* A new call takes a free slot, or joins the end of the line. *)
Arrive(c) ==
  /\ c \notin served /\ ~InLine(c)
  /\ \/ /\ Cardinality(served) < Slots
        /\ served' = served \cup {c}
        /\ UNCHANGED line
     \/ /\ Cardinality(served) = Slots
        /\ line' = Append(line, c)
        /\ UNCHANGED served

(* A call leaves its slot, which passes to the head of the line. *)
Leave(c) ==
  /\ c \in served
  /\ \/ /\ line = <<>>
        /\ served' = served \ {c}
        /\ UNCHANGED line
     \/ /\ line # <<>>
        /\ served' = (served \ {c}) \cup {Head(line)}
        /\ line' = Tail(line)

(* A waiting call gives up; the order of the others does not change. *)
GiveUp(c) ==
  /\ \E i \in DOMAIN line : line[i] = c /\ line' = RemoveAt(line, i)
  /\ UNCHANGED served

Next == \E c \in Calls : Arrive(c) \/ Leave(c) \/ GiveUp(c)

Safety == Init /\ [][Next]_avars

(* A slot is never kept for ever, so no call waits for ever. *)
Spec == Safety /\ \A c \in Calls : WF_avars(Leave(c))
=============================================================================
