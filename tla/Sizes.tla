------------------------------- MODULE Sizes -------------------------------
(***************************************************************************)
(* The size of a text that comes in pieces.  (It is a function of how many *)
(* of the pieces are counted, and not a fold, so that what it is of every  *)
(* text can be proved.)                                                    *)
(***************************************************************************)
EXTENDS Integers, Sequences

Total(sizes) ==
  LET upTo[n \in 0..Len(sizes)] == IF n = 0 THEN 0 ELSE upTo[n - 1] + sizes[n]
  IN upTo[Len(sizes)]
=============================================================================
