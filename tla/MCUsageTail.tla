----------------------------- MODULE MCUsageTail -----------------------------
(* Instances of UsageTail for TLC: up to four lines, shorter than the cap,   *)
(* as long, and longer.                                                      *)
EXTENDS UsageTail

MCLines == [size : {1, 2, 4, 5}, usage : BOOLEAN]
MCStreams == UNION {[1..n -> MCLines] : n \in 0..4}
=============================================================================
