------------------------------ MODULE UsageTail ------------------------------
(***************************************************************************)
(* What is found of a streamed answer's token usage (usage.rs): the tap    *)
(* that sees the chunks go by, the bounded tail that it keeps of them, and *)
(* the report at the end of the stream.                                    *)
(*                                                                         *)
(* A stream is a sequence of lines; a line keeps its number of bytes, with *)
(* the newline, and whether it is a `data:` event that carries counts.  A  *)
(* byte is its position in the stream, so that a buffer of bytes shows     *)
(* which ones were kept and in what order.  The upstream cuts the stream   *)
(* into chunks wherever it likes.  (That the rest of a line that was cut   *)
(* off could read as an event of its own is left out.)                     *)
(***************************************************************************)
EXTENDS Sizes

CONSTANTS
  CAP,     \* the bytes that are kept
  Streams  \* the streams an upstream may send

Line == [size : Nat \ {0}, usage : BOOLEAN]

ASSUME UsageTailAssumption ==
  /\ CAP \in Nat \ {0}
  /\ Streams \subseteq Seq(Line)

VARIABLES
  stream,    \* the lines that the upstream sends
  phase,     \* "open", "closed" by the upstream, or "broken"
  received,  \* how many bytes have come
  buf,       \* the tail
  reported,  \* whether the end of the stream was handled
  reports    \* the lines whose counts were reported

vars == <<stream, phase, received, buf, reported, reports>>

----------------------------------------------------------------------------
(* The bytes of the first i lines, and those of line i. *)
Upto(i) == Total([j \in 1..i |-> stream[j].size])
Whole   == Upto(Len(stream))
Bytes(i) == [k \in 1..stream[i].size |-> Upto(i - 1) + k]

(* A line is found where it is whole, and begins the tail or follows a      *)
(* newline.                                                                 *)
Found(i) ==
  \E start \in 0..(Len(buf) - stream[i].size) :
    /\ SubSeq(buf, start + 1, start + stream[i].size) = Bytes(i)
    /\ start = 0 \/ \E j \in DOMAIN stream : buf[start] = Upto(j)

Counted == {i \in DOMAIN stream : stream[i].usage /\ Found(i)}

(* `SseTail::usage`: the last one. *)
Usage == IF Counted = {} THEN <<>> ELSE <<CHOOSE i \in Counted : \A j \in Counted : j <= i>>

----------------------------------------------------------------------------
(* The slip of a large chunk of which the beginning is kept. *)
ExtendHead(tail, chunk) ==
  IF Len(chunk) >= CAP THEN SubSeq(chunk, 1, CAP)
  ELSE LET overflow == IF Len(tail) + Len(chunk) > CAP THEN Len(tail) + Len(chunk) - CAP ELSE 0
       IN SubSeq(tail, overflow + 1, Len(tail)) \o chunk

(* A chunk as large as the cap replaces the tail by its own end; a smaller  *)
(* one pushes the oldest bytes out.                                         *)
Extend(tail, chunk) ==
  IF Len(chunk) >= CAP
  THEN SubSeq(chunk, Len(chunk) - CAP + 1, Len(chunk))
  ELSE LET overflow == IF Len(tail) + Len(chunk) > CAP THEN Len(tail) + Len(chunk) - CAP ELSE 0
       IN SubSeq(tail, overflow + 1, Len(tail)) \o chunk

Init ==
  /\ stream \in Streams
  /\ phase = "open" /\ received = 0 /\ buf = <<>>
  /\ reported = FALSE /\ reports = <<>>

(* A chunk goes by. *)
PollChunk ==
  /\ phase = "open"
  /\ \E n \in 1..(Whole - received) :
       /\ buf' = Extend(buf, [k \in 1..n |-> received + k])
       /\ received' = received + n
  /\ UNCHANGED <<stream, phase, reported, reports>>

(* The upstream has ended the stream; whoever polls again is told again.    *)
PollEnd ==
  /\ phase \in {"open", "closed"} /\ received = Whole
  /\ phase' = "closed"
  /\ reported' = TRUE
  /\ reports' = IF reported THEN reports ELSE reports \o Usage
  /\ UNCHANGED <<stream, received, buf>>

(* The connection fails, and the body with it. *)
PollError ==
  /\ phase = "open"
  /\ phase' = "broken"
  /\ UNCHANGED <<stream, received, buf, reported, reports>>

Next == PollChunk \/ PollEnd \/ PollError

Spec == Init /\ [][Next]_vars

----------------------------------------------------------------------------
(* Every variable stays in its range, and the memory of an open stream is   *)
(* bounded however long it runs.                                            *)
TypeOK ==
  /\ stream \in Streams /\ phase \in {"open", "closed", "broken"}
  /\ received \in 0..Whole
  /\ Len(buf) <= CAP /\ \A k \in DOMAIN buf : buf[k] \in 1..Whole
  /\ reported \in BOOLEAN
  /\ \A k \in DOMAIN reports : reports[k] \in DOMAIN stream

(* The tail is the end of what was received, in order and without a gap, as *)
(* long as the cap allows, however the bytes were cut into chunks.          *)
TailIsRecent ==
  LET kept == IF received <= CAP THEN received ELSE CAP
  IN buf = [k \in 1..kept |-> (received - kept) + k]

(* "Reports the trailing usage chunk at end-of-stream": once, with the last *)
(* counts that were sent and never with older ones, exactly when these and  *)
(* what follows them fit the cap; and not at all for a stream that broke.   *)
UsageIfItFits ==
  LET sent == {i \in DOMAIN stream : stream[i].usage}
      last == CHOOSE i \in sent : \A j \in sent : j <= i
  IN reports = IF phase = "closed" /\ sent # {} /\ Whole - Upto(last - 1) <= CAP
               THEN <<last>> ELSE <<>>
=============================================================================
