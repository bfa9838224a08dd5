-------------------------- MODULE UsageTailProofs --------------------------
(***************************************************************************)
(* What is proved of the tail of a stream and of the usage report, for any *)
(* cap, any lines and any way to cut them into chunks.                     *)
(***************************************************************************)
EXTENDS UsageTail, DataLemmas

(* The invariant: with the tail, what has been told of the end. *)
Inv ==
  /\ stream \in Streams /\ phase \in {"open", "closed", "broken"}
  /\ received \in 0..Whole
  /\ reported \in BOOLEAN /\ (reported <=> phase = "closed")
  /\ phase = "closed" => received = Whole
  /\ TailIsRecent
  /\ UsageIfItFits

----------------------------------------------------------------------------
(* Where the lines of a stream are. *)
LEMMA Positions ==
  ASSUME stream \in Streams
  PROVE  /\ Len(stream) \in Nat /\ DOMAIN stream = 1..Len(stream)
         /\ Whole = Upto(Len(stream)) /\ Upto(0) = 0
         /\ \A i \in 0..Len(stream) : Upto(i) \in Nat
         /\ \A i \in 1..Len(stream) : /\ stream[i].size \in Nat \ {0}
                                      /\ Upto(i) = Upto(i - 1) + stream[i].size
         /\ \A j \in 0..Len(stream) : \A i \in 0..j : Upto(i) <= Upto(j)
<1> DEFINE sizes(i) == [j \in 1..i |-> stream[j].size]
<1>1. stream \in Seq(Line) /\ Len(stream) \in Nat /\ DOMAIN stream = 1..Len(stream)
  BY UsageTailAssumption
<1>2. \A i \in 1..Len(stream) : stream[i].size \in Nat \ {0} /\ stream[i].size \in Nat
  <2>1. \A i \in 1..Len(stream) : stream[i] \in Line
    BY <1>1
  <2> QED
    BY <2>1 DEF Line
<1>3. \A i \in 0..Len(stream) : sizes(i) \in Seq(Nat) /\ Len(sizes(i)) = i
  <2> SUFFICES ASSUME NEW i \in 0..Len(stream)
               PROVE  sizes(i) \in Seq(Nat) /\ Len(sizes(i)) = i
    OBVIOUS
  <2>1. i \in Nat /\ \A j \in 1..i : j \in 1..Len(stream)
    BY <1>1
  <2>2. sizes(i) \in [1..i -> Nat]
    BY <1>2, <2>1
  <2> QED
    BY <2>1, <2>2, SeqDef
<1>4. \A i \in 0..Len(stream) : Upto(i) = Total(sizes(i))
  BY DEF Upto
<1>5. \A i \in 0..Len(stream) : Upto(i) \in Nat
  BY <1>3, <1>4, TotalNat
<1>6. Upto(0) = 0
  <2>1. 0 \in 0..Len(stream)
    BY <1>1
  <2>2. sizes(0) \in Seq(Nat) /\ Len(sizes(0)) = 0
    BY <1>3, <2>1
  <2>3. sizes(0) = <<>>
    BY <2>2, EmptySeq
  <2> QED
    BY <1>4, <2>1, <2>2, <2>3, TotalNat
<1>7. ASSUME NEW i \in 1..Len(stream)
      PROVE  Upto(i) = Upto(i - 1) + stream[i].size
  <2>1. i - 1 \in 0..Len(stream) /\ i \in 0..Len(stream) /\ (i - 1) + 1 = i
    BY <1>1
  <2>2. sizes(i) = Append(sizes(i - 1), stream[i].size)
    <3> DEFINE t == Append(sizes(i - 1), stream[i].size)
    <3>1. sizes(i - 1) \in Seq(Nat) /\ Len(sizes(i - 1)) = i - 1 /\ sizes(i) \in Seq(Nat)
          /\ Len(sizes(i)) = i
      BY <1>3, <2>1
    <3>2. \A j \in 1..i : sizes(i)[j] = stream[j].size
      OBVIOUS
    <3>3. \A j \in 1..(i - 1) : sizes(i - 1)[j] = stream[j].size
      OBVIOUS
    <3> HIDE DEF sizes
    <3>4. t \in Seq(Nat) /\ Len(t) = i /\ t[i] = stream[i].size
          /\ \A j \in 1..(i - 1) : t[j] = sizes(i - 1)[j]
      BY <1>2, <2>1, <3>1
    <3>5. \A j \in 1..i : sizes(i)[j] = t[j]
      BY <2>1, <3>2, <3>3, <3>4
    <3> HIDE DEF t
    <3>6. sizes(i) = t
      BY <3>1, <3>4, <3>5, SeqEqual
    <3> QED
      BY <3>6 DEF t
  <2>3. Total(sizes(i)) = Total(sizes(i - 1)) + stream[i].size
    <3>1. sizes(i - 1) \in Seq(Nat) /\ stream[i].size \in Nat
      BY <1>2, <1>3, <2>1
    <3> HIDE DEF sizes
    <3> QED
      BY <2>2, <3>1, TotalAppend
  <2> QED
    BY <1>4, <2>1, <2>3
<1>8. ASSUME NEW j \in 0..Len(stream), NEW i \in 0..j
      PROVE  Upto(i) <= Upto(j)
  <2>1. i \in 0..Len(stream) /\ i \in Nat /\ i <= j
    BY <1>1
  <2>2. sizes(j) \in Seq(Nat) /\ Len(sizes(j)) = j /\ sizes(i) \in Seq(Nat) /\ Len(sizes(i)) = i
    BY <1>3, <2>1
  <2>3. sizes(i) = SubSeq(sizes(j), 1, i)
    <3>1. /\ \A k \in 1..i : sizes(i)[k] = stream[k].size
          /\ \A k \in 1..j : sizes(j)[k] = stream[k].size
      OBVIOUS
    <3> DEFINE t == SubSeq(sizes(j), 1, i)
    <3> HIDE DEF sizes
    <3>2. t \in Seq(Nat) /\ Len(t) = i /\ \A k \in 1..i : t[k] = sizes(j)[k]
      BY <2>1, <2>2
    <3>3. \A k \in 1..i : sizes(i)[k] = t[k]
      BY <2>1, <3>1, <3>2
    <3> HIDE DEF t
    <3>4. sizes(i) = t
      BY <2>2, <3>2, <3>3, SeqEqual
    <3> QED
      BY <3>4 DEF t
  <2>4. Total(SubSeq(sizes(j), 1, i)) <= Total(sizes(j))
    <3> HIDE DEF sizes
    <3> QED
      BY <2>1, <2>2, TotalOfPrefix
  <2> QED
    BY <1>4, <2>1, <2>3, <2>4
<1> QED
  BY <1>1, <1>2, <1>5, <1>6, <1>7, <1>8 DEF Whole

(* A chunk that goes by leaves in the tail the end of what has come. *)
LEMMA ExtendRecent ==
  ASSUME NEW n \in Nat \ {0}, received \in Nat, TailIsRecent,
         NEW tail, tail = Extend(buf, [k \in 1..n |-> received + k])
  PROVE  LET all == received + n
             kept == IF all <= CAP THEN all ELSE CAP
         IN tail = [k \in 1..kept |-> (all - kept) + k]
<1> DEFINE chunk == [k \in 1..n |-> received + k]
           had == IF received <= CAP THEN received ELSE CAP
           all == received + n
           kept == IF all <= CAP THEN all ELSE CAP
<1>1. CAP \in Nat \ {0} /\ n \in Nat \ {0} /\ received \in Nat
  BY UsageTailAssumption
<1>2. chunk \in Seq(Nat) /\ Len(chunk) = n /\ \A k \in 1..n : chunk[k] = received + k
  <2>1. chunk \in [1..n -> Nat]
    BY <1>1
  <2> QED
    BY <1>1, <2>1, SeqDef
<1>3. had \in Nat /\ had <= received /\ had <= CAP
  BY <1>1
<1>4. buf = [k \in 1..had |-> (received - had) + k]
  BY DEF TailIsRecent
<1>5. buf \in Seq(Nat) /\ Len(buf) = had /\ \A k \in 1..had : buf[k] = (received - had) + k
  <2>1. buf \in [1..had -> Nat]
    BY <1>1, <1>3, <1>4
  <2> HIDE DEF had
  <2> QED
    BY <1>3, <1>4, <2>1, SeqDef
<1> DEFINE aim == [k \in 1..kept |-> (all - kept) + k]
<1>6. kept \in Nat /\ kept <= all /\ all \in Nat
  BY <1>1
<1>7. aim \in Seq(Nat) /\ Len(aim) = kept /\ \A k \in 1..kept : aim[k] = (all - kept) + k
  <2> HIDE DEF kept, all
  <2>1. \A k \in 1..kept : (all - kept) + k \in Nat
    BY <1>6
  <2>2. aim \in [1..kept -> Nat]
    BY <2>1
  <2> QED
    BY <1>6, <2>2, SeqDef
<1>8. CASE n >= CAP
  <2>1. tail = SubSeq(chunk, n - CAP + 1, n)
    BY <1>2, <1>8 DEF Extend
  <2>2. kept = CAP
    BY <1>1, <1>8
  <2> HIDE DEF chunk, aim, kept, had
  <2>3. tail \in Seq(Nat) /\ Len(tail) = CAP /\ \A k \in 1..CAP : tail[k] = chunk[(n - CAP) + k]
    <3>1. n - CAP + 1 \in 1..(n + 1) /\ n \in 0..Len(chunk) /\ n - (n - CAP + 1) + 1 = CAP
      BY <1>1, <1>2, <1>8
    <3>2. n - CAP + 1 \in Int /\ n \in Int /\ n - CAP + 1 <= n
          /\ \A k \in (n - CAP + 1)..n : chunk[k] \in Nat
      BY <1>1, <1>2, <1>8
    <3>3. /\ tail \in Seq(Nat) /\ Len(tail) = n - (n - CAP + 1) + 1
          /\ \A k \in 1..(n - (n - CAP + 1) + 1) : tail[k] = chunk[(n - CAP + 1) + k - 1]
      <4> DEFINE m == n - CAP + 1
                 part == SubSeq(chunk, m, n)
      <4>1. m \in Int /\ n \in Int /\ m <= n /\ \A k \in m..n : chunk[k] \in Nat
        BY <3>2
      <4> HIDE DEF m
      <4>2. /\ part \in Seq(Nat) /\ Len(part) = IF m <= n THEN n - m + 1 ELSE 0
            /\ \A k \in 1..(n - m + 1) : part[k] = chunk[m + k - 1]
        BY <4>1, SubSeqProperties
      <4>3. tail = part
        BY <2>1 DEF m
      <4> HIDE DEF part
      <4> QED
        BY <4>1, <4>2, <4>3 DEF m
    <3>4. ASSUME NEW k \in 1..CAP
          PROVE  tail[k] = chunk[(n - CAP) + k]
      <4>1. k \in 1..(n - (n - CAP + 1) + 1) /\ (n - CAP + 1) + k - 1 = (n - CAP) + k
        BY <1>1, <3>1
      <4> QED
        BY <3>3, <4>1
    <3> QED
      BY <3>1, <3>3, <3>4
  <2>4. \A k \in 1..CAP : (n - CAP) + k \in 1..n
    BY <1>1, <1>8
  <2>5. \A k \in 1..CAP : tail[k] = aim[k]
    <3>1. \A k \in 1..CAP : tail[k] = received + ((n - CAP) + k)
      BY <1>2, <2>3, <2>4
    <3>2. \A k \in 1..CAP : aim[k] = ((received + n) - CAP) + k
      BY <1>7, <2>2
    <3> QED
      BY <1>1, <3>1, <3>2
  <2>6. tail = aim
    BY <1>7, <2>2, <2>3, <2>5, SeqEqual
  <2> QED
    BY <2>6 DEF aim, kept
<1>9. CASE ~(n >= CAP)
  <2> DEFINE overflow == IF had + n > CAP THEN had + n - CAP ELSE 0
             rest == SubSeq(buf, overflow + 1, had)
  <2>1. tail = rest \o chunk
    BY <1>2, <1>5, <1>9 DEF Extend
  <2>2. overflow \in 0..had /\ (had - overflow) + n = kept /\ (received - had) + overflow = all - kept
    BY <1>1, <1>9
  <2> HIDE DEF chunk, aim, kept, had, overflow
  <2>3. rest \in Seq(Nat) /\ Len(rest) = had - overflow
        /\ \A k \in 1..(had - overflow) : rest[k] = buf[overflow + k]
    <3>1. overflow + 1 \in 1..(had + 1) /\ had - (overflow + 1) + 1 = had - overflow
          /\ had - overflow \in Nat
      BY <1>3, <2>2
    <3>2. overflow + 1 \in Int /\ had \in Int /\ \A k \in (overflow + 1)..had : buf[k] \in Nat
      BY <1>3, <1>5, <2>2
    <3>3. /\ rest \in Seq(Nat) /\ Len(rest) = IF overflow + 1 <= had THEN had - overflow ELSE 0
          /\ \A k \in 1..(had - overflow) : rest[k] = buf[(overflow + 1) + k - 1]
      BY <3>1, <3>2, SubSeqProperties
    <3>4. \A k \in 1..(had - overflow) : (overflow + 1) + k - 1 = overflow + k
      BY <2>2
    <3>5. Len(rest) = had - overflow
      BY <2>2, <1>3, <3>3
    <3> QED
      BY <3>3, <3>4, <3>5
  <2> HIDE DEF rest
  <2>4. /\ tail \in Seq(Nat) /\ Len(tail) = kept
        /\ \A k \in 1..kept : tail[k] = IF k <= had - overflow THEN rest[k] ELSE chunk[k - (had - overflow)]
    <3>1. /\ rest \o chunk \in Seq(Nat) /\ Len(rest \o chunk) = Len(rest) + Len(chunk)
          /\ \A k \in 1..(Len(rest) + Len(chunk)) :
               (rest \o chunk)[k] = IF k <= Len(rest) THEN rest[k] ELSE chunk[k - Len(rest)]
      BY <1>2, <2>3, ConcatProperties
    <3>2. Len(rest) = had - overflow /\ Len(chunk) = n /\ Len(rest) + Len(chunk) = kept
      BY <1>2, <2>2, <2>3
    <3> QED
      BY <2>1, <3>1, <3>2
  <2>5. ASSUME NEW k \in 1..kept
        PROVE  tail[k] = aim[k]
    <3>1. CASE k <= had - overflow
      <4>1. k \in 1..(had - overflow) /\ overflow + k \in 1..had
        BY <1>3, <2>2, <3>1
      <4>2. tail[k] = rest[k]
        BY <2>4, <3>1
      <4>3. tail[k] = (received - had) + (overflow + k)
        BY <1>5, <2>3, <4>1, <4>2
      <4> QED
        BY <1>1, <1>3, <1>6, <1>7, <2>2, <4>1, <4>3
    <3>2. CASE ~(k <= had - overflow)
      <4>1. k - (had - overflow) \in 1..n /\ k \in (had - overflow + 1)..(had - overflow + n)
        BY <1>1, <1>3, <2>2, <3>2
      <4>2. tail[k] = chunk[k - (had - overflow)]
        BY <2>4, <3>2
      <4>3. tail[k] = received + (k - (had - overflow))
        BY <1>2, <4>1, <4>2
      <4> QED
        BY <1>1, <1>3, <1>6, <1>7, <2>2, <4>1, <4>3
    <3> QED
      BY <3>1, <3>2
  <2>6. tail = aim
    BY <1>7, <2>4, <2>5, SeqEqual
  <2> QED
    BY <2>6 DEF aim, kept
<1> QED
  BY <1>8, <1>9

----------------------------------------------------------------------------
(* The last of some lines. *)
LEMMA LastLine ==
  ASSUME NEW n \in Nat, NEW lines \in SUBSET (1..n), lines # {}
  PROVE  \E i \in lines : \A j \in lines : j <= i
<1> DEFINE above == {n - j : j \in lines}
<1>1. above \in SUBSET Nat /\ above # {}
  <2>1. \A j \in lines : j \in 1..n
    OBVIOUS
  <2>2. \A j \in 1..n : n - j \in Nat
    OBVIOUS
  <2>3. \A j \in lines : n - j \in Nat
    BY <2>1, <2>2
  <2> QED
    BY <2>3
<1>2. PICK x \in above : \A y \in above : x <= y
  <2> HIDE DEF above
  <2> QED
    BY <1>1, LeastNat
<1>3. PICK i \in lines : x = n - i
  BY <1>2
<1>4. ASSUME NEW j \in lines
      PROVE  j <= i
  <2>1. n - i <= n - j
    BY <1>2, <1>3
  <2> QED
    BY <2>1
<1> QED
  BY <1>4

(* At the end of a stream a line is found if it, and what follows it, fit.  *)
LEMMA FoundIfItFits ==
  ASSUME stream \in Streams, TailIsRecent, received = Whole, NEW i \in DOMAIN stream
  PROVE  Found(i) <=> Whole - Upto(i - 1) <= CAP
<1> DEFINE kept == IF Whole <= CAP THEN Whole ELSE CAP
           begin == Upto(i - 1)
           size == stream[i].size
           line == Bytes(i)
<1>1. /\ CAP \in Nat \ {0} /\ Len(stream) \in Nat /\ i \in 1..Len(stream)
      /\ Whole \in Nat /\ begin \in Nat /\ size \in Nat \ {0}
      /\ begin + size <= Whole /\ Upto(0) = 0
  <2>1. i \in 1..Len(stream) /\ Len(stream) \in Nat
    BY Positions
  <2>2. i - 1 \in 0..Len(stream) /\ i \in 0..Len(stream) /\ Len(stream) \in 0..Len(stream)
    BY <2>1
  <2>3. Upto(i) = Upto(i - 1) + stream[i].size /\ Upto(i) <= Upto(Len(stream))
    BY <2>1, <2>2, Positions
  <2> QED
    BY <2>1, <2>2, <2>3, Positions, UsageTailAssumption
<1>2. kept \in Nat /\ kept <= Whole /\ kept <= CAP /\ (kept # CAP => kept = Whole)
  BY <1>1
<1>3. buf = [k \in 1..kept |-> (Whole - kept) + k]
  BY DEF TailIsRecent
<1> HIDE DEF kept, begin, size
<1>4. buf \in Seq(Nat) /\ Len(buf) = kept /\ \A k \in 1..kept : buf[k] = (Whole - kept) + k
  <2>1. \A k \in 1..kept : (Whole - kept) + k \in Nat
    BY <1>1, <1>2
  <2>2. buf \in [1..kept -> Nat]
    BY <1>3, <2>1
  <2> QED
    BY <1>2, <1>3, <2>2, SeqDef
<1>5. line \in Seq(Nat) /\ Len(line) = size /\ \A k \in 1..size : line[k] = begin + k
  <2>1. line = [k \in 1..size |-> begin + k]
    BY DEF Bytes, size, begin
  <2>2. line \in [1..size -> Nat]
    BY <1>1, <2>1
  <2> QED
    BY <1>1, <2>1, <2>2, SeqDef
<1> HIDE DEF line
<1>6. ASSUME NEW start \in 0..(kept - size)
      PROVE  LET piece == SubSeq(buf, start + 1, start + size)
             IN /\ piece \in Seq(Nat) /\ Len(piece) = size
                /\ \A k \in 1..size : piece[k] = (Whole - kept) + (start + k)
  <2> DEFINE piece == SubSeq(buf, start + 1, start + size)
  <2>1. start + 1 \in Int /\ start + size \in Int /\ start + 1 <= start + size
        /\ (start + size) - (start + 1) + 1 = size
        /\ \A k \in (start + 1)..(start + size) : buf[k] \in Nat
    BY <1>1, <1>2, <1>4
  <2>2. /\ piece \in Seq(Nat) /\ Len(piece) = (start + size) - (start + 1) + 1
        /\ \A k \in 1..((start + size) - (start + 1) + 1) : piece[k] = buf[(start + 1) + k - 1]
    BY <2>1, SubSeqProperties
  <2> HIDE DEF piece
  <2>3. ASSUME NEW k \in 1..size
        PROVE  piece[k] = (Whole - kept) + (start + k)
    <3>1. (start + 1) + k - 1 = start + k /\ start + k \in 1..kept
      BY <1>1, <1>2
    <3>2. piece[k] = buf[(start + 1) + k - 1]
      BY <2>1, <2>2
    <3>3. buf[start + k] = (Whole - kept) + (start + k)
      BY <1>4, <3>1
    <3> QED
      BY <3>1, <3>2, <3>3
  <2> QED
    BY <2>1, <2>2, <2>3 DEF piece
<1>7. ASSUME Found(i)
      PROVE  Whole - begin <= CAP
  <2>1. PICK start \in 0..(kept - size) : SubSeq(buf, start + 1, start + size) = line
    BY <1>4, <1>7 DEF Found, line, size
  <2>2. 1 \in 1..size
    BY <1>1
  <2>3. line[1] = (Whole - kept) + (start + 1) /\ line[1] = begin + 1
    BY <1>5, <1>6, <2>1, <2>2
  <2> QED
    BY <1>1, <1>2, <2>3
<1>8. ASSUME Whole - begin <= CAP
      PROVE  Found(i)
  <2> DEFINE start == begin - (Whole - kept)
             piece == SubSeq(buf, start + 1, start + size)
  <2>1. start \in 0..(kept - size)
    BY <1>1, <1>2, <1>8
  <2>2. /\ piece \in Seq(Nat) /\ Len(piece) = size
        /\ \A k \in 1..size : piece[k] = (Whole - kept) + (start + k)
    <3> HIDE DEF start
    <3> QED
      BY <1>6, <2>1
  <2> HIDE DEF piece
  <2>3. \A k \in 1..size : piece[k] = line[k]
    BY <1>1, <1>2, <1>5, <2>2
  <2>4. piece = line
    BY <1>5, <2>2, <2>3, SeqEqual
  <2>5. start = 0 \/ \E j \in DOMAIN stream : buf[start] = Upto(j)
    <3> SUFFICES ASSUME start # 0
                 PROVE  \E j \in DOMAIN stream : buf[start] = Upto(j)
      OBVIOUS
    <3>1. start \in 1..kept /\ (Whole - kept) + start = begin
      BY <1>1, <1>2, <2>1
    <3>2. begin # 0
      BY <1>1, <1>2, <3>1
    <3>3. i # 1
      BY <1>1, <3>2 DEF begin
    <3>4. i - 1 \in DOMAIN stream
      BY <1>1, <3>3, Positions
    <3> HIDE DEF start
    <3>5. buf[start] = begin
      BY <1>4, <3>1
    <3> QED
      BY <3>4, <3>5 DEF begin
  <2> HIDE DEF start
  <2> QED
    BY <1>4, <2>1, <2>4, <2>5 DEF Found, piece, line, size
<1> QED
  BY <1>7, <1>8 DEF begin

(* At the end of a stream the last counts are found if they fit, and none   *)
(* otherwise.                                                               *)
LEMMA UsageAtEnd ==
  ASSUME stream \in Streams, TailIsRecent, received = Whole
  PROVE  LET sent == {i \in DOMAIN stream : stream[i].usage}
             last == CHOOSE i \in sent : \A j \in sent : j <= i
         IN Usage = IF sent # {} /\ Whole - Upto(last - 1) <= CAP THEN <<last>> ELSE <<>>
<1> DEFINE sent == {i \in DOMAIN stream : stream[i].usage}
           last == CHOOSE i \in sent : \A j \in sent : j <= i
<1>1. Len(stream) \in Nat /\ DOMAIN stream = 1..Len(stream) /\ CAP \in Nat /\ Whole \in Nat
  <2>1. Len(stream) \in 0..Len(stream) /\ Len(stream) \in Nat
    BY Positions
  <2> QED
    BY <2>1, Positions, UsageTailAssumption
<1>2. Counted = {i \in sent : Whole - Upto(i - 1) <= CAP}
  BY FoundIfItFits DEF Counted
<1>3. CASE sent = {}
  BY <1>2, <1>3 DEF Usage
<1>4. CASE sent # {}
  <2>1. last \in sent /\ \A j \in sent : j <= last
    <3>1. \E i \in sent : \A j \in sent : j <= i
      <4>1. sent \in SUBSET (1..Len(stream))
        BY <1>1
      <4> HIDE DEF sent
      <4> QED
        BY <1>1, <1>4, <4>1, LastLine
    <3> HIDE DEF sent
    <3> QED
      BY <3>1
  <2>2. sent \subseteq 1..Len(stream)
    BY <1>1
  <2> HIDE DEF last, sent
  <2>3. CASE Whole - Upto(last - 1) <= CAP
    <3>1. last \in Counted /\ \A j \in Counted : j <= last
      BY <1>2, <2>1, <2>3
    <3>2. \A i \in Counted : (\A j \in Counted : j <= i) => i = last
      BY <1>1, <1>2, <2>1, <2>2, <3>1
    <3>3. (CHOOSE i \in Counted : \A j \in Counted : j <= i) = last
      BY <3>1, <3>2
    <3> QED
      BY <1>4, <2>3, <3>1, <3>3 DEF Usage, last, sent
  <2>4. CASE ~(Whole - Upto(last - 1) <= CAP)
    <3>1. ASSUME NEW i \in sent
          PROVE  ~(Whole - Upto(i - 1) <= CAP)
      <4>1. i \in 1..Len(stream) /\ last \in 1..Len(stream) /\ i <= last
        BY <2>1, <2>2
      <4>2. last - 1 \in 0..Len(stream) /\ i - 1 \in 0..(last - 1) /\ i - 1 \in 0..Len(stream)
        BY <1>1, <4>1
      <4>3. Upto(i - 1) <= Upto(last - 1) /\ Upto(i - 1) \in Nat /\ Upto(last - 1) \in Nat
        BY <4>2, Positions
      <4> QED
        BY <1>1, <2>4, <4>3
    <3>2. Counted = {}
      BY <1>2, <3>1
    <3> QED
      BY <2>4, <3>2 DEF Usage, last, sent
  <2> QED
    BY <2>3, <2>4
<1> QED
  BY <1>3, <1>4

----------------------------------------------------------------------------
(* Nothing has come yet. *)
LEMMA InitInv == Init => Inv
<1> SUFFICES ASSUME Init
             PROVE  Inv
  OBVIOUS
<1> USE DEF Init
<1>1. Whole \in Nat
  <2>1. Len(stream) \in 0..Len(stream)
    BY Positions
  <2> QED
    BY <2>1, Positions
<1>2. TailIsRecent
  <2>1. (IF received <= CAP THEN received ELSE CAP) = 0
    BY UsageTailAssumption
  <2>2. [k \in 1..0 |-> (received - 0) + k] = <<>>
    OBVIOUS
  <2> QED
    BY <2>1, <2>2 DEF TailIsRecent
<1>3. UsageIfItFits
  BY DEF UsageIfItFits
<1>4. 0 \in 0..Whole
  BY <1>1
<1> QED
  BY <1>2, <1>3, <1>4 DEF Inv

(* A step of the stream keeps all of it. *)
LEMMA StepInv == Inv /\ [Next]_vars => Inv'
<1> SUFFICES ASSUME Inv, [Next]_vars
             PROVE  Inv'
  OBVIOUS
<1> USE DEF Inv
<1>1. ASSUME UNCHANGED stream
      PROVE  /\ Whole' = Whole /\ \A i : Upto(i)' = Upto(i)
  BY <1>1 DEF Whole, Upto
<1>2. CASE PollChunk
  <2>1. PICK n \in 1..(Whole - received) :
          /\ buf' = Extend(buf, [k \in 1..n |-> received + k])
          /\ received' = received + n
    BY <1>2 DEF PollChunk
  <2>2. phase = "open" /\ UNCHANGED <<stream, phase, reported, reports>>
    BY <1>2 DEF PollChunk
  <2>3. Whole \in Nat /\ received \in Nat /\ n \in Nat \ {0} /\ received + n \in 0..Whole
    <3>1. Len(stream) \in 0..Len(stream)
      BY Positions
    <3>2. Whole \in Nat
      BY <3>1, Positions
    <3> QED
      BY <3>2
  <2>4. TailIsRecent'
    BY <2>1, <2>3, ExtendRecent DEF TailIsRecent
  <2>5. UsageIfItFits'
    BY <2>2 DEF UsageIfItFits
  <2> QED
    BY <1>1, <2>1, <2>2, <2>3, <2>4, <2>5
<1>3. CASE PollEnd
  <2>1. /\ phase \in {"open", "closed"} /\ received = Whole /\ phase' = "closed" /\ reported' = TRUE
        /\ reports' = IF reported THEN reports ELSE reports \o Usage
        /\ UNCHANGED <<stream, received, buf>>
    BY <1>3 DEF PollEnd
  <2>2. TailIsRecent' /\ Whole' = Whole
    BY <1>1, <2>1 DEF TailIsRecent
  <2>3. UsageIfItFits'
    <3> DEFINE sent == {i \in DOMAIN stream : stream[i].usage}
               last == CHOOSE i \in sent : \A j \in sent : j <= i
               due == IF sent # {} /\ Whole - Upto(last - 1) <= CAP THEN <<last>> ELSE <<>>
    <3>1. Usage = due
      BY <2>1, UsageAtEnd
    <3>2. reports' = due
      <4>1. CASE reported
        BY <2>1, <4>1 DEF UsageIfItFits
      <4>2. CASE ~reported
        <5>1. reports = <<>>
          BY <4>2 DEF UsageIfItFits
        <5>2. reports' = <<>> \o due
          BY <2>1, <3>1, <4>2, <5>1
        <5>3. <<last>> \in Seq({last}) /\ <<>> \in Seq({last})
          <6> HIDE DEF last
          <6> QED
            OBVIOUS
        <5>4. due = <<last>> \/ due = <<>>
          OBVIOUS
        <5> HIDE DEF due, last
        <5> QED
          BY <5>2, <5>3, <5>4, ConcatEmptySeq
      <4> QED
        BY <4>1, <4>2
    <3> QED
      BY <1>1, <2>1, <2>2, <3>2 DEF UsageIfItFits
  <2> QED
    BY <2>1, <2>2, <2>3
<1>4. CASE PollError
  <2>1. phase = "open" /\ phase' = "broken" /\ UNCHANGED <<stream, received, buf, reported, reports>>
    BY <1>4 DEF PollError
  <2> QED
    BY <1>1, <2>1 DEF TailIsRecent, UsageIfItFits
<1>5. CASE UNCHANGED vars
  BY <1>1, <1>5 DEF vars, TailIsRecent, UsageIfItFits
<1> QED
  BY <1>2, <1>3, <1>4, <1>5 DEF Next

LEMMA Invariance == Spec => []Inv
BY InitInv, StepInv, PTL DEF Spec

----------------------------------------------------------------------------
(***************************************************************************)
(* Every variable stays in its range; the tail never exceeds the cap.      *)
(***************************************************************************)
THEOREM TypeCorrect == Spec => []TypeOK
<1>1. ASSUME Inv
      PROVE  TypeOK
  <2> DEFINE kept == IF received <= CAP THEN received ELSE CAP
  <2>1. /\ CAP \in Nat /\ Len(stream) \in Nat /\ Whole \in Nat
        /\ received \in 0..Whole /\ DOMAIN stream = 1..Len(stream)
    <3>1. Len(stream) \in 0..Len(stream) /\ stream \in Streams
      BY <1>1, Positions DEF Inv
    <3> QED
      BY <1>1, <3>1, Positions, UsageTailAssumption DEF Inv
  <2>2. buf = [k \in 1..kept |-> (received - kept) + k]
    BY <1>1 DEF Inv, TailIsRecent
  <2>3. kept \in Nat /\ kept <= CAP /\ kept <= received
    BY <2>1
  <2> HIDE DEF kept
  <2>4. Len(buf) = kept /\ \A k \in DOMAIN buf : buf[k] \in 1..Whole
    <3>1. \A k \in 1..kept : (received - kept) + k \in 1..Whole
      BY <2>1, <2>3
    <3>2. DOMAIN buf = 1..kept /\ buf \in Seq(1..Whole)
      BY <2>2, <2>3, <3>1, SeqDef
    <3> QED
      BY <2>2, <2>3, <3>1, <3>2
  <2>5. \A k \in DOMAIN reports : reports[k] \in DOMAIN stream
    <3> DEFINE sent == {i \in DOMAIN stream : stream[i].usage}
               last == CHOOSE i \in sent : \A j \in sent : j <= i
    <3>1. sent # {} => last \in sent
      <4>1. sent # {} => \E i \in sent : \A j \in sent : j <= i
        <5>1. sent \in SUBSET (1..Len(stream))
          BY <2>1
        <5> HIDE DEF sent
        <5> QED
          BY <2>1, <5>1, LastLine
      <4> HIDE DEF sent
      <4> QED
        BY <4>1
    <3>2. reports = <<>> \/ (sent # {} /\ reports = <<last>>)
      BY <1>1 DEF Inv, UsageIfItFits
    <3>3. sent \subseteq DOMAIN stream
      OBVIOUS
    <3> HIDE DEF sent, last
    <3> QED
      BY <3>1, <3>2, <3>3
  <2> QED
    BY <1>1, <2>1, <2>3, <2>4, <2>5 DEF Inv, TypeOK
<1> QED
  BY <1>1, Invariance, PTL

(***************************************************************************)
(* The tail is the end of what was received, for any chunking.             *)
(***************************************************************************)
THEOREM TailAlwaysRecent == Spec => []TailIsRecent
<1>1. Inv => TailIsRecent
  BY DEF Inv
<1> QED
  BY <1>1, Invariance, PTL

(***************************************************************************)
(* The last counts of a stream are reported once, exactly when they and    *)
(* what follows them fit the cap.                                          *)
(***************************************************************************)
THEOREM UsageAlwaysIfItFits == Spec => []UsageIfItFits
<1>1. Inv => UsageIfItFits
  BY DEF Inv
<1> QED
  BY <1>1, Invariance, PTL
=============================================================================
