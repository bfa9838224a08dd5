---------------------------- MODULE LadderProofs ----------------------------
(***************************************************************************)
(* What is proved of the capacity ladder, the classification window and    *)
(* what is made of it, for every roster, conversation and answer.          *)
(***************************************************************************)
EXTENDS Classify, DataLemmas

Piece == [turn : 1..Len(talk), chars : Nat \ {0}]

(* The parts of the invariant.  A roster that was accepted is in order.     *)
InOrder(ladder) ==
  /\ ladder # <<>>
  /\ \A i, j \in DOMAIN ladder : i < j => ladder[i].context <= ladder[j].context
  /\ \A i, j \in DOMAIN ladder : i <= j => ladder[i].turn <= ladder[j].turn

RosterInv ==
  /\ phase \in {"walk", "done"} => InOrder(rungs) /\ used <= Budget
  /\ phase = "boot" => used = 0 /\ taken = <<>>
  /\ phase # "done" => engine = 0
  /\ phase = "done" => engine = SelectRung(WindowChars)

(* The pieces are of the substantive turns passed, newest first, each of    *)
(* them; one that was cut is the last and filled the budget.                *)
PiecesInv ==
  /\ \A i \in DOMAIN taken : taken[i].turn > at /\ Substantive(talk[taken[i].turn])
  /\ \A i, j \in DOMAIN taken : i < j => taken[i].turn > taken[j].turn
  /\ \A i \in DOMAIN taken : taken[i].chars # talk[taken[i].turn].chars =>
                               i = Len(taken) /\ used >= Budget
  /\ \A j \in DOMAIN talk : j > at /\ Substantive(talk[j]) =>
                              \E i \in DOMAIN taken : taken[i].turn = j

Exhausted == phase = "done" => at = 0 \/ used >= Budget

(* What is counted is what was taken, and there is no empty piece. *)
Lengths(pieces) == [i \in DOMAIN pieces |-> pieces[i].chars]
SumInv == used = Total(Lengths(taken)) /\ Len(taken) <= used

Inv == TypeOK /\ RosterInv /\ PiecesInv /\ Exhausted /\ SumInv

----------------------------------------------------------------------------
(* A rung and its position. *)
LEMMA EntryOfRoster ==
  ASSUME NEW ladder \in Seq(Rung), NEW i \in DOMAIN ladder
  PROVE  i \in Nat /\ ladder[i].context \in Nat /\ ladder[i].turn \in Nat
<1>1. i \in 1..Len(ladder) /\ ladder[i] \in Rung
  OBVIOUS
<1> QED
  BY <1>1 DEF Rung

(* Neighbours that do not shrink make a sequence that does not shrink.      *)
LEMMA NeighboursSuffice ==
  ASSUME NEW ladder \in Seq(Rung),
         \A i \in 1..(Len(ladder) - 1) : ladder[i].turn <= ladder[i + 1].turn,
         NEW i \in DOMAIN ladder, NEW j \in DOMAIN ladder, i <= j
  PROVE  ladder[i].turn <= ladder[j].turn
<1> DEFINE wrong == {k \in DOMAIN ladder : i <= k /\ ~(ladder[i].turn <= ladder[k].turn)}
<1>1. \A k \in DOMAIN ladder : k \in Nat /\ ladder[k].turn \in Nat
  BY EntryOfRoster
<1>2. SUFFICES ASSUME wrong # {}
               PROVE  FALSE
  OBVIOUS
<1>3. PICK k \in wrong : \A l \in wrong : k <= l
  <2>1. wrong \in SUBSET Nat
    BY <1>1
  <2> HIDE DEF wrong
  <2> QED
    BY <1>2, <2>1, LeastNat
<1>4. k # i
  BY <1>1, <1>3
<1>5. k - 1 \in 1..(Len(ladder) - 1) /\ i <= k - 1
  BY <1>3, <1>4
<1>6. k - 1 \notin wrong
  BY <1>1, <1>3
<1>7. ladder[k - 1].turn <= ladder[k].turn
  <2>1. (k - 1) + 1 = k
    BY <1>1, <1>3
  <2> QED
    BY <1>5, <2>1
<1> QED
  BY <1>1, <1>3, <1>5, <1>6, <1>7

(* What sorting and validating make of a roster. *)
LEMMA AcceptedInOrder ==
  ASSUME NEW configured \in Seq(Rung), NEW ladder \in ByBudget(configured)
  PROVE  /\ ladder \in Seq(Rung)
         /\ Accepted(ladder) => InOrder(ladder)
<1>1. PICK p \in Bijection(DOMAIN configured, DOMAIN configured) :
        ladder = [i \in DOMAIN configured |-> configured[p[i]]]
  BY DEF ByBudget
<1>2. p \in [DOMAIN configured -> DOMAIN configured]
  BY DEF Bijection, Injection
<1>3. ladder \in Seq(Rung)
  <2>1. ladder \in [1..Len(configured) -> Rung] /\ Len(configured) \in Nat
    BY <1>1, <1>2
  <2> QED
    BY <2>1, SeqDef
<1>4. \A i, j \in DOMAIN ladder : i < j => ladder[i].context <= ladder[j].context
  BY DEF ByBudget
<1>5. ASSUME Accepted(ladder)
      PROVE  InOrder(ladder)
  <2>1. ladder # <<>> /\ \A i \in 1..(Len(ladder) - 1) : ladder[i].turn <= ladder[i + 1].turn
    BY <1>5 DEF Accepted
  <2>2. \A i, j \in DOMAIN ladder : i <= j => ladder[i].turn <= ladder[j].turn
    BY <1>3, <2>1, NeighboursSuffice
  <2> QED
    BY <1>4, <2>1, <2>2 DEF InOrder
<1> QED
  BY <1>3, <1>5

(* The rung that is selected: every lower one is too small. *)
LEMMA SelectedRung ==
  ASSUME rungs \in Seq(Rung), rungs # <<>>, NEW chars \in Nat
  PROVE  /\ SelectRung(chars) \in DOMAIN rungs
         /\ \A i \in 1..(SelectRung(chars) - 1) : rungs[i].context < chars
         /\ (\E i \in DOMAIN rungs : rungs[i].context >= chars) =>
              rungs[SelectRung(chars)].context >= chars
<1> DEFINE covering == {i \in DOMAIN rungs : rungs[i].context >= chars}
<1>1. /\ Len(rungs) \in DOMAIN rungs
      /\ \A i \in DOMAIN rungs : i \in Nat /\ rungs[i].context \in Nat
  <2>1. Len(rungs) \in Nat \ {0} /\ DOMAIN rungs = 1..Len(rungs)
    BY EmptySeq
  <2> QED
    BY <2>1, EntryOfRoster
<1>2. CASE covering = {}
  <2>1. SelectRung(chars) = Len(rungs)
    BY <1>2 DEF SelectRung, Top
  <2> QED
    BY <1>1, <1>2, <2>1
<1>3. CASE covering # {}
  <2>1. covering \in SUBSET Nat
    BY <1>1
  <2>2. PICK e \in covering : \A j \in covering : e <= j
    <3> HIDE DEF covering
    <3> QED
      BY <1>3, <2>1, LeastNat
  <2>3. /\ SelectRung(chars) \in covering
        /\ \A j \in covering : SelectRung(chars) <= j
    BY <1>3, <2>2 DEF SelectRung
  <2> QED
    BY <1>1, <2>3
<1> QED
  BY <1>2, <1>3

----------------------------------------------------------------------------
(* The characters of no piece ... *)
LEMMA NothingTaken == Total(Lengths(<<>>)) = 0 /\ Len(<<>>) = 0
<1>1. Lengths(<<>>) = <<>> /\ Lengths(<<>>) \in Seq(Nat)
  BY DEF Lengths
<1> QED
  BY <1>1, TotalNat

(* ... and of one more. *)
LEMMA OneMoreTaken ==
  ASSUME NEW pieces \in Seq(Piece), NEW piece \in Piece
  PROVE  Total(Lengths(Append(pieces, piece))) = Total(Lengths(pieces)) + piece.chars
<1> DEFINE more == Append(pieces, piece)
<1>1. /\ more \in Seq(Piece) /\ Len(pieces) \in Nat /\ Len(more) = Len(pieces) + 1
      /\ DOMAIN pieces = 1..Len(pieces) /\ DOMAIN more = 1..(Len(pieces) + 1)
      /\ \A i \in 1..Len(pieces) : more[i] = pieces[i]
      /\ more[Len(pieces) + 1] = piece
  BY AppendProperties
<1>2. piece.chars \in Nat /\ \A i \in DOMAIN pieces : pieces[i].chars \in Nat
  <2>1. \A p \in Piece : p.chars \in Nat
    BY DEF Piece
  <2>2. \A i \in DOMAIN pieces : pieces[i] \in Piece
    BY <1>1
  <2> QED
    BY <2>1, <2>2
<1> HIDE DEF more
<1>3. Lengths(pieces) \in Seq(Nat) /\ Len(Lengths(pieces)) = Len(pieces)
  BY <1>1, <1>2 DEF Lengths
<1>4. Lengths(more) = Append(Lengths(pieces), piece.chars)
  <2>1. Lengths(more) \in Seq(Nat) /\ Len(Lengths(more)) = Len(pieces) + 1
    BY <1>1, <1>2 DEF Lengths
  <2>2. Append(Lengths(pieces), piece.chars) \in Seq(Nat)
        /\ Len(Append(Lengths(pieces), piece.chars)) = Len(pieces) + 1
    BY <1>2, <1>3
  <2>3. \A i \in 1..(Len(pieces) + 1) : Lengths(more)[i] = Append(Lengths(pieces), piece.chars)[i]
    <3>1. \A i \in 1..Len(pieces) : Lengths(more)[i] = Lengths(pieces)[i]
      BY <1>1 DEF Lengths
    <3>2. Lengths(more)[Len(pieces) + 1] = piece.chars
      BY <1>1 DEF Lengths
    <3> QED
      BY <1>1, <1>2, <1>3, <3>1, <3>2
  <2> QED
    BY <2>1, <2>2, <2>3, SeqEqual
<1> QED
  BY <1>2, <1>3, <1>4, TotalAppend DEF more

(* Before the roster is made the invariant holds.                           *)
LEMMA InitInv == Init => Inv
<1> SUFFICES ASSUME Init
             PROVE  Inv
  OBVIOUS
<1>1. rungs \in Seq(Rung) /\ talk \in Seq(Message)
  BY LadderAssumption DEF Init
<1>2. Len(talk) \in Nat /\ DOMAIN talk = 1..Len(talk) /\ Len(rungs) \in Nat
  BY <1>1
<1>3. TypeOK
  BY <1>1, <1>2 DEF Init, TypeOK
<1>4. RosterInv
  BY DEF Init, RosterInv
<1>5. PiecesInv
  BY <1>2 DEF Init, PiecesInv
<1>6. SumInv
  BY NothingTaken DEF Init, SumInv
<1> QED
  BY <1>3, <1>4, <1>5, <1>6 DEF Init, Inv, Exhausted

(* The roster is sorted, and accepted or refused. *)
LEMMA BootInv == Inv /\ Boot => Inv'
<1> SUFFICES ASSUME Inv, Boot
             PROVE  Inv'
  OBVIOUS
<1> USE DEF Inv, Boot
<1>1. PICK ladder \in ByBudget(rungs) :
        \/ Accepted(ladder) /\ rungs' = ladder /\ phase' = "walk"
        \/ ~Accepted(ladder) /\ rungs' = <<>> /\ phase' = "refused"
  OBVIOUS
<1>2. ladder \in Seq(Rung) /\ (Accepted(ladder) => InOrder(ladder))
  BY AcceptedInOrder DEF TypeOK
<1>3. UNCHANGED <<talk, at, taken, used, engine>> /\ phase = "boot"
  OBVIOUS
<1>4. engine = 0 /\ used = 0 /\ taken = <<>>
  BY <1>3 DEF RosterInv
<1>5. rungs' \in Seq(Rung) /\ Len(rungs') \in Nat
  BY <1>1, <1>2, EmptySeq
<1>6. TypeOK'
  BY <1>1, <1>3, <1>4, <1>5 DEF TypeOK
<1>7. phase' = "walk" => InOrder(rungs') /\ used' <= Budget'
  <2> SUFFICES ASSUME phase' = "walk"
               PROVE  InOrder(rungs') /\ used' <= Budget'
    OBVIOUS
  <2>1. InOrder(rungs') /\ rungs' # <<>>
    BY <1>1, <1>2 DEF InOrder
  <2>2. Len(rungs') \in DOMAIN rungs'
    BY <1>5, <2>1, EmptySeq
  <2>3. Budget' \in Nat
    BY <1>5, <2>2, EntryOfRoster DEF Budget, Top
  <2> QED
    BY <1>3, <1>4, <2>1, <2>3
<1>8. RosterInv'
  BY <1>1, <1>3, <1>4, <1>7 DEF RosterInv
<1>9. PiecesInv'
  <2>1. DOMAIN taken = {} /\ DOMAIN taken' = {}
    BY <1>3, <1>4, EmptySeq
  <2>2. PiecesInv
    OBVIOUS
  <2> QED
    BY <1>3, <2>1, <2>2 DEF PiecesInv, Substantive
<1>10. SumInv'
  BY <1>3 DEF SumInv
<1> QED
  BY <1>1, <1>6, <1>8, <1>9, <1>10 DEF Exhausted

(* A message without a turn to take is passed. *)
LEMMA SkipInv == Inv /\ Skip => Inv'
<1> SUFFICES ASSUME Inv, Skip
             PROVE  Inv'
  OBVIOUS
<1> USE DEF Inv, Skip
<1>1. /\ phase = "walk" /\ at > 0 /\ ~Substantive(talk[at]) /\ at' = at - 1
      /\ UNCHANGED <<rungs, talk, phase, taken, used, engine>>
  BY DEF Walking
<1>2. at \in 0..Len(talk) /\ Len(talk) \in Nat
  BY DEF TypeOK
<1>3. TypeOK'
  BY <1>1, <1>2 DEF TypeOK
<1>4. RosterInv'
  BY <1>1 DEF RosterInv, Budget, Top, WindowChars, SelectRung
<1>5. PiecesInv'
  <2>1. taken \in Seq(Piece) /\ talk \in Seq(Message) /\ PiecesInv
    BY DEF TypeOK, Piece
  <2>2. ASSUME NEW i \in DOMAIN taken
        PROVE  taken[i].turn > at' /\ Substantive(talk'[taken[i].turn])
    <3>1. taken[i] \in Piece
      BY <2>1
    <3>2. taken[i].turn \in Nat
      BY <1>2, <3>1 DEF Piece
    <3> QED
      BY <1>1, <1>2, <2>1, <3>2 DEF PiecesInv, Substantive
  <2>3. ASSUME NEW j \in DOMAIN talk', j > at', Substantive(talk'[j])
        PROVE  \E i \in DOMAIN taken' : taken'[i].turn = j
    <3>1. j \in Nat /\ j \in DOMAIN talk /\ Substantive(talk[j]) /\ j # at
      BY <1>1, <2>1, <2>3 DEF Substantive
    <3>2. j > at
      BY <1>1, <1>2, <2>3, <3>1
    <3> QED
      BY <1>1, <2>1, <3>1, <3>2 DEF PiecesInv
  <2>4. Budget' = Budget
    BY <1>1 DEF Budget, Top
  <2> QED
    BY <1>1, <2>1, <2>2, <2>3, <2>4 DEF PiecesInv
<1>6. SumInv'
  BY <1>1 DEF SumInv
<1> QED
  BY <1>1, <1>3, <1>4, <1>5, <1>6 DEF Exhausted

(* A piece is taken. *)
LEMMA TakeInv == Inv /\ Take => Inv'
<1> SUFFICES ASSUME Inv, Take
             PROVE  Inv'
  OBVIOUS
<1> DEFINE chars == IF talk[at].chars <= Budget - used THEN talk[at].chars ELSE Budget - used
           piece == [turn |-> at, chars |-> chars]
           n == Len(taken)
<1>1. /\ phase = "walk" /\ at > 0 /\ used < Budget /\ Substantive(talk[at])
      /\ taken' = Append(taken, piece) /\ used' = used + chars /\ at' = at - 1
      /\ UNCHANGED <<rungs, talk, phase, engine>>
  BY DEF Take, Walking
<1>2. TypeOK /\ RosterInv /\ PiecesInv
  BY DEF Inv
<1>3. at \in 1..Len(talk) /\ talk[at] \in Message /\ used \in Nat /\ Len(talk) \in Nat
  BY <1>1, <1>2 DEF TypeOK
<1>4. Budget \in Nat /\ InOrder(rungs)
  <2>1. rungs \in Seq(Rung) /\ InOrder(rungs) /\ rungs # <<>>
    BY <1>1, <1>2 DEF TypeOK, RosterInv, InOrder
  <2>2. Len(rungs) \in DOMAIN rungs
    BY <2>1, EmptySeq
  <2> QED
    BY <2>1, <2>2, EntryOfRoster DEF Budget, Top
<1>5. /\ chars \in Nat \ {0} /\ used + chars <= Budget
      /\ chars # talk[at].chars => used + chars = Budget
  <2>1. talk[at].chars \in Nat \ {0}
    BY <1>1, <1>3 DEF Substantive, Message
  <2> QED
    BY <1>1, <1>3, <1>4, <2>1
<1> HIDE DEF chars
<1>6. piece \in Piece
  BY <1>3, <1>5 DEF Piece
<1>7. taken \in Seq(Piece)
  BY <1>2 DEF TypeOK, Piece
<1>8. /\ n \in Nat /\ Len(taken') = n + 1 /\ taken' \in Seq(Piece)
      /\ DOMAIN taken = 1..n /\ DOMAIN taken' = 1..(n + 1)
      /\ \A i \in 1..n : taken'[i] = taken[i]
      /\ taken'[n + 1] = piece
  BY <1>1, <1>6, <1>7, AppendProperties
<1>9. TypeOK'
  <2>1. Piece' = Piece
    BY <1>1 DEF Piece
  <2>2. taken' \in Seq([turn : 1..Len(talk'), chars : Nat \ {0}])
    BY <1>8, <2>1 DEF Piece
  <2>3. used' \in Nat /\ at' \in 0..Len(talk')
    BY <1>1, <1>3, <1>5
  <2> QED
    BY <1>1, <1>2, <2>2, <2>3 DEF TypeOK
<1>10. RosterInv'
  <2>1. Budget' = Budget /\ used' <= Budget
    BY <1>1, <1>5 DEF Budget, Top
  <2> QED
    BY <1>1, <1>2, <2>1 DEF RosterInv
<1>11. PiecesInv'
  <2> HIDE DEF piece, n
  <2>1. \A i \in 1..n : taken[i].turn \in Nat /\ taken[i].turn > at
    <3>1. \A i \in 1..n : taken[i] \in Piece
      BY <1>7, <1>8
    <3>2. \A i \in 1..n : taken[i].turn \in Nat
      BY <1>3, <3>1 DEF Piece
    <3> QED
      BY <1>2, <1>8, <3>2 DEF PiecesInv
  <2>2. piece.turn = at /\ piece.chars = chars
    BY DEF piece
  <2>3. \A i \in DOMAIN taken' : taken'[i].turn > at' /\ Substantive(talk'[taken'[i].turn])
    <3>1. ASSUME NEW i \in 1..n
          PROVE  taken'[i].turn > at' /\ Substantive(talk'[taken'[i].turn])
      <4>1. taken'[i].turn > at'
        BY <1>1, <1>3, <1>8, <2>1
      <4> QED
        BY <1>1, <1>2, <1>8, <4>1 DEF PiecesInv, Substantive
    <3>2. taken'[n + 1].turn > at' /\ Substantive(talk'[taken'[n + 1].turn])
      BY <1>1, <1>3, <1>8, <2>2 DEF Substantive
    <3> QED
      BY <1>8, <3>1, <3>2
  <2>4. \A i, j \in DOMAIN taken' : i < j => taken'[i].turn > taken'[j].turn
    <3>1. ASSUME NEW i \in 1..(n + 1), NEW j \in 1..(n + 1), i < j
          PROVE  taken'[i].turn > taken'[j].turn
      <4>1. i \in 1..n
        BY <1>8, <3>1
      <4>2. CASE j \in 1..n
        BY <1>2, <1>8, <3>1, <4>1, <4>2 DEF PiecesInv
      <4>3. CASE j = n + 1
        BY <1>8, <2>1, <2>2, <4>1, <4>3
      <4> QED
        BY <1>8, <4>2, <4>3
    <3> QED
      BY <1>8, <3>1
  <2>5. \A i \in DOMAIN taken' : taken'[i].chars # talk'[taken'[i].turn].chars =>
                                   i = Len(taken') /\ used' >= Budget'
    <3>1. \A i \in 1..n : taken[i].chars = talk[taken[i].turn].chars
      <4>1. ~(used >= Budget)
        BY <1>1, <1>3, <1>4
      <4>2. \A i \in 1..n : taken[i].chars # talk[taken[i].turn].chars => used >= Budget
        BY <1>2, <1>8 DEF PiecesInv
      <4> QED
        BY <4>1, <4>2
    <3>2. taken'[n + 1].chars # talk'[taken'[n + 1].turn].chars => used' >= Budget'
      <4>1. Budget' = Budget
        BY <1>1 DEF Budget, Top
      <4> QED
        BY <1>1, <1>4, <1>5, <1>8, <2>2, <4>1
    <3> QED
      BY <1>1, <1>8, <3>1, <3>2
  <2>6. \A j \in DOMAIN talk' : j > at' /\ Substantive(talk'[j]) =>
                                  \E i \in DOMAIN taken' : taken'[i].turn = j
    <3>1. ASSUME NEW j \in DOMAIN talk, j > at - 1, Substantive(talk[j])
          PROVE  \E i \in 1..(n + 1) : taken'[i].turn = j
      <4>1. CASE j = at
        BY <1>8, <2>2, <4>1
      <4>2. CASE j # at
        <5>1. j \in Nat /\ j > at
          BY <1>2, <1>3, <3>1, <4>2 DEF TypeOK
        <5>2. PICK i \in 1..n : taken[i].turn = j
          BY <1>2, <1>8, <3>1, <5>1 DEF PiecesInv
        <5> QED
          BY <1>8, <5>2
      <4> QED
        BY <4>1, <4>2
    <3>2. \A j : Substantive(talk'[j]) <=> Substantive(talk[j])
      BY <1>1 DEF Substantive
    <3> QED
      BY <1>1, <1>8, <3>1, <3>2
  <2> QED
    BY <2>3, <2>4, <2>5, <2>6 DEF PiecesInv
<1>12. SumInv'
  <2>1. Total(Lengths(taken')) = Total(Lengths(taken)) + chars
    BY <1>1, <1>6, <1>7, OneMoreTaken
  <2>2. used = Total(Lengths(taken)) /\ n <= used
    BY DEF Inv, SumInv
  <2>3. used' = Total(Lengths(taken'))
    BY <1>1, <2>1, <2>2
  <2>4. Len(taken') <= used'
    <3> HIDE DEF piece, n
    <3> QED
      BY <1>1, <1>3, <1>5, <1>8, <2>2
  <2> QED
    BY <2>3, <2>4 DEF SumInv
<1> QED
  BY <1>1, <1>9, <1>10, <1>11, <1>12 DEF Inv, Exhausted

(* The window is complete. *)
LEMMA SelectEngineInv == Inv /\ SelectEngine => Inv'
<1> SUFFICES ASSUME Inv, SelectEngine
             PROVE  Inv'
  OBVIOUS
<1>1. /\ phase = "walk" /\ ~Walking /\ phase' = "done"
      /\ engine' = SelectRung(WindowChars)
      /\ UNCHANGED <<rungs, talk, at, taken, used>>
  BY DEF SelectEngine
<1>2. TypeOK /\ RosterInv /\ PiecesInv
  BY DEF Inv
<1>3. WindowChars \in Nat
  BY <1>2, EmptySeq DEF TypeOK, WindowChars
<1>4. rungs \in Seq(Rung) /\ rungs # <<>>
  BY <1>1, <1>2 DEF TypeOK, RosterInv, InOrder
<1>5. SelectRung(WindowChars) \in DOMAIN rungs
  BY <1>3, <1>4, SelectedRung
<1>6. TypeOK'
  <2>1. engine' \in 0..Len(rungs')
    BY <1>1, <1>4, <1>5
  <2> QED
    BY <1>1, <1>2, <2>1 DEF TypeOK
<1>7. RosterInv'
  BY <1>1, <1>2 DEF RosterInv, Budget, Top, WindowChars, SelectRung
<1>8. PiecesInv'
  BY <1>1, <1>2 DEF PiecesInv, Substantive, Budget, Top
<1>9. Exhausted'
  <2>1. at = 0 \/ ~(used < Budget)
    BY <1>1, <1>2 DEF Walking, TypeOK
  <2>2. Budget \in Nat /\ used \in Nat
    <3>1. Len(rungs) \in DOMAIN rungs
      BY <1>4, EmptySeq
    <3> QED
      BY <1>2, <1>4, <3>1, EntryOfRoster DEF Budget, Top, TypeOK
  <2> QED
    BY <1>1, <2>1, <2>2 DEF Exhausted, Budget, Top
<1>10. SumInv'
  BY <1>1 DEF Inv, SumInv
<1> QED
  BY <1>6, <1>7, <1>8, <1>9, <1>10 DEF Inv

(* A step of nothing keeps the invariant.                                   *)
LEMMA StutterInv == Inv /\ UNCHANGED vars => Inv'
<1> SUFFICES ASSUME Inv, UNCHANGED vars
             PROVE  Inv'
  OBVIOUS
<1>1. TypeOK'
  BY DEF Inv, TypeOK, vars
<1>2. RosterInv'
  BY DEF Inv, RosterInv, vars, Budget, Top, WindowChars, SelectRung
<1>3. PiecesInv'
  BY DEF Inv, PiecesInv, vars, Substantive, Budget, Top
<1>4. SumInv'
  BY DEF Inv, SumInv, vars
<1> QED
  BY <1>1, <1>2, <1>3, <1>4 DEF Inv, Exhausted, vars, Budget, Top

(***************************************************************************)
(* The inductive invariant. *)
(***************************************************************************)
THEOREM Invariance == Spec => []Inv
<1>1. Init => Inv
  BY InitInv
<1>2. Inv /\ [Next]_vars => Inv'
  BY BootInv, SkipInv, TakeInv, SelectEngineInv, StutterInv DEF Next
<1> QED
  BY <1>1, <1>2, PTL DEF Spec

(***************************************************************************)
(* Type correctness of the ladder and of the walk over the messages.       *)
(***************************************************************************)
THEOREM TypeCorrect == Spec => []TypeOK
<1>1. Inv => TypeOK
  BY DEF Inv
<1> QED
  BY <1>1, Invariance, PTL

(* The types a completed walk has. *)
LEMMA WalkTypes ==
  ASSUME Inv
  PROVE  /\ used \in Nat /\ taken \in Seq(Piece) /\ WindowChars \in Nat
         /\ phase \in {"walk", "done"} => /\ rungs \in Seq(Rung) /\ InOrder(rungs)
                                          /\ Budget \in Nat
<1>1. used \in Nat /\ taken \in Seq(Piece) /\ rungs \in Seq(Rung)
  BY DEF Inv, TypeOK, Piece
<1>2. WindowChars \in Nat
  BY <1>1, EmptySeq DEF WindowChars
<1>3. ASSUME phase \in {"walk", "done"}
      PROVE  InOrder(rungs) /\ Budget \in Nat
  <2>1. InOrder(rungs) /\ rungs # <<>>
    BY <1>3 DEF Inv, RosterInv, InOrder
  <2>2. Len(rungs) \in DOMAIN rungs
    BY <1>1, <2>1, EmptySeq
  <2> QED
    BY <1>1, <2>1, <2>2, EntryOfRoster DEF Budget, Top
<1> QED
  BY <1>1, <1>2, <1>3

(***************************************************************************)
(* No more of the user's text is collected than the top rung reads, and    *)
(* the window that is joined of it is less than twice as long.             *)
(***************************************************************************)
THEOREM TextStaysWithinBudget == Spec => []TextWithinBudget
<1>1. ASSUME Inv
      PROVE  TextWithinBudget
  <2> SUFFICES ASSUME phase \in {"walk", "done"}
               PROVE  /\ used = Total(Lengths(taken)) /\ used <= Budget
                      /\ taken # <<>> => WindowChars < 2 * Budget
    BY DEF TextWithinBudget, Lengths
  <2>1. used = Total(Lengths(taken)) /\ used <= Budget /\ Len(taken) <= used
    BY <1>1 DEF Inv, RosterInv, SumInv
  <2>2. used \in Nat /\ Budget \in Nat /\ Len(taken) \in Nat
    BY <1>1, WalkTypes
  <2>3. taken # <<>> => Len(taken) > 0
    BY <1>1, WalkTypes, EmptySeq
  <2> QED
    BY <2>1, <2>2, <2>3 DEF WindowChars
<1> QED
  BY <1>1, Invariance, PTL

(***************************************************************************)
(* The window is the recent end of what the user said, without a gap.      *)
(***************************************************************************)
THEOREM WindowStaysRecent == Spec => []WindowIsRecent
<1>1. ASSUME Inv
      PROVE  WindowIsRecent
  <2> SUFFICES ASSUME phase = "done"
               PROVE  WindowIsRecent
    BY DEF WindowIsRecent
  <2> DEFINE inside == {taken[i].turn : i \in DOMAIN taken}
             all == {i \in DOMAIN talk : Substantive(talk[i])}
             whole(i) == taken[i].chars = talk[taken[i].turn].chars
  <2>1. /\ taken \in Seq(Piece) /\ DOMAIN taken = 1..Len(taken) /\ Len(taken) \in Nat
        /\ used \in Nat /\ Budget \in Nat /\ used <= Budget
    BY <1>1, WalkTypes DEF Inv, RosterInv
  <2>2. /\ talk \in Seq(Message) /\ DOMAIN talk = 1..Len(talk) /\ Len(talk) \in Nat
        /\ at \in 0..Len(talk)
    BY <1>1 DEF Inv, TypeOK
  <2>3. PiecesInv /\ (at = 0 \/ used = Budget)
    BY <1>1, <2>1 DEF Inv, Exhausted
  <2>4. ASSUME NEW i \in DOMAIN taken
        PROVE  /\ taken[i].turn \in DOMAIN talk /\ Substantive(talk[taken[i].turn])
               /\ taken[i].turn > at
    <3>1. taken[i] \in Piece
      BY <2>1, <2>4
    <3> QED
      BY <2>2, <2>3, <3>1 DEF Piece, PiecesInv
  <2>5. inside \subseteq all
    BY <2>4
  <2>6. \A i, j \in DOMAIN taken : i < j => taken[i].turn > taken[j].turn
    BY <2>3 DEF PiecesInv
  <2>7. ASSUME NEW j \in all, j > at
        PROVE  j \in inside
    BY <2>3, <2>7 DEF PiecesInv
  <2>8. \A i \in inside, j \in all : j > i => j \in inside
    <3>1. ASSUME NEW i \in inside, NEW j \in all, j > i
          PROVE  j > at
      <4>1. i \in Nat /\ j \in Nat /\ i > at
        BY <2>2, <2>4
      <4> HIDE DEF inside, all
      <4> QED
        BY <2>2, <3>1, <4>1
    <3> HIDE DEF inside, all
    <3> QED
      BY <2>7, <3>1
  <2>9. \A i \in DOMAIN taken : i < Len(taken) => whole(i)
    BY <2>1, <2>3 DEF PiecesInv
  <2>10. (inside # all \/ \E i \in DOMAIN taken : ~whole(i)) => used = Budget
    <3>1. ASSUME NEW i \in DOMAIN taken, ~whole(i)
          PROVE  used = Budget
      BY <2>1, <2>3, <3>1 DEF PiecesInv
    <3>2. ASSUME inside # all
          PROVE  used = Budget
      <4>1. PICK j \in all : j \notin inside
        BY <2>5, <3>2
      <4>2. j \in 1..Len(talk)
        BY <2>2
      <4>3. ~(j > at)
        BY <2>7, <4>1
      <4>4. at # 0
        BY <2>2, <4>2, <4>3
      <4> QED
        BY <2>3, <4>4
    <3> QED
      BY <3>1, <3>2
  <2> QED
    BY <2>5, <2>6, <2>8, <2>9, <2>10 DEF WindowIsRecent
<1> QED
  BY <1>1, Invariance, PTL

(***************************************************************************)
(* The selected rung is the lowest that is large enough, and reads of the  *)
(* current turn whatever a lower one would have read.                      *)
(***************************************************************************)
THEOREM EscalationStaysSound == Spec => []EscalationSound
<1>1. ASSUME Inv
      PROVE  EscalationSound
  <2> SUFFICES ASSUME phase = "done"
               PROVE  EscalationSound
    BY DEF EscalationSound
  <2>1. rungs \in Seq(Rung) /\ InOrder(rungs) /\ rungs # <<>> /\ WindowChars \in Nat
    BY <1>1, WalkTypes DEF InOrder
  <2>2. engine = SelectRung(WindowChars)
    BY <1>1 DEF Inv, RosterInv
  <2>3. /\ engine \in DOMAIN rungs
        /\ \A i \in 1..(engine - 1) : rungs[i].context < WindowChars
    BY <2>1, <2>2, SelectedRung
  <2>4. ASSUME NEW i \in 1..(engine - 1)
        PROVE  rungs[i].turn \in Nat /\ rungs[engine].turn \in Nat
               /\ rungs[i].turn <= rungs[engine].turn
    <3>1. i \in DOMAIN rungs /\ i <= engine
      BY <2>1, <2>3
    <3> QED
      BY <2>1, <2>3, <3>1, EntryOfRoster DEF InOrder
  <2>5. ASSUME CurrentTurn # 0, NEW i \in 1..(engine - 1),
               talk[CurrentTurn].image \in 1..rungs[i].turn
        PROVE  LexicalImage
    BY <2>4, <2>5 DEF LexicalImage
  <2> QED
    BY <2>3, <2>5 DEF EscalationSound
<1> QED
  BY <1>1, Invariance, PTL

(***************************************************************************)
(* What the documentation says of the ladder, "the selected engine's own   *)
(* budget is guaranteed to cover" the window, fails in one way only: the   *)
(* newlines alone are in excess, no engine covers the window, and the one  *)
(* that reads the most was selected.  A window of one piece is covered.    *)
(***************************************************************************)
THEOREM OnlyNewlinesAreLost ==
  Spec => [](phase = "done" /\ WindowChars > rungs[engine].context =>
               /\ engine = Top /\ Len(taken) > 1
               /\ WindowChars - rungs[engine].context < Len(taken)
               /\ \A i \in DOMAIN rungs : rungs[i].context < WindowChars)
<1>1. ASSUME Inv, phase = "done", WindowChars > rungs[engine].context
      PROVE  /\ engine = Top /\ Len(taken) > 1
             /\ WindowChars - rungs[engine].context < Len(taken)
             /\ \A i \in DOMAIN rungs : rungs[i].context < WindowChars
  <2>1. /\ used \in Nat /\ taken \in Seq(Piece) /\ WindowChars \in Nat
        /\ rungs \in Seq(Rung) /\ rungs # <<>> /\ Budget \in Nat
    BY <1>1, WalkTypes DEF InOrder
  <2>2. used <= Budget /\ engine = SelectRung(WindowChars)
    BY <1>1 DEF Inv, RosterInv
  <2>3. \A i \in DOMAIN rungs : rungs[i].context \in Nat
    BY <2>1, EntryOfRoster
  <2>4. engine = Top /\ \A i \in DOMAIN rungs : rungs[i].context < WindowChars
    <3> DEFINE covering == {i \in DOMAIN rungs : rungs[i].context >= WindowChars}
    <3>1. CASE covering = {}
      BY <2>1, <2>2, <2>3, <3>1 DEF SelectRung
    <3>2. CASE covering # {}
      <4>1. /\ rungs[SelectRung(WindowChars)].context >= WindowChars
            /\ SelectRung(WindowChars) \in DOMAIN rungs
        BY <2>1, <3>2, SelectedRung
      <4>2. rungs[engine].context \in Nat /\ rungs[engine].context >= WindowChars
        BY <2>2, <2>3, <4>1
      <4>3. FALSE
        BY <1>1, <2>1, <4>2
      <4> QED
        BY <4>3
    <3> QED
      BY <3>1, <3>2
  <2>5. WindowChars > Budget
    BY <1>1, <2>4 DEF Budget
  <2>6. Len(taken) \in Nat
    BY <2>1
  <2>7. taken # <<>>
    BY <2>1, <2>5 DEF WindowChars
  <2>8. WindowChars = used + (Len(taken) - 1)
    BY <2>7 DEF WindowChars
  <2> QED
    BY <2>1, <2>2, <2>4, <2>5, <2>6, <2>8 DEF Budget
<1> QED
  BY <1>1, Invariance, PTL

(***************************************************************************)
(* The classification of a window that is complete.                        *)
(***************************************************************************)

(* Classifying leaves the ladder and the walk as they are: what is proved   *)
(* of them holds of it.                                                    *)
THEOREM ClassifyKeepsTheWalk == CSpec => Spec
<1>1. CInit => Init
  BY DEF CInit
<1>2. [CNext]_vars2 => [Next]_vars
  BY DEF CNext, vars2, WithoutModel, ByNli, ByEmbedding, Fails
<1> QED
  BY <1>1, <1>2, PTL DEF CSpec, Spec

(* A window without a piece has no character; a verdict is of a walk that   *)
(* has ended, and is sound.                                                *)
JudgedInv ==
  /\ taken = <<>> => used = 0
  /\ verdict.by # "pending" => phase = "done"
  /\ TextsFitEngine
  /\ TierIsEarned
  /\ FollowUpInheritsContext

(* What TierIsEarned says of a tier that an engine makes of scores. *)
Earned(by, tier, scores) ==
  LET numbers == {scores[i] : i \in {j \in DOMAIN scores : scores[j].score # NaN}}
      mine    == {s \in numbers : s.tier = tier}
  IN IF mine = {} THEN tier = IF by = "nli" THEN "balanced" ELSE "fast"
     ELSE \A s \in numbers : \E m \in mine :
            /\ m.score >= s.score
            /\ Height[s.tier] < Height[tier] => m.score > s.score

(* The first of the best scores earns its tier, if the tiers ascend. *)
LEMMA FirstOfTheBest ==
  ASSUME NEW by, NEW n \in Nat, NEW scores, DOMAIN scores = 1..n,
         \A i, j \in 1..n : Height[scores[i].tier] < Height[scores[j].tier] => i < j,
         NEW best \in 1..n, scores[best].score # NaN,
         \A j \in 1..n : scores[j].score # NaN =>
           /\ scores[best].score >= scores[j].score
           /\ j < best => scores[best].score > scores[j].score
  PROVE  Earned(by, scores[best].tier, scores)
<1> DEFINE tier == scores[best].tier
           numbers == {scores[i] : i \in {j \in DOMAIN scores : scores[j].score # NaN}}
           mine == {s \in numbers : s.tier = tier}
<1>1. scores[best] \in mine
  OBVIOUS
<1>2. ASSUME NEW s \in numbers
      PROVE  /\ scores[best].score >= s.score
             /\ Height[s.tier] < Height[tier] => scores[best].score > s.score
  OBVIOUS
<1> HIDE DEF tier
<1> QED
  BY <1>1, <1>2 DEF Earned, tier

(* The best of three similarities. *)
LEMMA NearestTierIsEarned ==
  ASSUME NEW sim \in Similarities
  PROVE  Earned("embedding", NearestTier(sim), EmbeddingScores(sim))
<1> DEFINE scores == EmbeddingScores(sim)
           fast == sim["fast"]
           balanced == sim["balanced"]
           frontier == sim["frontier"]
<1>1. /\ DOMAIN scores = 1..3
      /\ scores[1] = [tier |-> "fast", score |-> fast]
      /\ scores[2] = [tier |-> "balanced", score |-> balanced]
      /\ scores[3] = [tier |-> "frontier", score |-> frontier]
  BY DEF EmbeddingScores
<1>2. fast \in Scores /\ balanced \in Scores /\ frontier \in Scores
  BY DEF Similarities, Tiers
<1>3. \A i, j \in 1..3 : Height[scores[i].tier] < Height[scores[j].tier] => i < j
  BY <1>1 DEF Height
<1>4. CASE fast = NaN
  <2>1. NearestTier(sim) = "fast"
    BY <1>4 DEF NearestTier, Beats
  <2>2. \A i \in 1..3 : scores[i].tier = "fast" => i = 1
    BY <1>1
  <2>3. scores[1].score = NaN
    BY <1>1, <1>4
  <2> HIDE DEF scores
  <2> QED
    BY <1>1, <2>1, <2>2, <2>3 DEF Earned, scores
<1>5. CASE fast # NaN
  <2>1. PICK best \in 1..3 :
          /\ NearestTier(sim) = scores[best].tier /\ scores[best].score # NaN
          /\ \A j \in 1..3 : scores[j].score # NaN =>
               /\ scores[best].score >= scores[j].score
               /\ j < best => scores[best].score > scores[j].score
    <3> DEFINE lower == IF Beats(balanced, fast) THEN 2 ELSE 1
               best == IF Beats(frontier, scores[lower].score) THEN 3 ELSE lower
    <3>1. NearestTier(sim) = scores[best].tier
      BY <1>1 DEF NearestTier
    <3>2. scores[lower].score # NaN /\ scores[lower].score >= fast /\ lower \in 1..2
          /\ (balanced # NaN => scores[lower].score >= balanced)
          /\ (lower = 2 => scores[lower].score > fast)
      BY <1>1, <1>2, <1>5, ClassifyAssumption DEF Beats, Scores
    <3>3. scores[lower].score \in Int
      BY <1>1, <1>2, <3>2 DEF Scores
    <3> HIDE DEF lower
    <3>4. CASE Beats(frontier, scores[lower].score)
      <4>1. best = 3 /\ frontier # NaN /\ frontier > scores[lower].score /\ frontier \in Int
        BY <1>2, <3>4 DEF Beats, Scores
      <4>2. frontier > fast /\ (balanced # NaN => frontier > balanced)
        BY <1>2, <1>5, <3>2, <3>3, <4>1 DEF Scores
      <4>3. \A j \in 1..3 : scores[j].score # NaN =>
              /\ scores[3].score >= scores[j].score
              /\ j < 3 => scores[3].score > scores[j].score
        <5>1. /\ scores[1].score = fast /\ scores[2].score = balanced
              /\ scores[3].score = frontier
          BY <1>1
        <5>2. \A j \in 1..3 : j = 1 \/ j = 2 \/ j = 3
          OBVIOUS
        <5>3. frontier >= frontier /\ frontier >= fast /\ (balanced # NaN => frontier >= balanced)
          BY <1>2, <1>5, <4>1, <4>2 DEF Scores
        <5> HIDE DEF scores
        <5> QED
          BY <4>2, <5>1, <5>2, <5>3
      <4>4. scores[3].score # NaN /\ NearestTier(sim) = scores[3].tier
        BY <1>1, <3>1, <4>1
      <4> QED
        BY <4>3, <4>4
    <3>5. CASE ~Beats(frontier, scores[lower].score)
      <4>1. best = lower /\ (frontier # NaN => scores[lower].score >= frontier)
        BY <1>2, <3>2, <3>3, <3>5 DEF Beats, Scores
      <4> QED
        BY <1>1, <3>1, <3>2, <3>3, <4>1
    <3> QED
      BY <3>4, <3>5
  <2> HIDE DEF scores
  <2>2. Earned("embedding", scores[best].tier, scores)
    BY <1>1, <1>3, <2>1, FirstOfTheBest
  <2> QED
    BY <2>1, <2>2 DEF scores
<1> QED
  BY <1>4, <1>5

(* A row that speaks for a tier, with a number; and what is so of the row   *)
(* that leads the first n, if one does.                                     *)
Plays(rows, j) == Hypotheses[j] # "image" /\ rows[j] # NaN

Led(rows, n, lead) ==
  IF lead = 0 THEN \A j \in 1..n : ~Plays(rows, j)
  ELSE /\ lead \in 1..n /\ Plays(rows, lead)
       /\ \A j \in 1..n : Plays(rows, j) =>
            /\ rows[lead] >= rows[j]
            /\ j < lead => rows[lead] > rows[j]

LEMMA OneMoreRow ==
  ASSUME NEW rows \in [1..8 -> Scores], NEW n \in 0..7, NEW lead \in 0..8, Led(rows, n, lead)
  PROVE  Leader(rows, n + 1, lead) \in 0..8 /\ Led(rows, n + 1, Leader(rows, n + 1, lead))
<1> DEFINE m == n + 1
<1>1. m \in 1..8 /\ m # 0 /\ m \in 1..m /\ \A j \in 1..m : j \in 1..n \/ j = m
  OBVIOUS
<1>2. \A j \in 1..8 : Plays(rows, j) => rows[j] \in Int
  BY DEF Scores, Plays
<1>3. \A j \in 1..n : j \in 1..8 /\ j < m /\ j \in 1..m
  OBVIOUS
<1> HIDE DEF m
<1>4. CASE ~Plays(rows, m)
  <2>1. Leader(rows, m, lead) = lead
    BY <1>4 DEF Leader, Plays
  <2> QED
    BY <1>1, <1>3, <1>4, <2>1 DEF Led, m
<1>5. CASE Plays(rows, m) /\ lead = 0
  <2>1. Leader(rows, m, lead) = m
    BY <1>5 DEF Leader, Plays
  <2>2. \A j \in 1..m : Plays(rows, j) => j = m
    BY <1>1, <1>5 DEF Led
  <2>3. rows[m] >= rows[m] /\ ~(m < m)
    BY <1>1, <1>2, <1>5
  <2> QED
    BY <1>1, <1>5, <2>1, <2>2, <2>3 DEF Led, m
<1>6. CASE Plays(rows, m) /\ lead # 0
  <2>1. /\ lead \in 1..n /\ Plays(rows, lead)
        /\ \A j \in 1..n : Plays(rows, j) => /\ rows[lead] >= rows[j]
                                             /\ j < lead => rows[lead] > rows[j]
    BY <1>6 DEF Led
  <2>2. rows[lead] \in Int /\ rows[m] \in Int
    BY <1>1, <1>2, <1>3, <1>6, <2>1
  <2>3. CASE rows[m] > rows[lead]
    <3>1. Leader(rows, m, lead) = m
      BY <1>6, <2>1, <2>3 DEF Leader, Beats, Plays
    <3>2. ASSUME NEW j \in 1..n, Plays(rows, j)
          PROVE  rows[m] > rows[j] /\ rows[m] >= rows[j]
      <4>1. rows[j] \in Int
        BY <1>2, <1>3, <3>2
      <4>2. rows[lead] >= rows[j]
        BY <2>1, <3>2
      <4> QED
        BY <2>2, <2>3, <4>1, <4>2
    <3>3. rows[m] >= rows[m] /\ ~(m < m)
      BY <1>1, <2>2
    <3>4. \A j \in 1..m : Plays(rows, j) => /\ rows[m] >= rows[j]
                                            /\ j < m => rows[m] > rows[j]
      BY <1>1, <3>2, <3>3
    <3> QED
      BY <1>1, <1>6, <3>1, <3>4 DEF Led, m
  <2>4. CASE ~(rows[m] > rows[lead])
    <3>1. Leader(rows, m, lead) = lead
      BY <1>6, <2>1, <2>4 DEF Leader, Beats, Plays
    <3>2. rows[lead] >= rows[m] /\ ~(m < lead) /\ lead \in 1..m /\ lead \in 0..8
      <4>1. rows[lead] >= rows[m]
        BY <2>2, <2>4
      <4>2. ~(m < lead) /\ lead \in 1..m
        BY <2>1 DEF m
      <4> QED
        BY <4>1, <4>2
    <3>3. \A j \in 1..m : Plays(rows, j) => /\ rows[lead] >= rows[j]
                                            /\ j < lead => rows[lead] > rows[j]
      BY <1>1, <2>1, <3>2
    <3> QED
      BY <1>6, <2>1, <3>1, <3>2, <3>3 DEF Led, m
  <2> QED
    BY <2>3, <2>4
<1> QED
  BY <1>4, <1>5, <1>6

(* The walk over the rows, one after the other. *)
LEMMA LeadingRow ==
  ASSUME NEW rows \in [1..8 -> Scores]
  PROVE  \E best \in 0..8 :
           /\ Led(rows, 8, best)
           /\ NliTier(rows) = IF best = 0 THEN "balanced" ELSE Hypotheses[best]
<1> DEFINE step(f) == [n \in 0..8 |-> IF n = 0 THEN 0 ELSE Leader(rows, n, f[n - 1])]
           leading == CHOOSE f : f = step(f)
           b1 == Leader(rows, 1, 0)
           b2 == Leader(rows, 2, b1)
           b3 == Leader(rows, 3, b2)
           b4 == Leader(rows, 4, b3)
           b5 == Leader(rows, 5, b4)
           b6 == Leader(rows, 6, b5)
           b7 == Leader(rows, 7, b6)
           b8 == Leader(rows, 8, b7)
           walk == [n \in 0..8 |-> IF n = 0 THEN 0 ELSE IF n = 1 THEN b1 ELSE IF n = 2 THEN b2
                                   ELSE IF n = 3 THEN b3 ELSE IF n = 4 THEN b4 ELSE IF n = 5 THEN b5
                                   ELSE IF n = 6 THEN b6 ELSE IF n = 7 THEN b7 ELSE b8]
<1>1. walk = step(walk)
  <2> HIDE DEF b1, b2, b3, b4, b5, b6, b7, b8
  <2>1. /\ walk[0] = 0 /\ walk[1] = b1 /\ walk[2] = b2 /\ walk[3] = b3 /\ walk[4] = b4
        /\ walk[5] = b5 /\ walk[6] = b6 /\ walk[7] = b7 /\ walk[8] = b8
    OBVIOUS
  <2>2. /\ b1 = Leader(rows, 1, 0) /\ b2 = Leader(rows, 2, b1) /\ b3 = Leader(rows, 3, b2)
        /\ b4 = Leader(rows, 4, b3) /\ b5 = Leader(rows, 5, b4) /\ b6 = Leader(rows, 6, b5)
        /\ b7 = Leader(rows, 7, b6) /\ b8 = Leader(rows, 8, b7)
    BY DEF b1, b2, b3, b4, b5, b6, b7, b8
  <2>3. walk = [n \in 0..8 |-> walk[n]]
    OBVIOUS
  <2> HIDE DEF walk
  <2>4. ASSUME NEW n \in 0..8
        PROVE  walk[n] = step(walk)[n]
    BY <2>1, <2>2
  <2> QED
    BY <2>3, <2>4
<1>2. leading = step(leading)
  <2> HIDE DEF walk
  <2> QED
    BY <1>1
<1>3. /\ leading[0] = 0
      /\ \A n \in 0..7 : leading[n + 1] = Leader(rows, n + 1, leading[n])
  <2> HIDE DEF leading
  <2>1. \A n \in 0..8 : leading[n] = IF n = 0 THEN 0 ELSE Leader(rows, n, leading[n - 1])
    BY <1>2
  <2>2. \A n \in 0..7 : n + 1 \in 0..8 /\ n + 1 # 0 /\ (n + 1) - 1 = n
    OBVIOUS
  <2> QED
    BY <2>1, <2>2
<1>4. NliTier(rows) = IF leading[8] = 0 THEN "balanced" ELSE Hypotheses[leading[8]]
  <2>1. Len(Hypotheses) = 8
    BY DEF Hypotheses
  <2> QED
    BY <2>1 DEF NliTier
<1> HIDE DEF leading
<1>5. leading[0] \in 0..8 /\ Led(rows, 0, leading[0])
  BY <1>3 DEF Led
<1>6. \A n \in 0..7 : leading[n] \in 0..8 /\ Led(rows, n, leading[n])
                     => leading[n + 1] \in 0..8 /\ Led(rows, n + 1, leading[n + 1])
  BY <1>3, OneMoreRow
<1>7. leading[8] \in 0..8 /\ Led(rows, 8, leading[8])
  <2> DEFINE P(n) == leading[n] \in 0..8 /\ Led(rows, n, leading[n])
  <2>1. P(0) /\ \A n \in 0..7 : P(n) => P(n + 1)
    BY <1>5, <1>6
  <2> HIDE DEF P
  <2>2. P(1) /\ P(2) /\ P(3) /\ P(4)
    <3>1. P(0 + 1) /\ 0 + 1 = 1
      BY <2>1
    <3>2. P(1 + 1) /\ 1 + 1 = 2
      BY <2>1, <3>1
    <3>3. P(2 + 1) /\ 2 + 1 = 3
      BY <2>1, <3>2
    <3>4. P(3 + 1) /\ 3 + 1 = 4
      BY <2>1, <3>3
    <3> QED
      BY <3>1, <3>2, <3>3, <3>4
  <2>3. P(8)
    <3>1. P(4 + 1) /\ 4 + 1 = 5
      BY <2>1, <2>2
    <3>2. P(5 + 1) /\ 5 + 1 = 6
      BY <2>1, <3>1
    <3>3. P(6 + 1) /\ 6 + 1 = 7
      BY <2>1, <3>2
    <3>4. P(7 + 1) /\ 7 + 1 = 8
      BY <2>1, <3>3
    <3> QED
      BY <3>4
  <2> QED
    BY <2>3 DEF P
<1> QED
  BY <1>4, <1>7

(* The best of the rows, those of images apart. *)
LEMMA NliTierIsEarned ==
  ASSUME NEW rows \in [DOMAIN Hypotheses -> Scores]
  PROVE  Earned("nli", NliTier(rows), NliScores(rows))
<1> DEFINE scores == NliScores(rows)
<1>1. /\ Len(Hypotheses) = 8 /\ DOMAIN Hypotheses = 1..8
      /\ \A i \in 1..7 : Hypotheses[i] # "image" /\ Hypotheses[8] = "image"
      /\ \A i, j \in 1..7 : Height[Hypotheses[i]] < Height[Hypotheses[j]] => i < j
  BY DEF Hypotheses, Height
<1>2. /\ DOMAIN scores = 1..7
      /\ \A i \in 1..7 : scores[i].tier = Hypotheses[i] /\ scores[i].score = rows[i]
  BY <1>1 DEF NliScores
<1>3. PICK best \in 0..8 :
        /\ Led(rows, 8, best)
        /\ NliTier(rows) = IF best = 0 THEN "balanced" ELSE Hypotheses[best]
  BY <1>1, LeadingRow
<1> HIDE DEF scores
<1>4. CASE best = 0
  <2>1. \A i \in 1..7 : scores[i].score = NaN
    BY <1>1, <1>2, <1>3, <1>4 DEF Led, Plays
  <2> QED
    BY <1>2, <1>3, <1>4, <2>1 DEF Earned, scores
<1>5. CASE best # 0
  <2>1. best \in 1..7 /\ rows[best] # NaN
    BY <1>1, <1>3, <1>5 DEF Led, Plays
  <2>2. \A j \in 1..7 : scores[j].score # NaN =>
          /\ scores[best].score >= scores[j].score
          /\ j < best => scores[best].score > scores[j].score
    BY <1>1, <1>2, <1>3, <1>5, <2>1 DEF Led, Plays
  <2>3. Earned("nli", scores[best].tier, scores)
    <3>1. \A i, j \in 1..7 : Height[scores[i].tier] < Height[scores[j].tier] => i < j
      BY <1>1, <1>2
    <3>2. scores[best].score # NaN
      BY <1>2, <2>1
    <3> QED
      BY <1>2, <2>1, <2>2, <3>1, <3>2, FirstOfTheBest
  <2> QED
    BY <1>2, <1>3, <1>5, <2>1, <2>3 DEF scores
<1> QED
  BY <1>4, <1>5

(* The last message of the user, if there is one. *)
LEMMA LastOfUser ==
  ASSUME TypeOK, NEW i \in DOMAIN talk, talk[i].user
  PROVE  /\ CurrentTurn \in DOMAIN talk /\ talk[CurrentTurn].user /\ CurrentTurn # 0
         /\ \A j \in DOMAIN talk : talk[j].user => j <= CurrentTurn
<1> DEFINE mine == {j \in DOMAIN talk : talk[j].user}
           above == {Len(talk) - j : j \in mine}
<1>1. DOMAIN talk = 1..Len(talk) /\ Len(talk) \in Nat
  BY DEF TypeOK
<1>2. \E j \in mine : \A k \in mine : k <= j
  <2>1. above \in SUBSET Nat /\ above # {}
    BY <1>1
  <2>2. PICK x \in above : \A y \in above : x <= y
    <3> HIDE DEF above
    <3> QED
      BY <2>1, LeastNat
  <2>3. PICK j \in mine : x = Len(talk) - j
    BY <2>2
  <2>4. ASSUME NEW k \in mine
        PROVE  k <= j
    <3>1. Len(talk) - j <= Len(talk) - k
      BY <2>2, <2>3
    <3> QED
      BY <1>1, <3>1
  <2> QED
    BY <2>4
<1>3. CurrentTurn \in mine /\ \A k \in mine : k <= CurrentTurn
  BY <1>2 DEF CurrentTurn
<1> QED
  BY <1>1, <1>3

(* A complete window without a piece has left nothing of substance out. *)
LEMMA EmptyWindow ==
  ASSUME Inv, JudgedInv, phase = "done", taken = <<>>
  PROVE  \A i \in DOMAIN talk : ~Substantive(talk[i])
<1>1. /\ talk \in Seq(Message) /\ DOMAIN talk = 1..Len(talk) /\ Len(talk) \in Nat
      /\ at \in 0..Len(talk) /\ rungs \in Seq(Rung)
  BY DEF Inv, TypeOK
<1>2. Budget > 0
  <2>1. rungs # <<>>
    BY DEF Inv, RosterInv, InOrder
  <2>2. Len(rungs) \in 1..Len(rungs)
    BY <1>1, <2>1, EmptySeq
  <2>3. rungs[Len(rungs)] \in Rung
    BY <1>1, <2>2
  <2> QED
    BY <2>3 DEF Budget, Top, Rung
<1>3. at = 0
  <2>1. Budget \in Nat
    BY WalkTypes
  <2> QED
    BY <1>2, <2>1 DEF Inv, Exhausted, JudgedInv
<1>4. \A j \in DOMAIN talk : j > at
  BY <1>1, <1>3
<1> QED
  BY <1>4 DEF Inv, PiecesInv

(* The texts that are sent for a complete window. *)
LEMMA TextsFit ==
  ASSUME Inv, phase = "done", taken # <<>>
  PROVE  /\ WindowChars \in Nat \ {0}
         /\ WindowChars <= rungs[engine].context + (Len(taken) - 1)
         /\ TurnChars \in Nat /\ TurnChars <= rungs[engine].turn
<1>1. /\ used \in Nat /\ taken \in Seq(Piece) /\ WindowChars \in Nat
      /\ rungs \in Seq(Rung) /\ rungs # <<>> /\ Budget \in Nat
  BY WalkTypes DEF InOrder
<1>2. used <= Budget /\ engine = SelectRung(WindowChars) /\ Len(taken) <= used
  BY DEF Inv, RosterInv, SumInv
<1>3. /\ engine \in DOMAIN rungs
      /\ (\E i \in DOMAIN rungs : rungs[i].context >= WindowChars) =>
           rungs[engine].context >= WindowChars
  BY <1>1, <1>2, SelectedRung
<1>4. rungs[engine].context \in Nat /\ rungs[engine].turn \in Nat
  BY <1>1, <1>3, EntryOfRoster
<1>5. Len(taken) \in Nat \ {0}
  BY <1>1, EmptySeq
<1>6. WindowChars = used + (Len(taken) - 1)
  BY DEF WindowChars
<1>7. WindowChars <= rungs[engine].context + (Len(taken) - 1)
  <2>1. CASE \E i \in DOMAIN rungs : rungs[i].context >= WindowChars
    BY <1>1, <1>3, <1>4, <1>5, <2>1
  <2>2. CASE ~\E i \in DOMAIN rungs : rungs[i].context >= WindowChars
    <3>1. engine = Top
      BY <1>2, <2>2 DEF SelectRung
    <3> QED
      BY <1>1, <1>2, <1>4, <1>5, <1>6, <3>1 DEF Budget
  <2> QED
    BY <2>1, <2>2
<1>8. TurnChars \in Nat /\ TurnChars <= rungs[engine].turn
  <2>1. CASE CurrentTurn = 0
    BY <1>4, <2>1 DEF TurnChars
  <2>2. CASE CurrentTurn # 0
    <3>1. \E i \in DOMAIN talk : talk[i].user
      BY <2>2 DEF CurrentTurn
    <3>2. talk \in Seq(Message) /\ CurrentTurn \in DOMAIN talk
      BY <3>1, LastOfUser DEF Inv, TypeOK
    <3>3. talk[CurrentTurn] \in Message
      BY <3>2
    <3>4. talk[CurrentTurn].lead \in Nat /\ talk[CurrentTurn].chars \in Nat
      BY <3>3 DEF Message
    <3> QED
      BY <1>4, <2>2, <3>4 DEF TurnChars
  <2> QED
    BY <2>1, <2>2
<1> QED
  BY <1>1, <1>2, <1>5, <1>6, <1>7, <1>8

(* A judgment of the walk's end keeps what was walked. *)
LEMMA JudgedStep ==
  ASSUME Inv, JudgedInv, [CNext]_vars2
  PROVE  JudgedInv'
<1>1. ASSUME UNCHANGED vars
      PROVE  UNCHANGED <<rungs, talk, phase, taken, used, engine>>
  BY <1>1 DEF vars
<1>2. CASE Next /\ UNCHANGED verdict
  <2>1. phase # "done"
    BY <1>2 DEF Next, Boot, Skip, Take, SelectEngine, Walking
  <2>2. verdict.by = "pending" /\ verdict'.by = "pending"
    BY <1>2, <2>1 DEF JudgedInv
  <2>3. taken' = <<>> => used' = 0
    <3>1. CASE Take
      <4>1. PICK x : taken' = Append(taken, x)
        BY <3>1 DEF Take
      <4> DEFINE S == Piece \cup {x}
      <4>2. taken \in Seq(S) /\ x \in S
        <5>1. taken \in Seq(Piece) /\ Piece \subseteq S
          BY WalkTypes
        <5>2. \A i \in 1..Len(taken) : taken[i] \in S
          BY <5>1
        <5>3. taken \in [1..Len(taken) -> S] /\ Len(taken) \in Nat
          BY <5>1, <5>2
        <5> QED
          BY <5>3, SeqDef
      <4> HIDE DEF S
      <4>3. Len(taken') = Len(taken) + 1 /\ Len(taken) \in Nat
        BY <4>1, <4>2
      <4> QED
        BY <4>3
    <3>2. CASE Boot \/ Skip \/ SelectEngine
      BY <3>2 DEF Boot, Skip, SelectEngine, JudgedInv
    <3> QED
      BY <1>2, <3>1, <3>2 DEF Next
  <2> QED
    BY <2>2, <2>3 DEF JudgedInv, TextsFitEngine, TierIsEarned, FollowUpInheritsContext
<1>3. CASE WithoutModel
  <2>1. phase = "done" /\ taken = <<>> /\ UNCHANGED vars
    BY <1>3 DEF WithoutModel, Judging
  <2>2. /\ verdict'.by = "nobody"
        /\ verdict'.tier = IF \E i \in DOMAIN talk : talk[i].user /\ talk[i].chars > 0
                           THEN "fast" ELSE "balanced"
    BY <1>3 DEF WithoutModel, BalancedDefault, Pending
  <2>3. \A i \in DOMAIN talk : ~Substantive(talk[i])
    BY <2>1, EmptyWindow
  <2>4. UNCHANGED <<phase, taken, used, talk>>
    BY <2>1 DEF vars
  <2> QED
    BY <2>1, <2>2, <2>3, <2>4
       DEF JudgedInv, TextsFitEngine, TierIsEarned, FollowUpInheritsContext, Substantive
<1>4. CASE ByNli
  <2>1. PICK answer \in Answers, floor \in Floors :
          /\ answer.kind = "nli"
          /\ verdict' = [by |-> "nli", tier |-> NliTier(answer.rows),
                         image |-> LexicalImage \/ NliImage(answer.rows, floor),
                         scores |-> NliScores(answer.rows), sent |-> <<>>]
    BY <1>4 DEF ByNli
  <2>2. /\ verdict'.by = "nli" /\ verdict'.tier = NliTier(answer.rows)
        /\ verdict'.scores = NliScores(answer.rows)
    BY <2>1
  <2>3. answer.rows \in [DOMAIN Hypotheses -> Scores]
    BY <2>1, ClassifyAssumption DEF Answer
  <2>4. Earned("nli", NliTier(answer.rows), NliScores(answer.rows))
    BY <2>3, NliTierIsEarned
  <2>5. TierIsEarned'
    BY <2>2, <2>4 DEF TierIsEarned, Earned
  <2>6. phase = "done" /\ taken # <<>> /\ UNCHANGED vars
    BY <1>4 DEF ByNli, Judging
  <2> QED
    BY <1>1, <2>2, <2>5, <2>6 DEF JudgedInv, TextsFitEngine, FollowUpInheritsContext
<1>5. CASE ByEmbedding
  <2>1. PICK answer \in Answers, floor \in Floors :
          /\ answer.kind = "embedding"
          /\ verdict' =
               [by |-> "embedding", tier |-> NearestTier(answer.window),
                image |-> LexicalImage \/ (TurnChars > 0 /\ NearestImage(answer.turn, floor)),
                scores |-> EmbeddingScores(answer.window),
                sent |-> IF TurnChars > 0 THEN <<WindowChars, TurnChars>> ELSE <<WindowChars>>]
    BY <1>5 DEF ByEmbedding
  <2>2. /\ verdict'.by = "embedding" /\ verdict'.tier = NearestTier(answer.window)
        /\ verdict'.scores = EmbeddingScores(answer.window)
        /\ verdict'.sent = IF TurnChars > 0 THEN <<WindowChars, TurnChars>> ELSE <<WindowChars>>
    BY <2>1
  <2>3. answer.window \in Similarities
    BY <2>1, ClassifyAssumption DEF Answer
  <2>4. Earned("embedding", NearestTier(answer.window), EmbeddingScores(answer.window))
    BY <2>3, NearestTierIsEarned
  <2>5. TierIsEarned'
    BY <2>2, <2>4 DEF TierIsEarned, Earned
  <2>6. phase = "done" /\ taken # <<>> /\ UNCHANGED vars
    BY <1>5 DEF ByEmbedding, Judging
  <2>7. TextsFitEngine'
    <3>1. /\ WindowChars \in Nat \ {0}
          /\ WindowChars <= rungs[engine].context + (Len(taken) - 1)
          /\ TurnChars \in Nat /\ TurnChars <= rungs[engine].turn
      BY <2>6, TextsFit
    <3>2. UNCHANGED <<rungs, engine, taken>>
      BY <1>1, <2>6
    <3>3. CASE TurnChars > 0
      <4>1. verdict'.sent = <<WindowChars, TurnChars>>
        BY <2>2, <3>3
      <4> QED
        BY <3>1, <3>2, <3>3, <4>1 DEF TextsFitEngine
    <3>4. CASE ~(TurnChars > 0)
      <4>1. verdict'.sent = <<WindowChars>>
        BY <2>2, <3>4
      <4> QED
        BY <3>1, <3>2, <4>1 DEF TextsFitEngine
    <3> QED
      BY <3>3, <3>4
  <2> QED
    BY <1>1, <2>2, <2>5, <2>6, <2>7 DEF JudgedInv, FollowUpInheritsContext
<1>6. CASE Fails
  <2>1. phase = "done" /\ UNCHANGED vars /\ verdict'.by = "error"
    BY <1>6 DEF Fails, Judging, BalancedDefault, Pending
  <2> QED
    BY <1>1, <2>1 DEF JudgedInv, TextsFitEngine, TierIsEarned, FollowUpInheritsContext
<1>7. CASE UNCHANGED vars2
  <2>1. UNCHANGED vars /\ UNCHANGED verdict /\ UNCHANGED talk
    BY <1>7 DEF vars2, vars
  <2> QED
    BY <1>1, <2>1 DEF JudgedInv, TextsFitEngine, TierIsEarned, FollowUpInheritsContext, Substantive
<1> QED
  BY <1>2, <1>3, <1>4, <1>5, <1>6, <1>7 DEF CNext

(* A verdict was made from the window and the turn of its conversation, in  *)
(* every state.                                                             *)
LEMMA JudgedAlways == CSpec => [](Inv /\ JudgedInv)
<1>1. CInit => JudgedInv
  BY DEF CInit, Init, Pending, JudgedInv, TextsFitEngine, TierIsEarned, FollowUpInheritsContext
<1>2. Inv /\ JudgedInv /\ [CNext]_vars2 => JudgedInv'
  BY JudgedStep
<1> QED
  BY <1>1, <1>2, ClassifyKeepsTheWalk, Invariance, PTL DEF CSpec

(***************************************************************************)
(* Every text that is sent to a remote model has characters, and no more   *)
(* of them than the selected engine reads (but for the window's newlines). *)
(***************************************************************************)
THEOREM TextsAlwaysFit == CSpec => []TextsFitEngine
<1>1. JudgedInv => TextsFitEngine
  BY DEF JudgedInv
<1> QED
  BY <1>1, JudgedAlways, PTL

(***************************************************************************)
(* The tier of a verdict has the best score there is, and more than any    *)
(* that a lower tier has, whatever the scores are, NaN included.           *)
(***************************************************************************)
THEOREM TierIsAlwaysEarned == CSpec => []TierIsEarned
<1>1. JudgedInv => TierIsEarned
  BY DEF JudgedInv
<1> QED
  BY <1>1, JudgedAlways, PTL

(***************************************************************************)
(* Only a conversation without any substance is judged by nobody.          *)
(***************************************************************************)
THEOREM FollowUpAlwaysInherits == CSpec => []FollowUpInheritsContext
<1>1. JudgedInv => FollowUpInheritsContext
  BY DEF JudgedInv
<1> QED
  BY <1>1, JudgedAlways, PTL
=============================================================================
