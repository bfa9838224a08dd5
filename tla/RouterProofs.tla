---------------------------- MODULE RouterProofs ----------------------------
(***************************************************************************)
(* What the selection policy returns, for every catalogue; and the safety  *)
(* of the request life cycle, for every set of requests, every catalogue   *)
(* and every content.                                                      *)
(***************************************************************************)
EXTENDS Request, DataLemmas, FiniteSetTheorems

(* The entries of a catalogue and their positions. *)
LEMMA EntryOfCatalogue ==
  ASSUME NEW offers \in Seq(Model), NEW i \in DOMAIN offers
  PROVE  /\ i \in Nat /\ i # None
         /\ offers[i].tier \in Tiers /\ offers[i].window \in Nat
<1>1. i \in 1..Len(offers) /\ offers[i] \in Model
  OBVIOUS
<1>2. offers[i].tier \in Tiers /\ offers[i].window \in Nat
  BY <1>1 DEF Model
<1> QED
  BY <1>1, <1>2 DEF None

(* A finite set of models has a widest one. *)
LEMMA WidestExists ==
  ASSUME NEW offers \in Seq(Model), NEW among \in SUBSET DOMAIN offers, among # {}
  PROVE  Widest(offers, among) # {}
<1> DEFINE above(i) == {j \in among : offers[i].window <= offers[j].window}
           T == {above(i) : i \in among}
<1>1. ASSUME NEW i \in among
      PROVE  offers[i].window \in Nat
  BY EntryOfCatalogue
<1>2. IsFiniteSet(among)
  <2>1. IsFiniteSet(1..Len(offers))
    BY FS_Interval
  <2> QED
    BY <2>1, FS_Subset
<1>3. T \subseteq FiniteSubsetsOf(among) /\ T # {}
  <2>1. ASSUME NEW i \in among
        PROVE  above(i) \in FiniteSubsetsOf(among)
    <3>1. above(i) \subseteq among
      OBVIOUS
    <3> HIDE DEF above
    <3> QED
      BY <1>2, <3>1, FS_Subset DEF FiniteSubsetsOf
  <2> HIDE DEF above
  <2> QED
    BY <2>1
<1>4. IsWellFoundedOn(StrictSubsetOrdering(among), FiniteSubsetsOf(among))
  BY <1>2, FS_StrictSubsetOrderingWellFounded
<1>5. PICK A \in T : \A B \in T : <<B, A>> \notin StrictSubsetOrdering(among)
  <2> HIDE DEF T
  <2> QED
    BY <1>3, <1>4, WFMin
<1>6. PICK i \in among : A = above(i)
  BY <1>5
<1>7. ASSUME NEW j \in among
      PROVE  offers[j].window <= offers[i].window
  <2>1. SUFFICES ASSUME offers[i].window < offers[j].window
                 PROVE  FALSE
    BY <1>1
  <2>2. above(j) \subseteq above(i)
    BY <1>1, <2>1
  <2>3. i \in above(i) /\ i \notin above(j)
    BY <1>1, <2>1
  <2> HIDE DEF above
  <2>4. <<above(j), above(i)>> \in StrictSubsetOrdering(among)
    BY <2>2, <2>3, <1>6 DEF StrictSubsetOrdering, above
  <2> QED
    BY <1>5, <1>6, <2>4
<1> QED
  BY <1>6, <1>7 DEF Widest

(* Ranks are natural numbers, and the rank gives the tier away. *)
LEMMA TierRankNat ==
  ASSUME NEW t \in Tiers, NEW want \in Tiers
  PROVE  TierRank(t, want) \in Nat
BY DEF TierRank, TierLevel, Tiers, EscalationBase, FallbackBase

(* The best-ranked position is one of those it is chosen from, has the least *)
(* rank, and is the first to have it.                                        *)
LEMMA BestRankedIsFirstLeast ==
  ASSUME NEW offers \in Seq(Model), NEW among \in SUBSET DOMAIN offers, among # {},
         NEW want \in Tiers
  PROVE  LET b == BestRanked(offers, among, want)
         IN /\ b \in among
            /\ \A j \in among :
                 LET rb == TierRank(offers[b].tier, want)
                     rj == TierRank(offers[j].tier, want)
                 IN rb < rj \/ (rb = rj /\ b <= j)
<1> DEFINE rank(i) == TierRank(offers[i].tier, want)
           least == {i \in among : \A j \in among : rank(i) <= rank(j)}
<1>1. ASSUME NEW i \in among
      PROVE  i \in Nat /\ rank(i) \in Nat
  BY EntryOfCatalogue, TierRankNat
<1> HIDE DEF rank
<1>2. PICK r \in {rank(i) : i \in among} : \A s \in {rank(i) : i \in among} : r <= s
  <2>1. {rank(i) : i \in among} \subseteq Nat /\ {rank(i) : i \in among} # {}
    BY <1>1
  <2> QED
    BY <2>1, LeastNat
<1>3. least \subseteq Nat /\ least # {}
  BY <1>1, <1>2
<1>4. PICK b \in least : \A j \in least : b <= j
  <2> HIDE DEF least
  <2> QED
    BY <1>3, LeastNat
<1>5. b \in among /\ \A j \in among : rank(b) < rank(j) \/ (rank(b) = rank(j) /\ b <= j)
  <2>1. ASSUME NEW j \in among, ~(rank(b) < rank(j))
        PROVE  rank(b) = rank(j) /\ b <= j
    <3>1. rank(b) = rank(j)
      BY <1>1, <1>4, <2>1
    <3>2. j \in least
      BY <1>4, <3>1
    <3> QED
      BY <1>4, <3>1, <3>2
  <2> QED
    BY <1>4, <2>1
<1> QED
  BY <1>5 DEF BestRanked, rank

(***************************************************************************)
(* The selected model: none only when nothing covers; otherwise it covers, *)
(* fits whenever some covering model does, and is the widest when none     *)
(* does.                                                                   *)
(***************************************************************************)
THEOREM SelectionServes ==
  ASSUME NEW offers \in Seq(Model), NEW needed, NEW want \in Tiers, NEW estimate
  PROVE  LET b == SelectCandidate(offers, needed, want, estimate)
             covering == Covering(offers, needed)
             fitting == Fitting(offers, needed, estimate)
         IN /\ b = None <=> covering = {}
            /\ b # None => b \in covering
            /\ fitting # {} => b \in fitting
            /\ fitting = {} /\ covering # {} => b \in Widest(offers, covering)
<1> DEFINE covering == Covering(offers, needed)
           fitting == Fitting(offers, needed, estimate)
           widest == Widest(offers, covering)
<1>1. covering \subseteq DOMAIN offers /\ fitting \subseteq covering /\ widest \subseteq covering
  BY DEF Covering, Fitting, Widest
<1>2. None \notin DOMAIN offers
  BY DEF None
<1>3. covering # {} => widest # {}
  BY <1>1, WidestExists
<1>4. fitting # {} => BestRanked(offers, fitting, want) \in fitting
  BY <1>1, BestRankedIsFirstLeast
<1>5. covering # {} => BestRanked(offers, widest, want) \in widest
  BY <1>1, <1>3, BestRankedIsFirstLeast
<1> QED
  <2> HIDE DEF covering, fitting, widest
  <2>1. SelectCandidate(offers, needed, want, estimate) =
          IF fitting # {} THEN BestRanked(offers, fitting, want)
          ELSE IF covering # {} THEN BestRanked(offers, widest, want)
          ELSE None
    BY DEF SelectCandidate, covering, fitting, widest
  <2>2. /\ SelectCandidate(offers, needed, want, estimate) = None <=> covering = {}
        /\ SelectCandidate(offers, needed, want, estimate) # None =>
             SelectCandidate(offers, needed, want, estimate) \in covering
        /\ fitting # {} => SelectCandidate(offers, needed, want, estimate) \in fitting
        /\ fitting = {} /\ covering # {} =>
             SelectCandidate(offers, needed, want, estimate) \in widest
    BY <1>1, <1>2, <1>4, <1>5, <2>1
  <2> QED
    BY <2>2 DEF covering, fitting, widest

----------------------------------------------------------------------------
(* The policy as an order.  By tier the better rank goes first, and by      *)
(* declaration between equals; a model that fits goes before one that does  *)
(* not, and of two that do not, the one with the larger window.             *)
Earlier(offers, want, i, j) ==
  LET ri == TierRank(offers[i].tier, want)
      rj == TierRank(offers[j].tier, want)
  IN ri < rj \/ (ri = rj /\ i < j)

Better(offers, want, estimate, i, j) ==
  \/ Fits(offers[i], estimate) /\ ~Fits(offers[j], estimate)
  \/ /\ Fits(offers[i], estimate) /\ Fits(offers[j], estimate)
     /\ Earlier(offers, want, i, j)
  \/ /\ ~Fits(offers[i], estimate) /\ ~Fits(offers[j], estimate)
     /\ \/ offers[i].window > offers[j].window
        \/ offers[i].window = offers[j].window /\ Earlier(offers, want, i, j)

(* No two models are each better than the other. *)
LEMMA BetterOneWay ==
  ASSUME NEW offers \in Seq(Model), NEW i \in DOMAIN offers, NEW j \in DOMAIN offers,
         NEW want \in Tiers, NEW estimate, Better(offers, want, estimate, i, j)
  PROVE  ~Better(offers, want, estimate, j, i)
<1> DEFINE ri == TierRank(offers[i].tier, want)
           rj == TierRank(offers[j].tier, want)
<1>1. /\ i \in Nat /\ j \in Nat /\ offers[i].window \in Nat /\ offers[j].window \in Nat
      /\ ri \in Nat /\ rj \in Nat
  BY EntryOfCatalogue, TierRankNat
<1>2. /\ Earlier(offers, want, i, j) <=> ri < rj \/ (ri = rj /\ i < j)
      /\ Earlier(offers, want, j, i) <=> rj < ri \/ (rj = ri /\ j < i)
  BY DEF Earlier
<1> HIDE DEF ri, rj
<1>3. ~(Earlier(offers, want, i, j) /\ Earlier(offers, want, j, i))
  BY <1>1, <1>2
<1> QED
  BY <1>1, <1>3 DEF Better

(***************************************************************************)
(* Of the models that cover a request, the selected one is the one that is *)
(* better than every other.                                                *)
(***************************************************************************)
THEOREM SelectionIsBest ==
  ASSUME NEW offers \in Seq(Model), NEW needed, NEW want \in Tiers, NEW estimate,
         NEW b \in Covering(offers, needed)
  PROVE  b = SelectCandidate(offers, needed, want, estimate) <=>
           \A j \in Covering(offers, needed) \ {b} : Better(offers, want, estimate, b, j)
<1> DEFINE covering == Covering(offers, needed)
           fitting == Fitting(offers, needed, estimate)
           widest == Widest(offers, covering)
           s == SelectCandidate(offers, needed, want, estimate)
           rank(i) == TierRank(offers[i].tier, want)
<1>1. /\ covering \subseteq DOMAIN offers /\ fitting \subseteq covering /\ widest \subseteq covering
      /\ widest # {}
  <2>1. covering \subseteq DOMAIN offers /\ fitting \subseteq covering /\ widest \subseteq covering
    BY DEF Covering, Fitting, Widest
  <2> QED
    BY <2>1, WidestExists
<1>2. \A i \in covering : i \in Nat /\ offers[i].window \in Nat /\ rank(i) \in Nat
  <2> SUFFICES ASSUME NEW i \in covering
               PROVE  i \in Nat /\ offers[i].window \in Nat /\ rank(i) \in Nat
    OBVIOUS
  <2>1. i \in DOMAIN offers
    BY <1>1
  <2> QED
    BY <2>1, EntryOfCatalogue, TierRankNat
<1>3. \A i, j : Earlier(offers, want, i, j) <=> rank(i) < rank(j) \/ (rank(i) = rank(j) /\ i < j)
  BY DEF Earlier
<1> HIDE DEF rank
<1>4. ASSUME NEW among \in SUBSET covering, among # {}
      PROVE  /\ BestRanked(offers, among, want) \in among
             /\ \A j \in among \ {BestRanked(offers, among, want)} :
                  Earlier(offers, want, BestRanked(offers, among, want), j)
  <2> DEFINE t == BestRanked(offers, among, want)
  <2>1. t \in among /\ \A j \in among : rank(t) < rank(j) \/ (rank(t) = rank(j) /\ t <= j)
    BY <1>1, <1>4, BestRankedIsFirstLeast DEF rank
  <2> HIDE DEF t
  <2>2. \A j \in among \ {t} : Earlier(offers, want, t, j)
    BY <1>2, <1>3, <2>1
  <2> QED
    BY <2>1, <2>2 DEF t
<1>5. s \in covering /\ \A j \in covering \ {s} : Better(offers, want, estimate, s, j)
  <2>1. CASE fitting # {}
    <3>1. s = BestRanked(offers, fitting, want)
      BY <2>1 DEF SelectCandidate
    <3>2. s \in fitting /\ \A j \in fitting \ {s} : Earlier(offers, want, s, j)
      BY <1>1, <1>4, <2>1, <3>1
    <3>3. \A j \in covering : j \in fitting <=> Fits(offers[j], estimate)
      BY DEF Fitting
    <3> HIDE DEF s, covering, fitting
    <3> QED
      BY <1>1, <3>2, <3>3 DEF Better
  <2>2. CASE fitting = {}
    <3>1. s = BestRanked(offers, widest, want)
      BY <1>1, <2>2 DEF SelectCandidate
    <3>2. s \in widest /\ \A j \in widest \ {s} : Earlier(offers, want, s, j)
      BY <1>1, <1>4, <3>1
    <3>3. \A j \in covering : ~Fits(offers[j], estimate)
      BY <2>2 DEF Fitting
    <3>4. \A j \in covering : offers[j].window <= offers[s].window
      BY <3>2 DEF Widest
    <3>5. ASSUME NEW j \in covering, offers[j].window = offers[s].window
          PROVE  j \in widest
      BY <3>4, <3>5 DEF Widest
    <3> HIDE DEF s, covering, widest
    <3> QED
      BY <1>1, <1>2, <3>2, <3>3, <3>4, <3>5 DEF Better
  <2> QED
    BY <2>1, <2>2
<1> HIDE DEF covering, s
<1>6. b \in covering
  BY DEF covering
<1>7. ASSUME b # s, \A j \in covering \ {b} : Better(offers, want, estimate, b, j)
      PROVE  FALSE
  <2>1. Better(offers, want, estimate, b, s) /\ Better(offers, want, estimate, s, b)
    BY <1>5, <1>6, <1>7
  <2> QED
    BY <1>1, <1>5, <1>6, <2>1, BetterOneWay
<1> QED
  BY <1>5, <1>7 DEF s, covering

(* What is selected is something, and better than every other. *)
LEMMA SelectedIsBetter ==
  ASSUME NEW offers \in Seq(Model), NEW needed, NEW want \in Tiers, NEW estimate,
         NEW s, s = SelectCandidate(offers, needed, want, estimate),
         Covering(offers, needed) # {}
  PROVE  /\ s \in Covering(offers, needed)
         /\ \A j \in Covering(offers, needed) \ {s} : Better(offers, want, estimate, s, j)
<1>1. s \in Covering(offers, needed)
  BY SelectionServes
<1> QED
  BY <1>1, SelectionIsBest

(***************************************************************************)
(* A higher tier is never answered by a lower model: of the same request,  *)
(* judged more complex, the selected model's tier is the same or higher.   *)
(***************************************************************************)
THEOREM HigherTierNeverLowers ==
  ASSUME NEW offers \in Seq(Model), NEW needed, NEW estimate,
         NEW low \in Tiers, NEW high \in Tiers, TierLevel[low] <= TierLevel[high],
         Covering(offers, needed) # {}
  PROVE  TierLevel[offers[SelectCandidate(offers, needed, low, estimate)].tier] <=
         TierLevel[offers[SelectCandidate(offers, needed, high, estimate)].tier]
<1> DEFINE a == SelectCandidate(offers, needed, low, estimate)
           b == SelectCandidate(offers, needed, high, estimate)
<1>1. /\ a \in Covering(offers, needed) /\ b \in Covering(offers, needed)
      /\ a # b => Better(offers, low, estimate, a, b) /\ Better(offers, high, estimate, b, a)
  BY SelectedIsBetter
<1> HIDE DEF a, b
<1>2. /\ a \in DOMAIN offers /\ b \in DOMAIN offers
      /\ offers[a].tier \in Tiers /\ offers[b].tier \in Tiers
      /\ offers[a].window \in Nat /\ offers[b].window \in Nat
  <2>1. a \in DOMAIN offers /\ b \in DOMAIN offers
    BY <1>1 DEF Covering
  <2> QED
    BY <2>1, EntryOfCatalogue
<1>3. a # b => Earlier(offers, low, a, b) /\ Earlier(offers, high, b, a)
  BY <1>1, <1>2 DEF Better
<1>4. a # b => /\ TierRank(offers[a].tier, low) <= TierRank(offers[b].tier, low)
               /\ TierRank(offers[b].tier, high) <= TierRank(offers[a].tier, high)
  <2>1. ASSUME NEW i \in DOMAIN offers, NEW j \in DOMAIN offers, NEW want \in Tiers,
               Earlier(offers, want, i, j)
        PROVE  TierRank(offers[i].tier, want) <= TierRank(offers[j].tier, want)
    <3>1. /\ TierRank(offers[i].tier, want) \in Nat
          /\ TierRank(offers[j].tier, want) \in Nat
      BY EntryOfCatalogue, TierRankNat
    <3>2. \/ TierRank(offers[i].tier, want) < TierRank(offers[j].tier, want)
          \/ TierRank(offers[i].tier, want) = TierRank(offers[j].tier, want)
      BY <2>1 DEF Earlier
    <3> QED
      BY <3>1, <3>2
  <2> QED
    BY <1>2, <1>3, <2>1
<1>5. ASSUME NEW s \in Tiers, NEW t \in Tiers, TierRank(s, low) <= TierRank(t, low),
             TierRank(t, high) <= TierRank(s, high)
      PROVE  TierLevel[s] <= TierLevel[t]
  BY <1>5 DEF TierRank, TierLevel, Tiers, EscalationBase, FallbackBase
<1>6. \A t \in Tiers : TierLevel[t] \in Nat
  BY DEF TierLevel, Tiers
<1>7. TierLevel[offers[a].tier] <= TierLevel[offers[b].tier]
  BY <1>2, <1>4, <1>5, <1>6
<1> QED
  BY <1>7 DEF a, b

(***************************************************************************)
(* A selected model is left only when it no longer serves: if a request    *)
(* comes to need more, by an inferred image intent or a longer             *)
(* transcript, and the model still covers and fits, it is selected again.  *)
(***************************************************************************)
THEOREM SelectionIsStable ==
  ASSUME NEW offers \in Seq(Model), NEW want \in Tiers, NEW needed, NEW more,
         needed \subseteq more, NEW estimate \in Nat, NEW longer \in Nat, estimate <= longer,
         SelectCandidate(offers, needed, want, estimate) \in Fitting(offers, more, longer)
  PROVE  SelectCandidate(offers, more, want, longer) =
         SelectCandidate(offers, needed, want, estimate)
<1> DEFINE s == SelectCandidate(offers, needed, want, estimate)
<1>1. /\ s \in Covering(offers, more) /\ Fits(offers[s], longer)
      /\ Covering(offers, more) \subseteq Covering(offers, needed)
      /\ Covering(offers, needed) \subseteq DOMAIN offers
  BY DEF Fitting, Covering, Covers
<1>2. \A j \in Covering(offers, needed) \ {s} : Better(offers, want, estimate, s, j)
  BY <1>1, SelectedIsBetter
<1> HIDE DEF s
<1>3. ASSUME NEW j \in Covering(offers, more) \ {s}
      PROVE  Better(offers, want, longer, s, j)
  <2>1. offers[s].window \in Nat /\ offers[j].window \in Nat
    BY <1>1, EntryOfCatalogue
  <2>2. Fits(offers[s], estimate) /\ (Fits(offers[j], longer) => Fits(offers[j], estimate))
    BY <1>1, <2>1 DEF Fits
  <2>3. Better(offers, want, estimate, s, j)
    BY <1>1, <1>2
  <2> QED
    BY <1>1, <2>2, <2>3 DEF Better
<1> QED
  BY <1>1, <1>3, SelectionIsBest DEF s

(***************************************************************************)
(* A model added to the end of the catalogue takes over a request only by  *)
(* merit, never by a tie: nothing else covered; or it fits and the former  *)
(* choice did not, or is of a worse tier; or neither fits and it has the   *)
(* larger window, or the same and a better tier.                           *)
(***************************************************************************)
THEOREM AddedModelWinsByMerit ==
  ASSUME NEW offers \in Seq(Model), NEW m \in Model, NEW needed, NEW want \in Tiers, NEW estimate
  PROVE  LET former == SelectCandidate(offers, needed, want, estimate)
             now == SelectCandidate(Append(offers, m), needed, want, estimate)
             better == TierRank(m.tier, want) < TierRank(offers[former].tier, want)
         IN now # former =>
              /\ now = Len(offers) + 1 /\ Covers(m, needed)
              /\ \/ former = None
                 \/ Fits(m, estimate) /\ (better \/ ~Fits(offers[former], estimate))
                 \/ /\ ~Fits(m, estimate) /\ ~Fits(offers[former], estimate)
                    /\ \/ m.window > offers[former].window
                       \/ m.window = offers[former].window /\ better
<1> DEFINE longer == Append(offers, m)
           former == SelectCandidate(offers, needed, want, estimate)
           now == SelectCandidate(longer, needed, want, estimate)
           better == TierRank(m.tier, want) < TierRank(offers[former].tier, want)
           n == Len(offers)
<1>1. /\ longer \in Seq(Model) /\ n \in Nat /\ DOMAIN offers = 1..n /\ DOMAIN longer = 1..(n + 1)
      /\ \A i \in 1..n : longer[i] = offers[i]
      /\ longer[n + 1] = m
  BY AppendProperties
<1> HIDE DEF longer, n
<1>2. /\ \A i \in 1..n : i \in Covering(longer, needed) <=> i \in Covering(offers, needed)
      /\ n + 1 \in Covering(longer, needed) <=> Covers(m, needed)
      /\ Covering(longer, needed) \subseteq 1..(n + 1)
      /\ Covering(offers, needed) \subseteq 1..n
  BY <1>1 DEF Covering
<1>3. \A i, j \in 1..n : Better(longer, want, estimate, i, j) <=> Better(offers, want, estimate, i, j)
  BY <1>1 DEF Better, Earlier
<1> SUFFICES ASSUME now # former
             PROVE  /\ now = n + 1 /\ Covers(m, needed)
                    /\ \/ former = None
                       \/ Fits(m, estimate) /\ (better \/ ~Fits(offers[former], estimate))
                       \/ /\ ~Fits(m, estimate) /\ ~Fits(offers[former], estimate)
                          /\ \/ m.window > offers[former].window
                             \/ m.window = offers[former].window /\ better
  BY DEF longer, n
<1>4. Covering(longer, needed) # {}
  <2>1. Covering(longer, needed) = {} => Covering(offers, needed) = {}
    BY <1>1, <1>2
  <2>2. /\ former = None <=> Covering(offers, needed) = {}
        /\ now = None <=> Covering(longer, needed) = {}
    BY <1>1, SelectionServes
  <2> QED
    BY <2>1, <2>2
<1>5. /\ now \in Covering(longer, needed)
      /\ \A j \in Covering(longer, needed) \ {now} : Better(longer, want, estimate, now, j)
  BY <1>1, <1>4, SelectedIsBetter
<1>6. former # None => former \in Covering(offers, needed)
  BY SelectionServes
<1> HIDE DEF now
<1>7. now = n + 1
  <2>1. ASSUME now \in 1..n
        PROVE  FALSE
    <3>1. now \in Covering(offers, needed)
      BY <1>2, <1>5, <2>1
    <3>2. \A j \in Covering(offers, needed) \ {now} : Better(offers, want, estimate, now, j)
      BY <1>1, <1>2, <1>3, <1>5, <2>1
    <3>3. now = former
      BY <3>1, <3>2, SelectionIsBest
    <3> QED
      BY <3>3
  <2> QED
    BY <1>1, <1>2, <1>5, <2>1
<1>8. Covers(m, needed)
  BY <1>2, <1>5, <1>7
<1> HIDE DEF former
<1>9. ASSUME former # None
      PROVE  \/ Fits(m, estimate) /\ (better \/ ~Fits(offers[former], estimate))
             \/ /\ ~Fits(m, estimate) /\ ~Fits(offers[former], estimate)
                /\ \/ m.window > offers[former].window
                   \/ m.window = offers[former].window /\ better
  <2>1. former \in 1..n /\ former \in Covering(longer, needed) /\ former # now
    BY <1>2, <1>6, <1>9
  <2>2. Better(longer, want, estimate, n + 1, former)
    BY <1>5, <1>7, <2>1
  <2>3. Earlier(longer, want, n + 1, former) => better
    <3>1. ~(n + 1 < former) /\ n + 1 # former
      BY <1>1, <2>1
    <3> QED
      BY <1>1, <2>1, <3>1 DEF Earlier
  <2> QED
    BY <1>1, <2>1, <2>2, <2>3 DEF Better
<1> QED
  BY <1>7, <1>8, <1>9

(***************************************************************************)
(* With exactly one candidate within its window the tier is irrelevant,    *)
(* which is why classification may be skipped then.                        *)
(***************************************************************************)
THEOREM SoleCandidateNeedsNoTier ==
  ASSUME NEW offers \in Seq(Model), NEW needed, NEW estimate,
         CountCandidates(offers, needed, estimate) = 1,
         NEW want \in Tiers, NEW other \in Tiers
  PROVE  SelectCandidate(offers, needed, want, estimate) =
         SelectCandidate(offers, needed, other, estimate)
<1> DEFINE fitting == Fitting(offers, needed, estimate)
<1>1. fitting \subseteq DOMAIN offers
  BY DEF Fitting, Covering
<1>2. IsFiniteSet(fitting)
  <2>1. IsFiniteSet(1..Len(offers))
    BY FS_Interval
  <2> QED
    BY <1>1, <2>1, FS_Subset
<1>3. Cardinality(fitting) = 1
  BY DEF CountCandidates
<1>4. PICK i : fitting = {i}
  <2> HIDE DEF fitting
  <2> QED
    BY <1>2, <1>3, FS_Singleton
<1>5. SelectCandidate(offers, needed, want, estimate) \in fitting
  BY <1>4, SelectionServes
<1>6. SelectCandidate(offers, needed, other, estimate) \in fitting
  BY <1>4, SelectionServes
<1> HIDE DEF fitting
<1> QED
  BY <1>4, <1>5, <1>6

(***************************************************************************)
(* The life cycle of requests.                                             *)
(***************************************************************************)

(* The parts of the type invariant that the steps of a request change. *)
Configured ==
  /\ models \in Catalogue
  /\ idleGuard \in BOOLEAN
  /\ input \in [Requests -> Input]

(* What the proofs need of the range of a configuration and a request.      *)
LEMMA InputTyped ==
  ASSUME Configured, NEW r \in Requests
  PROVE  /\ models \in Seq(Model)
         /\ input[r].needs \in SUBSET Modalities
         /\ input[r].stream \in BOOLEAN /\ input[r].valid \in BOOLEAN
         /\ input[r].text \in Texts
<1>1. input[r] \in Input
  BY DEF Configured
<1> QED
  BY <1>1 DEF Configured, Catalogue, Input

(* What the lexical prefilter makes of a request. *)
LEMMA LexicalRouteIs ==
  ASSUME Configured, NEW r \in Requests
  PROVE  /\ LexicalRoute(r)[1] \in SUBSET Modalities
         /\ LexicalRoute(r)[2] \in Sources
         /\ \/ /\ LexicalRoute(r)[1] = input[r].needs
               /\ LexicalRoute(r)[2] # "none" => "image-output" \in input[r].needs
            \/ /\ LexicalRoute(r)[1] = WithImage(input[r].needs)
               /\ ImageServable(r)
<1> DEFINE needs == input[r].needs
<1>1. needs \in SUBSET Modalities /\ WithImage(needs) \in SUBSET Modalities
  BY InputTyped DEF WithImage, Modalities
<1>2. CASE "image-output" \in needs
  <2>1. LexicalRoute(r) = <<needs, "explicit">>
    BY <1>2 DEF LexicalRoute
  <2> QED
    BY <1>1, <1>2, <2>1 DEF Sources
<1>3. CASE /\ "image-output" \notin needs
           /\ input[r].lexical /\ "image-output" \notin input[r].needs /\ ImageServable(r)
  <2>1. LexicalRoute(r) = <<WithImage(needs), "lexical">>
    BY <1>3 DEF LexicalRoute
  <2> QED
    BY <1>1, <1>3, <2>1 DEF Sources
<1>4. CASE /\ "image-output" \notin needs
           /\ ~(input[r].lexical /\ "image-output" \notin input[r].needs /\ ImageServable(r))
  <2>1. LexicalRoute(r) = <<needs, "none">>
    BY <1>4 DEF LexicalRoute
  <2> QED
    BY <1>1, <1>4, <2>1 DEF Sources
<1> QED
  BY <1>2, <1>3, <1>4

(* A request always has a tier, that of its verdict or the default.         *)
LEMMA WantedTier ==
  ASSUME TypeOK, NEW r \in Requests
  PROVE  Wanted(r) \in Tiers
BY DEF TypeOK, Wanted, Tiers

(* A selection is a position of the catalogue, or none.                     *)
LEMMA SelectedPosition ==
  ASSUME Configured, NEW needed, NEW want \in Tiers, NEW estimate
  PROVE  SelectCandidate(models, needed, want, estimate) \in Nat
<1> DEFINE b == SelectCandidate(models, needed, want, estimate)
<1>1. models \in Seq(Model)
  BY DEF Configured, Catalogue
<1>2. b = None \/ b \in DOMAIN models
  <2>1. b # None => b \in Covering(models, needed)
    <3>1. b = None <=> Covering(models, needed) = {}
      BY <1>1, SelectionServes
    <3> QED
      BY <1>1, <3>1, SelectionServes
  <2> HIDE DEF b
  <2> QED
    BY <2>1 DEF Covering
<1> HIDE DEF b
<1>3. b \in Nat
  BY <1>1, <1>2, EntryOfCatalogue DEF None
<1> QED
  BY <1>3 DEF b

(* Counting a request keeps the counters in their range.                    *)
LEMMA CountTyped ==
  ASSUME TypeOK, NEW r \in Requests, NEW label \in Labels, Count(r, label)
  PROVE  counted' \in [Requests -> Seq(Labels)]
<1>1. Append(counted[r], label) \in Seq(Labels)
  BY DEF TypeOK
<1> QED
  BY <1>1 DEF TypeOK, Count

----------------------------------------------------------------------------
(* A handler that moves to a place is at a place. *)
LEMMA MoveTyped ==
  ASSUME pc \in [Requests -> Place], NEW r \in Requests, NEW from, NEW to \in Place,
         Moves(r, from, to)
  PROVE  pc' \in [Requests -> Place]
BY DEF Moves

(* Every step keeps the types: one step of the proof per action. *)
LEMMA TypeStep ==
  ASSUME TypeOK, [Next]_vars
  PROVE  TypeOK'
<1> USE DEF TypeOK, Place, InFlight, Awaiting, Answers, Labels, Statuses, Failures,
            config, route, books, Moves, Count
<1>0. Configured
  BY DEF Configured
<1>1. ASSUME NEW r \in Requests, Connect(r) \/ Receive(r)
      PROVE  TypeOK'
  BY <1>1 DEF Connect, Receive
<1>2. ASSUME NEW r \in Requests, Resolve(r)
      PROVE  TypeOK'
  <2>1. /\ LexicalRoute(r)[1] \in SUBSET Modalities
        /\ LexicalRoute(r)[2] \in Sources
    BY <1>0, LexicalRouteIs
  <2>2. tier' \in [Requests -> Tiers \cup {"skipped"}]
    BY <1>2 DEF Resolve, Tiers
  <2>3. pc' \in [Requests -> Place]
    <3>1. PICK to \in {"select", "classify"} : Moves(r, "resolve", to)
      BY <1>2 DEF Resolve
    <3>2. to \in Place
      OBVIOUS
    <3> QED
      BY ONLY TypeOK, <3>1, <3>2, MoveTyped DEF TypeOK
  <2> QED
    BY <1>2, <2>1, <2>2, <2>3 DEF Resolve
<1>3. ASSUME NEW r \in Requests, Classified(r)
      PROVE  TypeOK'
  <2>1. WithImage(required[r]) \in SUBSET Modalities
    BY DEF WithImage, Modalities
  <2>2. /\ required' \in [Requests -> SUBSET Modalities]
        /\ source' \in [Requests -> Sources]
        /\ tier' \in [Requests -> Tiers \cup {"skipped"}]
    BY <1>3, <2>1 DEF Classified, Sources
  <2> QED
    BY <1>3, <2>2 DEF Classified
<1>4. ASSUME NEW r \in Requests, ClassifyFails(r)
      PROVE  TypeOK'
  BY <1>4 DEF ClassifyFails, Tiers
<1>5. ASSUME NEW r \in Requests, Select(r)
      PROVE  TypeOK'
  <2>1. SelectCandidate(models, required[r], Wanted(r), input[r].estimate) \in Nat
    BY <1>0, WantedTier, SelectedPosition
  <2>2. counted' \in [Requests -> Seq(Labels)]
    <3>1. CASE Count(r, "422")
      BY <3>1, CountTyped DEF Labels
    <3>2. CASE UNCHANGED counted
      BY <3>2
    <3> QED
      BY <1>5, <3>1, <3>2 DEF Select
  <2>3. pc' \in [Requests -> Place] /\ answer' \in [Requests -> Answers]
    BY <1>5 DEF Select
  <2>4. backend' \in [Requests -> Nat]
    BY <1>5, <2>1 DEF Select
  <2> QED
    BY <1>5, <2>2, <2>3, <2>4 DEF Select
<1>6. ASSUME NEW r \in Requests, Authorized(r) \/ AuthFails(r) \/ Disconnect(r)
      PROVE  TypeOK'
  BY <1>6 DEF Authorized, AuthFails, Disconnect
<1>7. ASSUME NEW r \in Requests, Responds(r)
      PROVE  TypeOK'
  <2>1. PICK s \in Statuses :
          /\ Moves(r, "send", IF input[r].stream /\ s = "2xx" THEN "stream" ELSE "read")
          /\ status' = [status EXCEPT ![r] = s]
          /\ Count(r, s)
    BY <1>7 DEF Responds
  <2>2. counted' \in [Requests -> Seq(Labels)]
    BY <2>1, CountTyped DEF Labels
  <2>3. pc' \in [Requests -> Place]
    BY <2>1
  <2> QED
    BY <1>7, <2>1, <2>2, <2>3 DEF Responds
<1>8. ASSUME NEW r \in Requests, SendFails(r) \/ SendTimesOut(r)
      PROVE  TypeOK'
  <2>1. PICK failure \in Failures : Count(r, failure) /\ answer' = [answer EXCEPT ![r] = failure]
    BY <1>8 DEF SendFails, SendTimesOut
  <2>2. counted' \in [Requests -> Seq(Labels)] /\ answer' \in [Requests -> Answers]
    BY <2>1, CountTyped
  <2> QED
    BY <1>8, <2>2 DEF SendFails, SendTimesOut
<1>9. ASSUME NEW r \in Requests, BodyRead(r)
      PROVE  TypeOK'
  <2>1. usage' \in [Requests -> Nat] /\ answer' \in [Requests -> Answers]
    BY <1>9 DEF BodyRead
  <2> QED
    BY <1>9, <2>1 DEF BodyRead
<1>10. ASSUME NEW r \in Requests,
              BodyFails(r) \/ BodyTimesOut(r) \/ StreamEnds(r) \/ StreamCut(r) \/ StreamTimesOut(r)
       PROVE  TypeOK'
  <2>1. CASE BodyFails(r) \/ StreamCut(r)
    BY <2>1 DEF BodyFails, StreamCut
  <2>2. CASE StreamEnds(r)
    BY <2>2 DEF StreamEnds
  <2> QED
    BY <1>10, <2>1, <2>2 DEF BodyTimesOut, StreamTimesOut
<1>11. CASE Shutdown \/ Flush
  BY <1>11 DEF Shutdown, Flush
<1>12. CASE UNCHANGED vars
  BY <1>12 DEF vars
<1> QED
  BY <1>1, <1>2, <1>3, <1>4, <1>5, <1>6, <1>7, <1>8, <1>9, <1>10, <1>11, <1>12
     DEF Next, Handler, Upstream

(***************************************************************************)
(* The variables of the life cycle stay in their ranges; in particular the *)
(* books hold only the labels the metrics document.                        *)
(***************************************************************************)
THEOREM RouterTypeCorrect == Spec => []TypeOK
<1>1. Init => TypeOK
  BY RouterAssumption DEF Init, TypeOK, Place, Sources, Answers, None
<1>2. TypeOK /\ [Next]_vars => TypeOK'
  BY TypeStep
<1> QED
  BY <1>1, <1>2, PTL DEF Spec

----------------------------------------------------------------------------
(***************************************************************************)
(* The route.  A request's requirement is what it states, or what it       *)
(* states and an image intent that some model serves within its window;    *)
(* and what was selected is a function of the requirement and the tier.    *)
(* None of the properties below is inductive without this.                 *)
(***************************************************************************)
Early == {"idle", "receive", "resolve", "classify", "select"}

RequiredSound(r) ==
  \/ /\ required[r] = input[r].needs
     /\ source[r] # "none" => "image-output" \in input[r].needs
  \/ required[r] = WithImage(input[r].needs) /\ ImageServable(r)

Selected(r) == SelectCandidate(models, required[r], Wanted(r), input[r].estimate)

Routed(r) == pc[r] = "select" \/ backend[r] # None \/ answer[r] = "422"

RouteOK(r) ==
  /\ pc[r] \in Early => backend[r] = None /\ answer[r] = "none"
  /\ pc[r] = "classify" \/ Routed(r) => RequiredSound(r)
  /\ Routed(r) /\ tier[r] = "skipped" =>
       CountCandidates(models, required[r], input[r].estimate) <= 1
  /\ backend[r] # None => backend[r] = Selected(r)
  /\ answer[r] = "422" => Selected(r) = None

RouteInv == \A r \in Requests : RouteOK(r)

(* A step after the selection, or of another request, leaves a route alone. *)
LEMMA RouteKept ==
  ASSUME NEW r \in Requests, RouteOK(r),
         models' = models, input'[r] = input[r], backend'[r] = backend[r],
         required'[r] = required[r], source'[r] = source[r], tier'[r] = tier[r],
         pc'[r] = pc[r] \/ pc'[r] \notin Early \/ pc'[r] \in {"idle", "receive", "resolve"},
         pc'[r] \in Early => pc[r] \in Early,
         answer'[r] = answer[r] \/ (pc'[r] \notin Early /\ answer'[r] # "422")
  PROVE  RouteOK(r)'
<1>1. RequiredSound(r)' = RequiredSound(r)
  BY DEF RequiredSound, ImageServable
<1>2. Selected(r)' = Selected(r)
  BY DEF Selected, Wanted
<1>3. Routed(r)' => Routed(r)
  BY DEF Routed, Early
<1>4. pc'[r] = "classify" => pc[r] = "classify"
  BY DEF Early
<1> QED
  BY <1>1, <1>2, <1>3, <1>4 DEF RouteOK, Routed

(* No step of a handler breaks what its route is made of.                   *)
LEMMA RouteStep ==
  ASSUME TypeOK, RouteInv, [Next]_vars
  PROVE  RouteInv'
<1> SUFFICES ASSUME NEW q \in Requests
             PROVE  RouteOK(q)'
  BY DEF RouteInv
<1>0. Configured /\ RouteOK(q)
  BY DEF Configured, TypeOK, RouteInv
<1> USE DEF config, route, books, Moves, Count
<1>1. ASSUME NEW r \in Requests, Connect(r) \/ Receive(r)
      PROVE  RouteOK(q)'
  BY <1>0, <1>1, RouteKept DEF Connect, Receive, TypeOK, Early
<1>2. ASSUME NEW r \in Requests, Resolve(r)
      PROVE  RouteOK(q)'
  <2>1. CASE q # r
    BY <1>0, <1>2, <2>1, RouteKept DEF Resolve, TypeOK
  <2>2. CASE q = r
    <3>1. /\ required'[r] = LexicalRoute(r)[1] /\ source'[r] = LexicalRoute(r)[2]
          /\ models' = models /\ input' = input
          /\ backend'[r] = None /\ answer'[r] = "none"
      BY <1>0, <1>2, <2>2 DEF Resolve, TypeOK, RouteOK, Early
    <3>2. RequiredSound(r)'
      BY <1>0, <3>1, LexicalRouteIs DEF RequiredSound, ImageServable
    <3>3. tier'[r] = "skipped" /\ pc'[r] = "select" =>
            CountCandidates(models', required'[r], input'[r].estimate) <= 1
      BY <1>2, <3>1 DEF Resolve, TypeOK, SkipsClassification
    <3> QED
      BY <2>2, <3>1, <3>2, <3>3 DEF RouteOK, Routed
  <2> QED
    BY <2>1, <2>2
<1>3. ASSUME NEW r \in Requests, Classified(r) \/ ClassifyFails(r)
      PROVE  RouteOK(q)'
  <2>1. CASE q # r
    BY <1>0, <1>3, <2>1, RouteKept DEF Classified, ClassifyFails, TypeOK
  <2>2. CASE q = r
    <3>1. /\ models' = models /\ input' = input
          /\ backend'[r] = None /\ answer'[r] = "none"
          /\ RequiredSound(r)
      BY <1>0, <1>3, <2>2 DEF Classified, ClassifyFails, TypeOK, RouteOK, Early
    <3>2. tier'[r] # "skipped"
      BY <1>3 DEF Classified, ClassifyFails, TypeOK, Tiers
    <3>3. RequiredSound(r)'
      <4>1. CASE required'[r] = required[r] /\ source'[r] = source[r]
        BY <3>1, <4>1 DEF RequiredSound, ImageServable
      <4>2. CASE /\ required'[r] = WithImage(required[r])
                 /\ ImageServable(r) /\ "image-output" \notin required[r]
        <5>1. required[r] = input[r].needs
          BY <3>1, <4>2 DEF RequiredSound, WithImage
        <5> QED
          BY <3>1, <4>2, <5>1 DEF RequiredSound, ImageServable
      <4>3. \/ required'[r] = required[r] /\ source'[r] = source[r]
            \/ /\ required'[r] = WithImage(required[r])
               /\ ImageServable(r) /\ "image-output" \notin required[r]
        BY <1>3 DEF Classified, ClassifyFails, TypeOK
      <4> QED
        BY <4>1, <4>2, <4>3
    <3> QED
      BY <2>2, <3>1, <3>2, <3>3 DEF RouteOK, Routed
  <2> QED
    BY <2>1, <2>2
<1>4. ASSUME NEW r \in Requests, Select(r)
      PROVE  RouteOK(q)'
  <2>1. CASE q # r
    BY <1>0, <1>4, <2>1, RouteKept DEF Select, TypeOK
  <2>2. CASE q = r
    <3>1. /\ models' = models /\ input' = input /\ required' = required
          /\ source' = source /\ tier' = tier
          /\ Routed(r) /\ answer[r] = "none"
      BY <1>0, <1>4, <2>2 DEF Select, RouteOK, Routed, Early
    <3>2. RequiredSound(r)' = RequiredSound(r) /\ Selected(r)' = Selected(r)
      BY <3>1 DEF RequiredSound, ImageServable, Selected, Wanted
    <3>3. /\ backend'[r] = Selected(r)
          /\ answer'[r] = "422" => Selected(r) = None
          /\ pc'[r] \notin Early
      BY <1>4, <3>1 DEF Select, Selected, TypeOK, Early
    <3>4. RequiredSound(r) /\ (tier[r] = "skipped" =>
             CountCandidates(models, required[r], input[r].estimate) <= 1)
      BY <1>0, <2>2, <3>1 DEF RouteOK
    <3> QED
      BY <2>2, <3>1, <3>2, <3>3, <3>4 DEF RouteOK, Early
  <2> QED
    BY <2>1, <2>2
<1>5. ASSUME NEW r \in Requests, Authorized(r) \/ AuthFails(r) \/ Disconnect(r)
      PROVE  RouteOK(q)'
  <2>1. CASE Authorized(r)
    BY <1>0, <2>1, RouteKept DEF Authorized, TypeOK, Early
  <2>2. CASE AuthFails(r)
    BY <1>0, <2>2, RouteKept DEF AuthFails, TypeOK, Early
  <2>3. CASE Disconnect(r)
    BY <1>0, <2>3, RouteKept DEF Disconnect, TypeOK, Early
  <2> QED
    BY <1>5, <2>1, <2>2, <2>3
<1>6. ASSUME NEW r \in Requests, Upstream(r)
      PROVE  RouteOK(q)'
  <2>1. CASE Responds(r)
    BY <1>0, <2>1, RouteKept DEF Responds, TypeOK, Early
  <2>2. CASE SendFails(r) \/ SendTimesOut(r)
    BY <1>0, <2>2, RouteKept DEF SendFails, SendTimesOut, Failures, TypeOK, Early
  <2>3. CASE BodyRead(r)
    BY <1>0, <2>3, RouteKept DEF BodyRead, Statuses, TypeOK, Early
  <2>4. CASE BodyFails(r) \/ StreamEnds(r) \/ StreamCut(r)
    BY <1>0, <2>4, RouteKept DEF BodyFails, StreamEnds, StreamCut, TypeOK, Early
  <2> QED
    BY <1>6, <2>1, <2>2, <2>3, <2>4 DEF Upstream, BodyTimesOut, StreamTimesOut
<1>7. CASE Shutdown \/ Flush \/ UNCHANGED vars
  BY <1>0, <1>7, RouteKept DEF Shutdown, Flush, vars
<1> QED
  BY <1>1, <1>2, <1>3, <1>4, <1>5, <1>6, <1>7 DEF Next, Handler

(* What is required, skipped and selected for a request agrees, in every    *)
(* state.                                                                   *)
LEMMA RouteAlways == Spec => [](TypeOK /\ RouteInv)
<1>1. Init => RouteInv
  BY DEF Init, RouteInv, RouteOK, Routed, None
<1>2. TypeOK /\ RouteInv /\ [Next]_vars => RouteInv'
  BY RouteStep
<1> QED
  BY <1>1, <1>2, RouterTypeCorrect, PTL DEF Spec

----------------------------------------------------------------------------
(* An image intent is only taken up when some model can act on it. *)
LEMMA ServableImageFits ==
  ASSUME NEW r \in Requests, ImageServable(r)
  PROVE  Fitting(models, WithImage(input[r].needs), input[r].estimate) # {}
<1> DEFINE fitting == Fitting(models, WithImage(input[r].needs), input[r].estimate)
<1>1. Cardinality(fitting) > 0
  BY DEF ImageServable, CountCandidates
<1> HIDE DEF fitting
<1>2. fitting # {}
  BY <1>1, FS_EmptySet
<1> QED
  BY <1>2 DEF fitting

(* What is selected for a request, from SelectionServes. *)
LEMMA SelectedServes ==
  ASSUME TypeOK, NEW r \in Requests
  PROVE  LET covering == Covering(models, required[r])
             fitting  == Fitting(models, required[r], input[r].estimate)
         IN /\ Selected(r) = None <=> covering = {}
            /\ Selected(r) # None => Selected(r) \in covering
            /\ fitting # {} => Selected(r) \in fitting
            /\ fitting = {} /\ covering # {} => Selected(r) \in Widest(models, covering)
<1>1. models \in Seq(Model)
  BY DEF TypeOK, Catalogue
<1>2. Wanted(r) \in Tiers
  BY WantedTier
<1> QED
  BY <1>1, <1>2, SelectionServes DEF Selected

(***************************************************************************)
(* No request is refused for an image it did not ask for.                  *)
(***************************************************************************)
THEOREM InferenceNeverRefuses == Spec => []RefusedOnlyUncovered
<1>1. TypeOK /\ RouteInv => RefusedOnlyUncovered
  <2> SUFFICES ASSUME TypeOK, RouteInv, NEW r \in Requests, answer[r] = "422"
               PROVE  Covering(models, input[r].needs) = {}
    BY DEF RefusedOnlyUncovered
  <2>1. RequiredSound(r) /\ Selected(r) = None
    BY DEF RouteInv, RouteOK, Routed
  <2>2. Covering(models, required[r]) = {}
    BY <2>1, SelectedServes
  <2>3. CASE required[r] = WithImage(input[r].needs) /\ ImageServable(r)
    BY <2>2, <2>3, ServableImageFits DEF Fitting
  <2> QED
    BY <2>1, <2>2, <2>3 DEF RequiredSound
<1> QED
  BY <1>1, RouteAlways, PTL

(***************************************************************************)
(* The backend a request is sent to can do everything it requires.         *)
(***************************************************************************)
THEOREM BackendAlwaysCovers == Spec => []BackendCovers
<1>1. TypeOK /\ RouteInv => BackendCovers
  <2> SUFFICES ASSUME TypeOK, RouteInv, NEW r \in Requests, backend[r] # None
               PROVE  /\ backend[r] \in DOMAIN models
                      /\ Covers(models[backend[r]], input[r].needs)
                      /\ source[r] # "none" =>
                           Covers(models[backend[r]], WithImage(input[r].needs))
    BY DEF BackendCovers
  <2>1. RequiredSound(r) /\ backend[r] = Selected(r)
    BY DEF RouteInv, RouteOK, Routed
  <2>2. backend[r] \in Covering(models, required[r])
    BY <2>1, SelectedServes
  <2> QED
    BY <2>1, <2>2 DEF Covering, Covers, RequiredSound, WithImage
<1> QED
  BY <1>1, RouteAlways, PTL

(* The model the request would have gone to, at the same tier, had nothing  *)
(* been inferred, is the one it goes to if that serves the intent as well.  *)
SameWithout(r) ==
  LET plain == SelectCandidate(models, input[r].needs, Wanted(r), input[r].estimate)
  IN plain \in Fitting(models, required[r], input[r].estimate) => backend[r] = plain

(***************************************************************************)
(* An inferred image intent takes a request from the model it would have   *)
(* gone to without it only when that model does not serve the intent       *)
(* within its window.                                                      *)
(***************************************************************************)
THEOREM InferenceDivertsOnlyForNeed ==
  Spec => [](\A r \in Requests : backend[r] # None => SameWithout(r))
<1>1. ASSUME TypeOK, RouteInv, NEW r \in Requests, backend[r] # None,
             SelectCandidate(models, input[r].needs, Wanted(r), input[r].estimate)
               \in Fitting(models, required[r], input[r].estimate)
      PROVE  backend[r] = SelectCandidate(models, input[r].needs, Wanted(r), input[r].estimate)
  <2>1. RequiredSound(r) /\ backend[r] = Selected(r)
    BY <1>1 DEF RouteInv, RouteOK, Routed
  <2>2. input[r].needs \subseteq required[r]
    BY <2>1 DEF RequiredSound, WithImage
  <2>3. models \in Seq(Model) /\ input[r].estimate \in Nat /\ Wanted(r) \in Tiers
    <3>1. input[r] \in Input
      BY <1>1 DEF TypeOK
    <3> QED
      BY <1>1, <3>1, WantedTier DEF TypeOK, Catalogue, Input
  <2>4. input[r].estimate <= input[r].estimate
    BY <2>3
  <2> QED
    BY <1>1, <2>1, <2>2, <2>3, <2>4, SelectionIsStable DEF Selected
<1>2. TypeOK /\ RouteInv => \A r \in Requests : backend[r] # None => SameWithout(r)
  BY <1>1 DEF SameWithout
<1> QED
  BY <1>2, RouteAlways, PTL

(***************************************************************************)
(* A backend's window is overflowed only when every model that covers the  *)
(* request is too small for it, and then the backend is a largest one.     *)
(***************************************************************************)
THEOREM OverflowIsUnavoidable == Spec => []OverflowOnlyUnavoidable
<1>1. TypeOK /\ RouteInv => OverflowOnlyUnavoidable
  <2> SUFFICES ASSUME TypeOK, RouteInv, NEW r \in Requests, backend[r] # None,
                      ~Fits(models[backend[r]], input[r].estimate)
               PROVE  /\ Fitting(models, input[r].needs, input[r].estimate) = {}
                      /\ \A i \in Covering(models, input[r].needs) :
                           models[i].window <= models[backend[r]].window
    BY DEF OverflowOnlyUnavoidable
  <2>1. RequiredSound(r) /\ backend[r] = Selected(r)
    BY DEF RouteInv, RouteOK, Routed
  <2>2. Fitting(models, required[r], input[r].estimate) = {}
    <3>1. backend[r] \notin Fitting(models, required[r], input[r].estimate)
      BY DEF Fitting
    <3> QED
      BY <2>1, <3>1, SelectedServes
  <2>3. required[r] = input[r].needs
    BY <2>1, <2>2, ServableImageFits DEF RequiredSound
  <2>4. backend[r] \in Widest(models, Covering(models, required[r]))
    BY <2>1, <2>2, SelectedServes
  <2> QED
    BY <2>2, <2>3, <2>4 DEF Widest
<1> QED
  BY <1>1, RouteAlways, PTL

(***************************************************************************)
(* Where classification is skipped and the request fits, it would have     *)
(* changed nothing.                                                        *)
(***************************************************************************)
THEOREM SkippingIsHarmless == Spec => []SkippedSoleCandidate
<1>1. TypeOK /\ RouteInv => SkippedSoleCandidate
  <2> SUFFICES ASSUME TypeOK, RouteInv, NEW r \in Requests, backend[r] # None,
                      tier[r] = "skipped",
                      Fits(models[backend[r]], input[r].estimate), NEW t \in Tiers
               PROVE  backend[r] =
                        SelectCandidate(models, required[r], t, input[r].estimate)
    BY DEF SkippedSoleCandidate
  <2> DEFINE fitting == Fitting(models, required[r], input[r].estimate)
  <2>1. /\ backend[r] = Selected(r)
        /\ CountCandidates(models, required[r], input[r].estimate) <= 1
    BY DEF RouteInv, RouteOK, Routed
  <2>2. backend[r] \in fitting
    BY <2>1, SelectedServes DEF Fitting
  <2>3. IsFiniteSet(fitting)
    <3>1. fitting \subseteq 1..Len(models) /\ models \in Seq(Model)
      BY DEF Fitting, Covering, TypeOK, Catalogue
    <3>2. IsFiniteSet(1..Len(models))
      BY <3>1, FS_Interval
    <3> QED
      BY <3>1, <3>2, FS_Subset
  <2>4. Cardinality(fitting) = 1
    <3>1. Cardinality(fitting) <= 1
      BY <2>1 DEF CountCandidates
    <3> HIDE DEF fitting
    <3> QED
      BY <2>2, <2>3, <3>1, FS_EmptySet, FS_CardinalityType
  <2>5. CountCandidates(models, required[r], input[r].estimate) = 1
    BY <2>4 DEF CountCandidates
  <2>6. models \in Seq(Model) /\ Wanted(r) \in Tiers
    BY WantedTier DEF TypeOK, Catalogue
  <2> QED
    BY <2>1, <2>5, <2>6, SoleCandidateNeedsNoTier DEF Selected
<1> QED
  BY <1>1, RouteAlways, PTL

(* What the order of the ranks says about the tiers. *)
LEMMA RankOrder ==
  ASSUME NEW x \in Tiers, NEW y \in Tiers, NEW want \in Tiers
  PROVE  LET gx == TierLevel[x]
             gy == TierLevel[y]
             w  == TierLevel[want]
         IN /\ TierRank(x, want) < TierRank(y, want) =>
                 /\ gx > w => gy < w \/ gy >= gx
                 /\ gx < w => gy <= gx
                 /\ gx # gy
            /\ TierRank(x, want) = TierRank(y, want) => gx = gy
BY DEF TierRank, TierLevel, Tiers, EscalationBase, FallbackBase

(* What is selected is the best ranked of the candidates. *)
LEMMA SelectedRanksBest ==
  ASSUME TypeOK, NEW r \in Requests, Selected(r) # None
  PROVE  /\ Candidates(r) \in SUBSET DOMAIN models
         /\ Candidates(r) # {}
         /\ Selected(r) = BestRanked(models, Candidates(r), Wanted(r))
<1> DEFINE covering == Covering(models, required[r])
           fitting  == Fitting(models, required[r], input[r].estimate)
<1>1. covering # {} /\ models \in Seq(Model)
  BY SelectedServes DEF TypeOK, Catalogue
<1>2. covering \subseteq DOMAIN models /\ fitting \subseteq covering
  BY DEF Covering, Fitting
<1>3. Widest(models, covering) # {} /\ Widest(models, covering) \subseteq covering
  <2> HIDE DEF covering
  <2>1. Widest(models, covering) # {}
    BY <1>1, <1>2, WidestExists
  <2> QED
    BY <2>1 DEF Widest
<1>4. Candidates(r) = IF fitting # {} THEN fitting ELSE Widest(models, covering)
  BY DEF Candidates
<1>5. Selected(r) = IF fitting # {} THEN BestRanked(models, fitting, Wanted(r))
                    ELSE BestRanked(models, Widest(models, covering), Wanted(r))
  BY <1>1 DEF Selected, SelectCandidate
<1> HIDE DEF covering, fitting
<1> QED
  BY <1>2, <1>3, <1>4, <1>5

(***************************************************************************)
(* Among its candidates a request gets the tier it was given, else the     *)
(* nearest higher, else the highest lower one, and the first declared.     *)
(***************************************************************************)
THEOREM TierAlwaysHonoured == Spec => []TierHonoured
<1>1. TypeOK /\ RouteInv => TierHonoured
  <2> SUFFICES ASSUME TypeOK, RouteInv, NEW r \in Requests, backend[r] # None,
                      tier[r] # "skipped", NEW i \in Candidates(r)
               PROVE  LET got(j) == TierLevel[models[j].tier]
                          want == TierLevel[tier[r]]
                          b == backend[r]
                      IN /\ got(b) > want => (got(i) < want \/ got(i) >= got(b))
                         /\ got(b) < want => got(i) <= got(b)
                         /\ i < b => got(i) # got(b)
    BY DEF TierHonoured
  <2> DEFINE b == backend[r]
  <2>1. b = Selected(r) /\ Selected(r) # None
    BY DEF RouteInv, RouteOK
  <2>2. Wanted(r) = tier[r] /\ tier[r] \in Tiers /\ models \in Seq(Model)
    BY WantedTier DEF Wanted, TypeOK, Catalogue
  <2>3. /\ b \in Candidates(r)
        /\ LET rb == TierRank(models[b].tier, tier[r])
               ri == TierRank(models[i].tier, tier[r])
           IN rb < ri \/ (rb = ri /\ b <= i)
    <3>1. b = BestRanked(models, Candidates(r), tier[r])
      BY <2>1, <2>2, SelectedRanksBest
    <3>2. Candidates(r) \in SUBSET DOMAIN models
      BY <2>1, SelectedRanksBest
    <3> QED
      BY <2>2, <3>1, <3>2, BestRankedIsFirstLeast
  <2>4. b \in Nat /\ i \in Nat /\ models[b].tier \in Tiers /\ models[i].tier \in Tiers
    <3>1. b \in DOMAIN models /\ i \in DOMAIN models
      BY <2>1, <2>3, SelectedRanksBest
    <3> QED
      BY <2>2, <3>1, EntryOfCatalogue
  <2>5. /\ TierLevel[models[b].tier] \in Nat
        /\ TierLevel[models[i].tier] \in Nat
        /\ TierLevel[tier[r]] \in Nat
    BY <2>2, <2>4 DEF TierLevel, Tiers
  <2> HIDE DEF b
  <2>6. /\ TierLevel[models[b].tier] > TierLevel[tier[r]] =>
             \/ TierLevel[models[i].tier] < TierLevel[tier[r]]
             \/ TierLevel[models[i].tier] >= TierLevel[models[b].tier]
        /\ TierLevel[models[b].tier] < TierLevel[tier[r]] =>
             TierLevel[models[i].tier] <= TierLevel[models[b].tier]
        /\ i < b => TierLevel[models[i].tier] # TierLevel[models[b].tier]
    BY <2>2, <2>3, <2>4, <2>5, RankOrder
  <2> QED
    BY <2>6 DEF b
<1> QED
  BY <1>1, RouteAlways, PTL

----------------------------------------------------------------------------
(***************************************************************************)
(* The books.  A request has an upstream status exactly from its headers   *)
(* on, and an answer only at its end; and a server that has flushed has no *)
(* request in flight.                                                      *)
(***************************************************************************)
BookOK(r) ==
  /\ pc[r] \notin {"read", "stream", "ended", "gone"} => status[r] = "none"
  /\ pc[r] \in {"read", "stream"} => status[r] # "none"
  /\ pc[r] # "ended" => answer[r] = "none"
  /\ counted[r] = IF status[r] # "none" THEN <<status[r]>>
                  ELSE IF pc[r] = "ended" /\ answer[r] \in Labels THEN <<answer[r]>>
                  ELSE <<>>
  /\ usage[r] = IF pc[r] = "ended" /\ answer[r] = "2xx" THEN 1 ELSE 0

BookInv ==
  /\ \A r \in Requests : BookOK(r)
  /\ server = "flushed" => \A r \in Requests : pc[r] \notin InFlight

(* A step that moves a request without an answer writes nothing. *)
LEMMA BookKept ==
  ASSUME NEW r \in Requests, BookOK(r),
         status'[r] = status[r], answer'[r] = answer[r],
         counted'[r] = counted[r], usage'[r] = usage[r],
         \/ pc'[r] = pc[r]
         \/ pc[r] # "ended" /\ pc'[r] = "gone"
         \/ /\ pc[r] \notin {"read", "stream", "ended", "gone"}
            /\ pc'[r] \notin {"read", "stream", "ended", "gone"}
  PROVE  BookOK(r)'
BY DEF BookOK, Labels, Statuses

(* An entry in an empty book. *)
LEMMA FirstEntry ==
  ASSUME TypeOK, NEW r \in Requests, NEW label \in Labels,
         counted[r] = <<>>, Count(r, label)
  PROVE  counted'[r] = <<label>>
BY DEF Count, TypeOK

(* No step breaks the agreement between what happened to a request and what *)
(* is counted of it.                                                        *)
LEMMA BookStep ==
  ASSUME TypeOK, BookInv, [Next]_vars, NEW q \in Requests
  PROVE  BookOK(q)'
<1>0. BookOK(q)
  BY DEF BookInv
<1> USE DEF config, route, books, Moves
<1>1. ASSUME NEW r \in Requests,
             \/ Connect(r) \/ Resolve(r) \/ Classified(r) \/ ClassifyFails(r)
             \/ Authorized(r) \/ Disconnect(r)
      PROVE  BookOK(q)'
  <2>1. CASE q # r
    BY <1>0, <1>1, <2>1, BookKept
       DEF Connect, Resolve, Classified, ClassifyFails, Authorized, Disconnect, TypeOK
  <2>2. CASE q = r /\ ~Disconnect(r)
    BY <1>0, <1>1, <2>2, BookKept
       DEF Connect, Resolve, Classified, ClassifyFails, Authorized, TypeOK
  <2>3. CASE q = r /\ Disconnect(r)
    BY <1>0, <2>3, BookKept DEF Disconnect, Awaiting, TypeOK
  <2> QED
    BY <2>1, <2>2, <2>3
<1>2. ASSUME NEW r \in Requests, Receive(r) \/ AuthFails(r)
      PROVE  BookOK(q)'
  <2>1. CASE q # r
    BY <1>0, <1>2, <2>1, BookKept DEF Receive, AuthFails, TypeOK
  <2>2. CASE q = r /\ pc'[r] = "resolve"
    BY <1>0, <1>2, <2>2, BookKept DEF Receive, AuthFails, TypeOK
  <2>3. CASE q = r /\ pc'[r] # "resolve"
    <3>1. /\ pc[r] \in {"receive", "auth"} /\ pc'[r] = "ended"
          /\ answer'[r] \in {"400", "upstream_auth_failed"}
          /\ status'[r] = status[r] /\ counted'[r] = counted[r] /\ usage'[r] = usage[r]
      BY <1>2, <2>3 DEF Receive, AuthFails, TypeOK
    <3>2. answer'[r] \notin Labels
      BY <3>1 DEF Labels, Statuses
    <3> QED
      BY <1>0, <2>3, <3>1, <3>2 DEF BookOK
  <2> QED
    BY <2>1, <2>2, <2>3
<1>3. ASSUME NEW r \in Requests, Select(r)
      PROVE  BookOK(q)'
  <2>1. CASE q # r
    BY <1>0, <1>3, <2>1, BookKept DEF Select, Count, TypeOK
  <2>2. CASE q = r /\ pc'[r] = "auth"
    BY <1>0, <1>3, <2>2, BookKept DEF Select, TypeOK
  <2>3. CASE q = r /\ pc'[r] # "auth"
    <3>1. /\ pc[r] = "select" /\ pc'[r] = "ended" /\ answer'[r] = "422"
          /\ status'[r] = status[r] /\ usage'[r] = usage[r] /\ Count(r, "422")
      BY <1>3, <2>3 DEF Select, TypeOK
    <3>2. status[r] = "none" /\ counted[r] = <<>> /\ "422" \in Labels
      BY <1>0, <2>3, <3>1 DEF BookOK, Labels
    <3>3. counted'[r] = <<"422">>
      BY <3>1, <3>2, FirstEntry
    <3> QED
      BY <1>0, <2>3, <3>1, <3>2, <3>3 DEF BookOK
  <2> QED
    BY <2>1, <2>2, <2>3
<1>4. ASSUME NEW r \in Requests, Responds(r)
      PROVE  BookOK(q)'
  <2>1. PICK s \in Statuses :
          /\ pc[r] = "send" /\ pc'[r] \in {"read", "stream"}
          /\ pc' = [pc EXCEPT ![r] = pc'[r]]
          /\ status' = [status EXCEPT ![r] = s]
          /\ Count(r, s)
    BY <1>4 DEF Responds, TypeOK
  <2>2. answer' = answer /\ usage' = usage
    BY <1>4 DEF Responds
  <2>3. CASE q # r
    BY <1>0, <2>1, <2>2, <2>3, BookKept DEF Count, TypeOK
  <2>4. CASE q = r
    <3>1. status[r] = "none" /\ counted[r] = <<>> /\ answer[r] = "none"
      BY <1>0, <2>1, <2>4 DEF BookOK
    <3>2. s # "none" /\ s \in Labels /\ status'[r] = s
      BY <2>1 DEF Statuses, Labels, TypeOK
    <3>3. counted'[r] = <<s>>
      BY <2>1, <3>1, <3>2, FirstEntry
    <3> QED
      BY <1>0, <2>1, <2>2, <2>4, <3>1, <3>2, <3>3 DEF BookOK
  <2> QED
    BY <2>3, <2>4
<1>5. ASSUME NEW r \in Requests, SendFails(r) \/ SendTimesOut(r)
      PROVE  BookOK(q)'
  <2>1. PICK failure \in Failures : Count(r, failure) /\ answer' = [answer EXCEPT ![r] = failure]
    BY <1>5 DEF SendFails, SendTimesOut, Failures
  <2>2. /\ pc[r] = "send" /\ pc' = [pc EXCEPT ![r] = "ended"]
        /\ status' = status /\ usage' = usage
    BY <1>5 DEF SendFails, SendTimesOut
  <2>3. CASE q # r
    BY <1>0, <2>1, <2>2, <2>3, BookKept DEF Count, TypeOK
  <2>4. CASE q = r
    <3>1. status[r] = "none" /\ counted[r] = <<>>
      BY <1>0, <2>2, <2>4 DEF BookOK
    <3>2. failure \in Labels /\ failure # "2xx" /\ answer'[r] = failure
      BY <2>1 DEF Failures, Labels, TypeOK
    <3>3. counted'[r] = <<failure>>
      BY <2>1, <3>1, <3>2, FirstEntry
    <3>4. pc'[r] = "ended"
      BY <2>2 DEF TypeOK
    <3> QED
      BY <1>0, <2>2, <2>4, <3>1, <3>2, <3>3, <3>4 DEF BookOK
  <2> QED
    BY <2>3, <2>4
<1>6. ASSUME NEW r \in Requests,
             BodyRead(r) \/ BodyFails(r) \/ StreamEnds(r) \/ StreamCut(r)
      PROVE  BookOK(q)'
  <2>1. CASE q # r
    BY <1>0, <1>6, <2>1, BookKept DEF BodyRead, BodyFails, StreamEnds, StreamCut, TypeOK
  <2>2. CASE q = r
    <3>1. /\ pc[r] \in {"read", "stream"} /\ pc'[r] = "ended"
          /\ status'[r] = status[r] /\ counted'[r] = counted[r]
      BY <1>6 DEF BodyRead, BodyFails, StreamEnds, StreamCut, TypeOK
    <3>2. status[r] # "none" /\ counted[r] = <<status[r]>> /\ usage[r] = 0
      BY <1>0, <2>2, <3>1 DEF BookOK
    <3>3. usage'[r] = IF answer'[r] = "2xx" THEN 1 ELSE 0
      BY <1>6, <3>2 DEF BodyRead, BodyFails, StreamEnds, StreamCut, TypeOK
    <3> QED
      BY <2>2, <3>1, <3>2, <3>3 DEF BookOK
  <2> QED
    BY <2>1, <2>2
<1>7. CASE Shutdown \/ Flush \/ UNCHANGED vars
  BY <1>0, <1>7, BookKept DEF Shutdown, Flush, vars
<1> QED
  BY <1>1, <1>2, <1>3, <1>4, <1>5, <1>6, <1>7
     DEF Next, Handler, Upstream, BodyTimesOut, StreamTimesOut

(* After the flush no handler runs, and none begins. *)
LEMMA FlushedStep ==
  ASSUME TypeOK, BookInv, [Next]_vars
  PROVE  /\ server' = "flushed" => \A r \in Requests : pc'[r] \notin InFlight
         /\ server = "flushed" => UNCHANGED <<pc, counted, usage, answer>>
<1> USE DEF config, route, books
<1>1. CASE Shutdown \/ Flush \/ UNCHANGED vars
  BY <1>1 DEF Shutdown, Flush, vars, BookInv
<1>2. ASSUME NEW r \in Requests, Connect(r)
      PROVE  server = "serving" /\ server' = server
  BY <1>2 DEF Connect
<1>3. ASSUME NEW r \in Requests, Handler(r) \/ Upstream(r) \/ Disconnect(r)
      PROVE  pc[r] \in InFlight /\ server' = server
  <2>1. CASE Handler(r)
    BY <2>1 DEF Handler, Receive, Resolve, Classified, ClassifyFails, Select,
                Authorized, AuthFails, Moves, InFlight, Awaiting
  <2>2. CASE Upstream(r)
    BY <2>2 DEF Upstream, Responds, SendFails, SendTimesOut, BodyRead, BodyTimesOut,
                BodyFails, StreamEnds, StreamTimesOut, StreamCut, Moves, InFlight, Awaiting
  <2>3. CASE Disconnect(r)
    BY <2>3 DEF Disconnect, InFlight
  <2> QED
    BY <1>3, <2>1, <2>2, <2>3
<1>4. (\E r \in Requests : Connect(r) \/ Handler(r) \/ Upstream(r) \/ Disconnect(r)) =>
        server # "flushed" /\ server' = server
  BY <1>2, <1>3 DEF BookInv
<1> QED
  BY <1>1, <1>4 DEF Next

(* That agreement holds in every state.                                     *)
LEMMA BookAlways == Spec => [](TypeOK /\ BookInv)
<1>1. Init => BookInv
  BY DEF Init, BookInv, BookOK
<1>2. TypeOK /\ BookInv /\ [Next]_vars => BookInv'
  BY BookStep, FlushedStep DEF BookInv
<1> QED
  BY <1>1, <1>2, RouterTypeCorrect, PTL DEF Spec

(***************************************************************************)
(* The request counter holds one entry for each request that the upstream  *)
(* answered, or that was refused or failed once it had a route, with what  *)
(* decided it; only for want of a token is there none.                     *)
(***************************************************************************)
THEOREM BooksAlwaysBalance == Spec => []BooksBalance
<1>1. BookInv => BooksBalance
  BY DEF BookInv, BookOK, BooksBalance
<1> QED
  BY <1>1, BookAlways, PTL

(***************************************************************************)
(* Token usage is reported for the successful answers whose body came to   *)
(* its end, once.                                                          *)
(***************************************************************************)
THEOREM UsageAlwaysWhole == Spec => []UsageForWholeAnswers
<1>1. BookInv => UsageForWholeAnswers
  BY DEF BookInv, BookOK, UsageForWholeAnswers
<1> QED
  BY <1>1, BookAlways, PTL

(***************************************************************************)
(* Nothing enters the books once telemetry has been flushed.               *)
(***************************************************************************)
THEOREM FlushIsLast == Spec => NothingAfterFlush
<1>1. TypeOK /\ BookInv /\ [Next]_vars =>
        [server = "flushed" => UNCHANGED <<counted, usage, answer>>]_vars
  BY FlushedStep
<1> QED
  BY <1>1, BookAlways, PTL DEF Spec, NothingAfterFlush

----------------------------------------------------------------------------
(* How far a request is. *)
Stage(place) ==
  CASE place = "idle" -> 0
    [] place = "receive" -> 1
    [] place = "resolve" -> 2
    [] place = "classify" -> 3
    [] place = "select" -> 4
    [] place = "auth" -> 5
    [] place = "send" -> 6
    [] place \in {"read", "stream"} -> 7
    [] place \in {"ended", "gone"} -> 8

(* A step of one request takes it further, and rewrites nothing of it.      *)
Advances(r) ==
  /\ pc'[r] = pc[r] \/ Stage(pc[r]) < Stage(pc'[r])
  /\ backend[r] # None => UNCHANGED <<backend[r], required[r], tier[r]>>
  /\ status[r] # "none" => status'[r] = status[r]
  /\ answer[r] # "none" => answer'[r] = answer[r]

(* No step takes a request back, for what it finds decided has its place:   *)
(* a backend after the selection, a status after the call (BookInv).        *)
LEMMA AdvanceStep ==
  ASSUME TypeOK, RouteInv, BookInv, [Next]_vars, NEW q \in Requests
  PROVE  Advances(q)
<1>0. RouteOK(q) /\ BookOK(q)
  BY DEF RouteInv, BookInv
<1>1. CASE /\ pc'[q] = pc[q] /\ status'[q] = status[q] /\ answer'[q] = answer[q]
           /\ backend'[q] = backend[q] /\ required'[q] = required[q] /\ tier'[q] = tier[q]
  BY <1>1 DEF Advances
<1> USE DEF config, route, books, Moves
<1>2. ASSUME NEW r \in Requests, r # q,
             Connect(r) \/ Handler(r) \/ Upstream(r) \/ Disconnect(r)
      PROVE  Advances(q)
  <2>1. CASE Connect(r) \/ Disconnect(r)
    BY <1>1, <1>2, <2>1 DEF Connect, Disconnect, TypeOK
  <2>2. CASE Receive(r) \/ Resolve(r) \/ Classified(r) \/ ClassifyFails(r)
    BY <1>1, <1>2, <2>2 DEF Receive, Resolve, Classified, ClassifyFails, TypeOK
  <2>3. CASE Select(r) \/ Authorized(r) \/ AuthFails(r)
    BY <1>1, <1>2, <2>3 DEF Select, Authorized, AuthFails, TypeOK
  <2>4. CASE Responds(r) \/ SendFails(r) \/ SendTimesOut(r)
    BY <1>1, <1>2, <2>4 DEF Responds, SendFails, SendTimesOut, TypeOK
  <2>5. CASE BodyRead(r) \/ BodyFails(r) \/ StreamEnds(r) \/ StreamCut(r)
    BY <1>1, <1>2, <2>5 DEF BodyRead, BodyFails, StreamEnds, StreamCut, TypeOK
  <2> QED
    BY <1>2, <2>1, <2>2, <2>3, <2>4, <2>5 DEF Handler, Upstream, BodyTimesOut, StreamTimesOut
<1>3. ASSUME pc[q] \in Early, backend[q] = None, status[q] = "none", answer[q] = "none",
             Stage(pc[q]) < Stage(pc'[q])
      PROVE  Advances(q)
  BY <1>3 DEF Advances
<1>4. pc[q] \in Early => backend[q] = None /\ status[q] = "none" /\ answer[q] = "none"
  BY <1>0 DEF RouteOK, BookOK, Early
<1>5. CASE Connect(q) \/ Receive(q) \/ Resolve(q) \/ Classified(q) \/ ClassifyFails(q) \/ Select(q)
  <2>1. pc[q] \in Early /\ Stage(pc[q]) < Stage(pc'[q])
    <3>1. \/ pc[q] = "idle" /\ pc'[q] = "receive"
          \/ pc[q] = "receive" /\ pc'[q] \in {"resolve", "ended"}
          \/ pc[q] = "resolve" /\ pc'[q] \in {"select", "classify"}
          \/ pc[q] = "classify" /\ pc'[q] = "select"
          \/ pc[q] = "select" /\ pc'[q] \in {"auth", "ended"}
      BY <1>5 DEF Connect, Receive, Resolve, Classified, ClassifyFails, Select, TypeOK
    <3> QED
      BY <3>1 DEF Stage, Early
  <2> QED
    BY <1>3, <1>4, <2>1
<1>6. CASE Authorized(q) \/ AuthFails(q) \/ Upstream(q) \/ Disconnect(q)
  <2>1. backend' = backend /\ required' = required /\ tier' = tier
    BY <1>6 DEF Authorized, AuthFails, Upstream, Disconnect, Responds, SendFails, SendTimesOut,
                BodyRead, BodyFails, BodyTimesOut, StreamEnds, StreamCut, StreamTimesOut
  <2>2. \/ pc[q] = "auth" /\ pc'[q] \in {"send", "ended"}
        \/ pc[q] = "send" /\ pc'[q] \in {"read", "stream", "ended"}
        \/ pc[q] \in {"read", "stream"} /\ pc'[q] = "ended"
        \/ pc[q] \in Awaiting /\ pc'[q] = "gone"
    BY <1>6 DEF Authorized, AuthFails, Upstream, Disconnect, Responds, SendFails, SendTimesOut,
                BodyRead, BodyFails, BodyTimesOut, StreamEnds, StreamCut, StreamTimesOut, TypeOK
  <2>3. Stage(pc[q]) < Stage(pc'[q])
    BY <2>2 DEF Stage, Awaiting
  <2>4. answer[q] = "none"
    BY <1>0, <2>2 DEF BookOK, Awaiting
  <2>5. status[q] # "none" => status' = status
    <3>1. CASE Responds(q)
      BY <1>0, <3>1 DEF Responds, BookOK
    <3>2. CASE ~Responds(q)
      BY <1>6, <3>2 DEF Authorized, AuthFails, Upstream, Disconnect, SendFails, SendTimesOut,
                BodyRead, BodyFails, BodyTimesOut, StreamEnds, StreamCut, StreamTimesOut
    <3> QED
      BY <3>1, <3>2
  <2> QED
    BY <2>1, <2>3, <2>4, <2>5 DEF Advances
<1>7. CASE Shutdown \/ Flush \/ UNCHANGED vars
  BY <1>1, <1>7 DEF Shutdown, Flush, vars
<1> QED
  BY <1>2, <1>5, <1>6, <1>7 DEF Next, Handler

(***************************************************************************)
(* Every step of a request takes it further, so that it is over in at most *)
(* eight, and nothing is tried twice; and what was decided about it, its   *)
(* route and its backend, the upstream's status, the answer of its client, *)
(* is never revised.                                                       *)
(***************************************************************************)
THEOREM RequestsOnlyAdvance == Spec => [][\A r \in Requests : Advances(r)]_vars
<1>1. TypeOK /\ RouteInv /\ BookInv /\ [Next]_vars => [\A r \in Requests : Advances(r)]_vars
  BY AdvanceStep
<1> QED
  BY <1>1, RouteAlways, BookAlways, PTL DEF Spec

----------------------------------------------------------------------------
(***************************************************************************)
(* Requests that are read from a body.                                     *)
(***************************************************************************)

(* What the handler knows of a request is what was read of its body.       *)
AsRead ==
  \A r \in Requests :
    /\ body[r] \in Bodies
    /\ \E budget \in TurnBudgets : input[r] = Analyse(body[r], budget)

(* A request with a body is handled as any other: what is proved of Router  *)
(* holds of it.                                                             *)
THEOREM RequestIsHandled == RSpec => Spec
<1>1. RInit => Init
  BY DEF RInit
<1>2. [RNext]_<<vars, body>> => [Next]_vars
  BY DEF RNext
<1> QED
  BY <1>1, <1>2, PTL DEF RSpec, Spec

(* No step changes what a request is.                                       *)
LEMMA ConfigKept ==
  ASSUME [Next]_vars
  PROVE  UNCHANGED config
<1> USE DEF config
<1>1. CASE Shutdown \/ Flush \/ UNCHANGED vars
  BY <1>1 DEF Shutdown, Flush, vars
<1>2. ASSUME NEW r \in Requests, Connect(r) \/ Disconnect(r)
      PROVE  UNCHANGED config
  BY <1>2 DEF Connect, Disconnect
<1>3. ASSUME NEW r \in Requests, Handler(r)
      PROVE  UNCHANGED config
  BY <1>3 DEF Handler, Receive, Resolve, Classified, ClassifyFails, Select, Authorized, AuthFails
<1>4. ASSUME NEW r \in Requests, Upstream(r)
      PROVE  UNCHANGED config
  BY <1>4 DEF Upstream, Responds, SendFails, SendTimesOut, BodyRead, BodyTimesOut, BodyFails,
              StreamEnds, StreamTimesOut, StreamCut
<1> QED
  BY <1>1, <1>2, <1>3, <1>4 DEF Next

(* What is known of a request stays what was read of its body.              *)
LEMMA BodyAlwaysRead == RSpec => []AsRead
<1>1. RInit => AsRead
  <2> SUFFICES ASSUME RInit, NEW r \in Requests
               PROVE  /\ body[r] \in Bodies
                      /\ \E budget \in TurnBudgets : input[r] = Analyse(body[r], budget)
    BY DEF AsRead
  <2> QED
    BY DEF RInit
<1>2. AsRead /\ [RNext]_<<vars, body>> => AsRead'
  <2> SUFFICES ASSUME AsRead, [RNext]_<<vars, body>>
               PROVE  AsRead'
    OBVIOUS
  <2>1. [Next]_vars /\ body' = body
    BY DEF RNext
  <2>2. input' = input
    BY <2>1, ConfigKept DEF config
  <2> QED
    BY <2>1, <2>2 DEF AsRead, Analyse
<1> QED
  BY <1>1, <1>2, PTL DEF RSpec

(* What a body carries, part by part, of a backend that takes `taken`.      *)
Carried(b, taken) ==
  /\ "text" \in taken
  /\ \A i \in DOMAIN b.messages :
       LET m == b.messages[i]
       IN /\ m.parts \cap {"image_url", "input_image"} # {} => "image-input" \in taken
          /\ m.parts \cap {"input_audio"} # {} => "audio-input" \in taken
          /\ m.parts \cap {"file"} # {} => "file-input" \in taken
          /\ ToolTrace(m) => "tools" \in taken
  /\ "audio" \in b.modalities => "audio-output" \in taken
  /\ "image" \in b.modalities => "image-output" \in taken
  /\ "list" \in {b.tools, b.functions} => "tools" \in taken

(* A backend covers the needs of a body exactly if it takes all it carries. *)
LEMMA NeedsAreCarried ==
  ASSUME NEW b, NEW taken
  PROVE  Needs(b) \subseteq taken <=> Carried(b, taken)
<1> DEFINE all   == ToSet(b.messages)
           parts == UNION {m.parts : m \in all}
<1>1. all = {b.messages[i] : i \in DOMAIN b.messages}
  BY DEF ToSet
<1>2. /\ DOMAIN Takes = {"image_url", "input_image", "input_audio", "file"}
      /\ Takes["image_url"] = "image-input" /\ Takes["input_image"] = "image-input"
      /\ Takes["input_audio"] = "audio-input" /\ Takes["file"] = "file-input"
  BY DEF Takes
<1>3. {Takes[t] : t \in parts \cap DOMAIN Takes} \subseteq taken <=>
        \A i \in DOMAIN b.messages : \A t \in b.messages[i].parts :
          t \in DOMAIN Takes => Takes[t] \in taken
  BY <1>1
<1>4. {Takes[t] : t \in parts \cap DOMAIN Takes} \subseteq taken <=>
        \A i \in DOMAIN b.messages :
          /\ b.messages[i].parts \cap {"image_url", "input_image"} # {} => "image-input" \in taken
          /\ b.messages[i].parts \cap {"input_audio"} # {} => "audio-input" \in taken
          /\ b.messages[i].parts \cap {"file"} # {} => "file-input" \in taken
  <2> HIDE DEF parts
  <2> QED
    BY <1>2, <1>3
<1>5. (\E m \in all : ToolTrace(m)) <=> \E i \in DOMAIN b.messages : ToolTrace(b.messages[i])
  BY <1>1
<1> DEFINE inputs == {Takes[t] : t \in parts \cap DOMAIN Takes}
           calls  == (\E m \in all : ToolTrace(m)) \/ "list" \in {b.tools, b.functions}
<1>6. Needs(b) = {"text"} \cup inputs
                 \cup (IF "audio" \in b.modalities THEN {"audio-output"} ELSE {})
                 \cup (IF "image" \in b.modalities THEN {"image-output"} ELSE {})
                 \cup (IF calls THEN {"tools"} ELSE {})
  BY DEF Needs
<1>7. Needs(b) \subseteq taken <=>
        /\ "text" \in taken /\ inputs \subseteq taken
        /\ "audio" \in b.modalities => "audio-output" \in taken
        /\ "image" \in b.modalities => "image-output" \in taken
        /\ calls => "tools" \in taken
  <2> HIDE DEF inputs, calls
  <2> QED
    BY <1>6
<1> QED
  BY <1>4, <1>5, <1>7 DEF Carried

(***************************************************************************)
(* The backend takes whatever the body carries, and a body is refused only *)
(* if no model takes all of it.                                            *)
(***************************************************************************)
THEOREM BodyAlwaysServed == RSpec => []BodyServed
<1>1. AsRead /\ BackendCovers /\ RefusedOnlyUncovered => BodyServed
  <2> SUFFICES ASSUME AsRead, BackendCovers, RefusedOnlyUncovered
               PROVE  BodyServed
    OBVIOUS
  <2>1. ASSUME NEW r \in Requests
        PROVE  input[r].needs = Needs(body[r])
    <3>1. \A b, budget : Analyse(b, budget).needs = Needs(b)
      BY DEF Analyse
    <3> QED
      BY <2>1, <3>1 DEF AsRead
  <2>2. ASSUME NEW r \in Requests, backend[r] # None
        PROVE  Carried(body[r], models[backend[r]].modalities)
    BY <2>1, <2>2, NeedsAreCarried DEF BackendCovers, Covers
  <2>3. ASSUME NEW r \in Requests, answer[r] = "422", NEW i \in DOMAIN models
        PROVE  ~Carried(body[r], models[i].modalities)
    BY <2>1, <2>3, NeedsAreCarried DEF RefusedOnlyUncovered, Covering, Covers
  <2> QED
    BY <2>2, <2>3 DEF BodyServed, Carried, ToolTrace
<1> QED
  BY <1>1, BodyAlwaysRead, RequestIsHandled, BackendAlwaysCovers, InferenceNeverRefuses, PTL

(* The length of a body's text is a natural number. *)
LEMMA CharsNat ==
  ASSUME NEW b \in Body
  PROVE  TextSizes(b) \in Seq(Nat) /\ Chars(b) \in Nat
<1>1. b.messages \in Seq(Message)
  BY DEF Body
<1>2. \A i \in DOMAIN b.messages : b.messages[i] \in Message /\ b.messages[i].chars \in Nat
  <2>1. \A m \in Message : m.chars \in Nat
    BY DEF Message
  <2> QED
    BY <1>1, <2>1
<1>3. TextSizes(b) \in Seq(Nat)
  <2>1. /\ DOMAIN b.messages = 1..Len(b.messages) /\ Len(b.messages) \in Nat
    BY <1>1
  <2> QED
    BY <1>2, <2>1 DEF TextSizes
<1> QED
  BY <1>3, TotalNat DEF Chars

(* The completion that RoomForAll speaks of is the one that is read.        *)
Wished(b) ==
  IF b.max_completion_tokens.is = "number" THEN b.max_completion_tokens.value
  ELSE IF b.max_tokens.is = "number" THEN b.max_tokens.value ELSE 0

(* For a plain body the estimate reads the completion the client wished.    *)
LEMMA CompletionIsWished ==
  ASSUME NEW b \in Bodies, Plain(b)
  PROVE  /\ Completion(b) = Wished(b) /\ Wished(b) \in Nat
         /\ Chars(b) + 4 * Wished(b) < 4 * (U64 - 1)
<1>1. /\ b.max_completion_tokens \in Field /\ b.max_tokens \in Field
      /\ Chars(b) \in Nat /\ U64 \in Nat
  <2>1. b \in Body /\ U64 \in Nat
    BY RequestAssumption
  <2> QED
    BY <2>1, CharsNat DEF Body
<1>2. /\ b.max_completion_tokens.value \in Nat /\ b.max_tokens.value \in Nat
      /\ b.max_completion_tokens.is \in {"absent", "number", "other"}
  BY <1>1 DEF Field
<1>3. Completion(b) = Wished(b)
  BY <1>2 DEF Completion, Wished, Plain
<1>4. /\ Wished(b) \in Nat
      /\ Wished(b) <= b.max_completion_tokens.value + b.max_tokens.value
  BY <1>2 DEF Wished
<1> QED
  BY <1>1, <1>2, <1>3, <1>4 DEF Plain, CharsPerToken

(* A remainder of a number below the divisor is the number.                 *)
LEMMA SmallRemainder ==
  ASSUME NEW n \in Nat \ {0}, NEW x \in Nat, x < n
  PROVE  x % n = x
OBVIOUS

(* The estimate of such a body fits a window exactly if the text and the    *)
(* completion do: it is rounded up, and does not wrap.                      *)
LEMMA EstimateIsExact ==
  ASSUME NEW b \in Bodies, Plain(b), NEW w \in Nat
  PROVE  Estimate(b) <= w <=> Chars(b) + 4 * Wished(b) <= 4 * w
<1> DEFINE c == Chars(b)
           k == Wished(b)
           q == (c + 3) \div 4
<1>1. c \in Nat /\ k \in Nat /\ c + 4 * k < 4 * (U64 - 1) /\ U64 \in Nat \ {0}
  BY CompletionIsWished, CharsNat, RequestAssumption
<1>2. Estimate(b) = (q + k) % U64
  BY CompletionIsWished DEF Estimate, CharsPerToken
<1> HIDE DEF c, k
<1>3. q \in Nat /\ c <= 4 * q /\ 4 * q <= c + 3
  BY <1>1
<1> HIDE DEF q
<1>4. q + k \in Nat /\ q + k < U64
  BY <1>1, <1>3
<1>5. Estimate(b) = q + k
  BY <1>1, <1>2, <1>4, SmallRemainder
<1>6. q + k <= w <=> c + 4 * k <= 4 * w
  BY <1>1, <1>3
<1> QED
  BY <1>5, <1>6 DEF c, k

(***************************************************************************)
(* If some model that takes what a body carries has room for its text and  *)
(* the completion it asks for, the backend has.                            *)
(***************************************************************************)
THEOREM RoomAlwaysFound == RSpec => []RoomForAll
<1>1. TypeOK /\ AsRead /\ BackendCovers /\ OverflowOnlyUnavoidable => RoomForAll
  <2> SUFFICES ASSUME TypeOK, AsRead, BackendCovers, OverflowOnlyUnavoidable,
                      NEW r \in Requests, backend[r] # None, Plain(body[r]),
                      NEW i \in Covering(models, input[r].needs),
                      Chars(body[r]) + 4 * Wished(body[r]) <= 4 * models[i].window
               PROVE  Chars(body[r]) + 4 * Wished(body[r]) <= 4 * models[backend[r]].window
    BY DEF RoomForAll, Wished, CharsPerToken
  <2>1. /\ body[r] \in Bodies
        /\ input[r].estimate = Estimate(body[r])
    <3>1. \A b, budget : Analyse(b, budget).estimate = Estimate(b)
      BY DEF Analyse
    <3> QED
      BY <3>1 DEF AsRead
  <2>2. /\ i \in DOMAIN models /\ backend[r] \in DOMAIN models /\ models \in Seq(Model)
        /\ \A j \in DOMAIN models : models[j].window \in Nat
    <3>1. i \in DOMAIN models /\ backend[r] \in DOMAIN models
      BY DEF Covering, BackendCovers
    <3>2. models \in Seq(Model)
      BY DEF TypeOK, Catalogue
    <3> QED
      BY <3>1, <3>2, EntryOfCatalogue
  <2>3. Fits(models[i], input[r].estimate)
    BY <2>1, <2>2, EstimateIsExact DEF Fits
  <2>4. Fits(models[backend[r]], input[r].estimate)
    BY <2>3 DEF OverflowOnlyUnavoidable, Fitting
  <2> QED
    BY <2>1, <2>2, <2>4, EstimateIsExact DEF Fits
<1> QED
  BY <1>1, BodyAlwaysRead, RequestIsHandled, RouterTypeCorrect, BackendAlwaysCovers,
     OverflowIsUnavoidable, PTL
----------------------------------------------------------------------------
(* What the first n messages of a body need, and how long they are.         *)
LEMMA BeginningNeedsLess ==
  ASSUME NEW c \in Body, NEW n \in 0..Len(c.messages),
         NEW b, b = [c EXCEPT !.messages = SubSeq(@, 1, n)]
  PROVE  /\ Needs(b) \subseteq Needs(c)
         /\ Chars(b) \in Nat /\ Chars(b) <= Chars(c) /\ Completion(b) = Completion(c)
<1>1. c.messages \in Seq(Message)
  BY DEF Body
<1>2. /\ b.messages = SubSeq(c.messages, 1, n)
      /\ b.modalities = c.modalities /\ b.tools = c.tools /\ b.functions = c.functions
      /\ b.max_completion_tokens = c.max_completion_tokens /\ b.max_tokens = c.max_tokens
  BY DEF Body
<1>3. /\ n \in Nat /\ DOMAIN b.messages = 1..n /\ DOMAIN c.messages = 1..Len(c.messages)
      /\ Len(c.messages) \in Nat /\ 1..n \subseteq 1..Len(c.messages)
      /\ \A i \in 1..n : b.messages[i] = c.messages[i]
  BY <1>1, <1>2
<1>4. Needs(b) \subseteq Needs(c)
  <2>1. Carried(c, Needs(c))
    BY NeedsAreCarried
  <2>2. Carried(b, Needs(c))
    BY <1>2, <1>3, <2>1 DEF Carried
  <2> QED
    BY <2>2, NeedsAreCarried
<1>5. TextSizes(c) \in Seq(Nat) /\ Len(TextSizes(c)) = Len(c.messages)
  <2>1. TextSizes(c) \in Seq(Nat)
    BY CharsNat
  <2>2. DOMAIN TextSizes(c) = 1..Len(c.messages)
    BY <1>3 DEF TextSizes
  <2> QED
    BY <1>3, <2>1, <2>2
<1>6. TextSizes(b) = SubSeq(TextSizes(c), 1, n)
  <2>2. TextSizes(b) = [i \in 1..n |-> TextSizes(c)[i]]
    BY <1>3 DEF TextSizes
  <2>3. SubSeq(TextSizes(c), 1, n) = [i \in 1..n |-> TextSizes(c)[i]]
    <3> HIDE DEF TextSizes
    <3> QED
      BY <1>3, <1>5
  <2> QED
    BY <2>2, <2>3
<1>7. Chars(b) \in Nat /\ Chars(b) <= Chars(c)
  <2>1. n \in 0..Len(TextSizes(c))
    BY <1>5
  <2>2. SubSeq(TextSizes(c), 1, n) \in Seq(Nat)
    BY <1>3, <1>5
  <2> QED
    BY <1>5, <1>6, <2>1, <2>2, TotalOfPrefix, TotalNat DEF Chars
<1>8. Completion(b) = Completion(c)
  BY <1>2 DEF Completion
<1> QED
  BY <1>4, <1>7, <1>8

(***************************************************************************)
(* A model that can serve a conversation within its window could serve     *)
(* each of its beginnings: as a client sends the same conversation again,  *)
(* longer by a turn, the candidates only get fewer.  (Of sizes that a u64  *)
(* holds; the sum of `estimate_request_tokens` wraps beyond.)              *)
(***************************************************************************)
THEOREM LongerTalkNarrows ==
  ASSUME NEW c \in Body, NEW n \in 0..Len(c.messages), NEW catalogue \in Seq(Model),
         Chars(c) + CharsPerToken * Completion(c) < CharsPerToken * (U64 - 1)
  PROVE  LET b == [c EXCEPT !.messages = SubSeq(@, 1, n)]
         IN Fitting(catalogue, Needs(c), Estimate(c)) \subseteq Fitting(catalogue, Needs(b), Estimate(b))
<1> DEFINE b == [c EXCEPT !.messages = SubSeq(@, 1, n)]
           Tokens(chars) == (chars + 3) \div 4
<1>1. /\ Needs(b) \subseteq Needs(c) /\ Chars(b) \in Nat /\ Chars(b) <= Chars(c)
      /\ Completion(b) = Completion(c)
  BY BeginningNeedsLess
<1>2. Chars(c) \in Nat /\ Completion(c) \in Nat /\ U64 \in Nat \ {0}
  <2>1. c.max_completion_tokens.value \in Nat /\ c.max_tokens.value \in Nat
    BY DEF Body, Field
  <2> QED
    BY <2>1, CharsNat, RequestAssumption DEF Completion
<1> HIDE DEF b
<1>3. /\ Tokens(Chars(b)) \in Nat /\ Tokens(Chars(c)) \in Nat
      /\ Tokens(Chars(b)) <= Tokens(Chars(c))
      /\ Tokens(Chars(c)) + Completion(c) < U64
      /\ Tokens(Chars(b)) + Completion(c) < U64
  <2>1. \A x, y, k, w \in Nat : (x <= y /\ y + 4 * k < 4 * (w - 1)) =>
          /\ Tokens(x) \in Nat /\ Tokens(y) \in Nat
          /\ Tokens(x) <= Tokens(y) /\ Tokens(y) + k < w /\ Tokens(x) + k < w
    <3> SUFFICES ASSUME NEW x \in Nat, NEW y \in Nat, NEW k \in Nat, NEW w \in Nat,
                        x <= y, y + 4 * k < 4 * (w - 1)
                 PROVE  /\ Tokens(x) \in Nat /\ Tokens(y) \in Nat
                        /\ Tokens(x) <= Tokens(y) /\ Tokens(y) + k < w /\ Tokens(x) + k < w
      OBVIOUS
    <3>1. /\ Tokens(x) \in Nat /\ 4 * Tokens(x) <= x + 3 /\ x <= 4 * Tokens(x)
          /\ Tokens(y) \in Nat /\ 4 * Tokens(y) <= y + 3 /\ y <= 4 * Tokens(y)
      OBVIOUS
    <3>2. Tokens(x) <= Tokens(y)
      OBVIOUS
    <3> HIDE DEF Tokens
    <3>3. Tokens(y) + k < w
      BY <3>1
    <3> QED
      BY <3>1, <3>2, <3>3
  <2> HIDE DEF Tokens
  <2>2. Chars(c) + 4 * Completion(c) < 4 * (U64 - 1)
    BY DEF CharsPerToken
  <2> QED
    BY <1>1, <1>2, <2>1, <2>2
<1>4. /\ Estimate(b) = (Tokens(Chars(b)) + Completion(c)) % U64
      /\ Estimate(c) = (Tokens(Chars(c)) + Completion(c)) % U64
  BY <1>1 DEF Estimate, CharsPerToken
<1> HIDE DEF Tokens
<1>5. /\ Estimate(b) = Tokens(Chars(b)) + Completion(c)
      /\ Estimate(c) = Tokens(Chars(c)) + Completion(c)
  <2>1. /\ Tokens(Chars(b)) + Completion(c) \in Nat
        /\ Tokens(Chars(c)) + Completion(c) \in Nat
    BY <1>2, <1>3
  <2> QED
    BY <1>2, <1>3, <1>4, <2>1, SmallRemainder
<1>6. Estimate(b) \in Nat /\ Estimate(c) \in Nat /\ Estimate(b) <= Estimate(c)
  BY <1>2, <1>3, <1>5
<1>7. ASSUME NEW i \in Fitting(catalogue, Needs(c), Estimate(c))
      PROVE  i \in Fitting(catalogue, Needs(b), Estimate(b))
  <2>1. i \in DOMAIN catalogue /\ Needs(c) \subseteq catalogue[i].modalities
        /\ Estimate(c) <= catalogue[i].window
    BY DEF Fitting, Covering, Covers, Fits
  <2>2. catalogue[i].window \in Nat
    BY <2>1, EntryOfCatalogue
  <2>3. Estimate(b) <= catalogue[i].window
    BY <1>6, <2>1, <2>2
  <2> QED
    BY <1>1, <2>1, <2>3 DEF Fitting, Covering, Covers, Fits
<1> QED
  BY <1>7 DEF b
=============================================================================
