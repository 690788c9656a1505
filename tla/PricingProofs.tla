---------------------------- MODULE PricingProofs ----------------------------
(***************************************************************************)
(* The answers of the arithmetic mean what they have to, at every amount,  *)
(* price, capacity and state of play: a ladder fills exactly, a quote has  *)
(* no sure profit in it, the contracts take whatever an agent signs, and   *)
(* what a fan is shown is what is struck; and of a simulated run, that no  *)
(* bet it fills is voided and that its books balance.                      *)
(***************************************************************************)
EXTENDS Pricing, Simulator, OddsMathProofs, FiniteSetTheorems

-----------------------------------------------------------------------------
(* The questions *)

Questions == LadderQuestions \cup QuoteQuestions \cup SignQuestions
             \cup PreviewQuestions \cup CoverQuestions

\* The question asked is one of the kinds, or none.
AskedOK == question \in Questions \cup {NoQuestion}

\* Every question that is asked is a question.
LEMMA AskedAlways == Spec => []AskedOK
<1>1. Init => AskedOK
  BY DEF Init, AskedOK
<1>2. AskedOK /\ [Next]_question => AskedOK'
  BY DEF AskedOK, Next, Ask, AskLadder, AskQuote, AskSign, AskPreview, AskCover,
         Answered, Questions
<1>. QED  BY <1>1, <1>2, PTL DEF Spec

\* The kind of a question says what it is made of.
LEMMA KindOfQuestion ==
    ASSUME AskedOK
    PROVE  /\ question.kind = "ladder" => question \in LadderQuestions
           /\ question.kind = "quote" => question \in QuoteQuestions
           /\ question.kind = "sign" => question \in SignQuestions
           /\ question.kind = "preview" => question \in PreviewQuestions
           /\ question.kind = "cover" => question \in CoverQuestions
<1>1. question \in LadderQuestions => question.kind = "ladder"
  BY DEF LadderQuestions
<1>2. question \in QuoteQuestions => question.kind = "quote"
  BY DEF QuoteQuestions
<1>3. question \in SignQuestions => question.kind = "sign"
  BY DEF SignQuestions
<1>4. question \in PreviewQuestions => question.kind = "preview"
  BY DEF PreviewQuestions
<1>5. question \in CoverQuestions => question.kind = "cover"
  BY DEF CoverQuestions
<1>6. question = NoQuestion => question.kind = "none"
  BY DEF NoQuestion
<1>. QED  BY <1>1, <1>2, <1>3, <1>4, <1>5, <1>6 DEF AskedOK, Questions

-----------------------------------------------------------------------------
(* The ladder *)

\* ladderAllocate fills exactly, whatever the stake, the capacities and the
\* weights, for a ladder of any length (OddsMath.ladderAllocate).
LEMMA LadderFills ==
    ASSUME NEW n \in Nat, NEW total \in Nat, NEW caps \in [1..n -> Nat],
           NEW weights \in [1..n -> Nat]
    PROVE  FillsExactly(total, caps, weights, n)
<1>. DEFINE stakes == LadderStakes(total, caps, weights, n)
<1>1. /\ LadderPlaces(total, caps, weights, n) <=> SumTo(caps, n) >= total
      /\ \A i, j \in 1..n : i < j /\ stakes[j] > MulDiv(total, weights[j], BPS)
                               => stakes[i] = caps[i]
  BY LadderBestFirst
<1>2. /\ stakes \in [1..n -> Nat]
      /\ \A i \in 1..n : stakes[i] <= caps[i]
  BY LadderWithinCaps
<1>3. LadderPlaces(total, caps, weights, n) => SumTo(stakes, n) = total
  BY LadderExact
<1>. HIDE DEF stakes
<1>4. \A i \in 1..n : stakes[i] \in 0..caps[i]
  BY <1>2
<1>. QED  BY <1>1, <1>3, <1>4 DEF FillsExactly, stakes

\* A bet is split over its quotes exactly: it is refused only when they have
\* no room for it, and a worse price is used only once every better one is
\* full.
THEOREM LadderAlwaysFills == Spec => []LadderFillsExactly
<1>1. AskedOK => LadderFillsExactly
  <2>. SUFFICES ASSUME AskedOK, question.kind = "ladder"
                PROVE  FillsExactly(question.total, question.caps, question.weights,
                                    Len(question.weights))
    BY DEF LadderFillsExactly
  <2>1. question \in LadderQuestions
    BY KindOfQuestion
  <2>2. PICK w \in Weights :
            question \in [kind : {"ladder"}, total : Amounts, weights : {w},
                          caps : [1..Len(w) -> Capacities]]
    BY <2>1 DEF LadderQuestions
  <2>3. /\ question.total \in Amounts /\ question.weights = w
        /\ question.caps \in [1..Len(w) -> Capacities]
    BY <2>2
  <2>4. /\ question.total \in Nat
        /\ w \in Seq(Nat)
        /\ question.caps \in [1..Len(w) -> Nat]
    BY <2>3, PricingConstants
  <2>5. Len(w) \in Nat /\ w \in [1..Len(w) -> Nat]
    BY <2>4
  <2>. QED  BY <2>3, <2>4, <2>5, LadderFills
<1>. QED  BY <1>1, AskedAlways, PTL

-----------------------------------------------------------------------------
(* The two ladders *)

\* The first pass of the TypeScript ladder places what the contract's places.
LEMMA TwinShape ==
    ASSUME NEW n \in Nat, NEW total \in Nat, NEW caps \in [1..n -> Nat],
           NEW weights \in [1..n -> Nat]
    PROVE  LET first == FirstPass(total, caps, weights, n)
           IN  LadderShape(total, caps, weights)
                  = [stakes |-> [j \in 1..n |-> first[j - 1] - first[j]], left |-> first[n]]
<1>. DEFINE first == FirstPass(total, caps, weights, n)
            wanted(i, left) == Least(Least(MulDiv(total, weights[i], BPS), left), caps[i])
            Eq(p) == p = [i \in 0..Len(caps) |->
                            IF i = 0 THEN [stakes |-> [j \in 1..Len(caps) |-> 0],
                                           left |-> total]
                            ELSE Take(p[i - 1], i, wanted(i, p[i - 1].left))]
            placed(i) == [j \in 1..n |-> IF j <= i THEN first[j - 1] - first[j] ELSE 0]
            q == [i \in 0..n |-> [stakes |-> placed(i), left |-> first[i]]]
<1>0. Len(caps) = n
  OBVIOUS
<1>1. /\ first \in [0..n -> Nat] /\ first[0] = total
      /\ \A i \in 1..n : first[i] = first[i - 1] - RankShare(total, first[i - 1],
                                                            caps[i], weights[i])
  <2>1. first \in [0..n -> Nat] /\ first[0] = total
    BY FirstPassDef
  <2>2. ASSUME NEW i \in 1..n
        PROVE  first[i] = first[i - 1] - RankShare(total, first[i - 1], caps[i], weights[i])
    BY FirstPassDef, Zenon
  <2>. HIDE DEF first
  <2>. QED  BY <2>1, <2>2
<1>2. ASSUME NEW i \in 1..n
      PROVE  first[i - 1] - first[i] = wanted(i, first[i - 1])
  <2>1. first[i] = first[i - 1] - RankShare(total, first[i - 1], caps[i], weights[i])
    BY <1>1
  <2>2. first[i - 1] \in Nat /\ first[i] \in Nat /\ caps[i] \in Nat /\ weights[i] \in Nat
    BY <1>0, <1>1, i - 1 \in 0..n, i \in 0..n
  <2>3. RankShare(total, first[i - 1], caps[i], weights[i]) = wanted(i, first[i - 1])
    <3>. DEFINE a == MulDiv(total, weights[i], BPS)
                b == first[i - 1]
                c == caps[i]
    <3>1. a \in Nat /\ b \in Nat /\ c \in Nat
      <4>1. BPS \in Nat \ {0}
        BY DEF BPS
      <4>. QED  BY <2>2, <4>1, MulDivBounds
    <3>. HIDE DEF a, b, c
    <3>2. Lesser(Lesser(a, b), c) = Least(Least(a, b), c)
      BY <3>1 DEF Lesser, Least
    <3>. QED  BY <3>2 DEF RankShare, a, b, c
  <2>4. RankShare(total, first[i - 1], caps[i], weights[i]) \in Nat
    BY <2>2, RankShareBounds
  <2>. HIDE DEF first, wanted
  <2>. QED  BY <2>1, <2>2, <2>3, <2>4
<1>. HIDE DEF first, wanted
<1>3. q[0] = [stakes |-> [j \in 1..n |-> 0], left |-> total]
  <2>1. placed(0) = [j \in 1..n |-> 0]
    OBVIOUS
  <2>. QED  BY <1>1, <2>1
<1>4. ASSUME NEW i \in 1..n
      PROVE  q[i] = Take(q[i - 1], i, wanted(i, q[i - 1].left))
  <2>1. i - 1 \in 0..n /\ i \in 0..n /\ (i - 1) + 1 = i
    OBVIOUS
  <2>2. first[i - 1] \in Nat /\ first[i] \in Nat
    BY <1>1, <2>1
  <2>3. q[i - 1] = [stakes |-> placed(i - 1), left |-> first[i - 1]]
        /\ q[i] = [stakes |-> placed(i), left |-> first[i]]
    BY <2>1
  <2>. DEFINE w == wanted(i, first[i - 1])
  <2>4. w = first[i - 1] - first[i]
    BY <1>2
  <2>. HIDE DEF w
  <2>5. placed(i) = [placed(i - 1) EXCEPT ![i] = @ + w]
    <3>1. placed(i - 1)[i] = 0
      OBVIOUS
    <3>2. ASSUME NEW j \in 1..n
          PROVE  placed(i)[j] = [placed(i - 1) EXCEPT ![i] = @ + w][j]
      <4>1. CASE j = i
        BY <2>2, <2>4, <3>1, <4>1
      <4>2. CASE j # i
        <5>1. j <= i <=> j <= i - 1
          BY <4>2
        <5>. QED  BY <4>2, <5>1
      <4>. QED  BY <4>1, <4>2
    <3>. QED  BY <3>2
  <2>6. first[i] = first[i - 1] - w
    BY <2>2, <2>4
  <2>. HIDE DEF q, placed
  <2>. QED  BY <2>3, <2>5, <2>6 DEF Take, w
<1>5. Eq(q)
  <2>1. \A i \in 0..n : i # 0 => i \in 1..n
    OBVIOUS
  <2>2. q = [i \in 0..n |-> q[i]]
    OBVIOUS
  <2>. HIDE DEF q
  <2>. QED  BY <1>0, <1>3, <1>4, <2>1, <2>2
<1>. DEFINE p == CHOOSE r : Eq(r)
<1>6. Eq(p) /\ LadderShape(total, caps, weights) = p[n]
  <2>1. \E r : Eq(r)
    BY <1>5
  <2>. QED  BY <1>0, <2>1 DEF LadderShape, ShapeRung, wanted
<1>7. p = q
  <2>. HIDE DEF p, q
  <2>1. p[0] = q[0]
    BY <1>3, <1>6
  <2>2. OnSegment(p, n)
    BY <1>6 DEF OnSegment
  <2>3. OnSegment(q, n)
    BY DEF q, OnSegment
  <2>4. ASSUME NEW k \in 1..n, p[k - 1] = q[k - 1] PROVE p[k] = q[k]
    <3>0. k \in 0..Len(caps) /\ k # 0
      OBVIOUS
    <3>1. p[k] = Take(p[k - 1], k, wanted(k, p[k - 1].left))
      BY <1>6, <3>0, Zenon
    <3>. QED  BY <1>4, <2>4, <3>1
  <2>. QED  BY <2>1, <2>2, <2>3, <2>4, RecursionUnique, Zenon
<1>8. placed(n) = [j \in 1..n |-> first[j - 1] - first[j]]
  OBVIOUS
<1>. HIDE DEF placed, p
<1>. QED  BY <1>6, <1>7, <1>8 DEF first

\* And the second pass what the contract's second pass places: the TypeScript
\* ladder is the Solidity one, stake for stake and to what is left, whatever
\* the stake, the capacities and the weights, for a ladder of any length
\* (oddsMath.ts and OddsMath.sol, ladderAllocate).
THEOREM TwinLadder ==
    ASSUME NEW n \in Nat, NEW total \in Nat, NEW caps \in [1..n -> Nat],
           NEW weights \in [1..n -> Nat]
    PROVE  LadderAllocate(total, caps, weights)
              = [stakes |-> LadderStakes(total, caps, weights, n),
                 left |-> LadderLeft(total, caps, weights, n)]
<1>. DEFINE first == FirstPass(total, caps, weights, n)
            sweep == SecondPass(caps, first, n)
            shape == LadderShape(total, caps, weights)
            shaped(j) == first[j - 1] - first[j]
            swept(j) == sweep[j - 1] - sweep[j]
            wanted(i, s) == Least(caps[i] - s.stakes[i], s.left)
            Eq(p) == p = [i \in 0..Len(caps) |->
                            IF i = 0 THEN shape ELSE Take(p[i - 1], i, wanted(i, p[i - 1]))]
            placed(i) == [j \in 1..n |-> shaped(j) + (IF j <= i THEN swept(j) ELSE 0)]
            q == [i \in 0..n |-> [stakes |-> placed(i), left |-> sweep[i]]]
<1>0. Len(caps) = n
  OBVIOUS
<1>1. first \in [0..n -> Nat] /\ \A i \in 1..n : shaped(i) \in 0..caps[i]
  BY FirstPassDef
<1>2. shape = [stakes |-> [j \in 1..n |-> shaped(j)], left |-> first[n]]
  BY TwinShape
<1>. HIDE DEF first, shape
<1>3. /\ sweep \in [0..n -> Nat] /\ sweep[0] = first[n]
      /\ \A i \in 1..n : sweep[i] = SweepRank(sweep[i - 1], caps[i] - shaped(i))
  BY <1>1, SecondPassDef
<1>. HIDE DEF sweep
<1>4. ASSUME NEW i \in 1..n
      PROVE  /\ shaped(i) \in Int /\ swept(i) \in Int /\ sweep[i - 1] \in Int
             /\ swept(i) = Least(caps[i] - shaped(i), sweep[i - 1])
             /\ sweep[i] = sweep[i - 1] - swept(i)
  <2>. DEFINE a == caps[i] - shaped(i)
              b == sweep[i - 1]
              c == sweep[i]
  <2>1. a \in Int /\ b \in Int /\ c \in Int /\ shaped(i) \in Int /\ c = SweepRank(b, a)
    BY <1>1, <1>3, i - 1 \in 0..n, i \in 0..n
  <2>. HIDE DEF a, b, c
  <2>2. b - c = Least(a, b) /\ c = b - (b - c) /\ b - c \in Int
    BY <2>1 DEF SweepRank, Lesser, Least
  <2>. QED  BY <2>1, <2>2 DEF a, b, c
<1>. HIDE DEF shaped, swept
<1>5. q[0] = shape
  <2>1. placed(0) = [j \in 1..n |-> shaped(j)]
    BY <1>4
  <2>2. q[0] = [stakes |-> placed(0), left |-> sweep[0]]
    OBVIOUS
  <2>. HIDE DEF q, placed
  <2>. QED  BY <1>2, <1>3, <2>1, <2>2
<1>6. ASSUME NEW i \in 1..n
      PROVE  q[i] = Take(q[i - 1], i, wanted(i, q[i - 1]))
  <2>1. i - 1 \in 0..n /\ i \in 0..n /\ (i - 1) + 1 = i
    OBVIOUS
  <2>3. q[i - 1] = [stakes |-> placed(i - 1), left |-> sweep[i - 1]]
        /\ q[i] = [stakes |-> placed(i), left |-> sweep[i]]
    BY <2>1
  <2>4. placed(i - 1)[i] = shaped(i)
    BY <1>4
  <2>5. placed(i) = [placed(i - 1) EXCEPT ![i] = @ + swept(i)]
    <3>2. ASSUME NEW j \in 1..n
          PROVE  placed(i)[j] = [placed(i - 1) EXCEPT ![i] = @ + swept(i)][j]
      <4>1. CASE j = i
        BY <1>4, <2>4, <4>1
      <4>2. CASE j # i
        <5>1. j <= i <=> j <= i - 1
          BY <4>2
        <5>. QED  BY <4>2, <5>1
      <4>. QED  BY <4>1, <4>2
    <3>. QED  BY <3>2
  <2>. HIDE DEF q, placed
  <2>6. wanted(i, q[i - 1]) = swept(i)
    <3>1. q[i - 1].stakes[i] = shaped(i) /\ q[i - 1].left = sweep[i - 1]
      BY <2>3, <2>4
    <3>2. wanted(i, q[i - 1]) = Least(caps[i] - shaped(i), sweep[i - 1])
      BY <3>1
    <3>. QED  BY <1>4, <3>2
  <2>. HIDE DEF wanted
  <2>7. sweep[i] = sweep[i - 1] - swept(i)
    BY <1>4
  <2>. QED  BY <2>3, <2>5, <2>6, <2>7 DEF Take
<1>. HIDE DEF wanted
<1>7. Eq(q)
  <2>1. \A i \in 0..n : i # 0 => i \in 1..n
    OBVIOUS
  <2>2. q = [i \in 0..n |-> q[i]]
    OBVIOUS
  <2>. HIDE DEF q
  <2>. QED  BY <1>0, <1>5, <1>6, <2>1, <2>2
<1>. DEFINE p == CHOOSE r : Eq(r)
<1>8. Eq(p) /\ LadderAllocate(total, caps, weights) = p[n]
  <2>1. \E r : Eq(r)
    BY <1>7
  <2>. QED  BY <1>0, <2>1 DEF LadderAllocate, FillRung, wanted, shape
<1>9. p = q
  <2>. HIDE DEF p, q
  <2>1. p[0] = q[0]
    BY <1>5, <1>8
  <2>2. OnSegment(p, n)
    BY <1>0, <1>8 DEF OnSegment
  <2>3. OnSegment(q, n)
    BY DEF q, OnSegment
  <2>4. ASSUME NEW k \in 1..n, p[k - 1] = q[k - 1] PROVE p[k] = q[k]
    <3>0. k \in 0..Len(caps) /\ k # 0
      BY <1>0
    <3>1. p[k] = Take(p[k - 1], k, wanted(k, p[k - 1]))
      BY <1>8, <3>0, Zenon
    <3>. QED  BY <1>6, <2>4, <3>1
  <2>. QED  BY <2>1, <2>2, <2>3, <2>4, RecursionUnique, Zenon
<1>10. placed(n) = LadderStakes(total, caps, weights, n)
  <2>1. LadderStakes(total, caps, weights, n) = [j \in 1..n |-> shaped(j) + swept(j)]
    BY DEF LadderStakes, first, sweep, shaped, swept
  <2>. QED  BY <2>1
<1>11. LadderLeft(total, caps, weights, n) = sweep[n]
  BY DEF LadderLeft, first, sweep
<1>. HIDE DEF placed, p
<1>. QED  BY <1>8, <1>9, <1>10, <1>11

-----------------------------------------------------------------------------
(* A quote *)

\* Whatever is put on the two sides of a quote, the smaller payout is at most
\* what both stakes cost, when the prices add up to a certainty or more.
LEMMA MarginLeavesNoProfit ==
    ASSUME NEW x \in Nat, NEW y \in Nat, NEW p \in 1..BPS, NEW q \in 1..BPS,
           p + q >= BPS
    PROVE  Lesser(PayoutFor(x, p), PayoutFor(y, q)) <= x + y
<1>. DEFINE a == PayoutFor(x, p)
            b == PayoutFor(y, q)
            m == Lesser(a, b)
<1>1. /\ p \in Nat \ {0} /\ q \in Nat \ {0} /\ p \in Nat /\ q \in Nat
      /\ BPS \in Nat /\ BPS \in Nat \ {0}
  BY DEF BPS
<1>2. a \in Nat /\ a * p <= x * BPS
  BY <1>1, MulDivBounds DEF PayoutFor
<1>3. b \in Nat /\ b * q <= y * BPS
  BY <1>1, MulDivBounds DEF PayoutFor
<1>. HIDE DEF a, b
<1>4. m \in Nat /\ m <= a /\ m <= b
  BY <1>2, <1>3 DEF Lesser
<1>. HIDE DEF m
<1>5. m * p <= a * p /\ m * p \in Nat /\ a * p \in Nat
  BY <1>1, <1>2, <1>4, MulMono
<1>6. m * q <= b * q /\ m * q \in Nat /\ b * q \in Nat
  BY <1>1, <1>3, <1>4, MulMono
<1>7. m * (p + q) = m * p + m * q
  BY <1>1, <1>4
<1>8. (x + y) * BPS = x * BPS + y * BPS /\ x * BPS \in Nat /\ y * BPS \in Nat
  BY <1>1
<1>9. BPS * m <= (p + q) * m /\ BPS * m = m * BPS /\ (p + q) * m = m * (p + q)
  BY <1>1, <1>4, p + q \in Nat, MulMono
<1>10. m * BPS <= (x + y) * BPS
  <2>. DEFINE mp == m * p
              mq == m * q
              ap == a * p
              bq == b * q
              xB == x * BPS
              yB == y * BPS
              mB == m * BPS
              both == (x + y) * BPS
              mpq == m * (p + q)
  <2>1. /\ mp \in Nat /\ mq \in Nat /\ ap \in Nat /\ bq \in Nat /\ xB \in Nat /\ yB \in Nat
        /\ mp <= ap /\ ap <= xB /\ mq <= bq /\ bq <= yB
        /\ both = xB + yB /\ mpq = mp + mq /\ mB <= mpq
    BY <1>2, <1>3, <1>5, <1>6, <1>7, <1>8, <1>9
  <2>2. mB \in Nat
    BY <1>1, <1>4
  <2>. HIDE DEF mp, mq, ap, bq, xB, yB, mB, both, mpq
  <2>3. mB <= both
    BY <2>1, <2>2
  <2>. QED  BY <2>3 DEF mB, both
<1>11. m <= x + y
  BY <1>1, <1>4, <1>10, x + y \in Nat, MulCancel
<1>. QED  BY <1>11 DEF m, a, b

\* A fan who backs both sides of a quote the contracts accept never gets back
\* more than the two stakes for sure (OddsMath.validateQuote's margin).
THEOREM NeverSureProfit == Spec => []NoSureProfit
<1>1. AskedOK => NoSureProfit
  <2>. SUFFICES ASSUME AskedOK, question.kind = "quote",
                       ValidQuote(question.yes, question.no, MinProbBps,
                                  MaxProbBps, MinMarginBps)
                PROVE  Lesser(PayoutFor(question.onYes, question.yes),
                              PayoutFor(question.onNo, question.no))
                           <= question.onYes + question.onNo
    BY DEF NoSureProfit
  <2>1. /\ question.yes \in Prices /\ question.no \in Prices
        /\ question.onYes \in Amounts /\ question.onNo \in Amounts
    BY KindOfQuestion DEF QuoteQuestions
  <2>2. /\ question.yes \in 1..BPS /\ question.no \in 1..BPS
        /\ question.onYes \in Nat /\ question.onNo \in Nat
        /\ MinMarginBps \in Nat
    BY <2>1, PricingConstants, ZenonT(30)
  <2>3. question.yes + question.no >= BPS + MinMarginBps
    BY DEF ValidQuote
  <2>4. BPS \in Nat
    BY DEF BPS
  <2>5. question.yes + question.no >= BPS
    BY <2>2, <2>3, <2>4
  <2>. QED  BY <2>2, <2>5, MarginLeavesNoProfit
<1>. QED  BY <1>1, AskedAlways, PTL

-----------------------------------------------------------------------------
(* What an agent signs *)

\* The tables the instances give the three curves by hold whole numbers.
WholeTables ==
    /\ \A x \in Int : ExpNeg(x) \in Int
    /\ \A p \in Nat \ {0} : NegLog(p) \in Int
    /\ \A m, t \in Nat : Power(m, t) \in Int

\* The deployed bounds: BetRouter's are no tighter than the strategies' least
\* margin and OddsLock's prices, and a margin of an operator's strategy, or the
\* house's largest, still fits two capped sides with all that learn can add.
BoundsFit ==
    /\ MinMarginBps <= MinMarginBpsOfStrategy
    /\ MinProbBps <= LockMinProbBps /\ LockMaxProbBps <= MaxProbBps
    /\ \A m \in OperatorMargins \cup {Steady.margin} :
          BPS + m + 500 <= 2 * MaxProbBps

\* The bounds on prices are numbers inside a certainty.
LEMMA PriceBounds ==
    /\ BPS \in Nat /\ MinProbBps \in Nat /\ MaxProbBps \in Nat /\ MinMarginBps \in Nat
    /\ 1 <= MinProbBps /\ MinProbBps < MaxProbBps /\ MaxProbBps < BPS
<1>1. BPS \in Nat
  BY DEF BPS
<1>. QED  BY <1>1, QuotingBounds, PricingConstants

\* marginedQuote's clamps keep both prices in bounds and never eat into the
\* margin, whatever the fair price (core/pricing.ts).
LEMMA MarginedQuoteValid ==
    ASSUME NEW fair \in Int, NEW margin \in Nat, MarginReachable(margin),
           MinMarginBps <= margin
    PROVE  LET quote == MarginedQuote(fair, margin)
           IN  /\ quote.probYesBps \in 1..(BPS - 1) /\ quote.probNoBps \in 1..(BPS - 1)
               /\ ValidQuote(quote.probYesBps, quote.probNoBps,
                             MinProbBps, MaxProbBps, MinMarginBps)
<1>. DEFINE quote == MarginedQuote(fair, margin)
            asked == fair + (margin + 1) \div 2
            yes == Clamp(asked, MinProbBps, MaxProbBps)
            no == Clamp((BPS + margin) - yes, MinProbBps, MaxProbBps)
            dear == Clamp((BPS + margin) - no, MinProbBps, MaxProbBps)
<1>1. asked \in Int /\ margin \in Nat /\ MinMarginBps <= margin
  OBVIOUS
<1>2. quote = [probYesBps |-> dear, probNoBps |-> no]
  BY DEF MarginedQuote
<1>. HIDE DEF quote, asked
<1>3. yes \in Int /\ MinProbBps <= yes /\ yes <= MaxProbBps
  BY <1>1, PriceBounds DEF Clamp
<1>. HIDE DEF yes
<1>4. /\ no \in Int /\ dear \in Int /\ dear + no >= BPS + margin
      /\ MinProbBps <= no /\ no <= MaxProbBps /\ MinProbBps <= dear /\ dear <= MaxProbBps
  BY <1>1, <1>3, PriceBounds DEF Clamp, MarginReachable
<1>. HIDE DEF no, dear
<1>5. /\ dear \in MinProbBps..MaxProbBps /\ no \in MinProbBps..MaxProbBps
      /\ dear + no >= BPS + MinMarginBps
  BY <1>1, <1>4, PriceBounds
<1>6. dear \in 1..(BPS - 1) /\ no \in 1..(BPS - 1)
  BY <1>4, PriceBounds
<1>7. quote.probYesBps = dear /\ quote.probNoBps = no
  BY <1>2
<1>. QED  BY <1>5, <1>6, <1>7 DEF ValidQuote, quote

\* A stake sized for the side that pays more fits the budget on both.
LEMMA SizedForBothSides ==
    ASSUME NEW budget \in Nat, NEW cap \in Nat,
           NEW least \in 1..(BPS - 1), NEW p \in 1..(BPS - 1), least <= p
    PROVE  LiabilityFor(Least(MaxStakeOf(budget, least), cap), p) \in 0..budget
<1>. DEFINE q == MulDiv(budget, least, BPS - least)
            stake == Least(MaxStakeOf(budget, least), cap)
            c == BPS - least
            d == BPS - p
<1>1. /\ least \in Nat /\ p \in Nat /\ p \in 1..BPS /\ p # BPS /\ least # BPS
      /\ c \in Nat \ {0} /\ d \in Nat \ {0} /\ d \in Nat /\ c \in Nat /\ d <= c
  <2>. HIDE DEF q, stake
  <2>1. BPS \in Nat
    BY DEF BPS
  <2>2. least \in Nat /\ p \in Nat /\ p \in 1..BPS /\ p # BPS /\ least # BPS
    BY <2>1
  <2>3. c \in Nat \ {0} /\ d \in Nat \ {0} /\ d <= c
    BY <2>1, <2>2
  <2>. QED  BY <2>2, <2>3
<1>2. q \in Nat /\ q * c <= budget * least
  BY <1>1, MulDivBounds
<1>3. stake \in Nat /\ stake <= q
  BY <1>1, <1>2 DEF Least, MaxStakeOf
<1>4. stake * d <= budget * p
  <2>. DEFINE sd == stake * d
              qd == q * d
              qc == q * c
              bl == budget * least
              bp == budget * p
  <2>. HIDE DEF stake, q, c, d
  <2>1. sd <= qd /\ sd \in Nat /\ qd \in Nat
    BY <1>1, <1>2, <1>3, MulMono
  <2>2. d * q <= c * q /\ d * q = qd /\ c * q = qc /\ qc \in Nat
    BY <1>1, <1>2, MulMono
  <2>3. least * budget <= p * budget /\ least * budget = bl /\ p * budget = bp
        /\ bl \in Nat /\ bp \in Nat
    BY <1>1, MulMono
  <2>4. qc <= bl
    BY <1>2
  <2>. HIDE DEF sd, qd, qc, bl, bp
  <2>5. sd <= bp
    BY <2>1, <2>2, <2>3, <2>4
  <2>. QED  BY <2>5 DEF sd, bp
<1>5. stake <= MulDiv(budget, p, d)
  BY <1>1, <1>3, <1>4, MulDivLargest
<1>6. stake <= MaxStakeForLiability(budget, p)
  BY <1>1, <1>5 DEF MaxStakeForLiability
<1>7. LiabilityFor(stake, p) \in Nat /\ LiabilityFor(stake, p) <= budget
  BY <1>1, <1>3, <1>6, SizedFits
<1>. HIDE DEF stake
<1>8. LiabilityFor(stake, p) \in 0..budget
  BY <1>7
<1>. QED  BY <1>8 DEF stake

\* No stake a quote allows costs more than the budget it was sized against
\* (quoteMaxStake).
LEMMA QuoteFitsBudget ==
    ASSUME NEW budget \in Nat, NEW cap \in Nat, NEW quote,
           quote.probYesBps \in 1..(BPS - 1), quote.probNoBps \in 1..(BPS - 1)
    PROVE  QuoteFits(quote, budget, cap)
<1>. DEFINE yes == quote.probYesBps
            no == quote.probNoBps
            least == Least(yes, no)
<1>1. yes \in 1..(BPS - 1) /\ no \in 1..(BPS - 1)
  OBVIOUS
<1>. HIDE DEF yes, no
<1>2. least \in 1..(BPS - 1) /\ least <= yes /\ least <= no
  <2>1. Least(yes, no) = yes \/ Least(yes, no) = no
    BY DEF Least
  <2>2. yes \in Nat /\ no \in Nat
    BY <1>1
  <2>3. Least(yes, no) <= yes /\ Least(yes, no) <= no
    BY <2>2 DEF Least
  <2>. QED  BY <1>1, <2>1, <2>3
<1>3. QuoteMaxStake(budget, yes, no, cap) = Least(MaxStakeOf(budget, least), cap)
  BY DEF QuoteMaxStake
<1>. HIDE DEF least
<1>4. \A side \in Sides : SidePrice(quote, side) \in {yes, no}
  BY DEF SidePrice, yes, no
<1>5. \A side \in Sides :
        LiabilityFor(QuoteMaxStake(budget, yes, no, cap), SidePrice(quote, side))
            \in 0..budget
  BY <1>1, <1>2, <1>3, <1>4, SizedForBothSides
<1>. QED  BY <1>5 DEF QuoteFits, yes, no

\* The bounds of a lock's price: with the other side at the highest, the least
\* leaves a strategy's least margin.
LEMMA LockBounds ==
    /\ LockMinProbBps \in Nat /\ LockMaxProbBps \in Nat
    /\ LockMinProbBps + LockMaxProbBps = BPS + MinMarginBpsOfStrategy
    /\ LockMinProbBps <= LockMaxProbBps
<1>1. LockMinProbBps \in Nat /\ LockMaxProbBps \in Nat
  BY DEF LockMinProbBps, LockMaxProbBps
<1>2. LockMinProbBps + LockMaxProbBps = BPS + MinMarginBpsOfStrategy
  BY DEF LockMinProbBps, LockMaxProbBps, BPS, MinMarginBpsOfStrategy
<1>3. LockMinProbBps <= LockMaxProbBps
  BY DEF LockMinProbBps, LockMaxProbBps
<1>. QED  BY <1>1, <1>2, <1>3

\* A hold an agent offers is within OddsLock's terms, and the quote that
\* honours it clears validateQuote (core/odds-lock.ts offerHolds).
LEMMA OffersHonourable ==
    ASSUME WholeTables, BoundsFit, NEW quote, NEW left \in Nat \ {0},
           NEW speed \in 1..LockHoldSec,
           quote.probYesBps \in 1..(BPS - 1), quote.probNoBps \in 1..(BPS - 1),
           NEW offer \in HoldOffers(quote, left, speed)
    PROVE  OfferHonourable(offer)
<1>. DEFINE holdSec == HoldRealSec(speed) * speed
<1>1. PICK side \in Sides :
        /\ HoldOffered(side, quote, left, holdSec)
        /\ LockFeeBps(side, quote, left, holdSec) <= LockFeeCeilingBps
        /\ offer = [side |-> side, probBps |-> SidePrice(quote, side),
                    feeBps |-> LockFeeBps(side, quote, left, holdSec),
                    holdSeconds |-> HoldRealSec(speed)]
  BY DEF HoldOffers
<1>2. offer.probBps \in LockMinProbBps..LockMaxProbBps
  BY <1>1 DEF HoldOffered
<1>3. HoldRealSec(speed) \in 1..MaxHoldSeconds
  <2>1. speed \in Nat \ {0} /\ 2 * speed \in Nat \ {0}
    BY DEF LockHoldSec
  <2>2. (2 * LockHoldSec + speed) \div (2 * speed) \in Int
    BY <2>1 DEF LockHoldSec
  <2>. QED  BY <2>2 DEF HoldRealSec, Clamp, LockMinHoldRealSec, LockHoldSec, MaxHoldSeconds
<1>4. holdSec \in Int
  BY <1>3 DEF LockHoldSec
<1>. HIDE DEF holdSec
<1>5. HoldWorth(side, quote, left, holdSec) \in Nat
  <2>. DEFINE yes == quote.probYesBps
              no == quote.probNoBps
              fairNo == (BPS * no) \div (yes + no)
              aged == (NegLog(fairNo) * holdSec) \div left
              gain == (BPS * fairNo) \div no - ExpNeg(aged)
  <2>1. yes \in 1..(BPS - 1) /\ no \in 1..(BPS - 1)
    OBVIOUS
  <2>. HIDE DEF yes, no
  <2>11. yes \in Nat \ {0} /\ no \in Nat \ {0} /\ yes + no \in Nat \ {0} /\ BPS \in Nat
    BY <2>1, PriceBounds
  <2>2. fairNo \in Nat \ {0}
    <3>. DEFINE most == BPS - 1
    <3>1. /\ most \in Nat /\ BPS = most + 1 /\ yes <= most /\ 1 <= no
          /\ no \in Nat /\ yes \in Nat
      BY <2>1, <2>11, PriceBounds
    <3>. HIDE DEF most
    <3>2. 1 * most <= no * most /\ no * most \in Nat
      BY <3>1, MulMono
    <3>3. BPS * no = no * most + no
      BY <3>1
    <3>4. 1 * (yes + no) <= BPS * no
      <4>. DEFINE x == no * most
                  y == BPS * no
      <4>1. x \in Nat /\ most <= x /\ y = x + no
        BY <3>1, <3>2, <3>3
      <4>. HIDE DEF x, y
      <4>2. 1 * (yes + no) <= y
        BY <3>1, <4>1
      <4>. QED  BY <4>2 DEF y
    <3>5. 1 <= MulDiv(BPS, no, yes + no) /\ MulDiv(BPS, no, yes + no) \in Nat
      BY <2>11, <3>1, <3>4, 1 \in Nat, MulDivLargest, MulDivBounds
    <3>. QED  BY <3>5 DEF MulDiv
  <2>. HIDE DEF fairNo
  <2>3. NegLog(fairNo) * holdSec \in Int
    BY <1>4, <2>2 DEF WholeTables
  <2>4. aged \in Int
    BY <2>3
  <2>. HIDE DEF aged
  <2>5. ExpNeg(aged) \in Int
    BY <2>4 DEF WholeTables
  <2>6. BPS * fairNo \in Int
    <3>1. fairNo \in Int /\ BPS \in Int
      BY <2>11, <2>2
    <3>. QED  BY <3>1
  <2>7. (BPS * fairNo) \div no \in Int
    BY <2>11, <2>6
  <2>8. gain \in Int
    BY <2>5, <2>7
  <2>9. HoldWorth(side, quote, left, holdSec)
            = IF side = "yes" \/ gain < 0 THEN 0 ELSE gain
    BY DEF HoldWorth, gain, aged, fairNo, yes, no
  <2>. HIDE DEF gain
  <2>. QED  BY <2>8, <2>9
<1>6. offer.feeBps \in 1..MaxFeeBps
  <2>. DEFINE worth == HoldWorth(side, quote, left, holdSec)
              fee == LockFeeBps(side, quote, left, holdSec)
  <2>1. fee = 100 + (5 * worth + 3) \div 4 /\ worth \in Nat
    BY <1>5 DEF LockFeeBps
  <2>2. fee <= 2500
    BY <1>1 DEF LockFeeCeilingBps
  <2>. HIDE DEF worth, fee
  <2>3. fee \in 1..MaxFeeBps
    BY <2>1, <2>2, SMTT(30) DEF MaxFeeBps
  <2>. QED  BY <1>1, <2>3 DEF fee
<1>7. OfferTermsValid(offer)
  BY <1>1, <1>2, <1>3, <1>6 DEF OfferTermsValid
<1>8. LET honouring == HonouringPrices(offer.side, offer.probBps)
      IN  ValidQuote(honouring.probYesBps, honouring.probNoBps,
                     MinProbBps, MaxProbBps, MinMarginBps)
  <2>. DEFINE p == offer.probBps
  <2>1. /\ LockMinProbBps \in Nat /\ LockMaxProbBps \in Nat
        /\ LockMinProbBps + LockMaxProbBps = BPS + MinMarginBpsOfStrategy
        /\ LockMinProbBps <= LockMaxProbBps
    BY LockBounds
  <2>2. p \in Nat /\ LockMinProbBps <= p /\ p <= LockMaxProbBps
    BY <1>2, <2>1
  <2>3. offer.side \in {"yes", "no"}
    BY <1>1 DEF Sides
  <2>. HIDE DEF p
  <2>4. /\ ValidQuote(p, LockMaxProbBps, MinProbBps, MaxProbBps, MinMarginBps)
        /\ ValidQuote(LockMaxProbBps, p, MinProbBps, MaxProbBps, MinMarginBps)
    <3>1. /\ MinMarginBps <= MinMarginBpsOfStrategy /\ MinMarginBpsOfStrategy \in Nat
          /\ MinProbBps <= LockMinProbBps /\ LockMaxProbBps <= MaxProbBps
      BY DEF BoundsFit, MinMarginBpsOfStrategy
    <3>2. p \in MinProbBps..MaxProbBps /\ LockMaxProbBps \in MinProbBps..MaxProbBps
      BY <2>1, <2>2, <3>1, PriceBounds
    <3>3. /\ p + LockMaxProbBps >= BPS + MinMarginBps
          /\ LockMaxProbBps + p >= BPS + MinMarginBps
      BY <2>1, <2>2, <3>1, PriceBounds
    <3>. QED  BY <3>2, <3>3 DEF ValidQuote
  <2>5. CASE offer.side = "yes"
    BY <2>4, <2>5 DEF HonouringPrices, p
  <2>6. CASE offer.side = "no"
    BY <2>4, <2>6 DEF HonouringPrices, p
  <2>. QED  BY <2>3, <2>5, <2>6
<1>. QED  BY <1>7, <1>8 DEF OfferHonourable

Strategist(agent) ==
    agent.lookback \in Nat /\ agent.prior \in Nat \ {0} /\ agent.trust \in Nat
Knowing(state) ==
    /\ state.template \in Templates /\ state.teamFilter \in {0, 1}
    /\ state.recent \in Nat /\ state.left \in Nat /\ state.reading \in Nat

\* Whatever is known of the play, a fair price is a number.
LEMMA FairYesType ==
    ASSUME WholeTables, NEW agent, Strategist(agent), NEW state, Knowing(state)
    PROVE  FairYes(agent, state) \in Int
<1>1. /\ state.template \in Templates /\ state.teamFilter \in {0, 1}
      /\ state.recent \in Nat /\ state.left \in Nat /\ state.reading \in Nat
  BY DEF Knowing
<1>2. /\ agent.lookback \in Nat /\ agent.prior \in Nat \ {0} /\ agent.trust \in Nat
  BY DEF Strategist
<1>3. PerMatchTenths[state.template] \in Nat
  BY <1>1 DEF Templates, PerMatchTenths
<1>4. BaseRate(state.template, state.teamFilter) \in Int
  BY <1>3 DEF BaseRate
<1>5. Rate(agent, state) \in Int
  <2>. DEFINE base == BaseRate(state.template, state.teamFilter)
  <2>1. base \in Int
    BY <1>4
  <2>. HIDE DEF base
  <2>2. /\ base * agent.prior \in Int /\ state.recent * 1000000 \in Int
        /\ agent.prior + agent.lookback \in Nat \ {0}
    BY <1>1, <1>2, <2>1
  <2>3. base * agent.prior + state.recent * 1000000 \in Int
    BY <2>2
  <2>4. BlendedRate(base, state.recent, agent.lookback, agent.prior) \in Int
    BY <2>2, <2>3 DEF BlendedRate
  <2>. QED  BY <2>1, <2>4 DEF Rate, base
<1>6. ReaderMultiplier(state.reading, agent.trust) \in Int
  <2>1. Clamp(state.reading, 500, 2000) \in Nat
    BY <1>1 DEF Clamp
  <2>. QED  BY <1>2, <2>1 DEF ReaderMultiplier, WholeTables
<1>7. (Rate(agent, state) * ReaderMultiplier(state.reading, agent.trust)) \div 1000 \in Int
  BY <1>5, <1>6
<1>. DEFINE rate == (Rate(agent, state) * ReaderMultiplier(state.reading, agent.trust)) \div 1000
<1>. HIDE DEF rate
<1>8. rate * state.left \in Int
  BY <1>1, <1>7 DEF rate
<1>9. (rate * state.left) \div 1000 \in Int
  BY <1>8
<1>10. PoissonProbability(rate, state.left) \in Int
  BY <1>9 DEF PoissonProbability, WholeTables, BPS
<1>. QED  BY <1>10 DEF FairYes, rate

\* The contracts take everything an agent signs, whatever the play, the match
\* reader's reading and the margin learned: its quote, the largest stake the
\* quote allows, its holds, and the quotes that honour them.
THEOREM SignedWorkAlwaysAccepted ==
    ASSUME WholeTables, BoundsFit
    PROVE  Spec => []SignedWorkAccepted
<1>1. AskedOK => SignedWorkAccepted
  <2>. SUFFICES ASSUME AskedOK, question.kind = "sign"
                PROVE  SignedWorkAccepted
    BY DEF SignedWorkAccepted
  <2>. DEFINE agent == question.agent
              margin == EffectiveMarginBps(agent.margin, question.adj)
              quote == Price(agent, question)
  <2>1. question \in SignQuestions
    BY KindOfQuestion
  <2>2. /\ agent \in SigningAgents /\ question.left \in Nat /\ question.adj \in -100..500
        /\ question.budget \in Nat /\ question.speed \in 1..LockHoldSec
    <3>1. /\ agent \in SigningAgents /\ question.left \in SecondsLeft
          /\ question.adj \in Learned /\ question.budget \in Budgets
          /\ question.speed \in Speeds
      BY <2>1 DEF SignQuestions
    <3>. QED  BY <3>1, PricingConstants, ZenonT(30)
  <2>3. /\ agent.margin \in Nat /\ agent.maxStake \in Nat
        /\ agent.margin <= 300 \/ agent.margin \in OperatorMargins
    BY <2>2, QuotingBounds
       DEF SigningAgents, HouseAgents, Steady, Tempo, Pulse, Operated
  <2>4. BPS + agent.margin + 500 <= 2 * MaxProbBps
    <3>1. BPS + 300 + 500 <= 2 * MaxProbBps /\ MaxProbBps \in Nat
      BY QuotingBounds DEF BoundsFit, Steady, BPS
    <3>2. \A m \in OperatorMargins : BPS + m + 500 <= 2 * MaxProbBps
      BY DEF BoundsFit
    <3>. QED  BY <2>3, <3>1, <3>2 DEF BPS
  <2>5. margin \in Nat /\ MarginReachable(margin) /\ MinMarginBps <= margin
    <3>. DEFINE base == agent.margin
                adj == question.adj
    <3>1. /\ base \in Nat /\ adj \in -100..500 /\ MinMarginBps \in Nat
          /\ MinMarginBps <= 200 /\ MaxProbBps \in Nat
          /\ 10000 + base + 500 <= 2 * MaxProbBps
      <4>1. base \in Nat /\ adj \in -100..500
        BY <2>2, <2>3
      <4>2. MinMarginBps \in Nat /\ MinMarginBps <= 200
        BY PricingConstants DEF BoundsFit, MinMarginBpsOfStrategy
      <4>3. MaxProbBps \in Nat
        BY QuotingBounds DEF BPS
      <4>. QED  BY <2>4, <4>1, <4>2, <4>3 DEF BPS
    <3>2. margin = IF base + adj > 200 THEN base + adj ELSE 200
      BY DEF EffectiveMarginBps, MinMarginBpsOfStrategy
    <3>. HIDE DEF base, adj, margin
    <3>. QED  BY <3>1, <3>2 DEF MarginReachable, BPS
  <2>6. quote = MarginedQuote(FairYes(agent, question), margin)
    BY DEF Price
  <2>7. FairYes(agent, question) \in Int
    <3>1. Strategist(agent)
      BY <2>2 DEF Strategist, SigningAgents, HouseAgents, Steady, Tempo, Pulse, Operated
    <3>2. Knowing(question)
      <4>1. /\ question.template \in Templates /\ question.teamFilter \in {0, 1}
            /\ question.recent \in Counts /\ question.left \in SecondsLeft
            /\ question.reading \in Readings
        BY <2>1 DEF SignQuestions
      <4>. QED  BY <4>1, PricingConstants DEF Knowing
    <3>. QED  BY <3>1, <3>2, FairYesType
  <2>. HIDE DEF quote, margin
  <2>8. /\ quote.probYesBps \in 1..(BPS - 1) /\ quote.probNoBps \in 1..(BPS - 1)
        /\ ValidQuote(quote.probYesBps, quote.probNoBps,
                      MinProbBps, MaxProbBps, MinMarginBps)
    BY <2>5, <2>6, <2>7, MarginedQuoteValid
  <2>9. QuoteFits(quote, question.budget, agent.maxStake)
    BY <2>2, <2>3, <2>8, QuoteFitsBudget
  <2>10. question.left > 0 =>
            \A offer \in HoldOffers(quote, question.left, question.speed) :
                OfferHonourable(offer)
    BY <2>2, <2>8, OffersHonourable
  <2>. QED  BY <2>5, <2>8, <2>9, <2>10 DEF SignedWorkAccepted, quote, margin
<1>. QED  BY <1>1, AskedAlways, PTL

-----------------------------------------------------------------------------
(* A price follows the play *)

\* The curves keep the order of their arguments: what is likelier to have
\* passed by a longer or livelier wait is no less likely, and a higher
\* multiplier is no lower once raised.
CurvesKeepOrder ==
    /\ \A x \in Nat : ExpNeg(x) \in Nat /\ ExpNeg(x) <= BPS
    /\ \A x, y \in Nat : x <= y => ExpNeg(y) <= ExpNeg(x)
    /\ \A m, t \in Nat : Power(m, t) \in Nat
    /\ \A m, k, t \in Nat : m <= k => Power(m, t) <= Power(k, t)

\* A floored quotient follows its dividend.
LEMMA QuotientMono ==
    ASSUME NEW a \in Nat, NEW b \in Nat, NEW d \in Nat \ {0}, a <= b
    PROVE  a \div d \in Nat /\ b \div d \in Nat /\ a \div d <= b \div d
<1>. DEFINE q == Quotient(a, d)
            r == Quotient(b, d)
<1>1. q \in Nat /\ q * d <= a /\ r \in Nat /\ b < (r + 1) * d
  BY QuotientBounds
<1>2. q = a \div d /\ r = b \div d
  BY DEF Quotient
<1>. HIDE DEF q, r
<1>3. ~(r + 1 <= q)
  <2>. SUFFICES ASSUME r + 1 <= q PROVE FALSE
    OBVIOUS
  <2>. DEFINE x == (r + 1) * d
              y == q * d
  <2>1. x <= y /\ x \in Nat /\ y \in Nat
    BY <1>1, r + 1 \in Nat, d \in Nat, MulMono
  <2>2. y <= a /\ b < x
    BY <1>1
  <2>. HIDE DEF x, y
  <2>. QED  BY <2>1, <2>2
<1>. QED  BY <1>1, <1>2, <1>3

\* A product follows its factors.
LEMMA ProductMono ==
    ASSUME NEW a \in Nat, NEW b \in Nat, NEW x \in Nat, NEW y \in Nat, a <= b, x <= y
    PROVE  a * x \in Nat /\ b * y \in Nat /\ a * x <= b * y
<1>1. a * x <= b * x /\ a * x \in Nat /\ b * x \in Nat
  BY MulMono
<1>2. x * b <= y * b /\ x * b = b * x /\ y * b = b * y /\ b * y \in Nat
  BY MulMono
<1>. DEFINE ax == a * x
            bx == b * x
            by == b * y
<1>3. ax \in Nat /\ bx \in Nat /\ by \in Nat /\ ax <= bx /\ bx <= by
  BY <1>1, <1>2
<1>. HIDE DEF ax, bx, by
<1>4. ax <= by
  BY <1>3
<1>. QED  BY <1>3, <1>4 DEF ax, by

\* The chance of one more event grows with the rate and with the time left
\* (poissonProbability).
LEMMA ChanceGrows ==
    ASSUME CurvesKeepOrder, NEW rate \in Nat, NEW more \in Nat, rate <= more,
           NEW left \in Nat, NEW longer \in Nat, left <= longer
    PROVE  /\ PoissonProbability(rate, left) \in Int
           /\ PoissonProbability(more, longer) \in Int
           /\ PoissonProbability(rate, left) <= PoissonProbability(more, longer)
<1>. DEFINE x == (rate * left) \div 1000
            y == (more * longer) \div 1000
<1>1. rate * left \in Nat /\ more * longer \in Nat /\ rate * left <= more * longer
  BY ProductMono
<1>2. x \in Nat /\ y \in Nat /\ x <= y
  BY <1>1, QuotientMono
<1>. HIDE DEF x, y
<1>3. /\ ExpNeg(x) \in Nat /\ ExpNeg(y) \in Nat /\ ExpNeg(y) <= ExpNeg(x)
      /\ ExpNeg(y) <= BPS /\ BPS \in Nat
  BY <1>2, PriceBounds DEF CurvesKeepOrder
<1>4. /\ PoissonProbability(rate, left) = IF left <= 0 THEN 0 ELSE BPS - ExpNeg(x)
      /\ PoissonProbability(more, longer) = IF longer <= 0 THEN 0 ELSE BPS - ExpNeg(y)
  BY DEF PoissonProbability, x, y
<1>. QED  BY <1>3, <1>4

\* A quote follows the fair price: the clamps never turn it around.
LEMMA QuoteFollows ==
    ASSUME NEW fair \in Int, NEW fairer \in Int, fair <= fairer, NEW margin \in Nat
    PROVE  /\ MarginedQuote(fairer, margin).probYesBps >= MarginedQuote(fair, margin).probYesBps
           /\ MarginedQuote(fairer, margin).probNoBps <= MarginedQuote(fair, margin).probNoBps
<1>. DEFINE half == (margin + 1) \div 2
            yes(f) == Clamp(f + half, MinProbBps, MaxProbBps)
            no(f) == Clamp((BPS + margin) - yes(f), MinProbBps, MaxProbBps)
            dear(f) == Clamp((BPS + margin) - no(f), MinProbBps, MaxProbBps)
<1>1. half \in Int
  OBVIOUS
<1>2. /\ MarginedQuote(fair, margin) = [probYesBps |-> dear(fair), probNoBps |-> no(fair)]
      /\ MarginedQuote(fairer, margin) = [probYesBps |-> dear(fairer), probNoBps |-> no(fairer)]
  BY DEF MarginedQuote
<1>. HIDE DEF half
<1>3. yes(fair) \in Int /\ yes(fairer) \in Int /\ yes(fair) <= yes(fairer)
  BY <1>1, PriceBounds DEF Clamp
<1>. HIDE DEF yes
<1>4. no(fair) \in Int /\ no(fairer) \in Int /\ no(fairer) <= no(fair)
  BY <1>3, PriceBounds DEF Clamp
<1>. HIDE DEF no
<1>5. dear(fair) \in Int /\ dear(fairer) \in Int /\ dear(fair) <= dear(fairer)
  BY <1>4, PriceBounds DEF Clamp
<1>. HIDE DEF dear
<1>. QED  BY <1>2, <1>4, <1>5

\* A state of play that is no quieter than another: the same market and the
\* same lessons, no fewer events, no less time and no lower a reading.
NoQuieter(state, livelier) ==
    /\ livelier.template = state.template /\ livelier.teamFilter = state.teamFilter
    /\ livelier.adj = state.adj
    /\ livelier.recent \in Nat /\ livelier.left \in Nat /\ livelier.reading \in Nat
    /\ state.recent <= livelier.recent /\ state.left <= livelier.left
    /\ \/ livelier.reading = state.reading
       \/ NoReading < state.reading /\ state.reading < livelier.reading

\* A livelier state is priced at no lower a chance.
LEMMA FairFollows ==
    ASSUME CurvesKeepOrder, NEW agent \in SigningAgents, NEW state \in SignQuestions,
           NEW livelier, NoQuieter(state, livelier)
    PROVE  /\ FairYes(agent, state) \in Int /\ FairYes(agent, livelier) \in Int
           /\ FairYes(agent, state) <= FairYes(agent, livelier)
<1>1. /\ state.template \in Templates /\ state.teamFilter \in {0, 1}
      /\ state.recent \in Nat /\ state.left \in Nat /\ state.reading \in Nat
  <2>1. /\ state.template \in Templates /\ state.teamFilter \in {0, 1}
        /\ state.recent \in Counts /\ state.left \in SecondsLeft
        /\ state.reading \in Readings
    BY DEF SignQuestions
  <2>. QED  BY <2>1, PricingConstants
<1>2. /\ agent.lookback \in Nat /\ agent.prior \in Nat \ {0} /\ agent.trust \in Nat
  BY DEF SigningAgents, HouseAgents, Steady, Tempo, Pulse, Operated
<1>3. BaseRate(state.template, state.teamFilter) \in Nat
  <2>1. PerMatchTenths[state.template] \in Nat
    BY <1>1 DEF Templates, PerMatchTenths
  <2>. QED  BY <2>1 DEF BaseRate
<1>. DEFINE base == BaseRate(state.template, state.teamFilter)
            prior == agent.prior
            span == agent.prior + agent.lookback
            seen == state.recent
            more == livelier.recent
<1>4. /\ Rate(agent, state) \in Nat /\ Rate(agent, livelier) \in Nat
      /\ Rate(agent, state) <= Rate(agent, livelier)
  <2>1. /\ base \in Nat /\ prior \in Nat /\ span \in Nat \ {0}
        /\ seen \in Nat /\ more \in Nat /\ seen <= more
    BY <1>1, <1>2, <1>3 DEF NoQuieter
  <2>2. BaseRate(livelier.template, livelier.teamFilter) = base
    BY DEF NoQuieter
  <2>. HIDE DEF base, prior, span, seen, more
  <2>3. base * prior \in Nat
    BY <2>1
  <2>. DEFINE bp == base * prior
              x == bp + seen * 1000000
              y == bp + more * 1000000
  <2>4. x \in Nat /\ y \in Nat /\ x <= y
    <3>. HIDE DEF bp
    <3>1. bp \in Nat
      BY <2>3 DEF bp
    <3>. QED  BY <2>1, <3>1
  <2>. HIDE DEF x, y
  <2>5. x \div span \in Nat /\ y \div span \in Nat /\ x \div span <= y \div span
    BY <2>1, <2>4, QuotientMono
  <2>6. /\ Rate(agent, state) = IF agent.lookback = 0 THEN base ELSE x \div span
        /\ Rate(agent, livelier) = IF agent.lookback = 0 THEN base ELSE y \div span
    BY <2>2 DEF Rate, BlendedRate, x, y, bp, base, prior, span, seen, more
  <2>. QED  BY <2>1, <2>5, <2>6
<1>5. /\ ReaderMultiplier(state.reading, agent.trust) \in Nat
      /\ ReaderMultiplier(livelier.reading, agent.trust) \in Nat
      /\ ReaderMultiplier(state.reading, agent.trust)
            <= ReaderMultiplier(livelier.reading, agent.trust)
  <2>. DEFINE m == state.reading
              k == livelier.reading
              c == Clamp(m, 500, 2000)
              d == Clamp(k, 500, 2000)
              t == agent.trust
  <2>1. /\ m \in Nat /\ k \in Nat /\ t \in Nat
        /\ k = m \/ (NoReading < m /\ m < k)
    BY <1>1, <1>2 DEF NoQuieter
  <2>2. /\ ReaderMultiplier(m, t) = IF m = NoReading THEN 1000 ELSE Power(c, t)
        /\ ReaderMultiplier(k, t) = IF k = NoReading THEN 1000 ELSE Power(d, t)
    BY DEF ReaderMultiplier
  <2>. HIDE DEF m, k, t
  <2>3. c \in Nat /\ d \in Nat /\ (m <= k => c <= d)
    BY <2>1 DEF Clamp
  <2>. HIDE DEF c, d
  <2>4. /\ Power(c, t) \in Nat /\ Power(d, t) \in Nat
        /\ c <= d => Power(c, t) <= Power(d, t)
    BY <2>1, <2>3 DEF CurvesKeepOrder
  <2>5. CASE k = m
    <3>1. ReaderMultiplier(k, t) = ReaderMultiplier(m, t)
      BY <2>5
    <3>2. ReaderMultiplier(m, t) \in Nat
      BY <2>2, <2>4
    <3>. QED  BY <3>1, <3>2 DEF m, k, t
  <2>6. CASE NoReading < m /\ m < k
    <3>1. m # NoReading /\ k # NoReading /\ m <= k
      BY <2>1, <2>6 DEF NoReading
    <3>2. /\ ReaderMultiplier(m, t) = Power(c, t)
          /\ ReaderMultiplier(k, t) = Power(d, t)
      BY <2>2, <3>1
    <3>. QED  BY <2>3, <2>4, <3>1, <3>2 DEF m, k, t
  <2>. QED  BY <2>1, <2>5, <2>6
<1>. DEFINE ratesOf(s) == Rate(agent, s) * ReaderMultiplier(s.reading, agent.trust)
            rate(s) == ratesOf(s) \div 1000
<1>6. ratesOf(state) \in Nat /\ ratesOf(livelier) \in Nat /\ ratesOf(state) <= ratesOf(livelier)
  BY <1>4, <1>5, ProductMono
<1>. HIDE DEF ratesOf
<1>7. rate(state) \in Nat /\ rate(livelier) \in Nat /\ rate(state) <= rate(livelier)
  BY <1>6, QuotientMono
<1>8. /\ FairYes(agent, state) = PoissonProbability(rate(state), state.left)
      /\ FairYes(agent, livelier) = PoissonProbability(rate(livelier), livelier.left)
  BY DEF FairYes, ratesOf
<1>9. livelier.left \in Nat /\ state.left <= livelier.left
  BY DEF NoQuieter
<1>. HIDE DEF rate
<1>. QED  BY <1>1, <1>7, <1>8, <1>9, ChanceGrows

\* One more event, a second more of window or a higher reading never makes Yes
\* cheaper or No dearer, for every agent and every margin it has learned: no
\* clamp and no rounding turns a price around (packages/agents/strategies,
\* core/pricing.ts).
THEOREM PriceAlwaysFollowsPlay ==
    ASSUME CurvesKeepOrder
    PROVE  Spec => []PriceFollowsPlay
<1>1. AskedOK => PriceFollowsPlay
  <2>. SUFFICES ASSUME AskedOK, question.kind = "sign",
                       NEW livelier \in
                          {[question EXCEPT !.recent = @ + 1],
                           [question EXCEPT !.left = @ + 1]}
                          \cup {[question EXCEPT !.reading = r] :
                                r \in {m \in Readings :
                                          NoReading < question.reading
                                          /\ question.reading < m}}
                PROVE  LET quote == Price(question.agent, question)
                           dearer == Price(question.agent, livelier)
                       IN  /\ dearer.probYesBps >= quote.probYesBps
                           /\ dearer.probNoBps <= quote.probNoBps
    BY DEF PriceFollowsPlay
  <2>. DEFINE agent == question.agent
              margin == EffectiveMarginBps(agent.margin, question.adj)
  <2>1. question \in SignQuestions
    BY KindOfQuestion
  <2>2. /\ agent \in SigningAgents /\ question.adj \in -100..500
        /\ question.recent \in Nat /\ question.left \in Nat /\ question.reading \in Nat
    <3>1. /\ agent \in SigningAgents /\ question.adj \in Learned
          /\ question.recent \in Counts /\ question.left \in SecondsLeft
          /\ question.reading \in Readings
      BY <2>1 DEF SignQuestions
    <3>. QED  BY <3>1, PricingConstants, ZenonT(30)
  <2>3. margin \in Nat
    <3>1. agent.margin \in Nat
      BY <2>2, QuotingBounds
         DEF SigningAgents, HouseAgents, Steady, Tempo, Pulse, Operated
    <3>. QED  BY <2>2, <3>1, SMTT(30) DEF EffectiveMarginBps, MinMarginBpsOfStrategy
  <2>4. NoQuieter(question, livelier)
    <3>1. CASE livelier = [question EXCEPT !.recent = @ + 1]
      <4>. DEFINE next == question.recent + 1
      <4>1. next \in Nat /\ question.recent <= next
        BY <2>2
      <4>2. livelier = [question EXCEPT !.recent = next]
        BY <3>1
      <4>. HIDE DEF next
      <4>3. /\ livelier.recent = next
            /\ livelier.left = question.left /\ livelier.reading = question.reading
            /\ livelier.template = question.template /\ livelier.teamFilter = question.teamFilter
            /\ livelier.adj = question.adj
        BY <2>1, <4>2 DEF SignQuestions
      <4>4. /\ livelier.recent \in Nat /\ livelier.left \in Nat /\ livelier.reading \in Nat
            /\ question.recent <= livelier.recent /\ question.left <= livelier.left
        BY <2>2, <4>1, <4>3
      <4>. QED  BY <4>3, <4>4 DEF NoQuieter
    <3>2. CASE livelier = [question EXCEPT !.left = @ + 1]
      <4>. DEFINE next == question.left + 1
      <4>1. next \in Nat /\ question.left <= next
        BY <2>2
      <4>2. livelier = [question EXCEPT !.left = next]
        BY <3>2
      <4>. HIDE DEF next
      <4>3. /\ livelier.left = next
            /\ livelier.recent = question.recent /\ livelier.reading = question.reading
            /\ livelier.template = question.template /\ livelier.teamFilter = question.teamFilter
            /\ livelier.adj = question.adj
        BY <2>1, <4>2 DEF SignQuestions
      <4>4. /\ livelier.recent \in Nat /\ livelier.left \in Nat /\ livelier.reading \in Nat
            /\ question.recent <= livelier.recent /\ question.left <= livelier.left
        BY <2>2, <4>1, <4>3
      <4>. QED  BY <4>3, <4>4 DEF NoQuieter
    <3>3. ASSUME NEW r \in Readings, NoReading < question.reading, question.reading < r,
                 livelier = [question EXCEPT !.reading = r]
          PROVE  NoQuieter(question, livelier)
      <4>1. r \in Nat
        BY <3>3, PricingConstants
      <4>. QED  BY <2>1, <2>2, <3>3, <4>1 DEF NoQuieter, SignQuestions
    <3>. QED  BY <3>1, <3>2, <3>3
  <2>5. /\ FairYes(agent, question) \in Int /\ FairYes(agent, livelier) \in Int
        /\ FairYes(agent, question) <= FairYes(agent, livelier)
    BY <2>1, <2>2, <2>4, FairFollows
  <2>6. /\ Price(agent, question) = MarginedQuote(FairYes(agent, question), margin)
        /\ Price(agent, livelier) = MarginedQuote(FairYes(agent, livelier), margin)
    BY <2>4 DEF Price, NoQuieter
  <2>. HIDE DEF margin, agent
  <2>7. /\ Price(agent, livelier).probYesBps >= Price(agent, question).probYesBps
        /\ Price(agent, livelier).probNoBps <= Price(agent, question).probNoBps
    BY <2>3, <2>5, <2>6, QuoteFollows
  <2>. QED  BY <2>7 DEF agent
<1>. QED  BY <1>1, AskedAlways, PTL

-----------------------------------------------------------------------------
(* The preview of a bet *)

\* The passes of a ladder, whatever its length.
PassedBy(t, caps, weights, n, first, sweep) ==
    /\ first[0] = t /\ sweep[0] = first[n] /\ sweep[n] = LadderLeft(t, caps, weights, n)
    /\ \A i \in 1..n :
          /\ first[i] = first[i - 1]
                           - RankShare(t, first[i - 1], caps[i], weights[i])
          /\ sweep[i] = SweepRank(sweep[i - 1],
                                  caps[i] - (first[i - 1] - first[i]))
          /\ LadderStakes(t, caps, weights, n)[i]
                = (first[i - 1] - first[i]) + (sweep[i - 1] - sweep[i])

LEMMA PassesOf ==
    ASSUME NEW n \in Nat, NEW t \in Nat, NEW caps \in [1..n -> Nat],
           NEW weights \in [1..n -> Nat]
    PROVE  \E first \in [0..n -> Nat], sweep \in [0..n -> Nat] :
              PassedBy(t, caps, weights, n, first, sweep)
<1>. DEFINE first == FirstPass(t, caps, weights, n)
            sweep == SecondPass(caps, first, n)
<1>1. /\ first \in [0..n -> Nat] /\ first[0] = t
      /\ \A i \in 1..n :
            /\ first[i - 1] - first[i] \in 0..caps[i]
            /\ first[i] = first[i - 1] - RankShare(t, first[i - 1], caps[i], weights[i])
  BY FirstPassDef
<1>2. \A i \in 1..n : LadderStakes(t, caps, weights, n)[i]
                        = (first[i - 1] - first[i]) + (sweep[i - 1] - sweep[i])
  BY DEF LadderStakes
<1>5. sweep[n] = LadderLeft(t, caps, weights, n)
  BY DEF LadderLeft
<1>. HIDE DEF first
<1>3. /\ sweep \in [0..n -> Nat] /\ sweep[0] = first[n]
      /\ \A i \in 1..n : sweep[i] = SweepRank(sweep[i - 1],
                                              caps[i] - (first[i - 1] - first[i]))
  BY <1>1, SecondPassDef
<1>. HIDE DEF sweep
<1>4. PassedBy(t, caps, weights, n, first, sweep)
  BY <1>1, <1>2, <1>3, <1>5 DEF PassedBy
<1>. QED  BY <1>1, <1>3, <1>4

\* The least of three amounts, and of two.
Least3(a, x, y, z) == a <= x /\ a <= y /\ a <= z /\ (a = x \/ a = y \/ a = z)
Least2(a, x, y) == a <= x /\ a <= y /\ (a = x \/ a = y)

LEMMA ShareIs ==
    ASSUME NEW t \in Nat, NEW left \in Nat, NEW cap \in Nat, NEW w \in Nat
    PROVE  Least3(RankShare(t, left, cap, w), MulDiv(t, w, BPS), left, cap)
           /\ RankShare(t, left, cap, w) \in Nat
<1>1. MulDiv(t, w, BPS) \in Nat
  BY MulDivBounds, BPS \in Nat \ {0} DEF BPS
<1>. QED  BY <1>1 DEF RankShare, Lesser, Least3

LEMMA TakenByShare ==
    ASSUME NEW t \in Nat, NEW left \in Nat, NEW cap \in Nat, NEW w \in Nat, NEW next,
           next = left - RankShare(t, left, cap, w)
    PROVE  Least3(left - next, MulDiv(t, w, BPS), left, cap)
<1>. DEFINE a == RankShare(t, left, cap, w)
<1>1. a \in Nat /\ Least3(a, MulDiv(t, w, BPS), left, cap) /\ next = left - a
  BY ShareIs
<1>. HIDE DEF a
<1>2. left - next = a
  BY <1>1
<1>. QED  BY <1>1, <1>2

LEMMA TakenBySweep ==
    ASSUME NEW left \in Nat, NEW spare \in Int, NEW next, next = SweepRank(left, spare)
    PROVE  Least2(left - next, spare, left)
BY DEF SweepRank, Lesser, Least2

\* What the rungs of a ladder of two, and of three, are given.
Rungs2(t, c1, c2, k1, k2, f1, f2, g1, g2) ==
    /\ t \in Nat
    /\ c1 \in Nat /\ c2 \in Nat
    /\ k1 \in Nat /\ k2 \in Nat
    /\ f1 \in Nat /\ f2 \in Nat
    /\ g1 \in Nat /\ g2 \in Nat
    /\ Least3(t - f1, k1, t, c1)
    /\ Least3(f1 - f2, k2, f1, c2)
    /\ Least2(f2 - g1, c1 - (t - f1), f2)
    /\ Least2(g1 - g2, c2 - (f1 - f2), g1)
Rungs3(t, c1, c2, c3, k1, k2, k3, f1, f2, f3, g1, g2, g3) ==
    /\ t \in Nat
    /\ c1 \in Nat /\ c2 \in Nat /\ c3 \in Nat
    /\ k1 \in Nat /\ k2 \in Nat /\ k3 \in Nat
    /\ f1 \in Nat /\ f2 \in Nat /\ f3 \in Nat
    /\ g1 \in Nat /\ g2 \in Nat /\ g3 \in Nat
    /\ Least3(t - f1, k1, t, c1)
    /\ Least3(f1 - f2, k2, f1, c2)
    /\ Least3(f2 - f3, k3, f2, c3)
    /\ Least2(f3 - g1, c1 - (t - f1), f3)
    /\ Least2(g1 - g2, c2 - (f1 - f2), g1)
    /\ Least2(g2 - g3, c3 - (f2 - f3), g2)

SplitInTwo(t, caps, weights, f1, f2, g1, g2) ==
    /\ Rungs2(t, caps[1], caps[2],
              MulDiv(t, weights[1], BPS), MulDiv(t, weights[2], BPS),
              f1, f2, g1, g2)
    /\ LadderStakes(t, caps, weights, 2)[1] = (t - f1) + (f2 - g1)
    /\ LadderStakes(t, caps, weights, 2)[2] = (f1 - f2) + (g1 - g2)
    /\ LadderLeft(t, caps, weights, 2) = g2
SplitsInTwo(t, caps, weights) ==
    \E f1, f2, g1, g2 \in Nat :
        SplitInTwo(t, caps, weights, f1, f2, g1, g2)
SplitInThree(t, caps, weights, f1, f2, f3, g1, g2, g3) ==
    /\ Rungs3(t, caps[1], caps[2], caps[3],
              MulDiv(t, weights[1], BPS), MulDiv(t, weights[2], BPS), MulDiv(t, weights[3], BPS),
              f1, f2, f3, g1, g2, g3)
    /\ LadderStakes(t, caps, weights, 3)[1] = (t - f1) + (f3 - g1)
    /\ LadderStakes(t, caps, weights, 3)[2] = (f1 - f2) + (g1 - g2)
    /\ LadderStakes(t, caps, weights, 3)[3] = (f2 - f3) + (g2 - g3)
    /\ LadderLeft(t, caps, weights, 3) = g3
SplitsInThree(t, caps, weights) ==
    \E f1, f2, f3, g1, g2, g3 \in Nat :
        SplitInThree(t, caps, weights, f1, f2, f3, g1, g2, g3)

LEMMA PassesOfTwo ==
    ASSUME NEW t \in Nat, NEW caps \in [1..2 -> Nat], NEW weights \in [1..2 -> Nat]
    PROVE  SplitsInTwo(t, caps, weights)
<1>. DEFINE n == 2
<1>0. n \in Nat /\ caps \in [1..n -> Nat] /\ weights \in [1..n -> Nat]
  OBVIOUS
<1>. HIDE DEF n
<1>1. PICK first \in [0..n -> Nat], sweep \in [0..n -> Nat] :
         PassedBy(t, caps, weights, n, first, sweep)
  BY <1>0, PassesOf, Zenon
<1>2. n = 2 /\ \A i \in 1..2 : i \in 1..n /\ i \in 0..n /\ i - 1 \in 0..n
  BY DEF n
<1>3. /\ first[0] = t /\ \A i \in 0..n : first[i] \in Nat /\ sweep[i] \in Nat
      /\ sweep[0] = first[2] /\ sweep[2] = LadderLeft(t, caps, weights, 2)
  BY <1>1, <1>2 DEF PassedBy
<1>4. ASSUME NEW i \in 1..2
      PROVE  /\ caps[i] \in Nat /\ weights[i] \in Nat /\ MulDiv(t, weights[i], BPS) \in Nat
             /\ first[i - 1] \in Nat /\ first[i] \in Nat
             /\ sweep[i - 1] \in Nat /\ sweep[i] \in Nat
  <2>1. caps[i] \in Nat /\ weights[i] \in Nat
    OBVIOUS
  <2>2. MulDiv(t, weights[i], BPS) \in Nat
    <3>1. BPS \in Nat \ {0}
      BY DEF BPS
    <3>. QED  BY <2>1, <3>1, MulDivBounds
  <2>. QED  BY <1>2, <1>3, <2>1, <2>2
<1>5. ASSUME NEW i \in 1..2
      PROVE  /\ Least3(first[i - 1] - first[i], MulDiv(t, weights[i], BPS),
                       first[i - 1], caps[i])
             /\ Least2(sweep[i - 1] - sweep[i], caps[i] - (first[i - 1] - first[i]),
                       sweep[i - 1])
             /\ LadderStakes(t, caps, weights, 2)[i]
                   = (first[i - 1] - first[i]) + (sweep[i - 1] - sweep[i])
  <2>1. /\ first[i] = first[i - 1] - RankShare(t, first[i - 1], caps[i], weights[i])
        /\ sweep[i] = SweepRank(sweep[i - 1], caps[i] - (first[i - 1] - first[i]))
        /\ LadderStakes(t, caps, weights, 2)[i]
              = (first[i - 1] - first[i]) + (sweep[i - 1] - sweep[i])
    BY <1>1, <1>2 DEF PassedBy
  <2>2. Least3(first[i - 1] - first[i], MulDiv(t, weights[i], BPS), first[i - 1], caps[i])
    BY <1>4, <2>1, TakenByShare
  <2>. DEFINE spare == caps[i] - (first[i - 1] - first[i])
  <2>3. spare \in Int
    <3>. DEFINE c == caps[i]
                x == first[i - 1]
                y == first[i]
    <3>1. c \in Nat /\ x \in Nat /\ y \in Nat
      BY <1>4
    <3>. HIDE DEF c, x, y
    <3>2. c - (x - y) \in Int
      BY <3>1
    <3>. QED  BY <3>2 DEF c, x, y
  <2>5. sweep[i] = SweepRank(sweep[i - 1], spare)
    BY <2>1
  <2>. HIDE DEF spare
  <2>4. Least2(sweep[i - 1] - sweep[i], spare, sweep[i - 1])
    BY <1>4, <2>3, <2>5, TakenBySweep
  <2>. QED  BY <2>1, <2>2, <2>4 DEF spare
<1>6. 1 - 1 = 0 /\ 1 \in 1..2 /\ 2 - 1 = 1 /\ 2 \in 1..2
  OBVIOUS
<1>7. SplitInTwo(t, caps, weights, first[1], first[2],
                sweep[1], sweep[2])
  BY <1>3, <1>4, <1>5, <1>6 DEF SplitInTwo, Rungs2
<1>8. first[1] \in Nat /\ first[2] \in Nat
      /\ sweep[1] \in Nat /\ sweep[2] \in Nat
  BY <1>4, <1>6
<1>. QED  BY <1>7, <1>8, Zenon DEF SplitsInTwo

LEMMA PassesOfThree ==
    ASSUME NEW t \in Nat, NEW caps \in [1..3 -> Nat], NEW weights \in [1..3 -> Nat]
    PROVE  SplitsInThree(t, caps, weights)
<1>. DEFINE n == 3
<1>0. n \in Nat /\ caps \in [1..n -> Nat] /\ weights \in [1..n -> Nat]
  OBVIOUS
<1>. HIDE DEF n
<1>1. PICK first \in [0..n -> Nat], sweep \in [0..n -> Nat] :
         PassedBy(t, caps, weights, n, first, sweep)
  BY <1>0, PassesOf, Zenon
<1>2. n = 3 /\ \A i \in 1..3 : i \in 1..n /\ i \in 0..n /\ i - 1 \in 0..n
  BY DEF n
<1>3. /\ first[0] = t /\ \A i \in 0..n : first[i] \in Nat /\ sweep[i] \in Nat
      /\ sweep[0] = first[3] /\ sweep[3] = LadderLeft(t, caps, weights, 3)
  BY <1>1, <1>2 DEF PassedBy
<1>4. ASSUME NEW i \in 1..3
      PROVE  /\ caps[i] \in Nat /\ weights[i] \in Nat /\ MulDiv(t, weights[i], BPS) \in Nat
             /\ first[i - 1] \in Nat /\ first[i] \in Nat
             /\ sweep[i - 1] \in Nat /\ sweep[i] \in Nat
  <2>1. caps[i] \in Nat /\ weights[i] \in Nat
    OBVIOUS
  <2>2. MulDiv(t, weights[i], BPS) \in Nat
    <3>1. BPS \in Nat \ {0}
      BY DEF BPS
    <3>. QED  BY <2>1, <3>1, MulDivBounds
  <2>. QED  BY <1>2, <1>3, <2>1, <2>2
<1>5. ASSUME NEW i \in 1..3
      PROVE  /\ Least3(first[i - 1] - first[i], MulDiv(t, weights[i], BPS),
                       first[i - 1], caps[i])
             /\ Least2(sweep[i - 1] - sweep[i], caps[i] - (first[i - 1] - first[i]),
                       sweep[i - 1])
             /\ LadderStakes(t, caps, weights, 3)[i]
                   = (first[i - 1] - first[i]) + (sweep[i - 1] - sweep[i])
  <2>1. /\ first[i] = first[i - 1] - RankShare(t, first[i - 1], caps[i], weights[i])
        /\ sweep[i] = SweepRank(sweep[i - 1], caps[i] - (first[i - 1] - first[i]))
        /\ LadderStakes(t, caps, weights, 3)[i]
              = (first[i - 1] - first[i]) + (sweep[i - 1] - sweep[i])
    BY <1>1, <1>2 DEF PassedBy
  <2>2. Least3(first[i - 1] - first[i], MulDiv(t, weights[i], BPS), first[i - 1], caps[i])
    BY <1>4, <2>1, TakenByShare
  <2>. DEFINE spare == caps[i] - (first[i - 1] - first[i])
  <2>3. spare \in Int
    <3>. DEFINE c == caps[i]
                x == first[i - 1]
                y == first[i]
    <3>1. c \in Nat /\ x \in Nat /\ y \in Nat
      BY <1>4
    <3>. HIDE DEF c, x, y
    <3>2. c - (x - y) \in Int
      BY <3>1
    <3>. QED  BY <3>2 DEF c, x, y
  <2>5. sweep[i] = SweepRank(sweep[i - 1], spare)
    BY <2>1
  <2>. HIDE DEF spare
  <2>4. Least2(sweep[i - 1] - sweep[i], spare, sweep[i - 1])
    BY <1>4, <2>3, <2>5, TakenBySweep
  <2>. QED  BY <2>1, <2>2, <2>4 DEF spare
<1>6. 1 - 1 = 0 /\ 1 \in 1..3 /\ 2 - 1 = 1 /\ 2 \in 1..3 /\ 3 - 1 = 2 /\ 3 \in 1..3
  OBVIOUS
<1>7. SplitInThree(t, caps, weights, first[1], first[2], first[3],
                sweep[1], sweep[2], sweep[3])
  BY <1>3, <1>4, <1>5, <1>6 DEF SplitInThree, Rungs3
<1>8. first[1] \in Nat /\ first[2] \in Nat /\ first[3] \in Nat
      /\ sweep[1] \in Nat /\ sweep[2] \in Nat /\ sweep[3] \in Nat
  BY <1>4, <1>6
<1>. QED  BY <1>7, <1>8, Zenon DEF SplitsInThree

\* Of two, the better one gets some.
LEMMA BetterOfTwo ==
    ASSUME NEW t \in Nat \ {0}, NEW c1 \in Nat \ {0}, NEW c2, NEW k1, NEW k2,
           NEW f1, NEW f2, NEW g1, NEW g2, Rungs2(t, c1, c2, k1, k2, f1, f2, g1, g2),
           3 * t < 5 * k1 + 5, 5 * k1 <= 3 * t, 5 * k2 <= 2 * t
    PROVE  (t - f1) + (f2 - g1) > 0
BY DEF Rungs2, Least2, Least3

\* The shares of a ladder of two, and of three.
SharesOf2(t, k1, k2) ==
    /\ 5 * k1 <= 3 * t /\ 3 * t < 5 * k1 + 5
    /\ 5 * k2 <= 2 * t /\ 2 * t < 5 * k2 + 5
SharesOf3(t, k1, k2, k3) ==
    /\ 2 * k1 <= t /\ t < 2 * k1 + 2
    /\ 10 * k2 <= 3 * t /\ 3 * t < 10 * k2 + 10
    /\ 5 * k3 <= t /\ t < 5 * k3 + 5

\* Of three, the best one gets some, the third only if the second does, and
\* the third some of any stake but a few base units.
LEMMA BestOfThree ==
    ASSUME NEW t, NEW c1, NEW c2, NEW c3, NEW k1, NEW k2, NEW k3,
           NEW f1, NEW f2, NEW f3, NEW g1, NEW g2, NEW g3,
           Rungs3(t, c1, c2, c3, k1, k2, k3, f1, f2, f3, g1, g2, g3),
           SharesOf3(t, k1, k2, k3), t # 0, c1 # 0, c2 # 0, c3 # 0
    PROVE  /\ (t - f1) + (f3 - g1) > 0
           /\ (f2 - f3) + (g2 - g3) > 0 => (f1 - f2) + (g1 - g2) > 0
           /\ (f2 - f3) + (g2 - g3) = 0 => t <= 4
<1>1. (t - f1) + (f3 - g1) > 0
  BY DEF Rungs3, SharesOf3, Least2, Least3
<1>2. (f2 - f3) + (g2 - g3) > 0 => (f1 - f2) + (g1 - g2) > 0
  BY DEF Rungs3, SharesOf3, Least2, Least3
<1>3. (f2 - f3) + (g2 - g3) = 0 => t <= 4
  BY DEF Rungs3, SharesOf3, Least2, Least3
<1>. QED  BY <1>1, <1>2, <1>3

\* When the third gets nothing of it, a ladder of two splits a stake as one of
\* three does.
LEMMA TwoAsThree ==
    ASSUME NEW t, NEW c1, NEW c2, NEW c3, NEW k1, NEW k2, NEW k3, NEW f1, NEW f2, NEW f3, NEW g1, NEW g2, NEW g3,
           Rungs3(t, c1, c2, c3, k1, k2, k3, f1, f2, f3, g1, g2, g3),
           SharesOf3(t, k1, k2, k3), t \in 1..4, c1 # 0, c2 # 0, c3 # 0,
           (f2 - f3) + (g2 - g3) = 0, (f1 - f2) + (g1 - g2) > 0, g3 = 0,
           NEW l1, NEW l2, NEW d1, NEW d2, NEW e1, NEW e2,
           Rungs2(t, c1, c2, l1, l2, d1, d2, e1, e2), SharesOf2(t, l1, l2)
    PROVE  /\ (t - d1) + (d2 - e1) = (t - f1) + (f3 - g1)
           /\ (d1 - d2) + (e1 - e2) = (f1 - f2) + (g1 - g2)
<1>1. /\ c1 \in Nat /\ c2 \in Nat /\ c3 \in Nat
      /\ k1 \in Nat /\ k2 \in Nat /\ k3 \in Nat /\ l1 \in Nat /\ l2 \in Nat
      /\ f1 \in Nat /\ f2 \in Nat /\ f3 \in Nat /\ g1 \in Nat /\ g2 \in Nat /\ g3 \in Nat
      /\ d1 \in Nat /\ d2 \in Nat /\ e1 \in Nat /\ e2 \in Nat
  BY DEF Rungs2, Rungs3
<1>2. /\ Least3(t - f1, k1, t, c1) /\ Least3(f1 - f2, k2, f1, c2)
      /\ Least3(f2 - f3, k3, f2, c3) /\ Least2(f3 - g1, c1 - (t - f1), f3)
      /\ Least2(g1 - g2, c2 - (f1 - f2), g1) /\ Least2(g2 - g3, c3 - (f2 - f3), g2)
      /\ Least3(t - d1, l1, t, c1) /\ Least3(d1 - d2, l2, d1, c2)
      /\ Least2(d2 - e1, c1 - (t - d1), d2) /\ Least2(e1 - e2, c2 - (d1 - d2), e1)
  BY DEF Rungs2, Rungs3
<1>3. ASSUME t = 1 PROVE FALSE
  <2>1. k1 = 0 /\ k2 = 0 /\ k3 = 0
    BY <1>1, <1>3 DEF SharesOf3
  <2>. QED  BY <1>1, <1>2, <1>3, <2>1 DEF Least2, Least3
<1>4. CASE t = 2
  <2>1. k1 = 1 /\ k2 = 0 /\ k3 = 0 /\ l1 = 1 /\ l2 = 0
    BY <1>1, <1>4 DEF SharesOf2, SharesOf3
  <2>. QED  BY <1>1, <1>2, <1>4, <2>1 DEF Least2, Least3
<1>5. CASE t = 3
  <2>1. k1 = 1 /\ k2 = 0 /\ k3 = 0 /\ l1 = 1 /\ l2 = 1
    BY <1>1, <1>5 DEF SharesOf2, SharesOf3
  <2>. QED  BY <1>1, <1>2, <1>5, <2>1 DEF Least2, Least3
<1>6. CASE t = 4
  <2>1. k1 = 2 /\ k2 = 1 /\ k3 = 0 /\ l1 = 2 /\ l2 = 1
    BY <1>1, <1>6 DEF SharesOf2, SharesOf3
  <2>. QED  BY <1>1, <1>2, <1>6, <2>1 DEF Least2, Least3
<1>. QED  BY <1>3, <1>4, <1>5, <1>6

\* What rounding leaves of a weighted share.
LEMMA SharesAre ==
    ASSUME NEW t \in Nat
    PROVE  /\ SharesOf2(t, MulDiv(t, 6000, BPS), MulDiv(t, 4000, BPS))
           /\ SharesOf3(t, MulDiv(t, 5000, BPS), MulDiv(t, 3000, BPS), MulDiv(t, 2000, BPS))
BY DEF MulDiv, BPS, SharesOf2, SharesOf3

LEMMA LadderForIs ==
    /\ LadderFor(1) \in [1..1 -> Nat] /\ LadderFor(1)[1] = 10000
    /\ LadderFor(2) \in [1..2 -> Nat] /\ LadderFor(2)[1] = 6000 /\ LadderFor(2)[2] = 4000
    /\ LadderFor(3) \in [1..3 -> Nat] /\ LadderFor(3)[1] = 5000 /\ LadderFor(3)[2] = 3000
    /\ LadderFor(3)[3] = 2000
BY DEF LadderFor

LEMMA LadderForType ==
    ASSUME NEW n \in 1..3
    PROVE  LadderFor(n) \in [1..n -> Nat]
BY DEF LadderFor

\* What the better of two quotes with room gets.
LEMMA TwoSplit ==
    ASSUME NEW t \in Nat \ {0}, NEW caps \in [1..2 -> Nat \ {0}]
    PROVE  LadderStakes(t, caps, LadderFor(2), 2)[1] > 0
<1>1. SplitsInTwo(t, caps, LadderFor(2))
  BY LadderForIs, PassesOfTwo
<1>2. PICK f1, f2, g1, g2 \in Nat : SplitInTwo(t, caps, LadderFor(2), f1, f2, g1, g2)
  BY <1>1 DEF SplitsInTwo
<1>. DEFINE c1 == caps[1]
            k1 == MulDiv(t, 6000, BPS)
            k2 == MulDiv(t, 4000, BPS)
<1>3. /\ Rungs2(t, c1, caps[2], k1, k2, f1, f2, g1, g2)
      /\ LadderStakes(t, caps, LadderFor(2), 2)[1] = (t - f1) + (f2 - g1)
  BY <1>2, LadderForIs DEF SplitInTwo
<1>4. c1 \in Nat \ {0}
  OBVIOUS
<1>5. 3 * t < 5 * k1 + 5 /\ 5 * k1 <= 3 * t /\ 5 * k2 <= 2 * t
  BY SharesAre DEF SharesOf2
<1>. HIDE DEF c1, k1, k2
<1>6. (t - f1) + (f2 - g1) > 0
  BY <1>3, <1>4, <1>5, BetterOfTwo
<1>. QED  BY <1>3, <1>6

\* Three quotes with room: who gets something of a stake, and that a ladder of
\* the first two splits it alike when the third gets nothing.
LEMMA ThreeSplit ==
    ASSUME NEW t \in Nat \ {0}, NEW caps \in [1..3 -> Nat \ {0}],
           LadderLeft(t, caps, LadderFor(3), 3) = 0, NEW pair \in [1..2 -> Nat \ {0}],
           pair[1] = caps[1], pair[2] = caps[2]
    PROVE  LET p == LadderStakes(t, caps, LadderFor(3), 3)
               q == LadderStakes(t, pair, LadderFor(2), 2)
           IN  /\ p[1] > 0
               /\ p[3] > 0 => p[2] > 0
               /\ p[3] = 0 /\ p[2] > 0 => q[1] = p[1] /\ q[2] = p[2]
<1>1. SplitsInTwo(t, pair, LadderFor(2)) /\ SplitsInThree(t, caps, LadderFor(3))
  BY LadderForIs, PassesOfTwo, PassesOfThree
<1>2. PICK d1, d2, e1, e2 \in Nat : SplitInTwo(t, pair, LadderFor(2), d1, d2, e1, e2)
  BY <1>1 DEF SplitsInTwo
<1>3. PICK f1, f2, f3, g1, g2, g3 \in Nat :
         SplitInThree(t, caps, LadderFor(3), f1, f2, f3, g1, g2, g3)
  BY <1>1 DEF SplitsInThree
<1>. DEFINE c1 == caps[1]
            c2 == caps[2]
            c3 == caps[3]
            p == LadderStakes(t, caps, LadderFor(3), 3)
            q == LadderStakes(t, pair, LadderFor(2), 2)
            k1 == MulDiv(t, 5000, BPS)
            k2 == MulDiv(t, 3000, BPS)
            k3 == MulDiv(t, 2000, BPS)
            l1 == MulDiv(t, 6000, BPS)
            l2 == MulDiv(t, 4000, BPS)
<1>4. c1 \in Nat \ {0} /\ c2 \in Nat \ {0} /\ c3 \in Nat \ {0}
  OBVIOUS
<1>5. /\ Rungs3(t, c1, c2, c3, k1, k2, k3, f1, f2, f3, g1, g2, g3)
      /\ p[1] = (t - f1) + (f3 - g1) /\ p[2] = (f1 - f2) + (g1 - g2)
      /\ p[3] = (f2 - f3) + (g2 - g3) /\ g3 = 0
  BY <1>3, LadderForIs DEF SplitInThree
<1>6. /\ Rungs2(t, c1, c2, l1, l2, d1, d2, e1, e2)
      /\ q[1] = (t - d1) + (d2 - e1) /\ q[2] = (d1 - d2) + (e1 - e2)
  BY <1>2, LadderForIs DEF SplitInTwo
<1>7. SharesOf3(t, k1, k2, k3) /\ SharesOf2(t, l1, l2)
  BY SharesAre
<1>. HIDE DEF c1, c2, c3, p, q, k1, k2, k3, l1, l2
<1>11. /\ Rungs3(t, c1, c2, c3, k1, k2, k3, f1, f2, f3, g1, g2, g3)
       /\ Rungs2(t, c1, c2, l1, l2, d1, d2, e1, e2)
       /\ t # 0 /\ c1 # 0 /\ c2 # 0 /\ c3 # 0
  BY <1>4, <1>5, <1>6
<1>8. /\ (t - f1) + (f3 - g1) > 0
      /\ (f2 - f3) + (g2 - g3) > 0 => (f1 - f2) + (g1 - g2) > 0
      /\ (f2 - f3) + (g2 - g3) = 0 => t <= 4
  BY <1>7, <1>11, BestOfThree, SMTT(30)
<1>9. p[1] > 0 /\ (p[3] > 0 => p[2] > 0)
  BY <1>5, <1>8
<1>10. ASSUME p[3] = 0, p[2] > 0 PROVE q[1] = p[1] /\ q[2] = p[2]
  <2>1. (f2 - f3) + (g2 - g3) = 0 /\ (f1 - f2) + (g1 - g2) > 0 /\ g3 = 0
    BY <1>5, <1>10
  <2>2. t \in 1..4
    BY <1>8, <2>1
  <2>3. /\ (t - d1) + (d2 - e1) = (t - f1) + (f3 - g1)
        /\ (d1 - d2) + (e1 - e2) = (f1 - f2) + (g1 - g2)
    BY <1>7, <1>11, <2>1, <2>2, TwoAsThree, SMTT(30)
  <2>. QED  BY <1>5, <1>6, <2>3
<1>. QED  BY <1>9, <1>10 DEF p, q

\* The first m numbers, in a row.
UpTo(u, m) == u \in Seq(Nat) /\ Len(u) = m /\ \A i \in 1..m : u[i] = i

LEMMA OneMore ==
    ASSUME NEW m \in Nat, NEW u, UpTo(u, m)
    PROVE  UpTo(Append(u, m + 1), m + 1)
<1>. DEFINE w == Append(u, m + 1)
<1>1. u \in Seq(Nat) /\ Len(u) = m /\ \A i \in 1..m : u[i] = i
  BY DEF UpTo
<1>2. w \in Seq(Nat) /\ Len(w) = m + 1
  BY <1>1
<1>3. w[m + 1] = m + 1 /\ \A i \in 1..m : w[i] = u[i]
  BY <1>1
<1>. HIDE DEF w
<1>4. \A i \in 1..(m + 1) : w[i] = i
  BY <1>1, <1>3
<1>5. UpTo(w, m + 1)
  BY <1>2, <1>4 DEF UpTo
<1>. QED  BY <1>5 DEF w

\* Which of up to three are picked, when the first is and the third is not
\* without the second.
LEMMA PickedOf ==
    ASSUME NEW n \in 1..3, NEW S, 1 \in S, n = 3 /\ 3 \in S => 2 \in S
    PROVE  UpTo(Among([i \in 1..n |-> i], S),
                IF n = 1 \/ 2 \notin S THEN 1 ELSE IF n = 2 \/ 3 \notin S THEN 2 ELSE 3)
<1>. DEFINE s == [i \in 1..n |-> i]
<1>1. s \in Seq(Nat) /\ Len(s) = n /\ \A i \in 1..n : s[i] = i
  OBVIOUS
<1>. HIDE DEF s
<1>2. PICK picked \in [0..Len(s) -> Seq(Nat)] :
         Among(s, S) = picked[Len(s)] /\ Picking(s, S, picked)
  BY <1>1, AmongExists, Zenon
<1>3. /\ picked[0] = <<>> /\ Among(s, S) = picked[n]
      /\ \A i \in 1..n : picked[i] = IF i \in S THEN Append(picked[i - 1], i)
                                     ELSE picked[i - 1]
  BY <1>1, <1>2 DEF Picking
<1>4. UpTo(picked[0], 0)
  BY <1>3 DEF UpTo
<1>5. UpTo(picked[1], 1)
  <2>1. 1 \in 1..n /\ 1 - 1 = 0 /\ 0 + 1 = 1
    OBVIOUS
  <2>2. picked[1] = Append(picked[0], 1)
    BY <1>3, <2>1
  <2>3. UpTo(Append(picked[0], 0 + 1), 0 + 1)
    BY <1>4, OneMore
  <2>. QED  BY <2>1, <2>2, <2>3
<1>6. ASSUME n >= 2 PROVE IF 2 \in S THEN UpTo(picked[2], 2) ELSE picked[2] = picked[1]
  <2>1. picked[2] = IF 2 \in S THEN Append(picked[1], 1 + 1) ELSE picked[1]
    BY <1>3, <1>6, 2 \in 1..n, 2 - 1 = 1
  <2>2. UpTo(Append(picked[1], 1 + 1), 1 + 1)
    BY <1>5, OneMore
  <2>. QED  BY <2>1, <2>2
<1>7. ASSUME n = 3
      PROVE  IF 3 \in S THEN UpTo(picked[3], 3) ELSE picked[3] = picked[2]
  <2>1. picked[3] = IF 3 \in S THEN Append(picked[2], 2 + 1) ELSE picked[2]
    BY <1>3, <1>7, 3 \in 1..n, 3 - 1 = 2
  <2>2. ASSUME 3 \in S PROVE UpTo(Append(picked[2], 2 + 1), 2 + 1)
    BY <1>6, <1>7, <2>2, OneMore
  <2>. QED  BY <2>1, <2>2
<1>. DEFINE m == IF n = 1 \/ 2 \notin S THEN 1 ELSE IF n = 2 \/ 3 \notin S THEN 2 ELSE 3
<1>8. UpTo(picked[n], m)
  <2>1. CASE n = 1
    BY <1>5, <2>1
  <2>2. CASE n = 2
    BY <1>5, <1>6, <2>2
  <2>3. CASE n = 3
    BY <1>5, <1>6, <1>7, <2>3
  <2>. QED  BY <2>1, <2>2, <2>3
<1>. HIDE DEF m
<1>9. UpTo(Among(s, S), m)
  BY <1>3, <1>8
<1>. QED  BY <1>9 DEF s, m

-----------------------------------------------------------------------------
(* What a fan is shown of a bet *)

\* Quotes with room, best price first as they come.
WithRoom(quotes) ==
    quotes \in Seq(Range(quotes)) /\ \A i \in DOMAIN quotes : quotes[i].maxStake \in Nat \ {0}

\* The rungs of a preview, their capacities, and the stake they can fill.
RungsUsed(quotes) == Least(Len(quotes), 3)
CapsUsed(quotes) == [i \in 1..RungsUsed(quotes) |-> quotes[i].maxStake]
CanFill(quotes, requested) ==
    Least(requested, SumTo(CapsUsed(quotes), RungsUsed(quotes)))

\* A preview that splits a stake over so many rungs as the router's ladder would.
SplitBy(preview, quotes, side, n, caps, t) ==
    LET stakes == LadderStakes(t, caps, LadderFor(n), n)
    IN  /\ n \in 1..3 /\ n <= Len(quotes)
        /\ caps \in [1..n -> Nat \ {0}] /\ t \in Nat \ {0}
        /\ LadderPlaces(t, caps, LadderFor(n), n) /\ stakes \in [1..n -> Nat]
        /\ preview = [fillableStake |-> t, stakes |-> stakes, left |-> 0,
                      totalPayout |-> SumTo([i \in 1..n |->
                          PayoutFor(stakes[i], SidePrice(quotes[i], side))], n)]

\* Every preview does, and leaves nothing over.
LEMMA PreviewIs ==
    ASSUME NEW quotes, WithRoom(quotes), quotes # <<>>, NEW side,
           NEW requested \in Nat \ {0}
    PROVE  SplitBy(PreviewBet(quotes, side, requested), quotes, side, RungsUsed(quotes),
                   CapsUsed(quotes), CanFill(quotes, requested))
<1>. DEFINE n == RungsUsed(quotes)
            caps == CapsUsed(quotes)
            t == CanFill(quotes, requested)
            weights == LadderFor(n)
            stakes == LadderStakes(t, caps, weights, n)
            ranked == SubSeq(quotes, 1, n)
<1>1. n \in 1..3 /\ n <= Len(quotes)
  <2>. DEFINE len == Len(quotes)
  <2>1. quotes \in Seq(Range(quotes))
    BY DEF WithRoom
  <2>2. len \in Nat /\ len # 0
    BY <2>1
  <2>. HIDE DEF len
  <2>3. Least(len, 3) \in 1..3 /\ Least(len, 3) <= len
    BY <2>2 DEF Least
  <2>4. n = Least(len, 3)
    BY DEF RungsUsed, len
  <2>. QED  BY <2>3, <2>4 DEF len
<1>2. /\ ranked \in Seq(Range(quotes)) /\ Len(ranked) = n /\ DOMAIN ranked = 1..n
      /\ \A i \in 1..n : ranked[i] = quotes[i]
  BY <1>1 DEF WithRoom
<1>3. caps \in [1..n -> Nat \ {0}] /\ caps \in [1..n -> Nat]
  BY <1>1 DEF CapsUsed, WithRoom
<1>4. t \in Nat \ {0} /\ t <= SumTo(caps, n)
  <2>1. caps[1] <= SumTo(caps, n) /\ SumTo(caps, n) \in Nat
    BY <1>1, <1>3, TermOfTotal
  <2>2. caps[1] \in Nat \ {0}
    BY <1>1, <1>3
  <2>3. t = Least(requested, SumTo(caps, n))
    BY DEF CanFill
  <2>. HIDE DEF t, caps, n
  <2>. QED  BY <2>1, <2>2, <2>3 DEF Least
<1>5. weights \in [1..n -> Nat]
  BY <1>1, LadderForType
<1>6. [i \in DOMAIN ranked |-> ranked[i].maxStake] = caps /\ Len(caps) = n
  BY <1>1, <1>2 DEF CapsUsed
<1>7. ranked # <<>> /\ Least(Len(quotes), 3) = n
  BY <1>1, <1>2 DEF RungsUsed
<1>8. LadderPlaces(t, caps, weights, n)
  <2>. HIDE DEF n, caps, t, weights
  <2>1. n \in Nat /\ t \in Nat
    BY <1>1, <1>4
  <2>2. LadderPlaces(t, caps, weights, n) <=> SumTo(caps, n) >= t
    BY <1>3, <1>5, <2>1, LadderBestFirst, Zenon
  <2>3. SumTo(caps, n) \in Nat
    BY <1>3, <2>1, TotalOfAmounts
  <2>. QED  BY <1>4, <2>1, <2>2, <2>3
<1>. HIDE DEF n, caps, t
<1>9. LadderAllocate(t, caps, weights) = [stakes |-> stakes, left |-> 0]
  <2>1. n \in Nat /\ t \in Nat
    BY <1>1, <1>4
  <2>2. LadderAllocate(t, caps, weights)
           = [stakes |-> stakes, left |-> LadderLeft(t, caps, weights, n)]
    BY <1>3, <1>5, <2>1, TwinLadder, Zenon
  <2>. QED  BY <1>8, <2>2 DEF LadderPlaces, LadderLeft
<1>10. stakes \in [1..n -> Nat]
  <2>1. n \in Nat /\ t \in Nat
    BY <1>1, <1>4
  <2>. HIDE DEF weights
  <2>. QED  BY <1>3, <1>5, <2>1, LadderWithinCaps, Zenon
<1>11. t = Least(requested, SumTo(caps, Len(caps)))
  BY <1>6 DEF CanFill, t, caps, n
<1>. HIDE DEF ranked, weights, stakes
<1>. DEFINE payouts == [i \in 1..n |-> PayoutFor(stakes[i], SidePrice(quotes[i], side))]
<1>12. [i \in DOMAIN ranked |-> PayoutFor(stakes[i], SidePrice(ranked[i], side))] = payouts
       /\ Len(payouts) = n
  BY <1>1, <1>2
<1>. HIDE DEF payouts
<1>13. PreviewBet(quotes, side, requested)
          = [fillableStake |-> t, stakes |-> stakes, left |-> 0,
             totalPayout |-> SumTo(payouts, n)]
  <2>. DEFINE best == SubSeq(quotes, 1, Least(Len(quotes), 3))
              room == [i \in DOMAIN best |-> best[i].maxStake]
              stake == Least(requested, SumTo(room, Len(room)))
              split == LadderAllocate(stake, room, LadderFor(Len(best)))
              paid == [i \in DOMAIN best |->
                         PayoutFor(split.stakes[i], SidePrice(best[i], side))]
  <2>1. best = ranked /\ LadderFor(Len(best)) = weights
    BY <1>2, <1>7 DEF ranked, weights
  <2>2. PreviewBet(quotes, side, requested)
           = IF best = <<>> \/ requested = 0
             THEN [fillableStake |-> 0, totalPayout |-> 0, stakes |-> <<>>, left |-> 0]
             ELSE [fillableStake |-> stake, stakes |-> split.stakes, left |-> split.left,
                   totalPayout |-> SumTo(paid, Len(paid))]
    BY DEF PreviewBet
  <2>. HIDE DEF best
  <2>3. room = caps /\ stake = t
    BY <1>6, <1>11, <2>1
  <2>. HIDE DEF room, stake
  <2>4. split.stakes = stakes /\ split.left = 0
    BY <1>9, <2>1, <2>3
  <2>. HIDE DEF split
  <2>5. paid = payouts
    BY <1>12, <2>1, <2>4
  <2>. HIDE DEF paid
  <2>. QED  BY <1>7, <1>12, <2>1, <2>2, <2>3, <2>4, <2>5
<1>14. SplitBy(PreviewBet(quotes, side, requested), quotes, side, n, caps, t)
  BY <1>1, <1>3, <1>4, <1>8, <1>10, <1>13 DEF SplitBy, weights, stakes, payouts
<1>. QED  BY <1>14 DEF n, caps, t

\* What the first rungs of a ladder get, when the rest get nothing.
LEMMA OnlyTheFirst ==
    ASSUME NEW n \in 1..3, NEW t \in Nat, NEW stakes \in [1..n -> Nat],
           SumTo(stakes, n) = t
    PROVE  /\ (\A i \in 2..n : stakes[i] = 0) => stakes[1] = t
           /\ n = 3 /\ stakes[3] = 0 => SumTo([i \in 1..2 |-> stakes[i]], 2) = t
<1>1. SumTo(stakes, n) = RunningTotal(stakes, n)[n]
  BY DEF SumTo
<1>. DEFINE total == RunningTotal(stakes, n)
<1>2. /\ total[0] = 0 /\ \A k \in 1..n : total[k] = total[k - 1] + stakes[k]
      /\ total \in [0..n -> Int]
  <2>1. n \in Nat /\ stakes \in [1..n -> Int]
    OBVIOUS
  <2>. QED  BY <2>1, RunningTotalDef
<1>. HIDE DEF total
<1>3. 1 \in 1..n /\ 1 - 1 = 0 /\ 2 - 1 = 1 /\ 3 - 1 = 2
  OBVIOUS
<1>4. total[1] = stakes[1] /\ stakes[1] \in Nat
  BY <1>2, <1>3
<1>5. n >= 2 => total[2] = stakes[1] + stakes[2] /\ 2 \in 1..n /\ stakes[2] \in Nat
  BY <1>2, <1>3, <1>4
<1>6. n = 3 => total[3] = stakes[1] + stakes[2] + stakes[3] /\ 3 \in 1..n /\ stakes[3] \in Nat
  BY <1>2, <1>3, <1>5
<1>7. ASSUME \A i \in 2..n : stakes[i] = 0 PROVE stakes[1] = t
  <2>1. CASE n = 1
    BY <1>1, <1>4, <2>1 DEF total
  <2>2. CASE n = 2
    BY <1>1, <1>4, <1>5, <1>7, <2>2 DEF total
  <2>3. CASE n = 3
    <3>1. stakes[2] = 0 /\ stakes[3] = 0
      BY <1>7, <2>3
    <3>. QED  BY <1>1, <1>4, <1>6, <2>3, <3>1 DEF total
  <2>. QED  BY <2>1, <2>2, <2>3
<1>8. ASSUME n = 3, stakes[3] = 0 PROVE SumTo([i \in 1..2 |-> stakes[i]], 2) = t
  <2>. DEFINE pair == [i \in 1..2 |-> stakes[i]]
              sum == RunningTotal(pair, 2)
              two == 2
  <2>1. pair \in [1..two -> Int] /\ two \in Nat /\ pair[1] = stakes[1] /\ pair[2] = stakes[2]
    BY <1>8
  <2>. HIDE DEF pair
  <2>2. sum[0] = 0 /\ sum[1] = sum[0] + pair[1] /\ sum[2] = sum[1] + pair[2]
    <3>1. /\ RunningTotal(pair, two)[0] = 0
          /\ \A k \in 1..two : RunningTotal(pair, two)[k]
                                  = RunningTotal(pair, two)[k - 1] + pair[k]
      <4>. HIDE DEF two
      <4>. QED  BY <2>1, RunningTotalDef
    <3>2. 1 \in 1..two /\ 2 \in 1..two
      OBVIOUS
    <3>. QED  BY <1>3, <3>1, <3>2
  <2>. HIDE DEF sum
  <2>3. sum[2] = t
    BY <1>1, <1>4, <1>5, <1>6, <1>8, <2>1, <2>2 DEF total
  <2>. QED  BY <2>3 DEF sum, SumTo, pair
<1>. QED  BY <1>7, <1>8

\* What a ladder leaves is a count.
LEMMA LeftIsCount ==
    ASSUME NEW n \in Nat, NEW t \in Nat, NEW caps \in [1..n -> Nat],
           NEW weights \in [1..n -> Nat]
    PROVE  LadderLeft(t, caps, weights, n) \in Nat
<1>1. PICK first \in [0..n -> Nat], sweep \in [0..n -> Nat] :
         PassedBy(t, caps, weights, n, first, sweep)
  BY PassesOf
<1>. QED  BY <1>1 DEF PassedBy

\* The router's ladder over the first m of the rungs places t as they got it.
SameAlone(t, caps, stakes, m) ==
    /\ LadderPlaces(t, caps, LadderFor(m), m)
    /\ LadderStakes(t, caps, LadderFor(m), m) = [i \in 1..m |-> stakes[i]]

\* A rung that took everything takes it alone.
LEMMA AloneOfOne ==
    ASSUME NEW t \in Nat, NEW caps \in [1..1 -> Nat], NEW stakes,
           stakes[1] = t, t <= caps[1]
    PROVE  SameAlone(t, caps, stakes, 1)
<1>. DEFINE one == 1
            w == LadderFor(1)
            single == LadderStakes(t, caps, w, one)
<1>1. caps \in [1..one -> Nat] /\ w \in [1..one -> Nat] /\ one \in Nat /\ 1 \in 1..one
  BY LadderForIs
<1>. HIDE DEF w, single
<1>2. SumTo(caps, one) >= t
  <2>1. caps[1] <= SumTo(caps, one) /\ SumTo(caps, one) \in Nat
    <3>. HIDE DEF one
    <3>. QED  BY <1>1, TermOfTotal
  <2>2. caps[1] \in Nat
    OBVIOUS
  <2>. HIDE DEF one
  <2>. QED  BY <2>1, <2>2
<1>3. LadderPlaces(t, caps, w, one)
  <2>. HIDE DEF one
  <2>. QED  BY <1>1, <1>2, LadderBestFirst
<1>4. single \in [1..one -> Nat]
  <2>. HIDE DEF one
  <2>. QED  BY <1>1, LadderWithinCaps DEF single
<1>5. SumTo(single, one) = t
  <2>. HIDE DEF one
  <2>. QED  BY <1>1, <1>3, LadderExact DEF single
<1>6. single[1] = t
  <2>1. \A i \in 2..one : single[i] = 0
    OBVIOUS
  <2>2. one \in 1..3
    OBVIOUS
  <2>. HIDE DEF one
  <2>. QED  BY <1>4, <1>5, <2>1, <2>2, OnlyTheFirst
<1>7. single = [i \in 1..1 |-> stakes[i]]
  BY <1>4, <1>6
<1>. QED  BY <1>3, <1>7 DEF SameAlone, single, w

\* Two of three rungs that got everything would split it so as a pair.
LEMMA AloneOfTwo ==
    ASSUME NEW t \in Nat \ {0}, NEW room \in [1..3 -> Nat \ {0}],
           NEW stakes \in [1..3 -> Nat],
           stakes = LadderStakes(t, room, LadderFor(3), 3), SumTo(stakes, 3) = t,
           LadderLeft(t, room, LadderFor(3), 3) = 0, stakes[3] = 0, stakes[2] > 0,
           NEW caps \in [1..2 -> Nat \ {0}], caps[1] = room[1], caps[2] = room[2]
    PROVE  SameAlone(t, caps, stakes, 2)
<1>. DEFINE w == LadderFor(2)
            two == 2
            three == 3
            both == LadderStakes(t, caps, w, two)
            pair == [i \in 1..2 |-> stakes[i]]
            left == LadderLeft(t, caps, w, two)
<1>1. both[1] = stakes[1] /\ both[2] = stakes[2]
  <2>. DEFINE p == LadderStakes(t, room, LadderFor(3), 3)
  <2>1. p[3] = 0 /\ p[2] > 0 => both[1] = p[1] /\ both[2] = p[2]
    BY ThreeSplit
  <2>2. p = stakes
    OBVIOUS
  <2>. HIDE DEF p, both
  <2>. QED  BY <2>1, <2>2
<1>2. w \in [1..two -> Nat] /\ caps \in [1..two -> Nat] /\ two \in Nat /\ t \in Nat
  BY LadderForIs
<1>. HIDE DEF w, both, left
<1>3. both \in [1..two -> Nat]
  <2>. HIDE DEF two
  <2>. QED  BY <1>2, LadderWithinCaps DEF both
<1>4. both = pair
  BY <1>1, <1>3
<1>5. SumTo(pair, two) = t
  <2>1. three \in 1..3 /\ stakes \in [1..three -> Nat] /\ SumTo(stakes, three) = t /\ three = 3
    OBVIOUS
  <2>. HIDE DEF three
  <2>. QED  BY <1>2, <2>1, OnlyTheFirst
<1>6. SumTo(both, two) = t - left
  <2>. HIDE DEF two
  <2>. QED  BY <1>2, LadderPlaced DEF both, left
<1>7. left \in Nat
  <2>. HIDE DEF two
  <2>. QED  BY <1>2, LeftIsCount DEF left
<1>8. left = 0
  <2>. HIDE DEF two, pair
  <2>. QED  BY <1>2, <1>4, <1>5, <1>6, <1>7
<1>9. LadderPlaces(t, caps, w, two)
  BY <1>8 DEF LadderPlaces, LadderLeft, left
<1>. QED  BY <1>4, <1>9 DEF SameAlone, both, w

\* The rungs that get something are the first ones, and alone they would get
\* the same.
FirstAlone(t, room, stakes, k, m) ==
    (\A i \in (m + 1)..k : stakes[i] = 0) /\ (m = 1 \/ stakes[m] > 0)
        => SameAlone(t, [i \in 1..m |-> room[i]], stakes, m)

LEMMA FirstRungs ==
    ASSUME NEW k \in 1..3, NEW t \in Nat \ {0}, NEW room \in [1..k -> Nat \ {0}],
           NEW stakes \in [1..k -> Nat], stakes = LadderStakes(t, room, LadderFor(k), k),
           LadderPlaces(t, room, LadderFor(k), k)
    PROVE  /\ stakes[1] > 0 /\ (k = 3 /\ stakes[3] > 0 => stakes[2] > 0)
           /\ \A m \in 1..k : FirstAlone(t, room, stakes, k, m)
<1>. DEFINE w == LadderFor(k)
<1>1. w \in [1..k -> Nat] /\ room \in [1..k -> Nat] /\ k \in Nat /\ t \in Nat
  <2>1. w \in [1..k -> Nat]
    BY LadderForType
  <2>2. room \in [1..k -> Nat]
    OBVIOUS
  <2>. HIDE DEF w
  <2>. QED  BY <2>1, <2>2
<1>2. SumTo(stakes, k) = t
  <2>. HIDE DEF w
  <2>1. SumTo(LadderStakes(t, room, w, k), k) = t
    BY <1>1, LadderExact DEF w
  <2>. QED  BY <2>1 DEF w
<1>3. \A i \in 1..k : stakes[i] <= room[i]
  <2>. HIDE DEF w
  <2>1. \A i \in 1..k : LadderStakes(t, room, w, k)[i] <= room[i]
    BY <1>1, LadderWithinCaps
  <2>. QED  BY <2>1 DEF w
<1>4. stakes = [i \in 1..k |-> stakes[i]] /\ room = [i \in 1..k |-> room[i]]
  OBVIOUS
<1>5. FirstAlone(t, room, stakes, k, k)
  <2>1. SameAlone(t, room, stakes, k)
    BY <1>4 DEF SameAlone
  <2>. QED  BY <1>4, <2>1 DEF FirstAlone
<1>6. FirstAlone(t, room, stakes, k, 1)
  <2>. SUFFICES ASSUME \A i \in 2..k : stakes[i] = 0
                PROVE  SameAlone(t, [i \in 1..1 |-> room[i]], stakes, 1)
    BY DEF FirstAlone
  <2>1. stakes[1] = t
    BY <1>1, <1>2, OnlyTheFirst
  <2>. DEFINE caps == [i \in 1..1 |-> room[i]]
  <2>2. 1 \in 1..k
    OBVIOUS
  <2>3. caps \in [1..1 -> Nat] /\ caps[1] = room[1]
    BY <1>1, <2>2
  <2>4. t <= caps[1]
    BY <1>3, <2>1, <2>2, <2>3
  <2>. HIDE DEF caps
  <2>5. SameAlone(t, caps, stakes, 1)
    BY <1>1, <2>1, <2>3, <2>4, AloneOfOne
  <2>. QED  BY <2>5 DEF caps
<1>7. CASE k = 3
  <2>1. /\ room \in [1..3 -> Nat \ {0}] /\ stakes = LadderStakes(t, room, LadderFor(3), 3)
        /\ LadderLeft(t, room, LadderFor(3), 3) = 0 /\ stakes \in [1..3 -> Nat]
        /\ SumTo(stakes, 3) = t
    BY <1>2, <1>7 DEF LadderPlaces, LadderLeft
  <2>. DEFINE pair == [i \in 1..2 |-> room[i]]
              p == LadderStakes(t, room, LadderFor(3), 3)
  <2>2. pair \in [1..2 -> Nat \ {0}] /\ pair[1] = room[1] /\ pair[2] = room[2]
    <3>1. \A i \in 1..2 : room[i] \in Nat \ {0}
      BY <1>7
    <3>2. pair \in [1..2 -> Nat \ {0}]
      BY <3>1, Zenon
    <3>3. pair[1] = room[1] /\ pair[2] = room[2]
      OBVIOUS
    <3>. QED  BY <3>2, <3>3, Zenon
  <2>. HIDE DEF pair
  <2>3. p[1] > 0 /\ (p[3] > 0 => p[2] > 0)
    BY <2>1, <2>2, ThreeSplit
  <2>4. p = stakes
    BY <2>1, Zenon
  <2>. HIDE DEF p
  <2>5. stakes[1] > 0 /\ (stakes[3] > 0 => stakes[2] > 0)
    BY <2>3, <2>4
  <2>6. FirstAlone(t, room, stakes, k, 2)
    <3>. SUFFICES ASSUME stakes[3] = 0, stakes[2] > 0 PROVE SameAlone(t, pair, stakes, 2)
      BY <1>7 DEF FirstAlone, pair
    <3>. QED  BY <2>1, <2>2, AloneOfTwo
  <2>7. \A m \in 1..k : m = 1 \/ m = 2 \/ m = k
    BY <1>7
  <2>. QED  BY <1>5, <1>6, <2>5, <2>6, <2>7
<1>8. CASE k = 2
  <2>1. room \in [1..2 -> Nat \ {0}] /\ stakes = LadderStakes(t, room, LadderFor(2), 2)
    BY <1>8
  <2>. DEFINE p == LadderStakes(t, room, LadderFor(2), 2)
  <2>2. p[1] > 0
    BY <2>1, TwoSplit
  <2>3. p = stakes
    BY <2>1
  <2>. HIDE DEF p
  <2>4. stakes[1] > 0
    BY <2>2, <2>3
  <2>5. \A m \in 1..k : m = 1 \/ m = k
    BY <1>8
  <2>. QED  BY <1>5, <1>6, <1>8, <2>4, <2>5
<1>9. CASE k = 1
  <2>1. \A i \in 2..k : stakes[i] = 0
    BY <1>9
  <2>2. stakes[1] = t
    BY <1>1, <1>2, <2>1, OnlyTheFirst
  <2>3. \A m \in 1..k : m = 1
    BY <1>9
  <2>. QED  BY <1>6, <1>9, <2>2, <2>3
<1>. QED  BY <1>7, <1>8, <1>9

\* The fills of a preview that got a stake are split by the router's ladder as
\* previewed (bet-preview.ts).
LEMMA ShownIsStruck ==
    ASSUME NEW quotes, WithRoom(quotes), NEW side, NEW requested \in Nat
    PROVE  StruckAsShown(quotes, PreviewBet(quotes, side, requested))
<1>. DEFINE preview == PreviewBet(quotes, side, requested)
            k == RungsUsed(quotes)
            room == CapsUsed(quotes)
            t == CanFill(quotes, requested)
            stakes == preview.stakes
            some == {i \in DOMAIN stakes : stakes[i] > 0}
            sent == Among([i \in DOMAIN stakes |-> i], some)
            caps == [i \in DOMAIN sent |-> quotes[sent[i]].maxStake]
<1>1. CASE quotes = <<>> \/ requested = 0
  <2>1. stakes = <<>>
    <3>1. ASSUME quotes = <<>> PROVE SubSeq(quotes, 1, Least(Len(quotes), 3)) = <<>>
      <4>1. Least(Len(quotes), 3) = 0
        BY <3>1 DEF Least
      <4>. QED  BY <3>1, <4>1
    <3>. QED  BY <1>1, <3>1 DEF PreviewBet
  <2>2. Len(sent) = 0
    <3>. DEFINE s == [i \in DOMAIN stakes |-> i]
    <3>1. s = <<>>
      BY <2>1
    <3>. HIDE DEF s, some
    <3>2. s \in Seq(Nat) /\ Len(s) = 0
      BY <3>1
    <3>3. PICK picked \in [0..Len(s) -> Seq(Nat)] :
             Among(s, some) = picked[Len(s)] /\ Picking(s, some, picked)
      BY <3>2, AmongExists, Zenon
    <3>4. Among(s, some) = <<>>
      BY <3>2, <3>3 DEF Picking
    <3>. QED  BY <3>4 DEF s
  <2>. QED  BY <2>2 DEF StruckAsShown
<1>2. CASE quotes # <<>> /\ requested # 0
  <2>1. SplitBy(preview, quotes, side, k, room, t)
    BY <1>2, PreviewIs
  <2>2. room = [i \in 1..k |-> quotes[i].maxStake]
    BY DEF CapsUsed
  <2>. HIDE DEF preview, k, room, t
  <2>3. /\ k \in 1..3 /\ k <= Len(quotes) /\ room \in [1..k -> Nat \ {0}] /\ t \in Nat \ {0}
        /\ LadderPlaces(t, room, LadderFor(k), k) /\ stakes \in [1..k -> Nat]
        /\ stakes = LadderStakes(t, room, LadderFor(k), k)
        /\ preview.fillableStake = t /\ preview.left = 0
    BY <2>1 DEF SplitBy
  <2>. HIDE DEF stakes
  <2>4. /\ stakes[1] > 0 /\ (k = 3 /\ stakes[3] > 0 => stakes[2] > 0)
        /\ \A m \in 1..k : FirstAlone(t, room, stakes, k, m)
    BY <2>3, FirstRungs
  <2>. DEFINE m == IF k = 1 \/ 2 \notin some THEN 1
                   ELSE IF k = 2 \/ 3 \notin some THEN 2 ELSE 3
  <2>5. DOMAIN stakes = 1..k /\ some = {i \in 1..k : stakes[i] > 0}
    BY <2>3
  <2>6. sent = Among([i \in 1..k |-> i], some)
    BY <2>5
  <2>. HIDE DEF some
  <2>7. UpTo(sent, m)
    <3>1. 1 \in some /\ (k = 3 /\ 3 \in some => 2 \in some) /\ some \subseteq 1..k
      BY <2>3, <2>4, <2>5
    <3>2. UpTo(Among([i \in 1..k |-> i], some), m)
      BY <2>3, <3>1, PickedOf
    <3>. QED  BY <2>6, <3>2
  <2>8. /\ m \in 1..k
        /\ \A i \in (m + 1)..k : stakes[i] = 0
        /\ m = 1 \/ stakes[m] > 0
    <3>1. \A i \in 1..k : (i \in some <=> stakes[i] > 0) /\ stakes[i] \in Nat
      BY <2>3, <2>5
    <3>2. k = 3 /\ stakes[2] = 0 => stakes[3] = 0
      BY <2>3, <2>4, <3>1
    <3>. QED
      <4>1. CASE k = 1
        BY <4>1
      <4>2. CASE k = 2
        BY <3>1, <4>2
      <4>3. CASE k = 3
        BY <3>1, <3>2, <4>3
      <4>. QED  BY <2>3, <4>1, <4>2, <4>3
  <2>. HIDE DEF m, sent
  <2>9. sent \in Seq(Nat) /\ Len(sent) = m /\ \A i \in 1..m : sent[i] = i
    BY <2>7 DEF UpTo
  <2>10. DOMAIN sent = 1..m /\ caps = [i \in 1..m |-> room[i]]
    <3>1. DOMAIN sent = 1..m
      BY <2>9
    <3>2. \A i \in 1..m : i \in 1..k
      BY <2>3, <2>8
    <3>3. \A i \in 1..m : quotes[sent[i]].maxStake = room[i]
      BY <2>2, <2>9, <3>2
    <3>. QED  BY <3>1, <3>3
  <2>. HIDE DEF caps
  <2>11. SameAlone(t, caps, stakes, m)
    BY <2>4, <2>8, <2>10 DEF FirstAlone
  <2>12. [i \in 1..m |-> stakes[sent[i]]] = [i \in 1..m |-> stakes[i]]
    BY <2>9
  <2>13. Len(sent) > 0 => /\ preview.left = 0
            /\ LadderPlaces(preview.fillableStake, caps, LadderFor(Len(sent)), Len(sent))
            /\ LadderStakes(preview.fillableStake, caps, LadderFor(Len(sent)), Len(sent))
                  = [i \in 1..Len(sent) |-> stakes[sent[i]]]
    BY <2>3, <2>9, <2>11, <2>12 DEF SameAlone
  <2>. QED  BY <2>13 DEF StruckAsShown, caps, sent, some, stakes, preview
<1>. QED  BY <1>1, <1>2

-----------------------------------------------------------------------------
(* What a fan is shown of a cash-out *)

\* What a preview of a cover pays.
CoverPays(book, side, stake) == PreviewBet(book, side, stake).totalPayout

\* A book of quotes with room, at prices that can be bet at.
PricedFor(book, side) ==
    /\ WithRoom(book)
    /\ \A i \in DOMAIN book : SidePrice(book[i], side) \in 1..BPS

\* A bet previewed pays at least its stake, and one of nothing pays nothing.
LEMMA CoverCoversStake ==
    ASSUME NEW book, NEW side, PricedFor(book, side), NEW held \in Nat \ {0}, book # <<>>,
           PreviewBet(book, side, held).fillableStake >= held, NEW stake \in 0..held
    PROVE  /\ CoverPays(book, side, 0) = 0
           /\ CoverPays(book, side, stake) \in Nat /\ CoverPays(book, side, stake) >= stake
           /\ PreviewBet(book, side, stake).fillableStake = stake
<1>. DEFINE n == RungsUsed(book)
            caps == CapsUsed(book)
            room == SumTo(caps, n)
            stakes == LadderStakes(stake, caps, LadderFor(n), n)
            pays == [i \in 1..n |-> PayoutFor(stakes[i], SidePrice(book[i], side))]
<1>1. PreviewBet(book, side, 0).fillableStake = 0 /\ CoverPays(book, side, 0) = 0
  BY DEF PreviewBet, CoverPays
<1>2. CASE stake = 0
  BY <1>1, <1>2
<1>3. CASE stake # 0
  <2>1. SplitBy(PreviewBet(book, side, held), book, side, n, caps, CanFill(book, held))
        /\ SplitBy(PreviewBet(book, side, stake), book, side, n, caps, CanFill(book, stake))
    BY <1>3, PreviewIs DEF PricedFor
  <2>2. CanFill(book, held) >= held
    BY <2>1 DEF SplitBy
  <2>3. CanFill(book, held) = Least(held, room) /\ CanFill(book, stake) = Least(stake, room)
    BY DEF CanFill
  <2>. HIDE DEF n, caps
  <2>4. n \in 1..3 /\ n <= Len(book) /\ caps \in [1..n -> Nat]
    <3>1. n \in 1..3 /\ n <= Len(book) /\ caps \in [1..n -> Nat \ {0}]
      BY <2>1 DEF SplitBy
    <3>. QED  BY <3>1
  <2>5. room \in Nat
    BY <2>4, TotalOfAmounts
  <2>. HIDE DEF room
  <2>6. CanFill(book, stake) = stake
    BY <2>2, <2>3, <2>5 DEF Least
  <2>7. /\ LadderPlaces(stake, caps, LadderFor(n), n) /\ stakes \in [1..n -> Nat]
        /\ PreviewBet(book, side, stake).fillableStake = stake
        /\ CoverPays(book, side, stake) = SumTo(pays, n)
    BY <2>1, <2>6 DEF SplitBy, CoverPays
  <2>8. SumTo(stakes, n) = stake
    <3>1. LadderFor(n) \in [1..n -> Nat]
      BY <2>4, LadderForType, Zenon
    <3>2. n \in Nat /\ stake \in Nat
      BY <2>4
    <3>. QED  BY <2>4, <2>7, <3>1, <3>2, LadderExact
  <2>. HIDE DEF stakes
  <2>9. \A i \in 1..n : pays[i] \in Nat /\ stakes[i] <= pays[i]
    <3>1. \A i \in 1..n : SidePrice(book[i], side) \in 1..BPS
      <4>1. book \in Seq(Range(book)) /\ \A i \in DOMAIN book : SidePrice(book[i], side) \in 1..BPS
        BY DEF PricedFor, WithRoom
      <4>2. DOMAIN book = 1..Len(book) /\ Len(book) \in Nat
        BY <4>1
      <4>3. \A i \in 1..n : i \in 1..Len(book)
        BY <2>4, <4>2
      <4>. QED  BY <4>1, <4>2, <4>3
    <3>2. ASSUME NEW i \in 1..n
          PROVE  PayoutFor(stakes[i], SidePrice(book[i], side)) \in Nat
                 /\ stakes[i] <= PayoutFor(stakes[i], SidePrice(book[i], side))
      BY <2>7, <3>1, PayoutCoversStake
    <3>. QED  BY <3>2
  <2>10. pays \in [1..n -> Nat]
    BY <2>9
  <2>. HIDE DEF pays
  <2>11. SumTo(stakes, n) <= SumTo(pays, n) /\ SumTo(pays, n) \in Nat
    <3>1. n \in Nat /\ stakes \in [1..n -> Nat] /\ \A i \in 1..n : stakes[i] <= pays[i]
      BY <2>4, <2>7, <2>9
    <3>. QED  BY <2>10, <3>1, TotalOfLess, TotalOfAmounts, Zenon
  <2>. QED  BY <1>1, <2>7, <2>8, <2>11
<1>. QED  BY <1>2, <1>3

\* The search ends on a stake whose payout reaches the held one.
LEMMA CoverReaches ==
    ASSUME NEW book, NEW side, PricedFor(book, side), NEW held \in Nat \ {0}, book # <<>>,
           PreviewBet(book, side, held).fillableStake >= held
    PROVE  /\ CoverStake(book, side, held) \in 0..held
           /\ CoverPays(book, side, CoverStake(book, side, held)) >= held
<1>. DEFINE start == [lo |-> 0, hi |-> held]
            T == {at \in [lo : 0..held, hi : 0..held] : CoverPays(book, side, at.hi) >= held}
            Eq(p) == p = [turns \in 0..held |->
                            IF turns = 0 THEN start
                            ELSE SearchTurn(p[turns - 1], book, side, held)]
            step == [i \in 1..held |-> [at \in T |-> SearchTurn(at, book, side, held)]]
<1>1. start \in T
  <2>1. held \in 0..held /\ 0 \in 0..held
    OBVIOUS
  <2>2. CoverPays(book, side, held) >= held
    BY <2>1, CoverCoversStake
  <2>. QED  BY <2>1, <2>2
<1>2. ASSUME NEW at \in T PROVE SearchTurn(at, book, side, held) \in T
  <2>. DEFINE mid == (at.lo + at.hi) \div 2
  <2>1. at = [lo |-> at.lo, hi |-> at.hi] /\ at.lo \in 0..held /\ at.hi \in 0..held
        /\ CoverPays(book, side, at.hi) >= held
    OBVIOUS
  <2>2. mid \in 0..held
    BY <2>1
  <2>3. CASE at.hi - at.lo <= 1
    BY <2>3 DEF SearchTurn
  <2>4. CASE ~(at.hi - at.lo <= 1) /\ CoverPays(book, side, mid) >= held
    <3>1. SearchTurn(at, book, side, held) = [lo |-> at.lo, hi |-> mid]
      BY <2>4 DEF SearchTurn, CoverPays
    <3>. HIDE DEF mid
    <3>. QED  BY <2>1, <2>2, <2>4, <3>1
  <2>5. CASE ~(at.hi - at.lo <= 1) /\ ~(CoverPays(book, side, mid) >= held)
    <3>1. SearchTurn(at, book, side, held) = [lo |-> mid, hi |-> at.hi]
      BY <2>5 DEF SearchTurn, CoverPays
    <3>. HIDE DEF mid
    <3>. QED  BY <2>1, <2>2, <3>1
  <2>. QED  BY <2>3, <2>4, <2>5
<1>. HIDE DEF T, start
<1>3. step \in [1..held -> [T -> T]]
  BY <1>2
<1>4. PICK f : Recurs(f, T, held, start, step)
  <2>. HIDE DEF step
  <2>. QED  BY <1>1, <1>3, RecursionExists
<1>5. f \in [0..held -> T] /\ Eq(f)
  <2>1. /\ f \in [0..held -> T] /\ f[0] = start
        /\ \A k \in 1..held : f[k] = step[k][f[k - 1]]
    BY <1>4 DEF Recurs
  <2>2. ASSUME NEW k \in 0..held
        PROVE  f[k] = IF k = 0 THEN start ELSE SearchTurn(f[k - 1], book, side, held)
    <3>1. CASE k = 0
      BY <2>1, <3>1
    <3>2. CASE k # 0
      <4>1. k \in 1..held /\ k - 1 \in 0..held
        BY <3>2
      <4>2. f[k - 1] \in T
        BY <2>1, <4>1
      <4>3. step[k][f[k - 1]] = SearchTurn(f[k - 1], book, side, held)
        BY <4>1, <4>2
      <4>. QED  BY <2>1, <3>2, <4>1, <4>3
    <3>. QED  BY <3>1, <3>2
  <2>. HIDE DEF step
  <2>. QED  BY <2>1, <2>2
<1>. DEFINE p == CHOOSE r : Eq(r)
<1>6. Eq(p) /\ CoverStake(book, side, held) = p[held].hi
  <2>1. \E r : Eq(r)
    BY <1>5
  <2>. QED  BY <2>1 DEF CoverStake, start
<1>7. p = f
  <2>. HIDE DEF p, step
  <2>1. p[0] = f[0]
    BY <1>5, <1>6
  <2>2. OnSegment(p, held) /\ OnSegment(f, held)
    BY <1>5, <1>6 DEF OnSegment
  <2>3. ASSUME NEW k \in 1..held, p[k - 1] = f[k - 1] PROVE p[k] = f[k]
    <3>1. k \in 0..held /\ k # 0
      OBVIOUS
    <3>. QED  BY <1>5, <1>6, <2>3, <3>1, Zenon
  <2>. QED  BY <2>1, <2>2, <2>3, RecursionUnique, Zenon
<1>8. p[held] \in T
  <2>. HIDE DEF p
  <2>1. f[held] \in T
    BY <1>5
  <2>. QED  BY <1>7, <2>1
<1>. HIDE DEF p
<1>. QED  BY <1>6, <1>8 DEF T

\* A cash-out locks in what it shows, and one sent after the book moved most of
\* what was shown (cash-out.ts, YourBets.tsx).
LEMMA CashOutIsEven ==
    ASSUME NEW book, PricedFor(book, "yes"), NEW held \in Nat
    PROVE  CashOutEven(book, held)
<1>. DEFINE offered == CashOutShown([yes |-> 0, no |-> held], TRUE, FALSE, book)
            c == CoverStake(book, "yes", held)
            pays == CoverPays(book, "yes", c)
            Kept(offer, cover) ==
                LET after == [yes |-> cover.totalPayout, no |-> held]
                IN  /\ offer.value > 0
                    /\ cover.fillableStake = offer.coverStake
                    /\ CashedOut(after)
                    /\ LockedIn(after) - offer.coverStake >= offer.value
                    /\ StruckAsShown(book, cover)
                    /\ \A shown \in 1..held :
                          \A sent \in {PlaceCashOut(book, "yes", held, shown)} \ {NoOffer} :
                              /\ cover.totalPayout >= sent.minPayout
                              /\ (LockedIn(after) - sent.coverStake) * 100 >= shown * 97
<1>1. offered = CashOutOffer(book, "yes", held)
  BY DEF CashOutShown, CashedOut
<1>. SUFFICES ASSUME offered # NoOffer
              PROVE  Kept(offered, PreviewBet(book, "yes", offered.coverStake))
  BY DEF CashOutEven
<1>. HIDE DEF offered
<1>2. /\ book # <<>> /\ held \in Nat \ {0} /\ PreviewBet(book, "yes", held).fillableStake >= held
      /\ offered = CoveredBy(c, pays, held)
  <2>1. /\ book # <<>> /\ held # 0 /\ ~(PreviewBet(book, "yes", held).fillableStake < held)
        /\ offered = CoveredBy(c, pays, held)
    BY <1>1 DEF CashOutOffer, CoverPays
  <2>2. PreviewBet(book, "yes", held).fillableStake \in Nat
    <3>1. SplitBy(PreviewBet(book, "yes", held), book, "yes", RungsUsed(book),
                  CapsUsed(book), CanFill(book, held))
      BY <2>1, PreviewIs DEF PricedFor
    <3>. QED  BY <3>1 DEF SplitBy
  <2>. HIDE DEF c, pays
  <2>. QED  BY <2>1, <2>2
<1>3. c \in 0..held /\ pays >= held
  BY <1>2, CoverReaches
<1>4. /\ pays \in Nat /\ CoverPays(book, "yes", 0) = 0
      /\ PreviewBet(book, "yes", c).fillableStake = c
  BY <1>2, <1>3, CoverCoversStake
<1>5. StruckAsShown(book, PreviewBet(book, "yes", c))
  <2>1. WithRoom(book) /\ c \in Nat
    BY <1>3 DEF PricedFor
  <2>. QED  BY <2>1, ShownIsStruck
<1>. HIDE DEF c
<1>6. PreviewBet(book, "yes", c).totalPayout = pays
  BY DEF CoverPays
<1>. HIDE DEF pays
<1>7. /\ c < held /\ offered.coverStake = c /\ offered.value = held - c
  BY <1>2, <1>3, <1>4 DEF CoveredBy, Least
<1>. DEFINE after == [yes |-> pays, no |-> held]
<1>8. CashedOut(after) /\ LockedIn(after) = held
  BY <1>2, <1>3, <1>4 DEF CashedOut, LockedIn, Least
<1>9. ASSUME NEW shown \in 1..held,
             NEW sent \in {PlaceCashOut(book, "yes", held, shown)} \ {NoOffer}
      PROVE  /\ pays >= sent.minPayout
             /\ (LockedIn(after) - sent.coverStake) * 100 >= shown * 97
  <2>1. /\ ~(offered.value * 100 < shown * 97)
        /\ sent = [coverStake |-> offered.coverStake, minPayout |-> (held * 995) \div 1000]
    BY <1>1, <1>9 DEF PlaceCashOut, ValueTolerancePct
  <2>2. sent.coverStake = c /\ sent.minPayout = (held * 995) \div 1000
    BY <1>7, <2>1
  <2>3. (held * 995) \div 1000 <= held /\ (held * 995) \div 1000 \in Nat
    OBVIOUS
  <2>. DEFINE least == (held * 995) \div 1000
  <2>4. sent.minPayout = least
    BY <2>2
  <2>5. pays >= least
    <3>1. least <= held /\ least \in Nat
      BY <2>3
    <3>. HIDE DEF least
    <3>. QED  BY <1>3, <1>4, <3>1
  <2>6. (held - c) * 100 >= shown * 97
    BY <1>3, <1>7, <2>1
  <2>. HIDE DEF least, after
  <2>. QED  BY <1>8, <2>2, <2>4, <2>5, <2>6
<1>10. LockedIn(after) - offered.coverStake >= offered.value /\ offered.value > 0
  BY <1>3, <1>7, <1>8
<1>. HIDE DEF after
<1>. QED  BY <1>4, <1>5, <1>6, <1>7, <1>8, <1>9, <1>10 DEF after

\* A row of quotes is a sequence of them.
LEMMA RowOfQuotes ==
    ASSUME NEW n \in Nat, NEW quotes, quotes = [i \in 1..n |-> quotes[i]]
    PROVE  quotes \in Seq(Range(quotes))
<1>1. DOMAIN quotes = 1..n
  OBVIOUS
<1>2. \A i \in 1..n : quotes[i] \in Range(quotes)
  BY <1>1 DEF Range
<1>3. quotes \in [1..n -> Range(quotes)]
  BY <1>2, Zenon
<1>. QED  BY <1>3

\* What a fan is shown of a bet or a cash-out is what is struck: the quotes a
\* preview filled, sent alone, are filled alike, and a cash-out locks in what it
\* shows, whichever side wins (bet-preview.ts, cash-out.ts).
THEOREM PreviewIsAlwaysTheBet == Spec => []PreviewIsTheBet
<1>1. ASSUME AskedOK PROVE PreviewIsTheBet
  <2>1. ASSUME question.kind = "preview"
        PROVE  \A quotes :
                  quotes = [i \in DOMAIN question.caps |->
                              [maxStake |-> question.caps[i],
                               probYesBps |-> BPS \div 2, probNoBps |-> BPS \div 2]]
                  => StruckAsShown(quotes, PreviewBet(quotes, "yes", question.stake))
    <3>1. question \in PreviewQuestions
      BY <1>1, <2>1, KindOfQuestion
    <3>2. PICK n \in 1..3 : question \in [kind : {"preview"}, stake : Amounts,
                                          caps : [1..n -> Capacities \ {0}]]
      BY <3>1 DEF PreviewQuestions
    <3>3. question.stake \in Nat /\ question.caps \in [1..n -> Nat \ {0}]
      BY <3>2, PricingConstants
    <3>. SUFFICES ASSUME NEW quotes,
                         quotes = [i \in DOMAIN question.caps |->
                              [maxStake |-> question.caps[i],
                               probYesBps |-> BPS \div 2, probNoBps |-> BPS \div 2]]
                  PROVE  WithRoom(quotes)
      BY <3>3, ShownIsStruck
    <3>4. /\ DOMAIN quotes = 1..n /\ \A i \in 1..n : quotes[i].maxStake \in Nat \ {0}
          /\ quotes = [i \in 1..n |-> quotes[i]]
      BY <3>3
    <3>5. quotes \in Seq(Range(quotes))
      BY <3>4, RowOfQuotes, n \in Nat, Zenon
    <3>. QED  BY <3>4, <3>5 DEF WithRoom
  <2>2. ASSUME question.kind = "cover" PROVE CashOutEven(question.book, question.held)
    <3>1. question \in CoverQuestions
      BY <1>1, <2>2, KindOfQuestion
    <3>. DEFINE book == question.book
    <3>2. PICK n \in 1..3 :
             /\ question.held \in Amounts
             /\ book \in [1..n -> [maxStake : Capacities \ {0}, probYesBps : Prices]]
      BY <3>1 DEF CoverQuestions
    <3>3. /\ DOMAIN book = 1..n /\ book = [i \in 1..n |-> book[i]]
          /\ \A i \in 1..n : book[i].maxStake \in Nat \ {0} /\ book[i].probYesBps \in 1..BPS
      BY <3>2, PricingConstants
    <3>4. question.held \in Nat
      BY <3>2, PricingConstants
    <3>. HIDE DEF book
    <3>5. PricedFor(book, "yes")
      BY <3>3, RowOfQuotes DEF PricedFor, WithRoom, SidePrice
    <3>6. CashOutEven(book, question.held)
      BY <3>4, <3>5, CashOutIsEven
    <3>. QED  BY <3>6 DEF book
  <2>. QED  BY <2>1, <2>2 DEF PreviewIsTheBet
<1>2. AskedOK => PreviewIsTheBet
  BY <1>1
<1>. QED  BY <1>2, AskedAlways, PTL

-----------------------------------------------------------------------------
(* A pause before an event *)

\* At a second when an agent is neither paused nor told that the window is
\* decided, no bet on the market is one that its settlement would void: the
\* first deciding event is more than the delay away (inDanger, liveWindow,
\* resolveMarket).
LEMMA PauseLasts ==
    ASSUME NEW events \in Seq(NormalizedEvents), NEW market, NEW at \in Int,
           ~InDanger(events, market.template, at),
           ~LiveWindow(events, market.template, market.windowStart, market.windowEnd,
                       at, AnyTeam).decided
    PROVE  ~TooLate(Resolution(events, market), at)
<1>. DEFINE template == market.template
            start == market.windowStart
            end == market.windowEnd
            hits == {i \in DOMAIN events : /\ InWindow(events[i], start, end)
                                           /\ Qualifies(events[i], template, AnyTeam)}
            clocks == {events[i].matchClockSec : i \in hits}
            first == CHOOSE c \in clocks : \A d \in clocks : c <= d
<1>1. \A i \in DOMAIN events : events[i].matchClockSec \in Nat
  <2>1. \A i \in DOMAIN events : events[i] \in NormalizedEvents
    OBVIOUS
  <2>. QED  BY <2>1 DEF NormalizedEvents
<1>2. SUFFICES ASSUME hits # {}, at + DelaySec > first PROVE FALSE
  BY DEF TooLate, Resolution, ResolveMarket
<1>3. clocks \in SUBSET Nat /\ clocks # {}
  BY <1>1, <1>2
<1>4. first \in clocks
  <2>1. \E c \in clocks : \A d \in clocks : c <= d
    BY <1>3, LeastNat
  <2>. QED  BY <2>1
<1>5. PICK i \in hits : first = events[i].matchClockSec
  BY <1>4
<1>. HIDE DEF first
<1>6. /\ i \in DOMAIN events /\ InWindow(events[i], start, end)
      /\ Qualifies(events[i], template, AnyTeam)
      /\ events[i].type \in QualifyingEvents[template]
  BY <1>5 DEF Qualifies
<1>7. events[i].matchClockSec \in Nat /\ at + 8 > events[i].matchClockSec
  BY <1>1, <1>2, <1>5, <1>6 DEF DelaySec
<1>8. CASE events[i].matchClockSec > at - DangerCooldownRealSec
  <2>1. events[i].matchClockSec <= at + DangerLeadRealSec
    BY <1>7 DEF DangerLeadRealSec
  <2>. QED  BY <1>6, <1>8, <2>1 DEF InDanger
<1>9. CASE ~(events[i].matchClockSec > at - DangerCooldownRealSec)
  <2>1. events[i].matchClockSec <= at
    BY <1>7, <1>9 DEF DangerCooldownRealSec
  <2>. QED  BY <1>6, <2>1 DEF LiveWindow
<1>. QED  BY <1>8, <1>9

\* When a bet would be voided, no agent has a price: the book is empty.
LEMMA NoBookWhenVoided ==
    ASSUME NEW s, s.match \in DOMAIN SimMatches, NEW m, NEW at \in Int
    PROVE  /\ BookAt(s, m, at) \in Seq(Range(BookAt(s, m, at)))
           /\ Voids(Resolution(Events(s), Markets(s)[m]), at) => BookAt(s, m, at) = <<>>
<1>. DEFINE market == Markets(s)[m]
            price(a) == PriceAt(Events(s), market, SimAgents[a],
                                s.memories[a].adj[market.template], at)
            quoted(a) == [agent |-> a, probYesBps |-> price(a).probYesBps,
                          probNoBps |-> price(a).probNoBps,
                          maxStake |-> IF price(a) = NoPrice THEN 0
                                       ELSE QuoteMaxStake(QuotableBudget(s.vaults[a], m),
                                                price(a).probYesBps, price(a).probNoBps,
                                                SimAgents[a].maxStake)]
            quotes == [a \in DOMAIN SimAgents |-> quoted(a)]
            priced == {q \in Range(quotes) : q.probYesBps > 0}
<1>1. Events(s) \in Seq(NormalizedEvents)
  BY SimAssumption DEF Events
<1>2. ASSUME Voids(Resolution(Events(s), market), at), NEW a \in DOMAIN SimAgents
      PROVE  price(a) = NoPrice
  <2>1. \/ InDanger(Events(s), market.template, at)
        \/ LiveWindow(Events(s), market.template, market.windowStart, market.windowEnd,
                      at, AnyTeam).decided
    BY <1>1, <1>2, PauseLasts DEF Voids
  <2>. QED  BY <2>1 DEF PriceAt
<1>. HIDE DEF price
<1>3. ASSUME Voids(Resolution(Events(s), market), at), NEW a \in DOMAIN SimAgents
      PROVE  quoted(a).probYesBps = 0
  BY <1>2, <1>3 DEF NoPrice
<1>. HIDE DEF quoted
<1>4. ASSUME Voids(Resolution(Events(s), market), at) PROVE priced = {}
  <2>1. \A q \in Range(quotes) : q.probYesBps = 0
    BY <1>3, <1>4 DEF Range
  <2>. QED  BY <2>1
<1>5. quotes \in Seq(Range(quotes))
  <2>1. Len(SimAgents) \in Nat /\ DOMAIN SimAgents = 1..Len(SimAgents)
    BY SimAssumption
  <2>. QED  BY <2>1 DEF Range
<1>6. BookAt(s, m, at) = Among(quotes, priced)
  BY DEF BookAt, quoted, price
<1>. HIDE DEF quotes, priced
<1>. DEFINE book == Among(quotes, priced)
<1>7. book \in Seq(Range(quotes)) /\ Range(book) = Range(quotes) \cap priced
  BY <1>5, AmongPicks
<1>. HIDE DEF book
<1>8. book \in Seq(Range(book))
  BY <1>7 DEF Range
<1>9. ASSUME Voids(Resolution(Events(s), market), at) PROVE book = <<>>
  <2>1. Range(book) = {}
    BY <1>4, <1>7, <1>9
  <2>2. DOMAIN book = {}
    BY <2>1 DEF Range
  <2>. QED  BY <1>7, <2>2
<1>. QED  BY <1>6, <1>8, <1>9 DEF book

\* What is taken of a bet is a sequence, and nothing when nothing is quoted.
LEMMA FillsAreASequence ==
    ASSUME NEW s, NEW n \in Nat, NEW quotes, DOMAIN quotes = 1..n, NEW arrival
    PROVE  /\ FillsOf(s, quotes, arrival) \in Seq(Range(FillsOf(s, quotes, arrival)))
           /\ n = 0 => FillsOf(s, quotes, arrival) = <<>>
<1>. DEFINE caps == [r \in DOMAIN quotes |->
                        Least(quotes[r].maxStake,
                              MaxStakeOf(QuotableBudget(s.vaults[quotes[r].agent], s.market),
                                         SidePrice(quotes[r], arrival.side)))]
            stake == Least(arrival.stake, SumTo(caps, Len(caps)))
            split == LadderAllocate(stake, caps, SubSeq(LadderFor(3), 1, Len(quotes))).stakes
            rung(r) == [agent |-> quotes[r].agent, stake |-> split[r],
                        liability |-> LiabilityFor(split[r],
                                                   SidePrice(quotes[r], arrival.side))]
            taken == [r \in DOMAIN quotes |-> rung(r)]
            filled == {f \in Range(taken) : f.stake > 0}
            fills == Among(taken, filled)
<1>1. FillsOf(s, quotes, arrival) = fills
  BY DEF FillsOf, FillsFrom
<1>. HIDE DEF rung
<1>2. taken \in Seq(Range(taken)) /\ DOMAIN taken = 1..n
  BY DEF Range
<1>. HIDE DEF taken, filled
<1>3. fills \in Seq(Range(taken)) /\ Range(fills) = Range(taken) \cap filled
  BY <1>2, AmongPicks
<1>. HIDE DEF fills
<1>4. fills \in Seq(Range(fills))
  BY <1>3 DEF Range
<1>5. ASSUME n = 0 PROVE fills = <<>>
  <2>1. Range(fills) = {}
    BY <1>2, <1>3, <1>5 DEF Range
  <2>2. DOMAIN fills = {}
    BY <2>1 DEF Range
  <2>. QED  BY <1>3, <2>2
<1>. QED  BY <1>1, <1>4, <1>5

\* And nothing when the bet would be voided.
LEMMA NothingTakenWhenVoided ==
    ASSUME NEW s, s.match \in DOMAIN SimMatches, NEW arrival, arrival.at \in Int
    PROVE  /\ Fills(s, arrival) \in Seq(Range(Fills(s, arrival)))
           /\ Voids(Resolution(Events(s), Markets(s)[s.market]), arrival.at)
                 => Fills(s, arrival) = <<>>
<1>. DEFINE book == BookAt(s, s.market, arrival.at)
            n == Least(3, Len(book))
            quotes == Ranked(book, arrival.side)
<1>1. n \in Nat /\ (Len(book) = 0 => n = 0)
  <2>1. Len(book) \in Nat
    <3>1. book \in Seq(Range(book))
      BY NoBookWhenVoided
    <3>. QED  BY <3>1
  <2>. HIDE DEF book
  <2>. QED  BY <2>1 DEF Least
<1>2. DOMAIN quotes = 1..n
  <2>. HIDE DEF book
  <2>. QED  BY DEF Ranked
<1>3. Fills(s, arrival) = FillsOf(s, quotes, arrival)
  BY DEF Fills
<1>4. Voids(Resolution(Events(s), Markets(s)[s.market]), arrival.at) => Len(book) = 0
  BY NoBookWhenVoided
<1>. HIDE DEF quotes, n, book
<1>. QED  BY <1>1, <1>2, <1>3, <1>4, FillsAreASequence

-----------------------------------------------------------------------------
(* The bettors *)

\* Whoever comes, comes at some second of the match.
LEMMA BettorsComeInTime ==
    ASSUME NEW s, NEW m
    PROVE  \A b \in Casuals(s, m) \cup Sharps(s, m) \cup Snipers(s, m) : b.at \in Int
<1>1. Seconds(Markets(s)[m]) \in SUBSET Int
  BY DEF Seconds
<1>2. Playing(Markets(s)[m]) \in SUBSET Int
  BY <1>1 DEF Playing
<1>3. \A b \in Casuals(s, m) : b.at \in Int
  BY <1>2 DEF Casuals
<1>4. \A b \in Sharps(s, m) : b.at \in Int
  BY <1>2 DEF Sharps
<1>5. \A b \in Snipers(s, m) : b.at \in Int
  BY <1>1 DEF Snipers
<1>. QED  BY <1>3, <1>4, <1>5

\* They come one after the other.
LEMMA TheyComeInLine ==
    ASSUME NEW s, NEW m, NEW crowd \in Crowds(s, m), NEW arrivals \in InOrder(crowd)
    PROVE  /\ arrivals \in Seq(Range(arrivals))
           /\ \A b \in Range(arrivals) : b.at \in Int
<1>. DEFINE bettors == Casuals(s, m) \cup Sharps(s, m) \cup Snipers(s, m)
<1>1. crowd \in {{}} \cup {{b, c} : b, c \in bettors}
  BY DEF Crowds
<1>2. Cardinality(crowd) \in Nat
  <2>1. CASE crowd = {}
    BY <2>1, FS_EmptySet
  <2>2. CASE crowd # {}
    <3>. HIDE DEF bettors
    <3>1. PICK b \in bettors, c \in bettors : crowd = {b, c}
      BY <1>1, <2>2
    <3>2. IsFiniteSet({b, c})
      <4>1. IsFiniteSet({b})
        BY FS_Singleton
      <4>2. IsFiniteSet({b} \cup {c})
        BY <4>1, FS_AddElement
      <4>3. {b} \cup {c} = {b, c}
        OBVIOUS
      <4>. QED  BY <4>2, <4>3
    <3>. QED  BY <3>1, <3>2, FS_CardinalityType
  <2>. QED  BY <2>1, <2>2
<1>3. arrivals \in [1..Cardinality(crowd) -> crowd] /\ Range(arrivals) = crowd
  BY DEF InOrder
<1>4. \A b \in crowd : b.at \in Int
  <2>1. \A b \in bettors : b.at \in Int
    BY BettorsComeInTime
  <2>. HIDE DEF bettors
  <2>. QED  BY <1>1, <2>1
<1>. QED  BY <1>2, <1>3, <1>4

-----------------------------------------------------------------------------
(* A run of the matches *)

SimFields == {"match", "memories", "arrived", "market", "arrivals", "lastLearnAt",
              "nextBetId", "vaults", "toLearn", "bets", "thrown"}
InRun == DOMAIN sim = SimFields /\ sim.match \in DOMAIN SimMatches
Queued(arrivals) == /\ arrivals \in Seq(Range(arrivals))
                    /\ \A b \in Range(arrivals) : b.at \in Int
NotVoided(bets) == /\ bets \in Seq(Range(bets))
                   /\ \A b \in Range(bets) : b.outcome # "voided"
RowCovered ==
    holds # NoRow =>
        \A x \in holds.used :
            ~TooLate(Resolution(SimMatches[holds.match], MarketsOf[holds.match][x.market]),
                     x.at + LockHoldSec)
SimInv == InRun /\ Queued(sim.arrivals) /\ NotVoided(sim.bets) /\ RowCovered

\* A run begins, and a match begins, with no bettor and no bet.
LEMMA MatchBegins ==
    ASSUME NEW match \in DOMAIN SimMatches, NEW memories, NEW arrived
    PROVE  LET s == NewMatch(match, memories, arrived)
           IN  /\ DOMAIN s = SimFields /\ s.match = match
               /\ Queued(s.arrivals) /\ NotVoided(s.bets)
<1>. DEFINE s == NewMatch(match, memories, arrived)
<1>1. /\ DOMAIN s = SimFields /\ s.match = match /\ s.arrivals = <<>> /\ s.bets = <<>>
  BY DEF NewMatch, SimFields
<1>2. Range(<<>>) = {} /\ <<>> \in Seq({})
  BY DEF Range
<1>. HIDE DEF s
<1>3. Queued(s.arrivals) /\ NotVoided(s.bets)
  BY <1>1, <1>2 DEF Queued, NotVoided
<1>. QED  BY <1>1, <1>3 DEF s

LEMMA SimBegins == SimInit => SimInv
<1>. SUFFICES ASSUME SimInit PROVE SimInv
  OBVIOUS
<1>1. 1 \in DOMAIN SimMatches
  BY SimAssumption
<1>2. sim = NewMatch(1, [a \in DOMAIN SimAgents |-> BlankMemory], 0)
  BY DEF SimInit
<1>3. InRun /\ Queued(sim.arrivals) /\ NotVoided(sim.bets)
  BY <1>1, <1>2, MatchBegins DEF InRun
<1>. QED  BY <1>3 DEF SimInv, SimInit, RowCovered

LEMMA OpenMarketKeeps == SimInv /\ OpenMarket => SimInv'
<1>. SUFFICES ASSUME SimInv, OpenMarket PROVE SimInv'
  OBVIOUS
<1>1. PICK m \in DOMAIN Markets(sim) \cap {sim.market + 1} :
         \E s \in {Taught(sim, Markets(sim)[m].windowStart)} :
             \E crowd \in Crowds(s, m) :
                 \E arrivals \in InOrder(crowd) :
                     sim' = [s EXCEPT !.market = m, !.arrived = @ + Len(arrivals),
                                      !.arrivals = arrivals]
  BY DEF OpenMarket
<1>. DEFINE s == Taught(sim, Markets(sim)[m].windowStart)
<1>8. PICK crowd \in Crowds(s, m) :
         \E arrivals \in InOrder(crowd) :
             sim' = [s EXCEPT !.market = m, !.arrived = @ + Len(arrivals),
                              !.arrivals = arrivals]
  BY <1>1
<1>2. PICK arrivals \in InOrder(crowd) :
         sim' = [s EXCEPT !.market = m, !.arrived = @ + Len(arrivals), !.arrivals = arrivals]
  BY <1>8
<1>3. DOMAIN s = SimFields /\ s.match = sim.match /\ s.bets = sim.bets
  BY DEF SimInv, InRun, SimFields, Taught
<1>. HIDE DEF s
<1>4. /\ DOMAIN sim' = SimFields /\ sim'.match = sim.match /\ sim'.bets = sim.bets
      /\ sim'.arrivals = arrivals
  BY <1>2, <1>3 DEF SimFields
<1>5. Queued(arrivals)
  BY <1>2, TheyComeInLine DEF Queued
<1>6. InRun' /\ Queued(sim.arrivals)' /\ NotVoided(sim.bets)'
  BY <1>4, <1>5 DEF SimInv, InRun, Queued, NotVoided
<1>7. RowCovered'
  BY DEF OpenMarket, SimInv, RowCovered
<1>. QED  BY <1>6, <1>7 DEF SimInv

\* Of a sequence that grows by another.
LEMMA NotVoidedGrows ==
    ASSUME NEW s, NEW t, NotVoided(s), NotVoided(t)
    PROVE  NotVoided(s \o t)
<1>. DEFINE T == Range(s) \cup Range(t)
            u == s \o t
<1>1. s \in Seq(T) /\ t \in Seq(T)
  BY DEF NotVoided, Range
<1>2. u \in Seq(T)
  BY <1>1
<1>. HIDE DEF u, T
<1>3. u \in Seq(Range(u)) /\ Range(u) \subseteq T
  BY <1>2 DEF Range
<1>. QED  BY <1>3 DEF NotVoided, u, T

LEMMA ArriveKeeps == SimInv /\ Arrive => SimInv'
<1>. SUFFICES ASSUME SimInv, Arrive PROVE SimInv'
  OBVIOUS
<1>. DEFINE arrival == Head(sim.arrivals)
            market == Markets(sim)[sim.market]
            fills == Fills(sim, arrival)
            resolution == Resolution(Events(sim), market)
            outcome == OutcomeOf(resolution, arrival.side, Voids(resolution, arrival.at))
            bets == [i \in DOMAIN fills |->
                       [agent |-> fills[i].agent, stake |-> fills[i].stake,
                        outcome |-> outcome,
                        payout |-> CASE outcome = "voided" -> fills[i].stake
                                     [] outcome = "won" -> fills[i].stake + fills[i].liability
                                     [] OTHER -> 0]]
<1>1. sim.arrivals # <<>> /\ Struck(market, fills, outcome)
  BY DEF Arrive
<1>2. arrival \in Range(sim.arrivals) /\ arrival.at \in Int
  BY <1>1 DEF SimInv, Queued, Range
<1>3. /\ fills \in Seq(Range(fills))
      /\ Voids(resolution, arrival.at) => fills = <<>>
  BY <1>2, NothingTakenWhenVoided DEF SimInv, InRun
<1>4. outcome = "voided" => Voids(resolution, arrival.at)
  BY DEF OutcomeOf
<1>. HIDE DEF fills, resolution, outcome, arrival, market
<1>5. NotVoided(bets)
  <2>1. Len(fills) \in Nat /\ DOMAIN fills = 1..Len(fills)
    BY <1>3
  <2>2. bets \in Seq(Range(bets))
    BY <2>1 DEF Range
  <2>3. \A b \in Range(bets) : b.outcome = outcome
    BY DEF Range
  <2>4. CASE outcome = "voided"
    <3>1. DOMAIN fills = {}
      BY <1>3, <1>4, <2>4
    <3>2. Range(bets) = {}
      BY <3>1 DEF Range
    <3>. QED  BY <2>2, <3>2 DEF NotVoided
  <2>. QED  BY <2>2, <2>3, <2>4 DEF NotVoided
<1>. HIDE DEF bets
<1>6. /\ DOMAIN sim' = SimFields /\ sim'.match = sim.match
      /\ sim'.bets = sim.bets \/ sim'.bets = sim.bets \o bets
      /\ sim'.arrivals = <<>> \/ sim'.arrivals = Tail(sim.arrivals)
  BY <1>1 DEF Struck, bets, SimInv, InRun, SimFields
<1>7. NotVoided(sim.bets)'
  <2>1. NotVoided(sim.bets \o bets)
    BY <1>5, NotVoidedGrows DEF SimInv
  <2>. QED  BY <1>6, <2>1 DEF SimInv, NotVoided
<1>8. Queued(sim.arrivals)'
  <2>1. Queued(<<>>)
    BY DEF Queued, Range
  <2>2. Queued(Tail(sim.arrivals))
    <3>. DEFINE q == sim.arrivals
                tail == Tail(q)
    <3>1. q \in Seq(Range(q)) /\ q # <<>> /\ \A b \in Range(q) : b.at \in Int
      BY <1>1 DEF SimInv, Queued
    <3>. HIDE DEF q
    <3>2. tail \in Seq(Range(q))
      BY <3>1
    <3>. HIDE DEF tail
    <3>3. tail \in Seq(Range(tail)) /\ Range(tail) \subseteq Range(q)
      BY <3>2 DEF Range
    <3>4. Queued(tail)
      BY <3>1, <3>3 DEF Queued
    <3>. QED  BY <3>4 DEF tail, q
  <2>. QED  BY <1>6, <2>1, <2>2 DEF Queued
<1>9. InRun' /\ RowCovered'
  BY <1>6 DEF SimInv, InRun, RowCovered, Arrive
<1>. QED  BY <1>7, <1>8, <1>9 DEF SimInv

LEMMA NextMatchKeeps == SimInv /\ NextMatch => SimInv'
<1>. SUFFICES ASSUME SimInv, NextMatch PROVE SimInv'
  OBVIOUS
<1>1. sim.match + 1 \in DOMAIN SimMatches
  BY SimAssumption DEF SimInv, InRun, NextMatch
<1>2. sim' = NewMatch(sim.match + 1, sim.memories, sim.arrived)
  BY DEF NextMatch
<1>3. (InRun /\ Queued(sim.arrivals) /\ NotVoided(sim.bets))'
  BY <1>1, <1>2, MatchBegins DEF InRun, Queued, NotVoided
<1>. QED  BY <1>3 DEF SimInv, NextMatch, RowCovered

\* A hold that is used is used while the market is neither paused nor decided.
LEMMA SimulateHoldsKeeps == SimInv /\ SimulateHolds => SimInv'
<1>. SUFFICES ASSUME SimInv, SimulateHolds PROVE SimInv'
  OBVIOUS
<1>1. PICK match \in DOMAIN SimMatches, agent \in Range(SimAgents),
           population \in {"Patient", "Casual"}, side \in Sides :
        /\ sim' = sim /\ holds'.match = match
        /\ holds'.used = HoldsUsed(match, population, side, HoldsSold(match, agent, side))
  BY DEF SimulateHolds
<1>2. ASSUME NEW x \in holds'.used
      PROVE  ~TooLate(Resolution(SimMatches[match], MarketsOf[match][x.market]),
                      x.at + LockHoldSec)
  <2>1. x \in HoldsSold(match, agent, side)
    BY <1>1, <1>2 DEF HoldsUsed
  <2>2. x.at \in Int
    BY <2>1 DEF HoldsSold, Seconds
  <2>3. UsesHold(match, MarketsOf[match][x.market], population, side, x.at + LockHoldSec)
    BY <1>1, <1>2 DEF HoldsUsed
  <2>4. x.at + LockHoldSec \in Int
    BY <2>2 DEF LockHoldSec
  <2>5. SimMatches[match] \in Seq(NormalizedEvents)
    BY SimAssumption
  <2>. QED  BY <2>3, <2>4, <2>5, PauseLasts DEF UsesHold
<1>. QED  BY <1>1, <1>2 DEF SimInv, InRun, Queued, NotVoided, RowCovered

\* No bet that an agent fills, of a bettor who comes whenever, sharp or
\* knowing what comes, and no hold that is used, is one that its settlement
\* voids: the pause before an event outlasts the delay (inDanger, runMatch,
\* simulateHolds).
THEOREM PauseAlwaysCoversDelay == SimSpec => []PauseCoversDelay
<1>1. SimInv /\ [SimNext]_simVars => SimInv'
  <2>1. SimInv /\ UNCHANGED simVars => SimInv'
    BY DEF SimInv, InRun, Queued, NotVoided, RowCovered, simVars
  <2>. QED  BY <2>1, OpenMarketKeeps, ArriveKeeps, NextMatchKeeps, SimulateHoldsKeeps
            DEF SimNext
<1>2. SimInv => PauseCoversDelay
  BY DEF SimInv, NotVoided, RowCovered, PauseCoversDelay
<1>. QED  BY <1>1, <1>2, SimBegins, PTL DEF SimSpec
-----------------------------------------------------------------------------
(* The markets of a match *)

SimMarkets == [template : DOMAIN TemplateNames, windowStart : Int, windowEnd : Int]

\* The latest of the match clocks is a match clock, or 0.
LEMMA MatchEndType ==
    ASSUME NEW events \in Seq(NormalizedEvents)
    PROVE  MatchEnd(events) \in Nat
<1>. DEFINE n == Len(events)
            clock(i) == events[i].matchClockSec
            Eq(f) == f = [i \in 0..Len(events) |->
                             IF i = 0 THEN 0 ELSE Latest(f[i - 1], clock(i))]
            step == [i \in 1..n |-> [x \in Nat |-> Latest(x, clock(i))]]
<1>1. n \in Nat /\ \A i \in 1..n : clock(i) \in Nat
  <2>1. \A i \in 1..n : events[i] \in NormalizedEvents
    OBVIOUS
  <2>. QED  BY <2>1 DEF NormalizedEvents
<1>. HIDE DEF clock
<1>2. step \in [1..n -> [Nat -> Nat]]
  BY <1>1 DEF Latest
<1>3. PICK f : Recurs(f, Nat, n, 0, step)
  <2>. HIDE DEF step
  <2>. QED  BY <1>1, <1>2, RecursionExists
<1>4. /\ f \in [0..n -> Nat] /\ f[0] = 0
      /\ \A i \in 1..n : f[i] = step[i][f[i - 1]]
  BY <1>3 DEF Recurs
<1>5. \A i \in 1..n : f[i] = Latest(f[i - 1], clock(i))
  <2>1. \A i \in 1..n : i - 1 \in 0..n
    BY <1>1
  <2>2. \A i \in 1..n : f[i - 1] \in Nat
    BY <1>4, <2>1
  <2>. QED  BY <1>4, <2>2
<1>6. Eq(f)
  <2>1. f = [i \in 0..n |-> f[i]] /\ \A i \in 0..n : i # 0 => i \in 1..n
    BY <1>4
  <2>. QED  BY <1>4, <1>5, <2>1
<1>. DEFINE latest == CHOOSE g : Eq(g)
<1>7. Eq(latest) /\ MatchEnd(events) = latest[n]
  <2>1. \E g : Eq(g)
    BY <1>6
  <2>. QED  BY <2>1 DEF MatchEnd, clock
<1>8. latest = f
  <2>. HIDE DEF latest
  <2>1. latest[0] = f[0]
    BY <1>1, <1>4, <1>7
  <2>2. OnSegment(latest, n) /\ OnSegment(f, n)
    BY <1>4, <1>7 DEF OnSegment
  <2>3. ASSUME NEW k \in 1..n, latest[k - 1] = f[k - 1] PROVE latest[k] = f[k]
    <3>0. k \in 0..Len(events) /\ k # 0
      BY <1>1
    <3>1. latest[k] = Latest(latest[k - 1], clock(k))
      BY <1>7, <3>0, Zenon
    <3>. QED  BY <1>5, <2>3, <3>1
  <2>. QED  BY <1>1, <2>1, <2>2, <2>3, RecursionUnique, Zenon
<1>. HIDE DEF latest
<1>. QED  BY <1>1, <1>4, <1>7, <1>8

\* Every market of the schedule is of a template, over whole seconds.
LEMMA ScheduleType ==
    ASSUME NEW matchEnd \in Nat
    PROVE  ScheduleMarkets(matchEnd) \in Seq(SimMarkets)
<1>. DEFINE n == (matchEnd + SimCadence - 1) \div SimCadence
            T == [turn : Nat, markets : Seq(SimMarkets)]
            none == [turn |-> 0, markets |-> <<>>]
            step == [i \in 1..n |-> [x \in T |-> ScheduleTick(x, i, matchEnd)]]
            Eq(f) == f = [i \in 0..n |->
                             IF i = 0 THEN none ELSE ScheduleTick(f[i - 1], i, matchEnd)]
<1>1. n \in Nat
  <2>1. SimCadence \in Nat \ {0}
    BY SimAssumption
  <2>2. matchEnd + SimCadence - 1 \in Nat
    BY <2>1
  <2>. DEFINE a == matchEnd + SimCadence - 1
  <2>. HIDE DEF a
  <2>3. Quotient(a, SimCadence) \in Nat
    BY <2>1, <2>2, QuotientBounds DEF a
  <2>. QED  BY <2>3 DEF Quotient, a
<1>2. ASSUME NEW i \in 1..n, NEW x \in T PROVE ScheduleTick(x, i, matchEnd) \in T
  <2>. DEFINE t == (i - 1) * SimCadence
              template == (x.turn % Len(TemplateNames)) + 1
              market == [template |-> template, windowStart |-> t,
                         windowEnd |-> t + TemplateWindowSec[template]]
  <2>1. x.turn \in Nat /\ x.markets \in Seq(SimMarkets)
    OBVIOUS
  <2>2. template \in DOMAIN TemplateNames /\ DOMAIN TemplateNames = 1..4
    <3>1. x.turn % 4 \in 0..3
      BY <2>1
    <3>2. Len(TemplateNames) = 4 /\ DOMAIN TemplateNames = 1..4
      BY DEF TemplateNames
    <3>. QED  BY <3>1, <3>2
  <2>. HIDE DEF template
  <2>3. TemplateWindowSec[template] \in Int
    BY <2>2 DEF TemplateWindowSec
  <2>4. t \in Int
    <3>1. SimCadence \in Int /\ i - 1 \in Int
      BY SimAssumption, <1>1
    <3>. QED  BY <3>1
  <2>. HIDE DEF t
  <2>5. market \in SimMarkets
    BY <2>2, <2>3, <2>4 DEF SimMarkets
  <2>. HIDE DEF market
  <2>6. Append(x.markets, market) \in Seq(SimMarkets)
    BY <2>1, <2>5
  <2>7. x.turn + 1 \in Nat
    BY <2>1
  <2>. QED  BY <2>1, <2>6, <2>7 DEF ScheduleTick, t, template, market
<1>3. step \in [1..n -> [T -> T]]
  <2>. HIDE DEF T, n
  <2>. QED  BY <1>2
<1>4. none \in T
  OBVIOUS
<1>. HIDE DEF none, n, T
<1>5. PICK f : Recurs(f, T, n, none, step)
  <2>. HIDE DEF step
  <2>. QED  BY <1>1, <1>3, <1>4, RecursionExists
<1>6. /\ f \in [0..n -> T] /\ f[0] = none
      /\ \A i \in 1..n : f[i] = step[i][f[i - 1]]
  BY <1>5 DEF Recurs
<1>7. \A i \in 1..n : f[i] = ScheduleTick(f[i - 1], i, matchEnd)
  <2>1. \A i \in 1..n : i - 1 \in 0..n
    BY <1>1
  <2>. QED  BY <1>6, <2>1
<1>8. Eq(f)
  <2>1. f = [i \in 0..n |-> f[i]] /\ \A i \in 0..n : i # 0 => i \in 1..n
    BY <1>1, <1>6
  <2>. QED  BY <1>6, <1>7, <2>1
<1>. DEFINE after == CHOOSE g : Eq(g)
<1>9. Eq(after) /\ ScheduleMarkets(matchEnd) = after[n].markets
  <2>1. \E g : Eq(g)
    BY <1>8
  <2>. QED  BY <2>1 DEF ScheduleMarkets, n, none
<1>10. after = f
  <2>. HIDE DEF after
  <2>1. after[0] = f[0]
    BY <1>1, <1>6, <1>9
  <2>2. OnSegment(after, n) /\ OnSegment(f, n)
    BY <1>6, <1>9 DEF OnSegment
  <2>3. ASSUME NEW k \in 1..n, after[k - 1] = f[k - 1] PROVE after[k] = f[k]
    <3>0. k \in 0..n /\ k # 0
      BY <1>1
    <3>1. after[k] = ScheduleTick(after[k - 1], k, matchEnd)
      BY <1>9, <3>0, Zenon
    <3>. QED  BY <1>7, <2>3, <3>1
  <2>. QED  BY <1>1, <2>1, <2>2, <2>3, RecursionUnique, Zenon
<1>. HIDE DEF after
<1>11. f[n] \in T
  BY <1>1, <1>6
<1>. QED  BY <1>9, <1>10, <1>11 DEF T

LEMMA MarketsType ==
    ASSUME NEW match \in DOMAIN SimMatches
    PROVE  MarketsOf[match] \in Seq(SimMarkets)
<1>1. SimMatches[match] \in Seq(NormalizedEvents)
  BY SimAssumption
<1>. QED  BY <1>1, MatchEndType, ScheduleType DEF MarketsOf

-----------------------------------------------------------------------------
(* The prices of the agents *)

\* Both sides of a quote are in bounds, whatever the fair price and the margin.
LEMMA QuoteInBounds ==
    ASSUME NEW fair \in Int, NEW margin \in Nat
    PROVE  /\ MarginedQuote(fair, margin).probYesBps \in 1..(BPS - 1)
           /\ MarginedQuote(fair, margin).probNoBps \in 1..(BPS - 1)
<1>. DEFINE half == (margin + 1) \div 2
            yes == Clamp(fair + half, MinProbBps, MaxProbBps)
            no == Clamp((BPS + margin) - yes, MinProbBps, MaxProbBps)
<1>1. half \in Int /\ BPS \in Nat /\ MinProbBps \in Nat /\ MaxProbBps \in Nat
      /\ 1 <= MinProbBps /\ MinProbBps < MaxProbBps /\ MaxProbBps < BPS
  BY PriceBounds
<1>. HIDE DEF half
<1>2. yes \in Int
  BY <1>1 DEF Clamp
<1>3. MarginedQuote(fair, margin) = [probYesBps |-> Clamp((BPS + margin) - no, MinProbBps, MaxProbBps),
                                     probNoBps |-> no]
  BY DEF MarginedQuote, half
<1>. HIDE DEF yes
<1>4. (BPS + margin) - yes \in Int
  BY <1>1, <1>2
<1>5. no \in Int /\ no \in MinProbBps..MaxProbBps
  BY <1>1, <1>4 DEF Clamp
<1>. HIDE DEF no
<1>6. Clamp((BPS + margin) - no, MinProbBps, MaxProbBps) \in MinProbBps..MaxProbBps
  BY <1>1, <1>5 DEF Clamp
<1>. QED  BY <1>1, <1>3, <1>5, <1>6

\* An agent has no price, or one in bounds on both sides.
LEMMA PriceAtBounds ==
    ASSUME WholeTables, NEW events \in Seq(NormalizedEvents), NEW market \in SimMarkets,
           NEW agent \in Strategies, NEW adj \in Int, NEW at \in Int
    PROVE  \/ PriceAt(events, market, agent, adj, at) = NoPrice
           \/ /\ PriceAt(events, market, agent, adj, at).probYesBps \in 1..(BPS - 1)
              /\ PriceAt(events, market, agent, adj, at).probNoBps \in 1..(BPS - 1)
<1>. DEFINE window == LiveWindow(events, market.template, market.windowStart,
                                 market.windowEnd, at, AnyTeam)
            recent == IF agent.lookback = 0 THEN 0
                      ELSE CountRecentQualifying(events, market.template, at,
                                                 agent.lookback, AnyTeam)
            state == [template |-> Templated[market.template], teamFilter |-> AnyTeam,
                      recent |-> recent, left |-> window.remainingSec,
                      reading |-> NoReading, adj |-> adj]
<1>1. /\ market.template \in 1..4 /\ market.windowStart \in Int /\ market.windowEnd \in Int
      /\ agent.lookback \in Nat /\ agent.margin \in Nat /\ Strategist(agent)
  BY DEF SimMarkets, TemplateNames, Strategies, Strategist
<1>2. window.remainingSec \in Nat
  BY <1>1 DEF LiveWindow
<1>3. recent \in Nat
  <2>. DEFINE counted == {i \in DOMAIN events :
                            /\ events[i].matchClockSec > at - agent.lookback
                            /\ events[i].matchClockSec <= at
                            /\ Qualifies(events[i], market.template, AnyTeam)}
  <2>1. IsFiniteSet(DOMAIN events)
    <3>1. Len(events) \in Nat /\ DOMAIN events = 1..Len(events)
      OBVIOUS
    <3>2. IsFiniteSet(1..Len(events))
      BY <3>1, FS_Interval
    <3>. QED  BY <3>1, <3>2
  <2>2. counted \in SUBSET DOMAIN events
    OBVIOUS
  <2>3. Cardinality(counted) \in Nat
    <3>. HIDE DEF counted
    <3>1. IsFiniteSet(counted)
      BY <2>1, <2>2, FS_Subset
    <3>. QED  BY <3>1, FS_CardinalityType
  <2>. QED  BY <2>3 DEF CountRecentQualifying
<1>4. Templated[market.template] \in Templates
  BY <1>1 DEF Templated, Templates, PerMatchTenths
<1>. HIDE DEF window, recent
<1>5. Knowing(state)
  BY <1>2, <1>3, <1>4 DEF Knowing, AnyTeam, NoReading
<1>6. FairYes(agent, state) \in Int
  <2>. HIDE DEF state
  <2>. QED  BY <1>1, <1>5, FairYesType
<1>7. EffectiveMarginBps(agent.margin, state.adj) \in Nat
  BY <1>1 DEF EffectiveMarginBps, MinMarginBpsOfStrategy
<1>. HIDE DEF state
<1>8. /\ Price(agent, state).probYesBps \in 1..(BPS - 1)
      /\ Price(agent, state).probNoBps \in 1..(BPS - 1)
  BY <1>6, <1>7, QuoteInBounds DEF Price
<1>. QED  BY <1>8 DEF PriceAt, window, recent, state

-----------------------------------------------------------------------------
(* The book of a market *)

\* No two members of a sequence are of the same agent.
OneEach(s) == \A i, j \in DOMAIN s : s[i].agent = s[j].agent => i = j

\* Picking keeps that.
LEMMA AmongOneEach ==
    ASSUME NEW T, NEW s \in Seq(T), NEW S, OneEach(s)
    PROVE  OneEach(Among(s, S))
<1>. DEFINE n == Len(s)
<1>1. PICK picked \in [0..Len(s) -> Seq(T)] :
         Among(s, S) = picked[Len(s)] /\ Picking(s, S, picked)
  BY AmongExists
<1>2. n \in Nat /\ DOMAIN s = 1..n
  OBVIOUS
<1>3. /\ picked[0] = <<>>
      /\ \A i \in 1..n : picked[i] = IF s[i] \in S THEN Append(picked[i - 1], s[i])
                                     ELSE picked[i - 1]
  BY <1>1 DEF Picking
<1>. DEFINE From(p, j) == \A i \in DOMAIN p : \E k \in 1..j : p[i] = s[k]
            Good == {j \in 0..n : OneEach(picked[j]) /\ From(picked[j], j)}
<1>4. 0 \in Good
  BY <1>2, <1>3 DEF OneEach
<1>5. ASSUME NEW j \in 0..n, j \in Good, j < n PROVE j + 1 \in Good
  <2>1. j + 1 \in 1..n /\ j + 1 \in 0..n /\ (j + 1) - 1 = j
    BY <1>2, <1>5
  <2>2. picked[j + 1] = IF s[j + 1] \in S THEN Append(picked[j], s[j + 1]) ELSE picked[j]
    BY <1>3, <2>1
  <2>. DEFINE p == picked[j]
              e == s[j + 1]
              q == Append(p, e)
  <2>3. p \in Seq(T) /\ e \in T
    BY <1>2, <2>1
  <2>4. OneEach(p) /\ From(p, j)
    BY <1>5
  <2>5. /\ Len(p) \in Nat /\ DOMAIN p = 1..Len(p) /\ DOMAIN q = 1..(Len(p) + 1)
        /\ q[Len(p) + 1] = e /\ \A i \in 1..Len(p) : q[i] = p[i]
    BY <2>3
  <2>. HIDE DEF p, q
  <2>6. \A i \in 1..Len(p) : p[i].agent # e.agent
    <3>1. SUFFICES ASSUME NEW i \in 1..Len(p), p[i].agent = e.agent PROVE FALSE
      OBVIOUS
    <3>2. PICK k \in 1..j : p[i] = s[k]
      BY <2>4, <2>5
    <3>3. k \in DOMAIN s /\ j + 1 \in DOMAIN s
      BY <1>2, <2>1
    <3>4. s[k].agent = s[j + 1].agent
      BY <3>1, <3>2
    <3>5. k = j + 1
      BY <3>3, <3>4 DEF OneEach
    <3>. QED  BY <3>2, <3>5
  <2>. HIDE DEF e
  <2>7. OneEach(q)
    <3>1. SUFFICES ASSUME NEW i \in DOMAIN q, NEW k \in DOMAIN q, q[i].agent = q[k].agent
                   PROVE  i = k
      BY DEF OneEach
    <3>2. CASE i \in 1..Len(p) /\ k \in 1..Len(p)
      BY <2>4, <2>5, <3>1, <3>2 DEF OneEach
    <3>3. CASE i = Len(p) + 1 /\ k \in 1..Len(p)
      BY <2>5, <2>6, <3>1, <3>3
    <3>4. CASE k = Len(p) + 1 /\ i \in 1..Len(p)
      BY <2>5, <2>6, <3>1, <3>4
    <3>. QED  BY <2>5, <3>1, <3>2, <3>3, <3>4
  <2>8. From(q, j + 1)
    <3>1. ASSUME NEW i \in DOMAIN q PROVE \E k \in 1..(j + 1) : q[i] = s[k]
      <4>1. CASE i \in 1..Len(p)
        <5>1. PICK k \in 1..j : p[i] = s[k]
          BY <2>4, <2>5, <4>1
        <5>2. k \in 1..(j + 1)
          OBVIOUS
        <5>. QED  BY <2>5, <4>1, <5>1, <5>2
      <4>2. CASE i = Len(p) + 1
        BY <2>1, <2>5, <4>2 DEF e
      <4>. QED  BY <2>5, <4>1, <4>2
    <3>. QED  BY <3>1
  <2>9. From(p, j + 1)
    <3>1. \A k \in 1..j : k \in 1..(j + 1)
      OBVIOUS
    <3>. QED  BY <2>4, <3>1
  <2>10. OneEach(picked[j + 1]) /\ From(picked[j + 1], j + 1)
    BY <2>2, <2>4, <2>7, <2>8, <2>9 DEF p, q, e
  <2>. QED  BY <2>1, <2>10
<1>6. Good = 0..n
  <2>1. Good \in SUBSET (0..n)
    OBVIOUS
  <2>. HIDE DEF Good, n
  <2>. QED  BY <1>2, <1>4, <1>5, <2>1, SetInduction
<1>. HIDE DEF From
<1>7. n \in Good
  BY <1>2, <1>6
<1>. QED  BY <1>1, <1>7

\* A quote of an agent, at prices in bounds.
InBook(q) ==
    /\ q.agent \in DOMAIN SimAgents /\ q.maxStake \in Nat
    /\ q.probYesBps \in 1..(BPS - 1) /\ q.probNoBps \in 1..(BPS - 1)
BookOK(book) ==
    /\ book \in Seq(Range(book)) /\ OneEach(book) /\ \A i \in DOMAIN book : InBook(book[i])

\* A vault with nothing locked.
Vaults(match) == [assets : Nat, locked : {0},
                  exposure : [DOMAIN MarketsOf[match] -> {0}]]
Memory(memory) ==
    DOMAIN memory.adj = DOMAIN TemplateNames
    /\ \A k \in DOMAIN TemplateNames : memory.adj[k] \in Int

\* What a vault can quote is what it has, and what it may lose on a market.
LEMMA BudgetFits ==
    ASSUME NEW match \in DOMAIN SimMatches, NEW v \in Vaults(match),
           NEW m \in DOMAIN MarketsOf[match]
    PROVE  /\ QuotableBudget(v, m) \in Nat /\ QuotableBudget(v, m) <= v.assets
           /\ \A liability \in 0..QuotableBudget(v, m) : ~LockRefused(v, m, liability)
<1>1. v.assets \in Nat /\ v.locked = 0 /\ v.exposure[m] = 0
  BY DEF Vaults
<1>2. FreeCapital(v) = v.assets
  BY <1>1 DEF FreeCapital
<1>3. ExposureCap(v) \in Nat
  <2>. DEFINE a == v.assets * MaxExposureBps
  <2>1. a \in Nat /\ BPS \in Nat \ {0}
    BY <1>1, SimAssumption DEF BPS
  <2>. HIDE DEF a
  <2>2. Quotient(a, BPS) \in Nat
    BY <2>1, QuotientBounds
  <2>. QED  BY <2>2 DEF ExposureCap, Quotient, a
<1>. DEFINE cap == ExposureCap(v)
            free == v.assets
            budget == QuotableBudget(v, m)
<1>4. budget = Least(free, IF cap > 0 THEN cap - 0 ELSE 0)
  BY <1>1, <1>2 DEF QuotableBudget
<1>. HIDE DEF cap, budget
<1>5. cap \in Nat /\ free \in Nat
  BY <1>1, <1>3 DEF cap
<1>. HIDE DEF free
<1>6. budget \in Nat /\ budget <= free /\ budget <= cap
  BY <1>4, <1>5 DEF Least
<1>7. ASSUME NEW liability \in 0..budget PROVE ~LockRefused(v, m, liability)
  <2>1. ~(liability > free) /\ ~(0 + liability > cap)
    BY <1>5, <1>6
  <2>. QED  BY <1>1, <1>2, <2>1 DEF LockRefused, cap, free
<1>. QED  BY <1>6, <1>7 DEF budget, free

\* The agents' quotes of a market.
LEMMA BookIsOK ==
    ASSUME WholeTables, NEW s, s.match \in DOMAIN SimMatches, NEW m \in DOMAIN Markets(s),
           NEW at \in Int,
           \A a \in DOMAIN SimAgents : s.vaults[a] \in Vaults(s.match) /\ Memory(s.memories[a])
    PROVE  BookOK(BookAt(s, m, at))
<1>. DEFINE market == Markets(s)[m]
            price(a) == PriceAt(Events(s), market, SimAgents[a],
                                s.memories[a].adj[market.template], at)
            stake(a) == IF price(a) = NoPrice THEN 0
                        ELSE QuoteMaxStake(QuotableBudget(s.vaults[a], m),
                                           price(a).probYesBps, price(a).probNoBps,
                                           SimAgents[a].maxStake)
            quoted(a) == [agent |-> a, probYesBps |-> price(a).probYesBps,
                          probNoBps |-> price(a).probNoBps, maxStake |-> stake(a)]
            quotes == [a \in DOMAIN SimAgents |-> quoted(a)]
            priced == {q \in Range(quotes) : q.probYesBps > 0}
<1>1. /\ Events(s) \in Seq(NormalizedEvents) /\ market \in SimMarkets
      /\ m \in DOMAIN MarketsOf[s.match]
  <2>1. MarketsOf[s.match] \in Seq(SimMarkets)
    BY MarketsType
  <2>. QED  BY <2>1, SimAssumption DEF Events, Markets
<1>2. Len(SimAgents) \in Nat /\ DOMAIN SimAgents = 1..Len(SimAgents)
      /\ \A a \in DOMAIN SimAgents : SimAgents[a] \in Strategies
  BY SimAssumption
<1>3. ASSUME NEW a \in DOMAIN SimAgents
      PROVE  \/ price(a) = NoPrice
             \/ price(a).probYesBps \in 1..(BPS - 1) /\ price(a).probNoBps \in 1..(BPS - 1)
  <2>1. s.memories[a].adj[market.template] \in Int
    BY <1>1 DEF Memory, SimMarkets
  <2>2. SimAgents[a] \in Strategies
    BY <1>2
  <2>. HIDE DEF market
  <2>. QED  BY <1>1, <2>1, <2>2, PriceAtBounds
<1>4. BookAt(s, m, at) = Among(quotes, priced)
  BY DEF BookAt
<1>. HIDE DEF price
<1>5. ASSUME NEW a \in DOMAIN SimAgents, quoted(a).probYesBps > 0
      PROVE  InBook(quoted(a))
  <2>1. price(a) # NoPrice
    BY <1>5 DEF NoPrice
  <2>2. price(a).probYesBps \in 1..(BPS - 1) /\ price(a).probNoBps \in 1..(BPS - 1)
    BY <1>3, <2>1
  <2>3. stake(a) \in Nat
    <3>. DEFINE budget == QuotableBudget(s.vaults[a], m)
                p == Least(price(a).probYesBps, price(a).probNoBps)
    <3>1. budget \in Nat
      BY <1>1, BudgetFits
    <3>2. p \in 1..(BPS - 1)
      BY <2>2 DEF Least
    <3>3. SimAgents[a].maxStake \in Nat
      <4>1. SimAgents[a] \in Strategies
        BY <1>2
      <4>. QED  BY <4>1 DEF Strategies
    <3>. HIDE DEF budget, p
    <3>4. BPS - p \in Nat \ {0} /\ p \in Nat
      BY <3>2 DEF BPS
    <3>5. MaxStakeOf(budget, p) \in Nat
      BY <3>1, <3>4, MulDivBounds DEF MaxStakeOf
    <3>6. Least(MaxStakeOf(budget, p), SimAgents[a].maxStake) \in Nat
      BY <3>3, <3>5 DEF Least
    <3>. QED  BY <2>1, <3>6 DEF QuoteMaxStake, budget, p
  <2>. HIDE DEF stake
  <2>. QED  BY <2>2, <2>3 DEF InBook
<1>. HIDE DEF quoted, stake
<1>6. quotes \in Seq(Range(quotes)) /\ DOMAIN quotes = DOMAIN SimAgents
  BY <1>2 DEF Range
<1>7. OneEach(quotes)
  BY <1>6 DEF OneEach, quoted
<1>8. ASSUME NEW q \in priced PROVE InBook(q)
  BY <1>5 DEF Range
<1>. HIDE DEF quotes, priced
<1>. DEFINE book == Among(quotes, priced)
<1>9. book \in Seq(Range(quotes)) /\ Range(book) = Range(quotes) \cap priced
  BY <1>6, AmongPicks
<1>10. OneEach(book)
  BY <1>6, <1>7, AmongOneEach
<1>. HIDE DEF book
<1>11. book \in Seq(Range(book)) /\ \A i \in DOMAIN book : InBook(book[i])
  BY <1>8, <1>9 DEF Range
<1>. QED  BY <1>4, <1>10, <1>11 DEF BookOK, book

\* What a side of a quote costs.
LEMMA SidePriceBounds ==
    ASSUME NEW q, InBook(q), NEW side
    PROVE  SidePrice(q, side) \in 1..(BPS - 1)
BY DEF InBook, SidePrice

\* The best three of the book are quotes of it, each of another agent: prices
\* that are equal are told apart by their place.
LEMMA RankedIsOK ==
    ASSUME NEW book, BookOK(book), NEW side
    PROVE  /\ Least(3, Len(book)) \in 0..3
           /\ DOMAIN Ranked(book, side) = 1..Least(3, Len(book))
           /\ \A r \in DOMAIN Ranked(book, side) : InBook(Ranked(book, side)[r])
           /\ OneEach(Ranked(book, side))
<1>. DEFINE n == Len(book)
            few == Least(3, Len(book))
            price(i) == SidePrice(book[i], side)
            Ahead(i, j) == price(i) < price(j) \/ (price(i) = price(j) /\ i < j)
            order == [r \in DOMAIN book |->
                        CHOOSE i \in DOMAIN book :
                            Cardinality({j \in DOMAIN book : Ahead(j, i)}) = r - 1]
            before == [i \in 1..n |-> {j \in DOMAIN book : Ahead(j, i)}]
            quotes == Ranked(book, side)
<1>1. n \in Nat /\ DOMAIN book = 1..n
  BY DEF BookOK
<1>2. few \in 0..3 /\ few <= n /\ \A r \in 1..few : r \in 1..n
  BY <1>1 DEF Least
<1>3. \A i \in 1..n : price(i) \in Int
  BY <1>1, SidePriceBounds DEF BookOK
<1>4. quotes = [r \in 1..few |-> book[order[r]]]
  BY DEF Ranked
<1>. HIDE DEF price, quotes, n
<1>5. ASSUME NEW r \in 1..n
      PROVE  order[r] \in 1..n /\ Cardinality(before[order[r]]) = r - 1
  <2>1. before \in [1..n -> SUBSET (1..n)]
    BY <1>1
  <2>2. \A k \in 1..n : k \notin before[k]
    BY <1>3
  <2>3. ASSUME NEW j \in 1..n, NEW k \in 1..n, j # k
        PROVE  \/ before[j] \subseteq before[k] /\ j \in before[k]
               \/ before[k] \subseteq before[j] /\ k \in before[j]
    <3>0. price(j) \in Int /\ price(k) \in Int /\ \A i \in 1..n : price(i) \in Int
      BY <1>3
    <3>1. CASE Ahead(j, k)
      <4>1. \A i \in 1..n : Ahead(i, j) => Ahead(i, k)
        BY <1>1, <3>0, <3>1
      <4>. QED  BY <1>1, <3>1, <4>1
    <3>2. CASE Ahead(k, j)
      <4>1. \A i \in 1..n : Ahead(i, k) => Ahead(i, j)
        BY <1>1, <3>0, <3>2
      <4>. QED  BY <1>1, <3>2, <4>1
    <3>3. Ahead(j, k) \/ Ahead(k, j)
      BY <2>3, <3>0, <1>1
    <3>. QED  BY <3>1, <3>2, <3>3
  <2>. HIDE DEF before
  <2>4. \E i \in 1..n : Cardinality(before[i]) = r - 1
    BY <1>1, <2>1, <2>2, <2>3, RankTaken
  <2>5. \A i \in 1..n : before[i] = {j \in DOMAIN book : Ahead(j, i)}
    BY DEF before
  <2>. HIDE DEF Ahead
  <2>6. \E i \in DOMAIN book : Cardinality({j \in DOMAIN book : Ahead(j, i)}) = r - 1
    BY <1>1, <2>4, <2>5
  <2>7. order[r] = CHOOSE i \in DOMAIN book :
                       Cardinality({j \in DOMAIN book : Ahead(j, i)}) = r - 1
    BY <1>1
  <2>. QED  BY <1>1, <2>5, <2>6, <2>7
<1>. HIDE DEF order, before, few
<1>6. \A r \in 1..few : order[r] \in 1..n /\ quotes[r] = book[order[r]]
  BY <1>2, <1>4, <1>5
<1>7. \A r \in 1..few : InBook(quotes[r])
  BY <1>1, <1>6 DEF BookOK
<1>8. ASSUME NEW r \in 1..few, NEW u \in 1..few, quotes[r].agent = quotes[u].agent
      PROVE  r = u
  <2>1. book[order[r]].agent = book[order[u]].agent
        /\ order[r] \in DOMAIN book /\ order[u] \in DOMAIN book
    BY <1>1, <1>6, <1>8
  <2>2. order[r] = order[u]
    BY <2>1 DEF BookOK, OneEach
  <2>3. r - 1 = u - 1
    BY <1>2, <1>5, <2>2
  <2>. QED  BY <1>2, <2>3
<1>9. DOMAIN quotes = 1..few
  BY <1>4
<1>. QED  BY <1>2, <1>7, <1>8, <1>9 DEF OneEach, few, n, quotes

\* What an agent takes of a bet fits what it can lose on the market.
FillFits(s, f) ==
    /\ f.agent \in DOMAIN SimAgents /\ f.stake \in Nat
    /\ f.liability \in 0..QuotableBudget(s.vaults[f.agent], s.market)

\* Its vaults have nothing locked, and it is at one of its markets.
InMarket(s) ==
    /\ s.match \in DOMAIN SimMatches /\ s.market \in DOMAIN Markets(s)
    /\ \A a \in DOMAIN SimAgents : s.vaults[a] \in Vaults(s.match)

\* Every fill fits its agent's vault, and no two are of the same agent: the
\* ladder keeps to its capacities, and these to the liability a stake needs.
LEMMA FillsFit ==
    ASSUME NEW s, InMarket(s), NEW n \in 0..3, NEW quotes, DOMAIN quotes = 1..n,
           quotes \in Seq(Range(quotes)), OneEach(quotes),
           \A r \in 1..n : InBook(quotes[r]),
           NEW arrival, arrival.stake \in Nat
    PROVE  /\ OneEach(FillsOf(s, quotes, arrival))
           /\ \A i \in DOMAIN FillsOf(s, quotes, arrival) :
                 FillFits(s, FillsOf(s, quotes, arrival)[i])
<1>. DEFINE budget(r) == QuotableBudget(s.vaults[quotes[r].agent], s.market)
            price(r) == SidePrice(quotes[r], arrival.side)
            most(r) == MaxStakeOf(budget(r), price(r))
            cap(r) == Least(quotes[r].maxStake, most(r))
            caps == [r \in DOMAIN quotes |-> cap(r)]
            stake == Least(arrival.stake, SumTo(caps, Len(caps)))
            weights == SubSeq(LadderFor(3), 1, Len(quotes))
            split == LadderAllocate(stake, caps, weights).stakes
            rung(r) == [agent |-> quotes[r].agent, stake |-> split[r],
                        liability |-> LiabilityFor(split[r], price(r))]
            taken == [r \in DOMAIN quotes |-> rung(r)]
            filled == {f \in Range(taken) : f.stake > 0}
            fills == Among(taken, filled)
<1>1. FillsOf(s, quotes, arrival) = fills
  BY DEF FillsOf, FillsFrom
<1>2. ASSUME NEW r \in 1..n
      PROVE  /\ budget(r) \in Nat /\ price(r) \in 1..(BPS - 1)
             /\ quotes[r].agent \in DOMAIN SimAgents /\ quotes[r].maxStake \in Nat
  <2>1. InBook(quotes[r]) /\ quotes[r].agent \in DOMAIN SimAgents
    BY DEF InBook
  <2>2. s.vaults[quotes[r].agent] \in Vaults(s.match)
        /\ s.market \in DOMAIN MarketsOf[s.match] /\ s.match \in DOMAIN SimMatches
    BY <2>1 DEF InMarket, Markets
  <2>3. budget(r) \in Nat
    BY <2>2, BudgetFits
  <2>4. price(r) \in 1..(BPS - 1)
    BY <2>1, SidePriceBounds
  <2>. QED  BY <2>1, <2>3, <2>4 DEF InBook
<1>. HIDE DEF budget, price
<1>3. ASSUME NEW r \in 1..n
      PROVE  most(r) = MaxStakeForLiability(budget(r), price(r)) /\ most(r) \in Nat
  <2>. DEFINE b == budget(r)
              p == price(r)
  <2>1. b \in Nat /\ p \in 1..(BPS - 1)
    BY <1>2
  <2>. HIDE DEF b, p
  <2>2. p # BPS /\ BPS - p \in Nat \ {0} /\ p \in Nat
    BY <2>1 DEF BPS
  <2>3. MaxStakeOf(b, p) = MaxStakeForLiability(b, p) /\ MaxStakeOf(b, p) \in Nat
    BY <2>1, <2>2, MulDivBounds DEF MaxStakeOf, MaxStakeForLiability
  <2>. QED  BY <2>3 DEF b, p
<1>. HIDE DEF most
<1>16. ASSUME NEW r \in 1..n PROVE cap(r) \in Nat /\ cap(r) <= most(r)
  BY <1>2, <1>3 DEF Least
<1>. HIDE DEF cap
<1>4. caps \in [1..n -> Nat] /\ Len(caps) = n /\ \A r \in 1..n : caps[r] <= most(r)
  BY <1>16
<1>. HIDE DEF caps
<1>5. stake \in Nat
  <2>1. SumTo(caps, n) \in Nat
    BY <1>4, TotalOfAmounts
  <2>. QED  BY <1>4, <2>1 DEF Least
<1>6. weights \in [1..n -> Nat]
  <2>1. Len(quotes) = n
    OBVIOUS
  <2>2. LadderFor(3) = <<5000, 3000, 2000>>
    BY DEF LadderFor
  <2>. DEFINE ladder == LadderFor(3)
              w == SubSeq(ladder, 1, n)
  <2>3. \A i \in 1..n : ladder[i] \in Nat
    BY <2>2
  <2>. HIDE DEF ladder
  <2>4. w \in Seq(Nat) /\ Len(w) = n
    BY <2>3
  <2>. HIDE DEF w
  <2>5. w \in [1..n -> Nat]
    BY <2>4
  <2>. QED  BY <2>1, <2>5 DEF ladder, w
<1>. HIDE DEF stake, weights
<1>17. n \in Nat
  OBVIOUS
<1>7. split = LadderStakes(stake, caps, weights, n)
  <2>1. LadderAllocate(stake, caps, weights)
           = [stakes |-> LadderStakes(stake, caps, weights, n),
              left |-> LadderLeft(stake, caps, weights, n)]
    BY <1>4, <1>5, <1>6, <1>17, TwinLadder, Zenon
  <2>. QED  BY <2>1
<1>8. \A r \in 1..n : split[r] \in Nat /\ split[r] <= caps[r]
  <2>1. LadderStakes(stake, caps, weights, n) \in [1..n -> Nat]
        /\ \A r \in 1..n : LadderStakes(stake, caps, weights, n)[r] <= caps[r]
    BY <1>4, <1>5, <1>6, <1>17, LadderWithinCaps, Zenon
  <2>. HIDE DEF split
  <2>. QED  BY <1>7, <2>1
<1>. HIDE DEF split
<1>9. ASSUME NEW r \in 1..n PROVE FillFits(s, rung(r))
  <2>1. split[r] \in Nat /\ split[r] <= MaxStakeForLiability(budget(r), price(r))
    <3>1. split[r] \in Nat /\ split[r] <= caps[r] /\ caps[r] \in Nat
          /\ caps[r] <= most(r) /\ most(r) \in Nat
      BY <1>3, <1>4, <1>8
    <3>2. split[r] <= most(r)
      BY <3>1
    <3>. QED  BY <1>3, <3>1, <3>2
  <2>2. price(r) \in 1..BPS /\ budget(r) \in Nat
    <3>. DEFINE p == price(r)
    <3>1. p \in 1..(BPS - 1)
      BY <1>2
    <3>. HIDE DEF p
    <3>2. p \in 1..BPS
      BY <3>1 DEF BPS
    <3>. QED  BY <1>2, <3>2 DEF p
  <2>3. LiabilityFor(split[r], price(r)) \in Nat
        /\ LiabilityFor(split[r], price(r)) <= budget(r)
    BY <2>1, <2>2, SizedFits
  <2>4. LiabilityFor(split[r], price(r)) \in 0..budget(r)
    BY <2>2, <2>3
  <2>. QED  BY <1>2, <2>1, <2>4 DEF FillFits, budget
<1>10. \A r \in 1..n : rung(r).agent = quotes[r].agent
  OBVIOUS
<1>. HIDE DEF rung
<1>11. taken \in Seq(Range(taken)) /\ DOMAIN taken = 1..n
  BY DEF Range
<1>12. OneEach(taken)
  BY <1>10 DEF OneEach
<1>13. \A f \in Range(taken) : FillFits(s, f)
  BY <1>9 DEF Range
<1>. HIDE DEF taken, filled
<1>14. fills \in Seq(Range(taken)) /\ OneEach(fills)
  BY <1>11, <1>12, AmongPicks, AmongOneEach
<1>. HIDE DEF fills
<1>15. \A i \in DOMAIN fills : FillFits(s, fills[i])
  BY <1>13, <1>14
<1>. QED  BY <1>1, <1>14, <1>15
-----------------------------------------------------------------------------
(* The vaults after a bet *)

\* A vault is locked and released on a market.
Vault(assets, locked, exposure) ==
    [assets |-> assets, locked |-> locked, exposure |-> exposure]
Exposed(S, m, liability) == [k \in S |-> IF k = m THEN liability ELSE 0]
LEMMA LockAndRelease ==
    ASSUME NEW a, NEW S, NEW m \in S, NEW l \in Int
    PROVE  /\ LockLiability(Vault(a, 0, Exposed(S, m, 0)), m, l)
                 = Vault(a, l, Exposed(S, m, l))
           /\ Release(Vault(a, l, Exposed(S, m, l)), m, l) = Vault(a, 0, Exposed(S, m, 0))
<1>. DEFINE none == Exposed(S, m, 0)
            held == Exposed(S, m, l)
            v == Vault(a, 0, none)
            w == Vault(a, l, held)
            locked == LockLiability(v, m, l)
            released == Release(w, m, l)
            fields == {"assets", "locked", "exposure"}
<1>1. /\ [none EXCEPT ![m] = none[m] + l] = held /\ 0 + l = l
      /\ [held EXCEPT ![m] = held[m] - l] = none /\ l - l = 0
  <2>1. 0 + l = l /\ l - l = 0 /\ none[m] = 0 /\ held[m] = l
    BY DEF Exposed
  <2>. QED  BY <2>1 DEF Exposed
<1>. HIDE DEF none, held
<1>2. /\ v.assets = a /\ v.locked = 0 /\ v.exposure = none /\ DOMAIN v = fields
      /\ w.assets = a /\ w.locked = l /\ w.exposure = held /\ DOMAIN w = fields
  BY DEF Vault
<1>. HIDE DEF v, w
<1>3. /\ locked.assets = a /\ locked.locked = l /\ locked.exposure = held
      /\ locked = [k \in fields |-> locked[k]]
  BY <1>1, <1>2 DEF LockLiability
<1>4. /\ released.assets = a /\ released.locked = 0 /\ released.exposure = none
      /\ released = [k \in fields |-> released[k]]
  BY <1>1, <1>2 DEF Release
<1>. HIDE DEF locked, released
<1>5. locked = Vault(a, l, held) /\ released = Vault(a, 0, none)
  BY <1>3, <1>4 DEF Vault
<1>. QED  BY <1>5 DEF v, w, locked, released, none, held

\* A lock and its settlement leave nothing locked, and what the bet made.
LEMMA SettledVault ==
    ASSUME NEW match \in DOMAIN SimMatches, NEW m \in DOMAIN MarketsOf[match],
           NEW v \in Vaults(match), NEW fill, fill.stake \in Nat,
           fill.liability \in 0..v.assets, NEW outcome \in {"voided", "won", "lost"}
    PROVE  /\ Settled(v, m, fill, outcome) \in Vaults(match)
           /\ Settled(v, m, fill, outcome).assets = v.assets + PnlOf(fill, outcome)
<1>. DEFINE S == DOMAIN MarketsOf[match]
            none == Exposed(S, m, 0)
            l == fill.liability
            a == v.assets
            st == fill.stake
            of(x) == Vault(x, 0, none)
<1>1. v = of(a) /\ a \in Nat /\ l \in 0..a /\ st \in Nat
  <2>1. v.locked = 0 /\ v.exposure = none /\ v.assets \in Nat
    BY DEF Vaults, Exposed
  <2>2. v = [assets |-> v.assets, locked |-> v.locked, exposure |-> v.exposure]
    BY DEF Vaults
  <2>. QED  BY <2>1, <2>2 DEF Vault
<1>2. ASSUME NEW x \in Nat PROVE of(x) \in Vaults(match) /\ of(x).assets = x
  BY <1>2 DEF Vaults, Vault, Exposed
<1>. HIDE DEF l, a, st
<1>3. l \in Int
  BY <1>1
<1>. DEFINE locked == Vault(a, l, Exposed(S, m, l))
<1>4. LockLiability(v, m, l) = locked
  BY <1>1, <1>3, LockAndRelease
<1>5. Release(locked, m, l) = of(a)
  BY <1>3, LockAndRelease
<1>6. SettleLost(locked, m, l) = of(a - l) /\ SettleWon(locked, m, l, st) = of(a + st)
  BY <1>5 DEF SettleLost, SettleWon, Vault
<1>. HIDE DEF locked, of
<1>7. a \in Nat /\ a - l \in Nat /\ a + st \in Nat
  BY <1>1
<1>8. CASE outcome = "voided"
  <2>1. Settled(v, m, fill, outcome) = of(a)
    BY <1>4, <1>5, <1>8 DEF Settled, l
  <2>2. PnlOf(fill, outcome) = 0
    BY <1>8 DEF PnlOf
  <2>. QED  BY <1>2, <1>7, <2>1, <2>2 DEF a
<1>9. CASE outcome = "won"
  <2>1. Settled(v, m, fill, outcome) = of(a - l)
    BY <1>4, <1>6, <1>9 DEF Settled, l
  <2>2. PnlOf(fill, outcome) = -l
    BY <1>9 DEF PnlOf, l
  <2>. QED  BY <1>2, <1>1, <1>7, <2>1, <2>2 DEF a
<1>10. CASE outcome = "lost"
  <2>1. Settled(v, m, fill, outcome) = of(a + st)
    BY <1>4, <1>6, <1>10 DEF Settled, l, st
  <2>2. PnlOf(fill, outcome) = st
    BY <1>10 DEF PnlOf, st
  <2>. QED  BY <1>2, <1>7, <1>10, <2>1, <2>2 DEF a
<1>. QED  BY <1>8, <1>9, <1>10

\* After the fills of a bet each agent's vault has what its one fill made of
\* it, and the others are as they were.
LEMMA BookedIs ==
    ASSUME NEW match \in DOMAIN SimMatches, NEW m \in DOMAIN MarketsOf[match],
           NEW vaults \in [DOMAIN SimAgents -> Vaults(match)],
           NEW fills, fills \in Seq(Range(fills)), OneEach(fills),
           \A i \in DOMAIN fills : /\ fills[i].agent \in DOMAIN SimAgents
                                  /\ fills[i].stake \in Nat
                                  /\ fills[i].liability \in 0..vaults[fills[i].agent].assets,
           NEW outcome \in {"voided", "won", "lost"}
    PROVE  /\ Booked(vaults, m, fills, outcome) \in [DOMAIN SimAgents -> Vaults(match)]
           /\ \A a \in DOMAIN SimAgents :
                 (\A i \in DOMAIN fills : fills[i].agent # a)
                     => Booked(vaults, m, fills, outcome)[a] = vaults[a]
           /\ \A i \in DOMAIN fills :
                 Booked(vaults, m, fills, outcome)[fills[i].agent].assets
                     = vaults[fills[i].agent].assets + PnlOf(fills[i], outcome)
<1>. DEFINE A == DOMAIN SimAgents
            n == Len(fills)
            owner(i) == fills[i].agent
            settled(i) == Settled(vaults[owner(i)], m, fills[i], outcome)
            its(a) == CHOOSE i \in 1..n : owner(i) = a
            come(a, k) == \E i \in 1..k : owner(i) = a
            upto(k) == [a \in A |-> IF come(a, k) THEN settled(its(a)) ELSE vaults[a]]
            f == [k \in 0..n |-> upto(k)]
            Eq(g) == g = [i \in 0..Len(fills) |->
                             IF i = 0 THEN vaults
                             ELSE [g[i - 1] EXCEPT ![fills[i].agent] =
                                                       Settled(@, m, fills[i], outcome)]]
<1>1. n \in Nat /\ DOMAIN fills = 1..n
  OBVIOUS
<1>2. \A i \in 1..n : owner(i) \in A /\ its(owner(i)) = i
  <2>1. ASSUME NEW i \in 1..n PROVE its(owner(i)) = i
    <3>1. \A j \in 1..n : owner(j) = owner(i) => j = i
      BY <1>1 DEF OneEach
    <3>. HIDE DEF owner
    <3>. QED  BY <3>1
  <2>. QED  BY <1>1, <2>1
<1>3. ASSUME NEW i \in 1..n
      PROVE  /\ settled(i) \in Vaults(match)
             /\ settled(i).assets = vaults[owner(i)].assets + PnlOf(fills[i], outcome)
  <2>. DEFINE v == vaults[owner(i)]
              fill == fills[i]
  <2>1. v \in Vaults(match) /\ fill.stake \in Nat /\ fill.liability \in 0..v.assets
    BY <1>1, <1>2
  <2>. HIDE DEF v, fill
  <2>2. /\ Settled(v, m, fill, outcome) \in Vaults(match)
        /\ Settled(v, m, fill, outcome).assets = v.assets + PnlOf(fill, outcome)
    BY <2>1, SettledVault
  <2>. QED  BY <2>2 DEF v, fill
<1>4. f[0] = vaults
  <2>1. \A a \in A : ~come(a, 0)
    OBVIOUS
  <2>2. upto(0) = [a \in A |-> vaults[a]]
    BY <2>1
  <2>3. f[0] = upto(0)
    BY <1>1
  <2>. QED  BY <2>2, <2>3
<1>5. ASSUME NEW i \in 1..n
      PROVE  f[i] = [f[i - 1] EXCEPT ![owner(i)] = Settled(@, m, fills[i], outcome)]
  <2>1. i \in 0..n /\ i - 1 \in 0..n /\ f[i] = upto(i) /\ f[i - 1] = upto(i - 1)
    BY <1>1
  <2>2. ~come(owner(i), i - 1) /\ come(owner(i), i) /\ owner(i) \in A
    <3>1. ASSUME NEW j \in 1..(i - 1) PROVE owner(j) # owner(i)
      <4>1. j \in 1..n /\ j # i
        BY <1>1
      <4>. HIDE DEF its, owner
      <4>. QED  BY <1>2, <4>1
    <3>. QED  BY <1>2, <3>1
  <2>3. upto(i - 1)[owner(i)] = vaults[owner(i)]
    BY <2>2
  <2>4. upto(i)[owner(i)] = settled(i)
    BY <1>2, <2>2
  <2>5. ASSUME NEW a \in A, a # owner(i) PROVE upto(i)[a] = upto(i - 1)[a]
    <3>1. come(a, i) <=> come(a, i - 1)
      BY <1>1, <2>5
    <3>. HIDE DEF come, settled, its
    <3>. QED  BY <3>1
  <2>6. DOMAIN upto(i) = A /\ DOMAIN upto(i - 1) = A
    OBVIOUS
  <2>7. upto(i) = [a \in A |-> upto(i)[a]]
    OBVIOUS
  <2>. HIDE DEF upto, owner
  <2>8. upto(i) = [upto(i - 1) EXCEPT ![owner(i)] = settled(i)]
    <3>. HIDE DEF settled
    <3>. QED  BY <2>2, <2>4, <2>5, <2>6, <2>7
  <2>. QED  BY <2>1, <2>3, <2>8
<1>. HIDE DEF upto
<1>6. Eq(f)
  <2>1. f = [i \in 0..n |-> f[i]] /\ \A i \in 0..n : i # 0 => i \in 1..n
    BY <1>1
  <2>. HIDE DEF f
  <2>. QED  BY <1>4, <1>5, <2>1
<1>. DEFINE after == CHOOSE g : Eq(g)
<1>7. Eq(after) /\ Booked(vaults, m, fills, outcome) = after[n]
  <2>1. \E g : Eq(g)
    BY <1>6
  <2>. QED  BY <2>1 DEF Booked
<1>8. after = f
  <2>1. OnSegment(f, n)
    BY DEF OnSegment
  <2>. HIDE DEF after, f
  <2>2. after[0] = f[0]
    BY <1>1, <1>4, <1>7
  <2>3. OnSegment(after, n)
    BY <1>7 DEF OnSegment
  <2>4. ASSUME NEW k \in 1..n, after[k - 1] = f[k - 1] PROVE after[k] = f[k]
    <3>0. k \in 0..Len(fills) /\ k # 0
      BY <1>1
    <3>1. after[k] = [after[k - 1] EXCEPT ![fills[k].agent] = Settled(@, m, fills[k], outcome)]
      BY <1>7, <3>0, Zenon
    <3>2. f[k] = [f[k - 1] EXCEPT ![fills[k].agent] = Settled(@, m, fills[k], outcome)]
      BY <1>5
    <3>. QED  BY <2>4, <3>1, <3>2, Zenon
  <2>. QED  BY <1>1, <2>1, <2>2, <2>3, <2>4, RecursionUnique, Zenon
<1>9. f[n] = upto(n)
  BY <1>1
<1>. HIDE DEF after, f
<1>. DEFINE now == Booked(vaults, m, fills, outcome)
<1>10. now = upto(n)
  BY <1>7, <1>8, <1>9
<1>. HIDE DEF now
<1>11. \A a \in A : ~come(a, n) => now[a] = vaults[a]
  BY <1>10 DEF upto
<1>12. \A i \in 1..n : now[owner(i)] = settled(i)
  <2>1. ASSUME NEW i \in 1..n PROVE now[owner(i)] = settled(i)
    <3>1. come(owner(i), n) /\ owner(i) \in A /\ its(owner(i)) = i
      BY <1>2
    <3>. HIDE DEF come, owner, its, settled
    <3>. QED  BY <1>10, <3>1 DEF upto
  <2>. QED  BY <2>1
<1>. HIDE DEF settled
<1>13. now \in [A -> Vaults(match)]
  <2>1. ASSUME NEW a \in A PROVE now[a] \in Vaults(match)
    <3>1. CASE come(a, n)
      BY <1>3, <1>12, <3>1
    <3>2. CASE ~come(a, n)
      BY <1>11, <3>2
    <3>. QED  BY <3>1, <3>2
  <2>2. now = [a \in A |-> now[a]]
    BY <1>10 DEF upto
  <2>. QED  BY <2>1, <2>2
<1>. QED  BY <1>1, <1>3, <1>11, <1>12, <1>13 DEF now
-----------------------------------------------------------------------------
(* What the bets come to *)

\* The sum of one list after another is the sum of both.
LEMMA TotalOfBoth ==
    ASSUME NEW N \in Nat, NEW n \in Nat, NEW f \in [1..N -> Int], NEW g \in [1..n -> Int],
           NEW h \in [1..(N + n) -> Int],
           \A k \in 1..N : h[k] = f[k], \A k \in 1..n : h[N + k] = g[k]
    PROVE  SumTo(h, N + n) = SumTo(f, N) + SumTo(g, n)
<1>. DEFINE t == RunningTotal(f, N)
            u == RunningTotal(g, n)
            both == [k \in 0..(N + n) |-> IF k <= N THEN t[k] ELSE t[N] + u[k - N]]
<1>1. /\ t \in [0..N -> Int] /\ t[0] = 0 /\ \A k \in 1..N : t[k] = t[k - 1] + f[k]
      /\ u \in [0..n -> Int] /\ u[0] = 0 /\ \A k \in 1..n : u[k] = u[k - 1] + g[k]
  BY RunningTotalDef
<1>2. SumTo(f, N) = t[N] /\ SumTo(g, n) = u[n]
  BY DEF SumTo
<1>. HIDE DEF t, u
<1>3. ASSUME NEW k \in 0..(N + n) PROVE both[k] \in Int
  <2>1. CASE k <= N
    BY <1>1, <2>1
  <2>2. CASE ~(k <= N)
    <3>1. k - N \in 0..n /\ N \in 0..N
      BY <2>2
    <3>2. t[N] \in Int /\ u[k - N] \in Int
      BY <1>1, <3>1
    <3>. QED  BY <2>2, <3>2
  <2>. QED  BY <2>1, <2>2
<1>4. ASSUME NEW k \in 1..(N + n) PROVE both[k] = both[k - 1] + h[k]
  <2>1. k \in 0..(N + n) /\ k - 1 \in 0..(N + n)
    OBVIOUS
  <2>2. CASE k <= N
    <3>1. k \in 1..N /\ both[k] = t[k] /\ both[k - 1] = t[k - 1]
      BY <2>1, <2>2
    <3>. QED  BY <1>1, <3>1
  <2>3. CASE k = N + 1
    <3>1. 1 \in 1..n /\ k - N = 1 /\ N + 1 = k /\ k - 1 = N
      BY <2>3
    <3>2. both[k] = t[N] + u[1] /\ both[k - 1] = t[N]
      BY <2>1, <2>3, <3>1
    <3>3. h[k] = g[1] /\ u[1] = u[0] + g[1] /\ g[1] \in Int
      BY <1>1, <3>1
    <3>. QED  BY <1>1, <3>2, <3>3
  <2>4. CASE k > N + 1
    <3>1. k - N \in 1..n /\ (k - 1) - N = (k - N) - 1 /\ N + (k - N) = k
          /\ (k - N) - 1 \in 0..n
      BY <2>4
    <3>2. both[k] = t[N] + u[k - N] /\ both[k - 1] = t[N] + u[(k - N) - 1]
      BY <2>1, <2>4, <3>1
    <3>3. h[k] = g[k - N] /\ u[k - N] = u[(k - N) - 1] + g[k - N]
      BY <1>1, <3>1
    <3>4. u[(k - N) - 1] \in Int /\ g[k - N] \in Int /\ t[N] \in Int
      BY <1>1, <3>1
    <3>. DEFINE x == u[(k - N) - 1]
                y == g[k - N]
                z == t[N]
    <3>5. /\ both[k] = z + u[k - N] /\ both[k - 1] = z + x /\ h[k] = y
          /\ u[k - N] = x + y /\ x \in Int /\ y \in Int /\ z \in Int
      BY <3>2, <3>3, <3>4
    <3>. HIDE DEF x, y, z, both
    <3>6. z + (x + y) = (z + x) + y
      BY <3>5
    <3>. QED  BY <3>5, <3>6
  <2>. QED  BY <2>2, <2>3, <2>4
<1>5. both[0] = 0 /\ both[N + n] = t[N] + u[n]
  <2>1. both[0] = t[0]
    OBVIOUS
  <2>2. CASE n = 0
    <3>1. both[N + n] = t[N] /\ t[N] \in Int
      BY <1>1, <2>2
    <3>. QED  BY <1>1, <2>1, <2>2, <3>1
  <2>3. CASE n # 0
    <3>1. N + n \in 0..(N + n) /\ ~(N + n <= N) /\ (N + n) - N = n
      BY <2>3
    <3>. QED  BY <1>1, <2>1, <3>1
  <2>. QED  BY <2>2, <2>3
<1>6. both \in [0..(N + n) -> Int] /\ N + n \in Nat
  BY <1>3
<1>. HIDE DEF both
<1>7. SumTo(h, N + n) = both[N + n]
  BY <1>4, <1>5, <1>6, TotalIs
<1>. QED  BY <1>2, <1>5, <1>7

\* What each of an agent's bets made it, and all of them.
GainOf(b, a) == IF b.agent = a THEN b.stake - b.payout ELSE 0
Gains(bets, a) == [i \in DOMAIN bets |-> GainOf(bets[i], a)]
Gained(bets, a) == SumTo(Gains(bets, a), Len(bets))
WholeBets(bets) ==
    /\ bets \in Seq(Range(bets))
    /\ \A i \in DOMAIN bets : bets[i].stake \in Int /\ bets[i].payout \in Int

\* An agent with no bet gained nothing, one with one what that made.
LEMMA GainedOfOne ==
    ASSUME NEW bets, WholeBets(bets), OneEach(bets), NEW a
    PROVE  /\ (\A i \in DOMAIN bets : bets[i].agent # a) => Gained(bets, a) = 0
           /\ \A i \in DOMAIN bets : bets[i].agent = a =>
                 Gained(bets, a) = bets[i].stake - bets[i].payout
<1>. DEFINE n == Len(bets)
            f == Gains(bets, a)
            none == [k \in 1..n |-> 0]
<1>1. n \in Nat /\ DOMAIN bets = 1..n
  BY DEF WholeBets
<1>2. \A i \in 1..n : GainOf(bets[i], a) \in Int
  BY <1>1 DEF WholeBets, GainOf
<1>3. f \in [1..n -> Int] /\ \A i \in 1..n : f[i] = GainOf(bets[i], a)
  BY <1>1, <1>2 DEF Gains
<1>4. none \in [1..n -> Int] /\ \A k \in 1..n : none[k] = 0
  OBVIOUS
<1>. HIDE DEF f, none, n
<1>5. SumTo(none, n) = 0
  BY <1>1, <1>4, TotalOfZeros
<1>6. ASSUME \A i \in DOMAIN bets : bets[i].agent # a PROVE SumTo(f, n) = 0
  <2>1. \A i \in 1..n : f[i] = 0
    BY <1>1, <1>3, <1>6 DEF GainOf
  <2>. QED  BY <1>1, <1>3, <2>1, TotalOfZeros
<1>7. ASSUME NEW i \in DOMAIN bets, bets[i].agent = a
      PROVE  SumTo(f, n) = bets[i].stake - bets[i].payout
  <2>1. \A k \in 1..n : k # i => bets[k].agent # a
    BY <1>1, <1>7 DEF OneEach
  <2>2. \A k \in 1..n : k # i => f[k] = none[k]
    BY <1>3, <1>4, <2>1 DEF GainOf
  <2>3. i \in 1..n /\ none[i] = 0 /\ f[i] = bets[i].stake - bets[i].payout /\ f[i] \in Int
    BY <1>1, <1>3, <1>4, <1>7 DEF GainOf
  <2>4. SumTo(f, n) = SumTo(none, n) - none[i] + f[i]
    BY <1>1, <1>3, <1>4, <2>2, <2>3, TotalChange
  <2>. QED  BY <1>5, <2>3, <2>4
<1>. QED  BY <1>6, <1>7 DEF Gained, f, n

\* By more bets an agent gains what those make.
LEMMA GainedGrows ==
    ASSUME NEW s, NEW t, WholeBets(s), WholeBets(t), NEW a
    PROVE  /\ WholeBets(s \o t)
           /\ Gained(s \o t, a) = Gained(s, a) + Gained(t, a)
           /\ Gained(s, a) \in Int /\ Gained(t, a) \in Int
<1>. DEFINE T == Range(s) \cup Range(t)
            u == s \o t
            N == Len(s)
            n == Len(t)
            f == Gains(s, a)
            g == Gains(t, a)
            h == Gains(u, a)
<1>1. s \in Seq(T) /\ t \in Seq(T)
  BY DEF WholeBets, Range
<1>2. /\ u \in Seq(T) /\ N \in Nat /\ n \in Nat /\ Len(u) = N + n
      /\ DOMAIN s = 1..N /\ DOMAIN t = 1..n /\ DOMAIN u = 1..(N + n)
      /\ \A k \in 1..N : u[k] = s[k]
      /\ \A k \in 1..n : u[N + k] = t[k]
  BY <1>1
<1>. HIDE DEF u, T, N, n
<1>3. \A k \in 1..(N + n) : k \in 1..N \/ (k - N \in 1..n /\ N + (k - N) = k)
  BY <1>2
<1>4. WholeBets(u)
  <2>1. u \in Seq(Range(u))
    <3>1. u \in Seq(T)
      BY <1>2
    <3>. QED  BY <3>1 DEF Range
  <2>2. ASSUME NEW k \in 1..(N + n) PROVE u[k].stake \in Int /\ u[k].payout \in Int
    <3>1. CASE k \in 1..N
      BY <1>2, <3>1 DEF WholeBets
    <3>2. CASE k - N \in 1..n /\ N + (k - N) = k
      <4>1. u[k] = t[k - N]
        BY <1>2, <3>2
      <4>. QED  BY <1>2, <3>2, <4>1 DEF WholeBets
    <3>. QED  BY <1>3, <3>1, <3>2
  <2>. QED  BY <1>2, <2>1, <2>2 DEF WholeBets
<1>5. /\ f \in [1..N -> Int] /\ \A k \in 1..N : f[k] = GainOf(s[k], a)
      /\ g \in [1..n -> Int] /\ \A k \in 1..n : g[k] = GainOf(t[k], a)
      /\ h \in [1..(N + n) -> Int] /\ \A k \in 1..(N + n) : h[k] = GainOf(u[k], a)
  <2>1. \A k \in 1..N : GainOf(s[k], a) \in Int
    BY <1>2 DEF WholeBets, GainOf
  <2>2. \A k \in 1..n : GainOf(t[k], a) \in Int
    <3>1. \A k \in 1..n : t[k].stake \in Int /\ t[k].payout \in Int
      BY <1>2 DEF WholeBets
    <3>. QED  BY <3>1 DEF GainOf
  <2>3. \A k \in 1..(N + n) : GainOf(u[k], a) \in Int
    <3>1. \A k \in 1..(N + n) : u[k].stake \in Int /\ u[k].payout \in Int
      <4>1. DOMAIN u = 1..(N + n)
        BY <1>2
      <4>. QED  BY <1>4, <4>1 DEF WholeBets
    <3>. QED  BY <3>1 DEF GainOf
  <2>. QED  BY <1>2, <2>1, <2>2, <2>3 DEF Gains
<1>. HIDE DEF f, g, h
<1>6. \A k \in 1..N : h[k] = f[k]
  <2>1. \A k \in 1..N : k \in 1..(N + n)
    BY <1>2
  <2>. QED  BY <1>2, <1>5, <2>1
<1>7. \A k \in 1..n : h[N + k] = g[k]
  <2>1. \A k \in 1..n : N + k \in 1..(N + n)
    BY <1>2
  <2>. QED  BY <1>2, <1>5, <2>1
<1>8. SumTo(h, N + n) = SumTo(f, N) + SumTo(g, n)
  BY <1>2, <1>5, <1>6, <1>7, TotalOfBoth
<1>9. SumTo(f, N) \in Int /\ SumTo(g, n) \in Int
  <2>1. RunningTotal(f, N) \in [0..N -> Int] /\ RunningTotal(g, n) \in [0..n -> Int]
    BY <1>2, <1>5, RunningTotalDef
  <2>. QED  BY <1>2, <2>1 DEF SumTo
<1>. QED  BY <1>2, <1>4, <1>8, <1>9 DEF Gained, f, g, h, u, N, n
-----------------------------------------------------------------------------
(* The books of a run *)

\* Nothing is locked between two arrivals, the lessons are numbers, whoever
\* waits waits for a market of the match, and each vault has what its bets
\* made of it.
Books(s) ==
    /\ s.vaults \in [DOMAIN SimAgents -> Vaults(s.match)]
    /\ \A a \in DOMAIN SimAgents : Memory(s.memories[a])
    /\ \A b \in Range(s.arrivals) : b.stake \in Nat
    /\ s.arrivals # <<>> => s.market \in DOMAIN Markets(s)
    /\ ~s.thrown /\ WholeBets(s.bets)
    /\ \A a \in DOMAIN SimAgents : s.vaults[a].assets = InitialVault + Gained(s.bets, a)
BooksInv == SimInv /\ Books(sim)

LEMMA NewBooks ==
    ASSUME NEW match \in DOMAIN SimMatches, NEW arrived, NEW memories,
           \A a \in DOMAIN SimAgents : Memory(memories[a])
    PROVE  Books(NewMatch(match, memories, arrived))
<1>. DEFINE s == NewMatch(match, memories, arrived)
<1>1. /\ s.match = match /\ s.memories = memories /\ s.arrivals = <<>> /\ s.bets = <<>>
      /\ s.thrown = FALSE /\ s.vaults = [a \in DOMAIN SimAgents |-> SimVault(match)]
  BY DEF NewMatch
<1>2. SimVault(match) \in Vaults(match) /\ SimVault(match).assets = InitialVault
  BY SimAssumption DEF SimVault, Vaults
<1>. HIDE DEF s
<1>3. Range(<<>>) = {}
  BY DEF Range
<1>4. WholeBets(<<>>) /\ OneEach(<<>>)
  BY DEF WholeBets, OneEach, Range
<1>5. \A a \in DOMAIN SimAgents : Gained(<<>>, a) = 0
  <2>1. DOMAIN <<>> = {}
    OBVIOUS
  <2>. QED  BY <1>4, <2>1, GainedOfOne
<1>6. InitialVault + 0 = InitialVault
  BY SimAssumption
<1>7. s.vaults \in [DOMAIN SimAgents -> Vaults(s.match)]
      /\ \A a \in DOMAIN SimAgents : s.vaults[a].assets = InitialVault
  BY <1>1, <1>2
<1>8. Books(s)
  BY <1>1, <1>3, <1>4, <1>5, <1>6, <1>7 DEF Books
<1>. QED  BY <1>8 DEF s

\* What is learned is numbers.
LEMMA LearnsNumbers ==
    ASSUME NEW memory, Memory(memory), NEW settled
    PROVE  Memory(Learn(memory, settled))
<1>. DEFINE fresh == {b \in settled : b.id > memory.lastBetId}
            Of(t) == {b \in fresh : b.template = t}
            pnl(t) == FoldSet(LAMBDA b, sum : sum + b.agentPnl, 0, Of(t))
            few(t) == Cardinality(Of(t)) < 2 \/ pnl(t) = 0
            bad(t) == pnl(t) < 0
            next(t) == CASE few(t) -> memory.adj[t]
                         [] bad(t) -> Least(500, memory.adj[t] + 100)
                         [] OTHER -> Clamp(memory.adj[t] - 25, -100, 500)
            last == Max({b.id : b \in fresh})
<1>1. Learn(memory, settled)
         = IF fresh = {} THEN memory
           ELSE [lastBetId |-> last, adj |-> [t \in DOMAIN TemplateNames |-> next(t)]]
  BY DEF Learn
<1>. HIDE DEF fresh, few, bad, last
<1>2. ASSUME NEW t \in DOMAIN TemplateNames PROVE next(t) \in Int
  <2>. DEFINE x == memory.adj[t]
  <2>1. x \in Int
    BY DEF Memory
  <2>. HIDE DEF x
  <2>2. Least(500, x + 100) \in Int /\ Clamp(x - 25, -100, 500) \in Int
    BY <2>1 DEF Least, Clamp
  <2>. QED  BY <2>1, <2>2 DEF x
<1>. HIDE DEF next
<1>. QED  BY <1>1, <1>2 DEF Memory

\* The bettors' stakes are amounts.
LEMMA StakesOfBettors ==
    ASSUME NEW s, NEW m, NEW crowd \in Crowds(s, m), NEW arrivals \in InOrder(crowd)
    PROVE  \A b \in Range(arrivals) : b.stake \in Nat
<1>. DEFINE bettors == Casuals(s, m) \cup Sharps(s, m) \cup Snipers(s, m)
<1>1. \A b \in Casuals(s, m) : b.stake \in Nat
  BY SimAssumption DEF Casuals
<1>2. \A b \in Sharps(s, m) : b.stake \in Nat
  BY SimAssumption DEF Sharps
<1>3. \A b \in Snipers(s, m) : b.stake \in Nat
  BY SimAssumption DEF Snipers
<1>4. \A b \in bettors : b.stake \in Nat
  BY <1>1, <1>2, <1>3
<1>. HIDE DEF bettors
<1>5. crowd \in {{}} \cup {{b, c} : b, c \in bettors}
  BY DEF Crowds, bettors
<1>6. \A b \in crowd : b.stake \in Nat
  BY <1>4, <1>5
<1>. QED  BY <1>6 DEF InOrder

\* A market opens, perhaps after a lesson.
LEMMA OpenKeepsBooks == BooksInv /\ OpenMarket => Books(sim')
<1>. SUFFICES ASSUME BooksInv, OpenMarket PROVE Books(sim')
  OBVIOUS
<1>1. PICK m \in DOMAIN Markets(sim) \cap {sim.market + 1} :
         \E s \in {Taught(sim, Markets(sim)[m].windowStart)} :
             \E crowd \in Crowds(s, m) :
                 \E arrivals \in InOrder(crowd) :
                     sim' = [s EXCEPT !.market = m, !.arrived = @ + Len(arrivals),
                                      !.arrivals = arrivals]
  BY DEF OpenMarket
<1>. DEFINE now == Markets(sim)[m].windowStart
            s == Taught(sim, now)
<1>2. PICK crowd \in Crowds(s, m) :
         \E arrivals \in InOrder(crowd) :
             sim' = [s EXCEPT !.market = m, !.arrived = @ + Len(arrivals),
                              !.arrivals = arrivals]
  BY <1>1
<1>3. PICK arrivals \in InOrder(crowd) :
         sim' = [s EXCEPT !.market = m, !.arrived = @ + Len(arrivals), !.arrivals = arrivals]
  BY <1>2
<1>4. DOMAIN sim = SimFields
  BY DEF BooksInv, SimInv, InRun
<1>5. /\ DOMAIN s = SimFields /\ s.match = sim.match /\ s.bets = sim.bets
      /\ s.vaults = sim.vaults /\ s.thrown = sim.thrown
  BY <1>4 DEF SimFields, Taught
<1>6. \A a \in DOMAIN SimAgents : Memory(s.memories[a])
  <2>1. CASE now - sim.lastLearnAt < LearnEverySec
    <3>1. s = sim
      BY <2>1 DEF Taught
    <3>. QED  BY <3>1 DEF BooksInv, Books
  <2>2. CASE ~(now - sim.lastLearnAt < LearnEverySec)
    <3>. DEFINE due(a) == {b \in sim.toLearn[a] : b.settlesAt <= now}
    <3>1. s.memories = [a \in DOMAIN SimAgents |-> Learn(sim.memories[a], due(a))]
      BY <1>4, <2>2 DEF Taught, SimFields
    <3>. HIDE DEF s, due
    <3>. QED  BY <3>1, LearnsNumbers DEF BooksInv, Books
  <2>. QED  BY <2>1, <2>2
<1>. HIDE DEF s
<1>7. /\ sim'.match = sim.match /\ sim'.bets = sim.bets /\ sim'.vaults = sim.vaults
      /\ sim'.thrown = sim.thrown /\ sim'.memories = s.memories
      /\ sim'.arrivals = arrivals /\ sim'.market = m
  BY <1>3, <1>5 DEF SimFields
<1>8. \A b \in Range(arrivals) : b.stake \in Nat
  BY <1>2, <1>3, StakesOfBettors
<1>9. m \in DOMAIN Markets(sim')
  BY <1>1, <1>7 DEF Markets
<1>. QED  BY <1>6, <1>7, <1>8, <1>9 DEF BooksInv, Books

\* What is taken of a bet that comes, of the book as it stands.
LEMMA FillsOfArrival ==
    ASSUME WholeTables, BooksInv, sim.arrivals # <<>>
    PROVE  LET fills == Fills(sim, Head(sim.arrivals))
           IN  /\ InMarket(sim)
               /\ fills \in Seq(Range(fills)) /\ OneEach(fills)
               /\ \A i \in DOMAIN fills : FillFits(sim, fills[i])
<1>. DEFINE arrival == Head(sim.arrivals)
            book == BookAt(sim, sim.market, arrival.at)
            n == Least(3, Len(book))
            quotes == Ranked(book, arrival.side)
<1>1. /\ sim.match \in DOMAIN SimMatches /\ sim.market \in DOMAIN Markets(sim)
      /\ \A a \in DOMAIN SimAgents : /\ sim.vaults[a] \in Vaults(sim.match)
                                      /\ Memory(sim.memories[a])
  BY DEF BooksInv, SimInv, InRun, Books
<1>2. arrival \in Range(sim.arrivals)
  BY DEF BooksInv, SimInv, Queued, Range
<1>3. arrival.at \in Int /\ arrival.stake \in Nat
  BY <1>2 DEF BooksInv, SimInv, Queued, Books
<1>4. InMarket(sim)
  BY <1>1 DEF InMarket
<1>5. Fills(sim, arrival) = FillsOf(sim, quotes, arrival)
  BY DEF Fills
<1>6. Fills(sim, arrival) \in Seq(Range(Fills(sim, arrival)))
  BY <1>1, <1>3, NothingTakenWhenVoided
<1>. HIDE DEF arrival
<1>7. BookOK(book)
  BY <1>1, <1>3, BookIsOK
<1>. HIDE DEF book
<1>8. /\ n \in 0..3 /\ DOMAIN quotes = 1..n /\ OneEach(quotes)
      /\ \A r \in DOMAIN quotes : InBook(quotes[r])
  BY <1>7, RankedIsOK
<1>9. quotes \in Seq(Range(quotes))
  <2>1. n \in Nat /\ quotes = [r \in 1..n |-> quotes[r]]
    BY <1>8 DEF Ranked
  <2>. HIDE DEF n, quotes
  <2>. QED  BY <2>1 DEF Range
<1>. HIDE DEF n, quotes
<1>10. /\ OneEach(FillsOf(sim, quotes, arrival))
       /\ \A i \in DOMAIN FillsOf(sim, quotes, arrival) :
             FillFits(sim, FillsOf(sim, quotes, arrival)[i])
  BY <1>3, <1>4, <1>8, <1>9, FillsFit
<1>. QED  BY <1>4, <1>5, <1>6, <1>10 DEF arrival

\* A bet comes: it is filled and settled, and no vault refuses its part.
LEMMA ArriveKeepsBooks == WholeTables /\ BooksInv /\ Arrive => Books(sim')
<1>. SUFFICES ASSUME WholeTables, BooksInv, Arrive PROVE Books(sim')
  OBVIOUS
<1>. DEFINE arrival == Head(sim.arrivals)
            market == Markets(sim)[sim.market]
            fills == Fills(sim, arrival)
            resolution == Resolution(Events(sim), market)
            outcome == OutcomeOf(resolution, arrival.side, Voids(resolution, arrival.at))
            paid(i) == CASE outcome = "voided" -> fills[i].stake
                         [] outcome = "won" -> fills[i].stake + fills[i].liability
                         [] OTHER -> 0
            bets == [i \in DOMAIN fills |->
                       [agent |-> fills[i].agent, stake |-> fills[i].stake,
                        outcome |-> outcome, payout |-> paid(i)]]
            vaults == Booked(sim.vaults, sim.market, fills, outcome)
<1>1. sim.arrivals # <<>> /\ Struck(market, fills, outcome)
  BY DEF Arrive
<1>2. /\ InMarket(sim) /\ fills \in Seq(Range(fills)) /\ OneEach(fills)
      /\ \A i \in DOMAIN fills : FillFits(sim, fills[i])
  BY <1>1, FillsOfArrival
<1>3. outcome \in {"voided", "won", "lost"}
  BY DEF OutcomeOf
<1>. HIDE DEF fills, resolution, outcome, arrival, market
<1>4. ASSUME NEW i \in DOMAIN fills
      PROVE  /\ fills[i].agent \in DOMAIN SimAgents /\ fills[i].stake \in Nat
             /\ fills[i].liability \in Nat
             /\ fills[i].liability \in 0..sim.vaults[fills[i].agent].assets
             /\ ~LockRefused(sim.vaults[fills[i].agent], sim.market, fills[i].liability)
  <2>. DEFINE v == sim.vaults[fills[i].agent]
              l == fills[i].liability
              budget == QuotableBudget(v, sim.market)
  <2>1. fills[i].agent \in DOMAIN SimAgents /\ fills[i].stake \in Nat /\ l \in 0..budget
    BY <1>2 DEF FillFits
  <2>2. /\ v \in Vaults(sim.match) /\ sim.match \in DOMAIN SimMatches
        /\ sim.market \in DOMAIN MarketsOf[sim.match]
    BY <1>2, <2>1 DEF InMarket, Markets
  <2>. HIDE DEF v, l
  <2>3. /\ budget \in Nat /\ budget <= v.assets
        /\ \A liability \in 0..budget : ~LockRefused(v, sim.market, liability)
    BY <2>2, BudgetFits
  <2>4. v.assets \in Nat
    BY <2>2 DEF Vaults
  <2>. HIDE DEF budget
  <2>5. l \in Nat /\ l \in 0..v.assets
    BY <2>1, <2>3, <2>4
  <2>. QED  BY <2>1, <2>3, <2>5 DEF v, l
<1>5. /\ vaults \in [DOMAIN SimAgents -> Vaults(sim.match)]
      /\ \A a \in DOMAIN SimAgents :
            (\A i \in DOMAIN fills : fills[i].agent # a) => vaults[a] = sim.vaults[a]
      /\ \A i \in DOMAIN fills :
            vaults[fills[i].agent].assets
                = sim.vaults[fills[i].agent].assets + PnlOf(fills[i], outcome)
  <2>1. /\ sim.match \in DOMAIN SimMatches /\ sim.market \in DOMAIN MarketsOf[sim.match]
        /\ sim.vaults \in [DOMAIN SimAgents -> Vaults(sim.match)]
    BY <1>2 DEF InMarket, Markets, BooksInv, Books
  <2>. QED  BY <1>2, <1>3, <1>4, <2>1, BookedIs
<1>6. ASSUME NEW i \in DOMAIN fills
      PROVE  /\ paid(i) \in Int /\ fills[i].stake \in Int
             /\ fills[i].stake - paid(i) = PnlOf(fills[i], outcome)
  <2>. DEFINE st == fills[i].stake
              l == fills[i].liability
  <2>1. st \in Nat /\ l \in Nat
    BY <1>4
  <2>2. paid(i) = IF outcome = "voided" THEN st ELSE IF outcome = "won" THEN st + l ELSE 0
    BY <1>3
  <2>3. PnlOf(fills[i], outcome)
           = IF outcome = "voided" THEN 0 ELSE IF outcome = "won" THEN -l ELSE st
    BY <1>3 DEF PnlOf
  <2>. HIDE DEF st, l, paid
  <2>4. st - st = 0 /\ st - (st + l) = -l /\ st - 0 = st
    BY <2>1
  <2>5. paid(i) \in Int /\ st - paid(i) = PnlOf(fills[i], outcome)
    <3>1. CASE outcome = "voided"
      BY <2>1, <2>2, <2>3, <2>4, <3>1
    <3>2. CASE outcome = "won"
      BY <2>1, <2>2, <2>3, <2>4, <3>2
    <3>3. CASE outcome = "lost"
      BY <2>1, <2>2, <2>3, <2>4, <3>3
    <3>. QED  BY <1>3, <3>1, <3>2, <3>3
  <2>. QED  BY <2>1, <2>5 DEF st
<1>. HIDE DEF paid
<1>7. WholeBets(bets) /\ OneEach(bets)
  <2>1. DOMAIN bets = DOMAIN fills /\ Len(fills) \in Nat /\ DOMAIN fills = 1..Len(fills)
    BY <1>2
  <2>2. bets \in Seq(Range(bets))
    BY <2>1 DEF Range
  <2>3. \A i \in DOMAIN bets : bets[i].stake \in Int /\ bets[i].payout \in Int
    BY <1>6
  <2>4. \A i \in DOMAIN bets : bets[i].agent = fills[i].agent
    OBVIOUS
  <2>. HIDE DEF bets
  <2>. QED  BY <1>2, <2>1, <2>2, <2>3, <2>4 DEF WholeBets, OneEach
<1>8. ASSUME NEW a \in DOMAIN SimAgents
      PROVE  vaults[a].assets = sim.vaults[a].assets + Gained(bets, a)
  <2>0. sim.vaults[a].assets \in Nat
    BY DEF BooksInv, Books, Vaults
  <2>1. CASE \A i \in DOMAIN fills : fills[i].agent # a
    <3>1. vaults[a] = sim.vaults[a]
      BY <1>5, <2>1
    <3>2. \A i \in DOMAIN bets : bets[i].agent # a
      BY <2>1
    <3>. HIDE DEF bets, vaults
    <3>3. Gained(bets, a) = 0
      BY <1>7, <3>2, GainedOfOne
    <3>. QED  BY <2>0, <3>1, <3>3
  <2>2. ASSUME NEW i \in DOMAIN fills, fills[i].agent = a
        PROVE  vaults[a].assets = sim.vaults[a].assets + Gained(bets, a)
    <3>1. vaults[a].assets = sim.vaults[a].assets + PnlOf(fills[i], outcome)
      BY <1>5, <2>2
    <3>2. /\ i \in DOMAIN bets /\ bets[i].agent = a
          /\ bets[i].stake - bets[i].payout = PnlOf(fills[i], outcome)
      BY <1>6, <2>2
    <3>. HIDE DEF bets, vaults
    <3>3. Gained(bets, a) = bets[i].stake - bets[i].payout
      BY <1>7, <3>2, GainedOfOne
    <3>. QED  BY <3>1, <3>2, <3>3
  <2>. QED  BY <2>1, <2>2
<1>9. /\ sim' = [sim EXCEPT
               !.arrivals = Tail(@), !.vaults = vaults,
               !.toLearn = [a \in DOMAIN SimAgents |-> sim'.toLearn[a]],
               !.nextBetId = @ + Len(fills), !.bets = @ \o bets]
  <2>1. ~\E i \in DOMAIN fills :
            LockRefused(sim.vaults[fills[i].agent], sim.market, fills[i].liability)
    BY <1>4
  <2>. QED  BY <1>1, <2>1 DEF Struck, paid, BooksInv, SimInv, InRun, SimFields
<1>. HIDE DEF bets, vaults
<1>10. /\ sim'.match = sim.match /\ sim'.market = sim.market /\ sim'.thrown = sim.thrown
       /\ sim'.memories = sim.memories /\ sim'.arrivals = Tail(sim.arrivals)
       /\ sim'.vaults = vaults /\ sim'.bets = sim.bets \o bets
  BY <1>9 DEF BooksInv, SimInv, InRun, SimFields
<1>11. \A b \in Range(sim'.arrivals) : b.stake \in Nat
  <2>. DEFINE q == sim.arrivals
              tail == Tail(q)
  <2>1. q \in Seq(Range(q)) /\ q # <<>> /\ \A b \in Range(q) : b.stake \in Nat
    BY <1>1 DEF BooksInv, SimInv, Queued, Books
  <2>. HIDE DEF q
  <2>2. tail \in Seq(Range(q))
    BY <2>1
  <2>. HIDE DEF tail
  <2>3. Range(tail) \subseteq Range(q)
    BY <2>2 DEF Range
  <2>. QED  BY <1>10, <2>1, <2>3 DEF tail, q
<1>12. /\ WholeBets(sim.bets \o bets)
       /\ \A a \in DOMAIN SimAgents :
             /\ Gained(sim.bets \o bets, a) = Gained(sim.bets, a) + Gained(bets, a)
             /\ Gained(sim.bets, a) \in Int /\ Gained(bets, a) \in Int
  <2>1. WholeBets(sim.bets)
    BY DEF BooksInv, Books
  <2>. QED  BY <1>7, <2>1, GainedGrows
<1>13. \A a \in DOMAIN SimAgents :
          sim'.vaults[a].assets = InitialVault + Gained(sim'.bets, a)
  <2>1. ASSUME NEW a \in DOMAIN SimAgents
        PROVE  vaults[a].assets = InitialVault + Gained(sim.bets \o bets, a)
    <3>. DEFINE x == Gained(sim.bets, a)
                y == Gained(bets, a)
    <3>1. /\ vaults[a].assets = (InitialVault + x) + y
          /\ Gained(sim.bets \o bets, a) = x + y
          /\ x \in Int /\ y \in Int /\ InitialVault \in Int
      <4>1. sim.vaults[a].assets = InitialVault + x
        BY DEF BooksInv, Books
      <4>2. vaults[a].assets = sim.vaults[a].assets + y
        BY <1>8
      <4>. QED  BY <1>12, <4>1, <4>2, SimAssumption
    <3>. HIDE DEF x, y
    <3>2. (InitialVault + x) + y = InitialVault + (x + y)
      BY <3>1
    <3>. QED  BY <3>1, <3>2
  <2>. QED  BY <1>10, <2>1
<1>14. sim'.market \in DOMAIN Markets(sim')
  BY <1>2, <1>10 DEF InMarket, Markets
<1>. QED  BY <1>5, <1>10, <1>11, <1>12, <1>13, <1>14 DEF BooksInv, Books

LEMMA NextMatchKeepsBooks == BooksInv /\ NextMatch => Books(sim')
<1>. SUFFICES ASSUME BooksInv, NextMatch PROVE Books(sim')
  OBVIOUS
<1>1. sim.match + 1 \in DOMAIN SimMatches
  BY SimAssumption DEF BooksInv, SimInv, InRun, NextMatch
<1>2. sim' = NewMatch(sim.match + 1, sim.memories, sim.arrived)
  BY DEF NextMatch
<1>. QED  BY <1>1, <1>2, NewBooks DEF BooksInv, Books

LEMMA BooksBegin == SimInit => BooksInv
<1>. SUFFICES ASSUME SimInit PROVE BooksInv
  OBVIOUS
<1>1. 1 \in DOMAIN SimMatches
  BY SimAssumption
<1>2. Memory(BlankMemory)
  BY DEF Memory, BlankMemory
<1>3. \A a \in DOMAIN SimAgents : Memory([b \in DOMAIN SimAgents |-> BlankMemory][a])
  BY <1>2
<1>4. Books(NewMatch(1, [a \in DOMAIN SimAgents |-> BlankMemory], 0))
  BY <1>1, <1>3, NewBooks
<1>. QED  BY <1>4, SimBegins DEF BooksInv, SimInit

\* No vault of a run ever refuses a lock sized for it, which would end the run
\* with an error, and between two bettors nothing is locked and each vault has
\* gained what its bettors have lost, over any matches, agents and bettors
\* (runMatch, SimVault, fillArrival).
THEOREM SimulatedBooksAlwaysBalance ==
    ASSUME WholeTables
    PROVE  SimSpec => []SimulatedBooksBalance
<1>1. BooksInv /\ [SimNext]_simVars => BooksInv'
  <2>. SUFFICES ASSUME BooksInv, [SimNext]_simVars PROVE BooksInv'
    OBVIOUS
  <2>1. SimInv'
    <3>1. SimInv /\ UNCHANGED simVars => SimInv'
      BY DEF SimInv, InRun, Queued, NotVoided, RowCovered, simVars
    <3>. QED  BY <3>1, OpenMarketKeeps, ArriveKeeps, NextMatchKeeps, SimulateHoldsKeeps
              DEF SimNext, BooksInv
  <2>2. Books(sim')
    <3>1. CASE sim' = sim
      BY <3>1 DEF BooksInv
    <3>2. CASE OpenMarket
      BY <3>2, OpenKeepsBooks
    <3>3. CASE Arrive
      BY <3>3, ArriveKeepsBooks
    <3>4. CASE NextMatch
      BY <3>4, NextMatchKeepsBooks
    <3>5. CASE SimulateHolds
      BY <3>1, <3>5 DEF SimulateHolds
    <3>. QED  BY <3>1, <3>2, <3>3, <3>4, <3>5 DEF SimNext, simVars
  <2>. QED  BY <2>1, <2>2 DEF BooksInv, Books
<1>2. BooksInv => SimulatedBooksBalance
  <2>. SUFFICES ASSUME BooksInv PROVE SimulatedBooksBalance
    OBVIOUS
  <2>1. ASSUME NEW a \in DOMAIN SimAgents
        PROVE  /\ sim.vaults[a].locked = 0
               /\ \A m \in DOMAIN Markets(sim) : sim.vaults[a].exposure[m] = 0
    <3>1. sim.vaults[a] \in Vaults(sim.match)
      BY DEF BooksInv, Books
    <3>. QED  BY <3>1 DEF Vaults, Markets
  <2>2. \A a \in DOMAIN SimAgents :
           sim.vaults[a].assets
               = InitialVault + SumTo([i \in DOMAIN sim.bets |->
                                         IF sim.bets[i].agent = a
                                         THEN sim.bets[i].stake - sim.bets[i].payout ELSE 0],
                                      Len(sim.bets))
    BY DEF BooksInv, Books, Gained, Gains, GainOf
  <2>. QED  BY <2>1, <2>2 DEF SimulatedBooksBalance, BooksInv, Books
<1>. QED  BY <1>1, <1>2, BooksBegin, PTL DEF SimSpec
=============================================================================
