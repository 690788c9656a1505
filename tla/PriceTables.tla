---------------------------- MODULE PriceTables ----------------------------
(***************************************************************************)
(* Exponential, logarithm and power for model checking: fixed point,       *)
(* rounded down, keeping the order of their arguments.                     *)
(***************************************************************************)
EXTENDS Integers

\* 1000 e^(x/1000), by eight terms, for x up to 2000.
Growth(x) ==
    LET acc[k \in 1..9] == IF k = 9 THEN 1000
                           ELSE 1000 + (x * acc[k + 1]) \div (1000 * k)
    IN  acc[1]

Squared(p) == (p * p) \div 10000

MCExpNeg(x) ==
    IF x >= 16000 THEN 0
    ELSE Squared(Squared(Squared(10000000 \div Growth(x \div 8))))

\* The smallest hundredth whose ExpNeg is at most p, up to 10.
ExpTable == [i \in 0..1000 |-> MCExpNeg(10 * i)]
MCNegLog(p) ==
    LET least[lo \in 0..1000, hi \in 0..1000] ==
            LET mid == (lo + hi) \div 2
            IN  IF hi - lo <= 1 THEN hi
                ELSE IF ExpTable[mid] <= p THEN least[lo, mid] ELSE least[mid, hi]
    IN  IF ExpTable[0] <= p THEN 0 ELSE 10 * least[0, 1000]

\* Roots of the clamped readings the instances use.
MCPower(m, quarters) ==
    CASE quarters = 0 -> 1000
      [] quarters = 4 -> m
      [] quarters = 2 -> (CASE m = 500 -> 707 [] m = 1000 -> 1000 [] m = 2000 -> 1414)
      [] quarters = 1 -> (CASE m = 500 -> 841 [] m = 1000 -> 1000 [] m = 2000 -> 1189)
=============================================================================
