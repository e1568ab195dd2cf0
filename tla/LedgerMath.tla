----------------------------- MODULE LedgerMath -----------------------------
(***************************************************************************)
(* The arithmetic the ledger of zyquant.backtest is built from.            *)
(*                                                                         *)
(* A total is defined by counting: the sum of f over S is the number of    *)
(* units f puts on S less the number of units it takes off.  No recursion  *)
(* is involved, so facts about totals follow from the cardinalities of     *)
(* finite sets, and TLC counts the units of the small instances directly.  *)
(***************************************************************************)
EXTENDS Integers, FiniteSets

\* The units of f over S: n of them for an x with f[x] = n > 0, else none.
Units(f, S) == UNION {{x} \X (1..f[x]) : x \in S}

Negated(f, S) == [x \in S |-> -f[x]]

\* sum(...) and math.fsum(...) over the sleeves, lots or demands in S.
Sum(f, S) == Cardinality(Units(f, S)) - Cardinality(Units(Negated(f, S), S))

MinOf(a, b) == IF a <= b THEN a ELSE b
MaxOf(a, b) == IF a >= b THEN a ELSE b

\* math.floor(n / unit) * unit for a positive unit.
FloorTo(n, unit) == (n \div unit) * unit

\* int(round(n / d)) for d > 0: Python rounds a tie to the even neighbour.
RoundHalfEven(n, d) ==
    LET down == n \div d
        twice == 2 * (n % d)
    IN  IF twice < d \/ (twice = d /\ down % 2 = 0) THEN down ELSE down + 1
=============================================================================
