----------------------------- MODULE Fractions -----------------------------
(***************************************************************************)
(* Exact arithmetic for the rules and reports the code computes in         *)
(* floating point: a fraction is a pair <<numerator, denominator>> in      *)
(* lowest terms, the denominator positive.                                 *)
(***************************************************************************)
EXTENDS Integers, FiniteSetsExt

gcd[p \in Nat \X Nat] == IF p[2] = 0 THEN p[1] ELSE gcd[<<p[2], p[1] % p[2]>>]
Abs(x) == IF x < 0 THEN -x ELSE x
Frac(n, d) == LET g == gcd[<<Abs(n), d>>] IN <<n \div g, d \div g>>
Whole1(n) == <<n, 1>>
Less(x, y) == x[1] * y[2] < y[1] * x[2]
AtMost(x, y) == ~Less(y, x)
Plus(x, y) == Frac(x[1] * y[2] + y[1] * x[2], x[2] * y[2])
Times(x, y) == Frac(x[1] * y[1], x[2] * y[2])
Minus(x, y) == Plus(x, <<-y[1], y[2]>>)
Milli(p) == Frac(p, 1000)
Larger(x, y) == IF Less(x, y) THEN y ELSE x

\* The sum of the values f has on S; the sum and the product of values that are fractions.
SumOver(f, S) == MapThenSumSet(LAMBDA x : f[x], S)
SumOfFractions(f, S) == FoldSet(LAMBDA x, acc : Plus(acc, f[x]), Whole1(0), S)
ProductOfFractions(f, S) == FoldSet(LAMBDA x, acc : Times(acc, f[x]), Whole1(1), S)
=============================================================================
