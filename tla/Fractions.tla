------------------------------- MODULE Fractions -------------------------------
(***************************************************************************)
(* Exact arithmetic on fractions <<n, d>> in lowest terms, d > 0, standing *)
(* for the doubles of a numerical routine whose rounding is left out.      *)
(***************************************************************************)
LOCAL INSTANCE Integers
LOCAL INSTANCE FiniteSetsExt

LOCAL Size(n) == IF n < 0 THEN -n ELSE n

LOCAL gcd[m \in Nat, n \in Nat] == IF n = 0 THEN m ELSE gcd[n, m % n]

Frac(n, d) ==
  LET g == gcd[Size(n), Size(d)]
  IN  IF d < 0 THEN <<(-n) \div g, (-d) \div g>> ELSE <<n \div g, d \div g>>

Whole(n) == <<n, 1>>
Zero == Whole(0)

Plus(p, q) == Frac(p[1] * q[2] + q[1] * p[2], p[2] * q[2])
Minus(p, q) == Frac(p[1] * q[2] - q[1] * p[2], p[2] * q[2])
Scale(n, p) == Frac(n * p[1], p[2])
Over(p, n) == Frac(p[1], p[2] * n)

AtMost(p, q) == p[1] * q[2] <= q[1] * p[2]
Less(p, q) == ~AtMost(q, p)

Least(S) == CHOOSE p \in S : \A q \in S : AtMost(p, q)
Greatest(S) == CHOOSE p \in S : \A q \in S : AtMost(q, p)

\* The least common denominator of a set of fractions.
CommonDenominator(S) ==
  FoldSet(LAMBDA p, d : (d * p[2]) \div gcd[d, p[2]], 1, S)
================================================================================
