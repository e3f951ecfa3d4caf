-------------------------------- MODULE Sample --------------------------------
\* Which items a budget keeps (internal/sample): not the first ones.
EXTENDS Integers, Sequences

Lesser(a, b) == IF a < b THEN a ELSE b
First(xs, n) == SubSeq(xs, 1, Lesser(n, Len(xs)))

\* sample.Strided: with budget b, every stride-th item first.
Strided(xs, b) ==
  IF b <= 0 \/ Len(xs) <= b THEN xs
  ELSE LET stride == (Len(xs) + b - 1) \div b
           Row(off) == [i \in 1..((Len(xs) - off + stride - 1) \div stride)
                          |-> xs[off + 1 + (i - 1) * stride]]
           upTo[k \in 0..stride] ==
             IF k = 0 THEN <<>> ELSE upTo[k - 1] \o Row(k - 1)
       IN  upTo[stride]

\* sample.Take: at most n of them, none left out when n is no limit.
Sampled(xs, n) == IF n <= 0 THEN xs ELSE First(Strided(xs, n), n)

\* What of xs is in S, in the order of xs.
Only(xs, S) ==
  LET upTo[i \in 0..Len(xs)] ==
        IF i = 0 THEN <<>>
        ELSE IF xs[i] \in S THEN Append(upTo[i - 1], xs[i]) ELSE upTo[i - 1]
  IN  upTo[Len(xs)]
===============================================================================
