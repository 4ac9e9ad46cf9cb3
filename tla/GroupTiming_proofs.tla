------------------------- MODULE GroupTiming_proofs -------------------------
(***************************************************************************)
(* Facts about the arithmetic of GroupTiming, for all numbers.             *)
(***************************************************************************)
EXTENDS GroupTiming, TLAPS

(* The integer division of the code, on unsigned operands.                 *)
LEMMA DivMod ==
  ASSUME NEW a \in Nat, NEW b \in Nat \ {0}
  PROVE  /\ a \div b \in Nat
         /\ a % b \in 0 .. b - 1
         /\ a = b * (a \div b) + (a % b)
  OBVIOUS

(* Rounding up: the smallest multiple of b that is not below a.            *)
LEMMA CeilDivBounds ==
  ASSUME NEW a \in Nat, NEW b \in Nat \ {0}
  PROVE  /\ CeilDiv(a, b) \in Nat
         /\ CeilDiv(a, b) * b >= a
         /\ CeilDiv(a, b) * b < a + b
  BY DivMod DEF CeilDiv

LEMMA MulLess ==
  ASSUME NEW a \in Int, NEW b \in Int, NEW c \in Nat \ {0}, a * c < b * c
  PROVE  a < b
  OBVIOUS

LEMMA MulMono ==
  ASSUME NEW a \in Int, NEW b \in Int, NEW c \in Nat, a <= b
  PROVE  a * c <= b * c
  OBVIOUS

(* Any number with the bounds of CeilDivBounds is the rounded quotient.    *)
LEMMA CeilDivUnique ==
  ASSUME NEW a \in Nat, NEW b \in Nat \ {0}, NEW n \in Int,
         n * b >= a, n * b < a + b
  PROVE  n = CeilDiv(a, b)
<1> DEFINE c == CeilDiv(a, b)
<1>1. c \in Nat /\ c * b >= a /\ c * b < a + b
  BY CeilDivBounds
<1> HIDE DEF c
<1>2. n * b < (c + 1) * b /\ c * b < (n + 1) * b
  BY <1>1
<1>3. n < c + 1 /\ c < n + 1
  BY <1>1, <1>2, MulLess
<1> QED
  BY <1>1, <1>3 DEF c

LEMMA CeilDivMono ==
  ASSUME NEW a \in Nat, NEW b \in Nat, NEW d \in Nat \ {0}, a <= b
  PROVE  CeilDiv(a, d) <= CeilDiv(b, d)
<1> DEFINE x == CeilDiv(a, d)
           y == CeilDiv(b, d)
<1>1. x \in Nat /\ y \in Nat /\ x * d < a + d /\ y * d >= b
  BY CeilDivBounds
<1> HIDE DEF x, y
<1>2. x * d < (y + 1) * d
  BY <1>1
<1>3. x < y + 1
  BY <1>1, <1>2, MulLess
<1> QED
  BY <1>1, <1>3 DEF x, y

(* With the publisher's groups of a second, group nr begins at nr seconds. *)
LEMMA GroupStart ==
  ASSUME NEW t, t.timeScale \in Nat \ {0}, t.sampleDur \in Nat \ {0},
         NEW nr \in Nat
  PROVE  /\ GroupStartTime(t, nr, MoqGroupDurMS) = nr * t.timeScale
         /\ GroupStartNr(t, nr, MoqGroupDurMS)
              = CeilDiv(nr * t.timeScale, t.sampleDur)
         /\ GroupStartNr(t, nr, MoqGroupDurMS) \in Nat
<1> DEFINE x == nr * t.timeScale
<1>1. x \in Nat
  OBVIOUS
<1>2. nr * MoqGroupDurMS * t.timeScale = 1000 * x
  BY DEF MoqGroupDurMS
<1>3. (1000 * x) \div 1000 = x
  BY <1>1
<1>4. GroupStartTime(t, nr, MoqGroupDurMS) = x
  BY <1>2, <1>3 DEF GroupStartTime
<1> QED
  BY <1>1, <1>4, CeilDivBounds DEF GroupStartNr

LEMMA GroupStartMono ==
  ASSUME NEW t, t.timeScale \in Nat \ {0}, t.sampleDur \in Nat \ {0},
         NEW nr \in Nat
  PROVE  GroupStartNr(t, nr, MoqGroupDurMS) <= GroupStartNr(t, nr + 1, MoqGroupDurMS)
<1>1. nr * t.timeScale \in Nat /\ (nr + 1) * t.timeScale \in Nat
      /\ nr * t.timeScale <= (nr + 1) * t.timeScale
  OBVIOUS
<1>2. nr + 1 \in Nat
  OBVIOUS
<1> QED
  BY <1>1, <1>2, GroupStart, CeilDivMono

(* The strides of GenMoQGroup's loop cut a group into consecutive,         *)
(* non-empty objects of at most a batch.                                   *)
LEMMA ObjectStrides ==
  ASSUME NEW grp, grp.startNr \in Nat, grp.endNr \in Nat, grp.startNr <= grp.endNr,
         NEW B \in Nat \ {0}
  PROVE  /\ NrObjects(grp, B) \in Nat
         /\ \A k \in Nat : ObjectFirst(grp, B, k) \in Nat
         /\ ObjectFirst(grp, B, 0) = grp.startNr
         /\ ObjectFirst(grp, B, NrObjects(grp, B)) = grp.endNr
         /\ \A k \in 0 .. NrObjects(grp, B) - 1 :
              /\ ObjectFirst(grp, B, k) = grp.startNr + k * B
              /\ ObjectFirst(grp, B, k) < ObjectFirst(grp, B, k + 1)
              /\ ObjectFirst(grp, B, k + 1) <= ObjectFirst(grp, B, k) + B
<1> DEFINE len == grp.endNr - grp.startNr
           N == NrObjects(grp, B)
<1>0. len \in Nat
  OBVIOUS
<1>1. N \in Nat /\ N * B >= len /\ N * B < len + B
  <2> HIDE DEF len
  <2> QED
    BY <1>0, CeilDivBounds DEF NrObjects, len
<1> HIDE DEF N
<1>2. \A k \in Nat : k * B \in Nat
  OBVIOUS
<1>3. \A k \in Nat : ObjectFirst(grp, B, k) \in Nat
  BY <1>2 DEF ObjectFirst, MinOf
<1>4. ObjectFirst(grp, B, 0) = grp.startNr
  BY DEF ObjectFirst, MinOf
<1>5. ObjectFirst(grp, B, N) = grp.endNr
  BY <1>1 DEF ObjectFirst, MinOf
<1>6. ASSUME NEW k \in 0 .. N - 1
      PROVE  /\ ObjectFirst(grp, B, k) = grp.startNr + k * B
             /\ ObjectFirst(grp, B, k) < ObjectFirst(grp, B, k + 1)
             /\ ObjectFirst(grp, B, k + 1) <= ObjectFirst(grp, B, k) + B
  <2>1. k * B <= (N - 1) * B
    BY <1>1, MulMono
  <2>2. (N - 1) * B = N * B - B /\ (k + 1) * B = k * B + B
    BY <1>1
  <2>3. k * B < len
    BY <1>1, <1>2, <2>1, <2>2
  <2> QED
    BY <1>2, <2>2, <2>3 DEF ObjectFirst, MinOf
<1> QED
  BY <1>1, <1>3, <1>4, <1>5, <1>6 DEF N

(* A floor division is monotone, and brackets its dividend.                *)
LEMMA DivMono ==
  ASSUME NEW a \in Nat, NEW b \in Nat, NEW d \in Nat \ {0}, a <= b
  PROVE  a \div d <= b \div d
<1> DEFINE x == a \div d
           y == b \div d
<1>1. x \in Nat /\ y \in Nat /\ x * d <= a /\ b < (y + 1) * d
  BY DivMod
<1> HIDE DEF x, y
<1>2. x * d < (y + 1) * d
  BY <1>1
<1>3. x < y + 1
  BY <1>1, <1>2, MulLess
<1> QED
  BY <1>1, <1>3 DEF x, y

LEMMA DivBracket ==
  ASSUME NEW a \in Nat, NEW b \in Nat \ {0}
  PROVE  /\ a \div b \in Nat
         /\ (a \div b) * b <= a
         /\ a < (a \div b + 1) * b
  BY DivMod

(* CalcSample counts samples from the restart of the current loop period,  *)
(* that is from the first sample that starts in it.                        *)
LEMMA CalcSampleFromRestart ==
  ASSUME NEW t, t.sampleDur \in Nat \ {0}, t.loopDur \in Nat \ {0}, NEW n \in Nat
  PROVE  LET q == (n * t.sampleDur) \div t.loopDur
             c == CeilDiv(q * t.loopDur, t.sampleDur)
         IN  /\ q \in Nat
             /\ c \in Nat
             /\ c <= n
             /\ WrapTime(t, n) = c * t.sampleDur
             /\ CalcSample(t, n) = n - c
<1> DEFINE D == t.sampleDur
           L == t.loopDur
           q == (n * D) \div L
           wrap == q * L
           c == CeilDiv(wrap, D)
<1>1. D \in Nat \ {0} /\ L \in Nat \ {0} /\ n * D \in Nat
  OBVIOUS
<1>2. q \in Nat /\ wrap <= n * D /\ wrap \in Nat
  BY <1>1, DivBracket
<1>3. c \in Nat /\ c * D >= wrap /\ c * D < wrap + D
  <2> HIDE DEF wrap, D
  <2> QED
    BY <1>1, <1>2, CeilDivBounds
<1>4. c <= n
  <2> HIDE DEF c, wrap, D
  <2>1. c * D < (n + 1) * D
    BY <1>1, <1>2, <1>3
  <2> QED
    BY <1>1, <1>3, <2>1, MulLess
<1>5. WrapTime(t, n) = IF wrap % D > 0 THEN wrap + (D - (wrap % D)) ELSE wrap
  BY DEF WrapTime
<1>6. WrapTime(t, n) = c * D
  <2> HIDE DEF wrap, D
  <2>1. wrap \div D \in Nat /\ wrap % D \in 0 .. D - 1
        /\ wrap = D * (wrap \div D) + (wrap % D)
    BY <1>1, <1>2, DivMod
  <2> DEFINE m == wrap \div D
             r == wrap % D
  <2>2. c = IF r # 0 THEN m + 1 ELSE m
    BY DEF CeilDiv
  <2> HIDE DEF m, r, c
  <2>3. m \in Nat /\ r \in 0 .. D - 1 /\ wrap = D * m + r
    BY <2>1 DEF m, r
  <2>4. WrapTime(t, n) = IF r > 0 THEN wrap + (D - r) ELSE wrap
    BY <1>5 DEF r
  <2> QED
    BY <1>1, <2>2, <2>3, <2>4
<1>7. CalcSample(t, n) = n - c
  <2>1. n * D - c * D = (n - c) * D
    BY <1>1, <1>3
  <2>2. CalcSample(t, n) = (n * D - c * D) \div D
    BY <1>6 DEF CalcSample
  <2> HIDE DEF c, D
  <2>3. n - c \in Nat
    BY <1>3, <1>4
  <2>4. ((n - c) * D) \div D = n - c
    BY <1>1, <2>3
  <2> QED
    BY <2>1, <2>2, <2>4
<1> QED
  BY <1>2, <1>3, <1>4, <1>6, <1>7

(* What playing sample n of a track in a loop has to do: it does not       *)
(* underflow, finds a sample, begins again exactly where a loop period      *)
(* begins, and is followed by the next sample or the first one.             *)
PlaysAt(t, n) ==
  LET start == n * t.sampleDur
      restarts == \E w \in 0 .. start \div t.loopDur :
                    start - w * t.loopDur \in 0 .. t.sampleDur - 1
  IN  /\ WrapTime(t, n) <= start
      /\ CalcSample(t, n) \in 0 .. t.nrSamples - 1
      /\ CalcSample(t, n) = 0 <=> restarts
      /\ CalcSample(t, n + 1) \in {0, CalcSample(t, n) + 1}

LEMMA PlaysOn ==
  ASSUME NEW t, t.sampleDur \in Nat \ {0}, t.loopDur \in Nat \ {0},
         t.nrSamples \in Nat, t.loopDur <= t.nrSamples * t.sampleDur, NEW n \in Nat
  PROVE  PlaysAt(t, n)
<1> DEFINE D == t.sampleDur
           L == t.loopDur
           S == n * D
           q == S \div L
           c == CeilDiv(q * L, D)
           S1 == (n + 1) * D
           q1 == S1 \div L
           c1 == CeilDiv(q1 * L, D)
           restarts == \E w \in 0 .. q : S - w * L \in 0 .. D - 1
<1>1. D \in Nat \ {0} /\ L \in Nat \ {0} /\ n \in Nat /\ n + 1 \in Nat
      /\ t.nrSamples \in Nat /\ L <= t.nrSamples * D
  OBVIOUS
<1>2. /\ q \in Nat /\ c \in Nat /\ c <= n
      /\ WrapTime(t, n) = c * D
      /\ CalcSample(t, n) = n - c
  BY <1>1, CalcSampleFromRestart
<1>3. /\ q1 \in Nat /\ c1 \in Nat /\ c1 <= n + 1
      /\ CalcSample(t, n + 1) = n + 1 - c1
  <2> DEFINE n1 == n + 1
  <2>1. n1 \in Nat
    BY <1>1
  <2> HIDE DEF n1
  <2> DEFINE qq == (n1 * D) \div L
             cc == CeilDiv(qq * L, D)
  <2>2. qq \in Nat /\ cc \in Nat /\ cc <= n1 /\ CalcSample(t, n1) = n1 - cc
    BY <1>1, <2>1, CalcSampleFromRestart
  <2>3. qq = q1 /\ cc = c1
    BY DEF n1
  <2> HIDE DEF qq, cc, q1, c1
  <2> QED
    BY <1>1, <2>2, <2>3 DEF n1
<1> HIDE DEF D, L
<1>4. S \in Nat /\ S1 \in Nat /\ S1 = S + D
  BY <1>1
<1> HIDE DEF S, S1
<1>5. q * L <= S /\ S < (q + 1) * L /\ q1 * L <= S1 /\ S1 < (q1 + 1) * L
  BY <1>1, <1>4, DivBracket
<1>6. q \in Nat /\ q1 \in Nat /\ q * L \in Nat /\ q1 * L \in Nat
  BY <1>1, <1>2, <1>3
<1> HIDE DEF q, q1
<1>7. /\ c * D >= q * L /\ c * D < q * L + D
      /\ c1 * D >= q1 * L /\ c1 * D < q1 * L + D
  BY <1>1, <1>6, CeilDivBounds
<1>8. WrapTime(t, n) <= S
  <2> HIDE DEF c
  <2> QED
    BY <1>1, <1>2, MulMono DEF S
<1>9. CalcSample(t, n) \in 0 .. t.nrSamples - 1
  <2> HIDE DEF c
  <2>1. (n - c) * D = S - c * D
    BY <1>1, <1>2 DEF S
  <2>2. (q + 1) * L = q * L + L
    BY <1>1, <1>6
  <2>3. (n - c) * D < t.nrSamples * D
    BY <1>1, <1>2, <1>4, <1>5, <1>6, <1>7, <2>1, <2>2
  <2>4. n - c < t.nrSamples
    BY <1>1, <1>2, <2>3, MulLess
  <2> QED
    BY <1>1, <1>2, <2>4
<1>10. ASSUME restarts PROVE n = c
  <2>1. PICK w \in 0 .. q : S - w * L \in 0 .. D - 1
    BY <1>10
  <2>2. w * L <= q * L /\ w * L \in Nat
    BY <1>1, <1>6, MulMono
  <2>3. S >= q * L /\ S < q * L + D
    BY <1>1, <1>4, <1>5, <1>6, <2>1, <2>2
  <2> QED
    BY <1>1, <1>6, <2>3, CeilDivUnique DEF S
<1>11. ASSUME n = c PROVE restarts
  <2>1. S - q * L \in 0 .. D - 1
    BY <1>1, <1>4, <1>5, <1>6, <1>7, <1>11 DEF S
  <2> QED
    BY <1>6, <2>1
<1>12. (CalcSample(t, n) = 0) <=> restarts
  <2> HIDE DEF c, restarts
  <2>1. (CalcSample(t, n) = 0) <=> (n = c)
    BY <1>1, <1>2
  <2> QED
    BY <1>10, <1>11, <2>1
<1>13. ASSUME q1 = q PROVE CalcSample(t, n + 1) = CalcSample(t, n) + 1
  <2>1. c1 = c
    BY <1>13
  <2> HIDE DEF c, c1
  <2> QED
    BY <1>1, <1>2, <1>3, <2>1
<1>14. ASSUME q1 # q PROVE CalcSample(t, n + 1) = 0
  <2>1. q < q1 + 1
    <3>1. q * L < (q1 + 1) * L
      BY <1>1, <1>4, <1>5, <1>6
    <3> QED
      BY <1>1, <1>6, <3>1, MulLess
  <2>2. q1 >= q + 1
    BY <1>6, <1>14, <2>1
  <2>3. q1 * L >= (q + 1) * L
    BY <1>1, <1>6, <2>2, MulMono
  <2> HIDE DEF c1
  <2>4. n * D < c1 * D
    BY <1>1, <1>3, <1>4, <1>5, <1>6, <1>7, <2>3 DEF S
  <2>5. n < c1
    BY <1>1, <1>3, <2>4, MulLess
  <2> QED
    BY <1>1, <1>3, <2>5
<1>15. CalcSample(t, n + 1) \in {0, CalcSample(t, n) + 1}
  BY <1>13, <1>14
<1> QED
  BY <1>8, <1>9, <1>12, <1>15 DEF PlaysAt, S, q, D, L
=============================================================================
