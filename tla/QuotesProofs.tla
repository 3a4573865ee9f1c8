---------------------------- MODULE QuotesProofs ----------------------------
(***************************************************************************)
(* The theorem that quotes of a V3 pool are executable, on top of those of *)
(* PoolsProofs.                                                            *)
(*                                                                         *)
(* A way between two prices is charged and gains what its parts do, but    *)
(* for a unit and its fee (ChargeSplit, GainSplit).  So the contract,      *)
(* which stops more often, keeps up with a quote if it has that much more  *)
(* for every border it comes past (KeepsUp, QuoteCovered), and a quote at  *)
(* its fee keeps up with the contract (Matches, QuoteMatched).  A quote    *)
(* for an output and one for the input it comes to take the same turns     *)
(* (Mirrors, QuoteBought).  The quote that runs is where the function      *)
(* Result is after as many turns (QuoteCame).                              *)
(***************************************************************************)
EXTENDS PoolsProofs
-----------------------------------------------------------------------------
(* Rounded quotients of sums, of multiples and of quotients. *)

(* Whatever bounds the one from above bounds the other: they are equal.    *)
LEMMA SameBounds ==
    ASSUME NEW a \in Nat, NEW b \in Nat, \A m \in Nat : a <= m <=> b <= m PROVE a = b
OBVIOUS

(* And from below.                                                         *)
LEMMA SameBoundsBelow ==
    ASSUME NEW a \in Nat, NEW b \in Nat, \A m \in Nat : m <= a <=> m <= b PROVE a = b
OBVIOUS

(* A floor by what it is not below.                                        *)
LEMMA FloorBounds ==
    ASSUME NEW n \in Nat, NEW d \in Nat, d > 0
    PROVE  n \div d \in Nat /\ \A m \in Nat : m <= n \div d <=> m * d <= n
<1>1. PICK q \in Nat : q = n \div d /\ q * d <= n /\ n < q * d + d
  BY Floors
<1>2. ASSUME NEW m \in Nat, m <= q PROVE m * d <= n
  <2>1. m * d <= q * d /\ m * d \in Nat /\ q * d \in Nat
    BY <1>2, TimesMonotone, TimesNat
  <2> QED
    BY <1>1, <2>1
<1>3. ASSUME NEW m \in Nat, m * d <= n PROVE m <= q
  <2>1. SUFFICES ASSUME q + 1 <= m PROVE FALSE
    OBVIOUS
  <2>2. (q + 1) * d <= m * d
    BY <2>1, TimesMonotone
  <2>3. (q + 1) * d = q * d + d /\ q * d \in Nat /\ m * d \in Nat
    BY TimesNat
  <2> QED
    BY <1>1, <1>3, <2>2, <2>3
<1> QED
  BY <1>1, <1>2, <1>3

(* Two ceilings are at most one above that of the sum, never below.        *)
LEMMA CeilingSum ==
    ASSUME NEW n \in Nat, NEW k \in Nat, NEW d \in Nat, d > 0
    PROVE  /\ DivCeil(n + k, d) <= DivCeil(n, d) + DivCeil(k, d)
           /\ DivCeil(n, d) + DivCeil(k, d) <= DivCeil(n + k, d) + 1
<1>1. PICK a \in Nat : a = DivCeil(n, d) /\ n <= a * d /\ \A m \in Nat : m < a <=> m * d < n
  BY Ceilings
<1>2. PICK b \in Nat : b = DivCeil(k, d) /\ k <= b * d /\ \A m \in Nat : m < b <=> m * d < k
  BY Ceilings
<1>0. PICK s \in Nat : s = n + k
  OBVIOUS
<1>3. PICK c \in Nat : c = DivCeil(s, d) /\ \A m \in Nat : (c <= m <=> s <= m * d) /\ (m < c <=> m * d < s)
  BY Ceilings
<1>4. c <= a + b
  <2>1. (a + b) * d = a * d + b * d /\ a * d \in Nat /\ b * d \in Nat
    BY TimesNat
  <2>2. n + k <= (a + b) * d
    BY <1>1, <1>2, <2>1
  <2> QED
    BY <1>0, <1>3, <2>2
<1>5. CASE a = 0
  <2>1. n = 0
    BY <1>1, <1>5
  <2> QED
    BY <1>1, <1>0, <1>2, <1>3, <1>4, <1>5, <2>1
<1>6. CASE b = 0
  <2>1. k = 0
    BY <1>2, <1>6
  <2> QED
    BY <1>1, <1>0, <1>2, <1>3, <1>4, <1>6, <2>1
<1>7. CASE a > 0 /\ b > 0
  <2>1. PICK x \in Nat, y \in Nat : a = x + 1 /\ b = y + 1
    <3>1. a - 1 \in Nat /\ b - 1 \in Nat /\ a = (a - 1) + 1 /\ b = (b - 1) + 1
      BY <1>7
    <3> QED
      BY <3>1
  <2>2. x * d < n /\ y * d < k
    BY <1>1, <1>2, <2>1
  <2>3. (x + y) * d = x * d + y * d /\ x * d \in Nat /\ y * d \in Nat
    BY TimesNat
  <2>4. (x + y) * d < n + k
    BY <2>2, <2>3
  <2>5. x + y < c
    BY <1>0, <1>3, <2>4
  <2> QED
    BY <1>0, <1>1, <1>2, <1>3, <1>4, <2>1, <2>5
<1> QED
  BY <1>5, <1>6, <1>7

(* Two floors are at most one below that of the sum, never above.          *)
LEMMA FloorSum ==
    ASSUME NEW n \in Nat, NEW k \in Nat, NEW d \in Nat, d > 0
    PROVE  /\ n \div d + k \div d <= (n + k) \div d
           /\ (n + k) \div d <= n \div d + k \div d + 1
<1>1. PICK a \in Nat : a = n \div d /\ a * d <= n /\ n < a * d + d
  BY Floors
<1>2. PICK b \in Nat : b = k \div d /\ b * d <= k /\ k < b * d + d
  BY Floors
<1>3. PICK c \in Nat : c = (n + k) \div d /\ \A m \in Nat : m <= c <=> m * d <= n + k
  BY FloorBounds
<1>4. a * d \in Nat /\ b * d \in Nat /\ (a + b) * d = a * d + b * d /\ (a + b + 2) * d = a * d + b * d + d + d
  BY TimesNat
<1>5. a + b <= c
  BY <1>1, <1>2, <1>3, <1>4
<1>6. ~(a + b + 2 <= c)
  BY <1>1, <1>2, <1>3, <1>4
<1> QED
  BY <1>1, <1>2, <1>3, <1>5, <1>6

(* A rounded quotient rises with its numerator.                            *)
LEMMA CeilingMonotone ==
    ASSUME NEW n \in Nat, NEW k \in Nat, n <= k, NEW d \in Nat, d > 0 PROVE DivCeil(n, d) <= DivCeil(k, d)
<1>1. PICK c \in Nat : c = DivCeil(k, d) /\ k <= c * d
  BY Ceilings
<1>2. n <= c * d
  BY <1>1, TimesNat
<1> QED
  BY <1>1, <1>2, Ceilings

(* A common factor makes no difference.                                    *)
LEMMA Scaled ==
    ASSUME NEW n \in Nat, NEW d \in Nat, d > 0, NEW k \in Nat, k > 0
    PROVE  DivCeil(n * k, d * k) = DivCeil(n, d) /\ (n * k) \div (d * k) = n \div d
<1>1. PICK p \in Nat, e \in Nat : p = n * k /\ e = d * k /\ e > 0
  BY TimesNat, TimesPositive
<1>2. ASSUME NEW m \in Nat PROVE (p <= m * e <=> n <= m * d) /\ (m * e <= p <=> m * d <= n)
  <2>1. PICK x \in Nat : x = m * d
    BY TimesNat
  <2>2. m * e = x * k
    BY <1>1, <2>1
  <2>3. (n <= x => n * k <= x * k) /\ (x <= n => x * k <= n * k)
    BY TimesMonotone
  <2>4. (n * k <= x * k => n <= x) /\ (x * k <= n * k => x <= n)
    BY Cancels
  <2> QED
    BY <1>1, <2>1, <2>2, <2>3, <2>4
<1>3. PICK a \in Nat : a = DivCeil(p, e) /\ \A m \in Nat : a <= m <=> p <= m * e
  BY <1>1, Ceilings
<1>4. PICK b \in Nat : b = DivCeil(n, d) /\ \A m \in Nat : b <= m <=> n <= m * d
  BY Ceilings
<1>5. a = b
  BY <1>2, <1>3, <1>4, SameBounds
<1>6. PICK f \in Nat : f = p \div e /\ \A m \in Nat : m <= f <=> m * e <= p
  BY <1>1, FloorBounds
<1>7. PICK g \in Nat : g = n \div d /\ \A m \in Nat : m <= g <=> m * d <= n
  BY FloorBounds
<1>8. f = g
  BY <1>2, <1>6, <1>7, SameBoundsBelow
<1> QED
  BY <1>1, <1>3, <1>4, <1>5, <1>6, <1>7, <1>8

(* Two divisions are one by the product.                                   *)
LEMMA Nested ==
    ASSUME NEW n \in Nat, NEW u \in Nat, NEW l \in Nat, u > 0, l > 0
    PROVE  DivCeil(DivCeil(n, u), l) = DivCeil(n, l * u) /\ (n \div u) \div l = n \div (l * u)
<1>1. PICK e \in Nat : e = l * u /\ e > 0
  BY TimesNat, TimesPositive
<1>2. ASSUME NEW m \in Nat PROVE m * l \in Nat /\ (m * l) * u = m * e
  BY <1>1, TimesNat
<1>3. PICK c \in Nat : c = DivCeil(n, u) /\ \A m \in Nat : c <= m <=> n <= m * u
  BY Ceilings
<1>4. PICK a \in Nat : a = DivCeil(c, l) /\ \A m \in Nat : a <= m <=> c <= m * l
  BY Ceilings
<1>5. PICK b \in Nat : b = DivCeil(n, e) /\ \A m \in Nat : b <= m <=> n <= m * e
  BY <1>1, Ceilings
<1>6. a = b
  <2>1. \A m \in Nat : a <= m <=> b <= m
    BY <1>2, <1>3, <1>4, <1>5
  <2> QED
    BY <2>1, SameBounds
<1>7. PICK f \in Nat : f = n \div u /\ \A m \in Nat : m <= f <=> m * u <= n
  BY FloorBounds
<1>8. PICK g \in Nat : g = f \div l /\ \A m \in Nat : m <= g <=> m * l <= f
  BY FloorBounds
<1>9. PICK h \in Nat : h = n \div e /\ \A m \in Nat : m <= h <=> m * e <= n
  BY <1>1, FloorBounds
<1>10. g = h
  <2>1. \A m \in Nat : m <= g <=> m <= h
    BY <1>2, <1>7, <1>8, <1>9
  <2> QED
    BY <2>1, SameBoundsBelow
<1> QED
  BY <1>1, <1>3, <1>4, <1>5, <1>6, <1>7, <1>8, <1>9, <1>10
-----------------------------------------------------------------------------
(* Costs and gains of the contract in exact fractions. *)

(* Nothing stays nothing.                                                  *)
LEMMA OfNothing == ASSUME NEW d \in Nat, d > 0 PROVE DivCeil(0, d) = 0 /\ 0 \div d = 0
<1>1. DivCeil(0, d) \in Nat /\ (DivCeil(0, d) <= 0 <=> 0 <= 0 * d)
  BY Ceilings
<1>2. 0 \div d \in Nat /\ (0 \div d) * d <= 0
  BY Floors
<1>3. PICK f \in Nat : f = 0 \div d /\ f * d <= 0
  BY <1>2
<1>4. f = 0
  <2>1. f > 0 => f * d > 0
    BY TimesPositive
  <2> QED
    BY <1>3, <2>1
<1> QED
  BY <1>1, <1>3, <1>4

(* By direction; a way of no length costs nothing in either.               *)
LEMMA CostOf ==
    ASSUME NEW L \in 0..UMax, NEW from \in Ratios, NEW to \in Ratios, NEW down \in BOOLEAN,
           Heads(from, to, down)
    PROVE  /\ Cost(L, from, to) =
                IF down THEN DivCeil((L * Q) * (from - to), from * to) ELSE DivCeil(L * (to - from), Q)
           /\ Gain(L, from, to) =
                IF down THEN (L * (from - to)) \div Q ELSE ((L * Q) * (to - from)) \div (from * to)
<1>1. from \in Nat /\ to \in Nat /\ from * to \in Nat /\ from * to > 0
  BY RatiosAre, TimesNat, TimesPositive
<1>2. L \in Nat /\ L * Q \in Nat /\ Q \in Nat /\ Q > 0
  BY NumeratorIs, WidthsOfQuotes
<1>3. CASE down
  BY <1>3 DEF Heads, Cost, Gain
<1>4. CASE ~down /\ from # to
  <2>1. ~(to <= from)
    BY <1>1, <1>4 DEF Heads
  <2> QED
    BY <1>4, <2>1 DEF Cost, Gain
<1>5. CASE ~down /\ from = to
  <2>1. to <= from /\ (L * Q) * (from - to) = 0 /\ L * (to - from) = 0 /\ L * (from - to) = 0
        /\ (L * Q) * (to - from) = 0
    BY <1>1, <1>2, <1>5
  <2>2. Cost(L, from, to) = 0 /\ Gain(L, from, to) = 0
    <3>1. Cost(L, from, to) = DivCeil(0, from * to) /\ Gain(L, from, to) = 0 \div Q
      BY <2>1, Zenon DEF Cost, Gain
    <3> QED
      BY <1>1, <1>2, <3>1, OfNothing
  <2>3. DivCeil(L * (to - from), Q) = 0 /\ ((L * Q) * (to - from)) \div (from * to) = 0
    BY <1>1, <1>2, <2>1, OfNothing
  <2> QED
    BY <1>5, <2>2, <2>3
<1> QED
  BY <1>3, <1>4, <1>5

(* They are the amounts of compute_swap_step.                              *)
LEMMA AmountsAre ==
    ASSUME NEW L \in 0..UMax, NEW from \in Ratios, NEW to \in Ratios, NEW down \in BOOLEAN,
           Heads(from, to, down)
    PROVE  /\ AmountIn(from, to, L, down) = Cost(L, from, to)
           /\ AmountOut(from, to, L, down) = Gain(L, from, to)
<1>1. from \in Nat /\ to \in Nat /\ from > 0 /\ to > 0
  BY RatiosAre
<1>2. L \in Nat /\ L * Q \in Nat /\ Q \in Nat /\ Q > 0
  BY NumeratorIs, WidthsOfQuotes
<1>3. CASE down
  <2>1. to <= from
    BY <1>3 DEF Heads
  <2>2. GetAmount0Delta(to, from, L, TRUE) = Cost(L, from, to)
    <3>1. GetAmount0Delta(to, from, L, TRUE) = DivCeil(DivCeil((L * Q) * (from - to), from), to)
      BY <2>1, Amount0Is
    <3>2. PICK n \in Nat : n = (L * Q) * (from - to)
      <4>1. from - to \in Nat
        BY <1>1, <2>1
      <4> QED
        BY <1>2, <4>1, TimesNat
    <3>3. DivCeil(DivCeil(n, from), to) = DivCeil(n, to * from) /\ to * from = from * to
      BY <1>1, Nested, TimesNat
    <3>4. Cost(L, from, to) = DivCeil(n, from * to)
      BY <1>3, <3>2, CostOf
    <3> QED
      BY <3>1, <3>2, <3>3, <3>4
  <2>3. GetAmount1Delta(to, from, L, FALSE) = Gain(L, from, to)
    <3>1. GetAmount1Delta(to, from, L, FALSE) = (L * (from - to)) \div Q
      BY <2>1, Amount1Exact, ZenonT(40)
    <3> QED
      BY <1>3, <3>1, CostOf
  <2> QED
    BY <1>3, <2>2, <2>3 DEF AmountIn, AmountOut
<1>4. CASE ~down
  <2>1. from <= to
    BY <1>4 DEF Heads
  <2>2. GetAmount0Delta(from, to, L, FALSE) = Gain(L, from, to)
    <3>1. GetAmount0Delta(from, to, L, FALSE) = (((L * Q) * (to - from)) \div to) \div from
      BY <2>1, Amount0Is
    <3>2. PICK n \in Nat : n = (L * Q) * (to - from)
      <4>1. to - from \in Nat
        BY <1>1, <2>1
      <4> QED
        BY <1>2, <4>1, TimesNat
    <3>3. (n \div to) \div from = n \div (from * to)
      BY <1>1, Nested
    <3>4. Gain(L, from, to) = n \div (from * to)
      BY <1>4, <3>2, CostOf
    <3> QED
      BY <3>1, <3>2, <3>3, <3>4
  <2>3. GetAmount1Delta(from, to, L, TRUE) = Cost(L, from, to)
    <3>1. GetAmount1Delta(from, to, L, TRUE) = DivCeil(L * (to - from), Q)
      BY <2>1, Amount1Exact, ZenonT(40)
    <3> QED
      BY <1>4, <3>1, CostOf
  <2> QED
    BY <1>4, <2>2, <2>3 DEF AmountIn, AmountOut
<1> QED
  BY <1>3, <1>4
-----------------------------------------------------------------------------
(* The two parts of a way, over a common denominator. *)

(* What a numerator holds of token0 between two prices.                    *)
Ceil0(N, x, y) == DivCeil(N * (x - y), x * y)
Floor0(N, x, y) == (N * (x - y)) \div (x * y)

(* Both parts and the whole over one denominator.                          *)
InParts(N, x, m, y, a, b, d) ==
    /\ d > 0
    /\ Ceil0(N, x, m) = DivCeil(a, d) /\ Floor0(N, x, m) = a \div d
    /\ Ceil0(N, m, y) = DivCeil(b, d) /\ Floor0(N, m, y) = b \div d
    /\ Ceil0(N, x, y) = DivCeil(a + b, d) /\ Floor0(N, x, y) = (a + b) \div d

(* Of token0: over x * m * y.                                              *)
LEMMA Parts0 ==
    ASSUME NEW N \in Nat, NEW x \in Nat, NEW m \in Nat, NEW y \in Nat, y > 0, y <= m, m <= x
    PROVE  \E a \in Nat, b \in Nat, d \in Nat : InParts(N, x, m, y, a, b, d)
<1>1. x > 0 /\ m > 0 /\ y > 0
  OBVIOUS
<1>2. PICK xm \in Nat, my \in Nat, xy \in Nat, d \in Nat :
        /\ xm = x * m /\ my = m * y /\ xy = x * y /\ d = xm * y
        /\ xm > 0 /\ my > 0 /\ xy > 0 /\ d > 0
  <2>1. PICK xm \in Nat, my \in Nat, xy \in Nat : xm = x * m /\ my = m * y /\ xy = x * y /\ xm > 0 /\ my > 0 /\ xy > 0
    BY <1>1, TimesNat, TimesPositive
  <2>2. xm * y \in Nat /\ xm * y > 0
    BY <1>1, <2>1, TimesNat, TimesPositive
  <2> QED
    BY <2>1, <2>2
<1>3. d = my * x /\ d = xy * m
  BY <1>2
<1>4. PICK u \in Nat, v \in Nat, w \in Nat : u = x - m /\ v = m - y /\ w = x - y /\ w = u + v
  <2>1. x - m \in Nat /\ m - y \in Nat /\ x - y \in Nat /\ x - y = (x - m) + (m - y)
    OBVIOUS
  <2> QED
    BY <2>1
<1>5. PICK Nu \in Nat, Nv \in Nat, Nw \in Nat : Nu = N * u /\ Nv = N * v /\ Nw = N * w
  BY TimesNat
<1>6. PICK a \in Nat, b \in Nat, c \in Nat : a = Nu * y /\ b = Nv * x /\ c = Nw * m
  BY TimesNat
<1>7. c = a + b
  <2>1. w * m = u * y + v * x
    <3>1. m = y + v /\ x = y + v + u
      BY <1>4
    <3> QED
      BY <1>4, <3>1
  <2>2. N * (w * m) = N * (u * y + v * x)
    BY <2>1
  <2>3. N * (w * m) = c /\ N * (u * y + v * x) = a + b
    BY <1>5, <1>6
  <2> QED
    BY <2>2, <2>3
<1>8. DivCeil(Nu, xm) = DivCeil(a, d) /\ Nu \div xm = a \div d
  BY <1>1, <1>2, <1>6, Scaled
<1>9. DivCeil(Nv, my) = DivCeil(b, d) /\ Nv \div my = b \div d
  <2>1. DivCeil(Nv * x, my * x) = DivCeil(Nv, my) /\ (Nv * x) \div (my * x) = Nv \div my
    BY <1>1, <1>2, Scaled
  <2> QED
    BY <1>3, <1>6, <2>1
<1>10. DivCeil(Nw, xy) = DivCeil(a + b, d) /\ Nw \div xy = (a + b) \div d
  <2>1. DivCeil(Nw * m, xy * m) = DivCeil(Nw, xy) /\ (Nw * m) \div (xy * m) = Nw \div xy
    BY <1>1, <1>2, Scaled
  <2> QED
    BY <1>3, <1>6, <1>7, <2>1
<1>11. /\ Ceil0(N, x, m) = DivCeil(Nu, xm) /\ Floor0(N, x, m) = Nu \div xm
       /\ Ceil0(N, m, y) = DivCeil(Nv, my) /\ Floor0(N, m, y) = Nv \div my
       /\ Ceil0(N, x, y) = DivCeil(Nw, xy) /\ Floor0(N, x, y) = Nw \div xy
  BY <1>2, <1>4, <1>5, Zenon DEF Ceil0, Floor0
<1>12. /\ Ceil0(N, x, m) = DivCeil(a, d) /\ Floor0(N, x, m) = a \div d
       /\ Ceil0(N, m, y) = DivCeil(b, d) /\ Floor0(N, m, y) = b \div d
       /\ Ceil0(N, x, y) = DivCeil(a + b, d) /\ Floor0(N, x, y) = (a + b) \div d
  BY <1>8, <1>9, <1>10, <1>11, Zenon
<1>13. d > 0
  BY <1>2
<1>14. InParts(N, x, m, y, a, b, d)
  BY <1>12, <1>13, Zenon DEF InParts
<1> QED
  BY <1>14, Zenon

(* Of token1: the differences add up.                                      *)
LEMMA Parts1 ==
    ASSUME NEW L \in Nat, NEW x \in Nat, NEW m \in Nat, NEW y \in Nat, y <= m, m <= x
    PROVE  \E a \in Nat, b \in Nat :
             a = L * (x - m) /\ b = L * (m - y) /\ L * (x - y) = a + b
<1>1. PICK u \in Nat, v \in Nat, w \in Nat : u = x - m /\ v = m - y /\ w = x - y /\ w = u + v
  <2>1. x - m \in Nat /\ m - y \in Nat /\ x - y \in Nat /\ x - y = (x - m) + (m - y)
    OBVIOUS
  <2> QED
    BY <2>1
<1>2. L * u \in Nat /\ L * v \in Nat /\ L * w = L * u + L * v
  BY <1>1, TimesNat
<1> QED
  BY <1>1, <1>2

(* On the way from one price to another by a third.                        *)
By(from, m, to, down) ==
    /\ from \in Ratios /\ m \in Ratios /\ to \in Ratios /\ down \in BOOLEAN
    /\ Heads(from, m, down) /\ Heads(m, to, down)

(* Prices in a direction are in a line.                                    *)
LEMMA HeadsOn ==
    ASSUME NEW a \in Ratios, NEW b \in Ratios, NEW down \in BOOLEAN
    PROVE  /\ Heads(a, a, down) /\ (Heads(a, b, down) \/ Heads(b, a, down))
           /\ Heads(a, b, down) /\ Heads(b, a, down) => a = b
           /\ \A c \in Ratios : Heads(a, b, down) /\ Heads(b, c, down) => Heads(a, c, down)
<1>1. \A c \in Ratios : c \in Nat
  BY RatiosAre
<1> QED
  BY <1>1 DEF Heads

(* The cost of a way and of its parts over one denominator.                *)
LEMMA CostParts ==
    ASSUME NEW L \in 0..UMax, NEW from, NEW m, NEW to, NEW down, By(from, m, to, down)
    PROVE  \E a \in Nat, b \in Nat, d \in Nat :
             /\ d > 0 /\ Cost(L, from, m) = DivCeil(a, d) /\ Cost(L, m, to) = DivCeil(b, d)
             /\ Cost(L, from, to) = DivCeil(a + b, d)
<1>1. /\ from \in Ratios /\ m \in Ratios /\ to \in Ratios /\ down \in BOOLEAN
      /\ Heads(from, m, down) /\ Heads(m, to, down) /\ Heads(from, to, down)
  BY HeadsOn DEF By
<1>2. from \in Nat /\ m \in Nat /\ to \in Nat /\ from > 0 /\ m > 0 /\ to > 0
  BY <1>1, RatiosAre
<1>3. L \in Nat /\ L * Q \in Nat /\ Q \in Nat /\ Q > 0
  BY NumeratorIs, WidthsOfQuotes
<1>4. CASE down
  <2>1. to <= m /\ m <= from
    BY <1>1, <1>4 DEF Heads
  <2>2. PICK N \in Nat : N = L * Q
    BY <1>3
  <2>3. PICK a \in Nat, b \in Nat, d \in Nat : InParts(N, from, m, to, a, b, d)
    BY <1>2, <2>1, Parts0
  <2>4. /\ Cost(L, from, m) = DivCeil(N * (from - m), from * m)
        /\ Cost(L, m, to) = DivCeil(N * (m - to), m * to)
        /\ Cost(L, from, to) = DivCeil(N * (from - to), from * to)
    BY <1>1, <1>4, <2>2, CostOf
  <2> QED
    BY <2>3, <2>4 DEF InParts, Ceil0
<1>5. CASE ~down
  <2>1. from <= m /\ m <= to
    BY <1>1, <1>5 DEF Heads
  <2>2. PICK b \in Nat, a \in Nat : b = L * (to - m) /\ a = L * (m - from) /\ L * (to - from) = b + a
    BY <1>2, <1>3, <2>1, Parts1
  <2>3. /\ Cost(L, from, m) = DivCeil(a, Q) /\ Cost(L, m, to) = DivCeil(b, Q)
        /\ Cost(L, from, to) = DivCeil(b + a, Q)
    BY <1>1, <1>5, <2>2, CostOf
  <2>4. b + a = a + b
    OBVIOUS
  <2> QED
    BY <1>3, <2>3, <2>4
<1> QED
  BY <1>4, <1>5

GainInParts(L, from, m, to, a, b, d) ==
    /\ d > 0 /\ Gain(L, from, m) = a \div d /\ Gain(L, m, to) = b \div d
    /\ Gain(L, from, to) = (a + b) \div d

(* And what they gain.                                                     *)
LEMMA GainParts ==
    ASSUME NEW L \in 0..UMax, NEW from, NEW m, NEW to, NEW down, By(from, m, to, down)
    PROVE  \E a \in Nat, b \in Nat, d \in Nat : GainInParts(L, from, m, to, a, b, d)
<1>1. /\ from \in Ratios /\ m \in Ratios /\ to \in Ratios /\ down \in BOOLEAN
      /\ Heads(from, m, down) /\ Heads(m, to, down) /\ Heads(from, to, down)
  BY HeadsOn DEF By
<1>2. from \in Nat /\ m \in Nat /\ to \in Nat /\ from > 0 /\ m > 0 /\ to > 0
  BY <1>1, RatiosAre
<1>3. L \in Nat /\ L * Q \in Nat /\ Q \in Nat /\ Q > 0
  BY NumeratorIs, WidthsOfQuotes
<1>4. CASE ~down
  <2>1. from <= m /\ m <= to
    BY <1>1, <1>4 DEF Heads
  <2>2. PICK N \in Nat : N = L * Q
    BY <1>3
  <2>3. PICK b \in Nat, a \in Nat, d \in Nat : InParts(N, to, m, from, b, a, d)
    BY <1>2, <2>1, Parts0
  <2>4. from * m = m * from /\ m * to = to * m /\ from * to = to * from /\ b + a = a + b
    BY <1>2, TimesNat
  <2>5. /\ Gain(L, from, m) = (N * (m - from)) \div (from * m)
        /\ Gain(L, m, to) = (N * (to - m)) \div (m * to)
        /\ Gain(L, from, to) = (N * (to - from)) \div (from * to)
    BY <1>1, <1>4, <2>2, CostOf
  <2>6. /\ Gain(L, from, m) = a \div d /\ Gain(L, m, to) = b \div d
        /\ Gain(L, from, to) = (a + b) \div d
    BY <2>3, <2>4, <2>5, Zenon DEF InParts, Floor0
  <2>7. d > 0
    BY <2>3 DEF InParts
  <2>8. GainInParts(L, from, m, to, a, b, d)
    BY <2>6, <2>7, Zenon DEF GainInParts
  <2> QED
    BY <2>8, Zenon
<1>5. CASE down
  <2>1. to <= m /\ m <= from
    BY <1>1, <1>5 DEF Heads
  <2>2. PICK a \in Nat, b \in Nat : a = L * (from - m) /\ b = L * (m - to) /\ L * (from - to) = a + b
    BY <1>2, <1>3, <2>1, Parts1
  <2>3. /\ Gain(L, from, m) = (L * (from - m)) \div Q
        /\ Gain(L, m, to) = (L * (m - to)) \div Q
        /\ Gain(L, from, to) = (L * (from - to)) \div Q
    BY <1>1, <1>5, CostOf
  <2>4. GainInParts(L, from, m, to, a, b, Q)
    BY <1>3, <2>2, <2>3 DEF GainInParts
  <2> QED
    BY <1>3, <2>4, Zenon
<1> QED
  BY <1>4, <1>5
-----------------------------------------------------------------------------
(* A way in two parts costs as much as the whole of it, or one unit more;  *)
(* it gains as much, or one unit less.                                     *)
CostsAdd(all, first, rest) ==
    /\ all \in Nat /\ first \in Nat /\ rest \in Nat
    /\ first <= all /\ all <= first + rest /\ first + rest <= all + 1
GainsAdd(all, first, rest) ==
    /\ all \in Nat /\ first \in Nat /\ rest \in Nat
    /\ first <= all /\ first + rest <= all /\ all <= first + rest + 1

(* Of a cost: out of its sum over one denominator.                         *)
LEMMA CostSplit ==
    ASSUME NEW L \in 0..UMax, NEW from, NEW m, NEW to, NEW down, By(from, m, to, down)
    PROVE  CostsAdd(Cost(L, from, to), Cost(L, from, m), Cost(L, m, to))
<1>1. PICK a \in Nat, b \in Nat, d \in Nat :
        /\ d > 0 /\ Cost(L, from, m) = DivCeil(a, d) /\ Cost(L, m, to) = DivCeil(b, d)
        /\ Cost(L, from, to) = DivCeil(a + b, d)
  BY CostParts
<1>2. PICK x \in Nat, y \in Nat, z \in Nat : x = DivCeil(a, d) /\ y = DivCeil(b, d) /\ z = DivCeil(a + b, d)
  <2>1. a + b \in Nat
    OBVIOUS
  <2> QED
    BY <1>1, <2>1, Ceilings
<1>3. z <= x + y /\ x + y <= z + 1
  BY <1>1, <1>2, CeilingSum
<1>4. x <= z
  <2>1. a + b \in Nat /\ a <= a + b
    OBVIOUS
  <2> QED
    BY <1>1, <1>2, <2>1, CeilingMonotone
<1> QED
  BY <1>1, <1>2, <1>3, <1>4 DEF CostsAdd

(* Of a gain.                                                              *)
LEMMA GainSplit ==
    ASSUME NEW L \in 0..UMax, NEW from, NEW m, NEW to, NEW down, By(from, m, to, down)
    PROVE  GainsAdd(Gain(L, from, to), Gain(L, from, m), Gain(L, m, to))
<1>0. PICK a \in Nat, b \in Nat, d \in Nat : GainInParts(L, from, m, to, a, b, d)
  BY GainParts
<1>1. /\ d > 0 /\ Gain(L, from, m) = a \div d /\ Gain(L, m, to) = b \div d
      /\ Gain(L, from, to) = (a + b) \div d
  BY <1>0, Zenon DEF GainInParts
<1>2. PICK x \in Nat, y \in Nat, z \in Nat : x = a \div d /\ y = b \div d /\ z = (a + b) \div d
  <2>1. a + b \in Nat
    OBVIOUS
  <2> QED
    BY <1>1, <2>1, Floors
<1>3. x + y <= z /\ z <= x + y + 1
  BY <1>1, <1>2, FloorSum
<1> QED
  BY <1>1, <1>2, <1>3 DEF GainsAdd

(* No way, or one without liquidity, costs and gains nothing.              *)
LEMMA NoCost ==
    ASSUME NEW L \in 0..UMax, NEW from \in Ratios, NEW to \in Ratios, NEW down \in BOOLEAN,
           Heads(from, to, down), L = 0 \/ from = to
    PROVE  Cost(L, from, to) = 0 /\ Gain(L, from, to) = 0
<1>1. from \in Nat /\ to \in Nat /\ from * to \in Nat /\ from * to > 0
  BY RatiosAre, TimesNat, TimesPositive
<1>2. L \in Nat /\ L * Q \in Nat /\ Q \in Nat /\ Q > 0
  BY NumeratorIs, WidthsOfQuotes
<1>3. /\ (L * Q) * (from - to) = 0 /\ L * (to - from) = 0 /\ L * (from - to) = 0
      /\ (L * Q) * (to - from) = 0
  <2>1. CASE from = to
    BY <1>1, <1>2, <2>1
  <2>2. CASE L = 0
    <3>1. L * Q = 0
      BY <1>2, <2>2
    <3> QED
      BY <1>1, <2>2, <3>1
  <2> QED
    BY <2>1, <2>2
<1>4. \A d \in Nat : d > 0 => DivCeil(0, d) = 0 /\ 0 \div d = 0
  BY OfNothing
<1>5. /\ Cost(L, from, to) = IF down THEN DivCeil(0, from * to) ELSE DivCeil(0, Q)
      /\ Gain(L, from, to) = IF down THEN 0 \div Q ELSE 0 \div (from * to)
  BY <1>3, CostOf, ZenonT(60)
<1> QED
  BY <1>1, <1>2, <1>4, <1>5

(* A way through liquidity is not for nothing.                             *)
LEMMA SomeCost ==
    ASSUME NEW L \in 0..UMax, NEW from \in Ratios, NEW to \in Ratios, NEW down \in BOOLEAN,
           Heads(from, to, down), L > 0, from # to
    PROVE  Cost(L, from, to) > 0
<1>1. from \in Nat /\ to \in Nat /\ from * to \in Nat /\ from * to > 0
  BY RatiosAre, TimesNat, TimesPositive
<1>2. L \in Nat /\ L * Q \in Nat /\ L * Q > 0 /\ Q \in Nat /\ Q > 0
  BY NumeratorIs, WidthsOfQuotes
<1>3. ASSUME NEW n \in Nat, n > 0, NEW d \in Nat, d > 0 PROVE DivCeil(n, d) > 0
  <2>1. DivCeil(n, d) \in Nat /\ n <= DivCeil(n, d) * d
    BY <1>3, Ceilings
  <2>2. PICK c \in Nat : c = DivCeil(n, d) /\ n <= c * d
    BY <2>1
  <2>3. c # 0
    BY <1>3, <2>2
  <2> QED
    BY <2>2, <2>3
<1>4. CASE down
  <2>1. PICK w \in Nat : w = from - to /\ w > 0
    <3>1. to <= from
      BY <1>4 DEF Heads
    <3> QED
      BY <1>1, <3>1
  <2>2. (L * Q) * w \in Nat /\ (L * Q) * w > 0
    BY <1>2, <2>1, TimesNat, TimesPositive
  <2>3. Cost(L, from, to) = DivCeil((L * Q) * w, from * to)
    BY <1>4, <2>1, CostOf
  <2> QED
    BY <1>1, <1>3, <2>2, <2>3
<1>5. CASE ~down
  <2>1. PICK w \in Nat : w = to - from /\ w > 0
    <3>1. from <= to
      BY <1>5 DEF Heads
    <3> QED
      BY <1>1, <3>1
  <2>2. L * w \in Nat /\ L * w > 0
    BY <1>2, <2>1, TimesNat, TimesPositive
  <2>3. Cost(L, from, to) = DivCeil(L * w, Q)
    BY <1>5, <2>1, CostOf
  <2> QED
    BY <1>2, <1>3, <2>2, <2>3
<1> QED
  BY <1>4, <1>5
-----------------------------------------------------------------------------
(* How far a price goes. *)

(* What a cost and a gain come to, without a division.                     *)
LEMMA CostAtMost ==
    ASSUME NEW L \in 0..UMax, NEW from \in Ratios, NEW to \in Ratios, NEW down \in BOOLEAN,
           Heads(from, to, down), NEW net \in Nat
    PROVE  Cost(L, from, to) <= net <=>
             IF down THEN (L * Q) * from <= to * (L * Q + net * from) ELSE L * (to - from) <= net * Q
<1>1. from \in Nat /\ to \in Nat /\ from > 0 /\ to > 0
  BY RatiosAre
<1>2. L \in Nat /\ L * Q \in Nat /\ Q \in Nat /\ Q > 0
  BY NumeratorIs, WidthsOfQuotes
<1>3. CASE down
  <2>1. PICK N \in Nat, w \in Nat : N = L * Q /\ w = from - to
    <3>1. to <= from
      BY <1>3 DEF Heads
    <3>2. from - to \in Nat
      BY <1>1, <3>1
    <3> QED
      BY <1>2, <3>2
  <2>2. PICK d \in Nat, n \in Nat : d = from * to /\ d > 0 /\ n = N * w
    <3>1. from * to \in Nat /\ from * to > 0 /\ N * w \in Nat
      BY <1>1, <2>1, TimesNat, TimesPositive
    <3> QED
      BY <3>1
  <2>3. Cost(L, from, to) = DivCeil(n, d)
    <3>1. Cost(L, from, to) = DivCeil((L * Q) * (from - to), from * to)
      BY <1>3, CostOf
    <3> QED
      BY <2>1, <2>2, <3>1, Zenon
  <2>4. DivCeil(n, d) <= net <=> n <= net * d
    BY <2>2, Ceilings
  <2>5. PICK a \in Nat, b \in Nat, c \in Nat : a = N * from /\ b = N * to /\ c = net * from
    BY <1>1, <2>1, TimesNat
  <2>6. n = a - b
    BY <1>1, <2>1, <2>2, <2>5
  <2>7. net * d = c * to /\ c * to \in Nat /\ to * (N + c) = b + c * to
    BY <1>1, <2>1, <2>2, <2>5, TimesNat
  <2>8. n <= net * d <=> a <= to * (N + c)
    BY <2>6, <2>7
  <2>9. Cost(L, from, to) <= net <=> (L * Q) * from <= to * (L * Q + net * from)
    BY <2>1, <2>3, <2>4, <2>5, <2>8
  <2> QED
    BY <1>3, <2>9
<1>4. CASE ~down
  <2>1. PICK w \in Nat : w = to - from
    <3>1. from <= to
      BY <1>4 DEF Heads
    <3> QED
      BY <1>1, <3>1
  <2>2. PICK n \in Nat : n = L * w
    BY <1>2, <2>1, TimesNat
  <2>3. Cost(L, from, to) = DivCeil(n, Q)
    BY <1>4, <2>1, <2>2, CostOf
  <2>4. DivCeil(n, Q) <= net <=> n <= net * Q
    BY <1>2, <2>2, Ceilings
  <2> QED
    BY <1>4, <2>1, <2>2, <2>3, <2>4
<1> QED
  BY <1>3, <1>4

(* And what a gain comes to.                                               *)
LEMMA GainAtLeast ==
    ASSUME NEW L \in 0..UMax, NEW from \in Ratios, NEW to \in Ratios, NEW down \in BOOLEAN,
           Heads(from, to, down), NEW out \in Nat
    PROVE  out <= Gain(L, from, to) <=>
             IF down THEN out * Q <= L * (from - to)
             ELSE (L * Q) * from + (out * from) * to <= (L * Q) * to
<1>1. from \in Nat /\ to \in Nat /\ from > 0 /\ to > 0
  BY RatiosAre
<1>2. L \in Nat /\ L * Q \in Nat /\ Q \in Nat /\ Q > 0
  BY NumeratorIs, WidthsOfQuotes
<1>3. CASE ~down
  <2>1. PICK N \in Nat, w \in Nat : N = L * Q /\ w = to - from
    <3>1. from <= to
      BY <1>3 DEF Heads
    <3>2. to - from \in Nat
      BY <1>1, <3>1
    <3> QED
      BY <1>2, <3>2
  <2>2. PICK d \in Nat, n \in Nat : d = from * to /\ d > 0 /\ n = N * w
    <3>1. from * to \in Nat /\ from * to > 0 /\ N * w \in Nat
      BY <1>1, <2>1, TimesNat, TimesPositive
    <3> QED
      BY <3>1
  <2>3. Gain(L, from, to) = n \div d
    <3>1. Gain(L, from, to) = ((L * Q) * (to - from)) \div (from * to)
      BY <1>3, CostOf
    <3> QED
      BY <2>1, <2>2, <3>1, Zenon
  <2>4. out <= n \div d <=> out * d <= n
    BY <2>2, FloorBounds
  <2>5. PICK a \in Nat, b \in Nat, c \in Nat : a = N * from /\ b = N * to /\ c = (out * from) * to
    <3>1. PICK x \in Nat : x = out * from
      BY <1>1, TimesNat
    <3>2. x * to \in Nat /\ N * from \in Nat /\ N * to \in Nat
      BY <1>1, <2>1, <3>1, TimesNat
    <3> QED
      BY <3>1, <3>2
  <2>6. n = b - a /\ out * d = c
    BY <1>1, <2>1, <2>2, <2>5
  <2>7. out * d <= n <=> a + c <= b
    BY <2>5, <2>6
  <2> QED
    BY <1>3, <2>1, <2>3, <2>4, <2>5, <2>7
<1>4. CASE down
  <2>1. PICK w \in Nat : w = from - to
    <3>1. to <= from
      BY <1>4 DEF Heads
    <3> QED
      BY <1>1, <3>1
  <2>2. PICK n \in Nat : n = L * w
    BY <1>2, <2>1, TimesNat
  <2>3. Gain(L, from, to) = n \div Q
    BY <1>4, <2>1, <2>2, CostOf
  <2>4. out <= n \div Q <=> out * Q <= n
    BY <1>2, <2>2, FloorBounds
  <2> QED
    BY <1>4, <2>1, <2>2, <2>3, <2>4
<1> QED
  BY <1>3, <1>4
-----------------------------------------------------------------------------
(* Where the price goes that does not reach its target. *)

(* The contract's price r is the last one net pays for.                    *)
AsFarAs(r, net, L, from, to, down) ==
    /\ r = Reaches(net, L, from, down) /\ OnTheWay(r, from, to, down)
    /\ \A q \in Ratios : Heads(from, q, down) => (Cost(L, from, q) <= net <=> Heads(q, r, down))

(* The library's price p is not beyond it, and is it if nothing overflows. *)
PaidTo(p, net, L, from, to, down) ==
    /\ p = GetNextSqrtPriceFromInput(from, L, net, down) /\ OnTheWay(p, from, to, down)
    /\ Cost(L, from, p) <= net
    /\ (down => L * Q + net * from < Word) => p = Reaches(net, L, from, down)

(* The contract's goes as far as the input pays for.                       *)
LEMMA ReachesIs ==
    ASSUME NEW L \in 0..UMax, NEW from \in Ratios, NEW to \in Ratios, NEW down \in BOOLEAN,
           Heads(from, to, down), NEW net \in Nat, net < Cost(L, from, to)
    PROVE  \E r \in Ratios : AsFarAs(r, net, L, from, to, down)
<1>1. from \in Nat /\ to \in Nat /\ from > 0 /\ to > 0
  BY RatiosAre
<1>2. L \in Nat /\ L > 0 /\ L * Q \in Nat /\ L * Q > 0 /\ Q \in Nat /\ Q > 0
  <2>1. L # 0
    BY NoCost
  <2> QED
    BY <2>1, NumeratorIs, WidthsOfQuotes
<1>3. ~(Cost(L, from, to) <= net)
  <2>1. Cost(L, from, to) \in Nat
    <3>1. By(from, to, to, down)
      BY HeadsOn DEF By
    <3> QED
      BY <3>1, CostSplit DEF CostsAdd
  <2> QED
    BY <2>1
<1>4. CASE down
  <2>1. PICK N \in Nat, c \in Nat : N = L * Q /\ N > 0 /\ c = net * from
    BY <1>1, <1>2, TimesNat
  <2>2. PICK n \in Nat, d \in Nat : n = N * from /\ n > 0 /\ d = N + c /\ d > 0
    BY <1>1, <2>1, TimesNat, TimesPositive
  <2>3. PICK r \in Nat : r = DivCeil(n, d) /\ n <= r * d /\ \A m \in Nat : r <= m <=> n <= m * d
    BY <2>2, Ceilings
  <2>4. r = Reaches(net, L, from, down)
    BY <1>4, <2>1, <2>2, <2>3, Zenon DEF Reaches
  <2>5. ASSUME NEW q \in Ratios, q <= from PROVE Cost(L, from, q) <= net <=> r <= q
    <3>1. q \in Nat /\ Heads(from, q, down)
      BY <1>4, <2>5, RatiosAre DEF Heads
    <3>2. Cost(L, from, q) <= net <=> n <= q * d
      BY <1>4, <2>1, <2>2, <3>1, CostAtMost
    <3> QED
      BY <2>3, <3>1, <3>2
  <2>6. to <= from
    BY <1>4 DEF Heads
  <2>7. to < r
    BY <1>1, <1>3, <2>5, <2>6
  <2>8. r <= from
    <3>1. Heads(from, from, down)
      BY HeadsOn
    <3>2. Cost(L, from, from) = 0
      BY <3>1, NoCost
    <3> QED
      BY <1>1, <2>5, <3>2
  <2>9. OnTheWay(r, from, to, TRUE)
    <3>1. r \in to .. from
      BY <1>1, <2>7, <2>8
    <3> QED
      BY <3>1, Between
  <2>10. r \in Ratios
    BY <2>9 DEF OnTheWay
  <2>11. ASSUME NEW q \in Ratios, Heads(from, q, down) PROVE Cost(L, from, q) <= net <=> Heads(q, r, down)
    <3>1. q <= from
      BY <1>4, <2>11 DEF Heads
    <3>2. Heads(q, r, down) <=> r <= q
      BY <1>4 DEF Heads
    <3> QED
      BY <2>5, <3>1, <3>2
  <2>12. AsFarAs(r, net, L, from, to, down)
    BY <1>4, <2>4, <2>9, <2>11 DEF AsFarAs
  <2> QED
    BY <2>10, <2>12, Zenon
<1>5. CASE ~down
  <2>1. PICK n \in Nat : n = net * Q
    BY <1>2, TimesNat
  <2>2. PICK w \in Nat : w = n \div L /\ \A m \in Nat : m <= w <=> m * L <= n
    BY <1>2, <2>1, FloorBounds
  <2>3. PICK r \in Nat : r = from + w
    BY <1>1
  <2>4. r = Reaches(net, L, from, down)
    BY <1>5, <2>1, <2>2, <2>3, Zenon DEF Reaches
  <2>5. ASSUME NEW q \in Ratios, from <= q PROVE Cost(L, from, q) <= net <=> q <= r
    <3>1. q \in Nat /\ Heads(from, q, down)
      BY <1>5, <2>5, RatiosAre DEF Heads
    <3>2. PICK m \in Nat : m = q - from
      BY <1>1, <2>5, <3>1
    <3>3. Cost(L, from, q) <= net <=> L * m <= n
      BY <1>5, <2>1, <3>1, <3>2, CostAtMost
    <3>4. L * m = m * L
      BY <1>2
    <3>5. m <= w <=> q <= r
      BY <1>1, <2>3, <3>1, <3>2
    <3> QED
      BY <2>2, <3>3, <3>4, <3>5
  <2>6. from <= to
    BY <1>5 DEF Heads
  <2>7. r < to
    BY <1>1, <1>3, <2>5, <2>6
  <2>9. OnTheWay(r, from, to, FALSE)
    <3>1. r \in from .. to
      BY <1>1, <2>3, <2>7
    <3> QED
      BY <3>1, Between
  <2>10. r \in Ratios
    BY <2>9 DEF OnTheWay
  <2>11. ASSUME NEW q \in Ratios, Heads(from, q, down) PROVE Cost(L, from, q) <= net <=> Heads(q, r, down)
    <3>1. from <= q
      BY <1>5, <2>11 DEF Heads
    <3>2. Heads(q, r, down) <=> q <= r
      BY <1>5 DEF Heads
    <3> QED
      BY <2>5, <3>1, <3>2
  <2>12. AsFarAs(r, net, L, from, to, down)
    BY <1>5, <2>4, <2>9, <2>11 DEF AsFarAs
  <2> QED
    BY <2>10, <2>12, Zenon
<1> QED
  BY <1>4, <1>5

(* v3_swap's costs no more than what is spent on the way there, and is the *)
(* contract's as long as the products stay in a word.                      *)
LEMMA NextPriceIn ==
    ASSUME NEW L \in 0..UMax, NEW from \in Ratios, NEW to \in Ratios, NEW down \in BOOLEAN,
           Heads(from, to, down), NEW net \in Nat, net < Cost(L, from, to)
    PROVE  \E p \in Ratios : PaidTo(p, net, L, from, to, down)
<1>1. from \in Nat /\ to \in Nat /\ from > 0 /\ to > 0
  BY RatiosAre
<1>2. L \in Nat /\ L > 0 /\ L * Q \in Nat /\ L * Q > 0 /\ Q \in Nat /\ Q > 0
  <2>1. L # 0
    BY NoCost
  <2> QED
    BY <2>1, NumeratorIs, WidthsOfQuotes
<1>3. ~(Cost(L, from, to) <= net)
  <2>1. Cost(L, from, to) \in Nat
    <3>1. By(from, to, to, down)
      BY HeadsOn DEF By
    <3> QED
      BY <3>1, CostSplit DEF CostsAdd
  <2> QED
    BY <2>1
<1>4. CASE down
  <2>1. to <= from
    BY <1>4 DEF Heads
  <2>2. (net * to) * from < (L * Q) * from - (L * Q) * to
    <3>1. PICK N \in Nat : N = L * Q
      BY <1>2
    <3>2. ~(N * from <= to * (N + net * from))
      BY <1>3, <1>4, <3>1, CostAtMost
    <3>3. PICK x \in Nat, a \in Nat, b \in Nat : x = (net * to) * from /\ a = N * from /\ b = N * to
      <4>1. net * to \in Nat /\ N * from \in Nat /\ N * to \in Nat
        BY <1>1, <3>1, TimesNat
      <4>2. (net * to) * from \in Nat
        BY <1>1, <4>1, TimesNat
      <4> QED
        BY <4>1, <4>2
    <3>4. to * (N + net * from) = b + x
      BY <1>1, <3>1, <3>3
    <3>5. x < a - b
      BY <3>2, <3>3, <3>4
    <3> QED
      BY <3>1, <3>3, <3>5
  <2>3. PICK p \in Nat :
          /\ p = GetNextSqrtPriceFromInput(from, L, net, TRUE) /\ p \in to .. from
          /\ (L * Q) * from <= p * (L * Q + net * from)
          /\ L * Q + net * from < Word => p = DivCeil((L * Q) * from, L * Q + net * from)
    BY <2>1, <2>2, NextDownIn
  <2>4. OnTheWay(p, from, to, TRUE)
    BY <2>3, Between
  <2>5. p \in Ratios /\ Heads(from, p, down)
    BY <1>4, <2>4 DEF OnTheWay
  <2>6. Cost(L, from, p) <= net
    BY <1>4, <2>3, <2>5, CostAtMost
  <2>7. L * Q + net * from < Word => p = Reaches(net, L, from, down)
    BY <1>4, <2>3, Zenon DEF Reaches
  <2>8. PaidTo(p, net, L, from, to, down)
    BY <1>4, <2>3, <2>4, <2>6, <2>7 DEF PaidTo
  <2> QED
    BY <2>5, <2>8, Zenon
<1>5. CASE ~down
  <2>1. from <= to
    BY <1>5 DEF Heads
  <2>2. net * Q < L * (to - from)
    <3>1. PICK w \in Nat : w = to - from
      BY <1>1, <2>1
    <3>2. ~(L * w <= net * Q) /\ L * w \in Nat /\ net * Q \in Nat
      BY <1>2, <1>3, <1>5, <3>1, CostAtMost, TimesNat
    <3> QED
      BY <3>1, <3>2
  <2>3. PICK p : p = GetNextSqrtPriceFromInput(from, L, net, FALSE)
    OBVIOUS
  <2>4. p \in from .. to /\ p = from + (net * Q) \div L
    BY <2>1, <2>2, <2>3, NextUpIn
  <2>5. OnTheWay(p, from, to, FALSE)
    BY <2>4, Between
  <2>6. p \in Ratios /\ Heads(from, p, down) /\ p \in Nat
    BY <1>5, <2>5, RatiosAre DEF OnTheWay
  <2>7. Cost(L, from, p) <= net
    <3>1. PICK n \in Nat : n = net * Q
      BY <1>2, TimesNat
    <3>2. PICK w \in Nat : w = n \div L /\ w * L <= n
      BY <1>2, <3>1, Floors
    <3>3. p - from = w
      BY <1>1, <2>4, <3>1, <3>2
    <3>4. L * (p - from) <= net * Q
      BY <1>2, <3>1, <3>2, <3>3
    <3> QED
      BY <1>5, <2>6, <3>4, CostAtMost
  <2>8. p = Reaches(net, L, from, down)
    BY <1>5, <2>4, Zenon DEF Reaches
  <2>9. p = GetNextSqrtPriceFromInput(from, L, net, down) /\ OnTheWay(p, from, to, down)
    BY <1>5, <2>3, <2>5
  <2>10. PaidTo(p, net, L, from, to, down)
    BY <2>7, <2>8, <2>9 DEF PaidTo
  <2> QED
    BY <2>6, <2>10, Zenon
<1> QED
  BY <1>4, <1>5

(* And gains no less than what it is computed from.                        *)
LEMMA NextPriceOut ==
    ASSUME NEW L \in 0..UMax, NEW from \in Ratios, NEW to \in Ratios, NEW down \in BOOLEAN,
           Heads(from, to, down), NEW out \in Nat, out < Gain(L, from, to)
    PROVE  \E p \in Ratios :
             /\ p = GetNextSqrtPriceFromOutput(from, L, out, down) /\ OnTheWay(p, from, to, down)
             /\ out <= Gain(L, from, p)
<1>1. from \in Nat /\ to \in Nat /\ from > 0 /\ to > 0
  BY RatiosAre
<1>2. L \in Nat /\ L > 0 /\ L * Q \in Nat /\ L * Q > 0 /\ Q \in Nat /\ Q > 0
  <2>1. L # 0
    BY NoCost
  <2> QED
    BY <2>1, NumeratorIs, WidthsOfQuotes
<1>3. out + 1 <= Gain(L, from, to) /\ out <= Gain(L, from, to)
  <2>1. Gain(L, from, to) \in Nat
    <3>1. By(from, to, to, down)
      BY HeadsOn DEF By
    <3> QED
      BY <3>1, GainSplit DEF GainsAdd
  <2> QED
    BY <2>1
<1>4. CASE down
  <2>1. to <= from
    BY <1>4 DEF Heads
  <2>2. out * Q <= L * (from - to)
    BY <1>3, <1>4, GainAtLeast
  <2>3. PICK p : p = GetNextSqrtPriceFromOutput(from, L, out, TRUE)
    OBVIOUS
  <2>4. p \in to .. from /\ out * Q <= L * (from - p)
    BY <1>2, <2>1, <2>2, <2>3, NextDownOut
  <2>5. OnTheWay(p, from, to, TRUE)
    BY <2>4, Between
  <2>6. p \in Ratios /\ Heads(from, p, down)
    BY <1>4, <2>5 DEF OnTheWay
  <2>7. out <= Gain(L, from, p)
    BY <1>4, <2>4, <2>6, GainAtLeast
  <2> QED
    BY <1>4, <2>3, <2>5, <2>6, <2>7
<1>5. CASE ~down
  <2>1. from <= to
    BY <1>5 DEF Heads
  <2>2. (out * from) * to + from * to <= (L * Q) * to - (L * Q) * from
    <3>1. PICK N \in Nat, more \in Nat : N = L * Q /\ more = out + 1
      BY <1>2
    <3>2. N * from + (more * from) * to <= N * to
      BY <1>3, <1>5, <3>1, GainAtLeast
    <3>3. PICK a \in Nat, b \in Nat, x \in Nat, y \in Nat :
            a = N * from /\ b = N * to /\ x = (out * from) * to /\ y = from * to
      <4>1. N * from \in Nat /\ N * to \in Nat /\ out * from \in Nat /\ from * to \in Nat
        BY <1>1, <3>1, TimesNat
      <4>2. (out * from) * to \in Nat
        BY <1>1, <4>1, TimesNat
      <4> QED
        BY <4>1, <4>2
    <3>4. (more * from) * to = x + y
      BY <1>1, <3>1, <3>3
    <3>5. x + y <= b - a
      BY <3>2, <3>3, <3>4
    <3> QED
      BY <3>1, <3>3, <3>5
  <2>3. PICK p \in Nat :
          /\ p = GetNextSqrtPriceFromOutput(from, L, out, FALSE) /\ p \in from .. to
          /\ (L * Q) * from + (out * from) * p <= (L * Q) * p
    BY <2>1, <2>2, NextUpOut
  <2>5. OnTheWay(p, from, to, FALSE)
    BY <2>3, Between
  <2>6. p \in Ratios /\ Heads(from, p, down)
    BY <1>5, <2>5 DEF OnTheWay
  <2>7. out <= Gain(L, from, p)
    BY <1>5, <2>3, <2>6, GainAtLeast
  <2> QED
    BY <1>5, <2>3, <2>5, <2>6, <2>7
<1> QED
  BY <1>4, <1>5
-----------------------------------------------------------------------------
(* A cost with its fee. *)

(* The fee and what is left beside it.                                     *)
LEMMA FeesAre ==
    ASSUME NEW fee \in FeePips
    PROVE  \E unit \in Nat, rest \in Nat :
             /\ unit = FeeUnit /\ rest = FeeUnit - fee /\ rest > 0 /\ fee \in Nat /\ rest + fee = unit
             /\ unit \in 1 .. Word - 1 /\ rest \in Words
<1>1. PICK unit \in Nat : unit = FeeUnit /\ unit \in 1 .. Word - 1 /\ fee \in Nat /\ fee < unit
  BY WidthsOfQuotes, QuoteAssumption, MathAssumption
<1>2. PICK rest \in Nat : rest = unit - fee /\ rest > 0 /\ rest + fee = unit
  BY <1>1
<1>3. rest \in Words
  BY <1>1, <1>2, WordIs DEF Words
<1> QED
  BY <1>1, <1>2, <1>3

(* It is paid by what leaves the cost when the fee is taken off.           *)
LEMMA WithFeeIs ==
    ASSUME NEW c \in Nat, NEW fee \in FeePips
    PROVE  /\ WithFee(c, fee) \in Nat /\ c <= WithFee(c, fee)
           /\ \A left \in Nat :
                /\ (left * (FeeUnit - fee)) \div FeeUnit \in Nat
                /\ WithFee(c, fee) <= left <=> c <= (left * (FeeUnit - fee)) \div FeeUnit
<1>1. PICK unit \in Nat, rest \in Nat :
        unit = FeeUnit /\ rest = FeeUnit - fee /\ rest > 0 /\ fee \in Nat /\ rest + fee = unit
  BY FeesAre
<1>2. PICK n \in Nat : n = c * fee
  BY <1>1, TimesNat
<1>3. PICK x \in Nat : x = DivCeil(n, rest) /\ \A m \in Nat : x <= m <=> n <= m * rest
  BY <1>1, <1>2, Ceilings
<1>4. WithFee(c, fee) = c + x
  BY <1>1, <1>2, <1>3, Zenon DEF WithFee
<1>5. ASSUME NEW left \in Nat
      PROVE  /\ (left * rest) \div unit \in Nat
             /\ c + x <= left <=> c <= (left * rest) \div unit
  <2>1. PICK p \in Nat, a \in Nat, b \in Nat : p = left * rest /\ a = c * unit /\ b = c * rest /\ a = b + n
    <3>1. left * rest \in Nat /\ c * unit \in Nat /\ c * rest \in Nat
      BY <1>1, TimesNat
    <3>2. c * unit = c * rest + c * fee
      BY <1>1
    <3> QED
      BY <1>2, <3>1, <3>2
  <2>2. PICK f \in Nat : f = p \div unit /\ \A m \in Nat : m <= f <=> m * unit <= p
    BY <1>1, <2>1, FloorBounds
  <2>3. c <= f <=> a <= p
    BY <2>1, <2>2
  <2>4. ASSUME c + x <= left PROVE a <= p
    <3>1. PICK more \in Nat : more = left - c /\ x <= more
      BY <2>4
    <3>2. n <= more * rest
      BY <1>3, <3>1
    <3>3. more * rest = p - b
      BY <1>1, <2>1, <3>1
    <3> QED
      BY <2>1, <3>2, <3>3
  <2>5. ASSUME a <= p PROVE c + x <= left
    <3>1. c <= left
      <4>1. left * rest <= left * unit /\ left * unit \in Nat
        BY <1>1, TimesMonotone, TimesNat
      <4>2. c * unit <= left * unit
        BY <2>1, <2>5, <4>1
      <4> QED
        BY <1>1, <4>2, Cancels
    <3>2. PICK more \in Nat : more = left - c
      BY <3>1
    <3>3. more * rest = p - b
      BY <1>1, <2>1, <3>1, <3>2
    <3>4. n <= more * rest
      BY <2>1, <2>5, <3>3
    <3>5. x <= more
      BY <1>3, <3>2, <3>4
    <3> QED
      BY <3>2, <3>5
  <2> QED
    BY <2>1, <2>2, <2>3, <2>4, <2>5
<1>6. c + x \in Nat /\ c <= c + x
  OBVIOUS
<1>7. ASSUME NEW left \in Nat
      PROVE  /\ (left * (FeeUnit - fee)) \div FeeUnit \in Nat
             /\ WithFee(c, fee) <= left <=> c <= (left * (FeeUnit - fee)) \div FeeUnit
  BY <1>1, <1>4, <1>5, Zenon
<1> QED
  BY <1>4, <1>6, <1>7

(* It rises with the cost and with the fee.                                *)
LEMMA WithFeeRises ==
    ASSUME NEW c \in Nat, NEW d \in Nat, c <= d, NEW fee \in FeePips, NEW higher \in FeePips, fee <= higher
    PROVE  WithFee(c, fee) <= WithFee(d, fee) /\ WithFee(c, fee) <= WithFee(c, higher)
<1>1. ASSUME NEW k \in FeePips PROVE WithFee(c, k) <= WithFee(d, k)
  <2>1. PICK left \in Nat : left = WithFee(d, k)
    BY WithFeeIs
  <2>2. PICK net \in Nat : net = (left * (FeeUnit - k)) \div FeeUnit
    BY <2>1, WithFeeIs
  <2>3. d <= net
    BY <2>1, <2>2, WithFeeIs
  <2>4. c <= net
    BY <2>3
  <2> QED
    BY <2>1, <2>2, <2>4, WithFeeIs
<1>2. WithFee(c, fee) <= WithFee(c, higher)
  <2>1. PICK unit \in Nat, rest \in Nat :
          unit = FeeUnit /\ rest = FeeUnit - fee /\ rest > 0 /\ fee \in Nat /\ rest + fee = unit
    BY FeesAre
  <2>2. PICK less \in Nat : less = FeeUnit - higher /\ higher \in Nat /\ less + higher = unit
    BY <2>1, FeesAre
  <2>3. PICK left \in Nat : left = WithFee(c, higher)
    BY WithFeeIs
  <2>4. unit > 0 /\ less <= rest
    BY <2>1, <2>2
  <2>5. PICK p \in Nat, q \in Nat : p = left * less /\ q = left * rest /\ p <= q
    <3>1. left * less \in Nat /\ left * rest \in Nat /\ left * less <= left * rest
      BY <2>1, <2>2, <2>4, TimesNat, TimesMonotone
    <3> QED
      BY <3>1
  <2>6. PICK m \in Nat : m = p \div unit /\ m * unit <= p
    BY <2>4, <2>5, Floors
  <2>7. PICK n \in Nat : n = q \div unit /\ \A k \in Nat : k <= n <=> k * unit <= q
    BY <2>4, <2>5, FloorBounds
  <2>8. m <= n
    <3>1. m * unit \in Nat
      BY TimesNat
    <3> QED
      BY <2>5, <2>6, <2>7, <3>1
  <2>9. c <= m
    <3>1. WithFee(c, higher) <= left <=> c <= (left * (FeeUnit - higher)) \div FeeUnit
      BY WithFeeIs
    <3> QED
      BY <2>1, <2>2, <2>3, <2>5, <2>6, <3>1
  <2>10. c <= n
    BY <2>8, <2>9
  <2>11. WithFee(c, fee) <= left <=> c <= (left * (FeeUnit - fee)) \div FeeUnit
    BY WithFeeIs
  <2> QED
    BY <2>1, <2>3, <2>5, <2>7, <2>10, <2>11
<1> QED
  BY <1>1, <1>2

(* In two parts it is as much, or one unit of the fee more.                *)
LEMMA WithFeeSum ==
    ASSUME NEW c \in Nat, NEW d \in Nat, NEW fee \in FeePips
    PROVE  /\ WithFee(c + d, fee) <= WithFee(c, fee) + WithFee(d, fee)
           /\ WithFee(c, fee) + WithFee(d, fee) <= WithFee(c + d, fee) + 1
<1>1. PICK rest \in Nat : rest = FeeUnit - fee /\ rest > 0 /\ fee \in Nat
  BY FeesAre
<1>2. PICK m \in Nat, n \in Nat : m = c * fee /\ n = d * fee /\ (c + d) * fee = m + n
  BY <1>1, TimesNat
<1>3. PICK x \in Nat, y \in Nat, z \in Nat : x = DivCeil(m, rest) /\ y = DivCeil(n, rest) /\ z = DivCeil(m + n, rest)
  <2>1. m + n \in Nat
    OBVIOUS
  <2> QED
    BY <1>1, <2>1, Ceilings
<1>4. z <= x + y /\ x + y <= z + 1
  BY <1>1, <1>3, CeilingSum
<1>5. WithFee(c, fee) = c + x /\ WithFee(d, fee) = d + y /\ WithFee(c + d, fee) = (c + d) + z
  BY <1>1, <1>2, <1>3, Zenon DEF WithFee
<1> QED
  BY <1>4, <1>5

(* What a way takes of the input.                                          *)
Charge(L, from, to, fee) == WithFee(Cost(L, from, to), fee)

(* What two parts are charged and the whole, but for more.                 *)
ChargesAdd(all, first, rest, more) ==
    /\ all \in Nat /\ first \in Nat /\ rest \in Nat /\ more \in Nat /\ more > 0
    /\ first <= all /\ all <= first + rest /\ first + rest <= all + more

(* A way in two parts is charged as much as the whole, or a unit of cost   *)
(* with its fee and a unit of fee more.                                    *)
LEMMA ChargeSplit ==
    ASSUME NEW L \in 0..UMax, NEW from, NEW m, NEW to, NEW down, By(from, m, to, down), NEW fee \in FeePips
    PROVE  ChargesAdd(Charge(L, from, to, fee), Charge(L, from, m, fee), Charge(L, m, to, fee),
                      MoreInTwoParts(fee))
<1>1. PICK all \in Nat, first \in Nat, rest \in Nat :
        /\ all = Cost(L, from, to) /\ first = Cost(L, from, m) /\ rest = Cost(L, m, to)
        /\ first <= all /\ all <= first + rest /\ first + rest <= all + 1
  BY CostSplit DEF CostsAdd
<1>2. PICK A \in Nat, F \in Nat, R \in Nat, M \in Nat :
        /\ A = WithFee(all, fee) /\ F = WithFee(first, fee) /\ R = WithFee(rest, fee) /\ M = WithFee(1, fee)
  BY WithFeeIs
<1>0. fee <= fee
  BY FeesAre
<1>3. F <= A
  BY <1>0, <1>1, <1>2, WithFeeRises
<1>4. PICK s \in Nat, t \in Nat : s = first + rest /\ t = all + 1 /\ all <= s /\ s <= t
  BY <1>1
<1>5. PICK S \in Nat, T \in Nat : S = WithFee(s, fee) /\ T = WithFee(t, fee)
  BY WithFeeIs
<1>6. A <= S /\ S <= T
  BY <1>0, <1>2, <1>4, <1>5, WithFeeRises
<1>7. S <= F + R /\ F + R <= S + 1
  BY <1>2, <1>4, <1>5, WithFeeSum
<1>8. T <= A + M
  BY <1>2, <1>4, <1>5, WithFeeSum
<1>9. /\ Charge(L, from, to, fee) = A /\ Charge(L, from, m, fee) = F /\ Charge(L, m, to, fee) = R
      /\ MoreInTwoParts(fee) = M + 1
  BY <1>1, <1>2 DEF Charge, MoreInTwoParts
<1>10. A <= F + R /\ F + R <= A + (M + 1) /\ M + 1 \in Nat /\ M + 1 > 0
  BY <1>6, <1>7, <1>8
<1> QED
  BY <1>3, <1>9, <1>10 DEF ChargesAdd

(* No liquidity or no way: nothing is charged and nothing gained.          *)
LEMMA NoCharge ==
    ASSUME NEW L \in 0..UMax, NEW from \in Ratios, NEW to \in Ratios, NEW down \in BOOLEAN,
           Heads(from, to, down), L = 0 \/ from = to, NEW fee \in FeePips
    PROVE  Charge(L, from, to, fee) = 0 /\ Gain(L, from, to) = 0
<1>1. Cost(L, from, to) = 0 /\ Gain(L, from, to) = 0
  BY NoCost
<1>2. PICK rest \in Nat : rest = FeeUnit - fee /\ rest > 0 /\ fee \in Nat
  BY FeesAre
<1>3. 0 * fee = 0
  BY <1>2
<1>4. WithFee(0, fee) = 0 + DivCeil(0, rest)
  BY <1>2, <1>3, Zenon DEF WithFee
<1>5. WithFee(0, fee) = 0
  BY <1>2, <1>4, OfNothing
<1> QED
  BY <1>1, <1>5 DEF Charge

(* What gains something is charged for.                                    *)
LEMMA SomeCharge ==
    ASSUME NEW L \in 0..UMax, NEW from \in Ratios, NEW to \in Ratios, NEW down \in BOOLEAN,
           Heads(from, to, down), NEW fee \in FeePips
    PROVE  /\ Charge(L, from, to, fee) \in Nat /\ Gain(L, from, to) \in Nat
           /\ Cost(L, from, to) \in Nat /\ Cost(L, from, to) <= Charge(L, from, to, fee)
           /\ Gain(L, from, to) > 0 => Charge(L, from, to, fee) > 0
<1>1. By(from, to, to, down)
  BY HeadsOn DEF By
<1>2. Cost(L, from, to) \in Nat /\ Gain(L, from, to) \in Nat
  BY <1>1, CostSplit, GainSplit DEF CostsAdd, GainsAdd
<1>3. Charge(L, from, to, fee) \in Nat /\ Cost(L, from, to) <= Charge(L, from, to, fee)
  BY <1>2, WithFeeIs DEF Charge
<1>4. ASSUME Gain(L, from, to) > 0 PROVE Cost(L, from, to) > 0
  <2>1. L # 0 /\ from # to
    BY <1>4, NoCost
  <2>2. L > 0
    BY <2>1, NumeratorIs
  <2> QED
    BY <2>1, <2>2, SomeCost
<1> QED
  BY <1>2, <1>3, <1>4

(* A higher fee charges more.                                              *)
LEMMA ChargeRises ==
    ASSUME NEW L \in 0..UMax, NEW from \in Ratios, NEW to \in Ratios, NEW down \in BOOLEAN,
           Heads(from, to, down), NEW fee \in FeePips, NEW higher \in FeePips, fee <= higher
    PROVE  Charge(L, from, to, fee) <= Charge(L, from, to, higher)
<1>1. Cost(L, from, to) \in Nat /\ Cost(L, from, to) <= Cost(L, from, to)
  BY SomeCharge
<1> QED
  BY <1>1, WithFeeRises DEF Charge
-----------------------------------------------------------------------------
(* A step of v3_swap in the contract's fractions. *)

(* No product with the price, where it goes down, leaves the word.         *)
Exactly(L, from, left, down) == down => L * Q + left * from < Word

(* A step for an input pays for the way it goes, and falls short of its    *)
(* target only where the target costs more than is left; exactly, it then  *)
(* goes as far as what is left pays for.                                   *)
SpentOn(step, from, to, down, L, left, fee) ==
    /\ OnTheWay(step.price, from, to, down)
    /\ step.out = Gain(L, from, step.price) /\ Charge(L, from, step.price, fee) <= left
    /\ \/ step.price = to /\ step.in + step.fee = Charge(L, from, to, fee)
       \/ /\ step.in + step.fee = left /\ ~(Charge(L, from, to, fee) <= left)
          /\ Exactly(L, from, left, down) =>
               \A q \in Ratios :
                 Heads(from, q, down) /\ Charge(L, from, q, fee) <= left => Heads(q, step.price, down)

(* A step for an output takes what its way costs, and gives what the way   *)
(* gains, or less where it gives all that is asked for.                    *)
GotFor(step, from, to, down, L, want, fee) ==
    /\ OnTheWay(step.price, from, to, down)
    /\ step.in + step.fee = Charge(L, from, step.price, fee)
    /\ \/ step.price = to /\ step.out = Gain(L, from, to) /\ step.out <= want
       \/ step.out = want /\ want <= Gain(L, from, step.price)

(* What is left less its fee, as the code and as the contract computes it. *)
LEMMA NetIs ==
    ASSUME NEW left \in Words, NEW fee \in FeePips
    PROVE  \E net \in Nat :
             /\ net = MulDiv(left, FeeUnit - fee, FeeUnit) /\ net <= left
             /\ net = (left * (FeeUnit - fee)) \div FeeUnit
<1>1. PICK net \in Nat : MulDiv(left, FeeUnit - fee, FeeUnit) = net /\ net <= left
  BY LessFeeIs
<1>2. PICK unit \in Nat, rest \in Nat :
        unit = FeeUnit /\ rest = FeeUnit - fee /\ unit \in 1 .. Word - 1 /\ rest \in Words
  BY FeesAre
<1>3. MulDiv(left, rest, unit) = IF (left * rest) \div unit < Word THEN (left * rest) \div unit ELSE Err
  BY <1>2, MulDivExact
<1>4. net # Err
  BY DEF Err
<1>5. net = (left * rest) \div unit
  <2>1. CASE (left * rest) \div unit < Word
    BY <1>1, <1>2, <1>3, <2>1
  <2>2. CASE ~((left * rest) \div unit < Word)
    BY <1>1, <1>2, <1>3, <1>4, <2>2
  <2> QED
    BY <2>1, <2>2
<1> QED
  BY <1>1, <1>2, <1>5

(* A cost with the fee the code takes of it is what the contract charges.  *)
LEMMA FeeOfCost ==
    ASSUME NEW L \in 0..UMax, NEW from \in Ratios, NEW to \in Ratios, NEW down \in BOOLEAN,
           Heads(from, to, down), NEW fee \in FeePips
    PROVE  Cost(L, from, to) + FeeOf(Cost(L, from, to), fee) = Charge(L, from, to, fee)
<1>1. PICK all \in Nat : AmountIn(from, to, L, down) = all /\ all <= L * Q
  BY AmountInIs
<1>2. all = Cost(L, from, to)
  BY <1>1, AmountsAre
<1>3. all <= UMax * Q
  BY <1>1, NumeratorIs, WidthsOfQuotes
<1>4. FeeOf(all, fee) = DivCeil(all * fee, FeeUnit - fee)
  BY <1>3, FeeOfIs
<1> QED
  BY <1>2, <1>4 DEF Charge, WithFee

(* A step for an input does that,                                          *)
LEMMA SpendsOn ==
    ASSUME NEW L \in 0..UMax, NEW from \in Ratios, NEW to \in Ratios, NEW fee \in FeePips,
           NEW left \in 1 .. Word - 1, NEW zeroForOne \in BOOLEAN, zeroForOne = (from >= to),
           Heads(from, to, zeroForOne)
    PROVE  SpentOn(StepExactIn(from, to, L, left, fee), from, to, zeroForOne, L, left, fee)
<1>1. left \in Nat /\ left > 0 /\ left \in Words
  BY WordIs DEF Words
<1>2. PICK net \in Nat :
        /\ net = MulDiv(left, FeeUnit - fee, FeeUnit) /\ net <= left
        /\ net = (left * (FeeUnit - fee)) \div FeeUnit
  BY <1>1, NetIs
<1>3. PICK all \in Nat : all = Cost(L, from, to)
  BY SomeCharge
<1>4. AmountIn(from, to, L, zeroForOne) = all
  BY <1>3, AmountsAre
<1>5. ASSUME NEW q \in Ratios, Heads(from, q, zeroForOne)
      PROVE  Charge(L, from, q, fee) <= left <=> Cost(L, from, q) <= net
  <2>1. PICK c \in Nat : c = Cost(L, from, q)
    BY <1>5, SomeCharge
  <2>2. WithFee(c, fee) <= left <=> c <= (left * (FeeUnit - fee)) \div FeeUnit
    BY <1>1, WithFeeIs
  <2> QED
    BY <1>2, <2>1, <2>2 DEF Charge
<1>6. StepExactIn(from, to, L, left, fee) =
        IF net >= all
        THEN Step(to, all, AmountOut(from, to, L, zeroForOne), FeeOf(all, fee))
        ELSE Step(GetNextSqrtPriceFromInput(from, L, net, zeroForOne), net,
                  AmountOut(from, GetNextSqrtPriceFromInput(from, L, net, zeroForOne), L, zeroForOne),
                  left - net)
  BY <1>2, <1>4, Zenon DEF StepExactIn
<1>7. CASE net >= all
  <2>1. AmountOut(from, to, L, zeroForOne) = Gain(L, from, to)
    BY AmountsAre
  <2>2. StepExactIn(from, to, L, left, fee) =
          [price |-> to, in |-> all, out |-> Gain(L, from, to), fee |-> FeeOf(all, fee)]
    BY <1>6, <1>7, <2>1 DEF Step
  <2>3. all + FeeOf(all, fee) = Charge(L, from, to, fee)
    BY <1>3, FeeOfCost
  <2>4. Charge(L, from, to, fee) <= left
    <3>1. all <= net
      BY <1>7
    <3> QED
      BY <1>3, <1>5, <3>1
  <2>5. OnTheWay(to, from, to, zeroForOne)
    <3>1. to \in Nat
      BY RatiosAre
    <3> QED
      BY <3>1 DEF OnTheWay, Heads
  <2>6. PICK step : step = StepExactIn(from, to, L, left, fee)
    OBVIOUS
  <2>7. step.price = to /\ step.in = all /\ step.out = Gain(L, from, to) /\ step.fee = FeeOf(all, fee)
    BY <2>2, <2>6
  <2> QED
    BY <2>3, <2>4, <2>5, <2>6, <2>7, Zenon DEF SpentOn
<1>8. CASE ~(net >= all)
  <2>1. net < Cost(L, from, to)
    BY <1>3, <1>8
  <2>0. PICK p \in Ratios : PaidTo(p, net, L, from, to, zeroForOne)
    BY <2>1, NextPriceIn
  <2>2. /\ p = GetNextSqrtPriceFromInput(from, L, net, zeroForOne) /\ OnTheWay(p, from, to, zeroForOne)
        /\ Cost(L, from, p) <= net
        /\ (zeroForOne => L * Q + net * from < Word) => p = Reaches(net, L, from, zeroForOne)
    BY <2>0, Zenon DEF PaidTo
  <2>3. Heads(from, p, zeroForOne)
    BY <2>2 DEF OnTheWay
  <2>4. AmountOut(from, p, L, zeroForOne) = Gain(L, from, p)
    BY <2>3, AmountsAre
  <2>5. StepExactIn(from, to, L, left, fee) =
          [price |-> p, in |-> net, out |-> Gain(L, from, p), fee |-> left - net]
    BY <1>6, <1>8, <2>2, <2>4 DEF Step
  <2>6. net + (left - net) = left
    BY <1>1
  <2>7. Charge(L, from, p, fee) <= left
    BY <1>5, <2>2, <2>3
  <2>8. ~(Charge(L, from, to, fee) <= left)
    BY <1>3, <1>5, <1>8
  <2>9. ASSUME Exactly(L, from, left, zeroForOne),
               NEW q \in Ratios, Heads(from, q, zeroForOne), Charge(L, from, q, fee) <= left
        PROVE  Heads(q, p, zeroForOne)
    <3>1. zeroForOne => L * Q + net * from < Word
      <4>1. from \in Nat /\ L * Q \in Nat /\ Word \in Nat
        BY RatiosAre, NumeratorIs, WordIs
      <4>2. net * from <= left * from /\ net * from \in Nat /\ left * from \in Nat
        BY <1>1, <1>2, <4>1, TimesMonotone, TimesNat
      <4> QED
        BY <2>9, <4>1, <4>2 DEF Exactly
    <3>2. p = Reaches(net, L, from, zeroForOne)
      BY <2>2, <3>1
    <3>0. PICK r \in Ratios : AsFarAs(r, net, L, from, to, zeroForOne)
      BY <2>1, ReachesIs
    <3>3. /\ r = Reaches(net, L, from, zeroForOne)
          /\ \A x \in Ratios : Heads(from, x, zeroForOne) =>
               (Cost(L, from, x) <= net <=> Heads(x, r, zeroForOne))
      BY <3>0, Zenon DEF AsFarAs
    <3>4. Cost(L, from, q) <= net
      BY <1>5, <2>9
    <3> QED
      BY <2>9, <3>2, <3>3, <3>4
  <2>10. PICK step : step = StepExactIn(from, to, L, left, fee)
    OBVIOUS
  <2>11. step.price = p /\ step.in = net /\ step.out = Gain(L, from, p) /\ step.fee = left - net
    BY <2>5, <2>10
  <2>12. step.in + step.fee = left
    BY <2>6, <2>11
  <2> QED
    BY <2>2, <2>7, <2>8, <2>9, <2>10, <2>11, <2>12, Zenon DEF SpentOn
<1> QED
  BY <1>7, <1>8

(* and one for an output this,                                             *)
LEMMA GetsFor ==
    ASSUME NEW L \in 0..UMax, NEW from \in Ratios, NEW to \in Ratios, NEW fee \in FeePips,
           NEW want \in Nat, NEW zeroForOne \in BOOLEAN, zeroForOne = (from >= to),
           Heads(from, to, zeroForOne)
    PROVE  GotFor(StepExactOut(from, to, L, want, fee), from, to, zeroForOne, L, want, fee)
<1>1. PICK all \in Nat : all = Gain(L, from, to)
  BY SomeCharge
<1>2. AmountOut(from, to, L, zeroForOne) = all
  BY <1>1, AmountsAre
<1>3. PICK step : step = StepExactOut(from, to, L, want, fee)
  OBVIOUS
<1>4. step =
        IF want >= all
        THEN Step(to, AmountIn(from, to, L, zeroForOne), all,
                  FeeOf(AmountIn(from, to, L, zeroForOne), fee))
        ELSE Step(GetNextSqrtPriceFromOutput(from, L, want, zeroForOne),
                  AmountIn(from, GetNextSqrtPriceFromOutput(from, L, want, zeroForOne), L, zeroForOne), want,
                  FeeOf(AmountIn(from, GetNextSqrtPriceFromOutput(from, L, want, zeroForOne), L, zeroForOne),
                        fee))
  BY <1>2, <1>3, Zenon DEF StepExactOut
<1>5. CASE want >= all
  <2>1. AmountIn(from, to, L, zeroForOne) = Cost(L, from, to)
    BY AmountsAre
  <2>2. PICK c : c = Cost(L, from, to)
    OBVIOUS
  <2>3. step = [price |-> to, in |-> c, out |-> all, fee |-> FeeOf(c, fee)]
    BY <1>4, <1>5, <2>1, <2>2 DEF Step
  <2>4. c + FeeOf(c, fee) = Charge(L, from, to, fee)
    BY <2>2, FeeOfCost
  <2>5. OnTheWay(to, from, to, zeroForOne)
    <3>1. to \in Nat
      BY RatiosAre
    <3> QED
      BY <3>1 DEF OnTheWay, Heads
  <2>6. step.price = to /\ step.in = c /\ step.out = all /\ step.fee = FeeOf(c, fee) /\ all <= want
    BY <1>5, <2>3
  <2> QED
    BY <1>1, <1>3, <2>4, <2>5, <2>6, Zenon DEF GotFor
<1>6. CASE ~(want >= all)
  <2>1. want < Gain(L, from, to)
    BY <1>1, <1>6
  <2>2. PICK p \in Ratios :
          /\ p = GetNextSqrtPriceFromOutput(from, L, want, zeroForOne) /\ OnTheWay(p, from, to, zeroForOne)
          /\ want <= Gain(L, from, p)
    BY <2>1, NextPriceOut, ZenonT(40)
  <2>3. Heads(from, p, zeroForOne)
    BY <2>2 DEF OnTheWay
  <2>4. AmountIn(from, p, L, zeroForOne) = Cost(L, from, p)
    BY <2>3, AmountsAre
  <2>5. PICK c : c = Cost(L, from, p)
    OBVIOUS
  <2>6. step = [price |-> p, in |-> c, out |-> want, fee |-> FeeOf(c, fee)]
    BY <1>4, <1>6, <2>2, <2>4, <2>5 DEF Step
  <2>7. c + FeeOf(c, fee) = Charge(L, from, p, fee)
    BY <2>3, <2>5, FeeOfCost
  <2>8. step.price = p /\ step.in = c /\ step.out = want /\ step.fee = FeeOf(c, fee)
    BY <2>6
  <2> QED
    BY <1>3, <2>2, <2>7, <2>8, Zenon DEF GotFor
<1> QED
  BY <1>5, <1>6

(* The direction of v3_swap is that of compute_swap_step, but where there  *)
(* is no way to go.                                                        *)
LEMMA DirectionIs ==
    ASSUME NEW from \in Ratios, NEW to \in Ratios, NEW down \in BOOLEAN, Heads(from, to, down)
    PROVE  \E zeroForOne \in BOOLEAN :
             /\ zeroForOne = (from >= to) /\ Heads(from, to, zeroForOne)
             /\ zeroForOne = down \/ from = to
<1>1. PICK zeroForOne \in BOOLEAN : zeroForOne = (from >= to) /\ Heads(from, to, zeroForOne)
  BY Direction
<1>2. from \in Nat /\ to \in Nat
  BY RatiosAre
<1>3. zeroForOne = down \/ from = to
  <2>1. CASE zeroForOne /\ ~down
    BY <1>1, <1>2, <2>1 DEF Heads
  <2>2. CASE ~zeroForOne /\ down
    BY <1>1, <1>2, <2>2 DEF Heads
  <2>3. CASE (zeroForOne /\ down) \/ (~zeroForOne /\ ~down)
    BY <2>3, Zenon
  <2> QED
    BY <2>1, <2>2, <2>3
<1> QED
  BY <1>1, <1>3

(* with the direction told by the prices, as compute_swap_step does,       *)
LEMMA StepInExact ==
    ASSUME NEW L \in 0..UMax, NEW from \in Ratios, NEW to \in Ratios, NEW fee \in FeePips,
           NEW left \in 1 .. Word - 1, NEW down \in BOOLEAN, Heads(from, to, down)
    PROVE  SpentOn(ComputeSwapStep(from, to, L, left, fee), from, to, down, L, left, fee)
<1>1. PICK zeroForOne \in BOOLEAN :
        zeroForOne = (from >= to) /\ Heads(from, to, zeroForOne) /\ (zeroForOne = down \/ from = to)
  BY DirectionIs
<1>2. PICK step : step = ComputeSwapStep(from, to, L, left, fee)
  OBVIOUS
<1>3. step = StepExactIn(from, to, L, left, fee)
  <2>1. left >= 0
    BY WordIs
  <2> QED
    BY <1>2, <2>1 DEF ComputeSwapStep
<1>4. SpentOn(step, from, to, zeroForOne, L, left, fee)
  BY <1>1, <1>3, SpendsOn
<1>5. CASE zeroForOne = down
  BY <1>2, <1>4, <1>5, Zenon
<1>6. CASE from = to
  <2>1. Charge(L, from, to, fee) = 0
    BY <1>6, NoCharge
  <2>2. Charge(L, from, to, fee) <= left
    BY <2>1, WordIs
  <2>3. step.price = to /\ step.in + step.fee = Charge(L, from, to, fee) /\ step.out = Gain(L, from, to)
    BY <1>4, <2>2 DEF SpentOn
  <2>4. OnTheWay(to, from, to, down)
    BY HeadsOn DEF OnTheWay
  <2>5. SpentOn(step, from, to, down, L, left, fee)
    BY <2>2, <2>3, <2>4, Zenon DEF SpentOn
  <2> QED
    BY <1>2, <2>5
<1> QED
  BY <1>1, <1>5, <1>6

(* either way.                                                             *)
LEMMA StepOutExact ==
    ASSUME NEW L \in 0..UMax, NEW from \in Ratios, NEW to \in Ratios, NEW fee \in FeePips,
           NEW left \in 1 - Word .. -1, NEW down \in BOOLEAN, Heads(from, to, down)
    PROVE  GotFor(ComputeSwapStep(from, to, L, left, fee), from, to, down, L, -left, fee)
<1>1. PICK zeroForOne \in BOOLEAN :
        zeroForOne = (from >= to) /\ Heads(from, to, zeroForOne) /\ (zeroForOne = down \/ from = to)
  BY DirectionIs
<1>2. PICK step : step = ComputeSwapStep(from, to, L, left, fee)
  OBVIOUS
<1>3. PICK want \in Nat : want = -left /\ want > 0 /\ ~(left >= 0)
  <2>1. -left \in Nat /\ -left > 0 /\ ~(left >= 0)
    BY WordIs
  <2> QED
    BY <2>1
<1>4. step = StepExactOut(from, to, L, want, fee)
  BY <1>2, <1>3 DEF ComputeSwapStep
<1>5. GotFor(step, from, to, zeroForOne, L, want, fee)
  BY <1>1, <1>4, GetsFor
<1>6. CASE zeroForOne = down
  BY <1>2, <1>3, <1>5, <1>6, Zenon
<1>7. CASE from = to
  <2>1. step.price = to
    BY <1>5, <1>7, HeadsOn DEF GotFor, OnTheWay
  <2>2. OnTheWay(to, from, to, down)
    BY HeadsOn DEF OnTheWay
  <2>3. GotFor(step, from, to, down, L, want, fee)
    BY <1>5, <2>1, <2>2, Zenon DEF GotFor
  <2> QED
    BY <1>2, <1>3, <2>3
<1> QED
  BY <1>1, <1>6, <1>7
-----------------------------------------------------------------------------
(* A turn of the contract's swap. *)

(* Where a turn has ended at a price.                                      *)
GoneTo(t, s, next, to, left) ==
    /\ Shaped(t) /\ t.price = to /\ t.left = left
    /\ t.contract = s.contract /\ t.fee = s.fee /\ t.down = s.down /\ t.specified = s.specified
    /\ t.calculated = s.calculated + Gain(s.liquidity, s.price, to)
    /\ to = PriceAt(next) => t.tick = Onto(next, s.down) /\ t.liquidity = Active(Onto(next, s.down))
    /\ t.end = IF left = 0 \/ to = Limit(s.down) THEN "filled" ELSE "no"

(* ContractGoes says so field by field.                                    *)
LEMMA GoesTo ==
    ASSUME NEW s, Shaped(s), NEW next, NEW to, NEW left
    PROVE  GoneTo(ContractGoes(s, next, to, left), s, next, to, left)
<1>1. PICK t : t = ContractGoes(s, next, to, left)
  OBVIOUS
<1>2. /\ Shaped(t) /\ t.price = to /\ t.left = left
      /\ t.contract = s.contract /\ t.fee = s.fee /\ t.down = s.down /\ t.specified = s.specified
      /\ t.calculated = s.calculated + Gain(s.liquidity, s.price, to)
      /\ t.tick = (IF to = PriceAt(next) THEN Onto(next, s.down) ELSE TickOf(to))
      /\ t.liquidity = (IF to = PriceAt(next) THEN Active(Onto(next, s.down)) ELSE s.liquidity)
      /\ t.end = IF left = 0 \/ to = Limit(s.down) THEN "filled" ELSE "no"
  BY <1>1 DEF ContractGoes, Shaped, Names
<1> QED
  BY <1>1, <1>2 DEF GoneTo

(* It pays for the way to its target, or goes as far as it pays for.       *)
ContractGone(t, s, next, to) ==
    /\ OnTheWay(t.price, s.price, to, s.down) /\ GoneTo(t, s, next, t.price, t.left)
    /\ \/ /\ t.price = to /\ Charge(s.liquidity, s.price, to, s.fee) <= s.left
          /\ t.left = s.left - Charge(s.liquidity, s.price, to, s.fee)
       \/ /\ t.left = 0 /\ Charge(s.liquidity, s.price, t.price, s.fee) <= s.left
          /\ ~(Charge(s.liquidity, s.price, to, s.fee) <= s.left)

(* One comparison decides between the two.                                 *)
LEMMA ContractGoesOn ==
    ASSUME NEW s, Shaped(s), s.liquidity \in 0..UMax, s.price \in Ratios, s.fee \in FeePips,
           s.left \in Nat, s.down \in BOOLEAN, NEW next, NEW to \in Ratios, Heads(s.price, to, s.down)
    PROVE  ContractGone(ContractTo(s, next, to), s, next, to)
<1>1. PICK L \in 0..UMax, from \in Ratios, fee \in FeePips, left \in Nat, down \in BOOLEAN :
        L = s.liquidity /\ from = s.price /\ fee = s.fee /\ left = s.left /\ down = s.down
  OBVIOUS
<1>2. Heads(from, to, down)
  BY <1>1
<1>3. PICK cost \in Nat : cost = Cost(L, from, to)
  BY <1>2, SomeCharge
<1>4. PICK net \in Nat : net = (left * (FeeUnit - fee)) \div FeeUnit
  BY <1>3, WithFeeIs
<1>5. ASSUME NEW q \in Ratios, Heads(from, q, down)
      PROVE  Charge(L, from, q, fee) <= left <=> Cost(L, from, q) <= net
  <2>1. PICK c \in Nat : c = Cost(L, from, q)
    BY <1>5, SomeCharge
  <2>2. WithFee(c, fee) <= left <=> c <= (left * (FeeUnit - fee)) \div FeeUnit
    BY WithFeeIs
  <2> QED
    BY <1>4, <2>1, <2>2 DEF Charge
<1>6. PICK t : t = ContractTo(s, next, to)
  OBVIOUS
<1>7. t = ContractStep(s, next, to, net, cost)
  BY <1>1, <1>3, <1>4, <1>6, Zenon DEF ContractTo
<1>8. CASE cost <= net
  <2>1. PICK rest : rest = left - WithFee(cost, fee)
    OBVIOUS
  <2>2. t = ContractGoes(s, next, to, rest)
    BY <1>1, <1>7, <1>8, <2>1, Zenon DEF ContractStep
  <2>3. GoneTo(t, s, next, to, rest)
    BY <2>2, GoesTo, Zenon
  <2>4. t.price = to /\ t.left = rest
    BY <2>3 DEF GoneTo
  <2>5. OnTheWay(to, from, to, down)
    BY <1>2, HeadsOn DEF OnTheWay
  <2>6. Charge(L, from, to, fee) <= left
    BY <1>2, <1>3, <1>5, <1>8
  <2>7. rest = left - Charge(L, from, to, fee)
    BY <1>3, <2>1 DEF Charge
  <2>8. ContractGone(t, s, next, to)
    BY <1>1, <2>3, <2>4, <2>5, <2>6, <2>7, Zenon DEF ContractGone
  <2> QED
    BY <1>6, <2>8
<1>9. CASE ~(cost <= net)
  <2>1. net < Cost(L, from, to)
    BY <1>3, <1>9
  <2>2. PICK r \in Ratios : AsFarAs(r, net, L, from, to, down)
    BY <1>2, <2>1, ReachesIs
  <2>3. /\ r = Reaches(net, L, from, down) /\ OnTheWay(r, from, to, down)
        /\ \A q \in Ratios : Heads(from, q, down) => (Cost(L, from, q) <= net <=> Heads(q, r, down))
    BY <2>2, Zenon DEF AsFarAs
  <2>4. t = ContractGoes(s, next, r, 0)
    BY <1>1, <1>7, <1>9, <2>3, Zenon DEF ContractStep
  <2>5. GoneTo(t, s, next, r, 0)
    BY <2>4, GoesTo, Zenon
  <2>6. t.price = r /\ t.left = 0
    BY <2>5 DEF GoneTo
  <2>7. Charge(L, from, r, fee) <= left
    <3>1. Heads(from, r, down) /\ Heads(r, r, down)
      BY <2>3, HeadsOn DEF OnTheWay
    <3> QED
      BY <1>5, <2>3, <3>1
  <2>8. ~(Charge(L, from, to, fee) <= left)
    BY <1>2, <1>3, <1>5, <1>9
  <2>9. ContractGone(t, s, next, to)
    BY <1>1, <2>3, <2>5, <2>6, <2>7, <2>8, Zenon DEF ContractGone
  <2> QED
    BY <1>6, <2>9
<1> QED
  BY <1>8, <1>9

(* No farther price on the way could be paid for.                          *)
LEMMA ContractGoesFar ==
    ASSUME NEW s, Shaped(s), s.liquidity \in 0..UMax, s.price \in Ratios, s.fee \in FeePips,
           s.left \in Nat, s.down \in BOOLEAN, NEW next, NEW to \in Ratios, Heads(s.price, to, s.down),
           NEW q \in Ratios, Heads(s.price, q, s.down), Heads(q, to, s.down),
           Charge(s.liquidity, s.price, q, s.fee) <= s.left
    PROVE  Heads(q, ContractTo(s, next, to).price, s.down)
<1>1. PICK L \in 0..UMax, from \in Ratios, fee \in FeePips, left \in Nat, down \in BOOLEAN :
        L = s.liquidity /\ from = s.price /\ fee = s.fee /\ left = s.left /\ down = s.down
  OBVIOUS
<1>2. Heads(from, to, down) /\ Heads(from, q, down) /\ Heads(q, to, down) /\ Charge(L, from, q, fee) <= left
  BY <1>1
<1>3. PICK cost \in Nat, c \in Nat : cost = Cost(L, from, to) /\ c = Cost(L, from, q)
  BY <1>2, SomeCharge
<1>4. PICK net \in Nat : net = (left * (FeeUnit - fee)) \div FeeUnit
  BY <1>3, WithFeeIs
<1>5. c <= net
  <2>1. WithFee(c, fee) <= left <=> c <= (left * (FeeUnit - fee)) \div FeeUnit
    BY WithFeeIs
  <2> QED
    BY <1>2, <1>3, <1>4, <2>1 DEF Charge
<1>6. PICK t : t = ContractTo(s, next, to)
  OBVIOUS
<1>7. t = ContractStep(s, next, to, net, cost)
  BY <1>1, <1>3, <1>4, <1>6, Zenon DEF ContractTo
<1>8. CASE cost <= net
  <2>1. PICK rest : rest = left - WithFee(cost, fee)
    OBVIOUS
  <2>2. t = ContractGoes(s, next, to, rest)
    BY <1>1, <1>7, <1>8, <2>1, Zenon DEF ContractStep
  <2>0. GoneTo(t, s, next, to, rest)
    BY <2>2, GoesTo, Zenon
  <2>3. t.price = to
    BY <2>0 DEF GoneTo
  <2> QED
    BY <1>1, <1>2, <1>6, <2>3
<1>9. CASE ~(cost <= net)
  <2>1. net < Cost(L, from, to)
    BY <1>3, <1>9
  <2>2. PICK r \in Ratios : AsFarAs(r, net, L, from, to, down)
    BY <1>2, <2>1, ReachesIs
  <2>3. /\ r = Reaches(net, L, from, down)
        /\ \A x \in Ratios : Heads(from, x, down) => (Cost(L, from, x) <= net <=> Heads(x, r, down))
    BY <2>2, Zenon DEF AsFarAs
  <2>4. t = ContractGoes(s, next, r, 0)
    BY <1>1, <1>7, <1>9, <2>3, Zenon DEF ContractStep
  <2>0. GoneTo(t, s, next, r, 0)
    BY <2>4, GoesTo, Zenon
  <2>5. t.price = r
    BY <2>0 DEF GoneTo
  <2> QED
    BY <1>1, <1>2, <1>3, <1>5, <1>6, <2>3, <2>5
<1> QED
  BY <1>8, <1>9
-----------------------------------------------------------------------------
(* Where the contract stops: at the next initialized tick, or before it at *)
(* the border of a word.                                                   *)

(* What has been taken of the ticks in a direction.                        *)
LastTick(down) == IF down THEN MinTick ELSE MaxTick
Follow(m, t, down) == IF down THEN m <= t ELSE m > t

(* A stop that is no initialized tick is a border: liquidity and the ticks *)
(* ahead stay, and the next word begins.                                   *)
BorderOf(m, t, down) ==
    /\ Ahead(Onto(m, down), down) = Ahead(t, down)
    /\ ActiveIn(positions, Onto(m, down)) = ActiveIn(positions, t)
    /\ \/ m = LastTick(down)
       \/ WordOf(Onto(m, down), down) = WordOf(t, down) + (IF down THEN -1 ELSE 1)

(* An initialized tick it stops at is the one the code goes to.            *)
StopsAt(m, t, down) ==
    /\ m = ContractStop(t, down) /\ m \in Ticks /\ Follow(m, t, down)
    /\ m \in Ahead(t, down) => m = NextTick(t, down)
    /\ m \notin Ahead(t, down) => BorderOf(m, t, down)

(* A word spans some ticks.                                                *)
LEMMA WordTicksAre == WordTicks \in Nat /\ WordTicks > 0
BY QuoteAssumption

(* The sums of the contract's positions are those of the invariant.        *)
LEMMA GrossNow ==
    ASSUME AtHead, NEW u \in Int
    PROVE  Gross(u) = GrossIn(positions, u) /\ GrossIn(positions, u) \in Nat /\ Active(u) = ActiveIn(positions, u)
<1>1. positions \in [Ranges -> Nat]
  BY DEF AtHead, Allowed
<1> QED
  BY <1>1, FetchedNow, TermsNat

(* Downwards it is the highest of what is in the word,                     *)
LEMMA StopDown ==
    ASSUME AtHead, NEW t \in Ticks PROVE StopsAt(ContractStop(t, TRUE), t, TRUE)
<1>1. PICK a \in Int, z \in Int : a = MinTick /\ z = MaxTick /\ a <= t /\ t <= z /\ t \in Int /\ Ticks = a .. z
  BY TicksAre
<1>2. PICK w \in Int, d \in Nat : w = t \div d /\ d = WordTicks /\ d > 0 /\ w * d <= t /\ t < w * d + d
  <2>1. PICK d \in Nat : d = WordTicks /\ d > 0
    BY WordTicksAre
  <2>2. PICK w \in Int, r \in 0 .. d - 1 : w = t \div d /\ t = w * d + r
    BY <1>1, <2>1, Quotients
  <2> QED
    BY <1>1, <2>1, <2>2
<1>3. PICK b \in Int : b = w * d /\ b <= t /\ t < b + d
  BY <1>1, <1>2
<1>4. PICK border \in Ticks :
        /\ border = Max({b, a}) /\ border \in Int
        /\ a <= border /\ border <= t /\ (border = b \/ border = a)
  <2>1. (a <= b => Max({b, a}) = b) /\ (b <= a => Max({b, a}) = a)
    BY <1>1, <1>3, MinMaxOfTwo
  <2> QED
    BY <1>1, <1>3, <2>1
<1>5. PICK S : S = {u \in Ticks : Gross(u) > 0 /\ u \in border .. t}
  OBVIOUS
<1>6. PICK m : m = ContractStop(t, TRUE)
  OBVIOUS
<1>7. m = IF S = {} THEN border ELSE Max(S)
  <2>1. WordOf(t, TRUE) = w
    BY <1>2 DEF WordOf
  <2>2. border = Max({WordOf(t, TRUE) * WordTicks, MinTick})
    BY <1>1, <1>2, <1>3, <1>4, <2>1, Zenon
  <2> QED
    BY <1>5, <1>6, <2>2, Zenon DEF ContractStop
<1>8. PICK A \in SUBSET Ticks : A = Ahead(t, TRUE) /\ \A u \in Ticks : u \in A <=> GrossIn(positions, u) > 0 /\ u <= t
  <2>1. /\ Ahead(t, TRUE) \subseteq Ticks
        /\ \A u \in Ticks : u \in Ahead(t, TRUE) <=> GrossIn(positions, u) > 0 /\ u <= t
    BY AheadIs
  <2> QED
    BY <2>1
<1>9. \A u \in Ticks : u \in Int /\ Gross(u) = GrossIn(positions, u) /\ GrossIn(positions, u) \in Nat
  BY <1>1, GrossNow
<1>10. ASSUME NEW u \in Ticks PROVE u \in S <=> u \in A /\ border <= u
  <2>1. u \in Int /\ Gross(u) = GrossIn(positions, u)
    BY <1>9
  <2>2. u \in S <=> Gross(u) > 0 /\ u \in border .. t
    BY <1>5
  <2>3. u \in border .. t <=> border <= u /\ u <= t
    BY <1>1, <1>4, <2>1
  <2>4. u \in A <=> GrossIn(positions, u) > 0 /\ u <= t
    BY <1>8
  <2> QED
    BY <2>1, <2>2, <2>3, <2>4, Zenon
<1>11. CASE S # {}
  <2>1. m \in S /\ \A u \in S : u <= m
    <3>1. S \in SUBSET Ticks /\ m = Max(S)
      BY <1>5, <1>7, <1>11
    <3> QED
      BY <1>11, <3>1, MaxIs
  <2>2. m \in Ticks /\ m \in A /\ border <= m /\ m <= t /\ m \in Int
    BY <1>5, <1>8, <1>9, <1>10, <2>1
  <2>3. PICK y : y = NextTick(t, TRUE)
    OBVIOUS
  <2>4. y \in A /\ \A u \in A : u <= y
    <3>1. A # {}
      BY <2>2
    <3>2. y = Max(A)
      BY <1>8, <2>3, <3>1 DEF NextTick
    <3> QED
      BY <3>1, <3>2, MaxIs
  <2>5. y \in Int /\ y \in Ticks /\ m <= y
    BY <1>8, <1>9, <2>2, <2>4
  <2>6. border <= y
    BY <1>4, <2>2, <2>5
  <2>7. y <= m
    BY <1>10, <2>1, <2>4, <2>5, <2>6
  <2>8. m = NextTick(t, TRUE)
    <3>1. m = y
      BY <2>2, <2>5, <2>7
    <3> QED
      BY <2>3, <3>1
  <2>9. StopsAt(m, t, TRUE)
    BY <1>6, <1>8, <2>2, <2>8 DEF StopsAt, Follow
  <2> QED
    BY <1>6, <2>9
<1>12. CASE S = {}
  <2>1. m = border /\ m \in Int /\ m \in Ticks /\ m <= t
    BY <1>4, <1>7, <1>12
  <2>2. m \notin A
    BY <1>10, <1>12, <2>1
  <2>3. \A u \in Ticks : u \in A => u < m
    BY <1>9, <1>10, <1>12, <2>1
  <2>4. Onto(m, TRUE) = m - 1
    BY DEF Onto
  <2>5. Ahead(m - 1, TRUE) = A
    <3>1. PICK B \in SUBSET Ticks :
            B = Ahead(m - 1, TRUE) /\ \A u \in Ticks : u \in B <=> GrossIn(positions, u) > 0 /\ u <= m - 1
      <4>1. /\ Ahead(m - 1, TRUE) \subseteq Ticks
            /\ \A u \in Ticks : u \in Ahead(m - 1, TRUE) <=> GrossIn(positions, u) > 0 /\ u <= m - 1
        BY AheadIs
      <4> QED
        BY <4>1
    <3>2. ASSUME NEW u \in Ticks PROVE u \in A <=> u \in B
      <4>1. u \in Int
        BY <1>9
      <4>2. u \in A => u <= m - 1
        BY <2>1, <2>3, <4>1
      <4>3. u <= m - 1 => u <= t
        BY <1>1, <2>1, <4>1
      <4> QED
        BY <1>8, <3>1, <4>2, <4>3
    <3> QED
      BY <1>8, <3>1, <3>2
  <2>6. ActiveIn(positions, m - 1) = ActiveIn(positions, t)
    <3>1. \A u \in (m - 1) + 1 .. t : GrossIn(positions, u) = 0
      <4>1. ASSUME NEW u \in (m - 1) + 1 .. t PROVE GrossIn(positions, u) = 0
        <5>1. u \in Int /\ m <= u /\ u <= t /\ u \in Ticks
          BY <1>1, <2>1, <4>1
        <5>2. u \notin A
          BY <2>1, <2>3, <5>1
        <5>3. GrossIn(positions, u) \in Nat /\ ~(GrossIn(positions, u) > 0)
          BY <1>8, <1>9, <5>1, <5>2, Zenon
        <5> QED
          BY <5>3
      <4> QED
        BY <4>1
    <3>2. positions \in [Ranges -> Nat] /\ m - 1 \in Int /\ m - 1 <= t
      BY <1>1, <2>1 DEF AtHead, Allowed
    <3> QED
      BY <1>1, <3>1, <3>2, ActiveSame
  <2>7. m = LastTick(TRUE) \/ WordOf(m - 1, TRUE) = WordOf(t, TRUE) + -1
    <3>1. CASE border = a
      BY <1>1, <2>1, <3>1 DEF LastTick
    <3>2. CASE border = b
      <4>1. b - 1 = (w - 1) * d + (d - 1) /\ d - 1 \in 0 .. d - 1 /\ w - 1 \in Int /\ b - 1 \in Int
        BY <1>2, <1>3
      <4>2. (b - 1) \div d = w - 1
        BY <1>2, <4>1, QuotientIs
      <4> QED
        BY <1>2, <2>1, <3>2, <4>2 DEF WordOf
    <3> QED
      BY <1>4, <3>1, <3>2
  <2>8. BorderOf(m, t, TRUE)
    BY <1>8, <2>4, <2>5, <2>6, <2>7, Zenon DEF BorderOf
  <2>9. StopsAt(m, t, TRUE)
    BY <1>6, <1>8, <2>1, <2>2, <2>8 DEF StopsAt, Follow
  <2> QED
    BY <1>6, <2>9
<1> QED
  BY <1>11, <1>12

(* upwards the lowest,                                                     *)
LEMMA StopUp ==
    ASSUME AtHead, NEW t \in Ticks, t < MaxTick PROVE StopsAt(ContractStop(t, FALSE), t, FALSE)
<1>1. PICK a \in Int, z \in Int : a = MinTick /\ z = MaxTick /\ a <= t /\ t < z /\ t \in Int /\ Ticks = a .. z
  BY TicksAre
<1>2. PICK w \in Int, d \in Nat : w = (t + 1) \div d /\ d = WordTicks /\ d > 0 /\ w * d <= t + 1 /\ t + 1 < w * d + d
  <2>1. PICK d \in Nat : d = WordTicks /\ d > 0
    BY WordTicksAre
  <2>2. PICK w \in Int, r \in 0 .. d - 1 : w = (t + 1) \div d /\ t + 1 = w * d + r
    BY <1>1, <2>1, Quotients
  <2> QED
    BY <1>1, <2>1, <2>2
<1>3. PICK b \in Int : b = (w + 1) * d - 1 /\ t + 1 <= b
  <2>1. (w + 1) * d = w * d + d /\ w * d \in Int
    BY <1>2
  <2> QED
    BY <1>1, <1>2, <2>1
<1>4. PICK border \in Ticks :
        /\ border = Min({b, z}) /\ border \in Int
        /\ border <= z /\ t + 1 <= border /\ (border = b \/ border = z)
  <2>1. (z <= b => Min({b, z}) = z) /\ (b <= z => Min({b, z}) = b)
    BY <1>1, <1>3, MinMaxOfTwo
  <2> QED
    BY <1>1, <1>3, <2>1
<1>5. PICK S : S = {u \in Ticks : Gross(u) > 0 /\ u \in t + 1 .. border}
  OBVIOUS
<1>6. PICK m : m = ContractStop(t, FALSE)
  OBVIOUS
<1>7. m = IF S = {} THEN border ELSE Min(S)
  <2>1. WordOf(t, FALSE) = w
    BY <1>2 DEF WordOf
  <2>2. border = Min({(WordOf(t, FALSE) + 1) * WordTicks - 1, MaxTick})
    BY <1>1, <1>2, <1>3, <1>4, <2>1, Zenon
  <2> QED
    BY <1>5, <1>6, <2>2, Zenon DEF ContractStop
<1>8. PICK A \in SUBSET Ticks : A = Ahead(t, FALSE) /\ \A u \in Ticks : u \in A <=> GrossIn(positions, u) > 0 /\ u > t
  <2>1. /\ Ahead(t, FALSE) \subseteq Ticks
        /\ \A u \in Ticks : u \in Ahead(t, FALSE) <=> GrossIn(positions, u) > 0 /\ u > t
    BY AheadIs
  <2> QED
    BY <2>1
<1>9. \A u \in Ticks : u \in Int /\ Gross(u) = GrossIn(positions, u) /\ GrossIn(positions, u) \in Nat
  BY <1>1, GrossNow
<1>10. ASSUME NEW u \in Ticks PROVE u \in S <=> u \in A /\ u <= border
  <2>1. u \in Int /\ Gross(u) = GrossIn(positions, u)
    BY <1>9
  <2>2. u \in S <=> Gross(u) > 0 /\ u \in t + 1 .. border
    BY <1>5
  <2>3. u \in t + 1 .. border <=> u <= border /\ u > t
    BY <1>1, <1>4, <2>1
  <2>4. u \in A <=> GrossIn(positions, u) > 0 /\ u > t
    BY <1>8
  <2> QED
    BY <2>1, <2>2, <2>3, <2>4, Zenon
<1>11. CASE S # {}
  <2>1. m \in S /\ \A u \in S : m <= u
    <3>1. S \in SUBSET Ticks /\ m = Min(S)
      BY <1>5, <1>7, <1>11
    <3> QED
      BY <1>11, <3>1, MinIs
  <2>2. m \in Ticks /\ m \in A /\ m <= border /\ m > t /\ m \in Int
    BY <1>5, <1>8, <1>9, <1>10, <2>1
  <2>3. PICK y : y = NextTick(t, FALSE)
    OBVIOUS
  <2>4. y \in A /\ \A u \in A : y <= u
    <3>1. A # {}
      BY <2>2
    <3>2. y = Min(A)
      BY <1>8, <2>3, <3>1 DEF NextTick
    <3> QED
      BY <3>1, <3>2, MinIs
  <2>5. y \in Int /\ y \in Ticks /\ y <= m
    BY <1>8, <1>9, <2>2, <2>4
  <2>6. y <= border
    BY <1>4, <2>2, <2>5
  <2>7. m <= y
    BY <1>10, <2>1, <2>4, <2>5, <2>6
  <2>8. m = NextTick(t, FALSE)
    <3>1. m = y
      BY <2>2, <2>5, <2>7
    <3> QED
      BY <2>3, <3>1
  <2>9. StopsAt(m, t, FALSE)
    BY <1>6, <1>8, <2>2, <2>8 DEF StopsAt, Follow
  <2> QED
    BY <1>6, <2>9
<1>12. CASE S = {}
  <2>1. m = border /\ m \in Int /\ m \in Ticks /\ m > t
    BY <1>1, <1>4, <1>7, <1>12
  <2>2. m \notin A
    BY <1>10, <1>12, <2>1
  <2>3. \A u \in Ticks : u \in A => u > m
    BY <1>9, <1>10, <1>12, <2>1
  <2>4. Onto(m, FALSE) = m
    BY DEF Onto
  <2>5. Ahead(m, FALSE) = A
    <3>1. PICK B \in SUBSET Ticks :
            B = Ahead(m, FALSE) /\ \A u \in Ticks : u \in B <=> GrossIn(positions, u) > 0 /\ u > m
      <4>1. /\ Ahead(m, FALSE) \subseteq Ticks
            /\ \A u \in Ticks : u \in Ahead(m, FALSE) <=> GrossIn(positions, u) > 0 /\ u > m
        BY AheadIs
      <4> QED
        BY <4>1
    <3>2. ASSUME NEW u \in Ticks PROVE u \in A <=> u \in B
      <4>1. u \in Int
        BY <1>9
      <4>2. u \in A => u > m
        BY <2>3
      <4>3. u > m => u > t
        BY <1>1, <2>1, <4>1
      <4> QED
        BY <1>8, <3>1, <4>2, <4>3
    <3> QED
      BY <1>8, <3>1, <3>2
  <2>6. ActiveIn(positions, m) = ActiveIn(positions, t)
    <3>1. \A u \in t + 1 .. m : GrossIn(positions, u) = 0
      <4>1. ASSUME NEW u \in t + 1 .. m PROVE GrossIn(positions, u) = 0
        <5>1. u \in Int /\ u > t /\ u <= m /\ u \in Ticks
          BY <1>1, <1>4, <2>1, <4>1
        <5>2. u \notin A
          BY <2>1, <2>3, <5>1
        <5>3. GrossIn(positions, u) \in Nat /\ ~(GrossIn(positions, u) > 0)
          BY <1>8, <1>9, <5>1, <5>2, Zenon
        <5> QED
          BY <5>3
      <4> QED
        BY <4>1
    <3>2. positions \in [Ranges -> Nat] /\ t <= m
      BY <1>1, <2>1 DEF AtHead, Allowed
    <3> QED
      BY <1>1, <2>1, <3>1, <3>2, ActiveSame
  <2>7. m = LastTick(FALSE) \/ WordOf(m, FALSE) = WordOf(t, FALSE) + 1
    <3>1. CASE border = z
      BY <1>1, <2>1, <3>1 DEF LastTick
    <3>2. CASE border = b
      <4>1. b + 1 = (w + 1) * d + 0 /\ 0 \in 0 .. d - 1 /\ w + 1 \in Int /\ b + 1 \in Int
        BY <1>2, <1>3
      <4>2. (b + 1) \div d = w + 1
        BY <1>2, <4>1, QuotientIs
      <4> QED
        BY <1>2, <2>1, <3>2, <4>2 DEF WordOf
    <3> QED
      BY <1>4, <3>1, <3>2
  <2>8. BorderOf(m, t, FALSE)
    BY <1>8, <2>4, <2>5, <2>6, <2>7, Zenon DEF BorderOf
  <2>9. StopsAt(m, t, FALSE)
    BY <1>6, <1>8, <2>1, <2>2, <2>8 DEF StopsAt, Follow
  <2> QED
    BY <1>6, <2>9
<1> QED
  BY <1>11, <1>12

(* either way.                                                             *)
LEMMA StopIs ==
    ASSUME AtHead, NEW t \in Ticks, t < MaxTick, NEW down \in BOOLEAN
    PROVE  \E m \in Ticks : StopsAt(m, t, down)
<1>1. StopsAt(ContractStop(t, down), t, down)
  BY StopDown, StopUp
<1> QED
  BY <1>1 DEF StopsAt
-----------------------------------------------------------------------------
(* From a tick to where it is left. *)

(* Within the limits of v3_swap.                                           *)
Inside(p) == p \in Ratios /\ Limit(TRUE) <= p /\ p <= Limit(FALSE)

(* The target of a turn is ahead, and not beyond the tick or the limit.    *)
LEMMA TargetAhead ==
    ASSUME NEW p, NEW t, NEW l, Placed(p, t, l), Inside(p), NEW down \in BOOLEAN,
           NEW m \in Ticks, Follow(m, t, down)
    PROVE  /\ Target(m, down) \in Ratios /\ Heads(p, Target(m, down), down) /\ Inside(Target(m, down))
           /\ Target(m, down) \in {PriceAt(m), Limit(down)} /\ Heads(Target(m, down), Limit(down), down)
           /\ Heads(p, PriceAt(m), down) /\ Heads(Target(m, down), PriceAt(m), down)
<1>1. PICK to \in Ratios : to = Target(m, down)
  BY TargetIs
<1>2. PICK x \in Nat, y \in Nat, z \in Nat, lo \in Nat, hi \in Nat :
        /\ x = PriceAt(m) /\ y = PriceAt(t) /\ z = PriceAt(t + 1) /\ lo = Limit(TRUE) /\ hi = Limit(FALSE)
        /\ y <= p /\ p <= z /\ lo <= p /\ p <= hi /\ p \in Nat /\ to \in Nat
        /\ t \in Int /\ m \in Int /\ t \in Ticks /\ t + 1 \in Ticks
  <2>1. t \in Ticks /\ t < MaxTick /\ PriceAt(t) <= p /\ p <= PriceAt(t + 1) /\ p \in Ratios
    BY DEF Placed
  <2>2. PriceAt(t) \in Nat /\ PriceAt(t + 1) \in Nat /\ t + 1 \in Ticks /\ t \in Int
    BY <2>1, TickAfter
  <2>3. PriceAt(m) \in Nat /\ Limit(TRUE) \in Nat /\ Limit(FALSE) \in Nat /\ m \in Int
    <3>1. PriceAt(m) \in Nat /\ m \in Int
      BY PricesAre, TicksAre
    <3>2. Limit(TRUE) \in Ratios /\ Limit(FALSE) \in Ratios
      BY LimitsAre
    <3> QED
      BY <3>1, <3>2, RatiosAre
  <2>4. p \in Nat /\ to \in Nat
    BY <2>1, RatiosAre
  <2> QED
    BY <2>1, <2>2, <2>3, <2>4 DEF Inside
<1>2a. /\ y <= p /\ p <= z /\ lo <= p /\ p <= hi /\ p \in Nat /\ to \in Nat
       /\ x \in Nat /\ y \in Nat /\ z \in Nat /\ lo \in Nat /\ hi \in Nat
  BY <1>2, Zenon
<1>3. CASE down
  <2>1. x <= y
    <3>1. m <= t
      BY <1>3 DEF Follow
    <3> QED
      BY <1>2, <3>1, PricesOrder
  <2>2. x <= to /\ lo <= to /\ (to = x \/ to = lo)
    <3>1. PriceAt(m) <= to /\ Limit(TRUE) <= to /\ to \in {PriceAt(m), Limit(TRUE)}
      BY <1>1, <1>3, TargetIs
    <3> QED
      BY <1>2, <3>1
  <2>3. to <= p /\ to <= hi /\ x <= p
    BY <1>2a, <2>1, <2>2
  <2> QED
    BY <1>1, <1>2, <1>3, <2>2, <2>3 DEF Inside, Heads
<1>4. CASE ~down
  <2>1. z <= x
    <3>1. t + 1 <= m
      BY <1>2, <1>4 DEF Follow
    <3> QED
      BY <1>2, <3>1, PricesOrder
  <2>2. to <= x /\ to <= hi /\ (to = x \/ to = hi)
    <3>1. to <= PriceAt(m) /\ to <= Limit(FALSE) /\ to \in {PriceAt(m), Limit(FALSE)}
      BY <1>1, <1>4, TargetIs
    <3> QED
      BY <1>2, <3>1
  <2>3. p <= to /\ lo <= to /\ p <= x
    BY <1>2a, <2>1, <2>2
  <2> QED
    BY <1>1, <1>2, <1>4, <2>2, <2>3 DEF Inside, Heads
<1> QED
  BY <1>3, <1>4

(* Short of the limit it is the price of the tick, which is left to the    *)
(* side that the price heads for.                                          *)
LEMMA TickCrossed ==
    ASSUME NEW m \in Ticks, NEW down \in BOOLEAN, NEW r \in Ratios, r = PriceAt(m), Inside(r)
    PROVE  m # LastTick(down) /\ Placed(r, Onto(m, down), ActiveIn(positions, Onto(m, down)))
<1>1. PICK a \in Int, z \in Int :
        /\ a = MinTick /\ z = MaxTick /\ a <= m /\ m <= z /\ m \in Int
        /\ Ticks = a .. z /\ a < z
  BY TicksAre
<1>2. PICK x \in Nat, y \in Nat, lo \in Nat, hi \in Nat :
        x = PriceAt(a) /\ y = PriceAt(z) /\ lo = Limit(TRUE) /\ hi = Limit(FALSE) /\ x < lo /\ hi < y /\ r \in Nat
  <2>1. PriceAt(a) \in Nat /\ PriceAt(z) \in Nat
    BY <1>1, PricesAre
  <2>2. Limit(TRUE) \in Nat /\ Limit(FALSE) \in Nat /\ r \in Nat
    BY LimitsAre, RatiosAre
  <2> QED
    BY <1>1, <2>1, <2>2, LimitsAre
<1>3. lo <= r /\ r <= hi
  BY <1>2 DEF Inside
<1>4. m # a /\ m # z
  <2>1. r # x /\ r # y
    <3>1. x < lo /\ hi < y /\ r \in Nat
      BY <1>2, Zenon
    <3> QED
      BY <1>3, <3>1
  <2> QED
    BY <1>2, <2>1, Zenon
<1>5. m - 1 \in Ticks /\ m - 1 < MaxTick /\ m < MaxTick /\ (m - 1) + 1 = m
  BY <1>1, <1>4
<1>6. PriceAt(m - 1) \in Nat /\ PriceAt(m + 1) \in Nat /\ PriceAt(m - 1) < r /\ r < PriceAt(m + 1)
  BY <1>5, TickAfter
<1>7. PriceAt(m - 1) <= r /\ r <= PriceAt(m + 1) /\ PriceAt(m) <= r /\ r <= PriceAt(m)
  BY <1>2, <1>6
<1>8. CASE down
  BY <1>1, <1>4, <1>5, <1>7, <1>8 DEF Placed, Onto, LastTick
<1>9. CASE ~down
  BY <1>1, <1>4, <1>5, <1>7, <1>9 DEF Placed, Onto, LastTick
<1> QED
  BY <1>8, <1>9

(* A tick crossed is a turn accounted for.                                 *)
LEMMA TimeGoesOn ==
    ASSUME NEW n \in Nat, NEW down \in BOOLEAN, NEW t \in Ticks, InTime(n, down, t),
           NEW m \in Ticks, Follow(m, t, down)
    PROVE  InTime(n + 1, down, Onto(m, down))
<1>1. PICK a \in Int, z \in Int : a = MinTick /\ z = MaxTick /\ m \in Int /\ t \in Int
  BY TicksAre
<1>2. CASE down
  BY <1>1, <1>2 DEF InTime, Follow, Onto
<1>3. CASE ~down
  BY <1>1, <1>3 DEF InTime, Follow, Onto
<1> QED
  BY <1>2, <1>3
-----------------------------------------------------------------------------
(* A turn of the contract's swap leads to its next stop, or ends it. *)

(* The contract's swap before a turn,                                      *)
Swaps(c) ==
    /\ Shaped(c) /\ c.down \in BOOLEAN /\ c.fee \in FeePips
    /\ c.left \in Nat /\ c.left > 0 /\ c.calculated \in Nat
    /\ Placed(c.price, c.tick, c.liquidity) /\ Inside(c.price)

(* and after it, from a stop m and with the target r.                      *)
Swapped(c, t, m, r) ==
    /\ StopsAt(m, c.tick, c.down) /\ r = Target(m, c.down) /\ Heads(c.price, r, c.down)
    /\ r \in {PriceAt(m), Limit(c.down)} /\ Heads(r, Limit(c.down), c.down)
    /\ ContractGone(t, c, m, r) /\ (r = PriceAt(m) => m # LastTick(c.down))
    /\ t.left \in Nat /\ t.calculated \in Nat /\ c.calculated <= t.calculated
    /\ t.end \in {"filled", "no"}
    /\ t.end = "no" <=> t.left # 0 /\ t.price # Limit(c.down)
    /\ t.end = "no" =>
         /\ t.price = r /\ r = PriceAt(m) /\ m # LastTick(c.down)
         /\ t.tick = Onto(m, c.down) /\ t.liquidity = ActiveIn(positions, t.tick) /\ Swaps(t)

(* It goes on only from one stop to the next.                              *)
LEMMA ContractTurns ==
    ASSUME AtHead, NEW c, Swaps(c)
    PROVE  \E m \in Ticks, r \in Ratios : Swapped(c, ContractTurn(c), m, r)
<1>1. /\ Shaped(c) /\ c.down \in BOOLEAN /\ c.fee \in FeePips /\ c.left \in Nat /\ c.calculated \in Nat
      /\ c.tick \in Ticks /\ c.tick < MaxTick /\ c.price \in Ratios /\ c.liquidity = ActiveIn(positions, c.tick)
      /\ Placed(c.price, c.tick, c.liquidity) /\ Inside(c.price)
  BY DEF Swaps, Placed
<1>2. PICK m \in Ticks : StopsAt(m, c.tick, c.down)
  BY <1>1, StopIs
<1>3. m = ContractStop(c.tick, c.down) /\ Follow(m, c.tick, c.down)
  BY <1>2 DEF StopsAt
<1>4. PICK r \in Ratios :
        /\ r = Target(m, c.down) /\ Heads(c.price, r, c.down) /\ Inside(r)
        /\ r \in {PriceAt(m), Limit(c.down)} /\ Heads(r, Limit(c.down), c.down)
  BY <1>1, <1>3, TargetAhead
<1>5. PICK t : t = ContractTurn(c)
  OBVIOUS
<1>6. t = ContractTo(c, m, r)
  BY <1>3, <1>4, <1>5, Zenon DEF ContractTurn
<1>7. c.liquidity \in 0..UMax
  BY <1>1, ActiveBounded DEF AtHead
<1>8. ContractGone(t, c, m, r)
  BY <1>1, <1>4, <1>6, <1>7, ContractGoesOn
<1>9. PICK p \in Ratios : p = t.price /\ Heads(c.price, p, c.down) /\ Heads(p, r, c.down)
  BY <1>8 DEF ContractGone, OnTheWay
<1>10. /\ Shaped(t) /\ t.fee = c.fee /\ t.down = c.down
       /\ t.calculated = c.calculated + Gain(c.liquidity, c.price, p)
       /\ p = PriceAt(m) => t.tick = Onto(m, c.down) /\ t.liquidity = Active(Onto(m, c.down))
       /\ t.end = IF t.left = 0 \/ p = Limit(c.down) THEN "filled" ELSE "no"
  BY <1>8, <1>9 DEF ContractGone, GoneTo
<1>11. t.calculated \in Nat /\ c.calculated <= t.calculated
  <2>1. Gain(c.liquidity, c.price, p) \in Nat
    BY <1>1, <1>7, <1>9, SomeCharge
  <2> QED
    BY <1>1, <1>10, <2>1
<1>12. t.left \in Nat
  <2>1. PICK x \in Nat : x = Charge(c.liquidity, c.price, r, c.fee)
    BY <1>1, <1>4, <1>7, SomeCharge
  <2>2. (x <= c.left /\ t.left = c.left - x) \/ t.left = 0
    BY <1>8, <2>1 DEF ContractGone
  <2> QED
    BY <1>1, <2>1, <2>2
<1>13. t.end \in {"filled", "no"} /\ (t.end = "no" <=> t.left # 0 /\ t.price # Limit(c.down))
  BY <1>9, <1>10
<1>14. ASSUME t.end = "no"
       PROVE  /\ t.price = r /\ r = PriceAt(m) /\ m # LastTick(c.down)
              /\ t.tick = Onto(m, c.down) /\ t.liquidity = ActiveIn(positions, t.tick) /\ Swaps(t)
  <2>1. t.left # 0 /\ t.price # Limit(c.down)
    BY <1>13, <1>14
  <2>2. t.price = r
    BY <1>8, <2>1 DEF ContractGone
  <2>3. r = PriceAt(m)
    BY <1>4, <2>1, <2>2
  <2>4. m # LastTick(c.down) /\ Placed(r, Onto(m, c.down), ActiveIn(positions, Onto(m, c.down)))
    BY <1>1, <1>4, <2>3, TickCrossed
  <2>5. t.tick = Onto(m, c.down) /\ t.liquidity = Active(Onto(m, c.down))
    BY <1>9, <1>10, <2>2, <2>3
  <2>6. Onto(m, c.down) \in Int
    BY <2>4, TicksAre DEF Placed
  <2>7. t.liquidity = ActiveIn(positions, Onto(m, c.down))
    BY <2>5, <2>6, GrossNow
  <2>8. t.left > 0
    BY <1>12, <2>1
  <2>9. Swaps(t)
    BY <1>1, <1>4, <1>10, <1>11, <1>12, <2>2, <2>4, <2>5, <2>7, <2>8, Zenon DEF Swaps
  <2> QED
    BY <2>2, <2>3, <2>4, <2>5, <2>7, <2>9
<1>15. r = PriceAt(m) => m # LastTick(c.down)
  BY <1>1, <1>4, TickCrossed
<1>16. Swapped(c, t, m, r)
  BY <1>2, <1>4, <1>8, <1>11, <1>12, <1>13, <1>14, <1>15, Zenon DEF Swapped
<1> QED
  BY <1>5, <1>16
-----------------------------------------------------------------------------
(* All that a turn of the quote does. *)

(* What is told in the end: the output of an input, the input of an        *)
(* output.                                                                 *)
Tally(s, step) ==
    IF s.specified >= 0 THEN s.calculated + step.out ELSE s.calculated + step.in + step.fee

(* Crossing and checking leave it alone.                                   *)
LEMMA CalculatedIs ==
    ASSUME NEW s, Shaped(s), NEW step, NEW next, Err \notin {step.price, step.in, step.out, step.fee}
    PROVE  Settled(s, next, step).calculated = Tally(s, step)
<1>1. PICK b : b = Booked(s, step)
  OBVIOUS
<1>2. Shaped(b) /\ b.calculated = Tally(s, step)
  <2>1. CASE s.specified >= 0
    BY <1>1, <2>1 DEF Booked, Shaped, Names, Tally
  <2>2. CASE ~(s.specified >= 0)
    BY <1>1, <2>2 DEF Booked, Shaped, Names, Tally
  <2> QED
    BY <2>1, <2>2
<1>3. PICK c : c = [b EXCEPT !.turns = @ + 1]
  OBVIOUS
<1>4. Shaped(c) /\ c.calculated = b.calculated
  BY <1>2, <1>3 DEF Shaped, Names
<1>5. PICK m : m = Moved(c, s.price, next)
  OBVIOUS
<1>6. Shaped(m) /\ m.calculated = c.calculated
  <2>1. CASE c.price = PriceAt(next)
    BY <1>4, <1>5, <2>1 DEF Moved, Shaped, Names
  <2>2. CASE c.price # PriceAt(next) /\ c.price # s.price
    BY <1>4, <1>5, <2>2 DEF Moved, Shaped, Names
  <2>3. CASE c.price # PriceAt(next) /\ c.price = s.price
    BY <1>4, <1>5, <2>3 DEF Moved, Shaped, Names
  <2> QED
    BY <2>1, <2>2, <2>3
<1>7. Settled(s, next, step) = Checked(m, step.price = PriceAt(next))
  BY <1>1, <1>3, <1>5, Zenon DEF Settled
<1>8. Checked(m, step.price = PriceAt(next)).calculated = m.calculated
  BY <1>6 DEF Checked, Shaped, Names
<1> QED
  BY <1>2, <1>4, <1>6, <1>7, <1>8

(* Every field after a turn, out of the step taken.                        *)
TurnTook(t, s, next, to, step) ==
    /\ next = NextTick(s.tick, s.down) /\ to = Target(next, s.down)
    /\ step = ComputeSwapStep(s.price, to, s.liquidity, s.left, s.fee)
    /\ Shaped(t) /\ t.price = step.price /\ t.turns = s.turns + 1
    /\ t.left = IF s.specified >= 0 THEN s.left - step.in - step.fee ELSE s.left + step.out
    /\ t.calculated = Tally(s, step)
    /\ t.contract = s.contract /\ t.fee = s.fee /\ t.down = s.down /\ t.specified = s.specified
    /\ t.tick = IF step.price = PriceAt(next) THEN Onto(next, s.down)
                ELSE IF step.price # s.price THEN GetTickAtSqrtRatio(step.price) ELSE s.tick
    /\ t.liquidity = IF step.price = PriceAt(next) THEN Crossed(s, next) ELSE s.liquidity
    /\ t.end = IF step.price = PriceAt(next) /\ t.liquidity = 0 THEN "dry"
               ELSE IF t.left = 0 THEN "filled"
               ELSE IF t.price = Limit(s.down) THEN "limit"
               ELSE "no"
    /\ StepSound(step, s.price, to, s.liquidity, s.left)
    /\ TurnedWell(s, t)

(* No step of a turn is an Err, so this is what it does.                   *)
LEMMA TurnIs ==
    ASSUME AtHead, NEW s, Going(s)
    PROVE  \E next \in Ticks, to \in Ratios : \E step : TurnTook(Turn(s), s, next, to, step)
<1>1. /\ Shaped(s) /\ s.down \in BOOLEAN /\ s.fee \in FeePips /\ s.price \in Ratios /\ s.tick \in Ticks
      /\ s.liquidity = ActiveIn(positions, s.tick) /\ s.left \in 1 - Word .. Word - 1 /\ s.left # 0
  BY DEF Going, Walks, Placed, Owed
<1>2. PICK next \in Ticks : next = NextTick(s.tick, s.down)
  <2>1. CASE s.down = TRUE
    BY <1>1, <2>1, NextDown
  <2>2. CASE s.down = FALSE
    BY <1>1, <2>2, NextUp
  <2> QED
    BY <1>1, <2>1, <2>2
<1>3. PICK to \in Ratios : to = Target(next, s.down)
  BY <1>1, TargetIs
<1>4. PICK step : step = ComputeSwapStep(s.price, to, s.liquidity, s.left, s.fee)
  OBVIOUS
<1>5. StepSound(step, s.price, to, s.liquidity, s.left)
  <2>1. s.liquidity \in 0..UMax
    BY <1>1, ActiveBounded DEF AtHead
  <2> QED
    BY <1>1, <1>4, <2>1, SwapStepSound
<1>6. Err \notin {step.price, step.in, step.out, step.fee}
  <2>1. step.price \in Nat /\ step.in \in Nat /\ step.out \in Nat /\ step.fee \in Nat
    BY <1>5, RatiosAre DEF StepSound, OnTheWay
  <2> QED
    BY <2>1 DEF Err
<1>7. PICK t : t = Turn(s)
  OBVIOUS
<1>8. t = Settled(s, next, step)
  BY <1>2, <1>3, <1>4, <1>7, Zenon DEF Turn, TurnTo
<1>9. TurnedWell(s, t)
  BY <1>1, <1>7, TurnDown, TurnUp
<1>10. t.calculated = Tally(s, step)
  BY <1>1, <1>6, <1>8, CalculatedIs
<1>11. /\ Shaped(t) /\ t.price = step.price /\ t.turns = s.turns + 1
       /\ t.left = IF s.specified >= 0 THEN s.left - step.in - step.fee ELSE s.left + step.out
       /\ t.contract = s.contract /\ t.fee = s.fee /\ t.down = s.down /\ t.specified = s.specified
       /\ t.tick = IF step.price = PriceAt(next) THEN Onto(next, s.down)
                   ELSE IF step.price # s.price THEN GetTickAtSqrtRatio(step.price) ELSE s.tick
       /\ t.liquidity = IF step.price = PriceAt(next) THEN Crossed(s, next) ELSE s.liquidity
       /\ t.end = IF t.liquidity \notin 0..UMax \/ t.tick = NoTick THEN "error"
                  ELSE IF step.price = PriceAt(next) /\ t.liquidity = 0 THEN "dry"
                  ELSE IF t.left = 0 THEN "filled"
                  ELSE IF t.price = Limit(s.down) THEN "limit"
                  ELSE "no"
  BY <1>1, <1>6, <1>8, SettledIs
<1>12. ~(t.liquidity \notin 0..UMax \/ t.tick = NoTick)
  <2>1. t.end # "error"
    BY <1>9 DEF TurnedWell, Ends
  <2> QED
    BY <1>11, <2>1
<1>13. TurnTook(t, s, next, to, step)
  BY <1>2, <1>3, <1>4, <1>5, <1>9, <1>10, <1>11, <1>12, Zenon DEF TurnTook
<1> QED
  BY <1>7, <1>13
-----------------------------------------------------------------------------
(* A turn by what is ahead of it. *)

(* The next initialized tick.                                              *)
Nearest(next, t, down) ==
    next \in Ticks /\ next \in Ahead(t, down) /\ next = NextTick(t, down) /\ Follow(next, t, down)

(* With one ahead NextTick finds it,                                       *)
LEMMA AheadSome ==
    ASSUME AtHead, NEW t \in Ticks, NEW down \in BOOLEAN, Ahead(t, down) # {}
    PROVE  Nearest(NextTick(t, down), t, down)
<1>1. /\ Ahead(t, TRUE) \subseteq Ticks /\ Ahead(t, FALSE) \subseteq Ticks
      /\ \A u \in Ticks : u \in Ahead(t, TRUE) => u <= t
      /\ \A u \in Ticks : u \in Ahead(t, FALSE) => u > t
  BY AheadIs
<1>2. CASE down
  <2>1. PICK A \in SUBSET Ticks : A = Ahead(t, TRUE) /\ A # {}
    BY <1>1, <1>2
  <2>2. Max(A) \in A /\ NextTick(t, TRUE) = Max(A)
    BY <2>1, MaxIs DEF NextTick
  <2> QED
    BY <1>1, <1>2, <2>1, <2>2 DEF Nearest, Follow
<1>3. CASE ~down
  <2>1. PICK A \in SUBSET Ticks : A = Ahead(t, FALSE) /\ A # {}
    BY <1>1, <1>3
  <2>2. Min(A) \in A /\ NextTick(t, FALSE) = Min(A)
    BY <2>1, MinIs DEF NextTick
  <2> QED
    BY <1>1, <1>3, <2>1, <2>2 DEF Nearest, Follow
<1> QED
  BY <1>2, <1>3

(* without one there is no liquidity either.                               *)
LEMMA AheadNone ==
    ASSUME AtHead, NEW t \in Ticks, NEW down \in BOOLEAN, Ahead(t, down) = {}
    PROVE  NextTick(t, down) = t /\ ActiveIn(positions, t) = 0
<1>1. positions \in [Ranges -> Nat]
  BY DEF AtHead, Allowed
<1>2. /\ \A u \in Ticks : u \in Ahead(t, TRUE) <=> GrossIn(positions, u) > 0 /\ u <= t
      /\ \A u \in Ticks : u \in Ahead(t, FALSE) <=> GrossIn(positions, u) > 0 /\ u > t
  BY AheadIs
<1>3. ASSUME NEW u \in Ticks, ~(GrossIn(positions, u) > 0) PROVE GrossIn(positions, u) = 0
  <2>1. GrossIn(positions, u) \in Nat
    BY <1>1, TermsNat
  <2> QED
    BY <1>3, <2>1
<1>4. (\A u \in Ticks : u <= t => GrossIn(positions, u) = 0) \/ (\A u \in Ticks : u > t => GrossIn(positions, u) = 0)
  <2>1. CASE down
    BY <1>2, <1>3, <2>1
  <2>2. CASE ~down
    BY <1>2, <1>3, <2>2
  <2> QED
    BY <2>1, <2>2
<1>5. ActiveIn(positions, t) = 0
  BY <1>1, <1>4, ActiveNone
<1> QED
  BY <1>5 DEF NextTick

(* Crossing the nearest tick is what crossing it is for the contract.      *)
LEMMA CrossedIs ==
    ASSUME AtHead, NEW s, s.down \in BOOLEAN, s.tick \in Ticks, s.liquidity = ActiveIn(positions, s.tick),
           NEW next, Nearest(next, s.tick, s.down)
    PROVE  Crossed(s, next) = ActiveIn(positions, Onto(next, s.down))
<1>1. s.tick \in Int /\ next \in Int /\ next = NextTick(s.tick, s.down) /\ Follow(next, s.tick, s.down)
  BY TicksAre DEF Nearest
<1>2. CASE s.down = TRUE
  BY <1>1, <1>2, NextDown DEF Onto
<1>3. CASE s.down = FALSE
  <2>1. next > s.tick
    BY <1>1, <1>3 DEF Follow
  <2>2. next # s.tick
    BY <1>1, <2>1
  <2>3. Crossed(s, next) = ActiveIn(positions, next)
    BY <1>1, <1>3, <2>2, NextUp
  <2> QED
    BY <1>3, <2>3 DEF Onto
<1> QED
  BY <1>2, <1>3

(* Over ranges without liquidity and without a tick to come, it ends.      *)
Stuck(t, s) ==
    /\ t.left = s.left /\ t.calculated = s.calculated /\ t.end \in {"dry", "limit"}
    /\ t.price <= s.price /\ (~s.down => t.tick = s.tick)

(* Nothing is charged or gained where nothing is ahead.                    *)
LEMMA TurnStuck ==
    ASSUME AtHead, NEW s, Going(s), s.calculated \in Nat, Ahead(s.tick, s.down) = {}
    PROVE  Stuck(Turn(s), s)
<1>1. /\ Shaped(s) /\ s.down \in BOOLEAN /\ s.fee \in FeePips /\ s.price \in Ratios /\ s.tick \in Ticks
      /\ s.tick < MaxTick /\ PriceAt(s.tick) <= s.price /\ s.price <= PriceAt(s.tick + 1)
      /\ s.liquidity = ActiveIn(positions, s.tick) /\ s.left \in 1 - Word .. Word - 1 /\ s.left # 0
      /\ s.specified \in Int /\ Owed(s.specified, s.left)
      /\ Limit(TRUE) <= s.price /\ s.price <= Limit(FALSE)
  BY DEF Going, Walks, Placed, Owed
<1>2. PICK t : t = Turn(s)
  OBVIOUS
<1>3. PICK next \in Ticks, to \in Ratios : \E step : TurnTook(t, s, next, to, step)
  BY <1>2, TurnIs
<1>4. PICK step : TurnTook(t, s, next, to, step)
  BY <1>3
<1>5. next = s.tick /\ s.liquidity = 0
  BY <1>1, <1>4, AheadNone DEF TurnTook
<1>6. /\ to = Target(next, s.down) /\ step = ComputeSwapStep(s.price, to, s.liquidity, s.left, s.fee)
      /\ t.price = step.price /\ t.calculated = Tally(s, step)
      /\ t.left = IF s.specified >= 0 THEN s.left - step.in - step.fee ELSE s.left + step.out
      /\ t.liquidity = IF step.price = PriceAt(next) THEN Crossed(s, next) ELSE s.liquidity
      /\ t.end = IF step.price = PriceAt(next) /\ t.liquidity = 0 THEN "dry"
                 ELSE IF t.left = 0 THEN "filled"
                 ELSE IF t.price = Limit(s.down) THEN "limit"
                 ELSE "no"
      /\ StepSound(step, s.price, to, s.liquidity, s.left)
  BY <1>4 DEF TurnTook
<1>7. step.price = to /\ step.in \in Nat /\ step.out \in Nat /\ step.fee \in Nat
  BY <1>5, <1>6 DEF StepSound
<1>8. to \in {PriceAt(next), Limit(s.down)} /\ Heads(s.price, to, TRUE)
  <2>1. PICK p \in Nat, x \in Nat, lo \in Nat, hi \in Nat, q \in Nat :
          p = s.price /\ x = PriceAt(next) /\ lo = Limit(TRUE) /\ hi = Limit(FALSE) /\ q = to
    <3>1. s.price \in Nat /\ to \in Nat
      BY <1>1, RatiosAre
    <3>2. Limit(TRUE) \in Nat /\ Limit(FALSE) \in Nat
      BY LimitsAre, RatiosAre
    <3>3. PriceAt(next) \in Nat
      BY PricesAre
    <3> QED
      BY <3>1, <3>2, <3>3
  <2>2. x <= p /\ lo <= p /\ p <= hi
    BY <1>1, <1>5, <2>1
  <2>3. CASE s.down
    <3>1. to \in {PriceAt(next), Limit(TRUE)}
      BY <1>6, <2>3, TargetIs
    <3> QED
      BY <2>1, <2>2, <2>3, <3>1 DEF Heads
  <2>4. CASE ~s.down
    <3>0. s.down = FALSE
      BY <1>1, <2>4
    <3>1. to <= PriceAt(next) /\ to \in {PriceAt(next), Limit(FALSE)}
      BY <1>6, <3>0, TargetIs
    <3>2. to <= p
      BY <2>1, <2>2, <3>1
    <3> QED
      BY <2>1, <3>0, <3>1, <3>2 DEF Heads
  <2> QED
    BY <2>3, <2>4
<1>9. step.in + step.fee = 0 /\ step.out = 0
  <2>0. s.liquidity \in 0..UMax
    BY <1>1, ActiveBounded DEF AtHead
  <2>1. Charge(s.liquidity, s.price, to, s.fee) = 0 /\ Gain(s.liquidity, s.price, to) = 0
    BY <1>1, <1>5, <1>8, <2>0, NoCharge
  <2>2. PICK w \in Nat : w = Word /\ s.left \in 1 - w .. w - 1
    BY <1>1, WordIs
  <2>3. CASE s.left > 0
    <3>1. s.left \in 1 .. Word - 1
      BY <2>2, <2>3
    <3>2. SpentOn(step, s.price, to, TRUE, s.liquidity, s.left, s.fee)
      BY <1>1, <1>6, <1>8, <2>0, <3>1, StepInExact
    <3>3. ~(~(Charge(s.liquidity, s.price, to, s.fee) <= s.left))
      BY <2>1, <2>2, <2>3
    <3>4. step.in + step.fee = Charge(s.liquidity, s.price, to, s.fee) /\ step.out = Gain(s.liquidity, s.price, to)
      BY <1>7, <3>2, <3>3 DEF SpentOn
    <3> QED
      BY <2>1, <3>4
  <2>4. CASE s.left < 0
    <3>1. s.left \in 1 - Word .. -1
      BY <2>2, <2>4
    <3>2. GotFor(step, s.price, to, TRUE, s.liquidity, -s.left, s.fee)
      BY <1>1, <1>6, <1>8, <2>0, <3>1, StepOutExact
    <3>3. step.in + step.fee = Charge(s.liquidity, s.price, to, s.fee)
          /\ \/ step.out = Gain(s.liquidity, s.price, to)
             \/ step.out = -s.left /\ -s.left <= Gain(s.liquidity, s.price, to)
      BY <1>7, <3>2 DEF GotFor
    <3> QED
      BY <2>1, <2>2, <2>4, <3>3
  <2> QED
    BY <1>1, <2>2, <2>3, <2>4
<1>10. t.left = s.left /\ t.calculated = s.calculated
  <2>1. PICK i \in Nat, o \in Nat, f \in Nat, l \in Int : i = step.in /\ o = step.out /\ f = step.fee /\ l = s.left
    BY <1>1, <1>7, WordIs
  <2>2. i = 0 /\ f = 0 /\ o = 0
    BY <1>9, <2>1
  <2> QED
    BY <1>6, <2>1, <2>2 DEF Tally
<1>11. t.end \in {"dry", "limit"}
  <2>1. CASE step.price = PriceAt(next)
    <3>1. t.liquidity = s.liquidity
      BY <1>6, <2>1 DEF Crossed
    <3> QED
      BY <1>5, <1>6, <2>1, <3>1
  <2>2. CASE step.price # PriceAt(next)
    BY <1>1, <1>6, <1>7, <1>8, <1>10, <2>2
  <2> QED
    BY <2>1, <2>2
<1>12. t.price <= s.price
  BY <1>6, <1>7, <1>8 DEF Heads
<1>13. ASSUME ~s.down PROVE t.tick = s.tick
  <2>0. s.down = FALSE
    BY <1>1, <1>13
  <2>1. to <= PriceAt(next) /\ to \in {PriceAt(next), Limit(FALSE)}
    BY <1>6, <2>0, TargetIs
  <2>2. PICK p \in Nat, x \in Nat, hi \in Nat : p = s.price /\ x = PriceAt(next) /\ hi = Limit(FALSE)
    BY <1>1, RatiosAre, PricesAre, LimitsAre
  <2>3. x <= p /\ p <= hi
    BY <1>1, <1>5, <2>2
  <2>4. to = PriceAt(next)
    <3>1. to <= x /\ (to = x \/ to = hi)
      BY <2>1, <2>2
    <3>2. p \in Nat /\ x \in Nat /\ hi \in Nat
      OBVIOUS
    <3>3. to = x
      BY <2>3, <3>1, <3>2
    <3> QED
      BY <2>2, <3>3, Zenon
  <2>5. step.price = PriceAt(next)
    BY <1>7, <2>4
  <2>6. t.tick = Onto(next, s.down)
    BY <1>4, <2>5 DEF TurnTook
  <2> QED
    BY <1>5, <2>0, <2>6 DEF Onto
<1> QED
  BY <1>2, <1>10, <1>11, <1>12, <1>13 DEF Stuck
-----------------------------------------------------------------------------
(* A turn towards an initialized tick. *)

(* It goes on only if it is at that tick, with something left.             *)
Arrives(t, s, next, to) ==
    /\ Nearest(next, s.tick, s.down) /\ to = Target(next, s.down) /\ Heads(s.price, to, s.down)
    /\ to \in {PriceAt(next), Limit(s.down)} /\ Heads(to, Limit(s.down), s.down)
    /\ OnTheWay(t.price, s.price, to, s.down) /\ Placed(t.price, t.tick, t.liquidity)
    /\ t.end \in {"dry", "filled", "limit", "no"}
    /\ t.end = "filled" => t.left = 0
    /\ t.end = "limit" => t.price = Limit(s.down)
    /\ t.price = PriceAt(next) => t.tick = Onto(next, s.down) /\ t.liquidity = ActiveIn(positions, t.tick)
    /\ t.end = "no" => /\ t.left # 0 /\ t.price = to /\ to = PriceAt(next) /\ to # Limit(s.down)
                       /\ t.liquidity # 0
    /\ t.end = "dry" => t.price = PriceAt(next) /\ t.liquidity = 0

(* For an input.                                                           *)
Sold(t, s, next, to) ==
    /\ Arrives(t, s, next, to)
    /\ t.calculated = s.calculated + Gain(s.liquidity, s.price, t.price)
    /\ Charge(s.liquidity, s.price, t.price, s.fee) <= s.left
    /\ \/ t.price = to /\ t.left = s.left - Charge(s.liquidity, s.price, to, s.fee)
       \/ /\ t.left = 0 /\ ~(Charge(s.liquidity, s.price, to, s.fee) <= s.left)
          /\ Exactly(s.liquidity, s.price, s.left, s.down) =>
               \A q \in Ratios :
                 Heads(s.price, q, s.down) /\ Charge(s.liquidity, s.price, q, s.fee) <= s.left
                   => Heads(q, t.price, s.down)

(* For an output.                                                          *)
Bought(t, s, next, to) ==
    /\ Arrives(t, s, next, to)
    /\ t.calculated = s.calculated + Charge(s.liquidity, s.price, t.price, s.fee)
    /\ \/ /\ t.price = to /\ t.left = s.left + Gain(s.liquidity, s.price, to)
          /\ Gain(s.liquidity, s.price, to) <= -s.left
       \/ t.left = 0 /\ -s.left <= Gain(s.liquidity, s.price, t.price)

(* Of the fields TurnTook gives.                                           *)
LEMMA TurnArrives ==
    ASSUME AtHead, NEW s, Going(s), Ahead(s.tick, s.down) # {},
           NEW t, NEW next \in Ticks, NEW to \in Ratios, NEW step, TurnTook(t, s, next, to, step),
           OnTheWay(step.price, s.price, to, s.down)
    PROVE  Arrives(t, s, next, to)
<1>1. /\ Shaped(s) /\ s.down \in BOOLEAN /\ s.price \in Ratios /\ s.tick \in Ticks
      /\ s.liquidity = ActiveIn(positions, s.tick) /\ Placed(s.price, s.tick, s.liquidity) /\ Inside(s.price)
      /\ s.left \in 1 - Word .. Word - 1 /\ s.left # 0 /\ s.specified \in Int /\ Owed(s.specified, s.left)
  BY DEF Going, Walks, Placed, Owed, Inside
<1>2. /\ next = NextTick(s.tick, s.down) /\ to = Target(next, s.down) /\ t.price = step.price
      /\ t.left = IF s.specified >= 0 THEN s.left - step.in - step.fee ELSE s.left + step.out
      /\ t.tick = IF step.price = PriceAt(next) THEN Onto(next, s.down)
                  ELSE IF step.price # s.price THEN GetTickAtSqrtRatio(step.price) ELSE s.tick
      /\ t.liquidity = IF step.price = PriceAt(next) THEN Crossed(s, next) ELSE s.liquidity
      /\ t.end = IF step.price = PriceAt(next) /\ t.liquidity = 0 THEN "dry"
                 ELSE IF t.left = 0 THEN "filled"
                 ELSE IF t.price = Limit(s.down) THEN "limit"
                 ELSE "no"
      /\ StepSound(step, s.price, to, s.liquidity, s.left)
      /\ TurnedWell(s, t)
  BY DEF TurnTook
<1>3. Nearest(next, s.tick, s.down)
  BY <1>1, <1>2, AheadSome
<1>4. /\ Heads(s.price, to, s.down) /\ to \in {PriceAt(next), Limit(s.down)}
      /\ Heads(to, Limit(s.down), s.down)
  BY <1>1, <1>2, <1>3, TargetAhead DEF Nearest
<1>5. Placed(t.price, t.tick, t.liquidity)
  BY <1>2 DEF TurnedWell, Walks
<1>6. t.left = 0 \/ step.price = to
  BY <1>1, <1>2, LeftIs
<1>7. t.end = "no" => /\ t.left # 0 /\ t.price = to /\ to = PriceAt(next) /\ to # Limit(s.down)
                      /\ t.liquidity # 0
  BY <1>2, <1>4, <1>6
<1>7a. t.price = PriceAt(next) => t.tick = Onto(next, s.down) /\ t.liquidity = ActiveIn(positions, t.tick)
  <2>1. Crossed(s, next) = ActiveIn(positions, Onto(next, s.down))
    BY <1>1, <1>3, CrossedIs
  <2> QED
    BY <1>2, <2>1
<1>8. /\ t.end \in {"dry", "filled", "limit", "no"} /\ (t.end = "filled" => t.left = 0)
      /\ (t.end = "limit" => t.price = Limit(s.down))
      /\ (t.end = "dry" => t.price = PriceAt(next) /\ t.liquidity = 0)
  BY <1>2
<1>9. OnTheWay(t.price, s.price, to, s.down)
  BY <1>2
<1> QED
  BY <1>2, <1>3, <1>4, <1>5, <1>7, <1>7a, <1>8, <1>9, Zenon DEF Arrives

(* The step of an input makes it so,                                       *)
LEMMA TurnSells ==
    ASSUME AtHead, NEW s, Going(s), s.specified >= 0, Ahead(s.tick, s.down) # {}
    PROVE  \E next \in Ticks, to \in Ratios : Sold(Turn(s), s, next, to)
<1>1. PICK t : t = Turn(s)
  OBVIOUS
<1>2. PICK next \in Ticks, to \in Ratios : \E step : TurnTook(t, s, next, to, step)
  BY <1>1, TurnIs
<1>3. PICK step : TurnTook(t, s, next, to, step)
  BY <1>2
<1>4. /\ Shaped(s) /\ s.down \in BOOLEAN /\ s.price \in Ratios /\ s.tick \in Ticks /\ s.fee \in FeePips
      /\ s.liquidity = ActiveIn(positions, s.tick) /\ Placed(s.price, s.tick, s.liquidity) /\ Inside(s.price)
      /\ s.left \in 1 - Word .. Word - 1 /\ s.left # 0 /\ s.specified \in Int /\ Owed(s.specified, s.left)
  BY DEF Going, Walks, Placed, Owed, Inside
<1>5. /\ next = NextTick(s.tick, s.down) /\ to = Target(next, s.down) /\ t.price = step.price
      /\ step = ComputeSwapStep(s.price, to, s.liquidity, s.left, s.fee)
      /\ t.left = s.left - step.in - step.fee /\ t.calculated = s.calculated + step.out
      /\ step.in \in Nat /\ step.fee \in Nat /\ step.out \in Nat
  BY <1>3 DEF TurnTook, Tally, StepSound
<1>6. Heads(s.price, to, s.down)
  <2>1. Nearest(next, s.tick, s.down)
    BY <1>4, <1>5, AheadSome
  <2> QED
    BY <1>4, <1>5, <2>1, TargetAhead DEF Nearest
<1>7. s.liquidity \in 0..UMax
  BY <1>4, ActiveBounded DEF AtHead
<1>8. s.left \in 1 .. Word - 1
  <2>1. PICK w \in Nat : w = Word
    BY WordIs
  <2>2. s.left \in 1 - w .. w - 1 /\ s.left >= 0 /\ s.left # 0
    BY <1>4, <2>1 DEF Owed
  <2> QED
    BY <2>1, <2>2
<1>9. SpentOn(step, s.price, to, s.down, s.liquidity, s.left, s.fee)
  BY <1>4, <1>5, <1>6, <1>7, <1>8, StepInExact
<1>10. Arrives(t, s, next, to)
  BY <1>3, <1>9, TurnArrives DEF SpentOn
<1>11. t.calculated = s.calculated + Gain(s.liquidity, s.price, t.price)
       /\ Charge(s.liquidity, s.price, t.price, s.fee) <= s.left
  BY <1>5, <1>9 DEF SpentOn
<1>12. \/ t.price = to /\ t.left = s.left - Charge(s.liquidity, s.price, to, s.fee)
       \/ /\ t.left = 0 /\ ~(Charge(s.liquidity, s.price, to, s.fee) <= s.left)
          /\ Exactly(s.liquidity, s.price, s.left, s.down) =>
               \A q \in Ratios :
                 Heads(s.price, q, s.down) /\ Charge(s.liquidity, s.price, q, s.fee) <= s.left
                   => Heads(q, t.price, s.down)
  <2>1. PICK i \in Nat, f \in Nat, l \in Int : i = step.in /\ f = step.fee /\ l = s.left /\ t.left = l - i - f
    BY <1>5, <1>8, WordIs
  <2>2. CASE step.price = to /\ step.in + step.fee = Charge(s.liquidity, s.price, to, s.fee)
    <3>1. PICK c : c = Charge(s.liquidity, s.price, to, s.fee)
      OBVIOUS
    <3>2. t.left = l - c
      BY <2>1, <2>2, <3>1
    <3> QED
      BY <1>5, <2>1, <2>2, <3>1, <3>2
  <2>3. CASE /\ step.in + step.fee = s.left /\ ~(Charge(s.liquidity, s.price, to, s.fee) <= s.left)
             /\ Exactly(s.liquidity, s.price, s.left, s.down) =>
                  \A q \in Ratios :
                    Heads(s.price, q, s.down) /\ Charge(s.liquidity, s.price, q, s.fee) <= s.left
                      => Heads(q, step.price, s.down)
    <3>1. t.left = 0
      BY <2>1, <2>3
    <3> QED
      BY <1>5, <2>3, <3>1, Zenon
  <2> QED
    BY <1>9, <2>2, <2>3, Zenon DEF SpentOn
<1>13. Sold(t, s, next, to)
  BY <1>10, <1>11, <1>12, Zenon DEF Sold
<1> QED
  BY <1>1, <1>13

(* and that of an output.                                                  *)
LEMMA TurnBuys ==
    ASSUME AtHead, NEW s, Going(s), s.calculated \in Nat, ~(s.specified >= 0), Ahead(s.tick, s.down) # {}
    PROVE  \E next \in Ticks, to \in Ratios : Bought(Turn(s), s, next, to)
<1>1. PICK t : t = Turn(s)
  OBVIOUS
<1>2. PICK next \in Ticks, to \in Ratios : \E step : TurnTook(t, s, next, to, step)
  BY <1>1, TurnIs
<1>3. PICK step : TurnTook(t, s, next, to, step)
  BY <1>2
<1>4. /\ Shaped(s) /\ s.down \in BOOLEAN /\ s.price \in Ratios /\ s.tick \in Ticks /\ s.fee \in FeePips
      /\ s.liquidity = ActiveIn(positions, s.tick) /\ Placed(s.price, s.tick, s.liquidity) /\ Inside(s.price)
      /\ s.left \in 1 - Word .. Word - 1 /\ s.left # 0 /\ s.specified \in Int /\ Owed(s.specified, s.left)
  BY DEF Going, Walks, Placed, Owed, Inside
<1>5. /\ next = NextTick(s.tick, s.down) /\ to = Target(next, s.down) /\ t.price = step.price
      /\ step = ComputeSwapStep(s.price, to, s.liquidity, s.left, s.fee)
      /\ t.left = s.left + step.out /\ t.calculated = s.calculated + step.in + step.fee
      /\ step.in \in Nat /\ step.fee \in Nat /\ step.out \in Nat
  BY <1>3 DEF TurnTook, Tally, StepSound
<1>6. Heads(s.price, to, s.down)
  <2>1. Nearest(next, s.tick, s.down)
    BY <1>4, <1>5, AheadSome
  <2> QED
    BY <1>4, <1>5, <2>1, TargetAhead DEF Nearest
<1>7. s.liquidity \in 0..UMax
  BY <1>4, ActiveBounded DEF AtHead
<1>8. s.left \in 1 - Word .. -1
  <2>1. PICK w \in Nat : w = Word
    BY WordIs
  <2>2. s.left \in 1 - w .. w - 1 /\ s.left <= 0 /\ s.left # 0
    BY <1>4, <2>1 DEF Owed
  <2> QED
    BY <2>1, <2>2
<1>9. GotFor(step, s.price, to, s.down, s.liquidity, -s.left, s.fee)
  BY <1>4, <1>5, <1>6, <1>7, <1>8, StepOutExact
<1>10. Arrives(t, s, next, to)
  BY <1>3, <1>9, TurnArrives DEF GotFor
<1>10a. s.left \in Int
  BY <1>8, WordIs
<1>11. t.calculated = s.calculated + Charge(s.liquidity, s.price, t.price, s.fee)
  <2>1. PICK i \in Nat, f \in Nat, x \in Nat :
          i = step.in /\ f = step.fee /\ x = s.calculated /\ t.calculated = x + i + f
    BY <1>5
  <2>2. i + f = Charge(s.liquidity, s.price, step.price, s.fee)
    BY <1>9, <2>1 DEF GotFor
  <2>3. PICK c : c = Charge(s.liquidity, s.price, step.price, s.fee)
    OBVIOUS
  <2>4. t.calculated = x + c
    BY <2>1, <2>2, <2>3
  <2> QED
    BY <1>5, <2>1, <2>3, <2>4
<1>12. \/ /\ t.price = to /\ t.left = s.left + Gain(s.liquidity, s.price, to)
          /\ Gain(s.liquidity, s.price, to) <= -s.left
       \/ t.left = 0 /\ -s.left <= Gain(s.liquidity, s.price, t.price)
  <2>1. CASE step.price = to /\ step.out = Gain(s.liquidity, s.price, to) /\ step.out <= -s.left
    BY <1>5, <2>1
  <2>2. CASE step.out = -s.left /\ -s.left <= Gain(s.liquidity, s.price, step.price)
    <3>1. t.left = 0
      BY <1>5, <1>10a, <2>2
    <3> QED
      BY <1>5, <2>2, <3>1
  <2> QED
    BY <1>9, <2>1, <2>2, Zenon DEF GotFor
<1>13. Bought(t, s, next, to)
  BY <1>10, <1>11, <1>12, Zenon DEF Bought
<1> QED
  BY <1>1, <1>13
-----------------------------------------------------------------------------
(* What turns leave behind. *)

(* Not behind, in a direction.                                             *)
Onward(u, t, down) == IF down THEN u <= t ELSE t <= u

(* The borders between two ticks.                                          *)
Passed(t, from, down) == Abs(WordOf(t, down) - WordOf(from, down))

(* An order.                                                               *)
LEMMA OnwardIs ==
    ASSUME NEW t \in Ticks, NEW u \in Ticks, NEW v \in Ticks, NEW down \in BOOLEAN
    PROVE  /\ Onward(t, t, down)
           /\ Onward(v, u, down) /\ Onward(u, t, down) => Onward(v, t, down)
<1>1. t \in Int /\ u \in Int /\ v \in Int
  BY TicksAre
<1> QED
  BY <1>1 DEF Onward

(* The words of ticks are in the order of the ticks.                       *)
LEMMA FloorsOfInts ==
    ASSUME NEW x \in Int, NEW y \in Int, x <= y, NEW d \in Nat, d > 0
    PROVE  x \div d \in Int /\ y \div d \in Int /\ x \div d <= y \div d
<1>1. PICK p \in Int, r \in 0 .. d - 1 : p = x \div d /\ x = p * d + r
  BY Quotients
<1>2. PICK q \in Int, s \in 0 .. d - 1 : q = y \div d /\ y = q * d + s
  BY Quotients
<1>3. SUFFICES ASSUME q < p PROVE FALSE
  BY <1>1, <1>2
<1>4. PICK k \in Nat : p = q + 1 + k
  <2>1. p - q - 1 \in Nat /\ p = q + 1 + (p - q - 1)
    BY <1>3
  <2> QED
    BY <2>1
<1>5. p * d = q * d + d + k * d /\ k * d \in Nat /\ q * d \in Int
  <2>1. (q + 1 + k) * d = q * d + d + k * d
    OBVIOUS
  <2>2. k * d \in Nat
    BY TimesNat
  <2> QED
    BY <1>4, <2>1, <2>2
<1> QED
  BY <1>1, <1>2, <1>5

(* The farther, the more words.                                            *)
LEMMA PassedOn ==
    ASSUME NEW from \in Ticks, NEW t \in Ticks, NEW u \in Ticks, NEW down \in BOOLEAN,
           Onward(t, from, down), Onward(u, t, down)
    PROVE  /\ Passed(t, from, down) \in Nat /\ Passed(u, from, down) \in Nat
           /\ Passed(t, from, down) <= Passed(u, from, down)
           /\ WordOf(u, down) = WordOf(t, down) + (IF down THEN -1 ELSE 1) =>
                Passed(u, from, down) = Passed(t, from, down) + 1
<1>1. t \in Int /\ u \in Int /\ from \in Int /\ WordTicks \in Nat /\ WordTicks > 0
  BY TicksAre, WordTicksAre
<1>2. ASSUME NEW x \in Int, NEW y \in Int, x <= y
      PROVE  x \div WordTicks \in Int /\ y \div WordTicks \in Int /\ x \div WordTicks <= y \div WordTicks
  BY <1>1, <1>2, FloorsOfInts
<1>3. CASE down
  <2>1. u <= t /\ t <= from
    BY <1>3 DEF Onward
  <2>2. PICK a \in Int, b \in Int, c \in Int :
          a = u \div WordTicks /\ b = t \div WordTicks /\ c = from \div WordTicks /\ a <= b /\ b <= c
    BY <1>1, <1>2, <2>1
  <2>3. WordOf(u, down) = a /\ WordOf(t, down) = b /\ WordOf(from, down) = c
    BY <1>3, <2>2 DEF WordOf
  <2>4. Passed(t, from, down) = c - b /\ Passed(u, from, down) = c - a
    BY <2>2, <2>3 DEF Passed, Abs
  <2>5. WordOf(u, down) = WordOf(t, down) + (IF down THEN -1 ELSE 1) => a = b - 1
    BY <1>3, <2>2, <2>3
  <2> QED
    BY <2>2, <2>4, <2>5
<1>4. CASE ~down
  <2>1. from + 1 <= t + 1 /\ t + 1 <= u + 1 /\ from + 1 \in Int /\ t + 1 \in Int /\ u + 1 \in Int
    BY <1>1, <1>4 DEF Onward
  <2>2. PICK a \in Int, b \in Int, c \in Int :
          a = (u + 1) \div WordTicks /\ b = (t + 1) \div WordTicks /\ c = (from + 1) \div WordTicks
          /\ c <= b /\ b <= a
    BY <1>2, <2>1
  <2>3. WordOf(u, down) = a /\ WordOf(t, down) = b /\ WordOf(from, down) = c
    BY <1>4, <2>2 DEF WordOf
  <2> QED
    BY <1>4, <2>2, <2>3 DEF Passed, Abs
<1> QED
  BY <1>3, <1>4

(* A price strictly beyond that of a tick lies with a tick beyond it.      *)
LEMMA BeyondTick ==
    ASSUME NEW m \in Ticks, NEW down \in BOOLEAN, m # LastTick(down), NEW p, NEW t, NEW l, Placed(p, t, l),
           Heads(PriceAt(m), p, down), p # PriceAt(m)
    PROVE  Onward(t, Onto(m, down), down) /\ Onto(m, down) \in Ticks
<1>1. t \in Ticks /\ t < MaxTick /\ PriceAt(t) <= p /\ p <= PriceAt(t + 1) /\ p \in Nat
  BY RatiosAre DEF Placed
<1>2. t \in Int /\ t + 1 \in Ticks /\ PriceAt(t) \in Nat /\ PriceAt(t + 1) \in Nat
  BY <1>1, TickAfter
<1>3. m \in Int /\ PriceAt(m) \in Nat
  BY TicksAre, PricesAre
<1>4. CASE down
  <2>1. PriceAt(t) < PriceAt(m)
    BY <1>1, <1>2, <1>3, <1>4 DEF Heads
  <2>2. t < m
    BY <1>1, <2>1, PricesOrder
  <2> QED
    BY <1>2, <1>3, <1>4, <2>2, TicksAre DEF Onward, Onto, LastTick
<1>5. CASE ~down
  <2>1. PriceAt(m) < PriceAt(t + 1)
    BY <1>1, <1>2, <1>3, <1>5 DEF Heads
  <2>2. m < t + 1
    BY <1>2, <2>1, PricesOrder
  <2> QED
    BY <1>2, <1>3, <1>5, <2>2, TicksAre DEF Onward, Onto, LastTick
<1> QED
  BY <1>4, <1>5
-----------------------------------------------------------------------------
(* A turn never goes back on what was done before it. *)

(* A price that goes on takes its tick with it.                            *)
LEMMA TickMoves ==
    ASSUME NEW down \in BOOLEAN, NEW p, NEW t, NEW l, Placed(p, t, l), NEW q, NEW u, NEW k, Placed(q, u, k),
           Heads(p, q, down), NEW next \in Ticks, next = t \/ Follow(next, t, down),
           u = IF q = PriceAt(next) THEN Onto(next, down) ELSE IF q # p THEN GetTickAtSqrtRatio(q) ELSE t
    PROVE  Onward(u, t, down)
<1>1. /\ t \in Ticks /\ t < MaxTick /\ PriceAt(t) <= p /\ p <= PriceAt(t + 1) /\ p \in Nat
      /\ u \in Ticks /\ u < MaxTick /\ PriceAt(u) <= q /\ q <= PriceAt(u + 1) /\ q \in Nat
  BY RatiosAre DEF Placed
<1>2. /\ t \in Int /\ t + 1 \in Ticks /\ PriceAt(t) \in Nat /\ PriceAt(t + 1) \in Nat
      /\ u \in Int /\ u + 1 \in Ticks /\ PriceAt(u) \in Nat /\ PriceAt(u + 1) \in Nat /\ next \in Int
  <2>1. t \in Int /\ t + 1 \in Ticks /\ PriceAt(t) \in Nat /\ PriceAt(t + 1) \in Nat
    BY <1>1, TickAfter
  <2>2. u \in Int /\ u + 1 \in Ticks /\ PriceAt(u) \in Nat /\ PriceAt(u + 1) \in Nat
    BY <1>1, TickAfter
  <2>3. next \in Int
    BY TicksAre
  <2> QED
    BY <2>1, <2>2, <2>3
<1>3. CASE q = PriceAt(next)
  <2>1. u = Onto(next, down)
    BY <1>3
  <2>2. CASE down
    BY <1>2, <2>1, <2>2 DEF Onward, Onto, Follow
  <2>3. CASE ~down
    BY <1>2, <2>1, <2>3 DEF Onward, Onto, Follow
  <2> QED
    BY <2>2, <2>3
<1>4. CASE q # PriceAt(next) /\ q = p
  BY <1>1, <1>2, <1>4 DEF Onward
<1>5. CASE q # p
  <2>1. CASE down
    <3>0. q <= p
      BY <2>1 DEF Heads
    <3>1. PriceAt(u) < PriceAt(t + 1)
      BY <1>1, <1>2, <1>5, <3>0
    <3>2. u < t + 1
      BY <1>1, <1>2, <3>1, PricesOrder
    <3>3. u <= t
      BY <1>2, <3>2
    <3> QED
      BY <2>1, <3>3 DEF Onward
  <2>2. CASE ~down
    <3>1. PriceAt(t) < PriceAt(u + 1)
      BY <1>1, <1>2, <1>5, <2>2 DEF Heads
    <3>2. t < u + 1
      BY <1>1, <1>2, <3>1, PricesOrder
    <3> QED
      BY <1>2, <2>2, <3>2 DEF Onward
  <2> QED
    BY <2>1, <2>2
<1> QED
  BY <1>3, <1>4, <1>5

(* No turn takes back tick, price or amounts.                              *)
TurnedOn(t, s) ==
    /\ t.contract = s.contract /\ t.fee = s.fee /\ t.down = s.down /\ t.specified = s.specified
    /\ t.turns = s.turns + 1 /\ TurnedWell(s, t)
    /\ t.calculated \in Nat /\ s.calculated <= t.calculated
    /\ Onward(t.tick, s.tick, s.down)
    /\ s.down => t.price <= s.price
    /\ s.specified >= 0 => t.left <= s.left
    /\ ~(s.specified >= 0) /\ t.calculated = s.calculated => t.left = s.left

(* Whether there is a tick ahead or not.                                   *)
LEMMA TurnGoesOn ==
    ASSUME AtHead, NEW s, Going(s), s.calculated \in Nat PROVE TurnedOn(Turn(s), s)
<1>1. /\ Shaped(s) /\ s.down \in BOOLEAN /\ s.price \in Ratios /\ s.tick \in Ticks /\ s.fee \in FeePips
      /\ s.liquidity = ActiveIn(positions, s.tick) /\ Placed(s.price, s.tick, s.liquidity)
      /\ s.left \in 1 - Word .. Word - 1 /\ s.left # 0 /\ s.specified \in Int /\ Owed(s.specified, s.left)
      /\ s.left \in Int
  BY WordIs DEF Going, Walks, Placed, Owed
<1>2. PICK t : t = Turn(s)
  OBVIOUS
<1>3. PICK next \in Ticks, to \in Ratios : \E step : TurnTook(t, s, next, to, step)
  BY <1>2, TurnIs
<1>4. PICK step : TurnTook(t, s, next, to, step)
  BY <1>3
<1>5. /\ next = NextTick(s.tick, s.down) /\ t.price = step.price
      /\ t.contract = s.contract /\ t.fee = s.fee /\ t.down = s.down /\ t.specified = s.specified
      /\ t.turns = s.turns + 1 /\ TurnedWell(s, t)
      /\ t.tick = IF step.price = PriceAt(next) THEN Onto(next, s.down)
                  ELSE IF step.price # s.price THEN GetTickAtSqrtRatio(step.price) ELSE s.tick
  BY <1>4 DEF TurnTook
<1>6. Placed(t.price, t.tick, t.liquidity)
  BY <1>5 DEF TurnedWell, Walks
<1>7. s.liquidity \in 0..UMax
  BY <1>1, ActiveBounded DEF AtHead
<1>8. t.price \in Ratios
  BY <1>6 DEF Placed
<1>9. CASE Ahead(s.tick, s.down) = {}
  <2>1. /\ t.left = s.left /\ t.calculated = s.calculated /\ t.price <= s.price
        /\ (~s.down => t.tick = s.tick)
    BY <1>2, <1>9, TurnStuck DEF Stuck
  <2>2. Onward(t.tick, s.tick, s.down)
    <3>1. CASE s.down
      <4>1. next = s.tick
        BY <1>1, <1>5, <1>9, AheadNone
      <4>2. Heads(s.price, t.price, s.down)
        BY <2>1, <3>1 DEF Heads
      <4> QED
        BY <1>1, <1>5, <1>6, <4>1, <4>2, TickMoves
    <3>2. CASE ~s.down
      <4>1. t.tick = s.tick
        BY <2>1, <3>2
      <4> QED
        BY <1>1, <4>1, OnwardIs
    <3> QED
      BY <3>1, <3>2
  <2>3. t.calculated \in Nat /\ s.calculated <= t.calculated /\ t.left <= s.left
    BY <1>1, <2>1
  <2> QED
    BY <1>2, <1>5, <2>1, <2>2, <2>3, Zenon DEF TurnedOn
<1>10. CASE Ahead(s.tick, s.down) # {}
  <2>1. Nearest(next, s.tick, s.down)
    BY <1>1, <1>5, <1>10, AheadSome
  <2>2. Follow(next, s.tick, s.down)
    BY <2>1 DEF Nearest
  <2>3. ASSUME Heads(s.price, t.price, s.down)
        PROVE  Onward(t.tick, s.tick, s.down) /\ (s.down => t.price <= s.price)
    <3>1. Onward(t.tick, s.tick, s.down)
      BY <1>1, <1>5, <1>6, <2>2, <2>3, TickMoves
    <3> QED
      BY <2>3, <3>1 DEF Heads
  <2>4. CASE s.specified >= 0
    <3>1. PICK m \in Ticks, r \in Ratios : Sold(t, s, m, r)
      BY <1>2, <1>10, <2>4, TurnSells
    <3>2. Heads(s.price, t.price, s.down) /\ Heads(s.price, r, s.down)
      BY <3>1 DEF Sold, Arrives, OnTheWay
    <3>3. PICK g \in Nat, c \in Nat :
            g = Gain(s.liquidity, s.price, t.price) /\ c = Charge(s.liquidity, s.price, r, s.fee)
      BY <1>1, <1>7, <1>8, <3>2, SomeCharge
    <3>4. t.calculated = s.calculated + g /\ (t.left = s.left - c \/ t.left = 0) /\ s.left >= 0
      BY <1>1, <2>4, <3>1, <3>3 DEF Sold, Owed
    <3>5. t.calculated \in Nat /\ s.calculated <= t.calculated /\ t.left <= s.left
      BY <1>1, <3>3, <3>4
    <3> QED
      BY <1>2, <1>5, <2>3, <2>4, <3>2, <3>5, Zenon DEF TurnedOn
  <2>5. CASE ~(s.specified >= 0)
    <3>1. PICK m \in Ticks, r \in Ratios : Bought(t, s, m, r)
      BY <1>2, <1>10, <2>5, TurnBuys
    <3>2. Heads(s.price, t.price, s.down)
      BY <3>1 DEF Bought, Arrives, OnTheWay
    <3>3. PICK g \in Nat, c \in Nat :
            /\ g = Gain(s.liquidity, s.price, t.price) /\ c = Charge(s.liquidity, s.price, t.price, s.fee)
            /\ (g > 0 => c > 0)
      BY <1>1, <1>7, <1>8, <3>2, SomeCharge
    <3>4. t.calculated = s.calculated + c
      BY <3>1, <3>3 DEF Bought
    <3>5. t.calculated \in Nat /\ s.calculated <= t.calculated
      BY <3>3, <3>4
    <3>6. ASSUME t.calculated = s.calculated PROVE t.left = s.left
      <4>1. g = 0
        BY <3>3, <3>4, <3>6
      <4>2. s.left < 0
        BY <1>1, <2>5 DEF Owed
      <4>3. ~(-s.left <= g)
        BY <1>1, <4>1, <4>2
      <4>4. t.price = r /\ t.left = s.left + Gain(s.liquidity, s.price, r)
        BY <3>1, <3>3, <4>3 DEF Bought
      <4>5. t.left = s.left + 0
        BY <3>3, <4>1, <4>4
      <4> QED
        BY <1>1, <4>5
    <3> QED
      BY <1>2, <1>5, <2>3, <2>5, <3>2, <3>5, <3>6, Zenon DEF TurnedOn
  <2> QED
    BY <2>4, <2>5
<1> QED
  BY <1>9, <1>10
-----------------------------------------------------------------------------
(* The two loops from their start to the last turn. *)

QuoteOn(s) == IF s.end = "no" THEN Turn(s) ELSE s
QuoteWalk(w, N, contract, down, specified) ==
    w = [n \in 0..N |-> IF n = 0 THEN Start(contract, down, specified) ELSE QuoteOn(w[n - 1])]

PaidOn(s) == IF s.end = "no" THEN ContractTurn(s) ELSE s
PaidStart(contract, down, specified) ==
    [Start(contract, down, specified) EXCEPT
        !.fee = contract.charged[down], !.price = price, !.tick = tick, !.liquidity = Active(tick)]
PaidWalk(w, N, contract, down, specified) ==
    w = [n \in 0..N |-> IF n = 0 THEN PaidStart(contract, down, specified) ELSE PaidOn(w[n - 1])]

(* The recursive functions exist: of the lengths without one there would   *)
(* be a least.                                                             *)
LEMMA QuoteWalkExists ==
    ASSUME NEW N \in Nat, NEW contract, NEW down, NEW specified
    PROVE  \E w : QuoteWalk(w, N, contract, down, specified)
<1> DEFINE Missing == {n \in Nat : ~\E w : QuoteWalk(w, n, contract, down, specified)}
<1>1. SUFFICES ASSUME Missing # {} PROVE FALSE
  OBVIOUS
<1>2. PICK m \in Missing : \A n \in Missing : ~(n < m)
  BY <1>1, SmallestNumber
<1>3. CASE m = 0
  <2>1. PICK w : w = [n \in 0..0 |-> Start(contract, down, specified)]
    OBVIOUS
  <2>2. QuoteWalk(w, 0, contract, down, specified)
    BY <2>1 DEF QuoteWalk
  <2> QED
    BY <1>3, <2>2
<1>4. CASE m # 0
  <2>1. m - 1 \in Nat /\ m - 1 < m
    BY <1>4
  <2>2. PICK w : QuoteWalk(w, m - 1, contract, down, specified)
    BY <1>2, <2>1
  <2>3. PICK v : v = [n \in 0..m |-> IF n = m THEN QuoteOn(w[m - 1]) ELSE w[n]]
    OBVIOUS
  <2>4. ASSUME NEW n \in 0..m
        PROVE  v[n] = IF n = 0 THEN Start(contract, down, specified) ELSE QuoteOn(v[n - 1])
    <3>1. CASE n = m
      <4>1. v[n] = QuoteOn(w[m - 1]) /\ v[n - 1] = w[m - 1]
        BY <1>4, <2>1, <2>3, <3>1
      <4> QED
        BY <1>4, <3>1, <4>1
    <3>2. CASE n # m
      <4>1. n \in 0 .. m - 1 /\ v[n] = w[n] /\ (n # 0 => n - 1 \in 0 .. m - 1 /\ v[n - 1] = w[n - 1])
        BY <2>1, <2>3, <3>2
      <4> QED
        BY <2>2, <4>1 DEF QuoteWalk
    <3> QED
      BY <3>1, <3>2
  <2>5. QuoteWalk(v, m, contract, down, specified)
    BY <2>3, <2>4 DEF QuoteWalk
  <2> QED
    BY <2>5
<1> QED
  BY <1>3, <1>4

(* That of the contract too.                                               *)
LEMMA PaidWalkExists ==
    ASSUME NEW N \in Nat, NEW contract, NEW down, NEW specified
    PROVE  \E w : PaidWalk(w, N, contract, down, specified)
<1> DEFINE Missing == {n \in Nat : ~\E w : PaidWalk(w, n, contract, down, specified)}
<1>1. SUFFICES ASSUME Missing # {} PROVE FALSE
  OBVIOUS
<1>2. PICK m \in Missing : \A n \in Missing : ~(n < m)
  BY <1>1, SmallestNumber
<1>3. CASE m = 0
  <2>1. PICK w : w = [n \in 0..0 |-> PaidStart(contract, down, specified)]
    OBVIOUS
  <2>2. PaidWalk(w, 0, contract, down, specified)
    BY <2>1 DEF PaidWalk
  <2> QED
    BY <1>3, <2>2
<1>4. CASE m # 0
  <2>1. m - 1 \in Nat /\ m - 1 < m
    BY <1>4
  <2>2. PICK w : PaidWalk(w, m - 1, contract, down, specified)
    BY <1>2, <2>1
  <2>3. PICK v : v = [n \in 0..m |-> IF n = m THEN PaidOn(w[m - 1]) ELSE w[n]]
    OBVIOUS
  <2>4. ASSUME NEW n \in 0..m
        PROVE  v[n] = IF n = 0 THEN PaidStart(contract, down, specified) ELSE PaidOn(v[n - 1])
    <3>1. CASE n = m
      <4>1. v[n] = PaidOn(w[m - 1]) /\ v[n - 1] = w[m - 1]
        BY <1>4, <2>1, <2>3, <3>1
      <4> QED
        BY <1>4, <3>1, <4>1
    <3>2. CASE n # m
      <4>1. n \in 0 .. m - 1 /\ v[n] = w[n] /\ (n # 0 => n - 1 \in 0 .. m - 1 /\ v[n - 1] = w[n - 1])
        BY <2>1, <2>3, <3>2
      <4> QED
        BY <2>2, <4>1 DEF PaidWalk
    <3> QED
      BY <3>1, <3>2
  <2>5. PaidWalk(v, m, contract, down, specified)
    BY <2>3, <2>4 DEF PaidWalk
  <2> QED
    BY <2>5
<1> QED
  BY <1>3, <1>4

(* A loop that ran, after each of its turns.                               *)
QuoteRun(w, contract, down, specified) ==
    w[0] = Start(contract, down, specified) /\ \A n \in 0 .. Turns - 1 : w[n + 1] = QuoteOn(w[n])
PaidRun(w, contract, down, specified) ==
    w[0] = PaidStart(contract, down, specified) /\ \A n \in 0 .. 2 * Turns - 1 : w[n + 1] = PaidOn(w[n])

(* Result is where such a loop is after its last turn,                     *)
LEMMA ResultIs ==
    ASSUME NEW contract, NEW down, NEW specified
    PROVE  \E w : QuoteRun(w, contract, down, specified) /\ Result(contract, down, specified) = w[Turns]
<1>1. Result(contract, down, specified) = (CHOOSE w : QuoteWalk(w, Turns, contract, down, specified))[Turns]
  BY Zenon DEF Result, QuoteWalk, QuoteOn
<1>2. Turns \in Nat
  BY TurnsAre
<1>3. PICK w : w = (CHOOSE v : QuoteWalk(v, Turns, contract, down, specified))
               /\ QuoteWalk(w, Turns, contract, down, specified)
  BY <1>2, QuoteWalkExists, Zenon
<1>4. w = [n \in 0..Turns |-> IF n = 0 THEN Start(contract, down, specified) ELSE QuoteOn(w[n - 1])]
  BY <1>3 DEF QuoteWalk
<1>5. w[0] = Start(contract, down, specified)
  BY <1>2, <1>4
<1>6. ASSUME NEW n \in 0 .. Turns - 1 PROVE w[n + 1] = QuoteOn(w[n])
  <2>1. n + 1 \in 0..Turns /\ n + 1 # 0 /\ (n + 1) - 1 = n
    BY <1>2
  <2> QED
    BY <1>4, <2>1
<1>7. QuoteRun(w, contract, down, specified)
  BY <1>5, <1>6 DEF QuoteRun
<1> QED
  BY <1>1, <1>3, <1>7

(* and Paid where the contract's is.                                       *)
LEMMA PaidIs ==
    ASSUME NEW contract, NEW down, NEW specified
    PROVE  \E w : PaidRun(w, contract, down, specified) /\ Paid(contract, down, specified) = w[2 * Turns]
<1>1. Paid(contract, down, specified) = (CHOOSE w : PaidWalk(w, 2 * Turns, contract, down, specified))[2 * Turns]
  BY Zenon DEF Paid, PaidWalk, PaidOn, PaidStart
<1>2. 2 * Turns \in Nat
  BY TurnsAre
<1>3. PICK w : w = (CHOOSE v : PaidWalk(v, 2 * Turns, contract, down, specified))
               /\ PaidWalk(w, 2 * Turns, contract, down, specified)
  BY <1>2, PaidWalkExists, Zenon
<1>4. w = [n \in 0 .. 2 * Turns |-> IF n = 0 THEN PaidStart(contract, down, specified) ELSE PaidOn(w[n - 1])]
  BY <1>3 DEF PaidWalk
<1>5. w[0] = PaidStart(contract, down, specified)
  BY <1>2, <1>4
<1>6. ASSUME NEW n \in 0 .. 2 * Turns - 1 PROVE w[n + 1] = PaidOn(w[n])
  <2>1. n + 1 \in 0 .. 2 * Turns /\ n + 1 # 0 /\ (n + 1) - 1 = n
    BY <1>2
  <2> QED
    BY <1>4, <2>1
<1>7. PaidRun(w, contract, down, specified)
  BY <1>5, <1>6 DEF PaidRun
<1> QED
  BY <1>1, <1>3, <1>7
-----------------------------------------------------------------------------
(* What holds after each turn of either loop. *)

(* A pool in step, with the price and the tick of the chain.               *)
Here == AtHead /\ <<price, tick>> \in Slots

(* Both loops begin at the same place.                                     *)
StartedWith(s, fee, down, left) ==
    /\ Shaped(s) /\ s.fee = fee /\ s.down = down
    /\ s.price = price /\ s.tick = tick /\ s.liquidity = ActiveIn(positions, tick)
    /\ s.left = left /\ s.calculated = 0
    /\ s.end = IF price = Limit(down) THEN "error" ELSE IF left = 0 THEN "filled" ELSE "no"

(* What a pool in step has to begin with.                                  *)
LEMMA HereIs ==
    ASSUME Here
    PROVE  /\ AtHead /\ pool.price = price /\ pool.tick = tick /\ pool.liquidity = ActiveIn(positions, tick)
           /\ Active(tick) = ActiveIn(positions, tick) /\ tick \in Ticks /\ price \in Ratios
           /\ Placed(price, tick, ActiveIn(positions, tick)) /\ Inside(price)
           /\ \A down \in BOOLEAN : InTime(0, down, tick)
<1>1. AtHead /\ <<price, tick>> \in Slots
  BY DEF Here
<1>2. pool.price = price /\ pool.tick = tick /\ pool.liquidity = ActiveIn(positions, tick)
  BY <1>1 DEF AtHead, FetchedIn, Now
<1>3. Placed(price, tick, ActiveIn(positions, tick)) /\ Inside(price)
  <2>1. /\ Placed(price, tick, ActiveIn(positions, tick)) /\ Limit(TRUE) <= price
        /\ price <= Limit(FALSE)
    BY <1>1, SlotPlaced
  <2>2. price \in Ratios
    BY <2>1 DEF Placed
  <2> QED
    BY <2>1, <2>2, Zenon DEF Inside
<1>4. tick \in Ticks /\ price \in Ratios /\ tick < MaxTick
  BY <1>3 DEF Placed
<1>5. tick \in Int
  BY <1>4, TicksAre
<1>6. Active(tick) = ActiveIn(positions, tick)
  BY <1>1, <1>5, GrossNow
<1>7. ASSUME NEW down \in BOOLEAN PROVE InTime(0, down, tick)
  <2>1. PICK t \in Int, a \in Int, b \in Int : t = tick /\ a = MinTick /\ b = MaxTick /\ a <= t /\ t < b
    BY <1>4, TicksAre
  <2>2. 0 <= b - 1 - t /\ 0 <= t - a
    BY <2>1
  <2> QED
    BY <2>1, <2>2 DEF InTime
<1> QED
  BY <1>1, <1>2, <1>3, <1>4, <1>6, <1>7

(* What a contract charges: the fee fetched, or no more for two-sided      *)
(* fees.                                                                   *)
LEMMA ContractIs ==
    ASSUME NEW contract \in Contracts
    PROVE  /\ \A down \in BOOLEAN : contract.charged[down] \in FeePips
           /\ contract.kind \in {"UniswapV3", "AlgebraTwoSideFee", "RamsesV2"}
           /\ contract.kind # "RamsesV2" =>
                \A down \in BOOLEAN : contract.charged[down] <= FetchedFee(contract)
           /\ contract.kind = "UniswapV3" =>
                \A down \in BOOLEAN : contract.charged[down] = FetchedFee(contract)
<1>1. \/ \E f \in FeePips : contract = Charging("UniswapV3", f, [down \in BOOLEAN |-> f])
      \/ \E c \in [BOOLEAN -> FeePips] : contract = Charging("AlgebraTwoSideFee", 0, c)
      \/ \E f, g \in FeePips : contract = Charging("RamsesV2", f, [down \in BOOLEAN |-> g])
  BY DEF Contracts
<1>2. \A f \in FeePips : f \in Int /\ f <= f
  BY QuoteAssumption, MathAssumption
<1>3. CASE \E f \in FeePips : contract = Charging("UniswapV3", f, [down \in BOOLEAN |-> f])
  <2>1. PICK f \in FeePips : contract = Charging("UniswapV3", f, [down \in BOOLEAN |-> f])
    BY <1>3
  <2>2. contract.kind = "UniswapV3" /\ contract.told = f /\ contract.charged = [down \in BOOLEAN |-> f]
    BY <2>1 DEF Charging
  <2>3. FetchedFee(contract) = f /\ \A down \in BOOLEAN : contract.charged[down] = f
    BY <2>2 DEF FetchedFee
  <2> QED
    BY <1>2, <2>2, <2>3
<1>4. CASE \E c \in [BOOLEAN -> FeePips] : contract = Charging("AlgebraTwoSideFee", 0, c)
  <2>1. PICK c \in [BOOLEAN -> FeePips] : contract = Charging("AlgebraTwoSideFee", 0, c)
    BY <1>4
  <2>2. contract.kind = "AlgebraTwoSideFee" /\ contract.charged = c
    BY <2>1 DEF Charging
  <2>3. PICK a \in FeePips, b \in FeePips : a = c[TRUE] /\ b = c[FALSE]
    BY Zenon
  <2>4. {c[down] : down \in BOOLEAN} = {a, b}
    BY <2>3, Zenon
  <2>5. FetchedFee(contract) = Max({a, b})
    BY <2>2, <2>4, Zenon DEF FetchedFee
  <2>6. a \in Int /\ b \in Int /\ (a <= b \/ b <= a)
    BY <1>2
  <2>7. a <= Max({a, b}) /\ b <= Max({a, b})
    <3>0. a <= a /\ b <= b
      BY <2>6
    <3>1. CASE a <= b
      <4>1. Max({a, b}) = b
        BY <2>6, <3>1, MinMaxOfTwo, Zenon
      <4> QED
        BY <3>0, <3>1, <4>1
    <3>2. CASE b <= a
      <4>1. Max({a, b}) = a
        BY <2>6, <3>2, MinMaxOfTwo, Zenon
      <4> QED
        BY <3>0, <3>2, <4>1
    <3> QED
      BY <2>6, <3>1, <3>2
  <2>8. \A down \in BOOLEAN : c[down] \in FeePips /\ c[down] <= Max({a, b})
    BY <2>3, <2>7, Zenon
  <2> QED
    BY <2>2, <2>5, <2>8
<1>5. CASE \E f, g \in FeePips : contract = Charging("RamsesV2", f, [down \in BOOLEAN |-> g])
  <2>1. PICK f \in FeePips, g \in FeePips : contract = Charging("RamsesV2", f, [down \in BOOLEAN |-> g])
    BY <1>5
  <2>2. contract.kind = "RamsesV2" /\ contract.charged = [down \in BOOLEAN |-> g]
    BY <2>1 DEF Charging
  <2>3. \A down \in BOOLEAN : contract.charged[down] = g
    BY <2>2
  <2> QED
    BY <2>2, <2>3
<1> QED
  BY <1>1, <1>3, <1>4, <1>5

(* The quote begins there,                                                 *)
LEMMA StartIs ==
    ASSUME Here, NEW contract \in Contracts, NEW down \in BOOLEAN, NEW specified \in 1 - Word .. Word - 1,
           NEW s, s = Start(contract, down, specified)
    PROVE  /\ StartedWith(s, FetchedFee(contract), down, specified)
           /\ s.contract = contract /\ s.specified = specified /\ s.turns = 0
           /\ Walks(s) /\ (s.end = "no" => Going(s))
<1>1. pool.price = price /\ pool.tick = tick /\ pool.liquidity = ActiveIn(positions, tick)
      /\ Placed(price, tick, ActiveIn(positions, tick)) /\ Inside(price) /\ InTime(0, down, tick)
  BY HereIs
<1>2. /\ Shaped(s) /\ s.fee = FetchedFee(contract) /\ s.down = down /\ s.specified = specified
      /\ s.contract = contract /\ s.turns = 0
      /\ s.price = price /\ s.tick = tick /\ s.liquidity = ActiveIn(positions, tick)
      /\ s.left = specified /\ s.calculated = 0
      /\ s.end = IF price = Limit(down) THEN "error" ELSE IF specified = 0 THEN "filled" ELSE "no"
  BY <1>1 DEF Start, Shaped, Names
<1>3. specified \in Int /\ Owed(specified, specified)
  <2>1. specified \in Int
    BY WordIs
  <2>2. (specified >= 0 => specified >= 0) /\ (~(specified >= 0) => specified <= 0)
    BY <2>1
  <2> QED
    BY <2>1, <2>2 DEF Owed
<1>4. s.turns \in 0..Turns /\ s.fee \in FeePips
  BY <1>2, TurnsAre, FeeTyped
<1>5. Walks(s)
  BY <1>1, <1>2, <1>3, <1>4 DEF Walks
<1>6. s.end = "no" => Going(s)
  BY <1>1, <1>2, <1>5 DEF Going, Inside
<1> QED
  BY <1>2, <1>5, <1>6 DEF StartedWith

(* and the contract's swap.                                                *)
LEMMA PaidStartIs ==
    ASSUME Here, NEW contract \in Contracts, NEW down \in BOOLEAN, NEW specified \in Nat,
           NEW s, s = PaidStart(contract, down, specified)
    PROVE  StartedWith(s, contract.charged[down], down, specified) /\ (s.end = "no" => Swaps(s))
<1>1. pool.price = price /\ Active(tick) = ActiveIn(positions, tick)
      /\ Placed(price, tick, ActiveIn(positions, tick)) /\ Inside(price) /\ contract.charged[down] \in FeePips
  BY HereIs, ContractIs
<1>2. PICK b : b = Start(contract, down, specified)
  OBVIOUS
<1>3. /\ Shaped(b) /\ b.down = down /\ b.left = specified /\ b.calculated = 0
      /\ b.end = IF price = Limit(down) THEN "error" ELSE IF specified = 0 THEN "filled" ELSE "no"
  BY <1>1, <1>2 DEF Start, Shaped, Names
<1>4. s = [b EXCEPT !.fee = contract.charged[down], !.price = price, !.tick = tick, !.liquidity = Active(tick)]
  BY <1>2 DEF PaidStart
<1>5. /\ Shaped(s) /\ s.down = b.down /\ s.left = b.left /\ s.calculated = b.calculated /\ s.end = b.end
      /\ s.fee = contract.charged[down] /\ s.price = price /\ s.tick = tick /\ s.liquidity = Active(tick)
  BY <1>3, <1>4 DEF Shaped, Names
<1>6. StartedWith(s, contract.charged[down], down, specified)
  BY <1>1, <1>3, <1>5 DEF StartedWith
<1>7. ASSUME s.end = "no" PROVE Swaps(s)
  <2>1. specified > 0
    BY <1>3, <1>5, <1>7
  <2> QED
    BY <1>1, <1>3, <1>5, <2>1 DEF Swaps
<1> QED
  BY <1>6, <1>7

(* A quote after n turns.                                                  *)
RunAt(s, n, contract, down, specified) ==
    /\ s.contract = contract /\ s.fee = FetchedFee(contract) /\ s.down = down /\ s.specified = specified
    /\ Walks(s) /\ s.calculated \in Nat
    /\ s.end = "no" => Going(s) /\ s.turns = n
    /\ specified >= 0 => s.left <= specified
    /\ down => s.price <= price
    /\ Onward(s.tick, tick, down)

(* Of the turns at which it failed one would be first.                     *)
LEMMA RunHolds ==
    ASSUME Here, NEW contract \in Contracts, NEW down \in BOOLEAN, NEW specified \in 1 - Word .. Word - 1,
           NEW w, QuoteRun(w, contract, down, specified)
    PROVE  \A n \in 0..Turns : RunAt(w[n], n, contract, down, specified)
<1> DEFINE Wrong == {n \in 0..Turns : ~RunAt(w[n], n, contract, down, specified)}
<1>1. SUFFICES ASSUME Wrong # {} PROVE FALSE
  OBVIOUS
<1>2. Turns \in Nat /\ AtHead /\ tick \in Ticks /\ price \in Ratios /\ specified \in Int
  BY TurnsAre, HereIs, WordIs
<1>3. PICK m \in Wrong : \A n \in Wrong : ~(n < m)
  <2>1. Wrong \in SUBSET Nat
    BY <1>2
  <2> HIDE DEF Wrong
  <2> QED
    BY <1>1, <2>1, SmallestNumber
<1>4. m \in 0..Turns /\ ~RunAt(w[m], m, contract, down, specified)
  OBVIOUS
<1>5. w[0] = Start(contract, down, specified) /\ \A n \in 0 .. Turns - 1 : w[n + 1] = QuoteOn(w[n])
  BY DEF QuoteRun
<1>6. CASE m = 0
  <2>1. PICK s : s = w[0]
    OBVIOUS
  <2>2. /\ StartedWith(s, FetchedFee(contract), down, specified)
        /\ s.contract = contract /\ s.specified = specified /\ s.turns = 0
        /\ Walks(s) /\ (s.end = "no" => Going(s))
    BY <1>5, <2>1, StartIs
  <2>3. s.fee = FetchedFee(contract) /\ s.down = down /\ s.left = specified /\ s.calculated = 0
        /\ s.price = price /\ s.tick = tick
    BY <2>2 DEF StartedWith
  <2>4. Onward(s.tick, tick, down) /\ price <= price /\ specified <= specified
    BY <1>2, <2>3, OnwardIs, RatiosAre
  <2>5. RunAt(s, 0, contract, down, specified)
    BY <2>2, <2>3, <2>4 DEF RunAt
  <2> QED
    BY <1>4, <1>6, <2>1, <2>5
<1>7. CASE m # 0
  <2>1. m - 1 \in 0 .. Turns - 1 /\ m - 1 \in 0..Turns /\ m - 1 < m /\ (m - 1) + 1 = m
    BY <1>2, <1>4, <1>7
  <2>2. PICK s, t : s = w[m - 1] /\ t = w[m]
    OBVIOUS
  <2>3. RunAt(s, m - 1, contract, down, specified)
    BY <1>3, <2>1, <2>2
  <2>4. t = QuoteOn(s)
    <3>1. w[(m - 1) + 1] = QuoteOn(w[m - 1])
      BY <1>5, <2>1
    <3> QED
      BY <2>1, <2>2, <3>1
  <2>5. /\ s.contract = contract /\ s.fee = FetchedFee(contract) /\ s.down = down /\ s.specified = specified
        /\ Walks(s) /\ s.calculated \in Nat
        /\ (s.end = "no" => Going(s) /\ s.turns = m - 1)
        /\ (specified >= 0 => s.left <= specified)
        /\ (down => s.price <= price)
        /\ Onward(s.tick, tick, down)
    BY <2>3 DEF RunAt
  <2>6. CASE s.end = "no"
    <3>1. t = Turn(s) /\ TurnedOn(t, s)
      BY <1>2, <2>4, <2>5, <2>6, TurnGoesOn DEF QuoteOn
    <3>2. /\ t.contract = s.contract /\ t.fee = s.fee /\ t.down = s.down /\ t.specified = s.specified
          /\ t.turns = s.turns + 1 /\ TurnedWell(s, t) /\ t.calculated \in Nat
          /\ Onward(t.tick, s.tick, s.down) /\ (s.down => t.price <= s.price)
          /\ (s.specified >= 0 => t.left <= s.left)
      BY <3>1 DEF TurnedOn
    <3>3. Walks(t) /\ (t.end = "no" => Going(t))
      BY <3>2 DEF TurnedWell
    <3>4. t.tick \in Ticks /\ s.tick \in Ticks /\ t.price \in Nat /\ s.price \in Nat /\ price \in Nat
          /\ t.left \in Int /\ s.left \in Int
      BY <1>2, <2>5, <3>3, RatiosAre, WordIs DEF Walks, Placed, Owed
    <3>5. Onward(t.tick, tick, down)
      BY <1>2, <2>5, <3>2, <3>4, OnwardIs
    <3>6. specified >= 0 => t.left <= specified
      BY <1>2, <2>5, <3>2, <3>4
    <3>7. down => t.price <= price
      BY <2>5, <3>2, <3>4
    <3>8. t.turns = m
      BY <1>2, <1>4, <2>5, <2>6, <3>2
    <3>9. RunAt(t, m, contract, down, specified)
      BY <2>5, <3>2, <3>3, <3>5, <3>6, <3>7, <3>8, Zenon DEF RunAt
    <3> QED
      BY <1>4, <2>2, <3>9
  <2>7. CASE s.end # "no"
    <3>1. t = s
      BY <2>4, <2>7 DEF QuoteOn
    <3>2. RunAt(t, m, contract, down, specified)
      BY <2>5, <2>7, <3>1, Zenon DEF RunAt
    <3> QED
      BY <1>4, <2>2, <3>2
  <2> QED
    BY <2>6, <2>7
<1> QED
  BY <1>6, <1>7

(* What has been counted, and how far the walk is.                         *)
LEMMA RunRises ==
    ASSUME Here, NEW contract \in Contracts, NEW down \in BOOLEAN, NEW specified \in 1 - Word .. Word - 1,
           NEW w, QuoteRun(w, contract, down, specified), NEW n \in 0..Turns
    PROVE  \A k \in n..Turns : w[n].calculated <= w[k].calculated /\ Onward(w[k].tick, w[n].tick, down)
<1> DEFINE Wrong == {k \in n..Turns : ~(w[n].calculated <= w[k].calculated /\ Onward(w[k].tick, w[n].tick, down))}
<1>1. SUFFICES ASSUME Wrong # {} PROVE FALSE
  OBVIOUS
<1>2. Turns \in Nat /\ AtHead
  BY TurnsAre, HereIs
<1>3. PICK m \in Wrong : \A k \in Wrong : ~(k < m)
  <2>1. Wrong \in SUBSET Nat
    BY <1>2
  <2> HIDE DEF Wrong
  <2> QED
    BY <1>1, <2>1, SmallestNumber
<1>4. m \in n..Turns /\ ~(w[n].calculated <= w[m].calculated /\ Onward(w[m].tick, w[n].tick, down))
  OBVIOUS
<1>5. \A k \in 0..Turns : RunAt(w[k], k, contract, down, specified)
  BY RunHolds
<1>6. ASSUME NEW k \in 0..Turns PROVE w[k].calculated \in Nat /\ w[k].tick \in Ticks
  BY <1>5 DEF RunAt, Walks, Placed
<1>7. CASE m = n
  <2>1. w[n].calculated <= w[n].calculated /\ Onward(w[n].tick, w[n].tick, down)
    BY <1>6, OnwardIs
  <2> QED
    BY <1>4, <1>7, <2>1
<1>8. CASE m # n
  <2>1. /\ m - 1 \in n..Turns /\ m - 1 \in 0 .. Turns - 1 /\ m - 1 < m /\ (m - 1) + 1 = m
        /\ m \in 0..Turns /\ m - 1 \in 0..Turns
    BY <1>2, <1>4, <1>8
  <2>2. w[n].calculated <= w[m - 1].calculated /\ Onward(w[m - 1].tick, w[n].tick, down)
    BY <1>3, <2>1
  <2>3. w[m] = QuoteOn(w[m - 1])
    <3>1. w[(m - 1) + 1] = QuoteOn(w[m - 1])
      BY <2>1 DEF QuoteRun
    <3> QED
      BY <2>1, <3>1
  <2>4. w[m - 1].calculated <= w[m].calculated /\ Onward(w[m].tick, w[m - 1].tick, down)
    <3>1. CASE w[m - 1].end = "no"
      <4>1. PICK s, t : s = w[m - 1] /\ t = w[m]
        OBVIOUS
      <4>2. RunAt(s, m - 1, contract, down, specified)
        BY <1>5, <2>1, <4>1
      <4>3. Going(s) /\ s.calculated \in Nat /\ s.down = down
        BY <3>1, <4>1, <4>2 DEF RunAt
      <4>4. t = Turn(s)
        BY <2>3, <3>1, <4>1 DEF QuoteOn
      <4>5. TurnedOn(t, s)
        BY <1>2, <4>3, <4>4, TurnGoesOn
      <4> QED
        BY <4>1, <4>3, <4>5 DEF TurnedOn
    <3>2. CASE w[m - 1].end # "no"
      <4>1. w[m] = w[m - 1]
        BY <2>3, <3>2 DEF QuoteOn
      <4>2. w[m - 1].calculated \in Nat /\ w[m - 1].tick \in Ticks
        BY <1>6, <2>1
      <4> QED
        BY <4>1, <4>2, OnwardIs
    <3> QED
      BY <3>1, <3>2
  <2>5. w[n].calculated \in Nat /\ w[m].calculated \in Nat /\ w[m - 1].calculated \in Nat
        /\ w[n].tick \in Ticks /\ w[m].tick \in Ticks /\ w[m - 1].tick \in Ticks
    BY <1>6, <2>1
  <2>6. w[n].calculated <= w[m].calculated
    BY <2>2, <2>4, <2>5
  <2>7. Onward(w[m].tick, w[n].tick, down)
    BY <2>2, <2>4, <2>5, OnwardIs
  <2> QED
    BY <1>4, <2>6, <2>7
<1> QED
  BY <1>7, <1>8

(* What has ended stays as it is.                                          *)
LEMMA RunRests ==
    ASSUME NEW contract, NEW down, NEW specified, NEW w, QuoteRun(w, contract, down, specified),
           NEW n \in 0..Turns, w[n].end # "no"
    PROVE  \A k \in n..Turns : w[k] = w[n]
<1> DEFINE Wrong == {k \in n..Turns : w[k] # w[n]}
<1>1. SUFFICES ASSUME Wrong # {} PROVE FALSE
  OBVIOUS
<1>2. Turns \in Nat
  BY TurnsAre
<1>3. PICK m \in Wrong : \A k \in Wrong : ~(k < m)
  <2>1. Wrong \in SUBSET Nat
    BY <1>2
  <2> HIDE DEF Wrong
  <2> QED
    BY <1>1, <2>1, SmallestNumber
<1>4. m \in n..Turns /\ w[m] # w[n] /\ m # n
  OBVIOUS
<1>5. m - 1 \in n..Turns /\ m - 1 \in 0 .. Turns - 1 /\ m - 1 < m /\ (m - 1) + 1 = m
  BY <1>2, <1>4
<1>6. w[m - 1] = w[n]
  BY <1>3, <1>5
<1>7. w[(m - 1) + 1] = QuoteOn(w[m - 1])
  BY <1>5 DEF QuoteRun
<1> QED
  BY <1>4, <1>5, <1>6, <1>7 DEF QuoteOn

(* The contract's swap after n turns.                                      *)
PaidAt(s, n, fee, down) ==
    /\ s.calculated \in Nat
    /\ s.end = "no" => /\ Swaps(s) /\ s.fee = fee /\ s.down = down
                       /\ InTime(n, down, s.tick) /\ Onward(s.tick, tick, down)

(* A turn of it.                                                           *)
LEMMA PaidTurn ==
    ASSUME Here, NEW s, NEW n \in Nat, NEW fee, NEW down \in BOOLEAN, PaidAt(s, n, fee, down), s.end = "no"
    PROVE  PaidAt(ContractTurn(s), n + 1, fee, down) /\ s.calculated <= ContractTurn(s).calculated
<1>1. AtHead /\ tick \in Ticks
  BY HereIs
<1>2. Swaps(s) /\ s.fee = fee /\ s.down = down /\ InTime(n, down, s.tick) /\ Onward(s.tick, tick, down)
  BY DEF PaidAt
<1>3. PICK t : t = ContractTurn(s)
  OBVIOUS
<1>4. PICK m \in Ticks, r \in Ratios : Swapped(s, t, m, r)
  BY <1>1, <1>2, <1>3, ContractTurns
<1>5. /\ Follow(m, s.tick, down) /\ t.calculated \in Nat /\ s.calculated <= t.calculated
      /\ t.fee = s.fee /\ t.down = s.down
      /\ (t.end = "no" => /\ m # LastTick(down) /\ t.tick = Onto(m, down) /\ Swaps(t))
  BY <1>2, <1>4 DEF Swapped, StopsAt, ContractGone, GoneTo
<1>6. s.tick \in Ticks
  BY <1>2 DEF Swaps, Placed
<1>7. ASSUME t.end = "no" PROVE InTime(n + 1, down, t.tick) /\ Onward(t.tick, tick, down)
  <2>1. t.tick = Onto(m, down) /\ t.tick \in Ticks
    BY <1>5, <1>7 DEF Swaps, Placed
  <2>2. InTime(n + 1, down, t.tick)
    BY <1>2, <1>5, <1>6, <2>1, TimeGoesOn
  <2>3. s.tick \in Int /\ m \in Int
    BY <1>6, TicksAre
  <2>4. Onward(Onto(m, down), s.tick, down)
    <3>1. CASE down
      <4>1. m - 1 <= s.tick
        BY <1>5, <2>3, <3>1 DEF Follow
      <4> QED
        BY <3>1, <4>1 DEF Onward, Onto
    <3>2. CASE ~down
      <4>1. s.tick <= m
        BY <1>5, <2>3, <3>2 DEF Follow
      <4> QED
        BY <3>2, <4>1 DEF Onward, Onto
    <3> QED
      BY <3>1, <3>2
  <2>5. Onward(t.tick, tick, down)
    BY <1>1, <1>2, <1>6, <2>1, <2>4, OnwardIs
  <2> QED
    BY <2>2, <2>5
<1>8. PaidAt(t, n + 1, fee, down)
  BY <1>2, <1>5, <1>7 DEF PaidAt
<1> QED
  BY <1>3, <1>5, <1>8

(* All of them.                                                            *)
LEMMA PaidHolds ==
    ASSUME Here, NEW contract \in Contracts, NEW down \in BOOLEAN, NEW specified \in Nat,
           NEW w, PaidRun(w, contract, down, specified)
    PROVE  \A n \in 0 .. 2 * Turns : PaidAt(w[n], n, contract.charged[down], down)
<1> DEFINE fee == contract.charged[down]
           Wrong == {n \in 0 .. 2 * Turns : ~PaidAt(w[n], n, fee, down)}
<1>1. SUFFICES ASSUME Wrong # {} PROVE FALSE
  OBVIOUS
<1>2. Turns \in Nat /\ tick \in Ticks /\ InTime(0, down, tick)
  BY TurnsAre, HereIs
<1>3. PICK m \in Wrong : \A n \in Wrong : ~(n < m)
  <2>1. Wrong \in SUBSET Nat
    BY <1>2
  <2> HIDE DEF Wrong
  <2> QED
    BY <1>1, <2>1, SmallestNumber
<1>4. m \in 0 .. 2 * Turns /\ ~PaidAt(w[m], m, fee, down)
  OBVIOUS
<1>5. CASE m = 0
  <2>1. PICK s : s = w[0] /\ s = PaidStart(contract, down, specified)
    BY DEF PaidRun
  <2>2. StartedWith(s, fee, down, specified) /\ (s.end = "no" => Swaps(s))
    BY <2>1, PaidStartIs
  <2>3. s.fee = fee /\ s.down = down /\ s.calculated = 0 /\ s.tick = tick
    BY <2>2 DEF StartedWith
  <2>4. Onward(s.tick, tick, down)
    BY <1>2, <2>3, OnwardIs
  <2>5. PaidAt(s, 0, fee, down)
    BY <1>2, <2>2, <2>3, <2>4 DEF PaidAt
  <2> QED
    BY <1>4, <1>5, <2>1, <2>5
<1>6. CASE m # 0
  <2>1. m - 1 \in 0 .. 2 * Turns - 1 /\ m - 1 \in 0 .. 2 * Turns /\ m - 1 < m /\ (m - 1) + 1 = m /\ m - 1 \in Nat
    BY <1>2, <1>4, <1>6
  <2>2. PICK s, t : s = w[m - 1] /\ t = w[m]
    OBVIOUS
  <2>3. PaidAt(s, m - 1, fee, down)
    BY <1>3, <2>1, <2>2
  <2>4. t = PaidOn(s)
    <3>1. w[(m - 1) + 1] = PaidOn(w[m - 1])
      BY <2>1 DEF PaidRun
    <3> QED
      BY <2>1, <2>2, <3>1
  <2>5. CASE s.end = "no"
    <3>1. t = ContractTurn(s)
      BY <2>4, <2>5 DEF PaidOn
    <3>2. PaidAt(t, m, fee, down)
      BY <2>1, <2>3, <2>5, <3>1, PaidTurn
    <3> QED
      BY <1>4, <2>2, <3>2
  <2>6. CASE s.end # "no"
    <3>1. t = s
      BY <2>4, <2>6 DEF PaidOn
    <3>2. PaidAt(t, m, fee, down)
      BY <2>3, <2>6, <3>1 DEF PaidAt
    <3> QED
      BY <1>4, <2>2, <3>2
  <2> QED
    BY <2>5, <2>6
<1> QED
  BY <1>5, <1>6

(* No turn takes back what was paid.                                       *)
LEMMA PaidRises ==
    ASSUME Here, NEW contract \in Contracts, NEW down \in BOOLEAN, NEW specified \in Nat,
           NEW w, PaidRun(w, contract, down, specified), NEW n \in 0 .. 2 * Turns - 1
    PROVE  w[n].calculated <= w[n + 1].calculated
<1>1. Turns \in Nat /\ n \in 0 .. 2 * Turns /\ n \in Nat
  BY TurnsAre
<1>2. PICK s, t : s = w[n] /\ t = w[n + 1] /\ t = PaidOn(s)
  BY DEF PaidRun
<1>3. PaidAt(s, n, contract.charged[down], down)
  BY <1>1, <1>2, PaidHolds
<1>4. CASE s.end = "no"
  BY <1>1, <1>2, <1>3, <1>4, PaidTurn DEF PaidOn
<1>5. CASE s.end # "no"
  <2>1. t = s /\ s.calculated \in Nat
    BY <1>2, <1>3, <1>5 DEF PaidOn, PaidAt
  <2> QED
    BY <1>2, <2>1
<1> QED
  BY <1>4, <1>5

(* There are more turns than a walk over every tick takes.                 *)
LEMMA PaidEnds ==
    ASSUME Here, NEW contract \in Contracts, NEW down \in BOOLEAN, NEW specified \in Nat,
           NEW w, PaidRun(w, contract, down, specified)
    PROVE  w[2 * Turns].end # "no" /\ w[2 * Turns].calculated \in Nat
<1>1. PICK k \in Nat : k = Turns /\ 2 * Turns \in 0 .. 2 * Turns /\ k = MaxTick - MinTick + 2
  BY TurnsAre
<1>2. PaidAt(w[2 * Turns], 2 * Turns, contract.charged[down], down)
  BY <1>1, PaidHolds
<1>3. SUFFICES ASSUME w[2 * Turns].end = "no" PROVE FALSE
  BY <1>2 DEF PaidAt
<1>4. InTime(2 * Turns, down, w[2 * Turns].tick) /\ w[2 * Turns].tick \in Ticks
  BY <1>2, <1>3 DEF PaidAt, Swaps, Placed
<1>5. PICK t \in Int, a \in Int, b \in Int :
        t = w[2 * Turns].tick /\ a = MinTick /\ b = MaxTick /\ a <= t /\ t <= b
  BY <1>4, TicksAre
<1>6. 2 * k <= b - 1 - t \/ 2 * k <= t - a
  BY <1>1, <1>4, <1>5 DEF InTime
<1> QED
  BY <1>1, <1>5, <1>6
-----------------------------------------------------------------------------
(* The two swaps abreast: between the same initialized ticks, the          *)
(* contract's at the farther price.                                        *)

Abreast(b, c) ==
    /\ Going(b) /\ b.calculated \in Nat /\ Swaps(c) /\ c.down = b.down
    /\ Ahead(c.tick, b.down) = Ahead(b.tick, b.down) /\ c.liquidity = b.liquidity
    /\ Heads(b.price, c.price, b.down)

(* The ranges of what is compared.                                         *)
LEMMA AbreastIs ==
    ASSUME AtHead, NEW b, NEW c, Abreast(b, c)
    PROVE  /\ b.down \in BOOLEAN /\ b.price \in Ratios /\ c.price \in Ratios /\ b.fee \in FeePips /\ c.fee \in FeePips
           /\ b.tick \in Ticks /\ c.tick \in Ticks /\ b.liquidity \in 0..UMax
           /\ b.left \in Int /\ b.left # 0 /\ c.left \in Nat /\ c.left > 0
           /\ b.calculated \in Nat /\ c.calculated \in Nat
           /\ c.liquidity = ActiveIn(positions, c.tick) /\ b.liquidity = ActiveIn(positions, b.tick)
           /\ Placed(c.price, c.tick, c.liquidity) /\ Inside(c.price) /\ Shaped(c)
<1>1. /\ b.down \in BOOLEAN /\ b.fee \in FeePips /\ Placed(b.price, b.tick, b.liquidity)
      /\ b.left \in 1 - Word .. Word - 1 /\ b.left # 0 /\ b.calculated \in Nat
  BY DEF Abreast, Going, Walks, Owed
<1>2. /\ c.fee \in FeePips /\ Placed(c.price, c.tick, c.liquidity) /\ Inside(c.price) /\ Shaped(c)
      /\ c.left \in Nat /\ c.left > 0 /\ c.calculated \in Nat
  BY DEF Abreast, Swaps
<1>3. b.left \in Int
  BY <1>1, WordIs
<1>4. b.price \in Ratios /\ b.tick \in Ticks /\ b.liquidity = ActiveIn(positions, b.tick)
      /\ c.price \in Ratios /\ c.tick \in Ticks /\ c.liquidity = ActiveIn(positions, c.tick)
  BY <1>1, <1>2 DEF Placed
<1>5. b.liquidity \in 0..UMax
  BY <1>4, ActiveBounded DEF AtHead
<1> QED
  BY <1>1, <1>2, <1>3, <1>4, <1>5

(* All there is to say of a way in two parts.                              *)
Ways(L, from, m, to, fee) ==
    /\ ChargesAdd(Charge(L, from, to, fee), Charge(L, from, m, fee), Charge(L, m, to, fee), MoreInTwoParts(fee))
    /\ GainsAdd(Gain(L, from, to), Gain(L, from, m), Gain(L, m, to))

(* By ChargeSplit and GainSplit.                                           *)
LEMMA WaysAre ==
    ASSUME NEW L \in 0..UMax, NEW from \in Ratios, NEW m \in Ratios, NEW to \in Ratios, NEW down \in BOOLEAN,
           Heads(from, m, down), Heads(m, to, down), NEW fee \in FeePips
    PROVE  Ways(L, from, m, to, fee)
<1>1. By(from, m, to, down)
  BY DEF By
<1>2. ChargesAdd(Charge(L, from, to, fee), Charge(L, from, m, fee), Charge(L, m, to, fee), MoreInTwoParts(fee))
  BY <1>1, ChargeSplit
<1>3. GainsAdd(Gain(L, from, to), Gain(L, from, m), Gain(L, m, to))
  BY <1>1, GainSplit
<1> QED
  BY <1>2, <1>3 DEF Ways

(* No way at all.                                                          *)
LEMMA StaysPut ==
    ASSUME NEW L \in 0..UMax, NEW p \in Ratios, NEW fee \in FeePips
    PROVE  Charge(L, p, p, fee) = 0 /\ Gain(L, p, p) = 0
<1>1. Heads(p, p, TRUE)
  BY HeadsOn
<1> QED
  BY <1>1, NoCharge

(* The next tick of one is that of the other.                              *)
LEMMA SameNearest ==
    ASSUME AtHead, NEW t \in Ticks, NEW u \in Ticks, NEW down \in BOOLEAN, Ahead(u, down) = Ahead(t, down),
           NEW next, Nearest(next, t, down)
    PROVE  Nearest(next, u, down)
<1>1. next \in Ahead(u, down) /\ next = NextTick(t, down)
  BY DEF Nearest
<1>2. Nearest(NextTick(u, down), u, down)
  BY <1>1, AheadSome
<1>3. NextTick(u, down) = NextTick(t, down)
  BY <1>1 DEF NextTick
<1> QED
  BY <1>1, <1>2, <1>3

(* A stop of the contract is the nearest tick, or before it.               *)
LEMMA NextOrBorder ==
    ASSUME AtHead, NEW t \in Ticks, NEW down \in BOOLEAN, NEW m, StopsAt(m, t, down),
           NEW next, Nearest(next, t, down)
    PROVE  \/ m = next
           \/ /\ BorderOf(m, t, down) /\ m # next
              /\ Heads(PriceAt(m), PriceAt(next), down) /\ PriceAt(m) # PriceAt(next)
<1>1. m \in Ticks /\ next \in Ticks /\ m \in Int /\ next \in Int /\ next = NextTick(t, down)
      /\ next \in Ahead(t, down)
  BY TicksAre DEF StopsAt, Nearest
<1>2. CASE m \in Ahead(t, down)
  BY <1>1, <1>2 DEF StopsAt
<1>3. CASE m \notin Ahead(t, down)
  <2>1. BorderOf(m, t, down)
    BY <1>3 DEF StopsAt
  <2>2. next \in Ahead(Onto(m, down), down)
    BY <1>1, <2>1 DEF BorderOf
  <2>3. /\ \A u \in Ticks : u \in Ahead(Onto(m, down), TRUE) => u <= Onto(m, down)
        /\ \A u \in Ticks : u \in Ahead(Onto(m, down), FALSE) => u > Onto(m, down)
    BY AheadIs
  <2>4. PriceAt(m) \in Nat /\ PriceAt(next) \in Nat
    BY <1>1, PricesAre
  <2>5. CASE down
    <3>1. next <= m - 1
      BY <1>1, <2>2, <2>3, <2>5 DEF Onto
    <3>2. next < m
      BY <1>1, <3>1
    <3>3. PriceAt(next) < PriceAt(m)
      BY <1>1, <3>2, PricesOrder
    <3>4. PriceAt(next) <= PriceAt(m) /\ PriceAt(m) # PriceAt(next) /\ m # next
      BY <1>1, <2>4, <3>2, <3>3
    <3> QED
      BY <2>1, <2>5, <3>4 DEF Heads
  <2>6. CASE ~down
    <3>1. next > m
      BY <1>1, <2>2, <2>3, <2>6 DEF Onto
    <3>2. m < next
      BY <1>1, <3>1
    <3>3. PriceAt(m) < PriceAt(next)
      BY <1>1, <3>2, PricesOrder
    <3>4. PriceAt(m) <= PriceAt(next) /\ PriceAt(m) # PriceAt(next) /\ m # next
      BY <1>1, <2>4, <3>2, <3>3
    <3> QED
      BY <2>1, <2>6, <3>4 DEF Heads
  <2> QED
    BY <2>5, <2>6
<1> QED
  BY <1>2, <1>3

(* The contract goes as far as what is left pays for.                      *)
LEMMA ContractReaches ==
    ASSUME AtHead, NEW c, Swaps(c), NEW m \in Ticks, NEW r \in Ratios, Swapped(c, ContractTurn(c), m, r),
           NEW q \in Ratios, Heads(c.price, q, c.down), Heads(q, r, c.down),
           Charge(c.liquidity, c.price, q, c.fee) <= c.left
    PROVE  Heads(q, ContractTurn(c).price, c.down)
<1>1. /\ Shaped(c) /\ c.down \in BOOLEAN /\ c.fee \in FeePips /\ c.left \in Nat
      /\ c.price \in Ratios /\ c.liquidity = ActiveIn(positions, c.tick)
  BY DEF Swaps, Placed
<1>2. c.liquidity \in 0..UMax
  BY <1>1, ActiveBounded DEF AtHead
<1>3. m = ContractStop(c.tick, c.down) /\ r = Target(m, c.down) /\ Heads(c.price, r, c.down)
  BY DEF Swapped, StopsAt
<1>4. ContractTurn(c) = ContractTo(c, m, r)
  BY <1>3, Zenon DEF ContractTurn
<1>5. Heads(q, ContractTo(c, m, r).price, c.down)
  BY <1>1, <1>2, <1>3, ContractGoesFar
<1> QED
  BY <1>4, <1>5
-----------------------------------------------------------------------------
(* With what its extra input is worth, the contract keeps up.              *)

(* More is what it still has ahead, k the borders it has come past.        *)
Lead(b, c, k, more) ==
    \A q \in Ratios : Heads(c.price, q, b.down) =>
        /\ b.left + more + Charge(b.liquidity, c.price, q, c.fee)
             <= c.left + Charge(b.liquidity, b.price, q, c.fee)
        /\ b.calculated + Gain(b.liquidity, b.price, q)
             <= c.calculated + Gain(b.liquidity, c.price, q) + k

(* The contract has input to come for rest borders and has given no more   *)
(* than a unit less for each of the k behind it.                           *)
KeepsUp(b, c, k, rest) ==
    /\ Abreast(b, c) /\ c.end = "no" /\ b.specified >= 0 /\ c.fee <= b.fee
    /\ k = Passed(c.tick, tick, b.down) /\ Onward(c.tick, tick, b.down)
    /\ Lead(b, c, k, MoreInTwoParts(c.fee) * rest)

(* A part more costs something.                                            *)
LEMMA MoreIs == ASSUME NEW fee \in FeePips PROVE MoreInTwoParts(fee) \in Nat /\ MoreInTwoParts(fee) > 0
<1>1. WithFee(1, fee) \in Nat
  BY WithFeeIs
<1> QED
  BY <1>1 DEF MoreInTwoParts

(* Behind the contract there is nothing to promise that it does not pay.   *)
LEMMA KeepUpBehind ==
    ASSUME AtHead, NEW b, NEW c, NEW k \in Nat, NEW more \in Nat, Abreast(b, c), Lead(b, c, k, more),
           NEW p \in Ratios, Heads(b.price, p, b.down), Heads(p, c.price, b.down)
    PROVE  b.calculated + Gain(b.liquidity, b.price, p) <= c.calculated + k
<1>1. /\ b.down \in BOOLEAN /\ b.price \in Ratios /\ c.price \in Ratios /\ b.fee \in FeePips /\ c.fee \in FeePips
      /\ b.liquidity \in 0..UMax /\ b.calculated \in Nat /\ c.calculated \in Nat
  BY AbreastIs
<1>2. PICK all \in Nat, first \in Nat :
        /\ all = Gain(b.liquidity, b.price, c.price) /\ first = Gain(b.liquidity, b.price, p) /\ first <= all
  BY <1>1, WaysAre DEF Ways, GainsAdd
<1>3. Gain(b.liquidity, c.price, c.price) = 0
  BY <1>1, StaysPut
<1>4. Heads(c.price, c.price, b.down)
  BY <1>1, HeadsOn
<1>5. b.calculated + all <= c.calculated + 0 + k
  BY <1>1, <1>2, <1>3, <1>4 DEF Lead
<1> QED
  BY <1>1, <1>2, <1>5

(* Both cross the same tick.                                               *)
LEMMA KeepUpCross ==
    ASSUME Here, NEW b, NEW c, NEW k \in Nat, NEW rest \in Nat, KeepsUp(b, c, k, rest),
           NEW t, t = Turn(b), t.end = "no", NEW next \in Ticks, NEW to \in Ratios, Sold(t, b, next, to),
           NEW u, u = ContractTurn(c), NEW r \in Ratios, Swapped(c, u, next, r),
           NEW z \in Ticks, Onward(z, t.tick, b.down), Passed(z, tick, b.down) = k + rest
    PROVE  \E j \in Nat, l \in Nat : j + l = k + rest /\ KeepsUp(t, u, j, l)
<1>1. AtHead /\ Abreast(b, c) /\ tick \in Ticks /\ c.end = "no" /\ b.specified >= 0 /\ c.fee <= b.fee
      /\ k = Passed(c.tick, tick, b.down) /\ Onward(c.tick, tick, b.down)
      /\ Lead(b, c, k, MoreInTwoParts(c.fee) * rest)
  BY HereIs DEF KeepsUp
<1>2. PICK L \in 0..UMax, from \in Ratios, at \in Ratios, down \in BOOLEAN, f \in FeePips, g \in FeePips :
        /\ L = b.liquidity /\ from = b.price /\ at = c.price /\ down = b.down /\ f = c.fee /\ g = b.fee
        /\ b.tick \in Ticks /\ c.tick \in Ticks /\ b.left \in Int /\ c.left \in Nat
        /\ b.calculated \in Nat /\ c.calculated \in Nat /\ Heads(from, at, down)
        /\ c.liquidity = L /\ c.down = down /\ f <= g
  BY <1>1, AbreastIs DEF Abreast
<1>3. /\ Nearest(next, b.tick, down) /\ to = Target(next, down) /\ Heads(from, to, down)
      /\ t.price = to /\ to = PriceAt(next) /\ to # Limit(down) /\ t.left # 0
      /\ t.tick = Onto(next, down) /\ t.liquidity = ActiveIn(positions, t.tick)
      /\ t.calculated = b.calculated + Gain(L, from, to)
      /\ Charge(L, from, to, g) <= b.left
      /\ t.left = b.left - Charge(L, from, to, g)
  BY <1>2 DEF Sold, Arrives
<1>4. r = to /\ Heads(at, to, down)
  BY <1>2, <1>3 DEF Swapped
<1>5. PICK w \in Nat, x \in Nat, y \in Nat, G \in Nat, H \in Nat :
        /\ w = Charge(L, at, to, f) /\ x = Charge(L, from, to, g) /\ y = Charge(L, from, to, f)
        /\ G = Gain(L, from, to) /\ H = Gain(L, at, to) /\ y <= x
  <2>1. Charge(L, at, to, f) \in Nat /\ Gain(L, at, to) \in Nat
    BY <1>2, <1>4, SomeCharge
  <2>2. Charge(L, from, to, g) \in Nat /\ Charge(L, from, to, f) \in Nat /\ Gain(L, from, to) \in Nat
    BY <1>2, <1>3, SomeCharge
  <2>3. Charge(L, from, to, f) <= Charge(L, from, to, g)
    BY <1>2, <1>3, ChargeRises
  <2> QED
    BY <2>1, <2>2, <2>3
<1>6. PICK R \in Nat, S \in Nat : R = MoreInTwoParts(f) /\ S = R * rest
  BY MoreIs, TimesNat
<1>7. b.left + S + w <= c.left + y /\ b.calculated + G <= c.calculated + H + k
  BY <1>1, <1>2, <1>4, <1>5, <1>6 DEF Lead
<1>8. x <= b.left /\ t.left = b.left - x /\ t.calculated = b.calculated + G
  BY <1>3, <1>5
<1>9. S + w <= c.left
  BY <1>2, <1>5, <1>7, <1>8
<1>10. /\ OnTheWay(u.price, at, r, down) /\ u.calculated = c.calculated + Gain(L, at, u.price)
       /\ u.fee = f /\ u.down = down
       /\ \/ u.price = r /\ Charge(L, at, r, f) <= c.left /\ u.left = c.left - Charge(L, at, r, f)
          \/ u.left = 0 /\ ~(Charge(L, at, r, f) <= c.left)
       /\ u.end \in {"filled", "no"} /\ (u.end = "no" <=> u.left # 0 /\ u.price # Limit(down))
       /\ (u.end = "no" => u.tick = Onto(next, down) /\ u.liquidity = ActiveIn(positions, u.tick) /\ Swaps(u))
  BY <1>2 DEF Swapped, ContractGone, GoneTo
<1>11. u.price = to /\ u.left = c.left - w /\ u.calculated = c.calculated + H
  <2>1. w <= c.left
    BY <1>2, <1>9
  <2> QED
    BY <1>4, <1>5, <1>10, <2>1
<1>12. t.left \in Nat /\ t.left + S <= u.left /\ u.left # 0
  <2>1. t.left \in Nat /\ t.left + S <= u.left
    BY <1>2, <1>5, <1>6, <1>7, <1>8, <1>11
  <2> QED
    BY <1>2, <1>3, <1>6, <1>11, <2>1
<1>13. u.end = "no" /\ u.tick = t.tick /\ u.liquidity = t.liquidity /\ Swaps(u)
  BY <1>3, <1>10, <1>11, <1>12
<1>14. t.tick \in Ticks /\ u.tick \in Ticks
  BY <1>13 DEF Swaps, Placed
<1>15. PICK j \in Nat : j = Passed(u.tick, tick, down) /\ k <= j /\ j <= k + rest /\ Onward(u.tick, tick, down)
  <2>1. Onward(u.tick, c.tick, down)
    <3>1. c.tick \in Int /\ next \in Int /\ Follow(next, c.tick, down)
      BY <1>2, TicksAre DEF Swapped, StopsAt
    <3>2. CASE down
      BY <1>3, <1>13, <3>1, <3>2 DEF Onward, Onto, Follow
    <3>3. CASE ~down
      BY <1>3, <1>13, <3>1, <3>3 DEF Onward, Onto, Follow
    <3> QED
      BY <3>2, <3>3
  <2>2. Onward(c.tick, tick, down) /\ k = Passed(c.tick, tick, down) /\ Passed(z, tick, down) = k + rest
    BY <1>1, <1>2
  <2>3. Onward(u.tick, tick, down)
    BY <1>1, <1>2, <1>14, <2>1, <2>2, OnwardIs
  <2>4. Passed(u.tick, tick, down) \in Nat /\ k <= Passed(u.tick, tick, down)
    BY <1>1, <1>2, <1>14, <2>1, <2>2, PassedOn
  <2>5. Onward(z, u.tick, down)
    BY <1>2, <1>13
  <2>6. Passed(u.tick, tick, down) <= k + rest
    BY <1>1, <1>14, <2>2, <2>3, <2>5, PassedOn
  <2> QED
    BY <2>3, <2>4, <2>6
<1>16. PICK l \in Nat : j + l = k + rest /\ l <= rest
  <2>1. k + rest - j \in Nat /\ j + (k + rest - j) = k + rest /\ k + rest - j <= rest
    BY <1>15
  <2> QED
    BY <2>1
<1>17. PICK T \in Nat : T = R * l /\ T <= S
  BY <1>6, <1>16, TimesNat, TimesMonotone
<1>19. /\ t.down = down /\ t.specified = b.specified /\ t.fee = g /\ Going(t) /\ t.calculated \in Nat
  BY <1>1, <1>2, TurnGoesOn DEF TurnedOn, TurnedWell, Abreast
<1>18. Lead(t, u, j, T)
  <2>1. SUFFICES ASSUME NEW q \in Ratios, Heads(to, q, down)
                 PROVE  /\ t.left + T + Charge(t.liquidity, to, q, f) <= u.left + Charge(t.liquidity, to, q, f)
                        /\ t.calculated + Gain(t.liquidity, to, q) <= u.calculated + Gain(t.liquidity, to, q) + j
    <3>1. t.down = down
      BY <1>19
    <3> QED
      BY <1>3, <1>10, <1>11, <3>1, Zenon DEF Lead
  <2>2. t.liquidity \in 0..UMax
    BY <1>1, <1>3, ActiveBounded DEF AtHead
  <2>3. PICK cq \in Nat, gq \in Nat : cq = Charge(t.liquidity, to, q, f) /\ gq = Gain(t.liquidity, to, q)
    BY <2>1, <2>2, SomeCharge
  <2>4. t.left + T + cq <= u.left + cq
    BY <1>2, <1>5, <1>6, <1>11, <1>12, <1>17, <2>3
  <2>5. t.calculated + gq <= u.calculated + gq + j
    BY <1>2, <1>5, <1>7, <1>8, <1>11, <1>15, <2>3
  <2> QED
    BY <2>3, <2>4, <2>5
<1>20. Abreast(t, u)
  <2>1. Ahead(u.tick, t.down) = Ahead(t.tick, t.down) /\ Heads(t.price, u.price, t.down) /\ u.down = t.down
    BY <1>2, <1>3, <1>10, <1>11, <1>13, <1>19, HeadsOn
  <2> QED
    BY <1>13, <1>19, <2>1 DEF Abreast
<1>21. KeepsUp(t, u, j, l)
  BY <1>1, <1>2, <1>6, <1>10, <1>13, <1>15, <1>17, <1>18, <1>19, <1>20, Zenon DEF KeepsUp
<1> QED
  BY <1>16, <1>21

(* The contract stops at a border that the quote goes past.                *)
LEMMA KeepUpBorder ==
    ASSUME Here, NEW b, NEW c, NEW k \in Nat, NEW rest \in Nat, KeepsUp(b, c, k, rest),
           NEW t, t = Turn(b), NEW next \in Ticks, NEW to \in Ratios, Sold(t, b, next, to),
           NEW u, u = ContractTurn(c), NEW m \in Ticks, NEW r \in Ratios, Swapped(c, u, m, r),
           BorderOf(m, c.tick, b.down), Heads(c.price, t.price, b.down), ~Heads(t.price, r, b.down),
           NEW z \in Ticks, Onward(z, t.tick, b.down), Passed(z, tick, b.down) = k + rest
    PROVE  \E j \in Nat, l \in Nat : j + l = k + rest /\ KeepsUp(b, u, j, l)
<1>1. AtHead /\ Abreast(b, c) /\ tick \in Ticks /\ c.end = "no" /\ b.specified >= 0 /\ c.fee <= b.fee
      /\ k = Passed(c.tick, tick, b.down) /\ Onward(c.tick, tick, b.down)
      /\ Lead(b, c, k, MoreInTwoParts(c.fee) * rest)
  BY HereIs DEF KeepsUp
<1>2. PICK L \in 0..UMax, from \in Ratios, at \in Ratios, down \in BOOLEAN, f \in FeePips, g \in FeePips :
        /\ L = b.liquidity /\ from = b.price /\ at = c.price /\ down = b.down /\ f = c.fee /\ g = b.fee
        /\ b.tick \in Ticks /\ c.tick \in Ticks /\ b.left \in Int /\ c.left \in Nat
        /\ b.calculated \in Nat /\ c.calculated \in Nat /\ Heads(from, at, down)
        /\ c.liquidity = L /\ c.down = down /\ f <= g
        /\ L = ActiveIn(positions, c.tick)
  BY <1>1, AbreastIs DEF Abreast
<1>3. PICK p \in Ratios :
        /\ p = t.price /\ Heads(from, p, down) /\ Heads(p, to, down) /\ Heads(to, Limit(down), down)
        /\ Placed(p, t.tick, t.liquidity) /\ Charge(L, from, p, g) <= b.left
  BY <1>2 DEF Sold, Arrives, OnTheWay
<1>4. Heads(at, p, down) /\ ~Heads(p, r, down)
  BY <1>2, <1>3
<1>5. Heads(r, p, down) /\ r # p
  BY <1>4, HeadsOn
<1>6. /\ r \in {PriceAt(m), Limit(down)} /\ Heads(at, r, down) /\ (r = PriceAt(m) => m # LastTick(down))
      /\ OnTheWay(u.price, at, r, down) /\ u.calculated = c.calculated + Gain(L, at, u.price)
      /\ u.fee = f /\ u.down = down
      /\ \/ u.price = r /\ Charge(L, at, r, f) <= c.left /\ u.left = c.left - Charge(L, at, r, f)
         \/ u.left = 0 /\ ~(Charge(L, at, r, f) <= c.left)
      /\ u.end \in {"filled", "no"} /\ (u.end = "no" <=> u.left # 0 /\ u.price # Limit(down))
      /\ (u.end = "no" => u.tick = Onto(m, down) /\ u.liquidity = ActiveIn(positions, u.tick) /\ Swaps(u))
  BY <1>2 DEF Swapped, ContractGone, GoneTo
<1>7. r = PriceAt(m) /\ r # Limit(down) /\ m # LastTick(down)
  <2>1. r # Limit(down)
    <3>1. SUFFICES ASSUME r = Limit(down) PROVE FALSE
      OBVIOUS
    <3>2. Heads(p, r, down)
      BY <1>3, <3>1, HeadsOn
    <3> QED
      BY <1>4, <3>2
  <2> QED
    BY <1>6, <2>1
<1>8. PICK w \in Nat, x \in Nat, y \in Nat, v \in Nat :
        /\ w = Charge(L, at, p, f) /\ x = Charge(L, from, p, g) /\ y = Charge(L, from, p, f) /\ y <= x
        /\ v = Charge(L, at, r, f) /\ v <= w
  <2>1. Charge(L, at, p, f) \in Nat
    BY <1>4, SomeCharge
  <2>2. Charge(L, from, p, g) \in Nat /\ Charge(L, from, p, f) \in Nat
    BY <1>3, SomeCharge
  <2>3. Charge(L, from, p, f) <= Charge(L, from, p, g)
    BY <1>2, <1>3, ChargeRises
  <2>4. Charge(L, at, r, f) \in Nat /\ Charge(L, at, r, f) <= Charge(L, at, p, f)
    BY <1>5, <1>6, WaysAre DEF Ways, ChargesAdd
  <2> QED
    BY <2>1, <2>2, <2>3, <2>4
<1>9. PICK R \in Nat, S \in Nat : R = MoreInTwoParts(f) /\ R > 0 /\ S = R * rest
  BY MoreIs, TimesNat
<1>10. b.left + S + w <= c.left + y
  BY <1>1, <1>2, <1>4, <1>8, <1>9 DEF Lead
<1>11. S + w <= c.left
  BY <1>2, <1>3, <1>8, <1>10
<1>12. u.price = r /\ u.left = c.left - v /\ u.calculated = c.calculated + Gain(L, at, r) /\ u.left \in Nat
  <2>1. v <= c.left
    BY <1>2, <1>8, <1>9, <1>11
  <2>2. u.price = r /\ u.left = c.left - v
    BY <1>6, <1>8, <2>1
  <2> QED
    BY <1>2, <1>6, <1>8, <2>1, <2>2
<1>13. /\ Ahead(Onto(m, down), down) = Ahead(c.tick, down) /\ ActiveIn(positions, Onto(m, down)) = L
       /\ WordOf(Onto(m, down), down) = WordOf(c.tick, down) + (IF down THEN -1 ELSE 1)
  BY <1>2, <1>7 DEF BorderOf
<1>14. Onward(t.tick, Onto(m, down), down) /\ Onto(m, down) \in Ticks /\ t.tick \in Ticks
  <2>1. Heads(PriceAt(m), p, down) /\ p # PriceAt(m)
    BY <1>5, <1>7
  <2> QED
    BY <1>3, <1>7, <2>1, BeyondTick DEF Placed
<1>15. Onward(Onto(m, down), tick, down) /\ Passed(Onto(m, down), tick, down) = k + 1 /\ k + 1 <= k + rest
  <2>1. Onward(Onto(m, down), c.tick, down)
    <3>1. c.tick \in Int /\ m \in Int /\ Follow(m, c.tick, down)
      BY <1>2, TicksAre DEF Swapped, StopsAt
    <3>2. CASE down
      BY <3>1, <3>2 DEF Onward, Onto, Follow
    <3>3. CASE ~down
      BY <3>1, <3>3 DEF Onward, Onto, Follow
    <3> QED
      BY <3>2, <3>3
  <2>2. Onward(c.tick, tick, down) /\ k = Passed(c.tick, tick, down) /\ Passed(z, tick, down) = k + rest
        /\ Onward(z, t.tick, down)
    BY <1>1, <1>2
  <2>3. Onward(Onto(m, down), tick, down)
    BY <1>1, <1>2, <1>14, <2>1, <2>2, OnwardIs
  <2>4. Passed(Onto(m, down), tick, down) = k + 1
    BY <1>1, <1>2, <1>13, <1>14, <2>1, <2>2, PassedOn
  <2>5. Onward(z, Onto(m, down), down)
    BY <1>14, <2>2, OnwardIs
  <2>6. Passed(Onto(m, down), tick, down) <= Passed(z, tick, down)
    BY <1>1, <1>14, <2>3, <2>5, PassedOn
  <2> QED
    BY <2>2, <2>3, <2>4, <2>6
<1>16. PICK l \in Nat, T \in Nat : rest = l + 1 /\ T = R * l /\ S = T + R
  <2>1. rest - 1 \in Nat /\ rest = (rest - 1) + 1
    BY <1>15
  <2>2. PICK l \in Nat : rest = l + 1
    BY <2>1
  <2>3. R * (l + 1) = R * l + R
    OBVIOUS
  <2>4. R * l \in Nat
    BY TimesNat
  <2> QED
    BY <1>9, <2>2, <2>3, <2>4
<1>17. u.left # 0
  BY <1>2, <1>8, <1>9, <1>11, <1>12, <1>16
<1>18. u.end = "no" /\ u.tick = Onto(m, down) /\ u.liquidity = L /\ Swaps(u)
  BY <1>6, <1>7, <1>12, <1>13, <1>17
<1>19. Lead(b, u, k + 1, T)
  <2>1. SUFFICES ASSUME NEW q \in Ratios, Heads(r, q, down)
                 PROVE  /\ b.left + T + Charge(L, r, q, f) <= u.left + Charge(L, from, q, f)
                        /\ b.calculated + Gain(L, from, q) <= u.calculated + Gain(L, r, q) + (k + 1)
    BY <1>2, <1>6, <1>12, Zenon DEF Lead
  <2>2. Heads(at, q, down) /\ Heads(from, q, down)
    BY <1>2, <1>6, <2>1, HeadsOn
  <2>3. PICK ca \in Nat, cr \in Nat, cf \in Nat, ga \in Nat, gr \in Nat, gf \in Nat, h \in Nat :
          /\ ca = Charge(L, at, q, f) /\ cr = Charge(L, r, q, f) /\ cf = Charge(L, from, q, f)
          /\ ga = Gain(L, at, q) /\ gr = Gain(L, r, q) /\ gf = Gain(L, from, q) /\ h = Gain(L, at, r)
          /\ v + cr <= ca + R /\ ga <= h + gr + 1
    <3>1. Ways(L, at, r, q, f)
      BY <1>6, <2>1, WaysAre
    <3>2. Charge(L, from, q, f) \in Nat /\ Gain(L, from, q) \in Nat
      BY <2>2, SomeCharge
    <3> QED
      BY <1>8, <1>9, <3>1, <3>2 DEF Ways, ChargesAdd, GainsAdd
  <2>4. b.left + S + ca <= c.left + cf /\ b.calculated + gf <= c.calculated + ga + k
    BY <1>1, <1>2, <1>9, <2>2, <2>3 DEF Lead
  <2>5. u.left = c.left - v /\ u.calculated = c.calculated + h
    BY <1>12, <2>3
  <2>6. b.left + T + cr <= u.left + cf
    BY <1>2, <1>8, <1>9, <1>16, <2>3, <2>4, <2>5
  <2>7. b.calculated + gf <= u.calculated + gr + (k + 1)
    BY <1>2, <2>3, <2>4, <2>5
  <2> QED
    BY <2>3, <2>6, <2>7
<1>20. Abreast(b, u)
  <2>1. Ahead(u.tick, b.down) = Ahead(b.tick, b.down) /\ u.liquidity = b.liquidity /\ u.down = b.down
        /\ Going(b) /\ b.calculated \in Nat
    BY <1>1, <1>2, <1>6, <1>13, <1>18 DEF Abreast
  <2>2. Heads(b.price, u.price, b.down)
    BY <1>2, <1>6, <1>12, HeadsOn
  <2> QED
    BY <1>18, <2>1, <2>2 DEF Abreast
<1>21. k + 1 = Passed(u.tick, tick, b.down) /\ Onward(u.tick, tick, b.down) /\ (k + 1) + l = k + rest
  BY <1>2, <1>15, <1>16, <1>18
<1>22. Lead(b, u, k + 1, MoreInTwoParts(u.fee) * l) /\ u.fee <= b.fee
  BY <1>2, <1>6, <1>9, <1>16, <1>19, Zenon
<1>23. KeepsUp(b, u, k + 1, l)
  BY <1>1, <1>18, <1>20, <1>21, <1>22, Zenon DEF KeepsUp
<1> QED
  BY <1>21, <1>23

(* Wherever the quote's turn leads, the contract follows.                  *)
LEMMA KeepUpTurn ==
    ASSUME Here, NEW b, NEW c, NEW k \in Nat, NEW rest \in Nat, KeepsUp(b, c, k, rest),
           NEW t, t = Turn(b), NEW u, u = ContractTurn(c),
           NEW z \in Ticks, Onward(z, t.tick, b.down), Passed(z, tick, b.down) = k + rest
    PROVE  \/ t.end # "no" /\ t.calculated <= u.calculated + (k + rest)
           \/ t.end = "no" /\ \E j \in Nat, l \in Nat : j + l = k + rest /\ KeepsUp(t, u, j, l)
           \/ \E j \in Nat, l \in Nat : j + l = k + rest /\ KeepsUp(b, u, j, l)
<1>1. AtHead /\ Abreast(b, c) /\ b.specified >= 0 /\ c.fee <= b.fee
      /\ Lead(b, c, k, MoreInTwoParts(c.fee) * rest)
  BY HereIs DEF KeepsUp
<1>2. PICK L \in 0..UMax, from \in Ratios, at \in Ratios, down \in BOOLEAN, f \in FeePips, g \in FeePips :
        /\ L = b.liquidity /\ from = b.price /\ at = c.price /\ down = b.down /\ f = c.fee /\ g = b.fee
        /\ b.tick \in Ticks /\ c.tick \in Ticks /\ b.left \in Int /\ c.left \in Nat
        /\ b.calculated \in Nat /\ c.calculated \in Nat /\ Heads(from, at, down)
        /\ c.liquidity = L /\ c.down = down /\ f <= g
        /\ Going(b) /\ Swaps(c) /\ Ahead(c.tick, down) = Ahead(b.tick, down)
        /\ Placed(c.price, c.tick, c.liquidity) /\ Inside(c.price)
  BY <1>1, AbreastIs DEF Abreast
<1>3. PICK m \in Ticks, r \in Ratios : Swapped(c, u, m, r)
  BY <1>1, <1>2, ContractTurns
<1>4. /\ u.calculated \in Nat /\ c.calculated <= u.calculated /\ u.calculated = c.calculated + Gain(L, at, u.price)
      /\ Heads(at, r, down) /\ r = Target(m, down) /\ StopsAt(m, c.tick, down) /\ OnTheWay(u.price, at, r, down)
  BY <1>2, <1>3 DEF Swapped, ContractGone, GoneTo
<1>5. PICK S \in Nat : S = MoreInTwoParts(c.fee) * rest /\ Lead(b, c, k, S)
  BY <1>1, <1>2, MoreIs, TimesNat
<1>6. CASE Ahead(b.tick, down) = {}
  <2>1. t.calculated = b.calculated /\ t.end \in {"dry", "limit"}
    BY <1>1, <1>2, <1>6, TurnStuck DEF Stuck
  <2>2. Heads(b.price, b.price, b.down) /\ Heads(b.price, c.price, b.down)
    BY <1>2, HeadsOn
  <2>3. b.calculated + Gain(L, from, from) <= c.calculated + k
    BY <1>1, <1>2, <1>5, <2>2, KeepUpBehind
  <2>4. Gain(L, from, from) = 0
    BY <1>2, StaysPut
  <2>5. b.calculated + 0 <= c.calculated + k
    BY <2>3, <2>4
  <2>6. t.calculated <= u.calculated + (k + rest)
    BY <1>2, <1>4, <2>1, <2>5
  <2> QED
    BY <2>1, <2>6
<1>7. CASE Ahead(b.tick, down) # {}
  <2>1. PICK next \in Ticks, to \in Ratios : Sold(t, b, next, to)
    BY <1>1, <1>2, <1>7, TurnSells
  <2>2. PICK p \in Ratios :
          /\ p = t.price /\ Heads(from, p, down) /\ Heads(p, to, down)
          /\ t.calculated = b.calculated + Gain(L, from, p) /\ Charge(L, from, p, g) <= b.left
          /\ to = Target(next, down) /\ Nearest(next, b.tick, down)
          /\ (t.end = "no" => p = to /\ to = PriceAt(next))
    BY <1>2, <2>1 DEF Sold, Arrives, OnTheWay
  <2>3. Nearest(next, c.tick, down) /\ Follow(next, c.tick, down)
    BY <1>1, <1>2, <2>2, SameNearest DEF Nearest
  <2>4. Heads(at, to, down)
    BY <1>2, <2>2, <2>3, TargetAhead
  <2>5. Gain(L, from, p) \in Nat
    BY <2>2, SomeCharge
  <2>6. CASE ~Heads(at, p, down)
    <3>1. Heads(p, at, down)
      BY <2>6, HeadsOn
    <3>2. b.calculated + Gain(L, from, p) <= c.calculated + k
      BY <1>1, <1>2, <1>5, <2>2, <3>1, KeepUpBehind
    <3>3. t.calculated <= u.calculated + (k + rest)
      BY <1>2, <1>4, <2>2, <2>5, <3>2
    <3>4. t.end # "no"
      BY <2>2, <2>4, <2>6
    <3> QED
      BY <3>3, <3>4
  <2>7. CASE Heads(at, p, down) /\ ~Heads(p, r, down)
    <3>1. m # next
      BY <1>4, <2>2, <2>7
    <3>2. BorderOf(m, c.tick, b.down)
      BY <1>1, <1>2, <1>4, <2>3, <3>1, NextOrBorder
    <3>3. Heads(c.price, t.price, b.down) /\ ~Heads(t.price, r, b.down)
      BY <1>2, <2>2, <2>7
    <3>4. \E j \in Nat, l \in Nat : j + l = k + rest /\ KeepsUp(b, u, j, l)
      BY <1>3, <2>1, <3>2, <3>3, KeepUpBorder
    <3> QED
      BY <3>4
  <2>8. CASE Heads(at, p, down) /\ Heads(p, r, down) /\ t.end = "no"
    <3>1. p = to /\ to = PriceAt(next)
      BY <2>2, <2>8
    <3>2. Heads(r, PriceAt(m), down) /\ PriceAt(m) \in Ratios
      BY <1>2, <1>4, TargetAhead, PricesAre DEF StopsAt
    <3>3. Heads(to, PriceAt(m), down)
      BY <2>8, <3>1, <3>2, HeadsOn
    <3>4. m = next
      <4>1. SUFFICES ASSUME m # next PROVE FALSE
        OBVIOUS
      <4>2. Heads(PriceAt(m), PriceAt(next), down) /\ PriceAt(m) # PriceAt(next)
        BY <1>1, <1>2, <1>4, <2>3, <4>1, NextOrBorder
      <4> QED
        BY <3>1, <3>2, <3>3, <4>2, HeadsOn
    <3>5. Swapped(c, u, next, r)
      BY <1>3, <3>4
    <3>6. \E j \in Nat, l \in Nat : j + l = k + rest /\ KeepsUp(t, u, j, l)
      BY <2>1, <2>8, <3>5, KeepUpCross
    <3> QED
      BY <2>8, <3>6
  <2>9. CASE Heads(at, p, down) /\ Heads(p, r, down) /\ t.end # "no"
    <3>1. PICK w \in Nat, x \in Nat, y \in Nat, G \in Nat, H \in Nat :
            /\ w = Charge(L, at, p, f) /\ x = Charge(L, from, p, g) /\ y = Charge(L, from, p, f)
            /\ G = Gain(L, from, p) /\ H = Gain(L, at, p) /\ y <= x
      <4>1. Charge(L, at, p, f) \in Nat /\ Gain(L, at, p) \in Nat
        BY <2>9, SomeCharge
      <4>2. Charge(L, from, p, g) \in Nat /\ Charge(L, from, p, f) \in Nat
        BY <2>2, SomeCharge
      <4>3. Charge(L, from, p, f) <= Charge(L, from, p, g)
        BY <1>2, <2>2, ChargeRises
      <4> QED
        BY <2>5, <4>1, <4>2, <4>3
    <3>2. b.left + S + w <= c.left + y /\ b.calculated + G <= c.calculated + H + k
      BY <1>2, <1>5, <2>9, <3>1 DEF Lead
    <3>3. x <= b.left
      BY <2>2, <3>1
    <3>4. w <= c.left
      BY <1>2, <3>1, <3>2, <3>3
    <3>5. Charge(c.liquidity, c.price, p, c.fee) <= c.left /\ Heads(c.price, p, c.down) /\ Heads(p, r, c.down)
      BY <1>2, <2>9, <3>1, <3>4
    <3>6. Heads(p, u.price, down)
      BY <1>1, <1>2, <1>3, <3>5, ContractReaches
    <3>7. u.price \in Ratios
      BY <1>4 DEF OnTheWay
    <3>8. GainsAdd(Gain(L, at, u.price), Gain(L, at, p), Gain(L, p, u.price))
      BY <2>9, <3>6, <3>7, WaysAre DEF Ways
    <3>9. PICK I \in Nat : I = Gain(L, at, u.price) /\ H <= I
      BY <3>1, <3>8 DEF GainsAdd
    <3>10. u.calculated = c.calculated + I /\ t.calculated = b.calculated + G
      BY <1>4, <2>2, <3>1, <3>9
    <3>11. t.calculated <= u.calculated + (k + rest)
      BY <1>2, <3>1, <3>2, <3>9, <3>10
    <3> QED
      BY <2>9, <3>11
  <2> QED
    BY <2>6, <2>7, <2>8, <2>9
<1> QED
  BY <1>6, <1>7

(* So the whole of the quote is paid, but for what its borders take.       *)
LEMMA NonePassed == ASSUME NEW t \in Ticks, NEW down \in BOOLEAN PROVE Passed(t, t, down) = 0
<1>1. t \in Int /\ t + 1 \in Int
  BY TicksAre
<1>2. PICK d \in Nat : d = WordTicks /\ d > 0
  BY WordTicksAre
<1>3. t \div d \in Int /\ (t + 1) \div d \in Int
  BY <1>1, <1>2, Quotients
<1>4. WordOf(t, down) \in Int
  BY <1>2, <1>3 DEF WordOf
<1>5. WordOf(t, down) - WordOf(t, down) = 0
  BY <1>4
<1> QED
  BY <1>5 DEF Passed, Abs

(* It begins so: the fee fetched is not below the one charged.             *)
LEMMA KeepUpStart ==
    ASSUME Here, NEW contract \in Contracts, contract.kind # "RamsesV2", NEW down \in BOOLEAN,
           NEW specified \in 0 .. Word - 1, NEW rest \in Nat,
           NEW b, b = Start(contract, down, specified), b.end = "no",
           NEW input \in Nat, input = specified + MoreInTwoParts(contract.charged[down]) * rest,
           NEW c, c = PaidStart(contract, down, input)
    PROVE  KeepsUp(b, c, 0, rest)
<1>1. AtHead /\ tick \in Ticks /\ price \in Ratios /\ specified \in 1 - Word .. Word - 1 /\ specified \in Nat
  BY HereIs, WordIs
<1>2. PICK f \in FeePips, R \in Nat, S \in Nat :
        f = contract.charged[down] /\ R = MoreInTwoParts(f) /\ S = R * rest /\ f <= FetchedFee(contract)
  BY ContractIs, MoreIs, TimesNat
<1>3. StartedWith(b, FetchedFee(contract), down, specified) /\ b.specified = specified /\ Going(b)
  BY <1>1, StartIs
<1>4. StartedWith(c, f, down, input) /\ (c.end = "no" => Swaps(c))
  BY <1>1, <1>2, PaidStartIs
<1>5. /\ b.fee = FetchedFee(contract) /\ b.down = down /\ b.price = price /\ b.tick = tick
      /\ b.liquidity = ActiveIn(positions, tick) /\ b.left = specified /\ b.calculated = 0
      /\ price # Limit(down) /\ specified # 0
  BY <1>3 DEF StartedWith
<1>6. /\ c.fee = f /\ c.down = down /\ c.price = price /\ c.tick = tick
      /\ c.liquidity = ActiveIn(positions, tick) /\ c.left = input /\ c.calculated = 0
      /\ c.end = IF price = Limit(down) THEN "error" ELSE IF input = 0 THEN "filled" ELSE "no"
  BY <1>4 DEF StartedWith
<1>7. input = specified + S /\ input # 0
  BY <1>1, <1>2, <1>5
<1>8. c.end = "no" /\ Swaps(c)
  BY <1>4, <1>5, <1>6, <1>7
<1>9. Abreast(b, c)
  BY <1>1, <1>3, <1>5, <1>6, <1>8, HeadsOn DEF Abreast
<1>10. PICK L \in 0..UMax : L = ActiveIn(positions, tick)
  BY <1>1, ActiveBounded DEF AtHead
<1>11. Lead(b, c, 0, S)
  <2>1. SUFFICES ASSUME NEW q \in Ratios, Heads(price, q, down)
                 PROVE  /\ specified + S + Charge(L, price, q, f) <= input + Charge(L, price, q, f)
                        /\ 0 + Gain(L, price, q) <= 0 + Gain(L, price, q) + 0
    BY <1>5, <1>6, <1>10, Zenon DEF Lead
  <2>2. PICK cq \in Nat, gq \in Nat : cq = Charge(L, price, q, f) /\ gq = Gain(L, price, q)
    BY <1>1, <2>1, SomeCharge
  <2>3. specified + S + cq <= input + cq
    BY <1>1, <1>2, <1>7
  <2>4. 0 + gq <= 0 + gq + 0
    OBVIOUS
  <2> QED
    BY <2>2, <2>3, <2>4
<1>12. 0 = Passed(c.tick, tick, b.down) /\ Onward(c.tick, tick, b.down)
  BY <1>1, <1>5, <1>6, NonePassed, OnwardIs
<1>13. Lead(b, c, 0, MoreInTwoParts(c.fee) * rest) /\ b.specified >= 0 /\ c.fee <= b.fee
  BY <1>1, <1>2, <1>3, <1>5, <1>6, <1>11
<1> QED
  BY <1>8, <1>9, <1>12, <1>13, Zenon DEF KeepsUp

(* With extra input for each border between the start and the end.         *)
LEMMA QuoteCovered ==
    ASSUME Here, NEW contract \in Contracts, contract.kind # "RamsesV2", NEW down \in BOOLEAN,
           NEW specified \in 0 .. Word - 1, NEW w, QuoteRun(w, contract, down, specified),
           NEW N \in 0..Turns, w[N].end # "no", \A n \in 0 .. N - 1 : w[n].end = "no",
           NEW E, E = Passed(w[N].tick, tick, down),
           NEW input, input = specified + MoreInTwoParts(contract.charged[down]) * E
    PROVE  /\ E \in Nat /\ input \in Nat
           /\ w[N].calculated <= Paid(contract, down, input).calculated + E
<1>1. /\ Turns \in Nat /\ AtHead /\ tick \in Ticks /\ specified \in Nat /\ specified \in 1 - Word .. Word - 1
  BY TurnsAre, HereIs, WordIs
<1>2. PICK z : z = w[N]
  OBVIOUS
<1>3. RunAt(z, N, contract, down, specified)
  BY <1>1, <1>2, RunHolds
<1>4. z.tick \in Ticks /\ z.calculated \in Nat /\ Onward(z.tick, tick, down)
  BY <1>3 DEF RunAt, Walks, Placed
<1>5. E \in Nat
  BY <1>1, <1>2, <1>4, OnwardIs, PassedOn
<1>6. input \in Nat
  <2>1. contract.charged[down] \in FeePips
    BY ContractIs
  <2>2. PICK R \in Nat, S \in Nat : R = MoreInTwoParts(contract.charged[down]) /\ S = R * E
    BY <1>5, <2>1, MoreIs, TimesNat
  <2> QED
    BY <1>1, <2>2
<1>7. PICK v : PaidRun(v, contract, down, input) /\ Paid(contract, down, input) = v[2 * Turns]
  BY PaidIs
<1>8. v[2 * Turns].end # "no" /\ v[2 * Turns].calculated \in Nat
  BY <1>6, <1>7, PaidEnds
<1>9. SUFFICES z.calculated <= v[2 * Turns].calculated + E
  BY <1>2, <1>5, <1>6, <1>7
<1>10. w[0] = Start(contract, down, specified) /\ \A n \in 0 .. Turns - 1 : w[n + 1] = QuoteOn(w[n])
  BY DEF QuoteRun
<1>11. v[0] = PaidStart(contract, down, input) /\ \A n \in 0 .. 2 * Turns - 1 : v[n + 1] = PaidOn(v[n])
  BY <1>7 DEF PaidRun
<1>12. CASE N = 0
  <2>1. StartedWith(z, FetchedFee(contract), down, specified)
    BY <1>1, <1>2, <1>10, <1>12, StartIs
  <2>2. z.calculated = 0
    BY <2>1 DEF StartedWith
  <2> QED
    BY <1>5, <1>8, <2>2
<1>13. CASE N # 0
  <2> DEFINE Ahd(n) == v[n].end = "no" /\ \E j \in 0 .. N - 1, k \in Nat, rest \in Nat :
                          k + rest = E /\ KeepsUp(w[j], v[n], k, rest)
             Wrong == {n \in 0 .. 2 * Turns : ~(z.calculated <= v[n].calculated + E \/ Ahd(n))}
  <2>1. Wrong = {}
    <3>1. SUFFICES ASSUME Wrong # {} PROVE FALSE
      OBVIOUS
    <3>2. PICK m \in Wrong : \A n \in Wrong : ~(n < m)
      <4>1. Wrong \in SUBSET Nat
        BY <1>1
      <4> HIDE DEF Wrong
      <4> QED
        BY <3>1, <4>1, SmallestNumber
    <3>3. m \in 0 .. 2 * Turns /\ ~(z.calculated <= v[m].calculated + E) /\ ~Ahd(m)
      OBVIOUS
    <3>4. CASE m = 0
      <4>1. 0 \in 0 .. N - 1 /\ w[0].end = "no"
        BY <1>1, <1>13
      <4>2. KeepsUp(w[0], v[0], 0, E)
        BY <1>5, <1>6, <1>10, <1>11, <4>1, KeepUpStart
      <4>3. v[0].end = "no" /\ 0 + E = E
        BY <1>5, <4>2 DEF KeepsUp
      <4>4. Ahd(0)
        BY <1>5, <4>1, <4>2, <4>3
      <4> QED
        BY <3>3, <3>4, <4>4
    <3>5. CASE m # 0
      <4>1. PICK n \in 0 .. 2 * Turns - 1 : n + 1 = m /\ n \in 0 .. 2 * Turns /\ n < m
        <5>1. m - 1 \in 0 .. 2 * Turns - 1 /\ (m - 1) + 1 = m /\ m - 1 \in 0 .. 2 * Turns /\ m - 1 < m
          BY <1>1, <3>3, <3>5
        <5> QED
          BY <5>1
      <4>2. z.calculated <= v[n].calculated + E \/ Ahd(n)
        BY <3>2, <4>1
      <4>3. v[n].calculated <= v[m].calculated
        BY <1>6, <1>7, <4>1, PaidRises
      <4>4. v[n].calculated \in Nat /\ v[m].calculated \in Nat
        BY <1>6, <1>7, <3>3, <4>1, PaidHolds DEF PaidAt
      <4>5. PICK j \in 0 .. N - 1, k \in Nat, rest \in Nat : k + rest = E /\ KeepsUp(w[j], v[n], k, rest)
        <5>1. ~(z.calculated <= v[n].calculated + E)
          BY <1>4, <1>5, <3>3, <4>3, <4>4
        <5> QED
          BY <4>2, <5>1
      <4>6. PICK b, c, t, u : b = w[j] /\ c = v[n] /\ t = w[j + 1] /\ u = v[m]
        OBVIOUS
      <4>7. KeepsUp(b, c, k, rest) /\ c.end = "no" /\ b.end = "no"
        BY <4>5, <4>6 DEF KeepsUp
      <4>8. t = Turn(b) /\ u = ContractTurn(c)
        <5>1. j \in 0 .. Turns - 1
          BY <1>1
        <5>2. t = QuoteOn(b) /\ u = PaidOn(c)
          BY <1>10, <1>11, <4>1, <4>6, <5>1
        <5> QED
          BY <4>7, <5>2 DEF QuoteOn, PaidOn
      <4>9. b.down = down
        <5>1. RunAt(b, j, contract, down, specified)
          BY <1>1, <4>6, RunHolds
        <5> QED
          BY <5>1 DEF RunAt
      <4>10. Onward(z.tick, t.tick, down)
        <5>1. j + 1 \in 0..Turns /\ N \in j + 1 .. Turns
          BY <1>1
        <5> QED
          BY <1>1, <1>2, <4>6, <5>1, RunRises
      <4>11. Onward(z.tick, t.tick, b.down) /\ Passed(z.tick, tick, b.down) = k + rest
        BY <1>2, <4>5, <4>9, <4>10
      <4>12. CASE t.end # "no" /\ t.calculated <= u.calculated + (k + rest)
        <5>1. j + 1 = N
          <6>1. SUFFICES ASSUME j + 1 # N PROVE FALSE
            OBVIOUS
          <6>2. j + 1 \in 0 .. N - 1
            BY <1>1, <6>1
          <6> QED
            BY <4>6, <4>12, <6>2
        <5> QED
          BY <1>2, <3>3, <4>5, <4>6, <4>12, <5>1
      <4>13. CASE t.end = "no" /\ \E i \in Nat, l \in Nat : i + l = k + rest /\ KeepsUp(t, u, i, l)
        <5>1. j + 1 \in 0 .. N - 1
          <6>1. j + 1 # N
            BY <4>6, <4>13
          <6> QED
            BY <1>1, <6>1
        <5>2. PICK i \in Nat, l \in Nat : i + l = E /\ KeepsUp(w[j + 1], v[m], i, l)
          BY <4>5, <4>6, <4>13
        <5>3. v[m].end = "no"
          BY <5>2 DEF KeepsUp
        <5>4. Ahd(m)
          BY <5>1, <5>2, <5>3
        <5> QED
          BY <3>3, <5>4
      <4>14. CASE \E i \in Nat, l \in Nat : i + l = k + rest /\ KeepsUp(b, u, i, l)
        <5>1. PICK i \in Nat, l \in Nat : i + l = E /\ KeepsUp(w[j], v[m], i, l)
          BY <4>5, <4>6, <4>14
        <5>2. v[m].end = "no"
          BY <5>1 DEF KeepsUp
        <5>3. Ahd(m)
          BY <5>1, <5>2
        <5> QED
          BY <3>3, <5>3
      <4>15. \/ t.end # "no" /\ t.calculated <= u.calculated + (k + rest)
             \/ t.end = "no" /\ \E i \in Nat, l \in Nat : i + l = k + rest /\ KeepsUp(t, u, i, l)
             \/ \E i \in Nat, l \in Nat : i + l = k + rest /\ KeepsUp(b, u, i, l)
        BY <1>4, <4>7, <4>8, <4>11, KeepUpTurn
      <4> QED
        BY <4>12, <4>13, <4>14, <4>15
    <3> QED
      BY <3>4, <3>5
  <2>2. 2 * Turns \in 0 .. 2 * Turns
    BY <1>1
  <2>3. z.calculated <= v[2 * Turns].calculated + E \/ Ahd(2 * Turns)
    BY <2>1, <2>2
  <2> QED
    BY <1>8, <2>3
<1> QED
  BY <1>12, <1>13
-----------------------------------------------------------------------------
(* A quote is where the loop of Result is after as many turns.             *)

(* Where every loop of Result from the same start is after q's turns.      *)
CameBy(q) ==
    \A w : QuoteRun(w, q.contract, q.down, q.specified) =>
        w[q.turns] = q /\ \A n \in 0 .. q.turns - 1 : w[n].end = "no"
Quotes(q) ==
    /\ q.contract \in Contracts /\ q.down \in BOOLEAN /\ q.specified \in Specified /\ q.turns \in 0..Turns
    /\ CameBy(q)
QuoteCame == quote # Idle => Quotes(quote)

(* At the start,                                                           *)
LEMMA StartCame ==
    ASSUME NEW contract \in Contracts, NEW down \in BOOLEAN, NEW specified \in Specified,
           NEW q, q = Start(contract, down, specified)
    PROVE  Quotes(q)
<1>1. q.contract = contract /\ q.down = down /\ q.specified = specified /\ q.turns = 0
  BY DEF Start
<1>2. Turns \in Nat
  BY TurnsAre
<1>3. CameBy(q)
  BY <1>1, <1>2 DEF CameBy, QuoteRun
<1> QED
  BY <1>1, <1>2, <1>3 DEF Quotes

(* after one more turn,                                                    *)
LEMMA TurnCame ==
    ASSUME AtHead, NEW q, Quotes(q), q.end = "no", Going(q), NEW t, t = Turn(q)
    PROVE  Quotes(t)
<1>1. \E next \in Ticks, to \in Ratios : \E step : TurnTook(t, q, next, to, step)
  BY TurnIs
<1>2. /\ t.contract = q.contract /\ t.down = q.down /\ t.specified = q.specified
      /\ t.turns = q.turns + 1 /\ t.turns \in 0..Turns
  BY <1>1 DEF TurnTook, TurnedWell, Walks
<1>3. q.turns \in 0..Turns /\ CameBy(q) /\ Turns \in Nat
  BY TurnsAre DEF Quotes
<1>4. CameBy(t)
  <2>1. SUFFICES ASSUME NEW w, QuoteRun(w, q.contract, q.down, q.specified)
                 PROVE  w[t.turns] = t /\ \A n \in 0 .. t.turns - 1 : w[n].end = "no"
    BY <1>2, Zenon DEF CameBy
  <2>2. w[q.turns] = q /\ \A n \in 0 .. q.turns - 1 : w[n].end = "no"
    BY <1>3, <2>1, Zenon DEF CameBy
  <2>3. q.turns \in 0 .. Turns - 1
    BY <1>2, <1>3
  <2>4. w[q.turns + 1] = QuoteOn(w[q.turns])
    BY <2>1, <2>3 DEF QuoteRun
  <2>5. w[t.turns] = t
    BY <1>2, <2>2, <2>4 DEF QuoteOn
  <2>6. ASSUME NEW n \in 0 .. t.turns - 1 PROVE w[n].end = "no"
    <3>1. n \in 0 .. q.turns - 1 \/ n = q.turns
      BY <1>2, <1>3
    <3> QED
      BY <2>2, <3>1
  <2> QED
    BY <2>5, <2>6
<1> QED
  BY <1>2, <1>4 DEF Quotes

(* while the quote stays,                                                  *)
LEMMA QuotesStay ==
    ASSUME UNCHANGED vars, NEW q, Quotes(q), quote' = q PROVE Quotes(quote)'
<1>1. pool' = pool
  BY DEF vars, chain
<1>2. ASSUME NEW s PROVE Turn(s)' = Turn(s)
  <2>1. \A t, down : Ahead(t, down)' = Ahead(t, down)
    BY <1>1 DEF Ahead
  <2>2. \A t, down : NextTick(t, down)' = NextTick(t, down)
    BY <2>1 DEF NextTick
  <2>3. \A t, next : Crossed(t, next)' = Crossed(t, next)
    BY <1>1, <2>1 DEF Crossed
  <2>4. \A t, from, next : Moved(t, from, next)' = Moved(t, from, next)
    BY <2>3 DEF Moved
  <2>5. \A t, next, step : Settled(t, next, step)' = Settled(t, next, step)
    BY <2>4 DEF Settled
  <2>6. \A t, next : TurnTo(t, next)' = TurnTo(t, next)
    BY <2>5 DEF TurnTo
  <2> QED
    BY <2>2, <2>6 DEF Turn
<1>3. \A s : QuoteOn(s)' = QuoteOn(s)
  BY <1>2 DEF QuoteOn
<1>4. \A contract, down, specified : Start(contract, down, specified)' = Start(contract, down, specified)
  BY <1>1 DEF Start
<1>5. \A w, contract, down, specified :
        QuoteRun(w, contract, down, specified)' <=> QuoteRun(w, contract, down, specified)
  BY <1>3, <1>4 DEF QuoteRun
<1>6. CameBy(q)
  BY DEF Quotes
<1>7. CameBy(quote)'
  BY <1>5, <1>6 DEF CameBy
<1> QED
  BY <1>7 DEF Quotes

(* and so after each step.                                                 *)
LEMMA QuoteCameStep ==
    ASSUME PoolsInv, QuoteInv, QuoteCame, [PoolsNext]_poolVars PROVE QuoteCame'
<1>1. Idle.end = "idle"
  BY DEF Idle
<1>2. ASSUME UNCHANGED <<vars, quote>> PROVE QuoteCame'
  <2>1. SUFFICES ASSUME quote # Idle PROVE QuoteCame'
    BY <1>2 DEF QuoteCame, Idle
  <2>2. Quotes(quote)
    BY <2>1 DEF QuoteCame
  <2>3. Quotes(quote)'
    BY <1>2, <2>2, QuotesStay
  <2> QED
    BY <2>3 DEF QuoteCame
<1>3. ASSUME kind = "UniswapV2", UNCHANGED quote PROVE QuoteCame'
  BY <1>3 DEF QuoteInv, QuoteCame, Idle
<1>4. ASSUME kind = "UniswapV3", QuoteNext PROVE QuoteCame'
  <2>0. FollowingInv
    BY <1>4 DEF PoolsInv
  <2>1. CASE quote = Idle /\ UNCHANGED quote
    BY <2>1 DEF QuoteCame, Idle
  <2>2. ASSUME NEW down \in BOOLEAN, NEW specified \in Specified, NEW contract \in Contracts,
               BeginQuote(contract, down, specified)
        PROVE  QuoteCame'
    <3>1. UNCHANGED vars /\ quote' = Start(contract, down, specified)
      BY <2>2 DEF BeginQuote
    <3>2. Quotes(Start(contract, down, specified))
      BY StartCame
    <3>3. Quotes(quote)'
      BY <3>1, <3>2, QuotesStay
    <3> QED
      BY <3>3 DEF QuoteCame
  <2>3. CASE QuoteTurn
    <3>1. quote.end = "no" /\ UNCHANGED vars /\ quote' = Turn(quote)
      BY <2>3 DEF QuoteTurn
    <3>2. InStepNow /\ QuotedWell(quote) /\ Quotes(quote)
      BY <1>1, <3>1 DEF QuoteInv, QuoteCame
    <3>3. AtHead
      BY <2>0, <3>2, FollowingHolds, NowSound, FetchedNow DEF InStep, InStepNow, AtHead
    <3>4. Going(quote)
      BY <3>1, <3>2 DEF QuotedWell
    <3>5. Quotes(Turn(quote))
      BY <3>1, <3>2, <3>3, <3>4, TurnCame
    <3>6. Quotes(quote)'
      BY <3>1, <3>5, QuotesStay
    <3> QED
      BY <3>6 DEF QuoteCame
  <2>4. CASE EndQuote
    BY <2>4 DEF EndQuote, QuoteCame, Idle
  <2> QED
    BY <1>4, <2>1, <2>2, <2>3, <2>4 DEF QuoteNext
<1> QED
  <2>1. CASE PoolsNext
    BY <1>3, <1>4, <2>1 DEF PoolsNext
  <2>2. CASE UNCHANGED poolVars
    BY <1>2, <2>2 DEF poolVars, quoteVars
  <2> QED
    BY <2>1, <2>2

(* And when it has ended it is the result.                                 *)
LEMMA QuoteResult ==
    ASSUME Quotes(quote), quote.end # "no",
           NEW w, QuoteRun(w, quote.contract, quote.down, quote.specified)
    PROVE  /\ w[quote.turns] = quote /\ w[Turns] = quote
           /\ \A n \in 0 .. quote.turns - 1 : w[n].end = "no"
<1>1. quote.turns \in 0..Turns /\ CameBy(quote) /\ Turns \in Nat
  BY TurnsAre DEF Quotes
<1>2. w[quote.turns] = quote /\ \A n \in 0 .. quote.turns - 1 : w[n].end = "no"
  BY <1>1, Zenon DEF CameBy
<1>3. Turns \in quote.turns .. Turns
  BY <1>1
<1>4. w[Turns] = w[quote.turns]
  BY <1>1, <1>2, <1>3, RunRests
<1> QED
  BY <1>2, <1>4
-----------------------------------------------------------------------------
(* The measured factor. *)

(* The constants of the measurement.                                       *)
RamsesIs == RamsesFactor \in Nat /\ RamsesFactor > 0 /\ RamsesFactor < Word /\ Word \in Nat /\ Measured \in Nat

(* By QuoteAssumption.                                                     *)
LEMMA RamsesHolds == RamsesIs
<1>1. Word \in Nat
  BY WordIs
<1> QED
  BY <1>1, QuoteAssumption DEF RamsesIs

(* The quotient less one keeps the estimate below what is paid, unless the *)
(* quotient is 0.                                                          *)
LEMMA FactorIs ==
    ASSUME Here, NEW contract \in Contracts, Measured \in 0 .. Word - 1, NEW down \in BOOLEAN,
           NEW factor, factor = MeasuredFactor(contract, down)
    PROVE  \E out \in Nat, estimate \in Nat :
             /\ out = Paid(contract, down, Measured).calculated
             /\ estimate = Result(contract, down, Measured).calculated
             /\ factor \in Nat
             /\ estimate # 0 /\ out = estimate => factor = RamsesFactor
             /\ estimate # 0 /\ out # estimate /\ estimate <= out * RamsesFactor =>
                  \E x \in Nat : factor <= x /\ estimate * (x + 1) <= out * RamsesFactor
<1>1. RamsesIs /\ Turns \in Nat
  BY RamsesHolds, TurnsAre
<1>2. PICK w : QuoteRun(w, contract, down, Measured) /\ Result(contract, down, Measured) = w[Turns]
  BY ResultIs
<1>3. PICK v : PaidRun(v, contract, down, Measured) /\ Paid(contract, down, Measured) = v[2 * Turns]
  BY PaidIs
<1>4. Measured \in 1 - Word .. Word - 1 /\ Measured \in Nat
  BY <1>1 DEF RamsesIs
<1>5. RunAt(w[Turns], Turns, contract, down, Measured)
  BY <1>1, <1>2, <1>4, RunHolds
<1>6. PICK estimate \in Nat : estimate = Result(contract, down, Measured).calculated
  BY <1>2, <1>5 DEF RunAt
<1>7. PICK out \in Nat : out = Paid(contract, down, Measured).calculated
  BY <1>3, <1>4, PaidEnds
<1>8. PICK a \in Nat, d \in Nat : d = Word /\ d > 0 /\ a = out * RamsesFactor
  BY <1>1, TimesNat DEF RamsesIs
<1>9. factor = IF estimate = 0 THEN d - 1
               ELSE IF out = estimate THEN RamsesFactor ELSE (a \div estimate - 1) % d
  BY <1>6, <1>7, <1>8 DEF MeasuredFactor
<1>10. CASE estimate = 0
  BY <1>6, <1>7, <1>8, <1>9, <1>10
<1>11. CASE estimate # 0 /\ out = estimate
  BY <1>1, <1>6, <1>7, <1>9, <1>11 DEF RamsesIs
<1>12. CASE estimate # 0 /\ out # estimate
  <2>0. /\ a \div estimate \in Int /\ a % estimate \in 0 .. estimate - 1
        /\ a = (a \div estimate) * estimate + (a % estimate)
    BY <1>12, Quotients
  <2>10. PICK q : q \in Int /\ q = a \div estimate
    BY <2>0
  <2>1. q \in Int /\ q = a \div estimate /\ a = q * estimate + (a % estimate) /\ a % estimate \in 0 .. estimate - 1
    BY <2>0, <2>10
  <2>2. factor = (q - 1) % d /\ factor \in 0 .. d - 1
    <3>1. q - 1 \in Int
      BY <2>1
    <3>2. (q - 1) % d \in 0 .. d - 1
      BY <1>8, <3>1, Quotients
    <3>3. factor = (q - 1) % d
      BY <1>9, <1>12, <2>1, Zenon
    <3> QED
      BY <3>2, <3>3
  <2>3. ASSUME estimate <= a
        PROVE  \E x \in Nat : factor <= x /\ estimate * (x + 1) <= a
    <3>1. q > 0
      <4>1. SUFFICES ASSUME q <= 0 PROVE FALSE
        BY <2>1
      <4>2. q * estimate <= 0
        <5>1. -q \in Nat
          BY <2>1, <4>1
        <5>2. (-q) * estimate \in Nat
          BY <5>1, TimesNat
        <5>3. (-q) * estimate = -(q * estimate)
          BY <2>1
        <5>4. q * estimate \in Int
          BY <2>1
        <5> QED
          BY <5>2, <5>3, <5>4
      <4>3. a < estimate
        <5>1. PICK n \in Int : n = q * estimate /\ n <= 0
          BY <2>1, <4>2
        <5> QED
          BY <2>1, <5>1
      <4> QED
        BY <1>8, <2>3, <4>3
    <3>2. PICK x \in Nat : x = q - 1
      BY <2>1, <3>1
    <3>3. x + 1 = q
      BY <2>1, <3>2
    <3>4. factor <= x
      <4>0. x \div d \in Nat /\ x % d \in 0 .. d - 1 /\ x = (x \div d) * d + (x % d)
        BY <1>8, <3>2, Quotients
      <4>10. PICK k \in Nat : k = x \div d
        BY <4>0
      <4>1. x = k * d + (x % d) /\ x % d \in 0 .. d - 1
        BY <4>0, <4>10
      <4>2. factor = x % d
        BY <2>2, <3>2
      <4>3. PICK n \in Nat : n = k * d
        BY <1>8, <4>1, TimesNat
      <4> QED
        BY <3>2, <4>1, <4>2, <4>3
    <3>5. estimate * q <= a
      <4>1. PICK n \in Int : n = q * estimate
        BY <2>1
      <4>2. estimate * q = q * estimate
        BY <2>1
      <4> QED
        BY <2>1, <4>1, <4>2
    <3> QED
      BY <3>2, <3>3, <3>4, <3>5
  <2>4. factor \in Nat
    BY <1>8, <2>2
  <2> QED
    BY <1>6, <1>7, <1>8, <1>12, <2>3, <2>4
<1> QED
  BY <1>10, <1>11, <1>12

(* Of both directions the lesser factor, or the one that changes nothing   *)
(* where neither is an estimate.                                           *)
LEMMA ConversionIs ==
    ASSUME Here, NEW contract \in Contracts, Measured \in 0 .. Word - 1, NEW down \in BOOLEAN
    PROVE  \E c \in Nat :
             /\ c = RatioConversionFactor(contract)
             /\ c <= MeasuredFactor(contract, down) \/ (MeasuredFactor(contract, down) = Word - 1 /\ c = RamsesFactor)
<1>1. RamsesIs
  BY RamsesHolds
<1>2. \A d \in BOOLEAN : MeasuredFactor(contract, d) \in Nat
  BY FactorIs
<1>3. PICK a \in Nat, b \in Nat : a = MeasuredFactor(contract, TRUE) /\ b = MeasuredFactor(contract, FALSE)
  BY <1>2
<1>4. {MeasuredFactor(contract, d) : d \in BOOLEAN} = {a, b}
  BY <1>3
<1>5. RatioConversionFactor(contract) = IF {a, b} = {Word - 1} THEN RamsesFactor ELSE Min({a, b})
  BY <1>4 DEF RatioConversionFactor
<1>6. Min({a, b}) \in Nat /\ Min({a, b}) <= a /\ Min({a, b}) <= b
  <2>1. CASE a <= b
    BY <2>1, MinMaxOfTwo
  <2>2. CASE b <= a
    BY <2>2, MinMaxOfTwo
  <2> QED
    BY <2>1, <2>2
<1>7. MeasuredFactor(contract, down) \in {a, b}
  BY <1>3
<1>8. CASE {a, b} = {Word - 1}
  <2>1. MeasuredFactor(contract, down) = Word - 1
    BY <1>7, <1>8
  <2>2. RatioConversionFactor(contract) = RamsesFactor
    BY <1>5, <1>8
  <2> QED
    BY <1>1, <2>1, <2>2 DEF RamsesIs
<1>9. CASE {a, b} # {Word - 1}
  <2>1. RatioConversionFactor(contract) = Min({a, b})
    BY <1>5, <1>9
  <2> QED
    BY <1>6, <1>7, <2>1
<1> QED
  BY <1>8, <1>9

(* A factor at most the quotient of what is paid, times the estimate, is   *)
(* at most what is paid.                                                   *)
LEMMA RamsesPaid ==
    ASSUME Here, NEW contract \in Contracts, Measured \in 0 .. Word - 1, NEW down \in BOOLEAN,
           NEW out, out = Paid(contract, down, Measured).calculated,
           NEW estimate, estimate = Result(contract, down, Measured).calculated,
           estimate <= out * RamsesFactor
    PROVE  (estimate * RatioConversionFactor(contract)) \div RamsesFactor <= out
<1>1. PICK r \in Nat, word \in Nat : r = RamsesFactor /\ r > 0 /\ word = Word /\ r < word
  BY RamsesHolds DEF RamsesIs
<1>2. PICK o \in Nat, e \in Nat, factor \in Nat :
        /\ o = out /\ e = estimate /\ factor = MeasuredFactor(contract, down)
        /\ (e # 0 /\ o = e => factor = r)
        /\ (e # 0 /\ o # e => \E x \in Nat : factor <= x /\ e * (x + 1) <= o * r)
  <2>1. PICK f : f = MeasuredFactor(contract, down)
    OBVIOUS
  <2>2. PICK o \in Nat, e \in Nat :
          /\ o = Paid(contract, down, Measured).calculated /\ e = Result(contract, down, Measured).calculated
          /\ f \in Nat
          /\ (e # 0 /\ o = e => f = RamsesFactor)
          /\ (e # 0 /\ o # e /\ e <= o * RamsesFactor => \E x \in Nat : f <= x /\ e * (x + 1) <= o * RamsesFactor)
    BY <2>1, FactorIs
  <2>3. e <= o * RamsesFactor
    BY <2>2
  <2> QED
    BY <1>1, <2>1, <2>2, <2>3
<1>3. PICK c \in Nat :
        c = RatioConversionFactor(contract) /\ (c <= factor \/ (factor = word - 1 /\ c = r))
  BY <1>1, <1>2, ConversionIs
<1>4. PICK n \in Nat, a \in Nat : n = e * c /\ a = o * r
  BY TimesNat
<1>5. n <= a
  <2>1. CASE e = 0
    <3>1. 0 * c = 0
      OBVIOUS
    <3> QED
      BY <1>4, <2>1, <3>1
  <2>2. CASE e # 0 /\ o = e
    <3>1. c <= r
      BY <1>1, <1>2, <1>3, <2>2
    <3> QED
      BY <1>1, <1>4, <2>2, <3>1, TimesMonotone
  <2>3. CASE e # 0 /\ o # e
    <3>1. PICK x \in Nat : factor <= x /\ e * (x + 1) <= a
      BY <1>2, <1>4, <2>3
    <3>2. c <= x + 1
      BY <1>1, <1>3, <3>1
    <3>3. PICK k \in Nat : k = e * (x + 1) /\ n <= k
      <4>1. x + 1 \in Nat
        BY <3>1
      <4> QED
        BY <1>4, <3>2, <4>1, TimesNat, TimesMonotone
    <3> QED
      BY <3>1, <3>3
  <2> QED
    BY <2>1, <2>2, <2>3
<1>6. n \div r <= a \div r
  BY <1>1, <1>5, FloorsOfInts
<1>7. a \div r = o
  BY <1>1, <1>4, QuotientIs
<1> QED
  BY <1>1, <1>2, <1>3, <1>4, <1>6, <1>7
-----------------------------------------------------------------------------
(* A quote is made of a pool in step.                                      *)
LEMMA QuotedHere ==
    ASSUME PoolsInv, QuoteInv, QuoteCame, quote # Idle
    PROVE  Here /\ Quotes(quote) /\ quote.specified \in 1 - Word .. Word - 1
<1>1. FollowingInv /\ InStepNow /\ Quotes(quote)
  BY DEF PoolsInv, QuoteInv, QuoteCame
<1>2. AtHead /\ <<price, tick>> \in Slots
  BY <1>1, FollowingHolds, NowSound, FetchedNow DEF InStep, InStepNow, AtHead
<1>3. quote.specified \in 1 - Word .. Word - 1
  BY <1>1, QuoteAssumption DEF Quotes
<1> QED
  BY <1>1, <1>2, <1>3 DEF Here

(* From QuoteCovered, and from RamsesPaid for the amount measured.         *)
LEMMA QuotePaidHolds == ASSUME PoolsInv, QuoteInv, QuoteCame PROVE QuotePaid
<1>1. SUFFICES ASSUME Ended, quote.specified >= 0
               PROVE  /\ quote.contract.kind # "RamsesV2" =>
                           quote.calculated <= WordsPassed
                             + PaidFor(quote.specified
                                 + WordsPassed * MoreInTwoParts(quote.contract.charged[quote.down]))
                      /\ /\ quote.contract.kind = "RamsesV2" /\ quote.specified = Measured
                         /\ quote.calculated <= PaidFor(Measured) * RamsesFactor
                         => Quoted <= PaidFor(Measured)
  BY DEF QuotePaid
<1>2. quote # Idle /\ quote.end # "no"
  BY <1>1 DEF Ended, Idle
<1>3. Here /\ Quotes(quote) /\ quote.specified \in 0 .. Word - 1
  BY <1>1, <1>2, QuotedHere
<1>4. PICK contract \in Contracts, down \in BOOLEAN, specified \in 0 .. Word - 1, N \in 0..Turns :
        /\ contract = quote.contract /\ down = quote.down /\ specified = quote.specified /\ N = quote.turns
  BY <1>3 DEF Quotes
<1>5. PICK w : QuoteRun(w, contract, down, specified) /\ Result(contract, down, specified) = w[Turns]
  BY ResultIs
<1>6. w[N] = quote /\ w[Turns] = quote /\ \A n \in 0 .. N - 1 : w[n].end = "no"
  BY <1>2, <1>3, <1>4, <1>5, QuoteResult
<1>7. ASSUME contract.kind # "RamsesV2"
      PROVE  quote.calculated <= WordsPassed
                + PaidFor(specified + WordsPassed * MoreInTwoParts(contract.charged[down]))
  <2>1. PICK E : E = Passed(quote.tick, tick, down)
    OBVIOUS
  <2>2. WordsPassed = E
    BY <1>3, <1>4, <2>1, HereIs DEF WordsPassed, Passed
  <2>3. PICK input : input = specified + MoreInTwoParts(contract.charged[down]) * E
    OBVIOUS
  <2>4. E \in Nat /\ input \in Nat /\ quote.calculated <= Paid(contract, down, input).calculated + E
    BY <1>2, <1>3, <1>4, <1>5, <1>6, <1>7, <2>1, <2>3, QuoteCovered
  <2>5. input = specified + E * MoreInTwoParts(contract.charged[down])
    <3>1. MoreInTwoParts(contract.charged[down]) \in Nat
      BY ContractIs, MoreIs
    <3>2. MoreInTwoParts(contract.charged[down]) * E = E * MoreInTwoParts(contract.charged[down])
      BY <2>4, <3>1, TimesNat
    <3> QED
      BY <2>3, <3>2
  <2>6. PICK paid \in Nat : paid = Paid(contract, down, input).calculated
    <3>1. PICK v : PaidRun(v, contract, down, input) /\ Paid(contract, down, input) = v[2 * Turns]
      BY PaidIs
    <3> QED
      BY <1>3, <2>4, <3>1, PaidEnds
  <2>7. PaidFor(input) = paid
    BY <1>4, <2>6 DEF PaidFor
  <2>8. quote.calculated <= E + paid
    BY <2>4, <2>6
  <2> QED
    BY <2>2, <2>5, <2>7, <2>8
<1>8. ASSUME contract.kind = "RamsesV2", specified = Measured,
             quote.calculated <= PaidFor(Measured) * RamsesFactor
      PROVE  Quoted <= PaidFor(Measured)
  <2>1. PaidFor(Measured) = Paid(contract, down, Measured).calculated
    BY <1>4 DEF PaidFor
  <2>2. quote.calculated = Result(contract, down, Measured).calculated
    BY <1>5, <1>6, <1>8
  <2>3. Measured \in 0 .. Word - 1
    BY <1>4, <1>8
  <2>4. Quoted = (quote.calculated * RatioConversionFactor(contract)) \div RamsesFactor
    BY <1>4, <1>8 DEF Quoted
  <2> QED
    BY <1>3, <1>8, <2>1, <2>2, <2>3, <2>4, RamsesPaid
<1> QED
  BY <1>4, <1>7, <1>8
-----------------------------------------------------------------------------
(* At the same fee the quote keeps up with the contract, which only loses  *)
(* where it stops.                                                         *)

(* The contract has no more left and has given no more, than the quote at  *)
(* the contract's price.                                                   *)
Owes(b, c) ==
    \A q \in Ratios : Heads(c.price, q, b.down) =>
        /\ c.left + Charge(b.liquidity, b.price, q, c.fee)
             <= b.left + Charge(b.liquidity, c.price, q, c.fee)
        /\ c.calculated + Gain(b.liquidity, c.price, q)
             <= b.calculated + Gain(b.liquidity, b.price, q)
Matches(b, c) ==
    Abreast(b, c) /\ c.end = "no" /\ b.specified >= 0 /\ c.fee = b.fee /\ Owes(b, c)

(* A border costs the contract only.                                       *)
LEMMA MatchBorder ==
    ASSUME Here, NEW b, NEW c, Matches(b, c),
           NEW u, NEW m \in Ticks, NEW r \in Ratios, Swapped(c, u, m, r), u.end = "no",
           BorderOf(m, c.tick, b.down)
    PROVE  Matches(b, u)
<1>1. AtHead /\ Abreast(b, c) /\ b.specified >= 0 /\ c.fee = b.fee /\ Owes(b, c)
  BY HereIs DEF Matches
<1>2. PICK L \in 0..UMax, from \in Ratios, at \in Ratios, down \in BOOLEAN, f \in FeePips :
        /\ L = b.liquidity /\ from = b.price /\ at = c.price /\ down = b.down /\ f = c.fee
        /\ b.tick \in Ticks /\ c.tick \in Ticks /\ b.left \in Int /\ c.left \in Nat
        /\ b.calculated \in Nat /\ c.calculated \in Nat /\ Heads(from, at, down)
        /\ c.liquidity = L /\ c.down = down /\ L = ActiveIn(positions, c.tick)
        /\ Going(b) /\ Ahead(c.tick, down) = Ahead(b.tick, down)
  BY <1>1, AbreastIs DEF Abreast
<1>3. /\ Heads(at, r, down) /\ m # LastTick(down) /\ u.price = r
      /\ u.tick = Onto(m, down) /\ u.liquidity = ActiveIn(positions, u.tick) /\ Swaps(u)
      /\ u.calculated = c.calculated + Gain(L, at, r) /\ u.fee = f /\ u.down = down /\ u.left # 0
      /\ u.left = c.left - Charge(L, at, r, f)
  BY <1>2 DEF Swapped, ContractGone, GoneTo
<1>4. Ahead(u.tick, down) = Ahead(c.tick, down) /\ u.liquidity = L
  BY <1>2, <1>3 DEF BorderOf
<1>5. Abreast(b, u)
  <2>1. Heads(from, r, down)
    BY <1>2, <1>3, HeadsOn
  <2> QED
    BY <1>2, <1>3, <1>4, <2>1 DEF Abreast
<1>6. Owes(b, u)
  <2>1. SUFFICES ASSUME NEW q \in Ratios, Heads(r, q, down)
                 PROVE  /\ u.left + Charge(L, from, q, f) <= b.left + Charge(L, r, q, f)
                        /\ u.calculated + Gain(L, r, q) <= b.calculated + Gain(L, from, q)
    BY <1>2, <1>3, Zenon DEF Owes
  <2>2. Heads(at, q, down) /\ Heads(from, q, down)
    BY <1>2, <1>3, <2>1, HeadsOn
  <2>3. PICK ca \in Nat, cr \in Nat, cf \in Nat, v \in Nat, ga \in Nat, gr \in Nat, gf \in Nat, h \in Nat :
          /\ ca = Charge(L, at, q, f) /\ cr = Charge(L, r, q, f) /\ cf = Charge(L, from, q, f)
          /\ v = Charge(L, at, r, f)
          /\ ga = Gain(L, at, q) /\ gr = Gain(L, r, q) /\ gf = Gain(L, from, q) /\ h = Gain(L, at, r)
          /\ ca <= v + cr /\ h + gr <= ga
    <3>1. Ways(L, at, r, q, f)
      BY <1>3, <2>1, WaysAre
    <3>2. Charge(L, from, q, f) \in Nat /\ Gain(L, from, q) \in Nat
      BY <2>2, SomeCharge
    <3> QED
      BY <3>1, <3>2 DEF Ways, ChargesAdd, GainsAdd
  <2>4. c.left + cf <= b.left + ca /\ c.calculated + ga <= b.calculated + gf
    BY <1>1, <1>2, <2>2, <2>3 DEF Owes
  <2>5. u.left = c.left - v /\ u.calculated = c.calculated + h
    BY <1>3, <2>3
  <2>6. u.left + cf <= b.left + cr
    BY <1>2, <2>3, <2>4, <2>5
  <2>7. u.calculated + gr <= b.calculated + gf
    BY <1>2, <2>3, <2>4, <2>5
  <2> QED
    BY <2>3, <2>6, <2>7
<1> QED
  BY <1>1, <1>2, <1>3, <1>5, <1>6, Zenon DEF Matches

(* Both cross the same tick.                                               *)
LEMMA MatchCross ==
    ASSUME Here, NEW b, NEW c, Matches(b, c), NEW t, t = Turn(b), t.end # "dry",
           NEW next \in Ticks, NEW to \in Ratios, Sold(t, b, next, to),
           NEW u, Swapped(c, u, next, to), u.end = "no"
    PROVE  t.end = "no" /\ Matches(t, u)
<1>1. AtHead /\ Abreast(b, c) /\ b.specified >= 0 /\ c.fee = b.fee /\ Owes(b, c)
  BY HereIs DEF Matches
<1>2. PICK L \in 0..UMax, from \in Ratios, at \in Ratios, down \in BOOLEAN, f \in FeePips :
        /\ L = b.liquidity /\ from = b.price /\ at = c.price /\ down = b.down /\ f = c.fee /\ f = b.fee
        /\ b.left \in Int /\ c.left \in Nat /\ b.calculated \in Nat /\ c.calculated \in Nat
        /\ c.liquidity = L /\ c.down = down /\ Going(b)
  BY <1>1, AbreastIs DEF Abreast
<1>3. /\ Heads(at, to, down) /\ u.price = to /\ to = PriceAt(next) /\ to # Limit(down)
      /\ u.tick = Onto(next, down) /\ u.liquidity = ActiveIn(positions, u.tick) /\ Swaps(u)
      /\ u.calculated = c.calculated + Gain(L, at, to) /\ u.fee = f /\ u.down = down
      /\ u.left # 0 /\ u.left \in Nat /\ u.left = c.left - Charge(L, at, to, f)
  BY <1>2 DEF Swapped, ContractGone, GoneTo
<1>4. Heads(from, to, down)
  BY <1>2 DEF Sold, Arrives
<1>5. PICK w \in Nat, x \in Nat, G \in Nat, H \in Nat :
        /\ w = Charge(L, at, to, f) /\ x = Charge(L, from, to, f)
        /\ G = Gain(L, from, to) /\ H = Gain(L, at, to)
  BY <1>3, <1>4, SomeCharge
<1>6. c.left + x <= b.left + w /\ c.calculated + H <= b.calculated + G
  BY <1>1, <1>2, <1>3, <1>5 DEF Owes
<1>7. x <= b.left
  BY <1>2, <1>3, <1>5, <1>6
<1>8. t.price = to /\ t.left = b.left - x /\ t.calculated = b.calculated + G
  BY <1>2, <1>5, <1>7 DEF Sold
<1>9. t.left # 0 /\ u.left <= t.left /\ u.calculated <= t.calculated /\ t.left \in Int
  BY <1>2, <1>3, <1>5, <1>6, <1>8
<1>10. t.end = "no" /\ t.tick = Onto(next, down) /\ t.liquidity = ActiveIn(positions, t.tick)
  BY <1>2, <1>3, <1>8, <1>9 DEF Sold, Arrives
<1>11. /\ t.down = down /\ t.specified = b.specified /\ t.fee = f /\ Going(t) /\ t.calculated \in Nat
  BY <1>1, <1>2, <1>10, TurnGoesOn DEF TurnedOn, TurnedWell
<1>12. Owes(t, u)
  <2>1. SUFFICES ASSUME NEW q \in Ratios, Heads(to, q, down)
                 PROVE  /\ u.left + Charge(t.liquidity, to, q, f) <= t.left + Charge(t.liquidity, to, q, f)
                        /\ u.calculated + Gain(t.liquidity, to, q) <= t.calculated + Gain(t.liquidity, to, q)
    BY <1>3, <1>8, <1>11, Zenon DEF Owes
  <2>2. t.liquidity \in 0..UMax
    <3>1. u.tick \in Ticks
      BY <1>3 DEF Swaps, Placed
    <3> QED
      BY <1>1, <1>3, <1>10, <3>1, ActiveBounded DEF AtHead
  <2>3. PICK cq \in Nat, gq \in Nat : cq = Charge(t.liquidity, to, q, f) /\ gq = Gain(t.liquidity, to, q)
    BY <2>1, <2>2, SomeCharge
  <2>4. u.left + cq <= t.left + cq
    BY <1>3, <1>9
  <2>5. u.calculated + gq <= t.calculated + gq
    <3>1. u.calculated \in Nat
      BY <1>3 DEF Swaps
    <3> QED
      BY <1>9, <1>11, <3>1
  <2> QED
    BY <2>3, <2>4, <2>5
<1>13. Abreast(t, u)
  <2>1. Heads(t.price, u.price, down) /\ u.tick = t.tick /\ u.liquidity = t.liquidity
    BY <1>3, <1>8, <1>10, HeadsOn
  <2> QED
    BY <1>3, <1>11, <2>1 DEF Abreast
<1>14. u.end = "no" /\ u.fee = t.fee /\ t.specified >= 0
  BY <1>1, <1>3, <1>11
<1> QED
  BY <1>10, <1>12, <1>13, <1>14 DEF Matches

(* A turn of the contract: it ends with no more, stays behind, or crosses  *)
(* with the quote.                                                         *)
LEMMA MatchTurn ==
    ASSUME Here, NEW b, NEW c, Matches(b, c), Exactly(b.liquidity, b.price, b.left, b.down),
           NEW t, t = Turn(b), t.end # "dry", NEW u, u = ContractTurn(c)
    PROVE  \/ u.end # "no" /\ u.calculated <= t.calculated
           \/ t.end = "no" /\ Matches(t, u)
           \/ Matches(b, u)
<1>1. AtHead /\ Abreast(b, c) /\ b.specified >= 0 /\ c.fee = b.fee /\ Owes(b, c)
  BY HereIs DEF Matches
<1>2. PICK L \in 0..UMax, from \in Ratios, at \in Ratios, down \in BOOLEAN, f \in FeePips :
        /\ L = b.liquidity /\ from = b.price /\ at = c.price /\ down = b.down /\ f = c.fee /\ f = b.fee
        /\ b.tick \in Ticks /\ c.tick \in Ticks /\ b.left \in Int /\ c.left \in Nat
        /\ b.calculated \in Nat /\ c.calculated \in Nat /\ Heads(from, at, down)
        /\ c.liquidity = L /\ c.down = down /\ L = ActiveIn(positions, b.tick)
        /\ Going(b) /\ Swaps(c) /\ Ahead(c.tick, down) = Ahead(b.tick, down)
        /\ Placed(c.price, c.tick, c.liquidity) /\ Inside(c.price)
  BY <1>1, AbreastIs DEF Abreast
<1>3. PICK m \in Ticks, r \in Ratios : Swapped(c, u, m, r)
  BY <1>1, <1>2, ContractTurns
<1>4. PICK p \in Ratios :
        /\ p = u.price /\ Heads(at, p, down) /\ Heads(p, r, down) /\ Charge(L, at, p, f) <= c.left
        /\ u.calculated = c.calculated + Gain(L, at, p)
        /\ r = Target(m, down) /\ StopsAt(m, c.tick, down) /\ Heads(r, Limit(down), down)
  BY <1>2, <1>3 DEF Swapped, ContractGone, GoneTo, OnTheWay
<1>5. Heads(from, p, down)
  BY <1>2, <1>4, HeadsOn
<1>6. PICK w \in Nat, x \in Nat, G \in Nat, H \in Nat :
        /\ w = Charge(L, at, p, f) /\ x = Charge(L, from, p, f)
        /\ G = Gain(L, from, p) /\ H = Gain(L, at, p)
  BY <1>4, <1>5, SomeCharge
<1>7. c.left + x <= b.left + w /\ c.calculated + H <= b.calculated + G
  BY <1>1, <1>2, <1>4, <1>6 DEF Owes
<1>8. x <= b.left /\ u.calculated <= b.calculated + G
  BY <1>2, <1>4, <1>6, <1>7
<1>9. CASE Ahead(b.tick, down) = {}
  <2>1. t.calculated = b.calculated /\ L = 0
    BY <1>1, <1>2, <1>9, TurnStuck, AheadNone DEF Stuck
  <2>2. G = 0
    BY <1>2, <1>5, <1>6, <2>1, NoCharge
  <2>3. u.calculated <= t.calculated
    BY <1>2, <1>8, <2>1, <2>2
  <2>4. BorderOf(m, c.tick, b.down)
    BY <1>2, <1>4, <1>9 DEF StopsAt
  <2>5. u.end = "no" => Matches(b, u)
    BY <1>3, <2>4, MatchBorder
  <2> QED
    BY <2>3, <2>5
<1>10. CASE Ahead(b.tick, down) # {}
  <2>1. PICK next \in Ticks, to \in Ratios : Sold(t, b, next, to)
    BY <1>1, <1>2, <1>10, TurnSells
  <2>2. /\ Nearest(next, b.tick, down) /\ to = Target(next, down) /\ to \in {PriceAt(next), Limit(down)}
    BY <1>2, <2>1 DEF Sold, Arrives
  <2>3. Nearest(next, c.tick, down)
    BY <1>1, <1>2, <2>2, SameNearest
  <2>4. \/ m = next
        \/ BorderOf(m, c.tick, down) /\ Heads(PriceAt(m), PriceAt(next), down)
    BY <1>1, <1>2, <1>4, <2>3, NextOrBorder
  <2>5. Heads(r, to, down)
    <3>1. Heads(r, PriceAt(m), down) /\ PriceAt(m) \in Ratios /\ PriceAt(next) \in Ratios
      BY <1>2, <1>4, TargetAhead, PricesAre DEF StopsAt
    <3>2. CASE m = next
      BY <1>4, <2>2, <3>2, HeadsOn
    <3>3. CASE Heads(PriceAt(m), PriceAt(next), down)
      <4>1. Heads(r, PriceAt(next), down)
        BY <3>1, <3>3, HeadsOn
      <4> QED
        BY <1>4, <2>2, <4>1
    <3> QED
      BY <2>4, <3>2, <3>3
  <2>6. Heads(p, to, down)
    BY <1>4, <2>5, HeadsOn
  <2>7. PICK pb \in Ratios : /\ pb = t.price /\ Heads(from, pb, down) /\ t.calculated = b.calculated + Gain(L, from, pb)
    BY <1>2, <2>1 DEF Sold, Arrives, OnTheWay
  <2>8. Heads(p, pb, down)
    BY <1>2, <1>5, <1>6, <1>8, <2>1, <2>6, <2>7 DEF Sold
  <2>9. PICK I \in Nat : I = Gain(L, from, pb) /\ G <= I
    <3>1. GainsAdd(Gain(L, from, pb), Gain(L, from, p), Gain(L, p, pb))
      BY <1>2, <1>5, <2>8, WaysAre DEF Ways
    <3> QED
      BY <1>6, <3>1 DEF GainsAdd
  <2>10. u.calculated <= t.calculated
    <3>1. t.calculated = b.calculated + I
      BY <2>7, <2>9
    <3>2. u.calculated \in Nat
      BY <1>3 DEF Swapped
    <3> QED
      BY <1>2, <1>6, <1>8, <2>9, <3>1, <3>2
  <2>11. CASE u.end = "no" /\ m = next
    <3>1. r = to
      BY <1>4, <2>2, <2>11
    <3>2. Swapped(c, u, next, to)
      BY <1>3, <2>11, <3>1
    <3>3. t.end = "no" /\ Matches(t, u)
      BY <2>1, <2>11, <3>2, MatchCross
    <3> QED
      BY <3>3
  <2>12. CASE u.end = "no" /\ BorderOf(m, c.tick, down)
    <3>1. BorderOf(m, c.tick, b.down)
      BY <1>2, <2>12
    <3>2. Matches(b, u)
      BY <1>3, <2>12, <3>1, MatchBorder
    <3> QED
      BY <3>2
  <2> QED
    BY <2>4, <2>10, <2>11, <2>12
<1> QED
  BY <1>9, <1>10

(* Where a product of amount and price stays in the word, each turn goes   *)
(* as far as what is left pays for.                                        *)
LEMMA RoomIs ==
    ASSUME Here, NEW contract \in Contracts, NEW down \in BOOLEAN, NEW specified \in 0 .. Word - 1,
           Roomy(specified), NEW b, NEW n, RunAt(b, n, contract, down, specified), b.end = "no"
    PROVE  Exactly(b.liquidity, b.price, b.left, b.down)
<1>1. /\ b.down = down /\ b.specified = specified /\ Going(b) /\ b.left <= specified
      /\ (down => b.price <= price) /\ specified \in Nat
  BY WordIs DEF RunAt
<1>2. b.tick \in Ticks /\ b.price \in Ratios /\ b.liquidity = ActiveIn(positions, b.tick) /\ b.left \in Nat
  BY <1>1, WordIs DEF Going, Walks, Owed, Placed
<1>3. pool.price = price /\ price \in Ratios /\ Active(b.tick) = ActiveIn(positions, b.tick)
      /\ b.liquidity \in 0..UMax
  <2>1. b.tick \in Int
    BY <1>2, TicksAre
  <2>2. AtHead /\ pool.price = price /\ price \in Ratios
    BY HereIs
  <2>3. Active(b.tick) = ActiveIn(positions, b.tick)
    BY <2>1, <2>2, GrossNow
  <2>4. b.liquidity \in 0..UMax
    BY <1>2, <2>2, ActiveBounded DEF AtHead
  <2> QED
    BY <2>2, <2>3, <2>4
<1>4. SUFFICES ASSUME down PROVE b.liquidity * Q + b.left * b.price < Word
  BY <1>1 DEF Exactly
<1>5. b.price <= price /\ b.price \in Nat /\ price \in Nat
  BY <1>1, <1>2, <1>3, <1>4, RatiosAre
<1>6. PICK a \in Nat, room \in Nat, k \in Nat, word \in Nat :
        /\ a = b.liquidity * Q /\ room = specified * price /\ k = b.left * b.price /\ word = Word
  BY <1>1, <1>2, <1>3, <1>5, NumeratorIs, TimesNat, WordIs
<1>7. k <= room
  <2>1. PICK l \in Nat : l = b.left * price
    BY <1>2, <1>5, TimesNat
  <2>2. k <= l
    BY <1>2, <1>5, <1>6, <2>1, TimesMonotone
  <2>3. l <= room
    BY <1>1, <1>2, <1>5, <1>6, <2>1, TimesMonotone
  <2> QED
    BY <1>6, <2>1, <2>2, <2>3
<1>8. a + room < word
  <2>1. Active(b.tick) * Q + specified * pool.price < Word
    BY <1>2 DEF Roomy
  <2> QED
    BY <1>2, <1>3, <1>6, <2>1
<1>9. a + k < word
  BY <1>6, <1>7, <1>8
<1> QED
  BY <1>6, <1>9

(* It begins so where the fee is known.                                    *)
LEMMA MatchStart ==
    ASSUME Here, NEW contract \in Contracts, contract.kind = "UniswapV3", NEW down \in BOOLEAN,
           NEW specified \in 0 .. Word - 1,
           NEW b, b = Start(contract, down, specified), b.end = "no",
           NEW c, c = PaidStart(contract, down, specified)
    PROVE  Matches(b, c)
<1>1. AtHead /\ tick \in Ticks /\ price \in Ratios /\ specified \in 1 - Word .. Word - 1 /\ specified \in Nat
  BY HereIs, WordIs
<1>2. PICK f \in FeePips : f = contract.charged[down] /\ f = FetchedFee(contract)
  BY ContractIs
<1>3. StartedWith(b, f, down, specified) /\ b.specified = specified /\ Going(b)
  BY <1>1, <1>2, StartIs
<1>4. StartedWith(c, f, down, specified) /\ (c.end = "no" => Swaps(c))
  BY <1>1, <1>2, PaidStartIs
<1>5. /\ b.fee = f /\ b.down = down /\ b.price = price /\ b.tick = tick
      /\ b.liquidity = ActiveIn(positions, tick) /\ b.left = specified /\ b.calculated = 0
      /\ c.fee = f /\ c.down = down /\ c.price = price /\ c.tick = tick
      /\ c.liquidity = ActiveIn(positions, tick) /\ c.left = specified /\ c.calculated = 0
      /\ b.end = c.end
  BY <1>3, <1>4 DEF StartedWith
<1>6. Abreast(b, c) /\ c.end = "no"
  BY <1>1, <1>3, <1>4, <1>5, HeadsOn DEF Abreast
<1>7. PICK L \in 0..UMax : L = ActiveIn(positions, tick)
  BY <1>1, ActiveBounded DEF AtHead
<1>8. Owes(b, c)
  <2>1. SUFFICES ASSUME NEW q \in Ratios, Heads(price, q, down)
                 PROVE  /\ specified + Charge(L, price, q, f) <= specified + Charge(L, price, q, f)
                        /\ 0 + Gain(L, price, q) <= 0 + Gain(L, price, q)
    BY <1>5, <1>7, Zenon DEF Owes
  <2>2. PICK cq \in Nat, gq \in Nat : cq = Charge(L, price, q, f) /\ gq = Gain(L, price, q)
    BY <1>1, <2>1, SomeCharge
  <2>3. specified + cq <= specified + cq /\ 0 + gq <= 0 + gq
    BY <1>1
  <2> QED
    BY <2>2, <2>3
<1> QED
  BY <1>1, <1>3, <1>5, <1>6, <1>8 DEF Matches

(* Of the turns at which the contract had more one would be first.         *)
LEMMA QuoteMatched ==
    ASSUME Here, NEW contract \in Contracts, contract.kind = "UniswapV3", NEW down \in BOOLEAN,
           NEW specified \in 0 .. Word - 1, Roomy(specified),
           NEW w, QuoteRun(w, contract, down, specified),
           NEW N \in 0..Turns, w[N].end \notin {"no", "dry"}, \A n \in 0 .. N - 1 : w[n].end = "no"
    PROVE  Paid(contract, down, specified).calculated <= w[N].calculated
<1>1. /\ Turns \in Nat /\ AtHead /\ specified \in Nat /\ specified \in 1 - Word .. Word - 1
  BY TurnsAre, HereIs, WordIs
<1>2. PICK z : z = w[N]
  OBVIOUS
<1>3. z.calculated \in Nat
  <2>1. RunAt(z, N, contract, down, specified)
    BY <1>1, <1>2, RunHolds
  <2> QED
    BY <2>1 DEF RunAt
<1>4. PICK v : PaidRun(v, contract, down, specified) /\ Paid(contract, down, specified) = v[2 * Turns]
  BY PaidIs
<1>5. v[2 * Turns].end # "no"
  BY <1>1, <1>4, PaidEnds
<1>6. w[0] = Start(contract, down, specified) /\ \A n \in 0 .. Turns - 1 : w[n + 1] = QuoteOn(w[n])
  BY DEF QuoteRun
<1>7. v[0] = PaidStart(contract, down, specified) /\ \A n \in 0 .. 2 * Turns - 1 : v[n + 1] = PaidOn(v[n])
  BY <1>4 DEF PaidRun
<1> DEFINE Met(n) == v[n].end = "no" /\ \E j \in 0 .. N - 1 : Matches(w[j], v[n])
           Done(n) == v[n].end # "no" /\ v[n].calculated <= z.calculated
           Wrong == {n \in 0 .. 2 * Turns : ~(Done(n) \/ Met(n))}
<1>8. Wrong = {}
  <2>1. SUFFICES ASSUME Wrong # {} PROVE FALSE
    OBVIOUS
  <2>2. PICK m \in Wrong : \A n \in Wrong : ~(n < m)
    <3>1. Wrong \in SUBSET Nat
      BY <1>1
    <3> HIDE DEF Wrong
    <3> QED
      BY <2>1, <3>1, SmallestNumber
  <2>3. m \in 0 .. 2 * Turns /\ ~Done(m) /\ ~Met(m)
    OBVIOUS
  <2>4. CASE m = 0
    <3>1. PICK b, c : b = w[0] /\ c = v[0]
      OBVIOUS
    <3>2. /\ StartedWith(b, FetchedFee(contract), down, specified)
          /\ StartedWith(c, contract.charged[down], down, specified)
      BY <1>1, <1>6, <1>7, <3>1, StartIs, PaidStartIs
    <3>3. b.end = c.end /\ c.calculated = 0
      BY <3>2 DEF StartedWith
    <3>4. CASE b.end = "no"
      <4>1. Matches(b, c)
        BY <1>6, <1>7, <3>1, <3>4, MatchStart
      <4>2. 0 \in 0 .. N - 1
        <5>1. N # 0
          BY <3>1, <3>4
        <5> QED
          BY <1>1, <5>1
      <4>3. Met(0)
        BY <3>1, <3>3, <3>4, <4>1, <4>2
      <4> QED
        BY <2>3, <2>4, <4>3
    <3>5. CASE b.end # "no"
      <4>1. Done(0)
        BY <1>3, <3>1, <3>3, <3>5
      <4> QED
        BY <2>3, <2>4, <4>1
    <3> QED
      BY <3>4, <3>5
  <2>5. CASE m # 0
    <3>1. PICK n \in 0 .. 2 * Turns - 1 : n + 1 = m /\ n \in 0 .. 2 * Turns /\ n < m
      <4>1. m - 1 \in 0 .. 2 * Turns - 1 /\ (m - 1) + 1 = m /\ m - 1 \in 0 .. 2 * Turns /\ m - 1 < m
        BY <1>1, <2>3, <2>5
      <4> QED
        BY <4>1
    <3>2. Done(n) \/ Met(n)
      BY <2>2, <3>1
    <3>3. v[m] = PaidOn(v[n])
      BY <1>7, <3>1
    <3>4. CASE Done(n)
      <4>1. v[m] = v[n]
        BY <3>3, <3>4 DEF PaidOn
      <4>2. Done(m)
        BY <3>4, <4>1
      <4> QED
        BY <2>3, <4>2
    <3>5. CASE Met(n)
      <4>1. PICK j \in 0 .. N - 1 : Matches(w[j], v[n])
        BY <3>5
      <4>2. PICK b, c, t, u : b = w[j] /\ c = v[n] /\ t = w[j + 1] /\ u = v[m]
        OBVIOUS
      <4>3. Matches(b, c) /\ c.end = "no" /\ b.end = "no"
        BY <4>1, <4>2 DEF Matches
      <4>4. t = Turn(b) /\ u = ContractTurn(c)
        <5>1. j \in 0 .. Turns - 1
          BY <1>1
        <5>2. t = QuoteOn(b) /\ u = PaidOn(c)
          BY <1>6, <3>3, <4>2, <5>1
        <5> QED
          BY <4>3, <5>2 DEF QuoteOn, PaidOn
      <4>5. j \in 0..Turns /\ j + 1 \in 0..Turns /\ N \in j + 1 .. Turns /\ (j + 1 \in 0 .. N - 1 \/ j + 1 = N)
        BY <1>1
      <4>6. Exactly(b.liquidity, b.price, b.left, b.down)
        <5>1. RunAt(b, j, contract, down, specified)
          BY <1>1, <4>2, <4>5, RunHolds
        <5> QED
          BY <4>3, <5>1, RoomIs
      <4>7. t.end # "dry" /\ (t.end = "no" => j + 1 \in 0 .. N - 1)
        BY <1>2, <4>2, <4>5
      <4>8. t.calculated <= z.calculated /\ t.calculated \in Nat
        <5>1. RunAt(t, j + 1, contract, down, specified)
          BY <1>1, <4>2, <4>5, RunHolds
        <5>2. t.calculated <= z.calculated
          BY <1>1, <1>2, <4>2, <4>5, RunRises
        <5> QED
          BY <5>1, <5>2 DEF RunAt
      <4>9. \/ u.end # "no" /\ u.calculated <= t.calculated
            \/ t.end = "no" /\ Matches(t, u)
            \/ Matches(b, u)
        BY <4>3, <4>4, <4>6, <4>7, MatchTurn
      <4>10. CASE u.end # "no" /\ u.calculated <= t.calculated
        <5>1. u.calculated \in Nat
          <6>1. PaidAt(u, m, contract.charged[down], down)
            BY <1>1, <1>4, <2>3, <4>2, PaidHolds
          <6> QED
            BY <6>1 DEF PaidAt
        <5>2. Done(m)
          BY <1>3, <4>2, <4>8, <4>10, <5>1
        <5> QED
          BY <2>3, <5>2
      <4>11. CASE t.end = "no" /\ Matches(t, u)
        <5>1. Met(m)
          BY <4>2, <4>7, <4>11 DEF Matches
        <5> QED
          BY <2>3, <5>1
      <4>12. CASE Matches(b, u)
        <5>1. Met(m)
          BY <4>2, <4>12 DEF Matches
        <5> QED
          BY <2>3, <5>1
      <4> QED
        BY <4>9, <4>10, <4>11, <4>12
    <3> QED
      BY <3>2, <3>4, <3>5
  <2> QED
    BY <2>4, <2>5
<1>9. Done(2 * Turns) \/ Met(2 * Turns)
  <2>1. 2 * Turns \in 0 .. 2 * Turns
    BY <1>1
  <2> QED
    BY <1>8, <2>1
<1> QED
  BY <1>2, <1>4, <1>5, <1>9

(* From QuoteMatched.                                                      *)
LEMMA QuoteTightHolds == ASSUME PoolsInv, QuoteInv, QuoteCame PROVE QuoteTight
<1>1. SUFFICES ASSUME Ended, quote.specified >= 0, Roomy(quote.specified),
                      quote.contract.kind = "UniswapV3", quote.end # "dry"
               PROVE  PaidFor(quote.specified) <= quote.calculated
  BY DEF QuoteTight
<1>2. quote # Idle /\ quote.end \notin {"no", "dry"}
  BY <1>1 DEF Ended, Idle
<1>3. Here /\ Quotes(quote) /\ quote.specified \in 0 .. Word - 1
  BY <1>1, <1>2, QuotedHere
<1>4. PICK contract \in Contracts, down \in BOOLEAN, specified \in 0 .. Word - 1, N \in 0..Turns :
        /\ contract = quote.contract /\ down = quote.down /\ specified = quote.specified /\ N = quote.turns
  BY <1>3 DEF Quotes
<1>5. PICK w : QuoteRun(w, contract, down, specified) /\ Result(contract, down, specified) = w[Turns]
  BY ResultIs
<1>6. w[N] = quote /\ \A n \in 0 .. N - 1 : w[n].end = "no"
  BY <1>2, <1>3, <1>4, <1>5, QuoteResult
<1>7. Paid(contract, down, specified).calculated <= quote.calculated
  BY <1>1, <1>2, <1>3, <1>4, <1>5, <1>6, QuoteMatched
<1> QED
  BY <1>4, <1>7 DEF PaidFor
-----------------------------------------------------------------------------
(* The input that a quote for an output comes to takes the same turns.     *)

(* The input has left what the output's quote has still to ask for, and    *)
(* has got what that has given.                                            *)
Mirrors(b, c, input) ==
    /\ Going(b) /\ Going(c) /\ b.calculated \in Nat /\ c.calculated \in Nat /\ ~(b.specified >= 0) /\ c.specified >= 0
    /\ c.price = b.price /\ c.tick = b.tick /\ c.liquidity = b.liquidity /\ c.fee = b.fee /\ c.down = b.down
    /\ c.left = input - b.calculated /\ c.calculated = b.left - b.specified /\ c.end = "no"

(* The same steps to the same tick.                                        *)
LEMMA MirrorIs ==
    ASSUME AtHead, NEW b, NEW c, NEW input \in Nat, Mirrors(b, c, input),
           NEW t, t = Turn(b), t.end \in {"filled", "no"}, NEW d, d = Turn(c)
    PROVE  /\ b.liquidity \in 0..UMax /\ b.price \in Ratios /\ b.down \in BOOLEAN /\ b.fee \in FeePips
           /\ b.left \in Int /\ b.specified \in Int /\ c.left \in Int
           /\ \E next \in Ticks, to \in Ratios : Bought(t, b, next, to) /\ Sold(d, c, next, to)
<1>1. /\ Going(b) /\ Going(c) /\ b.calculated \in Nat /\ ~(b.specified >= 0) /\ c.specified >= 0
      /\ c.tick = b.tick /\ c.down = b.down /\ c.left = input - b.calculated
  BY DEF Mirrors
<1>2. b.price \in Ratios /\ b.tick \in Ticks /\ b.down \in BOOLEAN /\ b.fee \in FeePips
      /\ b.liquidity = ActiveIn(positions, b.tick) /\ b.left \in 1 - Word .. Word - 1 /\ b.specified \in Int
  BY <1>1 DEF Going, Walks, Owed, Placed
<1>3. b.left \in Int /\ b.liquidity \in 0..UMax /\ c.left \in Int
  <2>1. b.left \in Int
    BY <1>2, WordIs
  <2>2. b.liquidity \in 0..UMax
    BY <1>2, ActiveBounded DEF AtHead
  <2> QED
    BY <1>1, <2>1, <2>2
<1>4. Ahead(b.tick, b.down) # {}
  <2>1. SUFFICES ASSUME Ahead(b.tick, b.down) = {} PROVE FALSE
    OBVIOUS
  <2>2. Stuck(t, b)
    BY <1>1, <2>1, TurnStuck
  <2> QED
    BY <2>2 DEF Stuck
<1>5. PICK next \in Ticks, to \in Ratios : Bought(t, b, next, to)
  BY <1>1, <1>4, TurnBuys
<1>6. PICK other \in Ticks, target \in Ratios : Sold(d, c, other, target)
  BY <1>1, <1>4, TurnSells
<1>7. next = NextTick(b.tick, b.down) /\ to = Target(next, b.down)
  BY <1>5 DEF Bought, Arrives, Nearest
<1>8. other = NextTick(b.tick, b.down) /\ target = Target(other, b.down)
  BY <1>1, <1>6 DEF Sold, Arrives, Nearest
<1>9. Sold(d, c, next, to)
  BY <1>6, <1>7, <1>8
<1> QED
  BY <1>2, <1>3, <1>5, <1>9

(* Where the output is not reached yet, neither is the input spent.        *)
LEMMA MirrorTurn ==
    ASSUME AtHead, NEW b, NEW c, NEW input \in Nat, Mirrors(b, c, input),
           NEW t, t = Turn(b), t.end = "no", t.calculated < input, NEW d, d = Turn(c)
    PROVE  Mirrors(t, d, input)
<1>1. /\ Going(b) /\ Going(c) /\ b.calculated \in Nat /\ c.calculated \in Nat /\ ~(b.specified >= 0) /\ c.specified >= 0
      /\ c.price = b.price /\ c.tick = b.tick /\ c.liquidity = b.liquidity /\ c.fee = b.fee /\ c.down = b.down
      /\ c.left = input - b.calculated /\ c.calculated = b.left - b.specified
  BY DEF Mirrors
<1>2. PICK next \in Ticks, to \in Ratios : Bought(t, b, next, to) /\ Sold(d, c, next, to)
  BY MirrorIs
<1>3. PICK L \in 0..UMax, from \in Ratios, down \in BOOLEAN, f \in FeePips :
        /\ L = b.liquidity /\ from = b.price /\ down = b.down /\ f = b.fee
        /\ b.left \in Int /\ b.specified \in Int /\ c.left \in Int
  BY MirrorIs
<1>4. /\ Heads(from, to, down) /\ t.left # 0 /\ t.price = to /\ to = PriceAt(next) /\ to # Limit(down)
      /\ t.liquidity # 0 /\ t.tick = Onto(next, down) /\ t.liquidity = ActiveIn(positions, t.tick)
      /\ t.calculated = b.calculated + Charge(L, from, to, f) /\ t.left = b.left + Gain(L, from, to)
  BY <1>2, <1>3 DEF Bought, Arrives
<1>5. PICK x \in Nat, G \in Nat : x = Charge(L, from, to, f) /\ G = Gain(L, from, to)
  BY <1>4, SomeCharge
<1>6. x < c.left
  BY <1>1, <1>3, <1>4, <1>5
<1>7. d.price = to /\ d.left = c.left - x /\ d.calculated = c.calculated + G
  <2>1. x <= c.left
    BY <1>3, <1>5, <1>6
  <2>2. /\ d.calculated = c.calculated + Gain(L, from, d.price)
        /\ \/ d.price = to /\ d.left = c.left - Charge(L, from, to, f)
           \/ ~(Charge(L, from, to, f) <= c.left)
    BY <1>1, <1>2, <1>3 DEF Sold
  <2> QED
    BY <1>5, <2>1, <2>2
<1>8. d.left # 0 /\ d.left = input - t.calculated /\ d.calculated = t.left - b.specified
  BY <1>1, <1>3, <1>4, <1>5, <1>6, <1>7
<1>9. d.tick = t.tick /\ d.liquidity = t.liquidity /\ d.end = "no"
  BY <1>1, <1>2, <1>3, <1>4, <1>7, <1>8 DEF Sold, Arrives
<1>10. /\ t.down = b.down /\ t.specified = b.specified /\ t.fee = b.fee /\ Going(t) /\ t.calculated \in Nat
  BY <1>1, TurnGoesOn DEF TurnedOn, TurnedWell
<1>11. /\ d.down = c.down /\ d.specified = c.specified /\ d.fee = c.fee /\ Going(d) /\ d.calculated \in Nat
  BY <1>1, <1>9, TurnGoesOn DEF TurnedOn, TurnedWell
<1> QED
  BY <1>1, <1>4, <1>7, <1>8, <1>9, <1>10, <1>11, Zenon DEF Mirrors

(* And where it is, the input has bought it.                               *)
LEMMA MirrorEnd ==
    ASSUME AtHead, NEW b, NEW c, NEW input \in Nat, Mirrors(b, c, input),
           Exactly(c.liquidity, c.price, c.left, c.down),
           NEW t, t = Turn(b), t.end = "filled", t.calculated = input, NEW d, d = Turn(c)
    PROVE  -b.specified <= d.calculated
<1>1. /\ Going(b) /\ b.calculated \in Nat /\ c.calculated \in Nat /\ ~(b.specified >= 0)
      /\ c.price = b.price /\ c.tick = b.tick /\ c.liquidity = b.liquidity /\ c.fee = b.fee /\ c.down = b.down
      /\ c.left = input - b.calculated /\ c.calculated = b.left - b.specified
  BY DEF Mirrors
<1>2. PICK next \in Ticks, to \in Ratios : Bought(t, b, next, to) /\ Sold(d, c, next, to)
  BY MirrorIs
<1>3. PICK L \in 0..UMax, from \in Ratios, down \in BOOLEAN, f \in FeePips :
        /\ L = b.liquidity /\ from = b.price /\ down = b.down /\ f = b.fee
        /\ b.left \in Int /\ b.specified \in Int /\ c.left \in Int
  BY MirrorIs
<1>4. PICK p \in Ratios :
        /\ p = t.price /\ Heads(from, p, down) /\ Heads(p, to, down) /\ t.left = 0
        /\ t.calculated = b.calculated + Charge(L, from, p, f)
        /\ \/ p = to /\ t.left = b.left + Gain(L, from, to)
           \/ -b.left <= Gain(L, from, p)
  BY <1>2, <1>3 DEF Bought, Arrives, OnTheWay
<1>5. PICK x \in Nat, G \in Nat : x = Charge(L, from, p, f) /\ G = Gain(L, from, p)
  BY <1>4, SomeCharge
<1>6. -b.left <= G /\ x = c.left
  BY <1>1, <1>3, <1>4, <1>5
<1>7. PICK q \in Ratios : q = d.price /\ d.calculated = c.calculated + Gain(L, from, q)
  BY <1>1, <1>2, <1>3 DEF Sold, Arrives, OnTheWay
<1>8. Heads(p, q, down)
  <2>1. x <= c.left
    BY <1>5, <1>6
  <2> QED
    BY <1>1, <1>2, <1>3, <1>4, <1>5, <1>7, <2>1 DEF Sold
<1>9. PICK H \in Nat : H = Gain(L, from, q) /\ G <= H
  <2>1. GainsAdd(Gain(L, from, q), Gain(L, from, p), Gain(L, p, q))
    BY <1>4, <1>8, WaysAre DEF Ways
  <2> QED
    BY <1>5, <2>1 DEF GainsAdd
<1>10. d.calculated = b.left - b.specified + H
  BY <1>1, <1>7, <1>9
<1> QED
  BY <1>3, <1>6, <1>5, <1>9, <1>10

(* An amount of which no product overflows is a word.                      *)
LEMMA RoomyIs ==
    ASSUME Here, NEW input \in Nat, Roomy(input) PROVE input \in 0 .. Word - 1
<1>1. PICK t \in Ticks, p \in Nat, word \in Nat : t = tick /\ p = pool.price /\ p > 0 /\ word = Word
  BY HereIs, RatiosAre, WordIs
<1>2. PICK a \in Nat : a = Active(t) * Q
  <2>1. Active(t) \in 0..UMax
    BY <1>1, HereIs, ActiveBounded DEF AtHead
  <2> QED
    BY <2>1, NumeratorIs
<1>3. PICK k \in Nat : k = input * p /\ input <= k
  <2>1. input * 1 <= input * p
    BY <1>1, TimesMonotone
  <2>2. input * 1 = input
    OBVIOUS
  <2> QED
    BY <1>1, <2>1, <2>2, TimesNat
<1>4. a + k < word
  BY <1>1, <1>2, <1>3 DEF Roomy
<1> QED
  BY <1>1, <1>2, <1>3, <1>4

(* As the two end together, the input has got what was asked for.          *)
LEMMA QuoteBought ==
    ASSUME Here, NEW contract \in Contracts, NEW down \in BOOLEAN,
           NEW specified \in 1 - Word .. Word - 1, specified < 0,
           NEW w, QuoteRun(w, contract, down, specified),
           NEW N \in 0..Turns, w[N].end = "filled", w[N].left = 0, \A n \in 0 .. N - 1 : w[n].end = "no",
           NEW input, input = w[N].calculated, Roomy(input)
    PROVE  -specified <= Result(contract, down, input).calculated
<1>1. Turns \in Nat /\ AtHead /\ specified \in Int /\ ~(specified >= 0) /\ N \in Nat
  BY TurnsAre, HereIs, WordIs
<1>2. w[0] = Start(contract, down, specified) /\ \A n \in 0 .. Turns - 1 : w[n + 1] = QuoteOn(w[n])
  BY DEF QuoteRun
<1>3. \A n \in 0..Turns : RunAt(w[n], n, contract, down, specified)
  BY RunHolds
<1>4. input \in 0 .. Word - 1 /\ input \in Nat /\ input \in 1 - Word .. Word - 1
  <2>1. input \in Nat
    BY <1>3 DEF RunAt
  <2> QED
    BY <2>1, RoomyIs, WordIs
<1>5. PICK u : QuoteRun(u, contract, down, input) /\ Result(contract, down, input) = u[Turns]
  BY ResultIs
<1>6. u[0] = Start(contract, down, input) /\ \A n \in 0 .. Turns - 1 : u[n + 1] = QuoteOn(u[n])
  BY <1>5 DEF QuoteRun
<1>7. \A n \in 0..Turns : RunAt(u[n], n, contract, down, input)
  BY <1>4, <1>5, RunHolds
<1>8. StartedWith(w[0], FetchedFee(contract), down, specified) /\ w[0].specified = specified
  BY <1>2, StartIs
<1>9. N # 0 /\ price # Limit(down)
  <2>1. w[0].end = IF price = Limit(down) THEN "error" ELSE IF specified = 0 THEN "filled" ELSE "no"
    BY <1>8 DEF StartedWith
  <2>2. N # 0
    BY <1>1, <2>1
  <2>3. w[0].end = "no"
    BY <1>1, <2>2
  <2> QED
    BY <2>1, <2>2, <2>3
<1>10. ASSUME NEW n \in 0 .. N - 1
       PROVE  w[n].calculated < input /\ w[n].calculated \in Nat /\ w[n].specified = specified /\ w[n + 1] = Turn(w[n])
  <2>1. n \in 0..Turns /\ n \in 0 .. Turns - 1 /\ N - 1 \in n..Turns /\ N - 1 \in 0..Turns /\ N - 1 \in 0 .. N - 1
        /\ N - 1 \in 0 .. Turns - 1 /\ (N - 1) + 1 = N
    BY <1>1, <1>9
  <2>2. PICK b, e, t : b = w[n] /\ e = w[N - 1] /\ t = w[N]
    OBVIOUS
  <2>3. b.calculated <= e.calculated
    BY <2>1, <2>2, RunRises
  <2>4. RunAt(b, n, contract, down, specified) /\ RunAt(e, N - 1, contract, down, specified)
    BY <1>3, <2>1, <2>2
  <2>5. b.calculated \in Nat /\ b.specified = specified /\ e.calculated \in Nat /\ e.specified = specified
    BY <2>4 DEF RunAt
  <2>6. e.end = "no" /\ Going(e)
    BY <2>1, <2>2, <2>4 DEF RunAt
  <2>7. t = Turn(e)
    <3>1. w[(N - 1) + 1] = QuoteOn(e)
      BY <1>2, <2>1, <2>2
    <3> QED
      BY <2>1, <2>2, <2>6, <3>1 DEF QuoteOn
  <2>8. e.calculated <= t.calculated /\ (t.calculated = e.calculated => t.left = e.left)
    BY <1>1, <2>5, <2>6, <2>7, TurnGoesOn DEF TurnedOn
  <2>9. t.calculated # e.calculated
    BY <2>2, <2>6, <2>8 DEF Going
  <2>10. b.calculated < input
    BY <1>4, <2>2, <2>3, <2>5, <2>8, <2>9
  <2>11. w[n + 1] = Turn(w[n])
    BY <1>2, <2>1 DEF QuoteOn
  <2> QED
    BY <2>2, <2>5, <2>10, <2>11
<1> DEFINE Wrong == {n \in 0 .. N - 1 : ~Mirrors(w[n], u[n], input)}
<1>11. Wrong = {}
  <2>1. SUFFICES ASSUME Wrong # {} PROVE FALSE
    OBVIOUS
  <2>2. PICK m \in Wrong : \A n \in Wrong : ~(n < m)
    <3>1. Wrong \in SUBSET Nat
      BY <1>1
    <3> HIDE DEF Wrong
    <3> QED
      BY <2>1, <3>1, SmallestNumber
  <2>3. m \in 0 .. N - 1 /\ ~Mirrors(w[m], u[m], input)
    OBVIOUS
  <2>4. CASE m = 0
    <3>1. PICK b, c : b = w[0] /\ c = u[0]
      OBVIOUS
    <3>2. /\ StartedWith(b, FetchedFee(contract), down, specified) /\ b.specified = specified
          /\ (b.end = "no" => Going(b))
      BY <1>2, <3>1, StartIs
    <3>3. /\ StartedWith(c, FetchedFee(contract), down, input) /\ c.specified = input
          /\ (c.end = "no" => Going(c))
      BY <1>4, <1>6, <3>1, StartIs
    <3>4. 0 < input
      <4>1. w[0].calculated < input
        BY <1>10, <2>3, <2>4
      <4> QED
        BY <3>1, <3>2, <4>1 DEF StartedWith
    <3>5. b.end = "no" /\ c.end = "no"
      BY <1>1, <1>9, <3>2, <3>3, <3>4 DEF StartedWith
    <3>6. /\ b.calculated = 0 /\ c.calculated = 0 /\ b.left = specified /\ c.left = input
          /\ c.price = b.price /\ c.tick = b.tick /\ c.liquidity = b.liquidity /\ c.fee = b.fee /\ c.down = b.down
      BY <3>2, <3>3 DEF StartedWith
    <3>7. c.left = input - b.calculated /\ c.calculated = b.left - b.specified /\ c.specified >= 0
      BY <1>1, <1>4, <3>2, <3>3, <3>6
    <3>8. Mirrors(b, c, input)
      BY <1>1, <3>2, <3>3, <3>5, <3>6, <3>7 DEF Mirrors
    <3> QED
      BY <2>3, <2>4, <3>1, <3>8
  <2>5. CASE m # 0
    <3>1. PICK n \in 0 .. N - 1 : n + 1 = m /\ n < m /\ n \in 0 .. Turns - 1
      <4>1. m - 1 \in 0 .. N - 1 /\ (m - 1) + 1 = m /\ m - 1 < m /\ m - 1 \in 0 .. Turns - 1
        BY <1>1, <2>3, <2>5
      <4> QED
        BY <4>1
    <3>2. Mirrors(w[n], u[n], input)
      BY <2>2, <3>1
    <3>3. w[m] = Turn(w[n]) /\ w[m].end = "no" /\ w[m].calculated < input
      BY <1>10, <2>3, <3>1
    <3>4. u[m] = Turn(u[n])
      BY <1>6, <3>1, <3>2 DEF QuoteOn, Mirrors
    <3>5. Mirrors(w[m], u[m], input)
      BY <1>1, <1>4, <3>2, <3>3, <3>4, MirrorTurn
    <3> QED
      BY <2>3, <3>5
  <2> QED
    BY <2>4, <2>5
<1>12. PICK n \in 0 .. N - 1 : n + 1 = N /\ n \in 0 .. Turns - 1 /\ n \in 0..Turns
  <2>1. N - 1 \in 0 .. N - 1 /\ (N - 1) + 1 = N /\ N - 1 \in 0 .. Turns - 1 /\ N - 1 \in 0..Turns
    BY <1>1, <1>9
  <2> QED
    BY <2>1
<1>13. PICK b, c, t, d : b = w[n] /\ c = u[n] /\ t = w[N] /\ d = u[N]
  OBVIOUS
<1>14. Mirrors(b, c, input) /\ c.end = "no"
  BY <1>11, <1>13 DEF Mirrors
<1>15. t = Turn(b) /\ d = Turn(c) /\ b.specified = specified
  BY <1>6, <1>10, <1>12, <1>13, <1>14 DEF QuoteOn
<1>16. Exactly(c.liquidity, c.price, c.left, c.down)
  <2>1. RunAt(c, n, contract, down, input)
    BY <1>7, <1>12, <1>13
  <2> QED
    BY <1>4, <1>14, <2>1, RoomIs
<1>17. -specified <= d.calculated
  <2>1. t.end = "filled" /\ t.calculated = input
    BY <1>13
  <2>2. -b.specified <= d.calculated
    BY <1>1, <1>4, <1>14, <1>15, <1>16, <2>1, MirrorEnd
  <2> QED
    BY <1>15, <2>2
<1>18. d.calculated <= u[Turns].calculated /\ d.calculated \in Nat /\ u[Turns].calculated \in Nat
  <2>1. Turns \in N..Turns /\ Turns \in 0..Turns
    BY <1>1
  <2>2. d.calculated <= u[Turns].calculated
    BY <1>4, <1>5, <1>13, <2>1, RunRises
  <2> QED
    BY <1>7, <1>13, <2>1, <2>2 DEF RunAt
<1> QED
  BY <1>1, <1>5, <1>17, <1>18

(* What has been filled has nothing left.                                  *)
LEMMA FilledIs ==
    ASSUME Here, NEW contract \in Contracts, NEW down \in BOOLEAN,
           NEW specified \in 1 - Word .. Word - 1, NEW w, QuoteRun(w, contract, down, specified),
           NEW N \in 0..Turns, w[N].end = "filled", \A n \in 0 .. N - 1 : w[n].end = "no"
    PROVE  w[N].left = 0
<1>1. Turns \in Nat /\ AtHead
  BY TurnsAre, HereIs
<1>2. CASE N = 0
  <2>1. StartedWith(w[0], FetchedFee(contract), down, specified)
    BY StartIs DEF QuoteRun
  <2> QED
    BY <1>2, <2>1 DEF StartedWith
<1>3. CASE N # 0
  <2>1. PICK n \in 0 .. Turns - 1 : n + 1 = N /\ n \in 0 .. N - 1 /\ n \in 0..Turns
    <3>1. N - 1 \in 0 .. Turns - 1 /\ (N - 1) + 1 = N /\ N - 1 \in 0 .. N - 1 /\ N - 1 \in 0..Turns
      BY <1>1, <1>3
    <3> QED
      BY <3>1
  <2>2. PICK b, t : b = w[n] /\ t = w[N] /\ b.end = "no" /\ t = QuoteOn(b)
    BY <2>1 DEF QuoteRun
  <2>3. RunAt(b, n, contract, down, specified)
    BY <2>1, <2>2, RunHolds
  <2>4. Going(b) /\ t = Turn(b)
    BY <2>2, <2>3 DEF RunAt, QuoteOn
  <2>5. PICK next \in Ticks, to \in Ratios : \E step : TurnTook(t, b, next, to, step)
    BY <1>1, <2>4, TurnIs
  <2>6. PICK step : TurnTook(t, b, next, to, step)
    BY <2>5
  <2>7. t.end = IF step.price = PriceAt(next) /\ t.liquidity = 0 THEN "dry"
                ELSE IF t.left = 0 THEN "filled"
                ELSE IF t.price = Limit(b.down) THEN "limit"
                ELSE "no"
    BY <2>6 DEF TurnTook
  <2> QED
    BY <2>2, <2>7
<1> QED
  BY <1>2, <1>3

(* From QuoteBought.                                                       *)
LEMMA QuoteBuysHolds == ASSUME PoolsInv, QuoteInv, QuoteCame PROVE QuoteBuys
<1>1. SUFFICES ASSUME quote.end = "filled", quote.specified < 0, Roomy(quote.calculated)
               PROVE  Result(quote.contract, quote.down, quote.calculated).calculated >= -quote.specified
  BY DEF QuoteBuys
<1>2. quote # Idle /\ quote.end # "no"
  BY <1>1 DEF Idle
<1>3. Here /\ Quotes(quote) /\ quote.specified \in 1 - Word .. Word - 1
  BY <1>2, QuotedHere
<1>4. PICK contract \in Contracts, down \in BOOLEAN, specified \in 1 - Word .. Word - 1, N \in 0..Turns :
        /\ contract = quote.contract /\ down = quote.down /\ specified = quote.specified /\ N = quote.turns
  BY <1>3 DEF Quotes
<1>5. PICK w : QuoteRun(w, contract, down, specified)
  BY ResultIs
<1>6. w[N] = quote /\ \A n \in 0 .. N - 1 : w[n].end = "no"
  BY <1>2, <1>3, <1>4, <1>5, QuoteResult
<1>7. w[N].left = 0
  BY <1>1, <1>3, <1>5, <1>6, FilledIs
<1>8. -specified <= Result(contract, down, quote.calculated).calculated
  BY <1>1, <1>3, <1>4, <1>5, <1>6, <1>7, QuoteBought
<1>9. Result(contract, down, quote.calculated).calculated \in Nat
  <2>1. RunAt(w[N], N, contract, down, specified)
    BY <1>3, <1>5, RunHolds
  <2>2. quote.calculated \in Nat
    BY <1>6, <2>1 DEF RunAt
  <2>3. quote.calculated \in 1 - Word .. Word - 1
    BY <1>1, <1>3, <2>2, RoomyIs, WordIs
  <2>4. PICK u : QuoteRun(u, contract, down, quote.calculated)
                 /\ Result(contract, down, quote.calculated) = u[Turns]
    BY ResultIs
  <2>5. Turns \in 0..Turns
    BY TurnsAre
  <2>6. RunAt(u[Turns], Turns, contract, down, quote.calculated)
    BY <1>3, <2>3, <2>4, <2>5, RunHolds
  <2> QED
    BY <2>4, <2>6 DEF RunAt
<1>10. specified \in Int
  BY WordIs
<1> QED
  BY <1>4, <1>8, <1>9, <1>10

(* What v3_swap tells of a pool in step is what the contract's swap does.  *)
(* For an input, whatever the direction, fee and liquidity, the contract   *)
(* pays what was quoted, but for a unit of output and what a cost in two   *)
(* parts takes more at each border of a bitmap word; where the fee         *)
(* misleads (RamsesV2) it pays, for the amount measured, what the measured *)
(* factor makes of the quote, if it pays at all. Where the fee is known    *)
(* (UniswapV3) a quote that did not run dry promises all that is paid; and *)
(* the input quoted for an output buys that output. The latter two are of  *)
(* amounts of which no product with a price leaves the word.               *)
THEOREM QuotesExecute == PoolsSpec => []Executable
<1>1. PoolsInit => QuoteInv /\ QuoteCame
  BY DEF PoolsInit, IdentifyAndFetchPool, QuoteInit, QuoteInv, QuoteCame
<1>2. PoolsInv /\ QuoteInv /\ QuoteCame /\ [PoolsNext]_poolVars => QuoteInv' /\ QuoteCame'
  BY QuoteStep, QuoteCameStep
<1>3. PoolsInv /\ QuoteInv /\ QuoteCame => Executable
  BY QuotePaidHolds, QuoteTightHolds, QuoteBuysHolds DEF Executable
<1> QED
  BY <1>1, <1>2, <1>3, PoolsInvHolds, PTL DEF PoolsSpec
=============================================================================
