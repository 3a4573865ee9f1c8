---------------------------- MODULE PoolsProofs ----------------------------
(***************************************************************************)
(* Theorems of Pools, and of the V3Pool and V2Pool it is made of.          *)
(*                                                                         *)
(* A V3 pool: its table of ticks is a fold over a stream of Mint, Burn and *)
(* Swap events, and the properties compare it with sums over the positions *)
(* the contract holds.  The invariant keeps the way the chain took since   *)
(* the pool was last where the pool now is: h[0] is that state, h[n] the   *)
(* one after n of the events on their way (Follows).  A step of the chain  *)
(* lengthens h, one of the follower drops h[0]; what one event does to the *)
(* table is what one change of a position does to the sums, provided that  *)
(* no operation saturates, which the widths of V3Assumption exclude        *)
(* (Widths, StartedBounded).                                               *)
(*                                                                         *)
(* A pair: the last Sync on its way holds the contract's reserves.  The    *)
(* quote of the constant product leaves the least of the reserve that      *)
(* keeps the product from falling (ProductQuote); that of the stable curve *)
(* leaves a y at which the turns of get_y have seen the curve as high as   *)
(* it was (GetYSeeks), whatever way they took.                             *)
(*                                                                         *)
(* A quote of a V3 pool: mul_div is exact, by the Chinese remainders of    *)
(* its two words and by Newton's inverse, which has twice the bits right   *)
(* after each step (MulDivExact); what compute_swap_step says of amounts   *)
(* and of the price follows from roundings that all go the same way        *)
(* (SwapStepSound).  A turn of v3_swap then ends where liquidity, tick and *)
(* price belong together (TurnDown, TurnUp), because the cached table has  *)
(* every tick at which the liquidity changes (ActiveSame), and one that is *)
(* not the last has crossed a tick (InTime).                               *)
(***************************************************************************)
EXTENDS Pools, TLAPS, FiniteSetTheorems, WellFoundedInduction
-----------------------------------------------------------------------------
(* Sums of a function over finite sets. *)

(* Induction: of a family of subsets of a finite set one is smallest.      *)
LEMMA SmallestSet ==
    ASSUME NEW U, IsFiniteSet(U), NEW F \in SUBSET (SUBSET U), F # {}
    PROVE  \E S \in F : \A T \in F : T \subseteq S => T = S
<1>1. IsWellFoundedOn(StrictSubsetOrdering(U), FiniteSubsetsOf(U))
  BY FS_StrictSubsetOrderingWellFounded
<1>2. F \subseteq FiniteSubsetsOf(U)
  BY FS_FiniteSubsetsOfFinite
<1>3. PICK S \in F : \A T \in F : <<T, S>> \notin StrictSubsetOrdering(U)
  BY <1>1, <1>2, WFMin
<1> QED
  BY <1>3 DEF StrictSubsetOrdering

(* And of numbers one is least.                                            *)
LEMMA SmallestNumber ==
    ASSUME NEW T \in SUBSET Nat, T # {} PROVE \E n \in T : \A k \in T : ~(k < n)
<1> DEFINE below == {couple \in Nat \X Nat : couple[1] < couple[2]}
<1>1. OpToRel(<, Nat) = below
  BY Zenon DEF OpToRel
<1>2. IsWellFoundedOn(below, Nat)
  BY <1>1, NatLessThanWellFounded, Zenon
<1>3. \E n \in T : \A k \in T : <<k, n>> \notin below
  <2> HIDE DEF below
  <2> QED
    BY <1>2, WFMin
<1> QED
  BY <1>3

SumOf(p, S) == MapThenSumSet(LAMBDA r : p[r], S)

(* The function over the subsets of S by which MapThenSumSet is defined.   *)
Pick(S) == CHOOSE r \in S : TRUE
Adds(p, g, S) ==
    g = [T \in SUBSET S |-> IF T = {} THEN 0 ELSE p[Pick(T)] + g[T \ {Pick(T)}]]

LEMMA SumIs == ASSUME NEW p, NEW S PROVE SumOf(p, S) = (CHOOSE g : Adds(p, g, S))[S]
BY Zenon DEF SumOf, Adds, Pick, MapThenSumSet, MapThenFoldSet

LEMMA AddsIs ==
    ASSUME NEW p, NEW g, NEW S, Adds(p, g, S), NEW T \in SUBSET S
    PROVE  g[T] = IF T = {} THEN 0 ELSE p[Pick(T)] + g[T \ {Pick(T)}]
BY DEF Adds

LEMMA AddsUnique ==
    ASSUME NEW p, NEW g, NEW h, NEW S, IsFiniteSet(S), Adds(p, g, S), Adds(p, h, S)
    PROVE  g[S] = h[S]
<1> DEFINE F == {T \in SUBSET S : g[T] # h[T]}
<1>1. SUFFICES ASSUME F # {} PROVE FALSE
  OBVIOUS
<1>2. PICK T \in F : \A R \in F : R \subseteq T => R = T
  <2>1. F \in SUBSET (SUBSET S)
    OBVIOUS
  <2> HIDE DEF F
  <2> QED
    BY <1>1, <2>1, SmallestSet
<1>3. T # {}
  BY AddsIs
<1>4. Pick(T) \in T
  BY <1>3 DEF Pick
<1>5. T \ {Pick(T)} \notin F
  BY <1>2, <1>4
<1>6. g[T \ {Pick(T)}] = h[T \ {Pick(T)}]
  BY <1>5
<1> QED
  BY <1>2, <1>3, <1>6, AddsIs

LEMMA SumOfSubset ==
    ASSUME NEW p, NEW g, NEW U, IsFiniteSet(U), Adds(p, g, U), NEW S \in SUBSET U
    PROVE  SumOf(p, S) = g[S]
<1> DEFINE h == [T \in SUBSET S |-> g[T]]
<1>1. Adds(p, h, S)
  <2>1. ASSUME NEW T \in SUBSET S
        PROVE  h[T] = IF T = {} THEN 0 ELSE p[Pick(T)] + h[T \ {Pick(T)}]
    <3>1. g[T] = IF T = {} THEN 0 ELSE p[Pick(T)] + g[T \ {Pick(T)}]
      BY AddsIs
    <3>2. h[T] = g[T] /\ h[T \ {Pick(T)}] = g[T \ {Pick(T)}]
      OBVIOUS
    <3> QED
      BY <3>1, <3>2
  <2> QED
    BY <2>1 DEF Adds
<1>2. Adds(p, CHOOSE f : Adds(p, f, S), S)
  BY <1>1
<1>3. IsFiniteSet(S)
  BY FS_Subset
<1>4. (CHOOSE f : Adds(p, f, S))[S] = h[S]
  <2> HIDE DEF h
  <2> QED
    BY <1>1, <1>2, <1>3, AddsUnique
<1> QED
  BY <1>4, SumIs

LEMMA AddsExists == ASSUME NEW p, NEW U, IsFiniteSet(U) PROVE \E g : Adds(p, g, U)
<1> DEFINE F == {S \in SUBSET U : ~ \E g : Adds(p, g, S)}
<1>1. SUFFICES ASSUME F # {} PROVE FALSE
  OBVIOUS
<1>2. PICK S \in F : \A R \in F : R \subseteq S => R = S
  <2>1. F \in SUBSET (SUBSET U)
    OBVIOUS
  <2> HIDE DEF F
  <2> QED
    BY <1>1, <2>1, SmallestSet
<1> DEFINE next(T) == IF T = {} THEN 0 ELSE p[Pick(T)] + SumOf(p, T \ {Pick(T)})
           h == [T \in SUBSET S |-> next(T)]
<1>3. ASSUME NEW T \in SUBSET S, T # S PROVE SumOf(p, T) = next(T)
  <2>1. T \notin F
    BY <1>2, <1>3
  <2>2. PICK g : Adds(p, g, T)
    BY <2>1
  <2>3. IsFiniteSet(T)
    BY FS_Subset
  <2>4. SumOf(p, T) = g[T] /\ SumOf(p, T \ {Pick(T)}) = g[T \ {Pick(T)}]
    BY <2>2, <2>3, SumOfSubset
  <2> QED
    BY <2>2, <2>4, AddsIs
<1>4. ASSUME NEW T \in SUBSET S PROVE h[T] = IF T = {} THEN 0 ELSE p[Pick(T)] + h[T \ {Pick(T)}]
  <2>1. CASE T = {}
    BY <2>1
  <2>2. CASE T # {}
    <3>1. Pick(T) \in T
      BY <2>2 DEF Pick
    <3>2. T \ {Pick(T)} \in SUBSET S /\ T \ {Pick(T)} # S
      BY <3>1
    <3>3. h[T \ {Pick(T)}] = SumOf(p, T \ {Pick(T)})
      BY <1>3, <3>2
    <3> QED
      BY <2>2, <3>3
  <2> QED
    BY <2>1, <2>2
<1>5. Adds(p, h, S)
  BY <1>4 DEF Adds
<1> QED
  BY <1>2, <1>5

LEMMA SumEmpty == ASSUME NEW p PROVE SumOf(p, {}) = 0
<1>1. PICK g : Adds(p, g, {})
  BY AddsExists, FS_EmptySet
<1> QED
  BY <1>1, AddsIs, SumOfSubset, FS_EmptySet

LEMMA SumPicked ==
    ASSUME NEW p, NEW S, IsFiniteSet(S), S # {}
    PROVE  Pick(S) \in S /\ SumOf(p, S) = p[Pick(S)] + SumOf(p, S \ {Pick(S)})
<1>1. PICK g : Adds(p, g, S)
  BY AddsExists
<1>2. SumOf(p, S) = g[S] /\ SumOf(p, S \ {Pick(S)}) = g[S \ {Pick(S)}]
  BY <1>1, SumOfSubset
<1>3. g[S] = p[Pick(S)] + g[S \ {Pick(S)}]
  BY <1>1, AddsIs
<1> QED
  BY <1>2, <1>3 DEF Pick

LEMMA SumNat ==
    ASSUME NEW S, IsFiniteSet(S), NEW p, \A r \in S : p[r] \in Nat PROVE SumOf(p, S) \in Nat
<1> DEFINE F == {T \in SUBSET S : SumOf(p, T) \notin Nat}
<1>1. SUFFICES ASSUME F # {} PROVE FALSE
  OBVIOUS
<1>2. PICK T \in F : \A R \in F : R \subseteq T => R = T
  <2>1. F \in SUBSET (SUBSET S)
    OBVIOUS
  <2> HIDE DEF F
  <2> QED
    BY <1>1, <2>1, SmallestSet
<1>3. T # {} /\ IsFiniteSet(T)
  <2>1. SumOf(p, {}) = 0
    BY SumEmpty
  <2>2. T # {}
    BY <2>1
  <2>3. IsFiniteSet(T)
    BY FS_Subset
  <2> QED
    BY <2>2, <2>3
<1>4. Pick(T) \in T /\ SumOf(p, T) = p[Pick(T)] + SumOf(p, T \ {Pick(T)})
  BY <1>3, SumPicked
<1>5. T \ {Pick(T)} \notin F
  BY <1>2, <1>4
<1> QED
  BY <1>2, <1>4, <1>5

LEMMA SumZero ==
    ASSUME NEW S, IsFiniteSet(S), NEW p, \A r \in S : p[r] = 0 PROVE SumOf(p, S) = 0
<1> DEFINE F == {T \in SUBSET S : SumOf(p, T) # 0}
<1>1. SUFFICES ASSUME F # {} PROVE FALSE
  OBVIOUS
<1>2. PICK T \in F : \A R \in F : R \subseteq T => R = T
  <2>1. F \in SUBSET (SUBSET S)
    OBVIOUS
  <2> HIDE DEF F
  <2> QED
    BY <1>1, <2>1, SmallestSet
<1>3. T # {} /\ IsFiniteSet(T)
  <2>1. SumOf(p, {}) = 0
    BY SumEmpty
  <2>2. T # {}
    BY <2>1
  <2>3. IsFiniteSet(T)
    BY FS_Subset
  <2> QED
    BY <2>2, <2>3
<1>4. Pick(T) \in T /\ SumOf(p, T) = p[Pick(T)] + SumOf(p, T \ {Pick(T)})
  BY <1>3, SumPicked
<1>5. T \ {Pick(T)} \notin F
  BY <1>2, <1>4
<1> QED
  BY <1>2, <1>4, <1>5

(* Equal functions have equal sums. *)
LEMMA SumSame ==
    ASSUME NEW S, IsFiniteSet(S), NEW p, NEW q, \A r \in S : p[r] = q[r]
    PROVE  SumOf(p, S) = SumOf(q, S)
<1> DEFINE F == {T \in SUBSET S : SumOf(p, T) # SumOf(q, T)}
<1>1. SUFFICES ASSUME F # {} PROVE FALSE
  OBVIOUS
<1>2. PICK T \in F : \A R \in F : R \subseteq T => R = T
  <2>1. F \in SUBSET (SUBSET S)
    OBVIOUS
  <2> HIDE DEF F
  <2> QED
    BY <1>1, <2>1, SmallestSet
<1>3. T # {} /\ IsFiniteSet(T)
  <2>1. SumOf(p, {}) = SumOf(q, {})
    BY SumEmpty
  <2>2. T # {}
    BY <2>1
  <2>3. IsFiniteSet(T)
    BY FS_Subset
  <2> QED
    BY <2>2, <2>3
<1>4. /\ Pick(T) \in T /\ SumOf(p, T) = p[Pick(T)] + SumOf(p, T \ {Pick(T)})
      /\ SumOf(q, T) = q[Pick(T)] + SumOf(q, T \ {Pick(T)})
  BY <1>3, SumPicked
<1>5. T \ {Pick(T)} \notin F
  BY <1>2, <1>4
<1> QED
  BY <1>2, <1>4, <1>5

(* The order of adding does not matter. *)
LEMMA SumWithout ==
    ASSUME NEW S, IsFiniteSet(S), NEW p, \A r \in S : p[r] \in Nat, NEW x \in S
    PROVE  SumOf(p, S) = p[x] + SumOf(p, S \ {x})
<1> DEFINE F == {T \in SUBSET S : \E y \in T : SumOf(p, T) # p[y] + SumOf(p, T \ {y})}
<1>1. SUFFICES ASSUME F # {} PROVE FALSE
  OBVIOUS
<1>2. PICK T \in F : \A R \in F : R \subseteq T => R = T
  <2>1. F \in SUBSET (SUBSET S)
    OBVIOUS
  <2> HIDE DEF F
  <2> QED
    BY <1>1, <2>1, SmallestSet
<1>3. PICK y \in T : SumOf(p, T) # p[y] + SumOf(p, T \ {y})
  OBVIOUS
<1>4. PICK z : z = Pick(T)
  OBVIOUS
<1>5. IsFiniteSet(T) /\ z \in T /\ SumOf(p, T) = p[z] + SumOf(p, T \ {z})
  <2>1. IsFiniteSet(T)
    BY FS_Subset
  <2> QED
    BY <1>3, <1>4, <2>1, SumPicked
<1>6. y # z
  BY <1>3, <1>5
<1>7. T \ {z} \notin F /\ T \ {y} \notin F
  BY <1>2, <1>3, <1>5
<1>8. SumOf(p, T \ {z}) = p[y] + SumOf(p, (T \ {z}) \ {y})
  BY <1>3, <1>6, <1>7
<1>9. SumOf(p, T \ {y}) = p[z] + SumOf(p, (T \ {y}) \ {z})
  BY <1>5, <1>6, <1>7
<1>10. (T \ {z}) \ {y} = (T \ {y}) \ {z}
  OBVIOUS
<1>11. SumOf(p, (T \ {y}) \ {z}) \in Nat /\ p[y] \in Nat /\ p[z] \in Nat
  <2>1. IsFiniteSet((T \ {y}) \ {z}) /\ \A r \in (T \ {y}) \ {z} : p[r] \in Nat
    BY <1>5, FS_Subset
  <2> QED
    BY <1>5, <2>1, SumNat
<1> QED
  BY <1>3, <1>5, <1>8, <1>9, <1>10, <1>11

(* The sum over two disjoint sets. *)
LEMMA SumUnion ==
    ASSUME NEW S, IsFiniteSet(S), NEW R, IsFiniteSet(R), S \cap R = {},
           NEW p, \A r \in S \cup R : p[r] \in Nat
    PROVE  SumOf(p, S \cup R) = SumOf(p, S) + SumOf(p, R)
<1> DEFINE F == {T \in SUBSET R : SumOf(p, S \cup T) # SumOf(p, S) + SumOf(p, T)}
<1>1. SUFFICES ASSUME F # {} PROVE FALSE
  OBVIOUS
<1>2. PICK T \in F : \A P \in F : P \subseteq T => P = T
  <2>1. F \in SUBSET (SUBSET R)
    OBVIOUS
  <2> HIDE DEF F
  <2> QED
    BY <1>1, <2>1, SmallestSet
<1>3. SumOf(p, S) \in Nat
  BY SumNat
<1>4. T # {}
  <2>1. SumOf(p, {}) = 0 /\ S \cup {} = S
    BY SumEmpty
  <2> QED
    BY <1>3, <2>1
<1>5. PICK x \in T : TRUE
  BY <1>4
<1>6. IsFiniteSet(T) /\ IsFiniteSet(S \cup T)
  BY FS_Subset, FS_Union
<1>7. SumOf(p, T) = p[x] + SumOf(p, T \ {x})
  BY <1>6, SumWithout
<1>8. SumOf(p, S \cup T) = p[x] + SumOf(p, S \cup (T \ {x}))
  <2>1. (S \cup T) \ {x} = S \cup (T \ {x})
    OBVIOUS
  <2> QED
    BY <1>6, <2>1, SumWithout
<1>9. SumOf(p, S \cup (T \ {x})) = SumOf(p, S) + SumOf(p, T \ {x})
  BY <1>2, <1>5
<1>10. SumOf(p, T \ {x}) \in Nat /\ p[x] \in Nat
  <2>1. IsFiniteSet(T \ {x})
    BY <1>6, FS_Subset
  <2> QED
    BY <2>1, SumNat
<1> QED
  BY <1>2, <1>3, <1>7, <1>8, <1>9, <1>10

LEMMA SumMonotone ==
    ASSUME NEW R, IsFiniteSet(R), NEW S \in SUBSET R, NEW p, \A r \in R : p[r] \in Nat
    PROVE  SumOf(p, S) <= SumOf(p, R) /\ \A x \in S : p[x] <= SumOf(p, S)
<1>1. IsFiniteSet(S) /\ IsFiniteSet(R \ S) /\ R = S \cup (R \ S)
  BY FS_Subset
<1>2. SumOf(p, S) \in Nat /\ SumOf(p, R \ S) \in Nat
  BY <1>1, SumNat
<1>3. SumOf(p, R) = SumOf(p, S) + SumOf(p, R \ S)
  BY <1>1, SumUnion
<1>4. ASSUME NEW x \in S PROVE p[x] <= SumOf(p, S)
  <2>1. IsFiniteSet(S \ {x})
    BY <1>1, FS_Subset
  <2>2. SumOf(p, S \ {x}) \in Nat
    BY <2>1, SumNat
  <2> QED
    BY <1>1, <2>2, SumWithout
<1> QED
  BY <1>2, <1>3, <1>4

(* One summand changes. *)
LEMMA SumChanged ==
    ASSUME NEW S, IsFiniteSet(S), NEW p, \A r \in S : p[r] \in Nat, NEW x, NEW q,
           \A r \in S \ {x} : q[r] = p[r], q[x] \in Nat
    PROVE  SumOf(q, S) = IF x \in S THEN SumOf(p, S) - p[x] + q[x] ELSE SumOf(p, S)
<1>1. CASE x \notin S
  BY <1>1, SumSame
<1>2. CASE x \in S
  <2>1. IsFiniteSet(S \ {x})
    BY FS_Subset
  <2>2. SumOf(q, S \ {x}) = SumOf(p, S \ {x})
    BY <2>1, SumSame
  <2>3. SumOf(q, S) = q[x] + SumOf(q, S \ {x}) /\ SumOf(p, S) = p[x] + SumOf(p, S \ {x})
    <3>1. \A r \in S : q[r] \in Nat
      OBVIOUS
    <3> QED
      BY <1>2, <3>1, SumWithout
  <2>4. SumOf(p, S \ {x}) \in Nat /\ p[x] \in Nat
    BY <1>2, <2>1, SumNat
  <2> QED
    BY <1>2, <2>2, <2>3, <2>4
<1> QED
  BY <1>1, <1>2
-----------------------------------------------------------------------------
(* What V3Pool says of the chain, of any distribution p of liquidity over  *)
(* the ranges and of any state c of the chain.                             *)

Covering(t) == {r \in Ranges : Over(r, t)}
Starting(t) == {r \in Ranges : r[1] = t}
Ending(t) == {r \in Ranges : r[2] = t}

ActiveIn(p, t) == SumOf(p, Covering(t))
GrossIn(p, t) == SumOf(p, Starting(t)) + SumOf(p, Ending(t))
NetIn(p, t) == SumOf(p, Starting(t)) - SumOf(p, Ending(t))

TableOf(nets, grosses) ==
    [t \in {u \in Ticks : grosses[u] > 0} |-> [net |-> nets[t], gross |-> grosses[t]]]
NetsOf(p) == [t \in Ticks |-> NetIn(p, t)]
GrossesOf(p) == [t \in Ticks |-> GrossIn(p, t)]
TableIn(p) == TableOf(NetsOf(p), GrossesOf(p))

(* One value of a function is replaced, or added to.                       *)
With(p, r, v) == [p EXCEPT ![r] = v]
Plus(f, t, n) == [f EXCEPT ![t] = @ + n]

FetchedIn(c) ==
    [price |-> c.price, tick |-> c.tick,
     liquidity |-> ActiveIn(c.positions, c.tick), ticks |-> TableIn(c.positions)]

(* The contract lets no tick have more than maxLiquidityPerTick.           *)
Allowed(p) == p \in [Ranges -> Nat] /\ \A t \in Ticks : GrossIn(p, t) <= MaxPerTick

Now == [positions |-> positions, price |-> price, tick |-> tick]

LEMMA RangesFinite ==
    /\ IsFiniteSet(Ticks) /\ IsFiniteSet(Ranges) /\ Ticks \subseteq Int
    /\ \A r \in Ranges : r[1] \in Ticks /\ r[2] \in Ticks /\ r[1] < r[2] /\ r[1] # r[2]
<1>1. MinTick \in Int /\ MaxTick \in Int /\ Ranges \subseteq {r \in Ticks \X Ticks : r[1] < r[2]}
  BY MathAssumption, V3Assumption
<1>2. IsFiniteSet(Ticks) /\ Ticks \subseteq Int
  BY <1>1, FS_Interval DEF Ticks
<1>3. IsFiniteSet(Ticks \X Ticks)
  BY <1>2, FS_Product
<1>4. IsFiniteSet(Ranges)
  BY <1>1, <1>3, FS_Subset
<1>5. ASSUME NEW r \in Ranges
      PROVE  r[1] \in Ticks /\ r[2] \in Ticks /\ r[1] < r[2] /\ r[1] # r[2]
  <2>1. r[1] \in Ticks /\ r[2] \in Ticks /\ r[1] < r[2]
    BY <1>1
  <2>2. r[1] \in Int /\ r[2] \in Int
    BY <1>2, <2>1
  <2> QED
    BY <2>1, <2>2
<1> QED
  BY <1>2, <1>4, <1>5

LEMMA Sides ==
    ASSUME NEW t
    PROVE  /\ IsFiniteSet(Covering(t)) /\ IsFiniteSet(Starting(t)) /\ IsFiniteSet(Ending(t))
           /\ Covering(t) \subseteq Ranges /\ Starting(t) \subseteq Ranges /\ Ending(t) \subseteq Ranges
           /\ Starting(t) \cap Ending(t) = {}
           /\ {r \in Ranges : t \in {r[1], r[2]}} = Starting(t) \cup Ending(t)
<1>1. /\ Covering(t) \subseteq Ranges /\ Starting(t) \subseteq Ranges /\ Ending(t) \subseteq Ranges
      /\ {r \in Ranges : t \in {r[1], r[2]}} = Starting(t) \cup Ending(t)
  BY DEF Covering, Starting, Ending
<1>2. Starting(t) \cap Ending(t) = {}
  <2>1. ASSUME NEW r \in Ranges PROVE r[1] # r[2]
    BY RangesFinite
  <2> QED
    BY <2>1 DEF Starting, Ending
<1> QED
  BY <1>1, <1>2, RangesFinite, FS_Subset

LEMMA TermsNat ==
    ASSUME NEW p \in [Ranges -> Nat], NEW t
    PROVE  /\ SumOf(p, Starting(t)) \in Nat /\ SumOf(p, Ending(t)) \in Nat
           /\ ActiveIn(p, t) \in Nat /\ GrossIn(p, t) \in Nat /\ NetIn(p, t) \in Int
           /\ -GrossIn(p, t) <= NetIn(p, t) /\ NetIn(p, t) <= GrossIn(p, t)
<1>1. /\ SumOf(p, Starting(t)) \in Nat /\ SumOf(p, Ending(t)) \in Nat
      /\ SumOf(p, Covering(t)) \in Nat
  BY Sides, SumNat
<1> QED
  BY <1>1 DEF ActiveIn, GrossIn, NetIn

(* The definitions of the model are these, of what the chain holds now.    *)
LEMMA FetchedNow ==
    ASSUME positions \in [Ranges -> Nat]
    PROVE  /\ \A t : Gross(t) = GrossIn(positions, t) /\ Active(t) = ActiveIn(positions, t)
           /\ Fetched = FetchedIn(Now)
<1>1. ASSUME NEW t
      PROVE  /\ Gross(t) = GrossIn(positions, t) /\ Net(t) = NetIn(positions, t)
             /\ Active(t) = ActiveIn(positions, t)
  <2>1. /\ Gross(t) = SumOf(positions, {r \in Ranges : t \in {r[1], r[2]}})
        /\ Net(t) = NetIn(positions, t) /\ Active(t) = ActiveIn(positions, t)
    BY DEF Gross, Net, Active, Sum, SumOf, NetIn, ActiveIn, Starting, Ending, Covering
  <2>2. SumOf(positions, Starting(t) \cup Ending(t)) = GrossIn(positions, t)
    BY Sides, SumUnion DEF GrossIn
  <2> QED
    BY <2>1, <2>2, Sides
<1>2. Table = TableIn(positions)
  BY <1>1 DEF Table, TableIn, TableOf, NetsOf, GrossesOf
<1> QED
  BY <1>1, <1>2 DEF Fetched, FetchedIn, Now

(* The liquidity of the ranges that start in a set of ticks; so no tick    *)
(* can be under more liquidity than a u128 holds.                          *)
LEMMA StartedBounded ==
    ASSUME NEW p, Allowed(p)
    PROVE  SumOf(p, Ranges) <= MaxPerTick * Cardinality(Ticks)
<1> DEFINE started(S) == {r \in Ranges : r[1] \in S}
           F == {S \in SUBSET Ticks : ~(SumOf(p, started(S)) <= MaxPerTick * Cardinality(S))}
<1>0. p \in [Ranges -> Nat] /\ MaxPerTick \in Nat
  BY V3Assumption DEF Allowed
<1>1. F = {}
  <2>1. SUFFICES ASSUME F # {} PROVE FALSE
    OBVIOUS
  <2>2. PICK S \in F : \A T \in F : T \subseteq S => T = S
    <3>1. F \in SUBSET (SUBSET Ticks)
      OBVIOUS
    <3>2. IsFiniteSet(Ticks)
      BY RangesFinite
    <3> HIDE DEF F
    <3> QED
      BY <2>1, <3>1, <3>2, SmallestSet
  <2>3. S # {}
    <3>1. started({}) = {}
      OBVIOUS
    <3>2. SumOf(p, started({})) = 0 /\ Cardinality({}) = 0
      BY <3>1, SumEmpty, FS_EmptySet
    <3>3. SumOf(p, started({})) <= MaxPerTick * Cardinality({})
      <4> HIDE DEF started
      <4> QED
        BY <1>0, <3>2
    <3> QED
      BY <3>3
  <2>4. PICK t \in S : TRUE
    BY <2>3
  <2>5. /\ IsFiniteSet(S \ {t}) /\ Cardinality(S) \in Nat
        /\ Cardinality(S \ {t}) = Cardinality(S) - 1
    <3>1. IsFiniteSet(S)
      BY RangesFinite, FS_Subset
    <3> QED
      BY <2>4, <3>1, FS_RemoveElement, FS_CardinalityType
  <2>6. SumOf(p, started(S \ {t})) <= MaxPerTick * Cardinality(S \ {t})
    BY <2>2, <2>4
  <2>7. /\ started(S) = started(S \ {t}) \cup Starting(t) /\ started(S \ {t}) \cap Starting(t) = {}
        /\ started(S \ {t}) \subseteq Ranges
    BY <2>4 DEF Starting
  <2>8. IsFiniteSet(started(S \ {t}))
    BY <2>7, RangesFinite, FS_Subset
  <2>9. SumOf(p, started(S)) = SumOf(p, started(S \ {t})) + SumOf(p, Starting(t))
    <3>1. PICK A, B : A = started(S \ {t}) /\ B = Starting(t)
      OBVIOUS
    <3>2. IsFiniteSet(A) /\ IsFiniteSet(B) /\ A \cap B = {} /\ \A r \in A \cup B : p[r] \in Nat
      BY <1>0, <2>7, <2>8, <3>1, Sides
    <3>3. SumOf(p, A \cup B) = SumOf(p, A) + SumOf(p, B)
      BY <3>2, SumUnion
    <3> QED
      BY <2>7, <3>1, <3>3
  <2>10. SumOf(p, Starting(t)) \in Nat /\ SumOf(p, Starting(t)) <= MaxPerTick
    <3>1. GrossIn(p, t) <= MaxPerTick
      BY <2>4 DEF Allowed
    <3> QED
      BY <1>0, <3>1, TermsNat DEF GrossIn
  <2>11. SumOf(p, started(S \ {t})) \in Nat
    BY <1>0, <2>7, <2>8, SumNat
  <2>12. SumOf(p, started(S)) <= MaxPerTick * Cardinality(S)
    <3> HIDE DEF started, F
    <3>1. MaxPerTick * (Cardinality(S) - 1) + MaxPerTick = MaxPerTick * Cardinality(S)
      BY <1>0, <2>5
    <3>2. MaxPerTick * (Cardinality(S) - 1) \in Int /\ MaxPerTick * Cardinality(S) \in Int
      BY <1>0, <2>5
    <3> QED
      BY <1>0, <2>5, <2>6, <2>9, <2>10, <2>11, <3>1, <3>2
  <2> QED
    BY <2>12
<1>2. started(Ticks) = Ranges
  BY RangesFinite
<1>3. Ticks \notin F
  BY <1>1
<1> QED
  BY <1>2, <1>3

LEMMA Widths ==
    /\ UMax \in Nat /\ IMax \in Nat /\ MaxPerTick \in Nat \ {0}
    /\ MaxPerTick <= IMax /\ MaxPerTick <= UMax /\ MaxPerTick * Cardinality(Ticks) <= UMax
<1>1. /\ MaxPerTick \in 1..IMax /\ MaxPerTick * Cardinality(Ticks) <= UMax
      /\ 2 ^ W \in Nat /\ 2 ^ (W - 1) \in Nat
  BY V3Assumption
<1>2. Cardinality(Ticks) \in Nat \ {0}
  <2>1. MinTick \in Ticks
    BY MathAssumption DEF Ticks
  <2> QED
    BY <2>1, RangesFinite, FS_CardinalityType, FS_EmptySet
<1>3. IMax \in Int /\ UMax \in Int
  BY <1>1 DEF IMax, UMax
<1>4. \A n \in Nat \ {0} : MaxPerTick <= MaxPerTick * n
  BY <1>1, <1>3
<1>5. MaxPerTick * Cardinality(Ticks) \in Int
  BY <1>1, <1>2, <1>3
<1> HIDE DEF IMax, UMax
<1> QED
  BY <1>1, <1>2, <1>3, <1>4, <1>5

LEMMA ActiveBounded ==
    ASSUME NEW p, Allowed(p), NEW t
    PROVE  ActiveIn(p, t) \in 0..UMax
<1>1. p \in [Ranges -> Nat]
  BY DEF Allowed
<1>2. ActiveIn(p, t) <= SumOf(p, Ranges)
  BY <1>1, Sides, RangesFinite, SumMonotone DEF ActiveIn
<1>3. SumOf(p, Ranges) <= MaxPerTick * Cardinality(Ticks)
  BY StartedBounded
<1>4. SumOf(p, Ranges) \in Nat /\ Cardinality(Ticks) \in Nat
  BY <1>1, RangesFinite, SumNat, FS_CardinalityType
<1>5. MaxPerTick * Cardinality(Ticks) \in Nat
  BY <1>4, Widths
<1> QED
  BY <1>1, <1>2, <1>3, <1>4, <1>5, TermsNat, Widths
-----------------------------------------------------------------------------
(* One position changes: the liquidity over the ticks of its range does,   *)
(* and the entries of its two ends.                                        *)
LEMMA PositionChanged ==
    ASSUME NEW p \in [Ranges -> Nat], NEW r \in Ranges, NEW v \in Nat,
           NEW q, q = With(p, r, v), NEW t
    PROVE  /\ q \in [Ranges -> Nat]
           /\ ActiveIn(q, t) = IF Over(r, t) THEN ActiveIn(p, t) - p[r] + v ELSE ActiveIn(p, t)
           /\ GrossIn(q, t) = IF t \in {r[1], r[2]} THEN GrossIn(p, t) - p[r] + v ELSE GrossIn(p, t)
           /\ NetIn(q, t) = IF t = r[1] THEN NetIn(p, t) - p[r] + v
                            ELSE IF t = r[2] THEN NetIn(p, t) + p[r] - v ELSE NetIn(p, t)
<1>1. ASSUME NEW S, IsFiniteSet(S), S \subseteq Ranges
      PROVE  SumOf(q, S) = IF r \in S THEN SumOf(p, S) - p[r] + v ELSE SumOf(p, S)
  <2>1. q[r] = v /\ (\A u \in S \ {r} : q[u] = p[u]) /\ (\A u \in S : p[u] \in Nat)
    BY <1>1 DEF With
  <2>2. q[r] \in Nat
    BY <2>1
  <2>3. SumOf(q, S) = IF r \in S THEN SumOf(p, S) - p[r] + q[r] ELSE SumOf(p, S)
    BY ONLY <1>1, <2>1, <2>2, SumChanged, Zenon
  <2> QED
    BY <2>1, <2>3
<1>2. /\ SumOf(q, Covering(t)) = IF Over(r, t) THEN SumOf(p, Covering(t)) - p[r] + v ELSE SumOf(p, Covering(t))
      /\ SumOf(q, Starting(t)) = IF r[1] = t THEN SumOf(p, Starting(t)) - p[r] + v ELSE SumOf(p, Starting(t))
      /\ SumOf(q, Ending(t)) = IF r[2] = t THEN SumOf(p, Ending(t)) - p[r] + v ELSE SumOf(p, Ending(t))
  <2>1. /\ r \in Covering(t) <=> Over(r, t)
        /\ r \in Starting(t) <=> r[1] = t
        /\ r \in Ending(t) <=> r[2] = t
    BY DEF Covering, Starting, Ending
  <2> QED
    BY <1>1, <2>1, Sides
<1>3. /\ SumOf(p, Covering(t)) \in Nat /\ SumOf(p, Starting(t)) \in Nat /\ SumOf(p, Ending(t)) \in Nat
      /\ p[r] \in Nat /\ r[1] # r[2]
  BY TermsNat, RangesFinite DEF ActiveIn
<1>4. q \in [Ranges -> Nat]
  BY DEF With
<1> QED
  BY <1>2, <1>3, <1>4 DEF ActiveIn, GrossIn, NetIn

(* A position is part of the gross liquidity of its two ends, and of the   *)
(* liquidity over every tick of its range.                                 *)
LEMMA PositionCounted ==
    ASSUME NEW p \in [Ranges -> Nat], NEW r \in Ranges, NEW t
    PROVE  /\ t \in {r[1], r[2]} => p[r] <= GrossIn(p, t)
           /\ Over(r, t) => p[r] <= ActiveIn(p, t)
<1>1. SumOf(p, Starting(t)) \in Nat /\ SumOf(p, Ending(t)) \in Nat /\ p[r] \in Nat
  BY TermsNat
<1>2. ASSUME NEW S, IsFiniteSet(S), S \subseteq Ranges, r \in S PROVE p[r] <= SumOf(p, S)
  <2>1. \A x \in S : p[x] \in Nat
    BY <1>2
  <2> QED
    BY <1>2, <2>1, SumMonotone
<1>3. t = r[1] => p[r] <= SumOf(p, Starting(t))
  BY <1>2, Sides DEF Starting
<1>4. t = r[2] => p[r] <= SumOf(p, Ending(t))
  <2>1. t = r[2] => r \in Ending(t)
    BY DEF Ending
  <2> QED
    BY <1>2, <2>1, Sides
<1>5. Over(r, t) => p[r] <= ActiveIn(p, t)
  <2>1. Over(r, t) => r \in Covering(t)
    BY DEF Covering
  <2> QED
    BY <1>2, <2>1, Sides DEF ActiveIn
<1>6. t \in {r[1], r[2]} => p[r] <= GrossIn(p, t)
  BY <1>1, <1>3, <1>4 DEF GrossIn
<1> QED
  BY <1>5, <1>6
-----------------------------------------------------------------------------
(* The saturating operations of apply_log, where nothing saturates.        *)
LEMMA Saturating ==
    ASSUME NEW x \in Int
    PROVE  /\ SatU(x) \in 0..UMax /\ SatI(x) \in -IMax - 1 .. IMax
           /\ x \in 0..UMax => SatU(x) = x
           /\ x > 0 => SatU(x) > 0
           /\ x \in -IMax .. IMax => SatI(x) = x
           /\ x \in 0..IMax => AsSigned(x) = x
<1>1. UMax \in Nat \ {0} /\ IMax \in Nat
  BY Widths
<1>2. \A a, b \in Int : Max({a, b}) = IF a >= b THEN a ELSE b
  BY DEF Max
<1>3. \A a, b \in Int : Min({a, b}) = IF a <= b THEN a ELSE b
  BY DEF Min
<1>4. SatU(x) = IF x < 0 THEN 0 ELSE IF x > UMax THEN UMax ELSE x
  BY <1>1, <1>2, <1>3 DEF SatU
<1>5. SatI(x) = IF x < -IMax - 1 THEN -IMax - 1 ELSE IF x > IMax THEN IMax ELSE x
  BY <1>1, <1>2, <1>3 DEF SatI
<1>6. x \in 0..IMax => AsSigned(x) = x
  BY <1>1 DEF AsSigned
<1> QED
  BY <1>1, <1>4, <1>5, <1>6

LEMMA PlusIs ==
    ASSUME NEW f \in [Ticks -> Int], NEW t \in Ticks, NEW n \in Int
    PROVE  /\ Plus(f, t, n) \in [Ticks -> Int]
           /\ \A u \in Ticks : Plus(f, t, n)[u] = IF u = t THEN f[u] + n ELSE f[u]
BY DEF Plus

(* Taking an amount into, or out of, one entry of the table.               *)
LEMMA MintedTable ==
    ASSUME NEW nets \in [Ticks -> Int], NEW grosses \in [Ticks -> Int], NEW t \in Ticks,
           NEW n \in Int, NEW a \in Int, a > 0, grosses[t] \in Nat,
           grosses[t] = 0 => nets[t] = 0,
           nets[t] + n \in -IMax .. IMax, grosses[t] + a \in 0..UMax
    PROVE  Minted(TableOf(nets, grosses), t, n, a) = TableOf(Plus(nets, t, n), Plus(grosses, t, a))
<1> DEFINE table == TableOf(nets, grosses)
           entry == [net |-> nets[t] + n, gross |-> grosses[t] + a]
           result == TableOf(Plus(nets, t, n), Plus(grosses, t, a))
<1>1. /\ DOMAIN table = {u \in Ticks : grosses[u] > 0}
      /\ \A u \in DOMAIN table : table[u] = [net |-> nets[u], gross |-> grosses[u]]
      /\ table = [u \in DOMAIN table |-> table[u]]
  BY DEF TableOf
<1>2. /\ DOMAIN result = DOMAIN table \cup {t}
      /\ \A u \in DOMAIN table \ {t} : result[u] = table[u]
      /\ result[t] = entry
      /\ result = [u \in DOMAIN result |-> result[u]]
  <2>1. /\ \A u \in Ticks : Plus(nets, t, n)[u] = IF u = t THEN nets[u] + n ELSE nets[u]
        /\ \A u \in Ticks : Plus(grosses, t, a)[u] = IF u = t THEN grosses[u] + a ELSE grosses[u]
    BY DEF Plus
  <2>2. /\ DOMAIN result = {u \in Ticks : Plus(grosses, t, a)[u] > 0}
        /\ \A u \in DOMAIN result :
              result[u] = [net |-> Plus(nets, t, n)[u], gross |-> Plus(grosses, t, a)[u]]
        /\ result = [u \in DOMAIN result |-> result[u]]
    BY DEF TableOf
  <2> HIDE DEF table, result
  <2>3. DOMAIN result = DOMAIN table \cup {t}
    BY <1>1, <2>1, <2>2
  <2> QED
    BY <1>1, <2>1, <2>2, <2>3
<1>3. ASSUME t \in DOMAIN table PROVE Minted(table, t, n, a) = result
  <2>1. SatU(grosses[t] + a) = grosses[t] + a /\ SatI(nets[t] + n) = nets[t] + n
    BY Saturating
  <2>2. table[t].net = nets[t] /\ table[t].gross = grosses[t]
    BY <1>1, <1>3
  <2> HIDE DEF table, result
  <2>3. Minted(table, t, n, a) = [table EXCEPT ![t] = entry]
    BY <1>3, <2>1, <2>2 DEF Minted
  <2> HIDE DEF entry
  <2> QED
    BY <1>1, <1>2, <1>3, <2>3
<1>4. ASSUME t \notin DOMAIN table PROVE Minted(table, t, n, a) = result
  <2>1. nets[t] = 0 /\ grosses[t] = 0
    BY <1>1, <1>4
  <2>2. entry = [net |-> n, gross |-> a]
    BY <2>1
  <2> HIDE DEF table, result, entry
  <2>3. Minted(table, t, n, a) = [u \in DOMAIN table \cup {t} |-> IF u = t THEN entry ELSE table[u]]
    BY <1>4, <2>2 DEF Minted, UpdateTick
  <2> QED
    BY <1>2, <1>4, <2>3
<1> QED
  BY <1>3, <1>4

LEMMA BurnedTable ==
    ASSUME NEW nets \in [Ticks -> Int], NEW grosses \in [Ticks -> Int], NEW t \in Ticks,
           NEW n \in Int, NEW a \in 0..grosses[t], grosses[t] \in 1..UMax,
           nets[t] + n \in -IMax .. IMax
    PROVE  Burned(TableOf(nets, grosses), t, n, a) = TableOf(Plus(nets, t, n), Plus(grosses, t, -a))
<1> DEFINE table == TableOf(nets, grosses)
           entry == [net |-> nets[t] + n, gross |-> grosses[t] - a]
           result == TableOf(Plus(nets, t, n), Plus(grosses, t, -a))
<1>1. /\ DOMAIN table = {u \in Ticks : grosses[u] > 0}
      /\ \A u \in DOMAIN table : table[u] = [net |-> nets[u], gross |-> grosses[u]]
      /\ t \in DOMAIN table
  BY Widths DEF TableOf
<1>2. /\ DOMAIN result = IF grosses[t] = a THEN DOMAIN table \ {t} ELSE DOMAIN table
      /\ \A u \in DOMAIN table \ {t} : result[u] = table[u]
      /\ grosses[t] # a => result[t] = entry
      /\ result = [u \in DOMAIN result |-> result[u]]
  <2>0. a \in Int /\ -a \in Int /\ a <= grosses[t] /\ grosses[t] \in Int /\ grosses[t] + (-a) = grosses[t] - a
    BY Widths
  <2>1. /\ \A u \in Ticks : Plus(nets, t, n)[u] = IF u = t THEN nets[u] + n ELSE nets[u]
        /\ \A u \in Ticks : Plus(grosses, t, -a)[u] = IF u = t THEN grosses[u] + (-a) ELSE grosses[u]
    BY <2>0 DEF Plus
  <2>2. /\ DOMAIN result = {u \in Ticks : Plus(grosses, t, -a)[u] > 0}
        /\ \A u \in DOMAIN result :
              result[u] = [net |-> Plus(nets, t, n)[u], gross |-> Plus(grosses, t, -a)[u]]
        /\ result = [u \in DOMAIN result |-> result[u]]
    BY DEF TableOf
  <2> HIDE DEF table, result
  <2>3. DOMAIN result = IF grosses[t] = a THEN DOMAIN table \ {t} ELSE DOMAIN table
    BY <1>1, <2>0, <2>1, <2>2
  <2> QED
    BY <1>1, <2>0, <2>1, <2>2, <2>3
<1>3. Burned(table, t, n, a) = UpdateTick(table, t, entry)
  <2>1. grosses[t] - a \in 0..UMax /\ nets[t] + n \in Int
    BY Widths
  <2>2. SatU(grosses[t] - a) = grosses[t] - a /\ SatI(nets[t] + n) = nets[t] + n
    BY <2>1, Saturating
  <2>3. table[t].net = nets[t] /\ table[t].gross = grosses[t]
    BY <1>1
  <2> HIDE DEF table
  <2> QED
    BY <2>2, <2>3 DEF Burned
<1>4. ASSUME grosses[t] = a PROVE Burned(table, t, n, a) = result
  <2>1. entry.gross = 0
    BY <1>4, Widths
  <2> HIDE DEF table, result, entry
  <2>2. UpdateTick(table, t, entry) = [u \in DOMAIN table \ {t} |-> table[u]]
    BY <2>1 DEF UpdateTick, Restrict
  <2> QED
    BY <1>2, <1>3, <1>4, <2>2
<1>5. ASSUME grosses[t] # a PROVE Burned(table, t, n, a) = result
  <2>1. entry.gross # 0
    <3>1. entry.gross = grosses[t] - a /\ grosses[t] \in Int /\ a \in Int
      BY Widths
    <3> QED
      BY <1>5, <3>1
  <2> HIDE DEF table, result, entry
  <2>2. UpdateTick(table, t, entry) = [u \in DOMAIN table \cup {t} |-> IF u = t THEN entry ELSE table[u]]
    BY <2>1 DEF UpdateTick
  <2> QED
    BY <1>1, <1>2, <1>3, <1>5, <2>2
<1> QED
  BY <1>4, <1>5

(* The entries of an allowed distribution are within the widths.           *)
LEMMA EntriesBounded ==
    ASSUME NEW p, Allowed(p), NEW t \in Ticks
    PROVE  /\ NetsOf(p)[t] = NetIn(p, t) /\ GrossesOf(p)[t] = GrossIn(p, t)
           /\ GrossIn(p, t) \in 0..MaxPerTick /\ GrossIn(p, t) \in 0..UMax
           /\ NetIn(p, t) \in -MaxPerTick .. MaxPerTick /\ NetIn(p, t) \in -IMax .. IMax
           /\ GrossIn(p, t) \in Int /\ NetIn(p, t) \in Int
           /\ GrossIn(p, t) = 0 => NetIn(p, t) = 0
<1>1. p \in [Ranges -> Nat] /\ GrossIn(p, t) <= MaxPerTick
  BY DEF Allowed
<1>2. /\ GrossIn(p, t) \in Nat /\ NetIn(p, t) \in Int
      /\ -GrossIn(p, t) <= NetIn(p, t) /\ NetIn(p, t) <= GrossIn(p, t)
  BY <1>1, TermsNat
<1> QED
  BY <1>1, <1>2, Widths DEF NetsOf, GrossesOf

(* Two entries change when a position does.                                *)
LEMMA EntriesChanged ==
    ASSUME NEW p, Allowed(p), NEW r \in Ranges, NEW n \in Int, p[r] + n \in Nat,
           NEW q, q = With(p, r, p[r] + n), Allowed(q)
    PROVE  /\ NetsOf(p) \in [Ticks -> Int] /\ GrossesOf(p) \in [Ticks -> Int]
           /\ NetsOf(q) = Plus(Plus(NetsOf(p), r[1], n), r[2], -n)
           /\ GrossesOf(q) = Plus(Plus(GrossesOf(p), r[1], n), r[2], n)
           /\ \A t \in Ticks :
                /\ ActiveIn(q, t) = IF Over(r, t) THEN ActiveIn(p, t) + n ELSE ActiveIn(p, t)
                /\ GrossIn(q, t) = IF t \in {r[1], r[2]} THEN GrossIn(p, t) + n ELSE GrossIn(p, t)
                /\ NetIn(q, t) = IF t = r[1] THEN NetIn(p, t) + n
                                 ELSE IF t = r[2] THEN NetIn(p, t) - n ELSE NetIn(p, t)
<1>1. p \in [Ranges -> Nat] /\ p[r] \in Nat /\ r[1] \in Ticks /\ r[2] \in Ticks /\ r[1] # r[2] /\ -n \in Int
  BY RangesFinite DEF Allowed
<1>2. ASSUME NEW t \in Ticks
      PROVE  /\ ActiveIn(q, t) = IF Over(r, t) THEN ActiveIn(p, t) + n ELSE ActiveIn(p, t)
             /\ GrossIn(q, t) = IF t \in {r[1], r[2]} THEN GrossIn(p, t) + n ELSE GrossIn(p, t)
             /\ NetIn(q, t) = IF t = r[1] THEN NetIn(p, t) + n
                              ELSE IF t = r[2] THEN NetIn(p, t) - n ELSE NetIn(p, t)
  <2>1. PICK v \in Nat : v = p[r] + n
    OBVIOUS
  <2>2. ActiveIn(p, t) \in Nat /\ GrossIn(p, t) \in Nat /\ NetIn(p, t) \in Int
    BY <1>1, TermsNat
  <2>3. /\ ActiveIn(q, t) = IF Over(r, t) THEN ActiveIn(p, t) - p[r] + v ELSE ActiveIn(p, t)
        /\ GrossIn(q, t) = IF t \in {r[1], r[2]} THEN GrossIn(p, t) - p[r] + v ELSE GrossIn(p, t)
        /\ NetIn(q, t) = IF t = r[1] THEN NetIn(p, t) - p[r] + v
                         ELSE IF t = r[2] THEN NetIn(p, t) + p[r] - v ELSE NetIn(p, t)
    BY <1>1, <2>1, PositionChanged
  <2> QED
    BY <1>1, <2>1, <2>2, <2>3
<1>3. /\ NetsOf(p) \in [Ticks -> Int] /\ GrossesOf(p) \in [Ticks -> Int]
      /\ NetsOf(q) \in [Ticks -> Int] /\ GrossesOf(q) \in [Ticks -> Int]
  BY EntriesBounded DEF NetsOf, GrossesOf
<1>4. /\ Plus(NetsOf(p), r[1], n) \in [Ticks -> Int]
      /\ Plus(GrossesOf(p), r[1], n) \in [Ticks -> Int]
  BY <1>1, <1>3, PlusIs
<1>5. NetsOf(q) = Plus(Plus(NetsOf(p), r[1], n), r[2], -n)
  <2>1. Plus(Plus(NetsOf(p), r[1], n), r[2], -n) \in [Ticks -> Int]
    BY <1>1, <1>4, PlusIs
  <2>2. ASSUME NEW t \in Ticks PROVE NetsOf(q)[t] = Plus(Plus(NetsOf(p), r[1], n), r[2], -n)[t]
    <3>1. NetsOf(p)[t] = NetIn(p, t) /\ NetsOf(q)[t] = NetIn(q, t) /\ NetIn(p, t) \in Int
      BY EntriesBounded
    <3>2. Plus(NetsOf(p), r[1], n)[t] = IF t = r[1] THEN NetIn(p, t) + n ELSE NetIn(p, t)
      BY <1>1, <1>3, <3>1 DEF Plus
    <3>3. Plus(Plus(NetsOf(p), r[1], n), r[2], -n)[t]
            = IF t = r[2] THEN Plus(NetsOf(p), r[1], n)[t] + (-n) ELSE Plus(NetsOf(p), r[1], n)[t]
      BY <1>1, <1>4 DEF Plus
    <3> QED
      BY <1>1, <1>2, <3>1, <3>2, <3>3
  <2> QED
    BY <1>3, <2>1, <2>2
<1>6. GrossesOf(q) = Plus(Plus(GrossesOf(p), r[1], n), r[2], n)
  <2>1. Plus(Plus(GrossesOf(p), r[1], n), r[2], n) \in [Ticks -> Int]
    BY <1>1, <1>4, PlusIs
  <2>2. ASSUME NEW t \in Ticks PROVE GrossesOf(q)[t] = Plus(Plus(GrossesOf(p), r[1], n), r[2], n)[t]
    <3>1. GrossesOf(p)[t] = GrossIn(p, t) /\ GrossesOf(q)[t] = GrossIn(q, t) /\ GrossIn(p, t) \in Int
      BY EntriesBounded
    <3>2. Plus(GrossesOf(p), r[1], n)[t] = IF t = r[1] THEN GrossIn(p, t) + n ELSE GrossIn(p, t)
      BY <1>1, <1>3, <3>1 DEF Plus
    <3>3. Plus(Plus(GrossesOf(p), r[1], n), r[2], n)[t]
            = IF t = r[2] THEN Plus(GrossesOf(p), r[1], n)[t] + n ELSE Plus(GrossesOf(p), r[1], n)[t]
      BY <1>1, <1>4 DEF Plus
    <3> QED
      BY <1>1, <1>2, <3>1, <3>2, <3>3
  <2> QED
    BY <1>3, <2>1, <2>2
<1> QED
  BY <1>2, <1>3, <1>5, <1>6

(* The two calls of a Mint, and those of a Burn, turn the table of the     *)
(* positions before into that of the positions after.                      *)
LEMMA MintApplied ==
    ASSUME NEW p, Allowed(p), NEW r \in Ranges, NEW a \in Nat \ {0},
           NEW q, q = With(p, r, p[r] + a), Allowed(q)
    PROVE  /\ Minted(Minted(TableIn(p), r[1], AsSigned(a), a), r[2], -AsSigned(a), a) = TableIn(q)
           /\ \A t \in Ticks : ActiveIn(q, t) = IF InRange(t, r) THEN SatU(ActiveIn(p, t) + a) ELSE ActiveIn(p, t)
<1>1. /\ p \in [Ranges -> Nat] /\ p[r] + a \in Nat
      /\ r[1] \in Ticks /\ r[2] \in Ticks /\ r[1] # r[2] /\ -a \in Int /\ a \in Int /\ a > 0
  BY RangesFinite DEF Allowed
<1>2. /\ NetsOf(p) \in [Ticks -> Int] /\ GrossesOf(p) \in [Ticks -> Int]
      /\ NetsOf(q) = Plus(Plus(NetsOf(p), r[1], a), r[2], -a)
      /\ GrossesOf(q) = Plus(Plus(GrossesOf(p), r[1], a), r[2], a)
      /\ \A t \in Ticks :
            /\ ActiveIn(q, t) = IF Over(r, t) THEN ActiveIn(p, t) + a ELSE ActiveIn(p, t)
            /\ GrossIn(q, t) = IF t \in {r[1], r[2]} THEN GrossIn(p, t) + a ELSE GrossIn(p, t)
            /\ NetIn(q, t) = IF t = r[1] THEN NetIn(p, t) + a
                             ELSE IF t = r[2] THEN NetIn(p, t) - a ELSE NetIn(p, t)
  BY <1>1, EntriesChanged
<1>3. AsSigned(a) = a
  <2>1. GrossIn(p, r[1]) + a <= MaxPerTick
    BY <1>1, <1>2 DEF Allowed
  <2>2. GrossIn(p, r[1]) \in Nat
    BY <1>1, TermsNat
  <2>3. a \in 0..IMax
    BY <2>1, <2>2, Widths
  <2> QED
    BY <2>3, Saturating
<1>4. Minted(TableOf(NetsOf(p), GrossesOf(p)), r[1], a, a)
        = TableOf(Plus(NetsOf(p), r[1], a), Plus(GrossesOf(p), r[1], a))
  <2>1. NetsOf(p)[r[1]] = NetIn(p, r[1]) /\ GrossesOf(p)[r[1]] = GrossIn(p, r[1])
    BY <1>1, EntriesBounded
  <2>2. /\ GrossIn(p, r[1]) \in Nat /\ (GrossIn(p, r[1]) = 0 => NetIn(p, r[1]) = 0)
        /\ NetIn(p, r[1]) + a \in -IMax .. IMax /\ GrossIn(p, r[1]) + a \in 0..UMax
    <3>1. NetIn(q, r[1]) \in -IMax .. IMax /\ GrossIn(q, r[1]) \in 0..UMax
      BY <1>1, EntriesBounded
    <3> QED
      BY <1>1, <1>2, <3>1, EntriesBounded, TermsNat
  <2> QED
    BY <1>1, <1>2, <2>1, <2>2, MintedTable
<1>5. Minted(TableOf(Plus(NetsOf(p), r[1], a), Plus(GrossesOf(p), r[1], a)), r[2], -a, a)
        = TableOf(NetsOf(q), GrossesOf(q))
  <2>1. PICK nets, grosses : nets = Plus(NetsOf(p), r[1], a) /\ grosses = Plus(GrossesOf(p), r[1], a)
    OBVIOUS
  <2>2. nets \in [Ticks -> Int] /\ grosses \in [Ticks -> Int]
    BY <1>1, <1>2, <2>1, PlusIs
  <2>3. nets[r[2]] = NetIn(p, r[2]) /\ grosses[r[2]] = GrossIn(p, r[2])
    <3>1. NetsOf(p)[r[2]] = NetIn(p, r[2]) /\ GrossesOf(p)[r[2]] = GrossIn(p, r[2])
      BY <1>1, EntriesBounded
    <3> QED
      BY <1>1, <1>2, <2>1, <3>1 DEF Plus
  <2>4. /\ GrossIn(p, r[2]) \in Nat /\ (GrossIn(p, r[2]) = 0 => NetIn(p, r[2]) = 0)
        /\ NetIn(p, r[2]) + (-a) \in -IMax .. IMax /\ GrossIn(p, r[2]) + a \in 0..UMax
    <3>1. NetIn(q, r[2]) \in -IMax .. IMax /\ GrossIn(q, r[2]) \in 0..UMax
      BY <1>1, EntriesBounded
    <3>2. NetIn(p, r[2]) \in Int /\ GrossIn(p, r[2]) \in Nat
      BY <1>1, TermsNat
    <3>3. NetIn(p, r[2]) + (-a) = NetIn(q, r[2])
      BY <1>1, <1>2, <3>2
    <3> QED
      BY <1>1, <1>2, <3>1, <3>2, <3>3, EntriesBounded
  <2>5. Minted(TableOf(nets, grosses), r[2], -a, a) = TableOf(Plus(nets, r[2], -a), Plus(grosses, r[2], a))
    BY <1>1, <2>2, <2>3, <2>4, MintedTable
  <2> QED
    BY <1>2, <2>1, <2>5
<1>6. ASSUME NEW t \in Ticks
      PROVE  ActiveIn(q, t) = IF InRange(t, r) THEN SatU(ActiveIn(p, t) + a) ELSE ActiveIn(p, t)
  <2>1. ActiveIn(q, t) \in 0..UMax /\ ActiveIn(p, t) + a \in Int
    BY <1>1, ActiveBounded, TermsNat
  <2>2. Over(r, t) <=> InRange(t, r)
    BY DEF Over, InRange
  <2>3. ActiveIn(p, t) + a \in 0..UMax => SatU(ActiveIn(p, t) + a) = ActiveIn(p, t) + a
    BY <2>1, Saturating
  <2> QED
    BY <1>2, <2>1, <2>2, <2>3
<1> QED
  BY <1>3, <1>4, <1>5, <1>6 DEF TableIn

LEMMA BurnApplied ==
    ASSUME NEW p, Allowed(p), NEW r \in Ranges, p[r] > 0, NEW a \in 0..p[r],
           NEW q, q = With(p, r, p[r] - a), Allowed(q)
    PROVE  /\ {r[1], r[2]} \subseteq DOMAIN TableIn(p)
           /\ Burned(Burned(TableIn(p), r[1], -AsSigned(a), a), r[2], AsSigned(a), a) = TableIn(q)
           /\ \A t \in Ticks : ActiveIn(q, t) = IF InRange(t, r) THEN SatU(ActiveIn(p, t) - a) ELSE ActiveIn(p, t)
<1>1. /\ p \in [Ranges -> Nat] /\ p[r] \in Nat /\ p[r] + (-a) \in Nat /\ p[r] - a = p[r] + (-a)
      /\ r[1] \in Ticks /\ r[2] \in Ticks /\ r[1] # r[2] /\ -a \in Int /\ a \in Nat /\ -(-a) = a
  BY RangesFinite DEF Allowed
<1>2. /\ NetsOf(p) \in [Ticks -> Int] /\ GrossesOf(p) \in [Ticks -> Int]
      /\ NetsOf(q) = Plus(Plus(NetsOf(p), r[1], -a), r[2], a)
      /\ GrossesOf(q) = Plus(Plus(GrossesOf(p), r[1], -a), r[2], -a)
      /\ \A t \in Ticks :
            /\ ActiveIn(q, t) = IF Over(r, t) THEN ActiveIn(p, t) - a ELSE ActiveIn(p, t)
            /\ GrossIn(q, t) = IF t \in {r[1], r[2]} THEN GrossIn(p, t) - a ELSE GrossIn(p, t)
            /\ NetIn(q, t) = IF t = r[1] THEN NetIn(p, t) - a
                             ELSE IF t = r[2] THEN NetIn(p, t) + a ELSE NetIn(p, t)
  <2>1. PICK n \in Int : n = -a /\ -n = a
    BY <1>1
  <2>2. p[r] + n \in Nat /\ q = With(p, r, p[r] + n)
    BY <1>1, <2>1
  <2>3. /\ NetsOf(p) \in [Ticks -> Int] /\ GrossesOf(p) \in [Ticks -> Int]
        /\ NetsOf(q) = Plus(Plus(NetsOf(p), r[1], n), r[2], -n)
        /\ GrossesOf(q) = Plus(Plus(GrossesOf(p), r[1], n), r[2], n)
        /\ \A t \in Ticks :
              /\ ActiveIn(q, t) = IF Over(r, t) THEN ActiveIn(p, t) + n ELSE ActiveIn(p, t)
              /\ GrossIn(q, t) = IF t \in {r[1], r[2]} THEN GrossIn(p, t) + n ELSE GrossIn(p, t)
              /\ NetIn(q, t) = IF t = r[1] THEN NetIn(p, t) + n
                               ELSE IF t = r[2] THEN NetIn(p, t) - n ELSE NetIn(p, t)
    BY <2>2, EntriesChanged
  <2>4. \A x \in Int : x + n = x - a /\ x - n = x + a
    BY <1>1, <2>1
  <2>5. \A t : ActiveIn(p, t) \in Int /\ GrossIn(p, t) \in Int /\ NetIn(p, t) \in Int
    BY <1>1, TermsNat
  <2> QED
    BY <2>1, <2>3, <2>4, <2>5
<1>3. /\ p[r] <= GrossIn(p, r[1]) /\ p[r] <= GrossIn(p, r[2])
      /\ a \in 0..GrossIn(p, r[1]) /\ a \in 0..GrossIn(p, r[2])
      /\ GrossIn(p, r[1]) \in 1..UMax /\ GrossIn(p, r[2]) \in 1..UMax
  <2>1. p[r] <= GrossIn(p, r[1]) /\ p[r] <= GrossIn(p, r[2])
    BY <1>1, PositionCounted
  <2> QED
    BY <1>1, <2>1, EntriesBounded, Widths
<1>4. AsSigned(a) = a
  <2>1. GrossIn(p, r[1]) <= MaxPerTick /\ GrossIn(p, r[1]) \in Nat
    BY <1>1, TermsNat DEF Allowed
  <2>2. a \in 0..IMax
    BY <1>1, <1>3, <2>1, Widths
  <2> QED
    BY <2>2, Saturating
<1>5. Burned(TableOf(NetsOf(p), GrossesOf(p)), r[1], -a, a)
        = TableOf(Plus(NetsOf(p), r[1], -a), Plus(GrossesOf(p), r[1], -a))
  <2>1. NetsOf(p)[r[1]] = NetIn(p, r[1]) /\ GrossesOf(p)[r[1]] = GrossIn(p, r[1])
    BY <1>1, EntriesBounded
  <2>2. NetIn(p, r[1]) + (-a) \in -IMax .. IMax
    <3>1. NetIn(p, r[1]) \in Int /\ NetIn(q, r[1]) \in -IMax .. IMax
      BY <1>1, EntriesBounded
    <3> QED
      BY <1>1, <1>2, <3>1
  <2> QED
    BY <1>1, <1>2, <1>3, <2>1, <2>2, BurnedTable
<1>6. Burned(TableOf(Plus(NetsOf(p), r[1], -a), Plus(GrossesOf(p), r[1], -a)), r[2], a, a)
        = TableOf(NetsOf(q), GrossesOf(q))
  <2>1. PICK nets, grosses : nets = Plus(NetsOf(p), r[1], -a) /\ grosses = Plus(GrossesOf(p), r[1], -a)
    OBVIOUS
  <2>2. nets \in [Ticks -> Int] /\ grosses \in [Ticks -> Int]
    BY <1>1, <1>2, <2>1, PlusIs
  <2>3. nets[r[2]] = NetIn(p, r[2]) /\ grosses[r[2]] = GrossIn(p, r[2])
    <3>1. NetsOf(p)[r[2]] = NetIn(p, r[2]) /\ GrossesOf(p)[r[2]] = GrossIn(p, r[2])
      BY <1>1, EntriesBounded
    <3> QED
      BY <1>1, <1>2, <2>1, <3>1 DEF Plus
  <2>4. NetIn(p, r[2]) + a \in -IMax .. IMax
    BY <1>1, <1>2, EntriesBounded
  <2>5. Burned(TableOf(nets, grosses), r[2], a, a) = TableOf(Plus(nets, r[2], a), Plus(grosses, r[2], -a))
    BY <1>1, <1>3, <2>2, <2>3, <2>4, BurnedTable
  <2> QED
    BY <1>2, <2>1, <2>5
<1>7. ASSUME NEW t \in Ticks
      PROVE  ActiveIn(q, t) = IF InRange(t, r) THEN SatU(ActiveIn(p, t) - a) ELSE ActiveIn(p, t)
  <2>1. ActiveIn(q, t) \in 0..UMax /\ ActiveIn(p, t) - a \in Int
    BY <1>1, ActiveBounded, TermsNat
  <2>2. Over(r, t) <=> InRange(t, r)
    BY DEF Over, InRange
  <2>3. ActiveIn(p, t) - a \in 0..UMax => SatU(ActiveIn(p, t) - a) = ActiveIn(p, t) - a
    BY <2>1, Saturating
  <2> QED
    BY <1>2, <2>1, <2>2, <2>3
<1>8. {r[1], r[2]} \subseteq DOMAIN TableIn(p)
  <2>1. GrossesOf(p)[r[1]] > 0 /\ GrossesOf(p)[r[2]] > 0
    <3>1. GrossesOf(p)[r[1]] = GrossIn(p, r[1]) /\ GrossesOf(p)[r[2]] = GrossIn(p, r[2])
      BY <1>1, EntriesBounded
    <3> QED
      BY <1>3, <3>1, Widths
  <2> QED
    BY <1>1, <2>1 DEF TableIn, TableOf
<1> QED
  BY <1>4, <1>5, <1>6, <1>7, <1>8 DEF TableIn
-----------------------------------------------------------------------------
(* The events on their way tell the chain's way from some state h[0] to    *)
(* the present one; the pool stands where h[0] was, all of it if no event  *)
(* was lost, its price, tick and liquidity if it is exact.                 *)

Events ==
    [kind : {"mint", "burn"}, range : Ranges, amount : Nat]
        \cup [kind : {"swap"}, price : Prices, tick : Ticks, liquidity : 0..UMax]

Sound(c) == Allowed(c.positions) /\ <<c.price, c.tick>> \in Slots

Minting(b, e, c) ==
    /\ e.kind = "mint" /\ e.amount > 0
    /\ c.positions = With(b.positions, e.range, b.positions[e.range] + e.amount)
    /\ c.price = b.price /\ c.tick = b.tick
Burning(b, e, c) ==
    /\ e.kind = "burn" /\ b.positions[e.range] > 0 /\ e.amount <= b.positions[e.range]
    /\ c.positions = With(b.positions, e.range, b.positions[e.range] - e.amount)
    /\ c.price = b.price /\ c.tick = b.tick
Swapping(b, e, c) ==
    /\ e.kind = "swap" /\ e.price = c.price /\ e.tick = c.tick
    /\ e.liquidity = ActiveIn(c.positions, c.tick)
    /\ c.positions = b.positions
Explains(b, e, c) == Minting(b, e, c) \/ Burning(b, e, c) \/ Swapping(b, e, c)

History(h) ==
    /\ \A n \in 0..Len(log) : Sound(h[n])
    /\ \A n \in 1..Len(log) : Explains(h[n - 1], log[n], h[n])
    /\ h[Len(log)] = Now

Behind(c) ==
    /\ whole => pool = FetchedIn(c)
    /\ exact => /\ pool.price = c.price /\ pool.tick = c.tick
                /\ pool.liquidity = ActiveIn(c.positions, c.tick)

Follows == \E h : History(h) /\ Behind(h[0])

Tables == UNION {[S -> [net : -IMax - 1 .. IMax, gross : 1..UMax]] : S \in SUBSET Ticks}
PoolOK ==
    /\ pool \in [price : Prices, tick : Ticks, liquidity : 0..UMax, ticks : Tables]
    /\ <<pool.price, pool.tick>> \in Slots
BoundsOK ==
    /\ log \in Seq(Events) /\ Len(log) <= LogCap /\ events \in 0..MaxEvents
    /\ whole \in BOOLEAN /\ exact \in BOOLEAN /\ rejected \in BOOLEAN

FollowingInv == BoundsOK /\ PoolOK /\ RejectsOnlyAfterLoss /\ Follows
-----------------------------------------------------------------------------
LEMMA SlotsTyped == ASSUME NEW slot \in Slots PROVE slot[1] \in Prices /\ slot[2] \in Ticks
BY DEF Slots

LEMMA FetchedTyped ==
    ASSUME NEW c, Sound(c)
    PROVE  FetchedIn(c) \in [price : Prices, tick : Ticks, liquidity : 0..UMax, ticks : Tables]
<1>1. c.price \in Prices /\ c.tick \in Ticks
  BY SlotsTyped DEF Sound
<1>2. ActiveIn(c.positions, c.tick) \in 0..UMax
  BY ActiveBounded DEF Sound
<1>3. TableIn(c.positions) \in Tables
  <2>1. PICK p : p = c.positions /\ Allowed(p)
    BY DEF Sound
  <2> DEFINE S == {u \in Ticks : GrossesOf(p)[u] > 0}
  <2>2. ASSUME NEW t \in S
        PROVE  [net |-> NetsOf(p)[t], gross |-> GrossesOf(p)[t]] \in [net : -IMax - 1 .. IMax, gross : 1..UMax]
    <3>1. /\ NetsOf(p)[t] \in -IMax .. IMax /\ GrossesOf(p)[t] \in 0..UMax
      BY <2>1, EntriesBounded
    <3> QED
      BY <3>1, Widths
  <2>3. TableIn(p) \in [S -> [net : -IMax - 1 .. IMax, gross : 1..UMax]]
    BY <2>2 DEF TableIn, TableOf
  <2>4. S \in SUBSET Ticks
    OBVIOUS
  <2> HIDE DEF S
  <2> QED
    BY <2>1, <2>3, <2>4 DEF Tables
<1> QED
  BY <1>1, <1>2, <1>3 DEF FetchedIn

LEMMA UpdateTickTyped ==
    ASSUME NEW ticks \in Tables, NEW t \in Ticks, NEW entry \in [net : -IMax - 1 .. IMax, gross : 0..UMax]
    PROVE  /\ UpdateTick(ticks, t, entry) \in Tables
           /\ \A u \in DOMAIN ticks : u # t => u \in DOMAIN UpdateTick(ticks, t, entry)
<1> DEFINE E == [net : -IMax - 1 .. IMax, gross : 1..UMax]
<1>1. PICK S \in SUBSET Ticks : ticks \in [S -> E]
  BY DEF Tables
<1>2. CASE entry.gross = 0
  <2>1. UpdateTick(ticks, t, entry) \in [S \ {t} -> E]
    BY <1>1, <1>2 DEF UpdateTick, Restrict
  <2>2. S \ {t} \in SUBSET Ticks
    OBVIOUS
  <2> HIDE DEF E
  <2> QED
    BY <1>1, <2>1, <2>2 DEF Tables, E
<1>3. CASE entry.gross # 0
  <2>1. entry \in E
    BY <1>3, Widths
  <2>2. UpdateTick(ticks, t, entry) \in [S \cup {t} -> E]
    <3> HIDE DEF E
    <3> QED
      BY <1>1, <1>3, <2>1 DEF UpdateTick
  <2>3. S \cup {t} \in SUBSET Ticks
    OBVIOUS
  <2> HIDE DEF E
  <2> QED
    BY <1>1, <2>2, <2>3 DEF Tables, E
<1> QED
  BY <1>2, <1>3

LEMMA MintedTyped ==
    ASSUME NEW ticks \in Tables, NEW t \in Ticks, NEW n \in -IMax .. IMax, NEW a \in 1..UMax
    PROVE  Minted(ticks, t, n, a) \in Tables
<1> DEFINE E == [net : -IMax - 1 .. IMax, gross : 1..UMax]
<1>1. PICK S \in SUBSET Ticks : ticks \in [S -> E]
  BY DEF Tables
<1>2. CASE t \in DOMAIN ticks
  <2> DEFINE entry == [net |-> SatI(ticks[t].net + n), gross |-> SatU(ticks[t].gross + a)]
  <2>1. entry \in E
    <3>1. ticks[t].net \in Int /\ ticks[t].gross \in 1..UMax
      BY <1>1, <1>2, Widths
    <3>2. ticks[t].net + n \in Int /\ ticks[t].gross + a \in Int /\ ticks[t].gross + a >= 1
      BY <3>1, Widths
    <3>3. SatU(ticks[t].gross + a) > 0
      BY <3>2, Saturating
    <3> QED
      BY <3>2, <3>3, Saturating, Widths
  <2>2. Minted(ticks, t, n, a) = [ticks EXCEPT ![t] = entry]
    BY <1>2 DEF Minted
  <2> HIDE DEF entry, E
  <2> QED
    BY <1>1, <1>2, <2>1, <2>2 DEF Tables, E
<1>3. CASE t \notin DOMAIN ticks
  <2>1. [net |-> n, gross |-> a] \in [net : -IMax - 1 .. IMax, gross : 0..UMax]
    BY Widths
  <2> QED
    BY <1>3, <2>1, UpdateTickTyped DEF Minted
<1> QED
  BY <1>2, <1>3

LEMMA BurnedTyped ==
    ASSUME NEW ticks \in Tables, NEW t \in DOMAIN ticks, NEW n \in Int, NEW a \in Int
    PROVE  /\ Burned(ticks, t, n, a) \in Tables
           /\ \A u \in DOMAIN ticks : u # t => u \in DOMAIN Burned(ticks, t, n, a)
<1>1. t \in Ticks /\ ticks[t].net \in Int /\ ticks[t].gross \in Int
  BY Widths DEF Tables
<1>2. [net |-> SatI(ticks[t].net + n), gross |-> SatU(ticks[t].gross - a)]
        \in [net : -IMax - 1 .. IMax, gross : 0..UMax]
  BY <1>1, Saturating
<1> QED
  BY <1>1, <1>2, UpdateTickTyped DEF Burned
-----------------------------------------------------------------------------
(* A step of the chain lengthens the history, one of the follower shortens *)
(* it.                                                                     *)

LEMMA HistoryGrows ==
    ASSUME NEW e \in Events, FollowingInv, Emit(e), Explains(Now, e, Now'), Sound(Now')
    PROVE  FollowingInv'
<1>1. /\ log \in Seq(Events) /\ log' = Append(log, e) /\ Len(log) < LogCap
      /\ events \in Nat /\ events' = events + 1 /\ events < MaxEvents
      /\ pool' = pool /\ whole' = whole /\ exact' = exact /\ rejected' = rejected
      /\ MaxEvents \in Nat /\ LogCap \in Nat
  BY V3Assumption DEF FollowingInv, BoundsOK, Emit
<1>2. /\ Len(log) \in Nat /\ Len(log') = Len(log) + 1 /\ log' \in Seq(Events)
      /\ log'[Len(log) + 1] = e /\ \A n \in 1..Len(log) : log'[n] = log[n]
  BY <1>1
<1>3. BoundsOK'
  BY <1>1, <1>2 DEF FollowingInv, BoundsOK
<1>4. PoolOK' /\ RejectsOnlyAfterLoss'
  BY <1>1 DEF FollowingInv, PoolOK, RejectsOnlyAfterLoss
<1>5. PICK h : History(h) /\ Behind(h[0])
  BY DEF FollowingInv, Follows
<1>6. PICK g :
        /\ \A n \in 0..Len(log) : g[n] = h[n]
        /\ g[Len(log) + 1] = Now'
  <2> DEFINE f == [n \in 0 .. Len(log) + 1 |-> IF n <= Len(log) THEN h[n] ELSE Now']
  <2>1. /\ \A n \in 0..Len(log) : f[n] = h[n]
        /\ f[Len(log) + 1] = Now'
    BY <1>2
  <2> QED
    BY <2>1
<1>7. \A n \in 0..Len(log') : Sound(g[n])
  <2>1. ASSUME NEW n \in 0..Len(log') PROVE Sound(g[n])
    <3>1. CASE n \in 0..Len(log)
      BY <1>5, <1>6, <3>1 DEF History
    <3>2. CASE n = Len(log) + 1
      BY <1>6, <3>2
    <3> QED
      BY <1>2, <2>1, <3>1, <3>2
  <2> QED
    BY <2>1
<1>8. \A n \in 1..Len(log') : Explains(g[n - 1], log'[n], g[n])
  <2>1. ASSUME NEW n \in 1..Len(log') PROVE Explains(g[n - 1], log'[n], g[n])
    <3>1. CASE n \in 1..Len(log)
      <4>1. n - 1 \in 0..Len(log) /\ n \in 0..Len(log)
        BY <1>2, <3>1
      <4>2. g[n - 1] = h[n - 1] /\ g[n] = h[n] /\ log'[n] = log[n]
        BY <1>2, <1>6, <3>1, <4>1
      <4> QED
        BY <1>5, <3>1, <4>2 DEF History
    <3>2. CASE n = Len(log) + 1
      <4>1. n - 1 = Len(log) /\ Len(log) \in 0..Len(log)
        BY <1>2, <3>2
      <4>2. g[n - 1] = Now /\ g[n] = Now' /\ log'[n] = e
        BY <1>2, <1>5, <1>6, <3>2, <4>1 DEF History
      <4> QED
        BY <4>2
    <3> QED
      BY <1>2, <2>1, <3>1, <3>2
  <2> QED
    BY <2>1
<1>9. g[Len(log')] = Now'
  BY <1>2, <1>6
<1>10. Behind(g[0])'
  <2>1. g[0] = h[0]
    BY <1>2, <1>6
  <2> QED
    BY <1>1, <1>5, <2>1 DEF Behind
<1>11. Follows'
  BY <1>7, <1>8, <1>9, <1>10 DEF Follows, History
<1> QED
  BY <1>3, <1>4, <1>11 DEF FollowingInv

LEMMA HistoryShrinks ==
    ASSUME FollowingInv, log # <<>>, log' = Tail(log), UNCHANGED chain,
           whole' \in BOOLEAN, exact' \in BOOLEAN, rejected' \in BOOLEAN,
           PoolOK', RejectsOnlyAfterLoss',
           \A c, d : Sound(c) /\ Sound(d) /\ Explains(c, Head(log), d) /\ Behind(c) => Behind(d)'
    PROVE  FollowingInv'
<1>1. log \in Seq(Events) /\ Len(log) <= LogCap /\ LogCap \in Nat
  BY V3Assumption DEF FollowingInv, BoundsOK
<1>2. /\ Len(log) \in Nat \ {0} /\ Len(log') = Len(log) - 1 /\ log' \in Seq(Events)
      /\ Head(log) = log[1] /\ \A n \in 1..Len(log') : log'[n] = log[n + 1]
  BY <1>1
<1>3. BoundsOK'
  BY <1>1, <1>2 DEF FollowingInv, BoundsOK, chain
<1>4. PICK h : History(h) /\ Behind(h[0])
  BY DEF FollowingInv, Follows
<1>5. PICK g : \A n \in 0..Len(log') :
        g[n] = h[n + 1] /\ n + 1 \in 0..Len(log) /\ n + 1 \in 1..Len(log)
  <2> DEFINE f == [n \in 0..Len(log') |-> h[n + 1]]
  <2>1. \A n \in 0..Len(log') : f[n] = h[n + 1] /\ n + 1 \in 0..Len(log) /\ n + 1 \in 1..Len(log)
    BY <1>2
  <2> QED
    BY <2>1
<1>6. \A n \in 0..Len(log') : Sound(g[n])
  BY <1>4, <1>5 DEF History
<1>7. \A n \in 1..Len(log') : Explains(g[n - 1], log'[n], g[n])
  <2>1. ASSUME NEW n \in 1..Len(log') PROVE Explains(g[n - 1], log'[n], g[n])
    <3>1. n - 1 \in 0..Len(log') /\ n \in 0..Len(log') /\ (n - 1) + 1 = n /\ (n + 1) - 1 = n
      BY <1>2
    <3>2. g[n - 1] = h[n] /\ g[n] = h[n + 1] /\ log'[n] = log[n + 1] /\ n + 1 \in 1..Len(log)
      BY <1>2, <1>5, <3>1
    <3>3. Explains(h[(n + 1) - 1], log[n + 1], h[n + 1])
      BY <1>4, <3>2 DEF History
    <3> QED
      BY <3>1, <3>2, <3>3
  <2> QED
    BY <2>1
<1>8. g[Len(log')] = Now'
  <2>1. Len(log') \in 0..Len(log') /\ Len(log') + 1 = Len(log)
    BY <1>2
  <2>2. Now' = Now
    BY DEF chain, Now
  <2> QED
    BY <1>4, <1>5, <2>1, <2>2 DEF History
<1>9. Behind(g[0])'
  <2>1. 0 \in 0..Len(log) /\ 1 \in 0..Len(log) /\ 1 \in 1..Len(log) /\ 0 \in 0..Len(log') /\ 1 - 1 = 0 /\ 0 + 1 = 1
    BY <1>2
  <2>2. g[0] = h[1]
    BY <1>5, <2>1
  <2>3. Sound(h[0]) /\ Sound(h[1]) /\ Explains(h[0], Head(log), h[1])
    BY <1>2, <1>4, <2>1 DEF History
  <2> QED
    BY <1>4, <2>2, <2>3
<1>10. Follows'
  BY <1>6, <1>7, <1>8, <1>9 DEF Follows, History
<1> QED
  BY <1>3, <1>10 DEF FollowingInv
-----------------------------------------------------------------------------
(* The chain's steps. *)

LEMMA NowSound ==
    ASSUME FollowingInv
    PROVE  Sound(Now) /\ positions \in [Ranges -> Nat] /\ Allowed(positions) /\ <<price, tick>> \in Slots
<1>1. PICK h : History(h)
  BY DEF FollowingInv, Follows
<1>2. Len(log) \in 0..Len(log)
  BY DEF FollowingInv, BoundsOK
<1>3. Sound(Now)
  BY <1>1, <1>2 DEF History
<1> QED
  BY <1>3 DEF Sound, Allowed, Now

LEMMA ProvideKeeps ==
    ASSUME FollowingInv, NEW r \in Ranges, NEW a \in Amounts, Provide(r, a) PROVE FollowingInv'
<1> DEFINE e == [kind |-> "mint", range |-> r, amount |-> a]
<1>1. positions \in [Ranges -> Nat] /\ Allowed(positions) /\ <<price, tick>> \in Slots
  BY NowSound
<1>2. a \in Nat /\ a > 0 /\ positions[r] + a \in Nat
  BY <1>1, V3Assumption DEF Provide
<1>3. /\ positions' = With(positions, r, positions[r] + a) /\ price' = price /\ tick' = tick
      /\ Emit(e)
  BY DEF Provide, With
<1>4. GrossIn(positions, r[1]) + a <= MaxPerTick /\ GrossIn(positions, r[2]) + a <= MaxPerTick
  BY <1>1, FetchedNow DEF Provide
<1>5. Allowed(positions')
  <2>1. ASSUME NEW t \in Ticks PROVE GrossIn(positions', t) <= MaxPerTick
    <3>1. PICK v \in Nat : v = positions[r] + a
      BY <1>2
    <3>2. GrossIn(positions', t)
            = IF t \in {r[1], r[2]} THEN GrossIn(positions, t) - positions[r] + v ELSE GrossIn(positions, t)
      BY <1>1, <1>3, <3>1, PositionChanged
    <3>3. GrossIn(positions, t) \in Nat /\ positions[r] \in Nat
      BY <1>1, TermsNat
    <3>4. GrossIn(positions, t) <= MaxPerTick
      BY <1>1 DEF Allowed
    <3> QED
      BY <1>2, <1>4, <3>1, <3>2, <3>3, <3>4
  <2>2. positions' \in [Ranges -> Nat]
    BY <1>1, <1>2, <1>3 DEF With
  <2> QED
    BY <2>1, <2>2 DEF Allowed
<1>6. Sound(Now')
  BY <1>1, <1>3, <1>5 DEF Sound, Now
<1>7. e \in Events
  BY <1>2 DEF Events
<1>8. Explains(Now, e, Now')
  BY <1>2, <1>3 DEF Explains, Minting, Now
<1> HIDE DEF e
<1> QED
  BY <1>3, <1>6, <1>7, <1>8, HistoryGrows

LEMMA WithdrawKeeps ==
    ASSUME FollowingInv, NEW r \in Ranges, NEW a \in Amounts, Withdraw(r, a) PROVE FollowingInv'
<1> DEFINE e == [kind |-> "burn", range |-> r, amount |-> a]
<1>1. positions \in [Ranges -> Nat] /\ Allowed(positions) /\ <<price, tick>> \in Slots
  BY NowSound
<1>2. a \in Nat /\ positions[r] > 0 /\ a <= positions[r] /\ positions[r] - a \in Nat
  BY <1>1, V3Assumption DEF Withdraw
<1>3. /\ positions' = With(positions, r, positions[r] - a) /\ price' = price /\ tick' = tick
      /\ Emit(e)
  BY DEF Withdraw, With
<1>4. Allowed(positions')
  <2>1. ASSUME NEW t \in Ticks PROVE GrossIn(positions', t) <= MaxPerTick
    <3>1. PICK v \in Nat : v = positions[r] - a
      BY <1>2
    <3>2. GrossIn(positions', t)
            = IF t \in {r[1], r[2]} THEN GrossIn(positions, t) - positions[r] + v ELSE GrossIn(positions, t)
      BY <1>1, <1>3, <3>1, PositionChanged
    <3>3. GrossIn(positions, t) \in Nat /\ positions[r] \in Nat
      BY <1>1, TermsNat
    <3>4. GrossIn(positions, t) <= MaxPerTick
      BY <1>1 DEF Allowed
    <3> QED
      BY <1>2, <3>1, <3>2, <3>3, <3>4, Widths
  <2>2. positions' \in [Ranges -> Nat]
    BY <1>1, <1>2, <1>3 DEF With
  <2> QED
    BY <2>1, <2>2 DEF Allowed
<1>5. Sound(Now')
  BY <1>1, <1>3, <1>4 DEF Sound, Now
<1>6. e \in Events
  BY <1>2 DEF Events
<1>7. Explains(Now, e, Now')
  BY <1>2, <1>3 DEF Explains, Burning, Now
<1> HIDE DEF e
<1> QED
  BY <1>3, <1>5, <1>6, <1>7, HistoryGrows

LEMMA TradeKeeps ==
    ASSUME FollowingInv, NEW slot \in Slots, Trade(slot) PROVE FollowingInv'
<1> DEFINE e == [kind |-> "swap", price |-> slot[1], tick |-> slot[2], liquidity |-> Active(slot[2])]
<1>1. positions \in [Ranges -> Nat] /\ Allowed(positions)
  BY NowSound
<1>2. positions' = positions /\ price' = slot[1] /\ tick' = slot[2] /\ Emit(e)
  BY DEF Trade
<1>3. Active(slot[2]) = ActiveIn(positions, slot[2]) /\ ActiveIn(positions, slot[2]) \in 0..UMax
  BY <1>1, FetchedNow, ActiveBounded
<1>4. slot[1] \in Prices /\ slot[2] \in Ticks /\ <<slot[1], slot[2]>> \in Slots
  BY SlotsTyped DEF Slots
<1>5. Sound(Now')
  BY <1>1, <1>2, <1>4 DEF Sound, Now
<1>6. e \in Events
  BY <1>3, <1>4 DEF Events
<1>7. Explains(Now, e, Now')
  BY <1>2, <1>3 DEF Explains, Swapping, Now
<1> HIDE DEF e
<1> QED
  BY <1>2, <1>5, <1>6, <1>7, HistoryGrows
-----------------------------------------------------------------------------
(* The follower's steps. *)

LEMMA LoseKeeps == ASSUME FollowingInv, Lose PROVE FollowingInv'
<1>1. /\ log # <<>> /\ log' = Tail(log) /\ UNCHANGED chain
      /\ whole' = FALSE /\ exact' = FALSE /\ rejected' = rejected /\ pool' = pool
  BY DEF Lose
<1>2. PoolOK' /\ RejectsOnlyAfterLoss'
  BY <1>1 DEF FollowingInv, PoolOK, RejectsOnlyAfterLoss
<1>3. rejected' \in BOOLEAN
  BY <1>1 DEF FollowingInv, BoundsOK
<1>4. \A d : Behind(d)'
  BY <1>1 DEF Behind
<1> QED
  BY <1>1, <1>2, <1>3, <1>4, HistoryShrinks

LEMMA HeadTyped ==
    ASSUME FollowingInv, log # <<>>
    PROVE  /\ Head(log) \in Events
           /\ \E c, d : Sound(c) /\ Sound(d) /\ Explains(c, Head(log), d) /\ Behind(c)
<1>1. log \in Seq(Events)
  BY DEF FollowingInv, BoundsOK
<1>2. PICK h : History(h) /\ Behind(h[0])
  BY DEF FollowingInv, Follows
<1>3. 0 \in 0..Len(log) /\ 1 \in 0..Len(log) /\ 1 \in 1..Len(log) /\ 1 - 1 = 0 /\ Head(log) = log[1]
  BY <1>1
<1>4. Sound(h[0]) /\ Sound(h[1]) /\ Explains(h[0], Head(log), h[1])
  BY <1>2, <1>3 DEF History
<1> QED
  BY <1>1, <1>2, <1>4

LEMMA ApplyMintKeeps == ASSUME FollowingInv, ApplyMint PROVE FollowingInv'
<1>1. PICK e : e = Head(log) /\ e \in Events /\ e.kind = "mint"
  BY HeadTyped DEF ApplyMint
<1>2. PICK r, a : r = e.range /\ a = e.amount
  OBVIOUS
<1>3. r \in Ranges /\ a \in Nat
  BY <1>1, <1>2 DEF Events
<1>4. /\ log # <<>> /\ log' = Tail(log) /\ UNCHANGED chain
      /\ whole' = whole /\ exact' = exact /\ rejected' = rejected
      /\ pool' = [pool EXCEPT
              !.ticks = Minted(Minted(pool.ticks, r[1], AsSigned(a), a), r[2], -AsSigned(a), a),
              !.liquidity = IF InRange(pool.tick, r) THEN SatU(pool.liquidity + a) ELSE pool.liquidity]
  BY <1>1, <1>2 DEF ApplyMint
<1>5. /\ pool \in [price : Prices, tick : Ticks, liquidity : 0..UMax, ticks : Tables]
      /\ <<pool.price, pool.tick>> \in Slots
      /\ whole \in BOOLEAN /\ exact \in BOOLEAN /\ rejected \in BOOLEAN
  BY DEF FollowingInv, PoolOK, BoundsOK
<1>6. /\ pool'.price = pool.price /\ pool'.tick = pool.tick
      /\ pool'.ticks = Minted(Minted(pool.ticks, r[1], AsSigned(a), a), r[2], -AsSigned(a), a)
      /\ pool'.liquidity = IF InRange(pool.tick, r) THEN SatU(pool.liquidity + a) ELSE pool.liquidity
      /\ pool' = [price |-> pool'.price, tick |-> pool'.tick,
                  liquidity |-> pool'.liquidity, ticks |-> pool'.ticks]
  BY <1>4, <1>5
<1>7. ASSUME NEW c, NEW d, Sound(c), Sound(d), Explains(c, e, d)
      PROVE  /\ Allowed(c.positions) /\ Allowed(d.positions) /\ a \in Nat \ {0}
             /\ d.positions = With(c.positions, r, c.positions[r] + a)
             /\ d.price = c.price /\ d.tick = c.tick /\ c.tick \in Ticks
  BY <1>1, <1>2, <1>3, <1>7, SlotsTyped DEF Explains, Minting, Burning, Swapping, Sound
<1>8. ASSUME NEW c, NEW d, Sound(c), Sound(d), Explains(c, e, d), Behind(c) PROVE Behind(d)'
  <2>1. /\ TableIn(d.positions)
             = Minted(Minted(TableIn(c.positions), r[1], AsSigned(a), a), r[2], -AsSigned(a), a)
        /\ ActiveIn(d.positions, c.tick)
             = IF InRange(c.tick, r) THEN SatU(ActiveIn(c.positions, c.tick) + a)
               ELSE ActiveIn(c.positions, c.tick)
    BY <1>3, <1>7, <1>8, MintApplied
  <2>2. whole => pool' = FetchedIn(d)
    <3>1. SUFFICES ASSUME whole PROVE pool' = FetchedIn(d)
      OBVIOUS
    <3>2. /\ pool.price = c.price /\ pool.tick = c.tick /\ pool.ticks = TableIn(c.positions)
          /\ pool.liquidity = ActiveIn(c.positions, c.tick)
      BY <1>8, <3>1 DEF Behind, FetchedIn
    <3>3. /\ pool'.price = d.price /\ pool'.tick = d.tick
          /\ pool'.liquidity = ActiveIn(d.positions, d.tick) /\ pool'.ticks = TableIn(d.positions)
      BY <1>6, <1>7, <1>8, <2>1, <3>2
    <3> QED
      BY <1>6, <3>3 DEF FetchedIn
  <2>3. exact => /\ pool'.price = d.price /\ pool'.tick = d.tick
                 /\ pool'.liquidity = ActiveIn(d.positions, d.tick)
    BY <1>6, <1>7, <1>8, <2>1 DEF Behind
  <2> QED
    BY <1>4, <2>2, <2>3 DEF Behind
<1>9. a \in 1..UMax /\ AsSigned(a) = a /\ a \in -IMax .. IMax /\ -a \in -IMax .. IMax
  <2>1. PICK c, d : Sound(c) /\ Sound(d) /\ Explains(c, e, d)
    BY <1>1, <1>4, HeadTyped
  <2>2. /\ Allowed(d.positions) /\ c.positions \in [Ranges -> Nat] /\ a \in Nat \ {0}
        /\ d.positions = With(c.positions, r, c.positions[r] + a)
    BY <1>7, <2>1 DEF Allowed
  <2>3. d.positions \in [Ranges -> Nat] /\ d.positions[r] = c.positions[r] + a /\ c.positions[r] \in Nat
    BY <1>3, <2>2 DEF Allowed, With
  <2>4. r[1] \in Ticks /\ d.positions[r] <= GrossIn(d.positions, r[1])
    BY <1>3, <2>3, PositionCounted, RangesFinite
  <2>5. GrossIn(d.positions, r[1]) \in 0..MaxPerTick
    BY <2>2, <2>4, EntriesBounded
  <2>6. a \in 0..IMax /\ a <= MaxPerTick
    BY <2>2, <2>3, <2>4, <2>5, Widths
  <2> QED
    BY <2>2, <2>6, Saturating, Widths
<1>10. PoolOK'
  <2>1. r[1] \in Ticks /\ r[2] \in Ticks
    BY <1>3, RangesFinite
  <2>2. pool'.ticks \in Tables
    <3>1. Minted(pool.ticks, r[1], a, a) \in Tables
      BY <1>5, <1>9, <2>1, MintedTyped
    <3>2. Minted(Minted(pool.ticks, r[1], a, a), r[2], -a, a) \in Tables
      BY <1>9, <2>1, <3>1, MintedTyped
    <3> QED
      BY <1>6, <1>9, <3>2
  <2>3. pool'.liquidity \in 0..UMax
    <3>1. pool.liquidity \in Int /\ pool.liquidity + a \in Int
      BY <1>3, <1>5, Widths
    <3> QED
      BY <1>5, <1>6, <3>1, Saturating
  <2> QED
    BY <1>5, <1>6, <2>2, <2>3 DEF PoolOK
<1>11. RejectsOnlyAfterLoss'
  BY <1>4 DEF FollowingInv, RejectsOnlyAfterLoss
<1> QED
  BY <1>1, <1>4, <1>5, <1>8, <1>10, <1>11, HistoryShrinks

(* A Burn finds the two ticks of its range in the table of a pool that is  *)
(* where the chain was.                                                    *)
LEMMA BurnFits ==
    ASSUME NEW c, NEW d, NEW e \in Events, e.kind = "burn", Sound(c), Sound(d), Explains(c, e, d)
    PROVE  /\ {e.range[1], e.range[2]} \subseteq DOMAIN TableIn(c.positions)
           /\ Burned(Burned(TableIn(c.positions), e.range[1], -AsSigned(e.amount), e.amount),
                     e.range[2], AsSigned(e.amount), e.amount) = TableIn(d.positions)
           /\ d.price = c.price /\ d.tick = c.tick
           /\ ActiveIn(d.positions, c.tick)
                = IF InRange(c.tick, e.range) THEN SatU(ActiveIn(c.positions, c.tick) - e.amount)
                  ELSE ActiveIn(c.positions, c.tick)
           /\ AsSigned(e.amount) \in Int
<1>1. PICK r, a : r = e.range /\ a = e.amount
  OBVIOUS
<1>2. r \in Ranges /\ a \in Nat
  BY <1>1 DEF Events
<1>3. /\ Allowed(c.positions) /\ Allowed(d.positions) /\ c.positions[r] > 0 /\ a <= c.positions[r]
      /\ d.positions = With(c.positions, r, c.positions[r] - a)
      /\ d.price = c.price /\ d.tick = c.tick /\ c.tick \in Ticks
  BY <1>1, <1>2, SlotsTyped DEF Explains, Minting, Burning, Swapping, Sound
<1>4. a \in 0..c.positions[r]
  BY <1>2, <1>3 DEF Allowed
<1>5. /\ {r[1], r[2]} \subseteq DOMAIN TableIn(c.positions)
      /\ Burned(Burned(TableIn(c.positions), r[1], -AsSigned(a), a), r[2], AsSigned(a), a) = TableIn(d.positions)
      /\ \A t \in Ticks : ActiveIn(d.positions, t)
            = IF InRange(t, r) THEN SatU(ActiveIn(c.positions, t) - a) ELSE ActiveIn(c.positions, t)
  BY <1>2, <1>3, <1>4, BurnApplied
<1>6. AsSigned(a) \in Int
  BY <1>2, V3Assumption DEF AsSigned
<1> QED
  BY <1>1, <1>3, <1>5, <1>6

LEMMA ApplyBurnKeeps == ASSUME FollowingInv, ApplyBurn PROVE FollowingInv'
<1>1. PICK e : e = Head(log) /\ e \in Events /\ e.kind = "burn"
  BY HeadTyped DEF ApplyBurn
<1>2. PICK r, a : r = e.range /\ a = e.amount
  OBVIOUS
<1>3. r \in Ranges /\ a \in Nat
  BY <1>1, <1>2 DEF Events
<1>4. /\ log # <<>> /\ log' = Tail(log) /\ UNCHANGED chain
      /\ whole' = whole /\ exact' = exact /\ rejected' = rejected
      /\ {r[1], r[2]} \subseteq DOMAIN pool.ticks
      /\ pool' = [pool EXCEPT
              !.ticks = Burned(Burned(pool.ticks, r[1], -AsSigned(a), a), r[2], AsSigned(a), a),
              !.liquidity = IF InRange(pool.tick, r) THEN SatU(pool.liquidity - a) ELSE pool.liquidity]
  BY <1>1, <1>2 DEF ApplyBurn
<1>5. /\ pool \in [price : Prices, tick : Ticks, liquidity : 0..UMax, ticks : Tables]
      /\ <<pool.price, pool.tick>> \in Slots
      /\ whole \in BOOLEAN /\ exact \in BOOLEAN /\ rejected \in BOOLEAN
  BY DEF FollowingInv, PoolOK, BoundsOK
<1>6. /\ pool'.price = pool.price /\ pool'.tick = pool.tick
      /\ pool'.ticks = Burned(Burned(pool.ticks, r[1], -AsSigned(a), a), r[2], AsSigned(a), a)
      /\ pool'.liquidity = IF InRange(pool.tick, r) THEN SatU(pool.liquidity - a) ELSE pool.liquidity
      /\ pool' = [price |-> pool'.price, tick |-> pool'.tick,
                  liquidity |-> pool'.liquidity, ticks |-> pool'.ticks]
  BY <1>4, <1>5
<1>7. ASSUME NEW c, NEW d, Sound(c), Sound(d), Explains(c, e, d), Behind(c) PROVE Behind(d)'
  <2>1. /\ TableIn(d.positions)
             = Burned(Burned(TableIn(c.positions), r[1], -AsSigned(a), a), r[2], AsSigned(a), a)
        /\ ActiveIn(d.positions, c.tick)
             = IF InRange(c.tick, r) THEN SatU(ActiveIn(c.positions, c.tick) - a)
               ELSE ActiveIn(c.positions, c.tick)
        /\ d.price = c.price /\ d.tick = c.tick
    BY <1>1, <1>2, <1>7, BurnFits
  <2>2. whole => pool' = FetchedIn(d)
    <3>1. SUFFICES ASSUME whole PROVE pool' = FetchedIn(d)
      OBVIOUS
    <3>2. /\ pool.price = c.price /\ pool.tick = c.tick /\ pool.ticks = TableIn(c.positions)
          /\ pool.liquidity = ActiveIn(c.positions, c.tick)
      BY <1>7, <3>1 DEF Behind, FetchedIn
    <3>3. /\ pool'.price = d.price /\ pool'.tick = d.tick
          /\ pool'.liquidity = ActiveIn(d.positions, d.tick) /\ pool'.ticks = TableIn(d.positions)
      BY <1>6, <2>1, <3>2
    <3> QED
      BY <1>6, <3>3 DEF FetchedIn
  <2>3. exact => /\ pool'.price = d.price /\ pool'.tick = d.tick
                 /\ pool'.liquidity = ActiveIn(d.positions, d.tick)
    BY <1>6, <1>7, <2>1 DEF Behind
  <2> QED
    BY <1>4, <2>2, <2>3 DEF Behind
<1>8. PoolOK'
  <2>1. r[1] # r[2] /\ AsSigned(a) \in Int /\ -AsSigned(a) \in Int /\ a \in Int
    <3>1. AsSigned(a) \in Int
      BY <1>3, V3Assumption DEF AsSigned
    <3> QED
      BY <1>3, <3>1, RangesFinite
  <2>2. pool'.ticks \in Tables
    <3>1. PICK table : table = Burned(pool.ticks, r[1], -AsSigned(a), a)
      OBVIOUS
    <3>2. table \in Tables /\ r[2] \in DOMAIN table
      BY <1>4, <1>5, <2>1, <3>1, BurnedTyped
    <3>3. Burned(table, r[2], AsSigned(a), a) \in Tables
      BY <2>1, <3>2, BurnedTyped
    <3> QED
      BY <1>6, <3>1, <3>3
  <2>3. pool'.liquidity \in 0..UMax
    <3>1. pool.liquidity \in Int /\ pool.liquidity - a \in Int
      BY <1>3, <1>5, Widths
    <3> QED
      BY <1>5, <1>6, <3>1, Saturating
  <2> QED
    BY <1>5, <1>6, <2>2, <2>3 DEF PoolOK
<1>9. RejectsOnlyAfterLoss'
  BY <1>4 DEF FollowingInv, RejectsOnlyAfterLoss
<1> QED
  BY <1>1, <1>4, <1>5, <1>7, <1>8, <1>9, HistoryShrinks

LEMMA RejectBurnKeeps == ASSUME FollowingInv, RejectBurn PROVE FollowingInv'
<1>1. PICK e : e = Head(log) /\ e \in Events /\ e.kind = "burn"
  BY HeadTyped DEF RejectBurn
<1>2. PICK r, a : r = e.range /\ a = e.amount
  OBVIOUS
<1>3. r \in Ranges /\ a \in Nat
  BY <1>1, <1>2 DEF Events
<1>4. /\ log # <<>> /\ log' = Tail(log) /\ UNCHANGED chain
      /\ whole' = whole /\ exact' = FALSE /\ rejected' = TRUE
      /\ ~({r[1], r[2]} \subseteq DOMAIN pool.ticks)
      /\ pool' = IF r[1] \in DOMAIN pool.ticks
                 THEN [pool EXCEPT !.ticks = Burned(pool.ticks, r[1], -AsSigned(a), a)]
                 ELSE pool
  BY <1>1, <1>2 DEF RejectBurn
<1>5. /\ pool \in [price : Prices, tick : Ticks, liquidity : 0..UMax, ticks : Tables]
      /\ <<pool.price, pool.tick>> \in Slots /\ whole \in BOOLEAN
  BY DEF FollowingInv, PoolOK, BoundsOK
<1>6. ~whole
  <2>1. PICK c, d : Sound(c) /\ Sound(d) /\ Explains(c, e, d) /\ Behind(c)
    BY <1>1, <1>4, HeadTyped
  <2>2. {r[1], r[2]} \subseteq DOMAIN TableIn(c.positions)
    BY <1>1, <1>2, <2>1, BurnFits
  <2> QED
    BY <1>4, <2>1, <2>2 DEF Behind, FetchedIn
<1>7. \A d : Behind(d)'
  BY <1>4, <1>6 DEF Behind
<1>8. PoolOK'
  <2>1. CASE r[1] \in DOMAIN pool.ticks
    <3>1. AsSigned(a) \in Int /\ a \in Int
      BY <1>3, V3Assumption DEF AsSigned
    <3>2. -AsSigned(a) \in Int
      BY <3>1
    <3>3. Burned(pool.ticks, r[1], -AsSigned(a), a) \in Tables
      BY <1>5, <2>1, <3>1, <3>2, BurnedTyped
    <3> QED
      BY <1>4, <1>5, <2>1, <3>3 DEF PoolOK
  <2>2. CASE r[1] \notin DOMAIN pool.ticks
    BY <1>4, <1>5, <2>2 DEF PoolOK
  <2> QED
    BY <2>1, <2>2
<1>9. RejectsOnlyAfterLoss'
  BY <1>4, <1>6 DEF RejectsOnlyAfterLoss
<1> QED
  BY <1>4, <1>5, <1>7, <1>8, <1>9, HistoryShrinks

LEMMA ApplySwapKeeps == ASSUME FollowingInv, ApplySwap PROVE FollowingInv'
<1>1. PICK e : e = Head(log) /\ e \in Events /\ e.kind = "swap"
  BY HeadTyped DEF ApplySwap
<1>2. /\ log # <<>> /\ log' = Tail(log) /\ UNCHANGED chain
      /\ whole' = whole /\ exact' = TRUE /\ rejected' = rejected
      /\ pool' = [pool EXCEPT !.price = e.price, !.tick = e.tick, !.liquidity = e.liquidity]
  BY <1>1 DEF ApplySwap, Traded
<1>3. /\ pool \in [price : Prices, tick : Ticks, liquidity : 0..UMax, ticks : Tables]
      /\ whole \in BOOLEAN /\ rejected \in BOOLEAN
  BY DEF FollowingInv, PoolOK, BoundsOK
<1>4. /\ pool'.price = e.price /\ pool'.tick = e.tick
      /\ pool'.liquidity = e.liquidity /\ pool'.ticks = pool.ticks
      /\ pool' = [price |-> pool'.price, tick |-> pool'.tick,
                  liquidity |-> pool'.liquidity, ticks |-> pool'.ticks]
  BY <1>2, <1>3
<1>5. ASSUME NEW c, NEW d, Sound(c), Sound(d), Explains(c, e, d)
      PROVE  /\ d.positions = c.positions /\ e.price = d.price /\ e.tick = d.tick
             /\ e.liquidity = ActiveIn(d.positions, d.tick)
  BY <1>1, <1>5 DEF Explains, Minting, Burning, Swapping
<1>6. ASSUME NEW c, NEW d, Sound(c), Sound(d), Explains(c, e, d), Behind(c) PROVE Behind(d)'
  <2>1. whole => pool' = FetchedIn(d)
    <3>1. whole => pool'.ticks = TableIn(d.positions)
      BY <1>4, <1>5, <1>6 DEF Behind, FetchedIn
    <3> QED
      BY <1>4, <1>5, <1>6, <3>1 DEF FetchedIn
  <2>2. /\ pool'.price = d.price /\ pool'.tick = d.tick
        /\ pool'.liquidity = ActiveIn(d.positions, d.tick)
    BY <1>4, <1>5, <1>6
  <2> QED
    BY <1>2, <2>1, <2>2 DEF Behind
<1>7. PoolOK'
  <2>1. PICK c, d : Sound(c) /\ Sound(d) /\ Explains(c, e, d)
    BY <1>1, <1>2, HeadTyped
  <2>2. <<e.price, e.tick>> \in Slots
    BY <1>5, <2>1 DEF Sound
  <2>3. e.price \in Prices /\ e.tick \in Ticks /\ e.liquidity \in 0..UMax
    BY <1>1 DEF Events
  <2> QED
    BY <1>3, <1>4, <2>2, <2>3 DEF PoolOK
<1>8. RejectsOnlyAfterLoss'
  BY <1>2 DEF FollowingInv, RejectsOnlyAfterLoss
<1> QED
  BY <1>1, <1>2, <1>3, <1>6, <1>7, <1>8, HistoryShrinks
-----------------------------------------------------------------------------
LEMMA FollowingInit == ASSUME Init PROVE FollowingInv
<1>1. PICK r \in Ranges, a \in Amounts :
        a <= MaxPerTick /\ positions = [q \in Ranges |-> IF q = r THEN a ELSE 0]
  BY DEF Init
<1>2. a \in Nat
  BY V3Assumption
<1>3. Allowed(positions)
  <2>1. PICK none : none = [q \in Ranges |-> 0]
    OBVIOUS
  <2>2. none \in [Ranges -> Nat] /\ none[r] = 0 /\ positions = With(none, r, a)
    BY <1>1, <1>2, <2>1 DEF With
  <2>3. ASSUME NEW t \in Ticks PROVE GrossIn(positions, t) <= MaxPerTick
    <3>1. GrossIn(none, t) = 0
      <4>1. SumOf(none, Starting(t)) = 0 /\ SumOf(none, Ending(t)) = 0
        <5>1. \A q \in Ranges : none[q] = 0
          BY <2>1
        <5> QED
          BY <5>1, Sides, SumZero
      <4> QED
        BY <4>1 DEF GrossIn
    <3>2. GrossIn(positions, t)
            = IF t \in {r[1], r[2]} THEN GrossIn(none, t) - none[r] + a ELSE GrossIn(none, t)
      BY <1>2, <2>2, PositionChanged
    <3> QED
      BY <1>1, <1>2, <2>2, <3>1, <3>2, Widths
  <2>4. positions \in [Ranges -> Nat]
    BY <1>1, <1>2
  <2> QED
    BY <2>3, <2>4 DEF Allowed
<1>4. <<price, tick>> \in Slots
  <2>1. PICK slot \in Slots : price = slot[1] /\ tick = slot[2]
    BY DEF Init
  <2>2. slot = <<slot[1], slot[2]>>
    BY DEF Slots
  <2> QED
    BY <2>1, <2>2
<1>5. Sound(Now)
  BY <1>3, <1>4 DEF Sound, Now
<1>6. /\ log = <<>> /\ events = 0 /\ pool = FetchedIn(Now)
      /\ whole = TRUE /\ exact = TRUE /\ rejected = FALSE
  BY <1>3, FetchedNow DEF Init, Allowed
<1>7. BoundsOK
  <2>1. Len(log) = 0 /\ log \in Seq(Events)
    BY <1>6
  <2>2. MaxEvents \in Nat /\ LogCap \in Nat
    BY V3Assumption
  <2>3. Len(log) <= LogCap /\ events \in 0..MaxEvents
    BY <1>6, <2>1, <2>2
  <2> QED
    BY <1>6, <2>1, <2>3 DEF BoundsOK
<1>8. PoolOK
  BY <1>4, <1>5, <1>6, FetchedTyped DEF PoolOK, FetchedIn, Now
<1>9. Follows
  <2>1. PICK h : h = [n \in 0..0 |-> Now]
    OBVIOUS
  <2>2. Len(log) = 0 /\ h[0] = Now
    BY <1>6, <2>1
  <2>3. History(h)
    BY <1>5, <2>2 DEF History
  <2>4. Behind(h[0])
    BY <1>6, <2>2 DEF Behind, FetchedIn
  <2> QED
    BY <2>3, <2>4 DEF Follows
<1>10. RejectsOnlyAfterLoss
  BY <1>6 DEF RejectsOnlyAfterLoss
<1> QED
  BY <1>7, <1>8, <1>9, <1>10 DEF FollowingInv

LEMMA FollowingStep == ASSUME FollowingInv, [Next]_vars PROVE FollowingInv'
<1>1. CASE Next
  <2>1. CASE \E r \in Ranges, a \in Amounts : Provide(r, a) \/ Withdraw(r, a)
    BY <2>1, ProvideKeeps, WithdrawKeeps
  <2>2. CASE \E slot \in Slots : Trade(slot)
    BY <2>2, TradeKeeps
  <2>3. CASE Lose
    BY <2>3, LoseKeeps
  <2>4. CASE ApplyMint
    BY <2>4, ApplyMintKeeps
  <2>5. CASE ApplyBurn
    BY <2>5, ApplyBurnKeeps
  <2>6. CASE RejectBurn
    BY <2>6, RejectBurnKeeps
  <2>7. CASE ApplySwap
    BY <2>7, ApplySwapKeeps
  <2> QED
    BY <1>1, <2>1, <2>2, <2>3, <2>4, <2>5, <2>6, <2>7 DEF Next
<1>2. CASE UNCHANGED vars
  <2>1. UNCHANGED <<positions, price, tick, events, log, pool, whole, exact, rejected>>
    BY <1>2 DEF vars, chain
  <2>2. PICK h : History(h) /\ Behind(h[0])
    BY DEF FollowingInv, Follows
  <2>3. History(h)' /\ Behind(h[0])'
    BY <2>1, <2>2 DEF History, Behind, Now
  <2>4. Follows'
    BY <2>3 DEF Follows
  <2> QED
    BY <2>1, <2>4 DEF FollowingInv, BoundsOK, PoolOK, RejectsOnlyAfterLoss
<1> QED
  BY <1>1, <1>2

LEMMA FollowingHolds ==
    ASSUME FollowingInv
    PROVE  InStep /\ RejectsOnlyAfterLoss /\ SwapRepairs /\ TypeOK
<1>1. positions \in [Ranges -> Nat] /\ <<price, tick>> \in Slots /\ RejectsOnlyAfterLoss
  BY NowSound DEF FollowingInv
<1>2. PICK h : History(h) /\ Behind(h[0])
  BY DEF FollowingInv, Follows
<1>3. log = <<>> => h[0] = Now
  BY <1>2 DEF History
<1>4. InStep
  BY <1>1, <1>2, <1>3, FetchedNow DEF InStep, Behind
<1>5. SwapRepairs
  <2>1. log = <<>> /\ exact =>
          pool.price = Now.price /\ pool.tick = Now.tick /\ pool.liquidity = ActiveIn(Now.positions, Now.tick)
    BY <1>2, <1>3 DEF Behind
  <2> QED
    BY <1>1, <2>1, FetchedNow DEF SwapRepairs, Now
<1>6. TypeOK
  <2>1. pool.ticks \in Tables /\ pool.liquidity \in 0..UMax /\ <<pool.price, pool.tick>> \in Slots
    BY DEF FollowingInv, PoolOK
  <2>2. PICK S \in SUBSET Ticks : pool.ticks \in [S -> [net : -IMax - 1 .. IMax, gross : 1..UMax]]
    BY <2>1 DEF Tables
  <2>3. /\ DOMAIN pool.ticks \subseteq Ticks
        /\ \A t \in DOMAIN pool.ticks :
              pool.ticks[t].gross \in 1..UMax /\ pool.ticks[t].net \in -IMax - 1 .. IMax
    BY <2>2
  <2> QED
    BY <1>1, <2>1, <2>3 DEF TypeOK, FollowingInv, BoundsOK
<1> QED
  BY <1>1, <1>4, <1>5, <1>6
-----------------------------------------------------------------------------
(* V3Pool by itself, for any ranges, amounts and prices: a pool that got   *)
(* every Mint, Burn and Swap has the contract's price, tick, liquidity and *)
(* table of ticks once none is on its way; apply_log refuses a Burn only   *)
(* after an event was lost; one Swap repairs price, tick and liquidity.    *)
THEOREM PoolFollows == Spec => [](InStep /\ RejectsOnlyAfterLoss /\ SwapRepairs /\ TypeOK)
<1>1. Init => FollowingInv
  BY FollowingInit
<1>2. FollowingInv /\ [Next]_vars => FollowingInv'
  BY FollowingStep
<1>3. FollowingInv => InStep /\ RejectsOnlyAfterLoss /\ SwapRepairs /\ TypeOK
  BY FollowingHolds
<1> QED
  BY <1>1, <1>2, <1>3, PTL DEF Spec

(* The pools of either kind, quoted or not. *)
PoolsInv ==
    /\ kind \in {"UniswapV2", "UniswapV3"}
    /\ kind = "UniswapV3" => FollowingInv
    /\ kind = "UniswapV2" => ~whole /\ ~exact /\ ~rejected

LEMMA PoolsInvHolds == PoolsSpec => []PoolsInv
<1>1. PoolsInit => PoolsInv
  BY FollowingInit
     DEF PoolsInit, PoolsInv, IdentifyAndFetchPool, IdentifyPoolType, Answers, QuoteInit
<1>2. PoolsInv /\ [PoolsNext]_poolVars => PoolsInv'
  <2>1. SUFFICES ASSUME PoolsInv, [PoolsNext]_poolVars PROVE PoolsInv'
    OBVIOUS
  <2>2. CASE kind = "UniswapV3"
    <3>1. kind' = kind /\ [Next]_vars
      BY <2>1, <2>2 DEF PoolsNext, poolVars, quoteVars, QuoteNext, BeginQuote, QuoteTurn, EndQuote
    <3> QED
      BY <2>1, <2>2, <3>1, FollowingStep DEF PoolsInv
  <2>3. CASE kind = "UniswapV2"
    BY <2>1, <2>3 DEF PoolsInv, PoolsNext, poolVars, quoteVars, vars, chain
  <2> QED
    BY <2>1, <2>2, <2>3 DEF PoolsInv
<1> QED
  BY <1>1, <1>2, PTL DEF PoolsSpec

(* apply_log of a V3 pool: once a batch of events has arrived whole, the   *)
(* cached pool is the one a fresh fetch would return, table included.      *)
THEOREM PoolInStep == PoolsSpec => []InStep
<1>1. PoolsInv => InStep
  BY FollowingHolds DEF PoolsInv, InStep
<1> QED
  BY <1>1, PoolsInvHolds, PTL

(* The Err of apply_log on a Burn of a tick it does not know is never met  *)
(* by a pool that got every event since it was fetched.                    *)
THEOREM RejectionsExplained == PoolsSpec => []RejectsOnlyAfterLoss
<1>1. PoolsInv => RejectsOnlyAfterLoss
  BY FollowingHolds DEF PoolsInv, RejectsOnlyAfterLoss
<1> QED
  BY <1>1, PoolsInvHolds, PTL

(* apply_log of a Swap overwrites price, tick and liquidity: whatever was  *)
(* lost before it, a pool that has got every event since quotes with them. *)
THEOREM SwapsRepair == PoolsSpec => []SwapRepairs
<1>1. PoolsInv => SwapRepairs
  BY FollowingHolds DEF PoolsInv, SwapRepairs
<1> QED
  BY <1>1, PoolsInvHolds, PTL
-----------------------------------------------------------------------------
(* Numbers. *)

LEMMA TimesNat == ASSUME NEW a \in Nat, NEW b \in Nat PROVE a * b \in Nat /\ a * b = b * a
OBVIOUS

LEMMA TimesMonotone ==
    ASSUME NEW a \in Nat, NEW b \in Nat, NEW c \in Nat, a <= b PROVE a * c <= b * c /\ c * a <= c * b
<1>1. PICK k \in Nat : b = a + k
  <2>1. b - a \in Nat /\ b = a + (b - a)
    OBVIOUS
  <2> QED
    BY <2>1
<1>2. b * c = a * c + k * c
  BY <1>1
<1>3. k * c \in Nat /\ a * c \in Nat
  BY TimesNat
<1> QED
  BY <1>2, <1>3, TimesNat

LEMMA TimesPositive == ASSUME NEW a \in Nat, NEW b \in Nat, a > 0, b > 0 PROVE a * b > 0
<1>1. 1 * b <= a * b
  BY TimesMonotone
<1> QED
  BY <1>1, TimesNat

LEMMA Cancels ==
    ASSUME NEW a \in Int, NEW b \in Int, NEW c \in Nat, c > 0, a * c <= b * c PROVE a <= b
<1>1. SUFFICES ASSUME b < a PROVE FALSE
  OBVIOUS
<1>2. PICK k \in Nat : a = b + k /\ k > 0
  <2>1. a - b \in Nat /\ a = b + (a - b) /\ a - b > 0
    BY <1>1
  <2> QED
    BY <2>1
<1>3. a * c = b * c + k * c
  BY <1>2
<1>4. k * c > 0
  BY <1>2, TimesPositive
<1> QED
  BY <1>3, <1>4

LEMMA Division ==
    ASSUME NEW m \in Nat, NEW d \in Nat, d > 0
    PROVE  /\ m \div d \in Nat
           /\ (m \div d) * d <= m /\ m < (m \div d) * d + d
OBVIOUS

(* The quote on the constant product: what it leaves of the reserve is the *)
(* least that keeps the product, with the fee taken out of the input, from *)
(* falling.                                                                *)
LEMMA ProductQuote ==
    ASSUME NEW s \in Nat, NEW y \in Nat, NEW paid \in Nat, s > 0, y > 0, NEW out,
           out = (paid * y) \div (s + paid)
    PROVE  /\ out \in 0 .. y - 1
           /\ (s + paid) * (y - out) >= s * y
           /\ (s + paid) * (y - (out + 1)) < s * y
<1>1. PICK d \in Nat : d = s + paid /\ d > 0
  OBVIOUS
<1>2. PICK m \in Nat : m = paid * y
  BY TimesNat
<1>3. out \in Nat /\ out * d <= m /\ m < out * d + d
  BY <1>1, <1>2, Division
<1>4. d * y = s * y + m /\ s * y \in Nat /\ s * y > 0 /\ d * y \in Nat
  BY <1>1, <1>2, TimesNat, TimesPositive
<1>5. out < y
  <2>1. SUFFICES ASSUME y <= out PROVE FALSE
    BY <1>3
  <2>2. y * d <= out * d
    BY <1>3, <2>1, TimesMonotone
  <2>3. out * d \in Nat /\ y * d = d * y
    BY <1>3, TimesNat
  <2> QED
    BY <1>3, <1>4, <2>2, <2>3
<1>6. d * (y - out) = d * y - out * d /\ d * (y - (out + 1)) = d * y - out * d - d
  BY <1>3
<1>7. out * d \in Nat
  BY <1>3, TimesNat
<1> QED
  BY <1>1, <1>3, <1>4, <1>5, <1>6, <1>7

(* With the whole input the product does not fall either.                  *)
LEMMA ProductRises ==
    ASSUME NEW x \in Nat, NEW y \in Nat, NEW a \in Nat, NEW unit \in Nat, unit > 0, NEW kept \in 0..unit,
           NEW left \in Nat, (x * unit + a * kept) * left >= (x * unit) * y
    PROVE  (x + a) * left >= x * y
<1>1. a * kept <= a * unit /\ a * kept \in Nat /\ a * unit \in Nat /\ x * unit \in Nat
  BY TimesMonotone, TimesNat
<1>2. (x * unit + a * kept) * left <= (x * unit + a * unit) * left
  BY <1>1, TimesMonotone
<1>3. (x * unit + a * unit) * left = ((x + a) * left) * unit
  OBVIOUS
<1>4. (x * unit) * y = (x * y) * unit
  OBVIOUS
<1>5. (x * y) * unit <= ((x + a) * left) * unit
  <2>1. /\ (x * unit + a * kept) * left \in Int /\ (x * unit + a * unit) * left \in Int
        /\ (x * unit) * y \in Int
    BY <1>1
  <2> QED
    BY <1>2, <1>3, <1>4, <2>1
<1> QED
  BY <1>5, Cancels

LEMMA DivisionMonotone ==
    ASSUME NEW m \in Nat, NEW n \in Nat, NEW d \in Nat, d > 0, m <= n
    PROVE  m \div d <= n \div d
<1>1. PICK q \in Nat, r \in Nat :
        q = m \div d /\ r = n \div d /\ q * d <= m /\ n < r * d + d
  BY Division
<1>2. SUFFICES ASSUME r + 1 <= q PROVE FALSE
  BY <1>1
<1>3. (r + 1) * d <= q * d
  BY <1>1, <1>2, TimesMonotone
<1>4. (r + 1) * d = r * d + d /\ r * d \in Nat /\ q * d \in Nat
  BY <1>1, TimesNat
<1> QED
  BY <1>1, <1>3, <1>4

LEMMA TimesBoth ==
    ASSUME NEW a \in Nat, NEW b \in Nat, NEW c \in Nat, NEW d \in Nat, a <= b, c <= d
    PROVE  a * c <= b * d /\ a * c \in Nat /\ b * d \in Nat
<1>1. a * c <= b * c /\ b * c <= b * d
  BY TimesMonotone
<1>2. a * c \in Nat /\ b * c \in Nat /\ b * d \in Nat
  BY TimesNat
<1> QED
  BY <1>1, <1>2
-----------------------------------------------------------------------------
(* The stable curve. *)

LEMMA ScaleIs == Exp18 \in Nat \ {0} /\ MaxRounds \in Nat
BY PairAssumption DEF V2!V2Constants

LEMMA FRises ==
    ASSUME NEW x \in Nat, NEW y \in Nat, NEW u \in Nat, NEW v \in Nat, x <= u, y <= v
    PROVE  V2!F(x, y) \in Nat /\ V2!F(u, v) \in Nat /\ V2!F(x, y) <= V2!F(u, v)
<1>1. /\ x * y <= u * v /\ x * x <= u * u /\ y * y <= v * v
      /\ {x * y, u * v, x * x, u * u, y * y, v * v} \subseteq Nat
  BY TimesBoth
<1>2. PICK a \in Nat, b \in Nat, c \in Nat, e \in Nat, f \in Nat, g \in Nat :
        /\ a = (x * y) \div Exp18 /\ b = (u * v) \div Exp18
        /\ c = (x * x) \div Exp18 /\ e = (u * u) \div Exp18
        /\ f = (y * y) \div Exp18 /\ g = (v * v) \div Exp18
  <2>1. \A m \in Nat : m \div Exp18 \in Nat
    BY ScaleIs, Division
  <2> QED
    BY <1>1, <2>1
<1>3. a <= b /\ c <= e /\ f <= g
  BY <1>1, <1>2, ScaleIs, DivisionMonotone
<1>4. a * (c + f) <= b * (e + g) /\ a * (c + f) \in Nat /\ b * (e + g) \in Nat
  BY <1>3, TimesBoth
<1>5. /\ (a * (c + f)) \div Exp18 <= (b * (e + g)) \div Exp18
      /\ (a * (c + f)) \div Exp18 \in Nat /\ (b * (e + g)) \div Exp18 \in Nat
  BY <1>4, ScaleIs, DivisionMonotone, Division
<1> QED
  BY <1>2, <1>5 DEF V2!F

LEMMA FTyped == ASSUME NEW x \in Nat, NEW y \in Nat PROVE V2!F(x, y) \in Nat
BY FRises

LEMMA FZero == ASSUME NEW x \in Nat PROVE V2!F(x, 0) = 0
<1>1. PICK c : c = (x * x) \div Exp18 + (0 * 0) \div Exp18
  OBVIOUS
<1>2. c \in Nat
  <2>1. x * x \in Nat /\ 0 * 0 \in Nat
    BY TimesNat
  <2> QED
    BY <1>1, <2>1, ScaleIs, Division
<1>3. x * 0 = 0 /\ 0 * c = 0 /\ 0 \div Exp18 = 0
  BY <1>2, ScaleIs
<1> QED
  BY <1>1, <1>3 DEF V2!F

LEMMA DTyped == ASSUME NEW x \in Nat, NEW y \in Nat PROVE V2!D(x, y) \in Nat
<1>1. PICK c \in Nat, f \in Nat : c = (x * x) \div Exp18 /\ f = (y * y) \div Exp18
  BY TimesNat, ScaleIs, Division
<1>2. 3 * x * f \in Nat /\ c * x \in Nat
  BY TimesNat
<1>3. (3 * x * f) \div Exp18 \in Nat /\ (c * x) \div Exp18 \in Nat
  BY <1>2, ScaleIs, Division
<1> QED
  BY <1>1, <1>3 DEF V2!D

(* A pool whose curve counts tokens in their own units: on the constant    *)
(* product, or of tokens of 18 decimals.                                   *)
Unscaled(p) == p.stable => p.scale = <<Exp18, Exp18>>
Whole(p) == p.stable /\ Unscaled(p)

LEMMA ScaledIs == ASSUME NEW r \in Nat PROVE V2!Scaled(r, Exp18) = r
<1>1. PICK q \in Nat : q = (r * Exp18) \div Exp18 /\ q * Exp18 <= r * Exp18 /\ r * Exp18 < q * Exp18 + Exp18
  BY TimesNat, ScaleIs, Division
<1>2. q <= r
  BY <1>1, ScaleIs, Cancels
<1>3. r <= q
  <2>1. SUFFICES ASSUME q + 1 <= r PROVE FALSE
    BY <1>1
  <2>2. (q + 1) * Exp18 <= r * Exp18
    BY <2>1, ScaleIs, TimesMonotone
  <2>3. (q + 1) * Exp18 = q * Exp18 + Exp18 /\ q * Exp18 \in Nat /\ r * Exp18 \in Nat
    BY ScaleIs, TimesNat
  <2> QED
    BY <1>1, <2>2, <2>3, ScaleIs
<1> QED
  BY <1>1, <1>2, <1>3 DEF V2!Scaled

LEMMA KIs == ASSUME NEW p, Whole(p), NEW x \in Nat, NEW y \in Nat PROVE V2!K(p, x, y) = V2!F(x, y)
BY ScaledIs DEF V2!K, Whole, Unscaled

(* What a turn of get_y knows of its y: it is a number, and an answer has  *)
(* the curve it looks for.                                                 *)
Sought(s, x, xy) ==
    /\ s \in [done : BOOLEAN, y : Int]
    /\ s.y \in Nat \/ (s.done /\ s.y \in {V2!Panics, V2!Wraps})
    /\ s.done /\ s.y \in Nat => V2!F(x, s.y) >= xy

LEMMA TurnSeeks ==
    ASSUME NEW p, Whole(p), NEW x \in Nat, NEW xy \in Nat, NEW y \in Nat
    PROVE  Sought(V2!Turn(p, x, xy, y), x, xy)
<1>1. PICK k \in Nat, d \in Nat : k = V2!F(x, y) /\ d = V2!D(x, y)
  <2>1. V2!F(x, y) \in Nat
    BY FRises
  <2> QED
    BY <2>1, DTyped
<1> DEFINE short == k < xy
<1>3. PICK gap \in Nat : gap = (IF short THEN xy - k ELSE k - xy)
  <2>1. (IF short THEN xy - k ELSE k - xy) \in Nat
    OBVIOUS
  <2> QED
    BY <2>1
<1>4. PICK dy : dy = (gap * Exp18) \div d
  OBVIOUS
<1>5. PICK step : step = IF dy = 0 THEN 1 ELSE dy
  OBVIOUS
<1>6. V2!Turn(p, x, xy, y) =
        IF d = 0 THEN [done |-> TRUE, y |-> V2!Panics]
        ELSE IF short
        THEN IF dy = 0 /\ V2!K(p, x, y + 1) > xy
             THEN [done |-> TRUE, y |-> y + 1]
             ELSE [done |-> FALSE, y |-> y + step]
        ELSE IF dy = 0 /\ (k = xy \/ V2!F(x, y - 1) < xy)
             THEN [done |-> TRUE, y |-> y]
             ELSE IF step > y THEN [done |-> TRUE, y |-> V2!Wraps]
             ELSE [done |-> FALSE, y |-> y - step]
  BY <1>1, <1>3, <1>4, <1>5 DEF V2!Turn
<1>7. V2!Panics = -2 /\ V2!Wraps = -3
  BY DEF V2!Panics, V2!Wraps
<1>8. CASE d = 0
  BY <1>6, <1>7, <1>8 DEF Sought
<1>9. CASE d # 0
  <2>1. dy \in Nat /\ step \in Nat
    BY <1>3, <1>4, <1>5, <1>9, ScaleIs, TimesNat, Division
  <2>2. V2!K(p, x, y + 1) = V2!F(x, y + 1) /\ V2!F(x, y + 1) \in Nat
    BY KIs, FRises
  <2>3. CASE short
    BY <1>6, <1>9, <2>1, <2>2, <2>3 DEF Sought
  <2>4. CASE ~short
    BY <1>1, <1>6, <1>7, <1>9, <2>1, <2>4 DEF Sought
  <2> QED
    BY <2>3, <2>4
<1> QED
  BY <1>8, <1>9

(* The turns of get_y from y on. *)
Turned(p, x, xy, last) == IF last.done THEN last ELSE V2!Turn(p, x, xy, last.y)
Walk(g, N, p, x, xy, y) ==
    g = [n \in 0..N |-> IF n = 0 THEN [done |-> FALSE, y |-> y] ELSE Turned(p, x, xy, g[n - 1])]

LEMMA WalkExists ==
    ASSUME NEW p, NEW x, NEW xy, NEW y, NEW N \in Nat PROVE \E g : Walk(g, N, p, x, xy, y)
<1> DEFINE Missing == {n \in Nat : ~\E g : Walk(g, n, p, x, xy, y)}
<1>1. SUFFICES ASSUME Missing # {} PROVE FALSE
  OBVIOUS
<1>2. PICK m \in Missing : \A n \in Missing : ~(n < m)
  BY <1>1, SmallestNumber
<1>3. CASE m = 0
  <2>1. PICK g : g = [n \in 0..0 |-> [done |-> FALSE, y |-> y]]
    OBVIOUS
  <2>2. Walk(g, 0, p, x, xy, y)
    BY <2>1 DEF Walk
  <2> QED
    BY <1>3, <2>2
<1>4. CASE m # 0
  <2>1. m - 1 \in Nat /\ m - 1 < m
    BY <1>4
  <2>2. PICK g : Walk(g, m - 1, p, x, xy, y)
    BY <1>2, <2>1
  <2>3. PICK h : h = [n \in 0..m |-> IF n = m THEN Turned(p, x, xy, g[m - 1]) ELSE g[n]]
    OBVIOUS
  <2>4. ASSUME NEW n \in 0..m
        PROVE  h[n] = IF n = 0 THEN [done |-> FALSE, y |-> y] ELSE Turned(p, x, xy, h[n - 1])
    <3>1. CASE n = m
      BY <1>4, <2>1, <2>3, <3>1
    <3>2. CASE n # m
      <4>1. n \in 0 .. m - 1 /\ h[n] = g[n] /\ (n # 0 => n - 1 \in 0 .. m - 1 /\ h[n - 1] = g[n - 1])
        BY <2>1, <2>3, <3>2
      <4> QED
        BY <2>2, <4>1 DEF Walk
    <3> QED
      BY <3>1, <3>2
  <2>5. Walk(h, m, p, x, xy, y)
    BY <2>3, <2>4 DEF Walk
  <2> QED
    BY <2>5
<1> QED
  BY <1>3, <1>4

LEMMA WalkSeeks ==
    ASSUME NEW p, Whole(p), NEW x \in Nat, NEW xy \in Nat, NEW y \in Nat, NEW N \in Nat,
           NEW g, Walk(g, N, p, x, xy, y), NEW n \in 0..N
    PROVE  Sought(g[n], x, xy)
<1> DEFINE Astray == {k \in 0..N : ~Sought(g[k], x, xy)}
<1>1. SUFFICES ASSUME Astray # {} PROVE FALSE
  OBVIOUS
<1>2. PICK m \in Astray : \A k \in Astray : ~(k < m)
  <2>1. Astray \in SUBSET Nat
    OBVIOUS
  <2> QED
    BY <1>1, <2>1, SmallestNumber
<1>3. CASE m = 0
  BY <1>3 DEF Walk, Sought
<1>4. CASE m # 0
  <2>1. m - 1 \in 0..N /\ Sought(g[m - 1], x, xy)
    BY <1>2, <1>4
  <2>2. g[m] = Turned(p, x, xy, g[m - 1])
    BY <1>4 DEF Walk
  <2>3. CASE g[m - 1].done
    BY <2>1, <2>2, <2>3 DEF Turned
  <2>4. CASE ~g[m - 1].done
    <3>1. g[m - 1].y \in Nat
      BY <2>1, <2>4 DEF Sought
    <3> QED
      BY <2>2, <2>4, <3>1, TurnSeeks DEF Turned
  <2> QED
    BY <2>3, <2>4
<1> QED
  BY <1>3, <1>4

(* get_y ends in an error, or with a y on the curve or above it.           *)
LEMMA GetYSeeks ==
    ASSUME NEW p, Whole(p), NEW x \in Nat, NEW xy \in Nat, NEW y \in Nat,
           NEW found, found = V2!GetY(p, x, xy, y)
    PROVE  \/ found \in {V2!Failed, V2!Panics, V2!Wraps}
           \/ found \in Nat /\ V2!F(x, found) >= xy
<1>1. V2!GetY(p, x, xy, y) =
        IF (CHOOSE g : Walk(g, MaxRounds, p, x, xy, y))[MaxRounds].done
        THEN (CHOOSE g : Walk(g, MaxRounds, p, x, xy, y))[MaxRounds].y
        ELSE V2!Failed
  BY Zenon DEF V2!GetY, Walk, Turned
<1>2. PICK g : g = (CHOOSE after : Walk(after, MaxRounds, p, x, xy, y))
  OBVIOUS
<1>3. Walk(g, MaxRounds, p, x, xy, y)
  BY <1>2, WalkExists, ScaleIs, Zenon
<1>4. Sought(g[MaxRounds], x, xy)
  BY <1>3, WalkSeeks, ScaleIs
<1> QED
  BY <1>1, <1>2, <1>4 DEF Sought
-----------------------------------------------------------------------------
(* The pair: its reserves are in the last Sync on its way.                 *)

SyncEvents == [topic : V2!Kinds, reserves : Nat \X Nat] \cup [topic : {"Swap"}]

LastSync(n) ==
    log[n].topic \in V2!Kinds /\ \A m \in n + 1 .. Len(log) : log[m].topic = "Swap"

SyncsFollow ==
    /\ log \in Seq(SyncEvents)
    /\ \A n \in 1..Len(log) : log[n].topic \in {pair.kind, "Swap"}
    /\ \A n \in 1..Len(log) : LastSync(n) => log[n].reserves = pair.reserves
    /\ V2!InStep

(* Pool and snapshot are of the contract's curve, with the fee fetched.    *)
FeeIs(p) == p.stable = pair.stable /\ p.scale = pair.scale /\ p.fee = V2!FetchedFee(pair.tells)
PoolRecords == [stable : BOOLEAN, scale : Scales, reserves : Nat \X Nat, fee : 0 .. FeeDenominator - 1]

PairTyped ==
    /\ pair \in [stable : BOOLEAN, scale : Scales, reserves : Reserves, fee : Fees,
                 tells : V2!Answers(pair.fee), kind : V2!Kinds]
    /\ pool \in PoolRecords /\ FeeIs(pool)
    /\ steps \in 0..MaxSteps /\ stale \in BOOLEAN

(* Swaps of a snapshot never lower the curve of its reserves.              *)
CurveOf(p, reserves) == V2!K(p, reserves[1], reserves[2])
CurveKept ==
    Unscaled(pair) =>
        /\ snapshot \in [pool : PoolRecords, first : Nat \X Nat] /\ FeeIs(snapshot.pool)
        /\ CurveOf(pair, snapshot.first) <= CurveOf(pair, snapshot.pool.reserves)

PairInv == SyncsFollow /\ PairTyped /\ CurveKept
-----------------------------------------------------------------------------
LEMMA PairConstants ==
    /\ FeeDenominator \in Nat \ {0} /\ GetFeeMax \in Nat \ {0} /\ GetFeeMultiplier \in Nat \ {0}
    /\ FeeDenominator = GetFeeMax * GetFeeMultiplier
    /\ ReverseFeeMax \in 0 .. GetFeeMax - 1 /\ DefaultFee \in 0 .. FeeDenominator - 1
    /\ Fees \subseteq 0 .. GetFeeMax - 1 /\ Reserves \subseteq Nat \X Nat
    /\ PairAmounts \subseteq Nat /\ MaxSteps \in Nat
BY PairAssumption DEF V2!V2Constants

LEMMA FeeScaled ==
    ASSUME NEW n \in 0 .. GetFeeMax - 1
    PROVE  n * GetFeeMultiplier \in 0 .. FeeDenominator - 1
<1>1. n + 1 <= GetFeeMax /\ n + 1 \in Nat /\ GetFeeMax \in Nat /\ GetFeeMultiplier \in Nat /\ GetFeeMultiplier > 0
  BY PairConstants
<1>2. (n + 1) * GetFeeMultiplier <= GetFeeMax * GetFeeMultiplier
  BY <1>1, TimesMonotone
<1>3. (n + 1) * GetFeeMultiplier = n * GetFeeMultiplier + GetFeeMultiplier
  BY <1>1
<1>4. n * GetFeeMultiplier \in Nat
  BY <1>1, TimesNat
<1> QED
  BY <1>1, <1>2, <1>3, <1>4, PairConstants

(* Whoever answers, and in whatever notation, the fee fetched is one; and  *)
(* it is the fee charged where somebody answers and the fee is below the   *)
(* bound above which fee() is taken for what is left after it.             *)
LEMMA FeeFetched ==
    ASSUME NEW fee \in Fees, NEW tells \in V2!Answers(fee)
    PROVE  /\ V2!FetchedFee(tells) \in 0 .. FeeDenominator - 1
           /\ tells # <<>> /\ fee <= ReverseFeeMax => V2!FetchedFee(tells) = fee * GetFeeMultiplier
<1> DEFINE Told(t) ==
             \/ t["fee"] = fee \/ (t["fee"] = GetFeeMax - fee /\ GetFeeMax - fee > ReverseFeeMax)
           Own(t) == ("fee" \in DOMAIN t /\ Told(t)) \/ (DOMAIN t = {"getFee"} /\ t["getFee"] = fee)
           Known(t) == V2!FetchedFee(t) = fee * GetFeeMultiplier
           Claim(t) ==
             /\ V2!FetchedFee(t) \in 0 .. FeeDenominator - 1
             /\ t # <<>> /\ fee <= ReverseFeeMax => Known(t)
<1>1. /\ fee \in 0 .. GetFeeMax - 1 /\ fee * GetFeeMultiplier \in 0 .. FeeDenominator - 1
      /\ ReverseFeeMax \in Nat /\ GetFeeMax \in Nat
  BY PairConstants, FeeScaled
<1>2. ASSUME NEW t, Known(t) PROVE Claim(t)
  BY <1>1, <1>2
<1>3. ASSUME NEW t, "fee" \in DOMAIN t, Told(t) PROVE Claim(t)
  <2>1. V2!FetchedFee(t) = V2!Unreversed(t["fee"]) * GetFeeMultiplier
    BY <1>3 DEF V2!FetchedFee
  <2>2. /\ V2!Unreversed(t["fee"]) \in 0 .. GetFeeMax - 1
        /\ fee <= ReverseFeeMax => V2!Unreversed(t["fee"]) = fee
    BY <1>1, <1>3 DEF V2!Unreversed
  <2> QED
    BY <2>1, <2>2, FeeScaled
<1>4. ASSUME NEW t, Own(t) PROVE Claim(t) /\ Claim(V2!Configured(t))
  <2>1. CASE "fee" \in DOMAIN t /\ Told(t)
    <3>1. "fee" \in DOMAIN V2!Configured(t) /\ V2!Configured(t)["fee"] = t["fee"]
      BY <2>1 DEF V2!Configured
    <3>2. Told(V2!Configured(t))
      BY <2>1, <3>1
    <3> HIDE DEF Told, Claim
    <3> QED
      BY <1>3, <2>1, <3>1, <3>2
  <2>2. CASE DOMAIN t = {"getFee"} /\ t["getFee"] = fee
    <3>1. Known(t)
      BY <2>2 DEF V2!FetchedFee
    <3>2. Known(V2!Configured(t))
      BY <2>2 DEF V2!FetchedFee, V2!Configured
    <3> HIDE DEF Claim, Known
    <3> QED
      BY <1>2, <3>1, <3>2
  <2> QED
    BY <1>4, <2>1, <2>2
<1>5. ASSUME NEW t, t = V2!Only("config", fee * GetFeeMultiplier) \/ t = V2!Only("table", fee * GetFeeMultiplier)
                    \/ t = V2!Only("factory", fee)
      PROVE  Claim(t)
  <2>1. Known(t)
    BY <1>5 DEF V2!Only, V2!FetchedFee, V2!TableFee, V2!FactoryFee
  <2> HIDE DEF Claim, Known
  <2> QED
    BY <1>2, <2>1
<1>6. ASSUME NEW t, t = <<>> PROVE Claim(t)
  <2>1. V2!FetchedFee(t) = DefaultFee
    BY <1>6 DEF V2!FetchedFee, V2!TableFee, V2!FactoryFee
  <2> QED
    BY <1>6, <2>1, PairConstants
<1>7. \/ \E t : Own(t) /\ (tells = t \/ tells = V2!Configured(t))
      \/ tells = V2!Only("config", fee * GetFeeMultiplier) \/ tells = V2!Only("table", fee * GetFeeMultiplier)
      \/ tells = V2!Only("factory", fee) \/ tells = <<>>
  <2>1. Own(V2!Only("fee", fee)) /\ Own(V2!Only("getFee", fee))
    BY DEF V2!Only
  <2>2. GetFeeMax - fee > ReverseFeeMax => Own(V2!Only("fee", GetFeeMax - fee))
    BY DEF V2!Only
  <2> HIDE DEF Own
  <2> QED
    BY <2>1, <2>2 DEF V2!Answers
<1> HIDE DEF Own, Claim
<1>8. Claim(tells)
  BY <1>4, <1>5, <1>6, <1>7
<1> QED
  BY <1>8 DEF Claim
-----------------------------------------------------------------------------
(* Syncs on their way. *)

LEMMA SyncsEmpty == ASSUME V2!Init PROVE SyncsFollow
BY DEF V2!Init, V2!Fetched, SyncsFollow, V2!InStep

LEMMA SyncsGrow ==
    ASSUME PairInv, NEW reserves \in Reserves, NEW swap \in BOOLEAN, V2!Change(reserves, swap)
    PROVE  SyncsFollow'
<1>1. PICK sync : sync = [topic |-> pair.kind, reserves |-> reserves]
  OBVIOUS
<1>2. PICK rest \in Seq(SyncEvents) :
        rest = (IF swap THEN <<[topic |-> "Swap"]>> ELSE <<>>)
  <2>1. [topic |-> "Swap"] \in SyncEvents
    BY DEF SyncEvents
  <2> HIDE DEF SyncEvents
  <2>2. <<[topic |-> "Swap"]>> \in Seq(SyncEvents) /\ <<>> \in Seq(SyncEvents)
    BY <2>1
  <2> QED
    BY <2>2
<1>3. /\ pair.kind \in V2!Kinds /\ pair' = [pair EXCEPT !.reserves = reserves]
      /\ pair'.kind = pair.kind /\ pair'.reserves = reserves
      /\ reserves \in Nat \X Nat
  BY PairConstants DEF PairInv, PairTyped, V2!Change
<1>4. sync \in SyncEvents
  BY <1>1, <1>3 DEF SyncEvents
<1>5. log \in Seq(SyncEvents) /\ log' = log \o <<sync>> \o rest
  BY <1>1, <1>2 DEF PairInv, SyncsFollow, V2!Change
<1>6. /\ log' \in Seq(SyncEvents) /\ Len(log) \in Nat /\ Len(log') \in {Len(log) + 1, Len(log) + 2}
      /\ \A n \in 1..Len(log) : log'[n] = log[n]
      /\ log'[Len(log) + 1] = sync
      /\ Len(log') = Len(log) + 2 => log'[Len(log) + 2].topic = "Swap"
  BY <1>2, <1>4, <1>5
<1>7. "Swap" \notin V2!Kinds
  BY DEF V2!Kinds
<1>8. ASSUME NEW n \in 1..Len(log') PROVE log'[n].topic \in {pair'.kind, "Swap"}
  <2>1. CASE n \in 1..Len(log)
    BY <1>3, <1>6, <2>1 DEF PairInv, SyncsFollow
  <2>2. CASE n = Len(log) + 1
    BY <1>1, <1>3, <1>6, <2>2
  <2>3. CASE n = Len(log) + 2 /\ Len(log') = Len(log) + 2
    BY <1>6, <2>3
  <2> QED
    BY <1>6, <2>1, <2>2, <2>3
<1>9. ASSUME NEW n \in 1..Len(log'), log'[n].topic \in V2!Kinds,
             \A m \in n + 1 .. Len(log') : log'[m].topic = "Swap"
      PROVE  log'[n].reserves = pair'.reserves
  <2>1. CASE n \in 1..Len(log)
    <3>1. Len(log) + 1 \in n + 1 .. Len(log')
      BY <1>6, <2>1
    <3> QED
      BY <1>1, <1>3, <1>6, <1>7, <1>9, <3>1
  <2>2. CASE n = Len(log) + 1
    BY <1>1, <1>3, <1>6, <2>2
  <2>3. CASE n = Len(log) + 2 /\ Len(log') = Len(log) + 2
    BY <1>6, <1>7, <1>9, <2>3
  <2> QED
    BY <1>6, <2>1, <2>2, <2>3
<1>10. V2!InStep'
  <2>1. Len(log) + 1 \in DOMAIN log' /\ log'[Len(log) + 1].topic # "Swap"
    BY <1>1, <1>3, <1>6, <1>7
  <2> QED
    BY <2>1 DEF V2!InStep
<1> QED
  BY <1>6, <1>8, <1>9, <1>10 DEF SyncsFollow, LastSync

LEMMA SyncsShrink ==
    ASSUME PairInv, log # <<>>, log' = Tail(log), UNCHANGED pair, stale' \in BOOLEAN,
           \/ /\ Head(log).topic \in V2!Kinds
              /\ stale' \/ (pool'.reserves = Head(log).reserves)
           \/ Head(log).topic \notin V2!Kinds /\ stale' = stale /\ pool'.reserves = pool.reserves
    PROVE  SyncsFollow'
<1>1. log \in Seq(SyncEvents)
  BY DEF PairInv, SyncsFollow
<1>2. /\ log' \in Seq(SyncEvents) /\ Len(log) \in Nat \ {0} /\ Len(log') = Len(log) - 1
      /\ Head(log) = log[1] /\ \A n \in 1..Len(log') : log'[n] = log[n + 1]
  BY <1>1
<1>3. \A n \in 1..Len(log') : log'[n].topic \in {pair'.kind, "Swap"}
  BY <1>2 DEF PairInv, SyncsFollow
<1>4. ASSUME NEW n \in 1..Len(log'), log'[n].topic \in V2!Kinds,
             \A m \in n + 1 .. Len(log') : log'[m].topic = "Swap"
      PROVE  log'[n].reserves = pair'.reserves
  <2>1. n + 1 \in 1..Len(log) /\ log'[n] = log[n + 1]
    BY <1>2
  <2>2. ASSUME NEW m \in (n + 1) + 1 .. Len(log) PROVE log[m].topic = "Swap"
    <3>1. m - 1 \in n + 1 .. Len(log') /\ m - 1 \in 1..Len(log') /\ (m - 1) + 1 = m
      BY <1>2
    <3> QED
      BY <1>2, <1>4, <3>1
  <2>3. LastSync(n + 1)
    BY <1>4, <2>1, <2>2 DEF LastSync
  <2> QED
    BY <2>1, <2>3 DEF PairInv, SyncsFollow
<1>5. V2!InStep'
  <2>1. SUFFICES ASSUME ~stale', \A n \in DOMAIN log' : log'[n].topic = "Swap"
                 PROVE  pool'.reserves = pair'.reserves
    BY DEF V2!InStep
  <2>2. ASSUME NEW m \in 2..Len(log) PROVE log[m].topic = "Swap"
    <3>1. m - 1 \in 1..Len(log') /\ (m - 1) + 1 = m /\ m - 1 \in DOMAIN log'
      BY <1>2
    <3> QED
      BY <1>2, <2>1, <3>1
  <2>3. CASE Head(log).topic \in V2!Kinds
    <3>1. LastSync(1)
      <4>1. \A m \in 1 + 1 .. Len(log) : log[m].topic = "Swap"
        BY <2>2
      <4> QED
        BY <1>2, <2>3, <4>1 DEF LastSync
    <3>2. log[1].reserves = pair.reserves
      BY <1>2, <3>1 DEF PairInv, SyncsFollow
    <3> QED
      BY <1>2, <2>1, <2>3, <3>2
  <2>4. CASE Head(log).topic \notin V2!Kinds
    <3>1. Head(log).topic = "Swap"
      <4>1. 1 \in 1..Len(log)
        BY <1>2
      <4>2. log[1].topic \in {pair.kind, "Swap"} /\ pair.kind \in V2!Kinds
        BY <4>1 DEF PairInv, SyncsFollow, PairTyped
      <4> QED
        BY <1>2, <2>4, <4>2
    <3>2. \A n \in DOMAIN log : log[n].topic = "Swap"
      <4>1. ASSUME NEW n \in DOMAIN log PROVE n = 1 \/ n \in 2..Len(log)
        BY <1>1, <1>2
      <4> QED
        BY <1>2, <2>2, <3>1, <4>1
    <3> QED
      BY <2>1, <2>4, <3>2 DEF PairInv, SyncsFollow, V2!InStep
  <2> QED
    BY <2>3, <2>4
<1> QED
  BY <1>2, <1>3, <1>4, <1>5 DEF SyncsFollow, LastSync
-----------------------------------------------------------------------------
(* Pools of the constant product. *)

LEMMA PoolTyped ==
    ASSUME NEW p \in PoolRecords, NEW dir \in {0, 1}
    PROVE  /\ p.reserves \in Nat \X Nat /\ p.fee \in 0 .. FeeDenominator - 1 /\ p.stable \in BOOLEAN
           /\ p.reserves[V2!From(dir)] \in Nat /\ p.reserves[V2!Into(dir)] \in Nat
           /\ V2!Valid(p) <=> p.reserves[V2!From(dir)] # 0 /\ p.reserves[V2!Into(dir)] # 0
BY DEF PoolRecords, V2!From, V2!Into, V2!Valid, V2!Range

(* A quote on the constant product is an Err of a quote for nothing or of  *)
(* an empty reserve, or what ProductQuote says.                            *)
LEMMA ProductOutputs ==
    ASSUME NEW p \in PoolRecords, ~p.stable, NEW dir \in {0, 1}, NEW a \in Nat,
           NEW out, out = V2!CalculateOutput(p, dir, a),
           NEW x, x = p.reserves[V2!From(dir)], NEW y, y = p.reserves[V2!Into(dir)],
           NEW kept, kept = FeeDenominator - p.fee
    PROVE  \/ out = V2!Failed
           \/ /\ x \in Nat \ {0} /\ y \in Nat \ {0} /\ a > 0 /\ out \in 0 .. y - 1 /\ kept \in 1..FeeDenominator
              /\ (x * FeeDenominator + a * kept) * (y - out) >= (x * FeeDenominator) * y
              /\ (x * FeeDenominator + a * kept) * (y - (out + 1)) < (x * FeeDenominator) * y
              /\ (x + a) * (y - out) >= x * y
<1>1. CASE a = 0 \/ ~V2!Valid(p)
  BY <1>1 DEF V2!CalculateOutput
<1>2. CASE a # 0 /\ V2!Valid(p)
  <2>1. x \in Nat \ {0} /\ y \in Nat \ {0} /\ kept \in 1..FeeDenominator /\ FeeDenominator \in Nat \ {0}
    BY <1>2, PoolTyped, PairConstants
  <2>2. PICK paid \in Nat : paid = a * kept
    BY <2>1, TimesNat
  <2>3. PICK s \in Nat : s = x * FeeDenominator /\ s > 0
    BY <2>1, TimesNat, TimesPositive
  <2>4. PICK q : q = (paid * y) \div (s + paid)
    OBVIOUS
  <2>5. out = IF q >= y THEN V2!Failed ELSE q
    BY <1>2, <2>2, <2>3, <2>4 DEF V2!CalculateOutput, V2!ProductOutput
  <2>6. /\ q \in 0 .. y - 1
        /\ (s + paid) * (y - q) >= s * y
        /\ (s + paid) * (y - (q + 1)) < s * y
    <3>1. y \in Nat /\ y > 0
      BY <2>1
    <3> QED
      BY <2>3, <2>4, <3>1, ProductQuote
  <2>7. out = q
    BY <2>1, <2>5, <2>6
  <2>8. (x + a) * (y - q) >= x * y
    <3>1. y - q \in Nat /\ kept \in 0..FeeDenominator /\ x \in Nat /\ y \in Nat /\ FeeDenominator > 0 /\ FeeDenominator \in Nat
      BY <2>1, <2>6
    <3>2. (x * FeeDenominator + a * kept) * (y - q) >= (x * FeeDenominator) * y
      BY <2>2, <2>3, <2>6
    <3> QED
      BY <3>1, <3>2, ProductRises
  <2> QED
    BY <1>2, <2>1, <2>2, <2>3, <2>6, <2>7, <2>8
<1> QED
  BY <1>1, <1>2

(* A quote on the stable curve is an error, or leaves the curve as high as *)
(* it was with as much of the input as remains after the fee.              *)
LEMMA StableOutputs ==
    ASSUME NEW p \in PoolRecords, Whole(p), NEW dir \in {0, 1}, NEW a \in Nat,
           NEW out, out = V2!CalculateOutput(p, dir, a),
           NEW x, x = p.reserves[V2!From(dir)], NEW y, y = p.reserves[V2!Into(dir)]
    PROVE  \/ out \in Int /\ out < 0
           \/ /\ x \in Nat /\ y \in Nat /\ out \in 0..y
              /\ \A net \in Nat : (a * (FeeDenominator - p.fee)) \div FeeDenominator <= net
                     => CurveOf(p, p.reserves) <= V2!F(x + net, y - out)
<1>1. /\ x \in Nat /\ y \in Nat /\ p.fee \in 0 .. FeeDenominator - 1 /\ p.reserves \in Nat \X Nat
      /\ FeeDenominator \in Nat \ {0} /\ FeeDenominator - p.fee \in Nat
  BY PoolTyped, PairConstants
<1>2. PICK paid \in Nat : paid = (a * (FeeDenominator - p.fee)) \div FeeDenominator
  BY <1>1, TimesNat, Division
<1>3. PICK k \in Nat : k = CurveOf(p, p.reserves)
  <2>1. CurveOf(p, p.reserves) = V2!F(p.reserves[1], p.reserves[2])
    BY <1>1, KIs DEF CurveOf
  <2>2. p.reserves[1] \in Nat /\ p.reserves[2] \in Nat
    BY <1>1
  <2> QED
    BY <2>1, <2>2, FTyped
<1>4. PICK found, in : in \in Nat /\ in = paid + x /\ found = V2!GetY(p, in, k, y)
  BY <1>1
<1>5. V2!Failed = -1 /\ V2!Panics = -2 /\ V2!Wraps = -3
  BY DEF V2!Failed, V2!Panics, V2!Wraps
<1>6. \/ found \in Int /\ found < 0
      \/ found \in Nat /\ k <= V2!F(in, found) /\ V2!F(in, found) \in Nat
  <2>1. \/ found \in {V2!Failed, V2!Panics, V2!Wraps}
        \/ found \in Nat /\ V2!F(in, found) >= k
    BY <1>1, <1>4, GetYSeeks
  <2>2. found \in Nat => V2!F(in, found) \in Nat
    BY <1>4, FTyped
  <2> QED
    BY <1>5, <2>1, <2>2
<1>7. /\ p.scale[V2!From(dir)] = Exp18 /\ p.scale[V2!Into(dir)] = Exp18
      /\ p.scale[1] = Exp18 /\ p.scale[2] = Exp18 /\ p.stable
  BY DEF Whole, Unscaled, V2!From, V2!Into
<1>8. V2!StableOutput(p, dir, a) =
        IF found < 0 THEN found
        ELSE IF found > y THEN V2!Wraps
        ELSE V2!Scaled(y - found, Exp18)
  <2>1. /\ V2!Scaled(p.reserves[V2!From(dir)], p.scale[V2!From(dir)]) = x
        /\ V2!Scaled(p.reserves[V2!Into(dir)], p.scale[V2!Into(dir)]) = y
        /\ V2!Scaled(paid, p.scale[V2!From(dir)]) = paid
    BY <1>1, <1>7, ScaledIs
  <2> QED
    BY <1>2, <1>3, <1>4, <1>7, <2>1 DEF V2!StableOutput, CurveOf, V2!Scaled
<1>9. out = V2!Failed \/ out = V2!StableOutput(p, dir, a)
  BY <1>7 DEF V2!CalculateOutput
<1>10. CASE out = V2!Failed \/ found < 0 \/ found > y
  BY <1>5, <1>6, <1>8, <1>9, <1>10
<1>11. CASE out # V2!Failed /\ ~(found < 0) /\ ~(found > y)
  <2>1. out = y - found /\ found \in 0..y /\ y - out = found
    <3>1. y - found \in Nat /\ found \in Nat
      BY <1>1, <1>6, <1>11
    <3> QED
      BY <1>1, <1>8, <1>9, <1>11, <3>1, ScaledIs
  <2>2. ASSUME NEW net \in Nat, paid <= net PROVE k <= V2!F(x + net, found)
    <3>1. in <= x + net /\ x + net \in Nat /\ found \in Nat /\ found <= found
      BY <1>1, <1>4, <2>1, <2>2
    <3>2. V2!F(in, found) <= V2!F(x + net, found) /\ V2!F(x + net, found) \in Nat
      BY <1>4, <3>1, FRises
    <3> QED
      BY <1>6, <1>11, <3>2
  <2> QED
    BY <1>1, <1>2, <1>3, <2>1, <2>2
<1> QED
  BY <1>10, <1>11

(* The fee rounded down from the input, and the input after the fee        *)
(* rounded down, are no more than the input.                               *)
LEMMA FeeRounds ==
    ASSUME NEW a \in Nat, NEW unit \in Nat, unit > 0, NEW fee \in 0..unit
    PROVE  /\ (a * fee) \div unit \in Nat
           /\ (a * (unit - fee)) \div unit <= a - (a * fee) \div unit
           /\ (a * (unit - fee)) \div unit <= a
<1>1. unit - fee \in Nat /\ a * fee \in Nat /\ a * (unit - fee) \in Nat
  BY TimesNat
<1>2. PICK q \in Nat, r \in Nat :
        /\ q = (a * fee) \div unit /\ r = (a * (unit - fee)) \div unit
        /\ q * unit <= a * fee /\ r * unit <= a * (unit - fee)
  BY <1>1, Division
<1>3. (q + r) * unit <= a * unit
  <2>1. (q + r) * unit = q * unit + r * unit /\ a * unit = a * fee + a * (unit - fee)
    OBVIOUS
  <2>2. q * unit \in Nat /\ r * unit \in Nat
    BY TimesNat
  <2> QED
    BY <1>1, <1>2, <2>1, <2>2
<1>4. q + r <= a
  BY <1>3, Cancels
<1> QED
  BY <1>2, <1>4

LEMMA FSymmetric == ASSUME NEW x \in Nat, NEW y \in Nat PROVE V2!F(x, y) = V2!F(y, x)
<1>1. x * y = y * x
  BY TimesNat
<1>2. PICK c \in Nat, f \in Nat : c = (x * x) \div Exp18 /\ f = (y * y) \div Exp18
  BY TimesNat, ScaleIs, Division
<1>3. c + f = f + c
  OBVIOUS
<1> QED
  BY <1>1, <1>2, <1>3, Zenon DEF V2!F

LEMMA OutputTyped ==
    ASSUME NEW p \in PoolRecords, Unscaled(p), NEW dir \in {0, 1}, NEW a \in Nat
    PROVE  V2!CalculateOutput(p, dir, a) \in Int
<1>1. CASE p.stable
  BY <1>1, StableOutputs DEF Whole
<1>2. CASE ~p.stable
  <2>1. V2!Failed \in Int
    BY DEF V2!Failed
  <2> QED
    BY <1>2, <2>1, ProductOutputs
<1> QED
  BY <1>1, <1>2, PoolTyped

(* The curve: a number, and not lower where the reserves are not.          *)
LEMMA CurveRises ==
    ASSUME NEW p, p.stable \in BOOLEAN, Unscaled(p), NEW r \in Nat \X Nat, NEW s \in Nat \X Nat,
           r[1] <= s[1], r[2] <= s[2]
    PROVE  CurveOf(p, r) \in Nat /\ CurveOf(p, s) \in Nat /\ CurveOf(p, r) <= CurveOf(p, s)
<1>1. CASE p.stable
  <2>1. CurveOf(p, r) = V2!F(r[1], r[2]) /\ CurveOf(p, s) = V2!F(s[1], s[2])
    BY <1>1, KIs DEF CurveOf, Whole
  <2> QED
    BY <2>1, FRises
<1>2. CASE ~p.stable
  <2>1. CurveOf(p, r) = r[1] * r[2] /\ CurveOf(p, s) = s[1] * s[2]
    BY <1>2 DEF CurveOf, V2!K
  <2> QED
    BY <2>1, TimesBoth
<1> QED
  BY <1>1, <1>2

(* A quote that is a number leaves the curve as high as it was.            *)
LEMMA QuoteKeeps ==
    ASSUME NEW p \in PoolRecords, Unscaled(p), NEW dir \in {0, 1}, NEW a \in Nat,
           NEW out, out = V2!CalculateOutput(p, dir, a), out \in Int, out >= 0,
           NEW moved, moved = V2!Moved(p.reserves, dir, a, out)
    PROVE  moved \in Nat \X Nat /\ CurveOf(p, p.reserves) <= CurveOf(p, moved)
<1>1. PICK x, y :
        /\ x = p.reserves[V2!From(dir)] /\ y = p.reserves[V2!Into(dir)]
        /\ x \in Nat /\ y \in Nat
  BY PoolTyped
<1>2. p.reserves \in Nat \X Nat /\ p.stable \in BOOLEAN /\ p.fee \in 0 .. FeeDenominator - 1
  BY PoolTyped
<1>3. ASSUME out \in 0..y
      PROVE  \/ /\ dir = 0 /\ moved = <<x + a, y - out>> /\ p.reserves[1] = x /\ p.reserves[2] = y
             \/ /\ dir = 1 /\ moved = <<y - out, x + a>> /\ p.reserves[1] = y /\ p.reserves[2] = x
  BY <1>1, <1>2, <1>3 DEF V2!Moved, V2!From, V2!Into
<1>4. CASE p.stable
  <2>1. /\ out \in 0..y
        /\ \A net \in Nat : (a * (FeeDenominator - p.fee)) \div FeeDenominator <= net
               => CurveOf(p, p.reserves) <= V2!F(x + net, y - out)
    BY <1>1, <1>4, StableOutputs DEF Whole
  <2>2. CurveOf(p, p.reserves) <= V2!F(x + a, y - out)
    <3>1. FeeDenominator \in Nat /\ FeeDenominator > 0 /\ p.fee \in 0..FeeDenominator
      BY <1>2, PairConstants
    <3> QED
      BY <2>1, <3>1, FeeRounds
  <2>3. moved \in Nat \X Nat /\ CurveOf(p, moved) = V2!F(moved[1], moved[2])
    <3>1. moved \in Nat \X Nat
      BY <1>1, <1>3, <2>1
    <3> QED
      BY <1>4, <3>1, KIs DEF CurveOf, Whole
  <2>4. x + a \in Nat /\ y - out \in Nat
    BY <1>1, <2>1
  <2> QED
    BY <1>3, <2>1, <2>2, <2>3, <2>4, FSymmetric
<1>5. CASE ~p.stable
  <2>1. out \in 0..y /\ (x + a) * (y - out) >= x * y
    <3>1. out # V2!Failed
      BY DEF V2!Failed
    <3> QED
      BY <1>1, <1>5, <3>1, ProductOutputs
  <2>2. moved \in Nat \X Nat
    BY <1>1, <1>3, <2>1
  <2>3. CurveOf(p, p.reserves) = p.reserves[1] * p.reserves[2] /\ CurveOf(p, moved) = moved[1] * moved[2]
    BY <1>5 DEF CurveOf, V2!K
  <2>4. /\ x * y = y * x /\ (x + a) * (y - out) = (y - out) * (x + a)
        /\ x * y \in Nat /\ (x + a) * (y - out) \in Nat
    <3>1. x + a \in Nat /\ y - out \in Nat
      BY <1>1, <2>1
    <3> QED
      BY <1>1, <3>1, TimesNat
  <2> QED
    BY <1>3, <2>1, <2>2, <2>3, <2>4
<1> QED
  BY <1>2, <1>4, <1>5

LEMMA SnapshotSwaps ==
    ASSUME PairInv, Unscaled(pair), NEW dir \in {0, 1}, NEW a \in PairAmounts, V2!Swap(dir, a)
    PROVE  CurveKept'
<1>1. PICK p, out :
        /\ p \in PoolRecords /\ p = snapshot.pool /\ out = V2!CalculateOutput(p, dir, a) /\ FeeIs(p)
        /\ out >= 0 /\ out < p.reserves[V2!Into(dir)]
  BY DEF PairInv, CurveKept, V2!Swap, V2!CanApply
<1>2. PICK moved : moved = V2!Moved(p.reserves, dir, a, out)
  OBVIOUS
<1>3. /\ pair' = pair
      /\ snapshot' = [snapshot EXCEPT !.pool = [p EXCEPT !.reserves = moved]]
      /\ snapshot \in [pool : PoolRecords, first : Nat \X Nat]
      /\ CurveOf(pair, snapshot.first) <= CurveOf(pair, p.reserves)
  BY <1>1, <1>2 DEF PairInv, CurveKept, V2!Swap, V2!Applied
<1>4. Unscaled(p) /\ a \in Nat /\ p.reserves \in Nat \X Nat /\ p.stable \in BOOLEAN
  BY <1>1, PairConstants, PoolTyped DEF FeeIs, Unscaled
<1>5. out \in Int
  BY <1>1, <1>4, OutputTyped
<1>6. moved \in Nat \X Nat /\ CurveOf(p, p.reserves) <= CurveOf(p, moved)
  BY <1>1, <1>2, <1>4, <1>5, QuoteKeeps
<1>7. /\ snapshot' \in [pool : PoolRecords, first : Nat \X Nat] /\ snapshot'.first = snapshot.first
      /\ snapshot'.pool.reserves = moved
      /\ snapshot'.pool.stable = p.stable /\ snapshot'.pool.scale = p.scale /\ snapshot'.pool.fee = p.fee
  BY <1>1, <1>3, <1>6 DEF PoolRecords
<1>8. \A r : CurveOf(pair, r) = CurveOf(p, r)
  BY <1>1 DEF CurveOf, FeeIs, V2!K
<1>9. CurveOf(pair, snapshot.first) <= CurveOf(pair, moved)
  <2>1. /\ CurveOf(p, snapshot.first) \in Nat /\ CurveOf(p, p.reserves) \in Nat
        /\ CurveOf(p, moved) \in Nat
    BY <1>3, <1>4, <1>6, CurveRises
  <2> QED
    BY <1>3, <1>6, <1>8, <2>1
<1> QED
  BY <1>1, <1>3, <1>7, <1>9 DEF CurveKept, FeeIs
-----------------------------------------------------------------------------
LEMMA PairStart == ASSUME V2!Init PROVE PairInv
<1>1. pair \in [stable : BOOLEAN, scale : Scales, reserves : Reserves, fee : Fees,
                tells : V2!Answers(pair.fee), kind : V2!Kinds]
  BY DEF V2!Init
<1>2. /\ pool = [stable |-> pair.stable, scale |-> pair.scale, reserves |-> pair.reserves,
                 fee |-> V2!FetchedFee(pair.tells)]
      /\ snapshot = [pool |-> pool, first |-> pool.reserves] /\ steps = 0 /\ stale = FALSE
  BY DEF V2!Init, V2!Fetched, V2!Clone
<1>3. pool \in PoolRecords /\ FeeIs(pool)
  <2>1. V2!FetchedFee(pair.tells) \in 0 .. FeeDenominator - 1
    BY <1>1, FeeFetched
  <2>2. pair.reserves \in Nat \X Nat
    BY <1>1, PairConstants
  <2> QED
    BY <1>1, <1>2, <2>1, <2>2 DEF PoolRecords, FeeIs
<1>4. PairTyped
  <2>1. steps \in 0..MaxSteps
    <3>1. steps = 0 /\ MaxSteps \in Nat
      BY PairConstants DEF V2!Init
    <3> QED
      BY <3>1
  <2>2. stale \in BOOLEAN
    BY Zenon DEF V2!Init
  <2> QED
    BY <1>1, <1>3, <2>1, <2>2 DEF PairTyped
<1>5. CurveKept
  <2>1. snapshot.first = pool.reserves /\ snapshot.pool = pool /\ pool.reserves \in Nat \X Nat
    BY <1>2, <1>3 DEF PoolRecords
  <2>2. snapshot \in [pool : PoolRecords, first : Nat \X Nat]
    BY <1>2, <1>3, <2>1
  <2>3. Unscaled(pair) => CurveOf(pair, pool.reserves) <= CurveOf(pair, pool.reserves)
    BY <1>1, <2>1, CurveRises
  <2> QED
    BY <1>3, <2>1, <2>2, <2>3 DEF CurveKept
<1> QED
  BY <1>4, <1>5, SyncsEmpty DEF PairInv

LEMMA PairStep == ASSUME PairInv, [V2!Next]_(V2!vars) PROVE PairInv'
<1>1. ASSUME NEW reserves \in Reserves, NEW swap \in BOOLEAN, V2!Change(reserves, swap) PROVE PairInv'
  <2>1. /\ steps < MaxSteps /\ steps' = steps + 1 /\ pair' = [pair EXCEPT !.reserves = reserves]
        /\ pool' = pool /\ snapshot' = snapshot /\ stale' = stale
    BY <1>1 DEF V2!Change
  <2>2. /\ pair'.stable = pair.stable /\ pair'.scale = pair.scale /\ pair'.tells = pair.tells
        /\ pair'.fee = pair.fee
        /\ pair' \in [stable : BOOLEAN, scale : Scales, reserves : Reserves, fee : Fees,
                      tells : V2!Answers(pair'.fee), kind : V2!Kinds]
    BY <2>1 DEF PairInv, PairTyped
  <2>3. PairTyped'
    BY <2>1, <2>2, PairConstants DEF PairInv, PairTyped, FeeIs
  <2>4. CurveKept'
    <3>1. \A r : CurveOf(pair, r)' = CurveOf(pair, r)
      BY <2>2 DEF CurveOf, V2!K
    <3> QED
      BY <2>1, <2>2, <3>1 DEF PairInv, CurveKept, FeeIs, Unscaled
  <2> QED
    BY <1>1, <2>3, <2>4, SyncsGrow DEF PairInv
<1>2. ASSUME V2!ApplyLog PROVE PairInv'
  <2>1. PICK e \in SyncEvents : e = Head(log)
    BY <1>2 DEF PairInv, SyncsFollow, V2!ApplyLog
  <2>2. /\ log # <<>> /\ log' = Tail(log) /\ UNCHANGED <<pair, steps, snapshot>>
        /\ pool' = IF e.topic \in V2!Kinds THEN [pool EXCEPT !.reserves = e.reserves] ELSE pool
        /\ stale' = (stale /\ e.topic \notin V2!Kinds)
    BY <1>2, <2>1 DEF V2!ApplyLog, V2!Synced
  <2>3. pool \in PoolRecords /\ FeeIs(pool) /\ stale \in BOOLEAN
    BY DEF PairInv, PairTyped
  <2>4. e.topic \in V2!Kinds => e.reserves \in Nat \X Nat
    BY <2>1 DEF SyncEvents, V2!Kinds
  <2>5. /\ pool' \in PoolRecords /\ pool'.stable = pool.stable /\ pool'.scale = pool.scale /\ pool'.fee = pool.fee
        /\ pool'.reserves = IF e.topic \in V2!Kinds THEN e.reserves ELSE pool.reserves
    BY <2>2, <2>3, <2>4 DEF PoolRecords
  <2>6. PairTyped'
    BY <2>2, <2>3, <2>5 DEF PairInv, PairTyped, FeeIs
  <2>7. CurveKept'
    BY <2>2 DEF PairInv, CurveKept, FeeIs, Unscaled, CurveOf
  <2>8. SyncsFollow'
    <3>1. stale' \in BOOLEAN
      BY <2>2, <2>3
    <3>2. e.topic \notin V2!Kinds => stale' = stale
      BY <2>2, <2>3
    <3> QED
      BY <2>1, <2>2, <2>5, <3>1, <3>2, SyncsShrink
  <2> QED
    BY <2>6, <2>7, <2>8 DEF PairInv
<1>3. ASSUME V2!Lose PROVE PairInv'
  <2>1. /\ log # <<>> /\ log' = Tail(log) /\ UNCHANGED <<pair, steps, pool, snapshot>>
        /\ stale' = (stale \/ Head(log).topic \in V2!Kinds) /\ stale \in BOOLEAN
    BY <1>3 DEF V2!Lose, PairInv, PairTyped
  <2>2. stale' \in BOOLEAN /\ (Head(log).topic \in V2!Kinds => stale')
        /\ (Head(log).topic \notin V2!Kinds => stale' = stale)
    BY <2>1
  <2>3. PairTyped' /\ CurveKept'
    BY <2>1, <2>2 DEF PairInv, PairTyped, CurveKept, FeeIs, Unscaled, CurveOf
  <2>4. SyncsFollow'
    BY <2>1, <2>2, SyncsShrink
  <2> QED
    BY <2>3, <2>4 DEF PairInv
<1>4. ASSUME V2!Snapshot PROVE PairInv'
  <2>1. snapshot' = [pool |-> pool, first |-> pool.reserves] /\ UNCHANGED <<pair, log, steps, pool, stale>>
    BY <1>4 DEF V2!Snapshot, V2!Clone
  <2>2. SyncsFollow' /\ PairTyped'
    BY <2>1 DEF PairInv, SyncsFollow, LastSync, PairTyped, FeeIs, V2!InStep
  <2>3. CurveKept'
    <3>1. pool \in PoolRecords /\ FeeIs(pool) /\ pool.reserves \in Nat \X Nat
      BY DEF PairInv, PairTyped, PoolRecords
    <3>2. snapshot' \in [pool : PoolRecords, first : Nat \X Nat]
      BY <2>1, <3>1
    <3>3. snapshot'.first = pool.reserves /\ snapshot'.pool = pool /\ FeeIs(pool)'
      BY <2>1, <3>1 DEF FeeIs
    <3>4. Unscaled(pair) => CurveOf(pair, pool.reserves) <= CurveOf(pair, pool.reserves)
      BY <3>1, CurveRises DEF PairInv, PairTyped
    <3> QED
      BY <2>1, <3>1, <3>2, <3>3, <3>4 DEF CurveKept, FeeIs, Unscaled, CurveOf
  <2> QED
    BY <2>2, <2>3 DEF PairInv
<1>5. ASSUME NEW dir \in V2!Directions, NEW a \in PairAmounts, V2!Swap(dir, a) PROVE PairInv'
  <2>1. /\ steps < MaxSteps /\ steps' = steps + 1 /\ UNCHANGED <<pair, log, pool, stale>>
    BY <1>5 DEF V2!Swap
  <2>2. SyncsFollow'
    BY <2>1 DEF PairInv, SyncsFollow, LastSync, V2!InStep
  <2>3. PairTyped'
    BY <2>1, PairConstants DEF PairInv, PairTyped, FeeIs
  <2>4. CurveKept'
    BY <1>5, <2>1, SnapshotSwaps DEF V2!Directions, CurveKept, Unscaled
  <2> QED
    BY <2>2, <2>3, <2>4 DEF PairInv
<1>6. ASSUME UNCHANGED V2!vars PROVE PairInv'
  BY <1>6 DEF V2!vars, PairInv, SyncsFollow, LastSync, PairTyped, CurveKept, CurveOf, Unscaled, FeeIs, V2!InStep
<1> QED
  BY <1>1, <1>2, <1>3, <1>4, <1>5, <1>6 DEF V2!Next
-----------------------------------------------------------------------------
(* Pairs, in the registry of both kinds of pool. *)

PairsInv == kind = "UniswapV2" => PairInv

LEMMA PairsInvHolds == PoolsSpec => []PairsInv
<1>1. PoolsInit => PairsInv
  BY PairStart DEF PoolsInit, IdentifyAndFetchPool, PairsInv
<1>2. PairsInv /\ [PoolsNext]_poolVars => PairsInv'
  <2>1. ASSUME PairsInv, PoolsNext PROVE PairsInv'
    <3>1. kind' = kind /\ (kind = "UniswapV2" => V2!Next)
      BY <2>1 DEF PoolsNext
    <3> QED
      BY <2>1, <3>1, PairStep DEF PairsInv
  <2>2. ASSUME PairsInv, UNCHANGED poolVars PROVE PairsInv'
    <3>1. kind' = kind /\ UNCHANGED V2!vars
      BY <2>2 DEF poolVars, pairVars, quoteVars, vars, V2!vars
    <3> QED
      BY <2>2, <3>1, PairStep DEF PairsInv
  <2> QED
    BY <2>1, <2>2
<1> QED
  BY <1>1, <1>2, PTL DEF PoolsSpec

(* apply_log of a pair: no Sync on its way and none lost since the last    *)
(* one that arrived, and the cached reserves are the contract's.           *)
THEOREM PairFollows == PoolsSpec => []PairInStep
<1>1. PairsInv => PairInStep
  BY DEF PairsInv, PairInv, SyncsFollow, PairInStep
<1> QED
  BY <1>1, PairsInvHolds, PTL

(* apply_swap on clones of a pool of the constant product, or of stable    *)
(* tokens of 18 decimals: no sequence of quoted swaps, in whatever         *)
(* directions and amounts, takes tokens out and pays nothing for them, but *)
(* for units the curve does not see.                                       *)
THEOREM PairsDoNotPump == PoolsSpec => []((kind = "UniswapV2" => Unscaled(pair)) => PairNoPump)
<1>1. ASSUME PairInv, Unscaled(pair) PROVE V2!NoPump
  <2>1. PICK first \in Nat \X Nat, now \in Nat \X Nat :
          /\ first = snapshot.first /\ now = snapshot.pool.reserves
          /\ CurveOf(pair, first) <= CurveOf(pair, now)
    BY <1>1 DEF PairInv, CurveKept, PoolRecords
  <2>2. PICK p : p = [snapshot.pool EXCEPT !.reserves = first]
    OBVIOUS
  <2>3. /\ p.reserves = first /\ p.stable = pair.stable /\ p.scale = pair.scale
        /\ p.stable \in BOOLEAN /\ Unscaled(p)
    BY <1>1, <2>1, <2>2 DEF PairInv, CurveKept, PoolRecords, FeeIs, Unscaled
  <2>4. \A r : V2!K(p, r[1], r[2]) = CurveOf(p, r) /\ CurveOf(p, r) = CurveOf(pair, r)
    BY <2>3 DEF CurveOf, V2!K
  <2>5. SUFFICES ASSUME V2!Sharp(p), now[1] <= first[1], now[2] <= first[2], now # first PROVE FALSE
    BY <2>1, <2>2 DEF V2!NoPump
  <2>6. first[1] > 0 /\ first[2] > 0
    BY <2>1, <2>3, <2>5 DEF V2!Sharp, V2!Valid, V2!Range
  <2>7. V2!Moved(first, 0, 0, 1) = <<first[1], first[2] - 1>> /\ V2!Moved(first, 1, 0, 1) = <<first[1] - 1, first[2]>>
    BY <2>1 DEF V2!Moved, V2!From, V2!Into
  <2>8. /\ CurveOf(p, <<first[1], first[2] - 1>>) < CurveOf(p, first)
        /\ CurveOf(p, <<first[1] - 1, first[2]>>) < CurveOf(p, first)
    BY <2>3, <2>4, <2>5, <2>7 DEF V2!Sharp, V2!Directions
  <2>9. CASE now[1] <= first[1] - 1
    <3>1. first[1] - 1 \in Nat /\ <<first[1] - 1, first[2]>> \in Nat \X Nat
      BY <2>6
    <3>2. /\ CurveOf(p, now) <= CurveOf(p, <<first[1] - 1, first[2]>>) /\ CurveOf(p, now) \in Nat
          /\ CurveOf(p, <<first[1] - 1, first[2]>>) \in Nat /\ CurveOf(p, first) \in Nat
      BY <2>3, <2>5, <2>9, <3>1, CurveRises
    <3> QED
      BY <2>1, <2>4, <2>8, <3>2
  <2>10. CASE now[2] <= first[2] - 1
    <3>1. first[2] - 1 \in Nat /\ <<first[1], first[2] - 1>> \in Nat \X Nat
      BY <2>6
    <3>2. /\ CurveOf(p, now) <= CurveOf(p, <<first[1], first[2] - 1>>) /\ CurveOf(p, now) \in Nat
          /\ CurveOf(p, <<first[1], first[2] - 1>>) \in Nat /\ CurveOf(p, first) \in Nat
      BY <2>3, <2>5, <2>10, <3>1, CurveRises
    <3> QED
      BY <2>1, <2>4, <2>8, <3>2
  <2>11. now[1] <= first[1] - 1 \/ now[2] <= first[2] - 1
    BY <2>5
  <2> QED
    BY <2>9, <2>10, <2>11
<1>2. PairsInv => ((kind = "UniswapV2" => Unscaled(pair)) => PairNoPump)
  BY <1>1 DEF PairsInv, PairNoPump
<1> QED
  BY <1>2, PairsInvHolds, PTL

(* calculate_output of a constant-product pool: the contract pays what it  *)
(* quotes and would not pay one unit more, whatever the reserves, amount,  *)
(* direction and place that told the fee; and the quote never panics.  On  *)
(* the stable curve, of tokens of 18 decimals: the contract pays what is   *)
(* quoted, wherever Newton's iteration ends.  The fee must not be above    *)
(* the bound over which an answer of fee() is read as what is left of it.  *)
THEOREM PairsExecutable ==
    ASSUME Fees \subseteq 0..ReverseFeeMax
    PROVE  PoolsSpec => [](/\ kind = "UniswapV2" /\ Unscaled(pair) => V2!Executable
                           /\ (kind = "UniswapV2" => ~pair.stable) => PairExecutable)
<1>1. ASSUME PairInv, ~pair.stable, pool.reserves = pair.reserves, pair.tells # <<>>,
             NEW dir \in V2!Directions, NEW a \in PairAmounts, NEW out,
             out = V2!CalculateOutput(pool, dir, a), out > 0
      PROVE  V2!Accepts(pair, dir, a, out) /\ ~V2!Accepts(pair, dir, a, out + 1)
  <2>1. /\ pool \in PoolRecords /\ ~pool.stable /\ pair.fee \in Fees /\ dir \in {0, 1} /\ a \in Nat
        /\ pair.tells \in V2!Answers(pair.fee) /\ pool.fee = V2!FetchedFee(pair.tells)
    BY <1>1, PairConstants DEF PairInv, PairTyped, FeeIs, V2!Directions
  <2>2. pool.fee = pair.fee * GetFeeMultiplier
    <3>1. pair.fee \in 0..ReverseFeeMax
      BY <2>1
    <3> QED
      BY <1>1, <2>1, <3>1, PairConstants, FeeFetched
  <2>3. PICK x, y, kept :
          /\ x = pool.reserves[V2!From(dir)] /\ y = pool.reserves[V2!Into(dir)]
          /\ kept = FeeDenominator - pool.fee
    OBVIOUS
  <2>4. /\ x \in Nat \ {0} /\ y \in Nat \ {0} /\ out \in 0 .. y - 1 /\ kept \in 1..FeeDenominator
        /\ (x * FeeDenominator + a * kept) * (y - out) >= (x * FeeDenominator) * y
        /\ (x * FeeDenominator + a * kept) * (y - (out + 1)) < (x * FeeDenominator) * y
    <3>1. out # V2!Failed
      BY <1>1 DEF V2!Failed
    <3>2. pool \in PoolRecords /\ ~pool.stable /\ dir \in {0, 1} /\ a \in Nat
      BY <2>1
    <3>3. out = V2!CalculateOutput(pool, dir, a)
      BY <1>1
    <3> QED
      BY <2>3, <3>1, <3>2, <3>3, ProductOutputs
  <2>5. (x * FeeDenominator) * y = x * y * FeeDenominator
    BY <2>4, PairConstants
  <2>6. PICK n, m, k :
          /\ n \in Nat /\ n = x * y * FeeDenominator
          /\ m = (x * FeeDenominator + a * kept) * (y - out) /\ m >= n
          /\ k = (x * FeeDenominator + a * kept) * (y - (out + 1)) /\ k < n /\ k \in Int
    <3>1. x * y * FeeDenominator \in Nat
      BY <2>4, PairConstants, TimesNat
    <3>2. (x * FeeDenominator + a * kept) * (y - (out + 1)) \in Int
      BY <2>1, <2>4, PairConstants
    <3> QED
      BY <2>4, <2>5, <3>1, <3>2
  <2>7. V2!Accepts(pair, dir, a, out)
    BY <1>1, <2>2, <2>3, <2>4, <2>6 DEF V2!Accepts
  <2>8. ~V2!Accepts(pair, dir, a, out + 1)
    BY <1>1, <2>2, <2>3, <2>4, <2>6 DEF V2!Accepts
  <2> QED
    BY <2>7, <2>8
<1>2. ASSUME PairInv, ~pair.stable, NEW dir \in V2!Directions, NEW a \in PairAmounts
      PROVE  V2!CalculateOutput(pool, dir, a) \notin {V2!Panics, V2!Wraps}
  <2>1. pool \in PoolRecords /\ ~pool.stable /\ dir \in {0, 1} /\ a \in Nat
    BY <1>2, PairConstants DEF PairInv, PairTyped, FeeIs, V2!Directions
  <2>2. PICK out : out = V2!CalculateOutput(pool, dir, a)
    OBVIOUS
  <2>3. out = V2!Failed \/ out \in Nat
    BY <2>1, <2>2, ProductOutputs, PoolTyped
  <2> QED
    BY <2>2, <2>3 DEF V2!Panics, V2!Wraps, V2!Failed
<1>3. ASSUME PairInv, pair.stable, Unscaled(pair), pool.reserves = pair.reserves, pair.tells # <<>>,
             V2!Priced(pool), NEW dir \in V2!Directions, NEW a \in PairAmounts, NEW out,
             out = V2!CalculateOutput(pool, dir, a), out > 0
      PROVE  V2!Accepts(pair, dir, a, out)
  <2>1. /\ pool \in PoolRecords /\ Whole(pool) /\ Whole(pair) /\ pair.fee \in Fees /\ dir \in {0, 1} /\ a \in Nat
        /\ pair.tells \in V2!Answers(pair.fee) /\ pool.fee = V2!FetchedFee(pair.tells)
    BY <1>3, PairConstants DEF PairInv, PairTyped, FeeIs, V2!Directions, Whole, Unscaled
  <2>2. pool.fee = pair.fee * GetFeeMultiplier
    <3>1. pair.fee \in 0..ReverseFeeMax
      BY <2>1
    <3> QED
      BY <1>3, <2>1, <3>1, PairConstants, FeeFetched
  <2>3. PICK x, y :
          /\ x = pool.reserves[V2!From(dir)] /\ y = pool.reserves[V2!Into(dir)]
          /\ x \in Nat /\ y \in Nat /\ pool.reserves \in Nat \X Nat
    BY <2>1, PoolTyped
  <2>4. PICK net : net = a - (a * pool.fee) \div FeeDenominator
    OBVIOUS
  <2>5. net \in Nat /\ (a * (FeeDenominator - pool.fee)) \div FeeDenominator <= net
    <3>1. FeeDenominator \in Nat /\ FeeDenominator > 0 /\ pool.fee \in 0..FeeDenominator
      BY <2>1, PoolTyped, PairConstants
    <3>2. (a * (FeeDenominator - pool.fee)) \div FeeDenominator \in Nat
      BY <2>1, <3>1, TimesNat, Division
    <3> QED
      BY <2>1, <2>4, <3>1, <3>2, FeeRounds
  <2>6. out \in 0..y /\ CurveOf(pool, pool.reserves) <= V2!F(x + net, y - out)
    <3>1. ~(out < 0)
      <4>1. out \in Int
        BY <1>3, <2>1, OutputTyped DEF Whole
      <4> QED
        BY <1>3, <4>1
    <3> QED
      BY <1>3, <2>1, <2>3, <2>5, <3>1, StableOutputs
  <2>7. CurveOf(pool, pool.reserves) \in Nat /\ CurveOf(pool, pool.reserves) > 0
    <3>1. CurveOf(pool, pool.reserves) \in Nat
      <4>1. pool.stable \in BOOLEAN /\ Unscaled(pool)
        BY <2>1, PoolTyped DEF Whole
      <4>2. PICK r \in Nat \X Nat : r = pool.reserves
        BY <2>3
      <4> QED
        BY <4>1, <4>2, CurveRises
    <3> QED
      BY <1>3, <3>1 DEF V2!Priced, CurveOf
  <2>8. out # y
    <3>1. x + net \in Nat
      BY <2>3, <2>5
    <3>2. V2!F(x + net, 0) = 0
      BY <3>1, FZero
    <3> QED
      BY <2>3, <2>6, <2>7, <3>2
  <2>9. PICK after : after = V2!Moved(pair.reserves, dir, net, out)
    OBVIOUS
  <2>10. \/ dir = 0 /\ after = <<x + net, y - out>>
         \/ dir = 1 /\ after = <<y - out, x + net>>
    BY <1>3, <2>1, <2>3, <2>5, <2>9 DEF V2!Moved, V2!From, V2!Into
  <2>11. V2!K(pair, after[1], after[2]) = V2!F(x + net, y - out)
    <3>1. x + net \in Nat /\ y - out \in Nat
      BY <2>3, <2>5, <2>6
    <3> QED
      BY <2>1, <2>10, <3>1, KIs, FSymmetric
  <2>12. V2!K(pair, pair.reserves[1], pair.reserves[2]) = CurveOf(pool, pool.reserves)
    BY <1>3 DEF CurveOf, V2!K, PairInv, PairTyped, FeeIs
  <2>13. V2!K(pair, after[1], after[2]) >= V2!K(pair, pair.reserves[1], pair.reserves[2])
    BY <2>6, <2>11, <2>12
  <2>14. out \in 1 .. y - 1
    BY <1>3, <2>3, <2>6, <2>8
  <2> QED
    BY <1>3, <2>2, <2>3, <2>4, <2>9, <2>13, <2>14 DEF V2!Accepts
<1>4. ASSUME PairInv, Unscaled(pair) PROVE V2!Executable
  <2>1. CASE pair.stable
    BY <1>3, <1>4, <2>1 DEF V2!Executable, V2!Quotes
  <2>2. CASE ~pair.stable
    BY <1>1, <1>4, <2>2 DEF V2!Executable, V2!Quotes
  <2> QED
    BY <2>1, <2>2
<1>5. ASSUME PairInv, ~pair.stable PROVE V2!PricedQuotesSound
  BY <1>2, <1>5 DEF V2!PricedQuotesSound
<1>6. PairsInv => /\ kind = "UniswapV2" /\ Unscaled(pair) => V2!Executable
                  /\ (kind = "UniswapV2" => ~pair.stable) => PairExecutable
  <2>1. ~pair.stable => Unscaled(pair)
    BY DEF Unscaled
  <2> QED
    BY <1>4, <1>5, <2>1 DEF PairsInv, PairExecutable
<1> QED
  BY <1>6, PairsInvHolds, PTL
-----------------------------------------------------------------------------
(* Quotients and remainders, of any integer. *)
LEMMA Quotients ==
    ASSUME NEW a \in Int, NEW d \in Nat, d > 0
    PROVE  /\ a \div d \in Int /\ a % d \in 0 .. d - 1 /\ a = (a \div d) * d + (a % d)
           /\ a \in Nat => a \div d \in Nat
OBVIOUS

LEMMA QuotientIs ==
    ASSUME NEW a \in Int, NEW d \in Nat, d > 0, NEW q \in Int, NEW r \in 0 .. d - 1, a = q * d + r
    PROVE  a \div d = q /\ a % d = r
<1>1. PICK p, s : p = a \div d /\ s = a % d
  OBVIOUS
<1>2. p \in Int /\ s \in 0 .. d - 1 /\ a = p * d + s
  BY <1>1, Quotients
<1>3. p * d < (q + 1) * d /\ q * d < (p + 1) * d
  <2>1. (q + 1) * d = q * d + d /\ (p + 1) * d = p * d + d /\ q * d \in Int /\ p * d \in Int
    BY <1>2
  <2> QED
    BY <1>2, <2>1
<1>4. ASSUME NEW x \in Int, NEW y \in Int, x * d < y * d PROVE x < y
  <2>1. SUFFICES ASSUME y <= x PROVE FALSE
    BY <1>4
  <2>2. PICK k \in Nat : x = y + k
    <3>1. x - y \in Nat /\ x = y + (x - y)
      BY <2>1
    <3> QED
      BY <3>1
  <2>3. x * d = y * d + k * d /\ k * d \in Nat /\ y * d \in Int
    BY <2>2, TimesNat
  <2> QED
    BY <1>4, <2>3
<1>5. p < q + 1 /\ q < p + 1
  BY <1>2, <1>3, <1>4
<1>6. p = q
  BY <1>2, <1>5
<1> QED
  BY <1>1, <1>2, <1>6
-----------------------------------------------------------------------------
(* Powers of two. *)
LEMMA Powers ==
    /\ WordBits \in Nat /\ WordBits >= 4
    /\ \A n \in 0 .. 2 * WordBits : 2 ^ n \in Nat /\ 2 ^ n > 0
    /\ \A n \in 0 .. 2 * WordBits - 1 : 2 ^ (n + 1) = 2 * 2 ^ n
<1>1. WordBits \in Nat /\ WordBits >= 4
  BY MathAssumption
<1>2. \A n \in 0 .. 2 * WordBits - 1 : 2 ^ n \in Nat /\ 2 ^ (n + 1) = 2 * 2 ^ n
  BY PowersOfTwo
<1> DEFINE Bad == {n \in Nat : n <= 2 * WordBits /\ ~(2 ^ n \in Nat /\ 2 ^ n > 0)}
<1>3. Bad = {}
  <2>1. SUFFICES ASSUME Bad # {} PROVE FALSE
    OBVIOUS
  <2>2. PICK m \in Bad : \A k \in Bad : ~(k < m)
    <3>1. Bad \in SUBSET Nat
      OBVIOUS
    <3> HIDE DEF Bad
    <3> QED
      BY <2>1, <3>1, SmallestNumber
  <2>3. m # 0
    <3>1. 2 ^ 0 \in Nat /\ 2 ^ 0 > 0
      BY PowersOfTwo
    <3> QED
      BY <3>1
  <2>4. m - 1 \in 0 .. 2 * WordBits - 1 /\ m - 1 < m
    BY <1>1, <2>3
  <2>5. 2 ^ (m - 1) \in Nat /\ 2 ^ (m - 1) > 0
    <3>1. m - 1 \notin Bad
      <4> HIDE DEF Bad
      <4> QED
        BY <2>2, <2>4
    <3> QED
      BY <1>1, <2>4, <3>1
  <2>6. 2 ^ ((m - 1) + 1) = 2 * 2 ^ (m - 1) /\ (m - 1) + 1 = m
    BY <1>2, <2>4
  <2> QED
    BY <2>5, <2>6
<1> QED
  BY <1>1, <1>2, <1>3

LEMMA PowersAdd ==
    ASSUME NEW m \in Nat, NEW n \in Nat, m + n <= 2 * WordBits PROVE 2 ^ (m + n) = 2 ^ m * 2 ^ n
<1> DEFINE Bad == {k \in Nat : m + k <= 2 * WordBits /\ 2 ^ (m + k) # 2 ^ m * 2 ^ k}
<1>1. SUFFICES Bad = {}
  OBVIOUS
<1>2. SUFFICES ASSUME Bad # {} PROVE FALSE
  OBVIOUS
<1>3. PICK k \in Bad : \A j \in Bad : ~(j < k)
  <2>1. Bad \in SUBSET Nat
    OBVIOUS
  <2> HIDE DEF Bad
  <2> QED
    BY <1>2, <2>1, SmallestNumber
<1>4. 2 ^ m \in Nat
  BY Powers
<1>5. k # 0
  <2>1. m + 0 = m /\ 2 ^ m * 1 = 2 ^ m
    BY <1>4
  <2> QED
    BY <2>1, PowersOfTwo
<1>6. PICK j : j = k - 1 /\ j \in Nat /\ j < k /\ k = j + 1 /\ m + k = (m + j) + 1 /\ m + j \in 0 .. 2 * WordBits - 1
  BY <1>5, Powers
<1>7. 2 ^ (m + j) = 2 ^ m * 2 ^ j
  <2>1. j \notin Bad
    <3> HIDE DEF Bad
    <3> QED
      BY <1>3, <1>6
  <2> QED
    BY <1>6, <2>1, Powers
<1>8. 2 ^ (m + k) = 2 * 2 ^ (m + j) /\ 2 ^ k = 2 * 2 ^ j /\ 2 ^ j \in Nat
  <2>1. j \in 0 .. 2 * WordBits - 1
    BY <1>6, Powers
  <2>2. 2 ^ ((m + j) + 1) = 2 * 2 ^ (m + j) /\ 2 ^ (j + 1) = 2 * 2 ^ j /\ 2 ^ j \in Nat
    BY <1>6, <2>1, Powers
  <2> QED
    BY <1>6, <2>2
<1>9. 2 * (2 ^ m * 2 ^ j) = 2 ^ m * (2 * 2 ^ j)
  <2>1. \A a, b \in Nat : 2 * (a * b) = a * (2 * b)
    OBVIOUS
  <2> QED
    BY <1>4, <1>8, <2>1
<1> QED
  BY <1>7, <1>8, <1>9

LEMMA Sixteen == 2 ^ 4 = 16
<1>1. /\ 2 ^ (0 + 1) = 2 * 2 ^ 0 /\ 2 ^ (1 + 1) = 2 * 2 ^ 1 /\ 2 ^ (2 + 1) = 2 * 2 ^ 2
      /\ 2 ^ (3 + 1) = 2 * 2 ^ 3
  BY Powers
<1>2. 0 + 1 = 1 /\ 1 + 1 = 2 /\ 2 + 1 = 3 /\ 3 + 1 = 4
  OBVIOUS
<1>3. 2 ^ 1 = 2 * 2 ^ 0 /\ 2 ^ 2 = 2 * 2 ^ 1 /\ 2 ^ 3 = 2 * 2 ^ 2 /\ 2 ^ 4 = 2 * 2 ^ 3
  BY <1>1, <1>2
<1> QED
  BY <1>3, PowersOfTwo

LEMMA WordIs == Word \in Nat /\ Word >= 16 /\ Word = 2 ^ WordBits
<1>3. PICK k \in Nat : WordBits = 4 + k
  <2>1. WordBits - 4 \in Nat /\ WordBits = 4 + (WordBits - 4)
    BY Powers
  <2> QED
    BY <2>1
<1>4. 2 ^ WordBits = 2 ^ 4 * 2 ^ k /\ 2 ^ k \in Nat /\ 2 ^ k > 0
  BY <1>3, PowersAdd, Powers
<1>5. 2 ^ WordBits \in Nat /\ 2 ^ WordBits >= 16
  BY <1>4, Sixteen
<1> QED
  BY <1>5 DEF Word
-----------------------------------------------------------------------------
(* full_math.  A product of two words is told by its residues.             *)
Words == 0 .. Word - 1

LEMMA ProductParts ==
    ASSUME NEW a \in Words, NEW b \in Words
    PROVE  \E h \in 0 .. Word - 2, l \in Words : a * b = h * Word + l
<1>1. Word \in Nat /\ Word > 0
  BY WordIs
<1>2. a \in Nat /\ b \in Nat /\ a <= Word - 1 /\ b <= Word - 1 /\ Word - 1 \in Nat
  BY <1>1 DEF Words
<1>3. PICK m \in Nat : m = a * b
  BY <1>2, TimesNat
<1>4. PICK h \in Nat, l \in 0 .. Word - 1 : m = h * Word + l
  <2>1. PICK w \in Nat : w = Word /\ w > 0
    BY <1>1
  <2>2. m \div w \in Nat /\ m % w \in 0 .. w - 1 /\ m = (m \div w) * w + (m % w)
    BY <2>1, Quotients
  <2> QED
    BY <2>1, <2>2
<1>5. m <= (Word - 1) * (Word - 1)
  <2>1. a * b <= (Word - 1) * b /\ (Word - 1) * b <= (Word - 1) * (Word - 1)
    BY <1>2, TimesMonotone
  <2>2. (Word - 1) * b \in Nat /\ (Word - 1) * (Word - 1) \in Nat
    BY <1>2, TimesNat
  <2> QED
    BY <1>3, <2>1, <2>2
<1>6. (Word - 1) * (Word - 1) = (Word - 2) * Word + 1
  BY <1>1
<1>7. h <= Word - 2
  <2>1. SUFFICES ASSUME Word - 1 <= h PROVE FALSE
    BY <1>1, <1>4
  <2>2. (Word - 1) * Word <= h * Word
    BY <1>1, <1>2, <1>4, <2>1, TimesMonotone
  <2>3. (Word - 1) * Word = (Word - 2) * Word + Word /\ (Word - 2) * Word \in Int /\ h * Word \in Int
    BY <1>1, <1>4
  <2> QED
    BY <1>1, <1>4, <1>5, <1>6, <2>2, <2>3, WordIs
<1> QED
  BY <1>3, <1>4, <1>7 DEF Words

LEMMA TwoWords ==
    ASSUME NEW a \in Words, NEW b \in Words
    PROVE  /\ Low(a, b) \in Words /\ High(a, b) \in 0 .. Word - 2
           /\ a * b = High(a, b) * Word + Low(a, b) /\ a * b \in Nat
<1>1. Word \in Nat /\ Word >= 16
  BY WordIs
<1>2. PICK h \in 0 .. Word - 2, l \in Words : a * b = h * Word + l
  BY ProductParts
<1>3. a * b \in Nat
  BY <1>1, TimesNat DEF Words
<1>4. Low(a, b) = l
  <2>1. (a * b) % Word = l
    BY <1>1, <1>2, <1>3, QuotientIs DEF Words
  <2> QED
    BY <2>1 DEF Low
<1>5. PICK mm : mm = (a * b) % (Word - 1)
  OBVIOUS
<1>6. h * Word + l = h * (Word - 1) + (h + l) /\ h + l \in Nat /\ l \in 0 .. Word - 1 /\ h \in Nat
  BY <1>1, <1>2 DEF Words
<1>7. CASE h + l < Word - 1
  <2>1. mm = h + l
    BY <1>1, <1>2, <1>3, <1>5, <1>6, <1>7, QuotientIs
  <2>2. ~(mm < l) /\ mm - l - 0 = 0 * Word + h /\ h \in 0 .. Word - 1
    BY <1>1, <1>2, <1>6, <2>1
  <2>3. (mm - l - 0) % Word = h
    BY <1>1, <2>2, QuotientIs
  <2>4. High(a, b) = h
    BY <1>4, <1>5, <2>2, <2>3 DEF High, HighOf
  <2> QED
    BY <1>2, <1>3, <1>4, <2>4
<1>8. CASE h + l >= Word - 1
  <2>1. mm = h + l - (Word - 1)
    <3>1. h * (Word - 1) + (h + l) = (h + 1) * (Word - 1) + (h + l - (Word - 1))
      BY <1>1, <1>6
    <3>2. h + l - (Word - 1) \in 0 .. (Word - 1) - 1 /\ Word - 1 \in Nat /\ Word - 1 > 0 /\ h + 1 \in Int
      BY <1>1, <1>2, <1>6, <1>8
    <3>3. a * b = (h + 1) * (Word - 1) + (h + l - (Word - 1)) /\ a * b \in Int
      BY <1>2, <1>3, <1>6, <3>1
    <3> QED
      BY <1>5, <3>2, <3>3, QuotientIs
  <2>2. mm < l /\ mm - l - 1 = (0 - 1) * Word + h /\ h \in 0 .. Word - 1
    BY <1>1, <1>2, <1>6, <2>1
  <2>3. (mm - l - 1) % Word = h
    BY <1>1, <2>2, QuotientIs
  <2>4. High(a, b) = h
    BY <1>4, <1>5, <2>2, <2>3 DEF High, HighOf
  <2> QED
    BY <1>2, <1>3, <1>4, <2>4
<1> QED
  BY <1>6, <1>7, <1>8, <1>1
-----------------------------------------------------------------------------
(* The inverse of an odd number modulo Word. *)
Divides(m, a) == \E k \in Int : a = k * m

LEMMA DividesSum ==
    ASSUME NEW m \in Int, NEW a \in Int, NEW b \in Int, Divides(m, a), Divides(m, b)
    PROVE  Divides(m, a + b) /\ Divides(m, a - b) /\ \A c \in Int : Divides(m, c * a)
<1>1. PICK j \in Int, k \in Int : a = j * m /\ b = k * m
  BY DEF Divides
<1>2. a + b = (j + k) * m /\ a - b = (j - k) * m /\ j + k \in Int /\ j - k \in Int
  BY <1>1
<1>3. ASSUME NEW c \in Int PROVE c * a = (c * j) * m /\ c * j \in Int
  BY <1>1
<1> QED
  BY <1>2, <1>3 DEF Divides

LEMMA DividesThrough ==
    ASSUME NEW m \in Int, NEW n \in Int, NEW a \in Int, Divides(m, n), Divides(n, a)
    PROVE  Divides(m, a)
<1>1. PICK j \in Int, k \in Int : n = j * m /\ a = k * n
  BY DEF Divides
<1>2. a = (k * j) * m /\ k * j \in Int
  BY <1>1
<1> QED
  BY <1>2 DEF Divides

LEMMA DividesPower ==
    ASSUME NEW m \in Nat, NEW n \in Nat, m <= n, n <= 2 * WordBits
    PROVE  Divides(2 ^ m, 2 ^ n)
<1>1. PICK k \in Nat : n = k + m
  <2>1. n - m \in Nat /\ n = (n - m) + m
    OBVIOUS
  <2> QED
    BY <2>1
<1>2. k \in 0 .. 2 * WordBits
  BY <1>1, Powers
<1>3. 2 ^ n = 2 ^ k * 2 ^ m /\ 2 ^ k \in Int
  BY <1>1, <1>2, PowersAdd, Powers
<1> QED
  BY <1>3 DEF Divides

LEMMA DividesRest == ASSUME NEW a \in Int, NEW m \in Nat, m > 0 PROVE Divides(m, (a % m) - a)
<1>1. PICK q \in Int, r \in Int : q = a \div m /\ r = a % m /\ a = q * m + r
  BY Quotients
<1>2. (a % m) - a = (0 - q) * m /\ 0 - q \in Int
  BY <1>1
<1> QED
  BY <1>2 DEF Divides

(* What a Newton step makes of an inverse modulo m. *)
LEMMA NewtonDoubles ==
    ASSUME NEW odd \in Int, NEW i \in Int, NEW m \in Int, Divides(m, odd * i - 1)
    PROVE  Divides(m * m, odd * (i * (2 - odd * i)) - 1)
<1>1. PICK k \in Int : odd * i = k * m + 1
  BY DEF Divides
<1>2. odd * (i * (2 - odd * i)) - 1 = (odd * i) * (2 - odd * i) - 1
  OBVIOUS
<1>3. (k * m + 1) * (2 - (k * m + 1)) - 1 = (0 - k * k) * (m * m)
  OBVIOUS
<1>4. odd * (i * (2 - odd * i)) - 1 = (0 - k * k) * (m * m) /\ 0 - k * k \in Int
  BY <1>1, <1>2, <1>3
<1> QED
  BY <1>4 DEF Divides

(* Its seed has four bits right: there are eight odd remainders of 16.     *)
Seed(odd) ==
    LET seed == (3 * odd) % Word IN IF (seed \div 2) % 2 = 1 THEN seed - 2 ELSE seed + 2

LEMMA SeedOfSmall ==
    ASSUME NEW o \in {1, 3, 5, 7, 9, 11, 13, 15}, NEW s \in 0..15, NEW c \in Int, 3 * o = 16 * c + s
    PROVE  LET flipped == IF (s \div 2) % 2 = 1 THEN s - 2 ELSE s + 2
           IN  \E k \in Int : o * flipped = 16 * k + 1
<1>1. c \in 0..2
  OBVIOUS
<1> DEFINE flipped == IF (s \div 2) % 2 = 1 THEN s - 2 ELSE s + 2
<1>2. CASE o = 1
  BY <1>1, <1>2
<1>3. CASE o = 3
  BY <1>1, <1>3
<1>4. CASE o = 5
  BY <1>1, <1>4
<1>5. CASE o = 7
  BY <1>1, <1>5
<1>6. CASE o = 9
  BY <1>1, <1>6
<1>7. CASE o = 11
  BY <1>1, <1>7
<1>8. CASE o = 13
  BY <1>1, <1>8
<1>9. CASE o = 15
  BY <1>1, <1>9
<1> QED
  BY <1>2, <1>3, <1>4, <1>5, <1>6, <1>7, <1>8, <1>9

LEMMA SeedInverts ==
    ASSUME NEW odd \in Words, odd % 2 = 1
    PROVE  Seed(odd) \in Int /\ Divides(16, odd * Seed(odd) - 1)
<1>1. Word \in Nat /\ Word >= 16 /\ odd \in Nat
  BY WordIs DEF Words
<1>2. PICK w \in Int : Word = 16 * w
  <2>1. Divides(2 ^ 4, 2 ^ WordBits)
    <3>1. 4 \in Nat /\ WordBits \in Nat /\ 4 <= WordBits /\ WordBits <= 2 * WordBits
      BY Powers
    <3> QED
      BY <3>1, DividesPower
  <2>3. PICK k \in Int : Word = k * 16
    BY <2>1, Sixteen, WordIs DEF Divides
  <2> QED
    BY <2>3
<1>3. PICK a \in Int, o \in 0..15 : odd = 16 * a + o
  <2>1. odd \div 16 \in Int /\ odd % 16 \in 0..15 /\ odd = 16 * (odd \div 16) + (odd % 16)
    BY <1>1
  <2> QED
    BY <2>1
<1>4. o \in {1, 3, 5, 7, 9, 11, 13, 15}
  BY <1>1, <1>3
<1>5. PICK seed \in Int, q \in Int : seed = (3 * odd) % Word /\ 3 * odd = q * Word + seed /\ seed \in Nat
  <2>1. 3 * odd \in Int /\ Word > 0
    BY <1>1
  <2> QED
    BY <1>1, <2>1, Quotients
<1>6. PICK b \in Int, s \in 0..15 : seed = 16 * b + s
  <2>1. seed \div 16 \in Int /\ seed % 16 \in 0..15 /\ seed = 16 * (seed \div 16) + (seed % 16)
    BY <1>5
  <2> QED
    BY <2>1
<1>7. 3 * o = 16 * (q * w + b - 3 * a) + s /\ q * w + b - 3 * a \in Int
  <2>1. q * Word = 16 * (q * w)
    BY <1>2
  <2>2. q * w \in Int
    BY <1>2
  <2> QED
    BY <1>3, <1>5, <1>6, <2>1, <2>2
<1> DEFINE flipped == IF (s \div 2) % 2 = 1 THEN s - 2 ELSE s + 2
<1>8. PICK k \in Int : o * flipped = 16 * k + 1
  BY <1>4, <1>7, SeedOfSmall
<1>9. Seed(odd) = 16 * b + flipped /\ flipped \in Int
  <2>1. (seed \div 2) % 2 = (s \div 2) % 2
    BY <1>5, <1>6
  <2> QED
    BY <1>5, <1>6, <2>1 DEF Seed
<1>10. odd * Seed(odd) - 1 = (a * (16 * b + flipped) + o * b + k) * 16
  <2>1. (16 * a + o) * (16 * b + flipped) = 16 * (a * (16 * b + flipped)) + 16 * (o * b) + o * flipped
    <3> HIDE DEF flipped
    <3> QED
      BY <1>9
  <2> HIDE DEF flipped
  <2> QED
    BY <1>3, <1>8, <1>9, <2>1
<1>11. a * (16 * b + flipped) + o * b + k \in Int /\ Seed(odd) \in Int
  BY <1>9
<1> QED
  BY <1>10, <1>11 DEF Divides

InverseWalk(g, N, odd) ==
    g = [n \in 0..N |->
            IF n = 0 THEN Seed(odd) ELSE (g[n - 1] * ((2 - odd * g[n - 1]) % Word)) % Word]

LEMMA InverseWalkExists == ASSUME NEW odd, NEW N \in Nat PROVE \E g : InverseWalk(g, N, odd)
<1> DEFINE Missing == {n \in Nat : ~\E g : InverseWalk(g, n, odd)}
<1>1. SUFFICES ASSUME Missing # {} PROVE FALSE
  OBVIOUS
<1>2. PICK m \in Missing : \A n \in Missing : ~(n < m)
  BY <1>1, SmallestNumber
<1>3. CASE m = 0
  <2>1. PICK g : g = [n \in 0..0 |-> Seed(odd)]
    OBVIOUS
  <2>2. InverseWalk(g, 0, odd)
    BY <2>1 DEF InverseWalk
  <2> QED
    BY <1>3, <2>2
<1>4. CASE m # 0
  <2>1. m - 1 \in Nat /\ m - 1 < m
    BY <1>4
  <2>2. PICK g : InverseWalk(g, m - 1, odd)
    BY <1>2, <2>1
  <2>3. PICK last : last = (g[m - 1] * ((2 - odd * g[m - 1]) % Word)) % Word
    OBVIOUS
  <2>4. PICK h : h = [n \in 0..m |-> IF n = m THEN last ELSE g[n]]
    OBVIOUS
  <2>5. ASSUME NEW n \in 0..m
        PROVE  h[n] = IF n = 0 THEN Seed(odd) ELSE (h[n - 1] * ((2 - odd * h[n - 1]) % Word)) % Word
    <3>1. CASE n = m
      <4>1. h[n] = last /\ h[n - 1] = g[m - 1]
        BY <1>4, <2>1, <2>4, <3>1
      <4> QED
        BY <1>4, <2>3, <3>1, <4>1
    <3>2. CASE n # m
      <4>1. n \in 0 .. m - 1 /\ h[n] = g[n] /\ (n # 0 => n - 1 \in 0 .. m - 1 /\ h[n - 1] = g[n - 1])
        BY <2>1, <2>4, <3>2
      <4> QED
        BY <2>2, <4>1 DEF InverseWalk
    <3> QED
      BY <3>1, <3>2
  <2>6. InverseWalk(h, m, odd)
    BY <2>4, <2>5 DEF InverseWalk
  <2> QED
    BY <2>6
<1> QED
  BY <1>3, <1>4

(* As many bits are right after n steps.                                   *)
RightBits(i, n, odd) ==
    /\ i \in Int
    /\ \E e \in 0..WordBits :
        (e = WordBits \/ 4 * 2 ^ n <= e) /\ Divides(2 ^ e, odd * i - 1)

LEMMA InverseStep ==
    ASSUME NEW odd \in Words, NEW i, NEW n \in Nat, n < InverseSteps, RightBits(i, n, odd)
    PROVE  RightBits((i * ((2 - odd * i) % Word)) % Word, n + 1, odd)
<1>1. Word \in Nat /\ Word > 0 /\ odd \in Int /\ i \in Int
  BY WordIs DEF Words, RightBits
<1>2. PICK e \in 0..WordBits : (e = WordBits \/ 4 * 2 ^ n <= e) /\ Divides(2 ^ e, odd * i - 1)
  BY DEF RightBits
<1>3. PICK f : f = IF 2 * e <= WordBits THEN 2 * e ELSE WordBits
  OBVIOUS
<1>4. f \in 0..WordBits /\ f <= 2 * e /\ 2 * e <= 2 * WordBits /\ WordBits \in Nat
  BY <1>3, Powers
<1>5. f = WordBits \/ 4 * 2 ^ (n + 1) <= f
  <2>1. n \in 0 .. 2 * WordBits - 1
    <3>1. PICK k \in Nat, b \in Nat : k = InverseSteps /\ b = WordBits /\ k <= b /\ b >= 4
      BY MathAssumption, Zenon
    <3>2. n < k
      BY <3>1
    <3> QED
      BY <3>1, <3>2
  <2>2. 2 ^ (n + 1) = 2 * 2 ^ n /\ 2 ^ n \in Nat
    BY <2>1, Powers
  <2> QED
    BY <1>2, <1>3, <1>4, <2>2
<1>6. PICK r \in Int : r = (2 - odd * i) % Word
  <2>1. 2 - odd * i \in Int
    BY <1>1
  <2>2. (2 - odd * i) % Word \in 0 .. Word - 1
    BY <1>1, <2>1, Quotients
  <2> QED
    BY <2>2
<1>7. PICK j \in Int : j = (i * r) % Word
  <2>1. i * r \in Int
    BY <1>1
  <2>2. (i * r) % Word \in 0 .. Word - 1
    BY <1>1, <2>1, Quotients
  <2> QED
    BY <2>2
<1>8. PICK m \in Int : m = 2 ^ f
  BY <1>4, Powers
<1>9. Divides(m, odd * (i * (2 - odd * i)) - 1)
  <2>1. PICK p \in Int : p = 2 ^ e
    BY Powers
  <2>2. Divides(p * p, odd * (i * (2 - odd * i)) - 1)
    BY <1>1, <1>2, <2>1, NewtonDoubles
  <2>3. Divides(m, p * p)
    <3>1. 2 ^ (2 * e) = p * p
      <4>1. e + e = 2 * e /\ e + e <= 2 * WordBits /\ e \in Nat
        BY <1>4
      <4>2. 2 ^ (e + e) = 2 ^ e * 2 ^ e
        BY <4>1, PowersAdd
      <4> QED
        BY <2>1, <4>1, <4>2
    <3>2. f \in Nat /\ 2 * e \in Nat
      BY <1>4
    <3> QED
      BY <1>4, <1>8, <3>1, <3>2, DividesPower
  <2>4. odd * (i * (2 - odd * i)) - 1 \in Int /\ p * p \in Int
    BY <1>1
  <2> QED
    BY <2>2, <2>3, <2>4, DividesThrough
<1>10. Divides(m, Word)
  <2>1. f \in Nat /\ f <= WordBits /\ WordBits <= 2 * WordBits
    BY <1>4
  <2> QED
    BY <1>4, <1>8, <2>1, DividesPower, WordIs
<1>11. Divides(m, r - (2 - odd * i)) /\ Divides(m, j - i * r)
  <2>1. 2 - odd * i \in Int /\ i * r \in Int
    BY <1>1
  <2>2. Divides(Word, r - (2 - odd * i)) /\ Divides(Word, j - i * r)
    BY <1>1, <1>6, <1>7, <2>1, DividesRest
  <2>3. r - (2 - odd * i) \in Int /\ j - i * r \in Int
    BY <2>1
  <2> QED
    BY <1>1, <1>10, <2>2, <2>3, DividesThrough
<1>12. Divides(m, odd * j - 1)
  <2>1. PICK u \in Int, v \in Int, z \in Int :
          u = odd * (i * (2 - odd * i)) - 1 /\ v = r - (2 - odd * i) /\ z = j - i * r
    BY <1>1
  <2>2. odd * j - 1 = u + (odd * i) * v + odd * z
    BY <1>1, <2>1
  <2>3. Divides(m, (odd * i) * v) /\ Divides(m, odd * z)
    <3>1. odd * i \in Int
      BY <1>1
    <3> QED
      BY <1>1, <1>11, <2>1, <3>1, DividesSum
  <2>4. Divides(m, u + (odd * i) * v)
    <3>1. (odd * i) * v \in Int
      BY <1>1
    <3> QED
      BY <1>9, <2>1, <2>3, <3>1, DividesSum
  <2>5. Divides(m, (u + (odd * i) * v) + odd * z)
    <3>1. u + (odd * i) * v \in Int /\ odd * z \in Int
      BY <1>1
    <3> QED
      BY <2>3, <2>4, <3>1, DividesSum
  <2> QED
    BY <2>2, <2>5
<1> QED
  BY <1>4, <1>5, <1>6, <1>7, <1>8, <1>12 DEF RightBits

LEMMA InverseInverts ==
    ASSUME NEW odd \in Words, odd % 2 = 1
    PROVE  Inverse2(odd) \in Int /\ Divides(Word, odd * Inverse2(odd) - 1)
<1>1. Inverse2(odd) = (CHOOSE g : InverseWalk(g, InverseSteps, odd))[InverseSteps]
  BY Zenon DEF Inverse2, InverseWalk, Seed
<1>2. InverseSteps \in Nat
  BY MathAssumption
<1>3. PICK g : g = (CHOOSE walk : InverseWalk(walk, InverseSteps, odd)) /\ InverseWalk(g, InverseSteps, odd)
  BY <1>2, InverseWalkExists, Zenon
<1> DEFINE Wrong == {n \in 0..InverseSteps : ~RightBits(g[n], n, odd)}
<1>4. Wrong = {}
  <2>1. SUFFICES ASSUME Wrong # {} PROVE FALSE
    OBVIOUS
  <2>2. PICK m \in Wrong : \A k \in Wrong : ~(k < m)
    <3>1. Wrong \in SUBSET Nat
      BY <1>2
    <3> HIDE DEF Wrong
    <3> QED
      BY <2>1, <3>1, SmallestNumber
  <2>3. m # 0
    <3>1. RightBits(g[0], 0, odd)
      <4>1. g[0] = Seed(odd)
        <5>1. 0 \in 0..InverseSteps
          BY <1>2
        <5> QED
          BY <1>3, <5>1 DEF InverseWalk
      <4>2. 4 \in 0..WordBits /\ 4 * 2 ^ 0 <= 4
        BY Powers, PowersOfTwo
      <4> QED
        BY <4>1, <4>2, Sixteen, SeedInverts DEF RightBits
    <3> QED
      BY <3>1
  <2>4. m - 1 \in Nat /\ m - 1 \in 0..InverseSteps /\ m - 1 < InverseSteps /\ (m - 1) + 1 = m /\ m - 1 < m
    BY <1>2, <2>3
  <2>5. RightBits(g[m - 1], m - 1, odd)
    <3>1. m - 1 \notin Wrong
      <4> HIDE DEF Wrong
      <4> QED
        BY <2>2, <2>4
    <3> QED
      BY <2>4, <3>1
  <2>6. g[m] = (g[m - 1] * ((2 - odd * g[m - 1]) % Word)) % Word
    BY <1>2, <1>3, <2>3 DEF InverseWalk
  <2>7. RightBits(g[m], (m - 1) + 1, odd)
    BY <2>4, <2>5, <2>6, InverseStep
  <2> QED
    BY <2>4, <2>7
<1>5. RightBits(g[InverseSteps], InverseSteps, odd)
  <2>1. InverseSteps \in 0..InverseSteps
    BY <1>2
  <2> QED
    BY <1>4, <2>1
<1>6. PICK e \in 0..WordBits :
        (e = WordBits \/ 4 * 2 ^ InverseSteps <= e) /\ Divides(2 ^ e, odd * g[InverseSteps] - 1)
  BY <1>5 DEF RightBits
<1>7. e = WordBits
  <2>1. WordBits <= 4 * 2 ^ InverseSteps /\ WordBits \in Nat
    BY MathAssumption
  <2>2. 4 * 2 ^ InverseSteps \in Nat
    <3>1. PICK k \in Nat, b \in Nat : k = InverseSteps /\ b = WordBits /\ k <= b
      BY MathAssumption, Zenon
    <3>2. k \in 0 .. 2 * b
      BY <3>1
    <3> QED
      BY <3>1, <3>2, Powers
  <2> QED
    BY <1>6, <2>1, <2>2
<1> QED
  BY <1>1, <1>3, <1>5, <1>6, <1>7, WordIs DEF RightBits
-----------------------------------------------------------------------------
(* The powers of two in a number: what is left of it is odd.               *)
PowersIn(d) == {n \in 1 .. WordBits - 1 : d % 2 ^ n = 0}

LEMMA DividesIs ==
    ASSUME NEW d \in Nat, NEW m \in Nat, m > 0 PROVE d % m = 0 <=> Divides(m, d)
<1>1. ASSUME d % m = 0 PROVE Divides(m, d)
  <2>1. d = (d \div m) * m /\ d \div m \in Int
    BY <1>1, Quotients
  <2> QED
    BY <2>1 DEF Divides
<1>2. ASSUME Divides(m, d) PROVE d % m = 0
  <2>1. PICK k \in Int : d = k * m
    BY <1>2 DEF Divides
  <2>2. d = k * m + 0 /\ 0 \in 0 .. m - 1
    BY <2>1
  <2> QED
    BY <2>2, QuotientIs
<1> QED
  BY <1>1, <1>2

LEMMA PowersInTyped ==
    ASSUME NEW d \in Nat
    PROVE  \E v \in 0 .. WordBits - 1 : PowersIn(d) = 1..v /\ Cardinality(PowersIn(d)) = v
<1>1. WordBits \in Nat /\ WordBits >= 4
  BY Powers
<1> DEFINE T == PowersIn(d)
           Out == {k \in Nat : k + 1 \notin T}
<1>2. ASSUME NEW n \in T, NEW m \in 1..n PROVE m \in T
  <2>1. n \in 1 .. WordBits - 1 /\ d % 2 ^ n = 0 /\ m \in Nat /\ n \in Nat /\ m <= n /\ n <= 2 * WordBits
    BY <1>1 DEF PowersIn
  <2>2. 2 ^ n \in Nat /\ 2 ^ n > 0 /\ 2 ^ m \in Nat /\ 2 ^ m > 0
    <3>1. n \in 0 .. 2 * WordBits /\ m \in 0 .. 2 * WordBits
      BY <1>1, <2>1
    <3> QED
      BY <3>1, Powers
  <2>3. Divides(2 ^ n, d) /\ Divides(2 ^ m, 2 ^ n)
    BY <2>1, <2>2, DividesIs, DividesPower
  <2>4. Divides(2 ^ m, d)
    BY <2>2, <2>3, DividesThrough
  <2>5. d % 2 ^ m = 0
    BY <2>2, <2>4, DividesIs
  <2> QED
    BY <1>1, <2>1, <2>5 DEF PowersIn
<1>3. PICK v \in Out : \A k \in Out : ~(k < v)
  <2>1. WordBits - 1 \in Nat /\ (WordBits - 1) + 1 \notin T
    BY <1>1 DEF PowersIn
  <2>2. Out # {} /\ Out \in SUBSET Nat
    BY <2>1
  <2> HIDE DEF Out
  <2> QED
    BY <2>2, SmallestNumber
<1>4. ASSUME NEW n \in Nat, n >= 1, n <= v PROVE n \in T
  <2>1. n - 1 \in Nat /\ n - 1 < v /\ (n - 1) + 1 = n
    BY <1>4
  <2>2. n - 1 \notin Out
    <3> HIDE DEF Out
    <3> QED
      BY <1>3, <2>1
  <2> QED
    BY <2>1, <2>2
<1>5. v \in Nat /\ v + 1 \notin T
  OBVIOUS
<1>6. T = 1..v
  <2>1. T \subseteq Nat /\ \A n \in T : n >= 1
    BY <1>1 DEF PowersIn
  <2>2. ASSUME NEW n \in T PROVE n <= v
    <3>1. SUFFICES ASSUME v + 1 <= n PROVE FALSE
      <4>1. n \in Nat
        BY <2>1
      <4> QED
        BY <1>5, <3>1, <4>1
    <3>2. v + 1 \in 1..n
      BY <1>5, <2>1, <3>1
    <3> QED
      BY <1>2, <1>5, <3>2
  <2> HIDE DEF T, Out
  <2>3. ASSUME NEW n \in T PROVE n \in 1..v
    BY <1>5, <2>1, <2>2, <2>3
  <2>4. ASSUME NEW n \in 1..v PROVE n \in T
    BY <1>4, <1>5, <2>4
  <2> QED
    BY <2>3, <2>4
<1>7. v <= WordBits - 1
  <2>1. SUFFICES ASSUME v >= WordBits PROVE FALSE
    BY <1>1, <1>5
  <2>2. WordBits \in T
    BY <1>1, <1>4, <2>1
  <2> QED
    BY <1>1, <2>2 DEF PowersIn
<1>8. Cardinality(1..v) = v
  <2>1. Cardinality(1..v) = IF 1 > v THEN 0 ELSE v - 1 + 1
    BY <1>5, FS_Interval
  <2> QED
    BY <1>5, <2>1
<1> QED
  BY <1>5, <1>6, <1>7, <1>8

LEMMA TwosOut ==
    ASSUME NEW d \in 1 .. Word - 1
    PROVE  \E odd \in Words, twos \in Nat, c \in Nat :
              /\ twos = 2 ^ Cardinality(PowersIn(d)) /\ twos > 0
              /\ d \div twos = odd /\ odd % 2 = 1 /\ d = odd * twos /\ Word = c * twos
<1>1. WordBits \in Nat /\ WordBits >= 4 /\ Word \in Nat /\ Word >= 16 /\ Word = 2 ^ WordBits /\ d \in Nat
  BY Powers, WordIs
<1>2. PICK v \in 0 .. WordBits - 1 : PowersIn(d) = 1..v /\ Cardinality(PowersIn(d)) = v
  BY <1>1, PowersInTyped
<1>3. PICK twos \in Nat : twos = 2 ^ v /\ twos > 0
  <2>1. v \in 0 .. 2 * WordBits
    BY <1>1
  <2> QED
    BY <2>1, Powers
<1>4. Divides(twos, d)
  <2>1. CASE v = 0
    <3>1. twos = 1 /\ d = d * 1
      BY <1>1, <1>3, <2>1, PowersOfTwo
    <3> QED
      BY <1>1, <3>1 DEF Divides
  <2>2. CASE v # 0
    <3>1. v \in PowersIn(d)
      BY <1>2, <2>2
    <3> QED
      BY <1>1, <1>3, <3>1, DividesIs DEF PowersIn
  <2> QED
    BY <2>1, <2>2
<1>5. PICK odd \in Int : d = odd * twos
  BY <1>4 DEF Divides
<1>6. odd > 0
  <2>1. SUFFICES ASSUME odd <= 0 PROVE FALSE
    BY <1>5
  <2>2. 0 - odd \in Nat /\ (0 - odd) * twos \in Nat
    BY <1>3, <2>1, TimesNat
  <2>3. (0 - odd) * twos = 0 - odd * twos
    BY <1>3, <1>5
  <2> QED
    BY <1>1, <1>5, <2>2, <2>3
<1>7. odd <= d
  <2>1. odd \in Nat /\ 1 \in Nat /\ 1 <= twos
    BY <1>3, <1>6
  <2>2. odd * 1 <= odd * twos
    BY <2>1, <1>3, TimesMonotone
  <2> QED
    BY <1>5, <2>1, <2>2
<1>8. odd \in Words
  BY <1>1, <1>6, <1>7 DEF Words
<1>9. PICK c \in Nat : Word = c * twos
  <2>1. WordBits - v \in Nat /\ WordBits = (WordBits - v) + v /\ WordBits <= 2 * WordBits
        /\ WordBits - v \in 0 .. 2 * WordBits /\ v \in Nat
    BY <1>1
  <2>2. 2 ^ WordBits = 2 ^ (WordBits - v) * 2 ^ v
    BY <2>1, PowersAdd
  <2>3. 2 ^ (WordBits - v) \in Nat
    BY <2>1, Powers
  <2> QED
    BY <1>1, <1>3, <2>2, <2>3
<1>10. odd % 2 = 1
  <2>1. SUFFICES ASSUME odd % 2 # 1 PROVE FALSE
    OBVIOUS
  <2>2. PICK k \in Nat : odd = 2 * k /\ k >= 1
    <3>1. odd \div 2 \in Nat /\ odd = 2 * (odd \div 2) /\ odd \div 2 >= 1
      BY <1>6, <2>1
    <3> QED
      BY <3>1
  <2>3. v \in 0 .. 2 * WordBits - 1
    BY <1>1
  <2>4. 2 ^ (v + 1) = 2 * twos
    BY <1>3, <2>3, Powers
  <2>5. d = k * (2 * twos)
    BY <1>3, <1>5, <2>2
  <2>6. CASE v = WordBits - 1
    <3>1. Word = 2 * twos
      BY <1>1, <2>4, <2>6
    <3>2. 1 * Word <= k * Word
      BY <1>1, <2>2, TimesMonotone
    <3>3. d >= Word
      BY <1>1, <2>5, <3>1, <3>2
    <3> QED
      BY <1>1, <3>3
  <2>7. CASE v # WordBits - 1
    <3>1. Divides(2 ^ (v + 1), d)
      BY <2>4, <2>5 DEF Divides
    <3>2. 2 * twos \in Nat /\ 2 * twos > 0
      BY <1>3
    <3>3. d % 2 ^ (v + 1) = 0
      BY <1>1, <2>4, <3>1, <3>2, DividesIs
    <3>4. v + 1 \in 1 .. WordBits - 1
      BY <1>1, <2>7
    <3>5. v + 1 \in PowersIn(d)
      BY <3>3, <3>4 DEF PowersIn
    <3> QED
      BY <1>2, <3>5
  <2> QED
    BY <2>6, <2>7
<1>11. d \div twos = odd
  <2>1. d = odd * twos + 0 /\ 0 \in 0 .. twos - 1
    BY <1>3, <1>5
  <2> QED
    BY <1>1, <1>3, <2>1, QuotientIs
<1> QED
  BY <1>2, <1>3, <1>5, <1>8, <1>9, <1>10, <1>11
-----------------------------------------------------------------------------
(* mul_div: the exact quotient of the exact product, or an Err where it is *)
(* no word.                                                                *)

LEMMA DividedExactly ==
    ASSUME NEW odd \in Words, odd % 2 = 1, NEW twos \in Nat, twos > 0, NEW c \in Nat, Word = c * twos,
           NEW high \in Int, NEW low \in Int, NEW q \in Words,
           high * Word + low = q * (odd * twos)
    PROVE  DividedBy(odd, twos, high, low) = q
<1>1. Word \in Nat /\ Word >= 16 /\ odd \in Int /\ q \in Int
  BY WordIs DEF Words
<1>2. low = (q * odd - high * c) * twos
  <2>1. high * (c * twos) = (high * c) * twos /\ q * (odd * twos) = (q * odd) * twos
    BY <1>1
  <2>2. (q * odd - high * c) * twos = (q * odd) * twos - (high * c) * twos
    BY <1>1
  <2>3. (high * c) * twos \in Int /\ (q * odd) * twos \in Int
    BY <1>1
  <2> QED
    BY <2>1, <2>2, <2>3
<1>3. low \div twos = q * odd - high * c
  <2>1. q * odd - high * c \in Int /\ low = (q * odd - high * c) * twos + 0 /\ 0 \in 0 .. twos - 1
    BY <1>1, <1>2
  <2> QED
    BY <2>1, QuotientIs
<1>4. (Word - twos) \div twos + 1 = c
  <2>1. Word - twos = (c - 1) * twos + 0 /\ c - 1 \in Int /\ 0 \in 0 .. twos - 1 /\ Word - twos \in Int
    BY <1>1
  <2>2. (Word - twos) \div twos = c - 1
    BY <2>1, QuotientIs
  <2> QED
    BY <2>2
<1>5. low \div twos + high * ((Word - twos) \div twos + 1) = q * odd
  <2>1. q * odd \in Int /\ high * c \in Int
    BY <1>1
  <2> QED
    BY <1>3, <1>4, <2>1
<1>6. PICK joined \in Int, k \in Int : joined = (q * odd) % Word /\ q * odd = k * Word + joined
  <2>1. PICK p \in Int : p = q * odd
    BY <1>1
  <2>2. p \div Word \in Int /\ p % Word \in 0 .. Word - 1 /\ p = (p \div Word) * Word + (p % Word)
    BY <1>1, Quotients
  <2>3. PICK k, joined : k = p \div Word /\ joined = p % Word
    OBVIOUS
  <2>4. k \in Int /\ joined \in Int /\ p = k * Word + joined
    BY <2>2, <2>3
  <2> QED
    BY <2>1, <2>3, <2>4
<1>7. PICK inv \in Int, m \in Int : inv = Inverse2(odd) /\ odd * inv = m * Word + 1
  <2>1. Inverse2(odd) \in Int /\ Divides(Word, odd * Inverse2(odd) - 1)
    BY InverseInverts
  <2>2. PICK m \in Int : odd * Inverse2(odd) - 1 = m * Word
    BY <2>1 DEF Divides
  <2>3. PICK inv \in Int : inv = Inverse2(odd)
    BY <2>1
  <2>4. odd * inv \in Int /\ m * Word \in Int
    BY <1>1
  <2>5. odd * inv = m * Word + 1
    BY <2>2, <2>3, <2>4
  <2> QED
    BY <2>3, <2>5
<1>8. joined * inv = (q * m - k * inv) * Word + q
  <2>1. joined * inv = (q * odd - k * Word) * inv
    <3>1. PICK p \in Int, n \in Int : p = q * odd /\ n = k * Word
      BY <1>1
    <3>2. joined = p - n
      BY <1>6, <3>1
    <3> QED
      BY <3>1, <3>2
  <2>2. (q * odd - k * Word) * inv = q * (odd * inv) - (k * inv) * Word
    BY <1>1
  <2>3. q * (m * Word + 1) = (q * m) * Word + q
    BY <1>1
  <2>4. (q * m - k * inv) * Word = (q * m) * Word - (k * inv) * Word
    BY <1>1
  <2>5. (k * inv) * Word \in Int /\ (q * m) * Word \in Int
    BY <1>1
  <2> QED
    BY <1>1, <1>7, <2>1, <2>2, <2>3, <2>4, <2>5
<1>9. (joined * inv) % Word = q
  <2>1. PICK n \in Int, p \in Int : n = joined * inv /\ p = q * m - k * inv
    BY <1>1
  <2>2. n = p * Word + q /\ q \in 0 .. Word - 1
    BY <1>8, <2>1 DEF Words
  <2>3. n % Word = q
    BY <1>1, <2>2, QuotientIs
  <2> QED
    BY <2>1, <2>3
<1> QED
  BY <1>5, <1>6, <1>7, <1>9 DEF DividedBy

(* The quotient is a word just if the high word is below the divisor.      *)
LEMMA QuotientFits ==
    ASSUME NEW d \in Nat, NEW q \in Nat, NEW r \in Nat, r < d, NEW w \in Nat, NEW high \in Nat,
           NEW low \in Nat, low < w, q * d + r = high * w + low
    PROVE  q < w <=> high < d
<1>1. d * w = w * d /\ d * w \in Nat /\ q * d \in Nat /\ high * w \in Nat
  BY TimesNat
<1>2. ASSUME d <= high, q + 1 <= w PROVE FALSE
  <2>1. (q + 1) * d <= w * d /\ d * w <= high * w
    BY <1>2, TimesMonotone
  <2>2. (q + 1) * d = q * d + d
    OBVIOUS
  <2> QED
    BY <1>1, <2>1, <2>2
<1>3. ASSUME high + 1 <= d, w <= q PROVE FALSE
  <2>1. w * d <= q * d /\ (high + 1) * w <= d * w
    BY <1>3, TimesMonotone
  <2>2. (high + 1) * w = high * w + w
    OBVIOUS
  <2> QED
    BY <1>1, <2>1, <2>2
<1> QED
  BY <1>2, <1>3

(* full_math's mul_div, for all words and any width: the quotient of the   *)
(* product, however wide that is, and an Err just if it is no word.        *)
THEOREM MulDivExact ==
    ASSUME NEW a \in Words, NEW b \in Words, NEW d \in 1 .. Word - 1
    PROVE  /\ (a * b) \div d \in Nat
           /\ MulDiv(a, b, d) = IF (a * b) \div d < Word THEN (a * b) \div d ELSE Err
<1>1. Word \in Nat /\ Word >= 16 /\ d \in Nat /\ d > 0
  BY WordIs
<1>2. PICK p \in Nat, high \in Nat, low \in Words :
        p = a * b /\ high = High(a, b) /\ low = Low(a, b) /\ p = high * Word + low
  <2>1. /\ High(a, b) \in Nat /\ Low(a, b) \in Words /\ a * b \in Nat
        /\ a * b = High(a, b) * Word + Low(a, b)
    BY <1>1, TwoWords
  <2> QED
    BY <2>1
<1>3. PICK q \in Nat, r \in 0 .. d - 1 : q = p \div d /\ r = p % d /\ p = q * d + r
  <2>1. p \div d \in Nat /\ p % d \in 0 .. d - 1 /\ p = (p \div d) * d + (p % d)
    BY <1>1, Quotients
  <2> QED
    BY <2>1
<1>4. low \in Nat /\ low < Word /\ r \in Nat /\ r < d
  BY <1>1 DEF Words
<1>5. q < Word <=> high < d
  BY <1>1, <1>2, <1>3, <1>4, QuotientFits, ZenonT(40)
<1>6. MulDiv(a, b, d) = IF d <= high THEN Err ELSE Quotient(high, low, r, d)
  BY <1>2, <1>3 DEF MulDiv
<1>7. ASSUME high < d PROVE Quotient(high, low, r, d) = q
  <2>1. CASE high = 0
    <3>1. p = low
      BY <1>1, <1>2, <1>4, <2>1
    <3> QED
      BY <1>3, <2>1, <3>1 DEF Quotient
  <2>2. CASE high # 0
    <3>1. PICK odd \in Words, twos \in Nat, c \in Nat :
            /\ twos = 2 ^ Cardinality(PowersIn(d)) /\ twos > 0
            /\ d \div twos = odd /\ odd % 2 = 1 /\ d = odd * twos /\ Word = c * twos
      BY TwosOut
    <3>2. PICK eh \in Int : eh = high - (IF r > low THEN 1 ELSE 0)
      OBVIOUS
    <3>3. PICK el \in Int : el = (low - r) % Word /\ eh * Word + el = q * d
      <4>1. PICK hw \in Int, qd \in Int :
              hw = high * Word /\ qd = q * d /\ hw + low = qd + r /\ (high - 1) * Word = hw - Word
        BY <1>1, <1>2, <1>3
      <4>2. r \in Int /\ r < Word
        BY <1>1
      <4>3. CASE r > low
        <5>1. low - r = (0 - 1) * Word + (low - r + Word) /\ low - r + Word \in 0 .. Word - 1 /\ low - r \in Int
          BY <1>1, <1>4, <4>2, <4>3
        <5>2. (low - r) % Word = low - r + Word
          BY <1>1, <5>1, QuotientIs
        <5>3. eh * Word = hw - Word
          BY <3>2, <4>1, <4>3
        <5>4. low - r + Word \in Int /\ eh * Word + (low - r + Word) = q * d
          BY <1>1, <1>4, <4>1, <4>2, <5>3
        <5> QED
          BY <5>2, <5>4
      <4>4. CASE ~(r > low)
        <5>1. low - r = 0 * Word + (low - r) /\ low - r \in 0 .. Word - 1 /\ low - r \in Int
          BY <1>1, <1>4, <4>2, <4>4
        <5>2. (low - r) % Word = low - r
          BY <1>1, <5>1, QuotientIs
        <5>3. eh * Word = hw
          BY <3>2, <4>1, <4>4
        <5>4. low - r \in Int /\ eh * Word + (low - r) = q * d
          BY <1>1, <1>4, <4>1, <4>2, <5>3
        <5> QED
          BY <5>2, <5>4
      <4> QED
        BY <4>3, <4>4
    <3>4. q \in Words
      BY <1>1, <1>5, <1>7 DEF Words
    <3>5. DividedBy(odd, twos, eh, el) = q
      <4>1. eh * Word + el = q * (odd * twos)
        BY <3>1, <3>3
      <4>2. odd % 2 = 1 /\ twos > 0 /\ Word = c * twos
        BY <3>1
      <4> HIDE <3>1
      <4> QED
        BY <3>4, <4>1, <4>2, DividedExactly
    <3>6. Divided(high, low, r, d) = DividedBy(odd, twos, eh, el)
      BY <3>1, <3>2, <3>3 DEF Divided, PowersIn
    <3> QED
      BY <2>2, <3>5, <3>6 DEF Quotient
  <2> QED
    BY <2>1, <2>2
<1>8. CASE high < d
  <2>1. ~(d <= high)
    BY <1>1, <1>8
  <2> QED
    BY <1>2, <1>3, <1>5, <1>6, <1>7, <1>8, <2>1
<1>9. CASE ~(high < d)
  <2>1. d <= high
    BY <1>1, <1>9
  <2> QED
    BY <1>2, <1>3, <1>5, <1>6, <1>9, <2>1
<1> QED
  BY <1>8, <1>9
-----------------------------------------------------------------------------
(* Rounded quotients. *)

LEMMA Floors ==
    ASSUME NEW n \in Nat, NEW d \in Nat, d > 0
    PROVE  /\ n \div d \in Nat /\ (n \div d) * d <= n /\ n < (n \div d) * d + d
           /\ n % d = 0 <=> n = (n \div d) * d
<1>1. PICK q \in Nat, r \in 0 .. d - 1 : q = n \div d /\ r = n % d /\ n = q * d + r
  <2>1. n \div d \in Nat /\ n % d \in 0 .. d - 1 /\ n = (n \div d) * d + (n % d)
    BY Quotients
  <2> QED
    BY <2>1
<1>2. q * d \in Nat
  BY <1>1, TimesNat
<1>3. q * d <= n /\ n < q * d + d /\ (r = 0 <=> n = q * d)
  BY <1>1, <1>2
<1> QED
  BY <1>1, <1>3

LEMMA Ceilings ==
    ASSUME NEW n \in Nat, NEW d \in Nat, d > 0
    PROVE  /\ DivCeil(n, d) \in Nat /\ n <= DivCeil(n, d) * d
           /\ \A m \in Nat : DivCeil(n, d) <= m <=> n <= m * d
           /\ \A m \in Nat : m < DivCeil(n, d) <=> m * d < n
<1>1. PICK q \in Nat : q = n \div d /\ q * d <= n /\ n < q * d + d /\ (n % d = 0 <=> n = q * d)
  BY Floors
<1>2. PICK c : c = DivCeil(n, d)
  OBVIOUS
<1>3. (c = q /\ n = q * d) \/ (c = q + 1 /\ n # q * d)
  BY <1>1, <1>2 DEF DivCeil
<1>4. c \in Nat /\ n <= c * d
  <2>1. (q + 1) * d = q * d + d /\ q * d \in Nat
    BY <1>1, TimesNat
  <2> QED
    BY <1>1, <1>3, <2>1
<1>5. ASSUME NEW m \in Nat, c <= m PROVE n <= m * d
  <2>1. c * d <= m * d /\ c * d \in Nat /\ m * d \in Nat
    BY <1>4, <1>5, TimesMonotone, TimesNat
  <2> QED
    BY <1>4, <2>1
<1>6. ASSUME NEW m \in Nat, m < c PROVE m * d < n
  <2>1. CASE c = q
    <3>1. (m + 1) * d <= q * d /\ (m + 1) * d = m * d + d /\ m * d \in Nat /\ q * d \in Nat
      BY <1>1, <1>6, <2>1, TimesMonotone, TimesNat
    <3> QED
      BY <1>3, <2>1, <3>1
  <2>2. CASE c # q
    <3>1. m <= q /\ n # q * d
      BY <1>1, <1>3, <1>6, <2>2
    <3>2. m * d <= q * d /\ m * d \in Nat /\ q * d \in Nat
      BY <1>1, <3>1, TimesMonotone, TimesNat
    <3> QED
      BY <1>1, <3>1, <3>2
  <2> QED
    BY <2>1, <2>2
<1>7. ASSUME NEW m \in Nat PROVE (c <= m <=> n <= m * d) /\ (m < c <=> m * d < n)
  <2>1. m * d \in Nat
    BY TimesNat
  <2>2. m < c \/ c <= m
    BY <1>4
  <2> QED
    BY <1>4, <1>5, <1>6, <2>1, <2>2
<1> QED
  BY <1>2, <1>4, <1>7

LEMMA MulDivRoundingUpIs ==
    ASSUME NEW a \in Words, NEW b \in Words, NEW d \in 1 .. Word - 1
    PROVE  MulDivRoundingUp(a, b, d) = IF DivCeil(a * b, d) < Word THEN DivCeil(a * b, d) ELSE Err
<1>1. Word \in Nat /\ Word >= 16 /\ d \in Nat /\ d > 0 /\ Err = -1
  BY WordIs DEF Err
<1>2. PICK q \in Nat : q = (a * b) \div d /\ MulDiv(a, b, d) = IF q < Word THEN q ELSE Err
  BY MulDivExact
<1>3. PICK rest : rest = (a * b) % d
  OBVIOUS
<1>4. DivCeil(a * b, d) = q + (IF rest = 0 THEN 0 ELSE 1)
  BY <1>2, <1>3 DEF DivCeil
<1>5. CASE q < Word
  <2>1. MulDivRoundingUp(a, b, d) = IF rest = 0 THEN q ELSE IF q = Word - 1 THEN Err ELSE q + 1
    BY <1>1, <1>2, <1>3, <1>5 DEF MulDivRoundingUp, Try
  <2> QED
    BY <1>1, <1>4, <1>5, <2>1
<1>6. CASE ~(q < Word)
  <2>1. MulDivRoundingUp(a, b, d) = Err
    BY <1>2, <1>6 DEF MulDivRoundingUp, Try
  <2> QED
    BY <1>1, <1>4, <1>6, <2>1
<1> QED
  BY <1>5, <1>6

(* The widths. *)
LEMMA WidthsOfQuotes ==
    /\ Q \in Nat /\ Q > 0 /\ Q < Word /\ (\E c \in Nat : Word = c * Q)
    /\ UMax \in Nat /\ UMax >= 1 /\ UMax * Q \in Nat /\ UMax * Q < Word /\ UMax < Word
    /\ 2 ^ RatioBits \in Nat /\ 2 ^ RatioBits > 0 /\ 2 ^ RatioBits <= Word /\ 2 ^ RatioBits <= Q * Q
    /\ FeeUnit \in 1 .. Word - 1
<1>1. /\ WordBits \in Nat /\ PriceBits \in Nat \ {0} /\ W \in Nat \ {0} /\ RatioBits \in Nat \ {0}
      /\ W + PriceBits <= WordBits /\ RatioBits <= WordBits /\ RatioBits <= 2 * PriceBits
      /\ FeeUnit \in Nat \ {0} /\ FeeUnit < Word
  BY MathAssumption, V3Assumption
<1>2. Word \in Nat /\ Word >= 16 /\ Word = 2 ^ WordBits
  BY WordIs
<1>3. /\ PriceBits \in 0 .. 2 * WordBits /\ W \in 0 .. 2 * WordBits /\ RatioBits \in 0 .. 2 * WordBits
      /\ W + PriceBits \in 0 .. 2 * WordBits /\ WordBits - PriceBits \in 0 .. 2 * WordBits
      /\ WordBits - (W + PriceBits) \in 0 .. 2 * WordBits
      /\ WordBits - RatioBits \in 0 .. 2 * WordBits /\ PriceBits + PriceBits \in 0 .. 2 * WordBits
      /\ 2 * PriceBits - RatioBits \in 0 .. 2 * WordBits
  BY <1>1
<1>4. ASSUME NEW m \in Nat, NEW n \in Nat, m + n <= 2 * WordBits
      PROVE  2 ^ m <= 2 ^ (m + n)
  <2>1. m \in 0 .. 2 * WordBits /\ n \in 0 .. 2 * WordBits
    BY <1>1, <1>4
  <2>2. PICK a \in Nat, b \in Nat : a = 2 ^ m /\ b = 2 ^ n /\ b > 0 /\ 2 ^ (m + n) = a * b
    BY <1>4, <2>1, PowersAdd, Powers
  <2>3. a * 1 <= a * b
    BY <2>2, TimesMonotone
  <2> QED
    BY <2>2, <2>3
<1>5. PICK q \in Nat, u \in Nat : q = Q /\ u = 2 ^ W /\ q > 0 /\ u >= 2
  <2>1. W - 1 \in 0 .. 2 * WordBits - 1 /\ (W - 1) + 1 = W
    BY <1>1
  <2>2. 2 ^ W = 2 * 2 ^ (W - 1) /\ 2 ^ (W - 1) \in Nat /\ 2 ^ (W - 1) > 0
    <3>1. W - 1 \in 0 .. 2 * WordBits
      BY <1>1
    <3>2. 2 ^ ((W - 1) + 1) = 2 * 2 ^ (W - 1)
      BY <2>1, Powers
    <3> QED
      BY <2>1, <3>1, <3>2, Powers
  <2>3. 2 ^ W \in Nat /\ 2 ^ W >= 2
    BY <2>2
  <2> QED
    BY <1>3, <2>3, Powers DEF Q
<1>6. UMax = u - 1
  BY <1>5 DEF UMax
<1>7. 2 ^ (W + PriceBits) = u * q /\ u * q \in Nat /\ u * q <= Word
  <2>1. (W + PriceBits) + (WordBits - (W + PriceBits)) = WordBits /\ W + PriceBits \in Nat
        /\ WordBits - (W + PriceBits) \in Nat /\ WordBits <= 2 * WordBits
    BY <1>1
  <2>2. 2 ^ (W + PriceBits) <= Word
    BY <1>2, <1>4, <2>1
  <2>3. W \in Nat /\ PriceBits \in Nat /\ W + PriceBits <= 2 * WordBits
    BY <1>1
  <2>4. 2 ^ (W + PriceBits) = u * q
    BY <1>5, <2>3, PowersAdd DEF Q
  <2> QED
    BY <1>5, <2>2, <2>4, TimesNat
<1>8. (u - 1) * q = u * q - q /\ u - 1 \in Nat /\ (u - 1) * q \in Nat
  <2>1. u - 1 \in Nat
    BY <1>5
  <2> QED
    BY <1>5, <2>1, TimesNat
<1>9. UMax * Q \in Nat /\ UMax * Q < Word /\ UMax >= 1 /\ UMax \in Nat
  BY <1>2, <1>5, <1>6, <1>7, <1>8
<1>10. Q < Word /\ UMax < Word
  <2>1. 2 * q <= u * q /\ u * 1 <= u * q
    BY <1>5, TimesMonotone
  <2> QED
    BY <1>2, <1>5, <1>6, <1>7, <2>1
<1>11. \E c \in Nat : Word = c * Q
  <2>1. (WordBits - PriceBits) + PriceBits = WordBits /\ WordBits - PriceBits \in Nat /\ PriceBits \in Nat
        /\ WordBits <= 2 * WordBits
    BY <1>1
  <2>2. 2 ^ WordBits = 2 ^ (WordBits - PriceBits) * Q
    BY <2>1, PowersAdd DEF Q
  <2>3. 2 ^ (WordBits - PriceBits) \in Nat
    BY <1>3, Powers
  <2> QED
    BY <1>2, <2>2, <2>3
<1>12. 2 ^ RatioBits <= Word /\ 2 ^ RatioBits \in Nat /\ 2 ^ RatioBits > 0
  <2>1. RatioBits + (WordBits - RatioBits) = WordBits /\ RatioBits \in Nat /\ WordBits - RatioBits \in Nat
        /\ WordBits <= 2 * WordBits
    BY <1>1
  <2> QED
    BY <1>2, <1>3, <1>4, <2>1, Powers
<1>13. 2 ^ RatioBits <= Q * Q
  <2>1. RatioBits + (2 * PriceBits - RatioBits) = PriceBits + PriceBits /\ RatioBits \in Nat
        /\ 2 * PriceBits - RatioBits \in Nat /\ PriceBits + PriceBits <= 2 * WordBits /\ PriceBits \in Nat
    BY <1>1
  <2>2. 2 ^ RatioBits <= 2 ^ (PriceBits + PriceBits)
    BY <1>4, <2>1
  <2>3. 2 ^ (PriceBits + PriceBits) = Q * Q
    BY <2>1, PowersAdd DEF Q
  <2> QED
    BY <2>2, <2>3
<1>14. FeeUnit \in 1 .. Word - 1
  BY <1>1, <1>2
<1> QED
  BY <1>5, <1>9, <1>10, <1>11, <1>12, <1>13, <1>14

LEMMA MulDivQ96Is ==
    ASSUME NEW a \in Words, NEW b \in Words
    PROVE  MulDivQ96(a, b) = IF (a * b) \div Q < Word THEN (a * b) \div Q ELSE Err
<1>1. PICK q \in Nat : q = Q /\ q > 0 /\ q < Word
  BY WidthsOfQuotes
<1>2. PICK c \in Nat : Word = c * q
  BY <1>1, WidthsOfQuotes
<1>3. Word \in Nat /\ Word >= 16
  BY WordIs
<1>4. PICK p \in Nat, high \in Nat, low \in Nat :
        p = a * b /\ high = High(a, b) /\ low = Low(a, b) /\ p = high * Word + low /\ low < Word
  <2>1. /\ High(a, b) \in Nat /\ Low(a, b) \in Nat /\ Low(a, b) < Word /\ a * b \in Nat
        /\ a * b = High(a, b) * Word + Low(a, b)
    BY <1>3, TwoWords DEF Words
  <2> QED
    BY <2>1
<1>5. PICK n \in Nat, r \in 0 .. q - 1 : n = low \div q /\ low = n * q + r
  <2>1. low \div q \in Nat /\ low % q \in 0 .. q - 1 /\ low = (low \div q) * q + (low % q)
    BY <1>1, Quotients
  <2> QED
    BY <2>1
<1>6. p \div q = n + high * c
  <2>1. high * (c * q) = (high * c) * q /\ (n + high * c) * q = n * q + (high * c) * q
    BY <1>1
  <2>2. n * q \in Nat /\ (high * c) * q \in Nat /\ n + high * c \in Nat
    <3>1. high * c \in Nat
      BY TimesNat
    <3> QED
      BY <1>1, <3>1, TimesNat
  <2>3. p = (n + high * c) * q + r
    BY <1>1, <1>2, <1>4, <1>5, <2>1, <2>2
  <2> QED
    BY <1>1, <2>2, <2>3, QuotientIs
<1>7. Word \div q = c
  <2>1. Word = c * q + 0 /\ 0 \in 0 .. q - 1
    BY <1>1, <1>2
  <2> QED
    BY <1>1, <1>3, <2>1, QuotientIs
<1>8. MulDivQ96(a, b) = IF high >= q THEN Err ELSE n + high * c
  BY <1>1, <1>4, <1>5, <1>7 DEF MulDivQ96
<1>9. PICK m \in Nat, k \in 0 .. q - 1 : m = p \div q /\ p = m * q + k
  <2>1. p \div q \in Nat /\ p % q \in 0 .. q - 1 /\ p = (p \div q) * q + (p % q)
    BY <1>1, Quotients
  <2> QED
    BY <2>1
<1>10. m < Word <=> high < q
  <2>1. k \in Nat /\ k < q
    BY <1>1
  <2>2. low \in Words
    BY <1>3, <1>4 DEF Words
  <2>3. m * q + k = high * Word + low
    BY <1>4, <1>9
  <2> QED
    BY <1>1, <1>3, <1>4, <1>9, <2>1, <2>2, <2>3, QuotientFits
<1> QED
  BY <1>1, <1>4, <1>6, <1>8, <1>9, <1>10
-----------------------------------------------------------------------------
(* sqrt_price_math: what a position holds between two prices.              *)
Ratios == 1 .. 2 ^ RatioBits - 1

LEMMA MinMaxOfTwo ==
    ASSUME NEW l \in Int, NEW u \in Int, l <= u
    PROVE  /\ Min({l, u}) = l /\ Max({l, u}) = u /\ Min({u, l}) = l /\ Max({u, l}) = u
<1>1. {l, u} = {u, l}
  OBVIOUS
<1>2. Min({l, u}) = l
  BY DEF Min
<1>3. Max({l, u}) = u
  BY DEF Max
<1> QED
  BY <1>1, <1>2, <1>3

LEMMA RatiosAre ==
    ASSUME NEW p \in Ratios
    PROVE  p \in Nat /\ p > 0 /\ p \in 1 .. Word - 1 /\ p < 2 ^ RatioBits
<1>1. 2 ^ RatioBits \in Nat /\ 2 ^ RatioBits <= Word /\ Word \in Nat
  BY WidthsOfQuotes, WordIs
<1> QED
  BY <1>1 DEF Ratios

LEMMA NumeratorIs ==
    ASSUME NEW L \in 0..UMax
    PROVE  /\ L \in Nat /\ L \in Words /\ L * Q \in Nat /\ L * Q \in Words
           /\ L * Q <= UMax * Q /\ (L > 0 => L * Q > 0)
<1>1. PICK q \in Nat, m \in Nat : q = Q /\ m = UMax /\ q > 0 /\ m * q < Word /\ m < Word
  BY WidthsOfQuotes
<1>2. L \in Nat /\ L <= m
  BY <1>1
<1>3. L * q <= m * q /\ L * q \in Nat /\ m * q \in Nat
  BY <1>1, <1>2, TimesMonotone, TimesNat
<1>4. L > 0 => L * q > 0
  BY <1>1, <1>2, TimesPositive
<1> QED
  BY <1>1, <1>2, <1>3, <1>4, WordIs DEF Words

(* A part of a numerator, rounded up or down twice.                        *)
LEMMA PartOf ==
    ASSUME NEW n \in Nat, NEW l \in Nat, NEW u \in Nat, 0 < l, l <= u
    PROVE  /\ n * (u - l) \in Nat /\ n * (u - l) <= n * u /\ n * (u - l) = n * u - n * l
           /\ (n * (u - l)) \div u \in Nat /\ (n * (u - l)) \div u <= n
           /\ DivCeil(n * (u - l), u) \in Nat /\ DivCeil(n * (u - l), u) <= n
<1>1. PICK d \in Nat : u = l + d /\ u - l = d
  <2>1. u - l \in Nat /\ u = l + (u - l)
    OBVIOUS
  <2> QED
    BY <2>1
<1>2. n * u = n * l + n * d /\ n * l \in Nat /\ n * d \in Nat /\ n * u \in Nat
  BY <1>1, TimesNat
<1>3. n * d <= n * u
  BY <1>2
<1>4. PICK q \in Nat : q = (n * d) \div u /\ q * u <= n * d
  BY <1>2, Floors
<1>5. q <= n
  <2>1. q * u <= n * u /\ q * u \in Nat
    BY <1>2, <1>3, <1>4, TimesNat
  <2> QED
    BY <2>1, Cancels
<1>6. DivCeil(n * d, u) \in Nat /\ (DivCeil(n * d, u) <= n <=> n * d <= n * u)
  <2>1. PICK p \in Nat : p = n * d
    BY <1>2
  <2>2. DivCeil(p, u) \in Nat /\ (DivCeil(p, u) <= n <=> p <= n * u)
    BY Ceilings
  <2> QED
    BY <2>1, <2>2
<1> QED
  BY <1>1, <1>2, <1>3, <1>4, <1>5, <1>6

LEMMA Amount0Is ==
    ASSUME NEW L \in 0..UMax, NEW l \in Ratios, NEW u \in Ratios, l <= u
    PROVE  /\ GetAmount0Delta(l, u, L, TRUE) = DivCeil(DivCeil((L * Q) * (u - l), u), l)
           /\ GetAmount0Delta(l, u, L, FALSE) = (((L * Q) * (u - l)) \div u) \div l
<1>1. PICK n \in Nat : n = L * Q /\ n \in Words
  BY NumeratorIs
<1>2. /\ l \in Nat /\ u \in Nat /\ l > 0 /\ u > 0 /\ u \in 1 .. Word - 1 /\ u < Word /\ Word \in Nat
      /\ Err = -1
  BY RatiosAre, WordIs DEF Err
<1>3. Min({l, u}) = l /\ Max({l, u}) = u
  <2>1. l \in Int /\ u \in Int
    BY <1>2
  <2> QED
    BY <2>1, MinMaxOfTwo
<1>4. u - l \in Words
  BY <1>2 DEF Words
<1>5. /\ n * (u - l) \in Nat /\ (n * (u - l)) \div u \in Nat /\ (n * (u - l)) \div u <= n
      /\ DivCeil(n * (u - l), u) \in Nat /\ DivCeil(n * (u - l), u) <= n
  BY <1>2, PartOf
<1>6. n < Word
  BY <1>1, <1>2 DEF Words
<1>7. MulDivRoundingUp(n, u - l, u) = DivCeil(n * (u - l), u)
  <2>1. MulDivRoundingUp(n, u - l, u) =
            IF DivCeil(n * (u - l), u) < Word THEN DivCeil(n * (u - l), u) ELSE Err
    BY <1>1, <1>2, <1>4, MulDivRoundingUpIs
  <2>2. DivCeil(n * (u - l), u) < Word
    BY <1>2, <1>5, <1>6
  <2> QED
    BY <2>1, <2>2
<1>8. MulDiv(n, u - l, u) = (n * (u - l)) \div u
  <2>1. MulDiv(n, u - l, u) = IF (n * (u - l)) \div u < Word THEN (n * (u - l)) \div u ELSE Err
    BY <1>1, <1>2, <1>4, MulDivExact
  <2>2. (n * (u - l)) \div u < Word
    BY <1>2, <1>5, <1>6
  <2> QED
    BY <2>1, <2>2
<1>9. PICK c \in Nat, f \in Nat : c = DivCeil(n * (u - l), u) /\ f = (n * (u - l)) \div u
  BY <1>5
<1>10. GetAmount0Delta(l, u, L, TRUE) = DivCeil(c, l)
  BY <1>1, <1>2, <1>3, <1>7, <1>9 DEF GetAmount0Delta, Try
<1>11. GetAmount0Delta(l, u, L, FALSE) = f \div l
  BY <1>1, <1>2, <1>3, <1>8, <1>9 DEF GetAmount0Delta, Try
<1> QED
  BY <1>1, <1>9, <1>10, <1>11

(* What is less than the rounded part.                                     *)
LEMMA LessThanPart ==
    ASSUME NEW n \in Nat, NEW l \in Nat, NEW u \in Nat, 0 < l, l <= u
    PROVE  \E c \in Nat, f \in Nat :
             /\ c = DivCeil(DivCeil(n * (u - l), u), l) /\ f = ((n * (u - l)) \div u) \div l
             /\ c <= n /\ f <= n
             /\ \A x \in Nat : x < c => (x * l) * u < n * u - n * l
             /\ \A x \in Nat : x < f => (x * l) * u + l * u <= n * u - n * l
<1>1. PICK p \in Nat, up \in Nat, down \in Nat :
        /\ p = n * (u - l) /\ p = n * u - n * l /\ up = DivCeil(p, u) /\ down = p \div u
        /\ up <= n /\ down <= n
  BY PartOf
<1>2. u > 0
  OBVIOUS
<1>3. PICK c \in Nat : c = DivCeil(up, l) /\ (\A x \in Nat : x < c => x * l < up) /\ (c <= up)
  <2>1. DivCeil(up, l) \in Nat /\ (\A x \in Nat : x < DivCeil(up, l) <=> x * l < up)
        /\ (DivCeil(up, l) <= up <=> up <= up * l)
    BY Ceilings
  <2>2. up * 1 <= up * l
    BY TimesMonotone
  <2> QED
    BY <2>1, <2>2
<1>4. PICK f \in Nat : f = down \div l /\ f * l <= down
  BY Floors
<1>5. f <= down
  <2>1. f * 1 <= f * l /\ f * l \in Nat
    BY TimesMonotone, TimesNat
  <2> QED
    BY <1>4, <2>1
<1>6. ASSUME NEW x \in Nat, x < c PROVE (x * l) * u < p
  <2>1. PICK y \in Nat : y = x * l /\ y < up
    BY <1>3, <1>6, TimesNat
  <2>2. y * u < p
    BY <1>1, <1>2, <2>1, Ceilings
  <2> QED
    BY <2>1, <2>2
<1>7. ASSUME NEW x \in Nat, x < f PROVE (x * l) * u + l * u <= p
  <2>1. PICK y \in Nat : y = x * l /\ (x + 1) * l = y + l /\ (x + 1) * l <= f * l /\ f * l \in Nat
    BY <1>7, TimesMonotone, TimesNat
  <2>2. y + l <= down
    BY <1>4, <2>1
  <2>3. (y + l) * u <= down * u /\ down * u <= p /\ (y + l) * u = y * u + l * u
        /\ down * u \in Nat /\ y * u \in Nat /\ l * u \in Nat
    BY <1>1, <1>2, <2>1, <2>2, TimesMonotone, TimesNat, Floors
  <2>4. y * u + l * u <= p
    BY <2>3
  <2> QED
    BY <2>1, <2>4
<1>8. c = DivCeil(DivCeil(n * (u - l), u), l) /\ f = ((n * (u - l)) \div u) \div l
  BY <1>1, <1>3, <1>4
<1>9. c <= n /\ f <= n
  BY <1>1, <1>3, <1>5
<1>10. ASSUME NEW x \in Nat
       PROVE  /\ x < c => (x * l) * u < n * u - n * l
              /\ x < f => (x * l) * u + l * u <= n * u - n * l
  BY <1>1, <1>6, <1>7
<1> QED
  BY <1>8, <1>9, <1>10, Zenon

LEMMA Amount1Exact ==
    ASSUME NEW L \in 0..UMax, NEW l \in Ratios, NEW u \in Ratios, l <= u, NEW a, NEW b,
           (a = l /\ b = u) \/ (a = u /\ b = l)
    PROVE  /\ GetAmount1Delta(a, b, L, TRUE) = DivCeil(L * (u - l), Q)
           /\ GetAmount1Delta(a, b, L, FALSE) = (L * (u - l)) \div Q
           /\ DivCeil(L * (u - l), Q) <= L * Q /\ (L * (u - l)) \div Q <= L * Q /\ L * (u - l) \in Nat
<1>1. PICK q \in Nat : q = Q /\ q > 0
  BY WidthsOfQuotes
<1>2. /\ l \in Nat /\ u \in Nat /\ u < Word /\ Word \in Nat /\ Err = -1
      /\ L \in Nat /\ L \in Words /\ L * q \in Nat /\ L * q < Word
  <2>1. L * Q \in Words /\ L \in Words /\ L \in Nat /\ L * Q \in Nat
    BY NumeratorIs
  <2> QED
    BY <1>1, <2>1, RatiosAre, WordIs DEF Err, Words
<1>3. PICK d \in Nat : d = u - l /\ d \in Words /\ Abs(a - b) = d /\ d <= q * q
  <2>1. u < 2 ^ RatioBits /\ 2 ^ RatioBits <= q * q /\ 2 ^ RatioBits \in Nat /\ q * q \in Nat
    BY <1>1, RatiosAre, WidthsOfQuotes, TimesNat
  <2>2. u - l \in Nat /\ u - l \in Words /\ Abs(a - b) = u - l
    BY <1>2 DEF Abs, Words
  <2> QED
    BY <1>2, <2>1, <2>2
<1>4. PICK p \in Nat : p = L * d /\ p <= (L * q) * q
  <2>1. L * d <= L * (q * q) /\ L * (q * q) = (L * q) * q /\ L * d \in Nat
    BY <1>1, <1>2, <1>3, TimesMonotone, TimesNat
  <2> QED
    BY <2>1
<1>5. PICK f \in Nat : f = p \div q /\ f * q <= p /\ p < f * q + q /\ (p % q = 0 <=> p = f * q)
  BY <1>1, Floors
<1>6. f <= L * q
  <2>1. f * q <= (L * q) * q /\ f * q \in Nat /\ (L * q) * q \in Nat
    BY <1>1, <1>2, <1>4, <1>5, TimesNat
  <2> QED
    BY <1>1, <1>2, <2>1, Cancels
<1>7. PICK c \in Nat : c = DivCeil(p, q) /\ (\A x \in Nat : x < c => x * q < p) /\ c <= L * q
  <2>1. PICK m \in Nat : m = L * q
    BY <1>2
  <2>2. DivCeil(p, q) \in Nat /\ (\A x \in Nat : x < DivCeil(p, q) <=> x * q < p)
        /\ (DivCeil(p, q) <= m <=> p <= m * q)
    BY <1>1, Ceilings
  <2> QED
    BY <1>4, <2>1, <2>2
<1>8. MulDivQ96(L, d) = f
  <2>1. MulDivQ96(L, d) = IF p \div q < Word THEN p \div q ELSE Err
    BY <1>1, <1>2, <1>3, <1>4, MulDivQ96Is
  <2> QED
    BY <1>2, <1>5, <1>6, <2>1
<1>9. PICK rest \in Nat : rest = p % q
  <2>1. p % q \in 0 .. q - 1
    BY <1>1, Quotients
  <2> QED
    BY <1>1, <2>1
<1>10. GetAmount1Delta(a, b, L, FALSE) = f
  BY <1>2, <1>3, <1>8 DEF GetAmount1Delta, Try
<1>11. GetAmount1Delta(a, b, L, TRUE) = c
  <2>1. GetAmount1Delta(a, b, L, TRUE) = f + (IF rest > 0 THEN 1 ELSE 0)
    BY <1>1, <1>2, <1>3, <1>4, <1>8, <1>9 DEF GetAmount1Delta, Try
  <2>2. c = f + (IF rest = 0 THEN 0 ELSE 1)
    BY <1>5, <1>7, <1>9 DEF DivCeil
  <2>3. f + (IF rest > 0 THEN 1 ELSE 0) = c
    BY <2>2
  <2> QED
    BY <2>1, <2>3, Zenon
<1> QED
  BY <1>1, <1>3, <1>4, <1>5, <1>6, <1>7, <1>10, <1>11

LEMMA Amount1Is ==
    ASSUME NEW L \in 0..UMax, NEW l \in Ratios, NEW u \in Ratios, l <= u, NEW a, NEW b,
           (a = l /\ b = u) \/ (a = u /\ b = l)
    PROVE  \E p \in Nat, c \in Nat, f \in Nat :
             /\ p = L * (u - l)
             /\ GetAmount1Delta(a, b, L, TRUE) = c /\ GetAmount1Delta(a, b, L, FALSE) = f
             /\ c <= L * Q /\ f <= L * Q
             /\ \A x \in Nat : x < c => x * Q < p
             /\ \A x \in Nat : x < f => x * Q <= p
<1>1. PICK q \in Nat : q = Q /\ q > 0
  BY WidthsOfQuotes
<1>2. PICK p \in Nat :
        /\ p = L * (u - l)
        /\ GetAmount1Delta(a, b, L, TRUE) = DivCeil(p, q) /\ GetAmount1Delta(a, b, L, FALSE) = p \div q
        /\ DivCeil(p, q) <= L * Q /\ p \div q <= L * Q
  BY <1>1, Amount1Exact
<1>3. PICK c \in Nat : c = DivCeil(p, q) /\ \A x \in Nat : x < c <=> x * q < p
  BY <1>1, Ceilings
<1>4. PICK f \in Nat : f = p \div q /\ f * q <= p
  BY <1>1, Floors
<1>5. ASSUME NEW x \in Nat, x < f PROVE x * q <= p
  <2>1. x * q <= f * q /\ x * q \in Nat /\ f * q \in Nat
    BY <1>1, <1>5, TimesMonotone, TimesNat
  <2> QED
    BY <1>4, <2>1
<1> QED
  BY <1>1, <1>2, <1>3, <1>4, <1>5
-----------------------------------------------------------------------------
(* The price an amount that does not reach the target leads to.            *)

LEMMA NextUpIn ==
    ASSUME NEW L \in 0..UMax, NEW l \in Ratios, NEW u \in Ratios, l <= u, NEW x \in Nat,
           x * Q < L * (u - l)
    PROVE  /\ GetNextSqrtPriceFromInput(l, L, x, FALSE) \in l .. u
           /\ GetNextSqrtPriceFromInput(l, L, x, FALSE) = l + (x * Q) \div L
<1>1. PICK q \in Nat, d \in Nat : q = Q /\ q > 0 /\ d = u - l /\ x * q < L * d
  <2>1. u - l \in Nat
    BY RatiosAre
  <2> QED
    BY <2>1, WidthsOfQuotes
<1>2. L \in Nat /\ l \in Nat /\ l > 0 /\ u \in Nat /\ u < 2 ^ RatioBits /\ 2 ^ RatioBits \in Nat
  BY NumeratorIs, RatiosAre, WidthsOfQuotes
<1>3. L > 0
  <2>1. L = 0 => L * d = 0
    BY <1>1
  <2>2. x * q \in Nat
    BY <1>1, TimesNat
  <2> QED
    BY <1>1, <1>2, <2>1, <2>2
<1>4. PICK p \in Nat, f \in Nat : p = x * q /\ f = p \div L /\ f * L <= p
  <2>1. x * q \in Nat
    BY <1>1, TimesNat
  <2> QED
    BY <1>2, <1>3, <2>1, Floors
<1>5. f <= d
  <2>1. f * L <= d * L /\ d * L = L * d
    BY <1>1, <1>2, <1>4, TimesNat
  <2> QED
    BY <1>2, <1>3, <2>1, Cancels
<1>6. GetNextSqrtPriceFromInput(l, L, x, FALSE) = l + f
  <2>1. l + f < 2 ^ RatioBits
    BY <1>1, <1>2, <1>5
  <2> QED
    BY <1>1, <1>2, <1>3, <1>4, <2>1
       DEF GetNextSqrtPriceFromInput, GetNextSqrtPriceFromAmount1RoundingDown, AsRatio
<1>7. l + f \in l .. u
  BY <1>1, <1>2, <1>5
<1> QED
  BY <1>1, <1>4, <1>6, <1>7

LEMMA NextDownOut ==
    ASSUME NEW L \in 0..UMax, NEW l \in Ratios, NEW u \in Ratios, l <= u, NEW x \in Nat,
           x * Q <= L * (u - l), L > 0
    PROVE  /\ GetNextSqrtPriceFromOutput(u, L, x, TRUE) \in l .. u
           /\ x * Q <= L * (u - GetNextSqrtPriceFromOutput(u, L, x, TRUE))
<1>1. PICK q \in Nat, d \in Nat : q = Q /\ q > 0 /\ d = u - l /\ x * q <= L * d
  <2>1. u - l \in Nat
    BY RatiosAre
  <2> QED
    BY <2>1, WidthsOfQuotes
<1>2. L \in Nat /\ l \in Nat /\ l > 0 /\ u \in Nat /\ u > 0
  BY NumeratorIs, RatiosAre
<1>3. PICK p \in Nat : p = x * q
  BY <1>1, TimesNat
<1>4. PICK c \in Nat : c = DivCeil(p, L) /\ c <= d
  <2>1. DivCeil(p, L) \in Nat /\ (DivCeil(p, L) <= d <=> p <= d * L)
    BY <1>2, Ceilings
  <2>2. d * L = L * d
    BY <1>2, TimesNat
  <2> QED
    BY <1>1, <1>3, <2>1, <2>2
<1>5. GetNextSqrtPriceFromOutput(u, L, x, TRUE) = u - c
  <2>1. u > c
    BY <1>1, <1>2, <1>4
  <2> QED
    BY <1>1, <1>2, <1>3, <1>4, <2>1
       DEF GetNextSqrtPriceFromOutput, GetNextSqrtPriceFromAmount1RoundingDown
<1>6. u - c \in l .. u
  BY <1>1, <1>2, <1>4
<1>7. x * Q <= L * (u - (u - c))
  <2>1. p <= c * L /\ c * L = L * c
    BY <1>2, <1>4, Ceilings, TimesNat
  <2>2. u - (u - c) = c
    BY <1>2, <1>4
  <2> QED
    BY <1>1, <1>3, <2>1, <2>2
<1> QED
  BY <1>5, <1>6, <1>7

LEMMA SmallModulo == ASSUME NEW m \in Nat, NEW w \in Nat, m < w PROVE m % w = m
<1>1. m = 0 * w + m /\ m \in 0 .. w - 1 /\ w > 0
  OBVIOUS
<1> QED
  BY <1>1, QuotientIs

LEMMA NextUpOut ==
    ASSUME NEW L \in 0..UMax, NEW l \in Ratios, NEW u \in Ratios, l <= u, NEW x \in Nat,
           (x * l) * u + l * u <= (L * Q) * u - (L * Q) * l
    PROVE  \E p \in Nat :
             /\ p = GetNextSqrtPriceFromOutput(l, L, x, FALSE) /\ p \in l .. u
             /\ (L * Q) * l + (x * l) * p <= (L * Q) * p
<1>1. PICK n \in Nat, m \in Nat : n = L * Q /\ n \in Words /\ m = x * l
  <2>1. x * l \in Nat
    BY RatiosAre, TimesNat
  <2> QED
    BY <2>1, NumeratorIs
<1>2. /\ L \in Nat /\ l \in Nat /\ l > 0 /\ u \in Nat /\ u < 2 ^ RatioBits /\ 2 ^ RatioBits \in Nat
      /\ u > 0 /\ u < Word /\ Word \in Nat /\ l \in Words /\ n < Word
  BY <1>1, NumeratorIs, RatiosAre, WidthsOfQuotes, WordIs DEF Words
<1>3. PICK nu \in Nat, nl \in Nat, mu \in Nat, lu \in Nat, ml \in Nat :
        /\ nu = n * u /\ nl = n * l /\ mu = m * u /\ lu = l * u /\ ml = m * l /\ lu > 0
        /\ mu + lu <= nu - nl
  <2>1. n * u \in Nat /\ n * l \in Nat /\ m * u \in Nat /\ l * u \in Nat /\ m * l \in Nat /\ l * u > 0
    BY <1>1, <1>2, TimesNat, TimesPositive
  <2>2. m * u + l * u <= n * u - n * l
    BY <1>1
  <2> QED
    BY <2>1, <2>2
<1>4. m < n
  <2>1. SUFFICES ASSUME n <= m PROVE FALSE
    BY <1>1
  <2>2. n * u <= m * u
    BY <1>1, <1>2, <2>1, TimesMonotone
  <2> QED
    BY <1>3, <2>2
<1>5. L > 0
  <2>1. L = 0 => n = 0
    BY <1>1, WidthsOfQuotes
  <2>2. n # 0
    BY <1>4
  <2> QED
    BY <1>2, <2>1, <2>2
<1>6. CASE x = 0
  <2>1. GetNextSqrtPriceFromOutput(l, L, x, FALSE) = l
    BY <1>2, <1>5, <1>6 DEF GetNextSqrtPriceFromOutput, GetNextSqrtPriceFromAmount0RoundingUp
  <2>2. l \in l .. u
    BY <1>2
  <2>3. (L * Q) * l + (x * l) * l <= (L * Q) * l
    BY <1>2, <1>1, <1>3, <1>6
  <2> QED
    BY <1>2, <2>1, <2>2, <2>3
<1>7. CASE x # 0
  <2>1. m % Word = m
    BY <1>1, <1>2, <1>4, SmallModulo
  <2>2. m \div x = l
    <3>1. m = l * x + 0 /\ 0 \in 0 .. x - 1 /\ x > 0
      BY <1>1, <1>2, <1>7, TimesNat
    <3> QED
      BY <1>2, <3>1, QuotientIs
  <2>3. PICK rest \in Nat : rest = n - m /\ rest \in 1 .. Word - 1
    BY <1>1, <1>2, <1>4
  <2>4. u * rest = nu - mu /\ l * rest = nl - ml
    BY <1>1, <1>2, <1>3, <2>3
  <2>5. PICK c \in Nat : c = DivCeil(nl, rest) /\ c <= u /\ l - 1 < c /\ nl <= c * rest
    <3>1. DivCeil(nl, rest) \in Nat /\ (DivCeil(nl, rest) <= u <=> nl <= u * rest)
          /\ (l - 1 < DivCeil(nl, rest) <=> (l - 1) * rest < nl)
          /\ nl <= DivCeil(nl, rest) * rest
      <4>1. l - 1 \in Nat /\ rest > 0
        BY <1>2, <2>3
      <4> QED
        BY <1>2, <1>3, <2>3, <4>1, Ceilings
    <3>2. (l - 1) * rest = l * rest - rest
      BY <1>2, <2>3
    <3>3. rest > 0
      BY <2>3
    <3> QED
      BY <1>3, <2>3, <2>4, <3>1, <3>2, <3>3
  <2>6. MulDivRoundingUp(n, l, rest) = c
    <3>1. MulDivRoundingUp(n, l, rest) =
            IF DivCeil(n * l, rest) < Word THEN DivCeil(n * l, rest) ELSE Err
      BY <1>1, <1>2, <2>3, MulDivRoundingUpIs
    <3>2. c < Word /\ DivCeil(n * l, rest) = c
      BY <1>2, <1>3, <2>5
    <3> QED
      BY <3>1, <3>2
  <2>7. Amount0Removed(l, x, n, m) = c
    <3>1. c < 2 ^ RatioBits
      BY <1>2, <2>5
    <3> QED
      BY <1>4, <2>2, <2>3, <2>6, <3>1 DEF Amount0Removed, AsRatio
  <2>8. GetNextSqrtPriceFromOutput(l, L, x, FALSE) = c
    BY <1>1, <1>2, <1>5, <1>7, <2>1, <2>7
       DEF GetNextSqrtPriceFromOutput, GetNextSqrtPriceFromAmount0RoundingUp
  <2>9. c \in l .. u
    BY <1>2, <2>5
  <2>10. (L * Q) * l + (x * l) * c <= (L * Q) * c
    <3>1. c * rest = n * c - m * c /\ n * c \in Nat /\ m * c \in Nat
      BY <1>1, <2>3, TimesNat
    <3>2. nl + m * c <= n * c
      BY <2>5, <3>1
    <3> QED
      BY <1>1, <1>3, <3>2
  <2> QED
    BY <2>8, <2>9, <2>10
<1> QED
  BY <1>6, <1>7

LEMMA NextDownIn ==
    ASSUME NEW L \in 0..UMax, NEW l \in Ratios, NEW u \in Ratios, l <= u, NEW x \in Nat,
           (x * l) * u < (L * Q) * u - (L * Q) * l
    PROVE  \E p \in Nat :
             /\ p = GetNextSqrtPriceFromInput(u, L, x, TRUE) /\ p \in l .. u
             /\ (L * Q) * u <= p * (L * Q + x * u)
             /\ L * Q + x * u < Word => p = DivCeil((L * Q) * u, L * Q + x * u)
<1>1. PICK n \in Nat, m \in Nat : n = L * Q /\ n \in Words /\ m = x * u
  <2>1. x * u \in Nat
    BY RatiosAre, TimesNat
  <2> QED
    BY <2>1, NumeratorIs
<1>2. /\ L \in Nat /\ l \in Nat /\ l > 0 /\ u \in Nat /\ u > 0 /\ u < Word /\ Word \in Nat
      /\ u \in Words /\ n < Word
  BY <1>1, NumeratorIs, RatiosAre, WordIs DEF Words
<1>3. PICK nu \in Nat, nl \in Nat, ml \in Nat, mu \in Nat :
        nu = n * u /\ nl = n * l /\ ml = m * l /\ mu = m * u /\ ml < nu - nl
  <2>1. n * u \in Nat /\ n * l \in Nat /\ m * u \in Nat /\ m * l \in Nat
    BY <1>1, <1>2, TimesNat
  <2>2. (x * l) * u = m * l
    BY <1>1, <1>2
  <2>3. (x * l) * u < n * u - n * l
    BY <1>1
  <2> QED
    BY <2>1, <2>2, <2>3
<1>4. L > 0 /\ n > 0
  <2>1. L = 0 => L * Q = 0
    BY WidthsOfQuotes
  <2>2. n = 0 => n * u = 0
    BY <1>2
  <2>3. n # 0
    BY <1>3, <2>2
  <2> QED
    BY <1>1, <1>2, <2>1, <2>3
<1>5. CASE x = 0
  <2>1. GetNextSqrtPriceFromInput(u, L, x, TRUE) = u
    BY <1>2, <1>4, <1>5 DEF GetNextSqrtPriceFromInput, GetNextSqrtPriceFromAmount0RoundingUp
  <2>2. u \in l .. u
    BY <1>2
  <2>3. n + x * u = n /\ n * u <= u * n
    BY <1>1, <1>2, <1>5, TimesNat
  <2>4. u = DivCeil(n * u, n)
    <3>1. PICK c \in Nat : c = DivCeil(nu, n) /\ nu <= c * n /\ \A k \in Nat : c <= k <=> nu <= k * n
      BY <1>1, <1>2, <1>3, <1>4, Ceilings
    <3>2. nu = u * n
      BY <1>1, <1>2, <1>3, TimesNat
    <3>3. c <= u
      BY <1>2, <3>1, <3>2
    <3>4. u <= c
      <4>1. u * n <= c * n /\ n \in Nat /\ u \in Int /\ c \in Int
        BY <1>1, <1>2, <3>1, <3>2
      <4> QED
        BY <1>4, <4>1, Cancels
    <3> QED
      BY <1>2, <1>3, <3>1, <3>3, <3>4
  <2> QED
    BY <1>1, <1>2, <2>1, <2>2, <2>3, <2>4
<1>6. CASE x # 0
  <2>1. PICK product \in Nat : product = m % Word /\ product < Word /\ product <= m
    <3>1. m \div Word \in Nat /\ m % Word \in 0 .. Word - 1 /\ m = (m \div Word) * Word + (m % Word)
      BY <1>1, <1>2, Quotients
    <3>2. (m \div Word) * Word \in Nat
      BY <1>2, <3>1, TimesNat
    <3> QED
      BY <1>1, <1>2, <3>1, <3>2
  <2>2. PICK next : next = Amount0Added(u, x, n, product)
    OBVIOUS
  <2>3. GetNextSqrtPriceFromInput(u, L, x, TRUE) = next
    BY <1>1, <1>2, <1>4, <1>6, <2>1, <2>2
       DEF GetNextSqrtPriceFromInput, GetNextSqrtPriceFromAmount0RoundingUp
  <2>4. CASE product \div x = u /\ (n + product) % Word >= n
    <3>1. product = m
      <4>1. (product \div x) * x <= product
        BY <1>6, <2>1, Floors
      <4>2. u * x = m
        BY <1>1, <1>2, TimesNat
      <4> QED
        BY <1>1, <2>1, <2>4, <4>1, <4>2
    <3>2. n + m < Word
      <4>1. SUFFICES ASSUME Word <= n + m PROVE FALSE
        BY <1>1, <1>2
      <4>2. PICK k \in Nat : n + m = Word + k /\ k < n /\ k < Word
        <5>1. (n + m) - Word \in Nat /\ n + m = Word + ((n + m) - Word) /\ (n + m) - Word < n
          BY <1>1, <1>2, <2>1, <3>1, <4>1
        <5> QED
          BY <1>2, <5>1
      <4>3. (n + m) % Word = k
        <5>1. n + m = 1 * Word + k /\ k \in 0 .. Word - 1 /\ n + m \in Nat /\ Word > 0
          BY <1>1, <1>2, <4>2
        <5> QED
          BY <5>1, <1>2, QuotientIs
      <4> QED
        BY <2>4, <3>1, <4>2, <4>3
    <3>3. PICK den \in Nat : den = n + m /\ den \in 1 .. Word - 1 /\ (n + product) % Word = den
      <4>1. n + m \in Nat /\ (n + m) % Word = n + m
        BY <1>1, <1>2, <3>2, SmallModulo
      <4>2. n + m \in 1 .. Word - 1
        BY <1>1, <1>2, <1>4, <3>2
      <4> QED
        BY <3>1, <4>1, <4>2
    <3>4. u * den = nu + mu /\ l * den = nl + ml
      BY <1>1, <1>2, <1>3, <3>3
    <3>5. PICK c \in Nat : c = DivCeil(nu, den) /\ c <= u /\ l < c
      <4>1. DivCeil(nu, den) \in Nat /\ (DivCeil(nu, den) <= u <=> nu <= u * den)
            /\ (l < DivCeil(nu, den) <=> l * den < nu)
        <5>1. den > 0
          BY <3>3
        <5> QED
          BY <1>2, <1>3, <5>1, Ceilings
      <4> QED
        BY <1>3, <3>4, <4>1
    <3>6. MulDivRoundingUp(n, u, den) = c
      <4>1. MulDivRoundingUp(n, u, den) =
              IF DivCeil(n * u, den) < Word THEN DivCeil(n * u, den) ELSE Err
        BY <1>1, <1>2, <3>3, MulDivRoundingUpIs
      <4>2. c < Word /\ DivCeil(n * u, den) = c
        BY <1>2, <1>3, <3>5
      <4> QED
        BY <4>1, <4>2
    <3>7. next = c
      BY <2>2, <2>4, <3>3, <3>6 DEF Amount0Added
    <3>8. c \in l .. u
      BY <1>2, <3>5
    <3>9. n * u <= c * (n + x * u)
      BY <1>1, <1>2, <1>3, <3>3, <3>5, Ceilings
    <3> QED
      BY <1>1, <1>3, <2>3, <3>3, <3>5, <3>7, <3>8, <3>9
  <2>5. CASE ~(product \div x = u /\ (n + product) % Word >= n)
    <3>1. PICK q \in Nat : q = n \div u /\ q * u <= n /\ n < q * u + u
      BY <1>2, Floors
    <3>2. PICK den \in Nat : den = q + x /\ den > 0
      BY <1>6, <3>1
    <3>3. next = DivCeil(n, den)
      BY <2>2, <2>5, <3>1, <3>2 DEF Amount0Added
    <3>4. n <= u * den
      <4>1. u * den = q * u + x * u
        BY <1>2, <3>1, <3>2
      <4>2. 1 * u <= x * u
        BY <1>2, <1>6, TimesMonotone
      <4> QED
        BY <1>1, <1>2, <3>1, <4>1, <4>2
    <3>5. l * den < n
      <4>1. SUFFICES ASSUME n <= l * den PROVE FALSE
        BY <1>2, <3>2, TimesNat
      <4>2. (l * den) * u = l * (q * u) + m * l
        BY <1>1, <1>2, <3>1, <3>2
      <4>3. l * (q * u) <= l * n /\ l * n = nl /\ l * (q * u) \in Nat
        <5>1. q * u \in Nat
          BY <1>2, <3>1, TimesNat
        <5> QED
          BY <1>2, <1>3, <3>1, <5>1, TimesMonotone, TimesNat
      <4>4. n * u <= (l * den) * u
        <5>1. l * den \in Nat
          BY <1>2, <3>2, TimesNat
        <5> QED
          BY <1>2, <4>1, <5>1, TimesMonotone
      <4> QED
        BY <1>3, <4>2, <4>3, <4>4
    <3>6. PICK c \in Nat : c = DivCeil(n, den) /\ c <= u /\ l < c
      <4>1. DivCeil(n, den) \in Nat /\ (DivCeil(n, den) <= u <=> n <= u * den)
            /\ (l < DivCeil(n, den) <=> l * den < n)
        BY <1>2, <3>2, Ceilings
      <4> QED
        BY <3>4, <3>5, <4>1
    <3>7. c \in l .. u
      BY <1>2, <3>6
    <3>8. n * u <= c * (n + x * u)
      <4>1. n <= c * den /\ c * den \in Nat
        BY <1>2, <3>2, <3>6, Ceilings, TimesNat
      <4>2. n * u <= (c * den) * u
        BY <1>2, <4>1, TimesMonotone
      <4>3. PICK qu \in Nat, xu \in Nat : qu = q * u /\ xu = x * u /\ qu <= n
        BY <1>2, <3>1, TimesNat
      <4>4. (c * den) * u = c * (qu + xu)
        BY <1>2, <3>2, <3>6, <4>3
      <4>5. c * (qu + xu) <= c * (n + xu) /\ c * (qu + xu) \in Nat /\ c * (n + xu) \in Nat
        <5>1. qu + xu \in Nat /\ n + xu \in Nat /\ qu + xu <= n + xu
          BY <1>2, <4>3
        <5> QED
          BY <3>6, <5>1, TimesMonotone, TimesNat
      <4> QED
        BY <1>2, <1>3, <4>2, <4>3, <4>4, <4>5
    <3>9. ~(n + m < Word)
      <4>1. SUFFICES ASSUME n + m < Word PROVE FALSE
        OBVIOUS
      <4>2. m < Word /\ m % Word = m /\ (n + m) % Word = n + m
        <5>1. n + m \in Nat /\ m < Word
          BY <1>1, <1>2, <4>1
        <5> QED
          BY <1>1, <1>2, <4>1, <5>1, SmallModulo
      <4>3. product = m /\ (n + product) % Word >= n
        BY <1>1, <1>2, <2>1, <4>2
      <4>4. m \div x = u
        <5>1. m = u * x + 0 /\ 0 \in 0 .. x - 1 /\ x > 0
          BY <1>1, <1>2, <1>6, TimesNat
        <5> QED
          BY <1>1, <1>2, <5>1, QuotientIs
      <4> QED
        BY <2>5, <4>3, <4>4
    <3> QED
      BY <1>1, <2>3, <3>3, <3>6, <3>7, <3>8, <3>9
  <2> QED
    BY <2>4, <2>5
<1> QED
  BY <1>5, <1>6
-----------------------------------------------------------------------------
(* compute_swap_step. *)

(* A price goes down for token0, up for token1; on its way to another.     *)
Heads(from, to, zeroForOne) == IF zeroForOne THEN to <= from ELSE from <= to
OnTheWay(p, from, to, zeroForOne) ==
    p \in Ratios /\ Heads(from, p, zeroForOne) /\ Heads(p, to, zeroForOne)

LEMMA Between ==
    ASSUME NEW from \in Ratios, NEW to \in Ratios, NEW p
    PROVE  /\ p \in to .. from => OnTheWay(p, from, to, TRUE)
           /\ p \in from .. to => OnTheWay(p, from, to, FALSE)
<1>1. from \in Nat /\ to \in Nat /\ from > 0 /\ to > 0 /\ 2 ^ RatioBits \in Nat
  BY RatiosAre, WidthsOfQuotes
<1>2. p \in to .. from \/ p \in from .. to => p \in Ratios
  BY <1>1 DEF Ratios
<1> QED
  BY <1>1, <1>2 DEF OnTheWay, Heads

LEMMA AmountInIs ==
    ASSUME NEW L \in 0..UMax, NEW from \in Ratios, NEW to \in Ratios, NEW zeroForOne \in BOOLEAN,
           Heads(from, to, zeroForOne)
    PROVE  \E all \in Nat :
             /\ AmountIn(from, to, L, zeroForOne) = all /\ all <= L * Q
             /\ \A x \in Nat : x < all =>
                  OnTheWay(GetNextSqrtPriceFromInput(from, L, x, zeroForOne), from, to, zeroForOne)
<1>1. from \in Nat /\ to \in Nat /\ from > 0 /\ to > 0 /\ 2 ^ RatioBits \in Nat
  BY RatiosAre, WidthsOfQuotes
<1>2. CASE zeroForOne
  <2>1. to <= from
    BY <1>2 DEF Heads
  <2>2. PICK n \in Nat : n = L * Q
    BY NumeratorIs
  <2>3. PICK c \in Nat : /\ c = DivCeil(DivCeil(n * (from - to), from), to) /\ c <= n
                         /\ \A x \in Nat : x < c => (x * to) * from < n * from - n * to
    BY <1>1, <2>1, LessThanPart
  <2>4. AmountIn(from, to, L, zeroForOne) = c
    <3>1. GetAmount0Delta(to, from, L, TRUE) = DivCeil(DivCeil((L * Q) * (from - to), from), to)
      BY <2>1, Amount0Is
    <3>2. c = DivCeil(DivCeil(n * (from - to), from), to)
      BY <2>3
    <3>3. GetAmount0Delta(to, from, L, TRUE) = c
      BY <2>2, <3>1, <3>2, Zenon
    <3> QED
      BY <1>2, <3>3, Zenon DEF AmountIn
  <2>5. ASSUME NEW x \in Nat, x < c
        PROVE  OnTheWay(GetNextSqrtPriceFromInput(from, L, x, zeroForOne), from, to, zeroForOne)
    <3>1. GetNextSqrtPriceFromInput(from, L, x, TRUE) \in to .. from
      <4>1. (x * to) * from < (L * Q) * from - (L * Q) * to
        BY <2>2, <2>3, <2>5
      <4>2. PICK p \in Nat : /\ p = GetNextSqrtPriceFromInput(from, L, x, TRUE) /\ p \in to .. from
                             /\ (L * Q) * from <= p * (L * Q + x * from)
        BY <2>1, <4>1, NextDownIn, ZenonT(40)
      <4> QED
        BY <4>2
    <3> QED
      BY <1>2, <3>1, Between, Zenon
  <2> QED
    BY <2>2, <2>3, <2>4, <2>5
<1>3. CASE ~zeroForOne
  <2>1. from <= to
    BY <1>3 DEF Heads
  <2>2. PICK p \in Nat, c \in Nat :
          /\ p = L * (to - from) /\ GetAmount1Delta(from, to, L, TRUE) = c /\ c <= L * Q
          /\ \A x \in Nat : x < c => x * Q < p
    BY <2>1, Amount1Is
  <2>3. AmountIn(from, to, L, zeroForOne) = c
    BY <1>3, <2>2 DEF AmountIn
  <2>4. ASSUME NEW x \in Nat, x < c
        PROVE  OnTheWay(GetNextSqrtPriceFromInput(from, L, x, zeroForOne), from, to, zeroForOne)
    <3>1. GetNextSqrtPriceFromInput(from, L, x, FALSE) \in from .. to
      BY <2>1, <2>2, <2>4, NextUpIn
    <3> QED
      BY <1>3, <3>1, Between, Zenon
  <2> QED
    BY <2>2, <2>3, <2>4
<1> QED
  BY <1>2, <1>3

LEMMA AmountOutIs ==
    ASSUME NEW L \in 0..UMax, NEW from \in Ratios, NEW to \in Ratios, NEW zeroForOne \in BOOLEAN,
           Heads(from, to, zeroForOne)
    PROVE  \E all \in Nat :
             /\ AmountOut(from, to, L, zeroForOne) = all /\ all <= L * Q
             /\ \A x \in Nat : x < all =>
                  OnTheWay(GetNextSqrtPriceFromOutput(from, L, x, zeroForOne), from, to, zeroForOne)
<1>1. from \in Nat /\ to \in Nat /\ from > 0 /\ to > 0 /\ 2 ^ RatioBits \in Nat
  BY RatiosAre, WidthsOfQuotes
<1>2. CASE zeroForOne
  <2>1. to <= from
    BY <1>2 DEF Heads
  <2>2. PICK p \in Nat, f \in Nat :
          /\ p = L * (from - to) /\ GetAmount1Delta(to, from, L, FALSE) = f /\ f <= L * Q
          /\ \A x \in Nat : x < f => x * Q <= p
    BY <2>1, Amount1Is
  <2>3. AmountOut(from, to, L, zeroForOne) = f
    BY <1>2, <2>2 DEF AmountOut
  <2>4. ASSUME NEW x \in Nat, x < f
        PROVE  OnTheWay(GetNextSqrtPriceFromOutput(from, L, x, zeroForOne), from, to, zeroForOne)
    <3>1. L > 0
      <4>1. L = 0 => L * Q = 0
        BY WidthsOfQuotes
      <4>2. PICK n \in Nat : n = L * Q /\ f <= n
        BY <2>2, NumeratorIs
      <4>3. n # 0
        BY <2>4, <4>2
      <4> QED
        BY <4>1, <4>2, <4>3, NumeratorIs
    <3>2. GetNextSqrtPriceFromOutput(from, L, x, TRUE) \in to .. from
      BY <2>1, <2>2, <2>4, <3>1, NextDownOut
    <3> QED
      BY <1>2, <3>2, Between, Zenon
  <2> QED
    BY <2>2, <2>3, <2>4
<1>3. CASE ~zeroForOne
  <2>1. from <= to
    BY <1>3 DEF Heads
  <2>2. PICK n \in Nat : n = L * Q
    BY NumeratorIs
  <2>3. PICK f \in Nat : /\ f = ((n * (to - from)) \div to) \div from /\ f <= n
                         /\ \A x \in Nat : x < f => (x * from) * to + from * to <= n * to - n * from
    BY <1>1, <2>1, LessThanPart
  <2>4. AmountOut(from, to, L, zeroForOne) = f
    <3>1. GetAmount0Delta(from, to, L, FALSE) = (((L * Q) * (to - from)) \div to) \div from
      BY <2>1, Amount0Is
    <3>2. f = ((n * (to - from)) \div to) \div from
      BY <2>3
    <3>3. GetAmount0Delta(from, to, L, FALSE) = f
      BY <2>2, <3>1, <3>2, Zenon
    <3> QED
      BY <1>3, <3>3, Zenon DEF AmountOut
  <2>5. ASSUME NEW x \in Nat, x < f
        PROVE  OnTheWay(GetNextSqrtPriceFromOutput(from, L, x, zeroForOne), from, to, zeroForOne)
    <3>1. GetNextSqrtPriceFromOutput(from, L, x, FALSE) \in from .. to
      <4>1. (x * from) * to + from * to <= (L * Q) * to - (L * Q) * from
        BY <2>2, <2>3, <2>5
      <4>2. PICK p \in Nat : /\ p = GetNextSqrtPriceFromOutput(from, L, x, FALSE) /\ p \in from .. to
                             /\ (L * Q) * from + (x * from) * p <= (L * Q) * p
        BY <2>1, <4>1, NextUpOut, ZenonT(40)
      <4> QED
        BY <4>2
    <3> QED
      BY <1>3, <3>1, Between, Zenon
  <2> QED
    BY <2>2, <2>3, <2>4, <2>5
<1> QED
  BY <1>2, <1>3

LEMMA FeeOfIs ==
    ASSUME NEW in \in Nat, in <= UMax * Q, NEW fee \in FeePips
    PROVE  FeeOf(in, fee) = DivCeil(in * fee, FeeUnit - fee) /\ FeeOf(in, fee) \in Nat
<1>1. PICK m \in Nat : m = UMax * Q /\ m < Word /\ in <= m
  BY WidthsOfQuotes
<1>2. PICK unit \in Nat : unit = FeeUnit /\ unit < Word /\ fee \in Nat /\ fee < unit
  BY WidthsOfQuotes, QuoteAssumption, MathAssumption
<1>4. Word \in Nat /\ Word >= 16
  BY WordIs
<1>3. PICK rest \in Nat : rest = unit - fee /\ rest > 0 /\ rest < Word
  <2>1. unit - fee \in Nat /\ unit - fee > 0 /\ unit - fee < Word
    BY <1>2, <1>4
  <2> QED
    BY <2>1
<1>5. m * fee <= (Word - 1) * rest
  BY <1>1, <1>2, <1>3, QuoteAssumption
<1>6. PICK p \in Nat : p = in * fee /\ p <= (Word - 1) * rest
  <2>1. in * fee <= m * fee /\ in * fee \in Nat /\ m * fee \in Nat
    BY <1>1, <1>2, TimesMonotone, TimesNat
  <2>2. (Word - 1) * rest \in Nat
    BY <1>3, <1>4, TimesNat
  <2> QED
    BY <1>5, <2>1, <2>2
<1>7. PICK c \in Nat : c = DivCeil(p, rest) /\ c < Word
  <2>1. Word - 1 \in Nat
    BY <1>4
  <2>2. DivCeil(p, rest) \in Nat /\ (DivCeil(p, rest) <= Word - 1 <=> p <= (Word - 1) * rest)
    BY <1>3, <2>1, Ceilings
  <2> QED
    BY <1>4, <1>6, <2>2
<1>8. MulDivRoundingUp(in, fee, rest) = c
  <2>1. in \in Words /\ fee \in Words /\ rest \in 1 .. Word - 1
    BY <1>1, <1>2, <1>3, <1>4 DEF Words
  <2>2. MulDivRoundingUp(in, fee, rest) = IF DivCeil(in * fee, rest) < Word THEN DivCeil(in * fee, rest) ELSE Err
    BY <2>1, MulDivRoundingUpIs
  <2> QED
    BY <1>6, <1>7, <2>2
<1> QED
  BY <1>2, <1>3, <1>6, <1>7, <1>8 DEF FeeOf

(* What is left less its fee; what takes no more costs, with its fee, no   *)
(* more than what is left.                                                 *)
LEMMA LessFeeIs ==
    ASSUME NEW left \in Words, NEW fee \in FeePips
    PROVE  \E net \in Nat :
             /\ MulDiv(left, FeeUnit - fee, FeeUnit) = net /\ net <= left
             /\ \A in \in Nat : in <= net => in + DivCeil(in * fee, FeeUnit - fee) <= left
<1>1. PICK unit \in Nat : unit = FeeUnit /\ unit \in 1 .. Word - 1 /\ fee \in Nat /\ fee < unit
  BY WidthsOfQuotes, QuoteAssumption, MathAssumption
<1>2. Word \in Nat /\ Word >= 16 /\ left \in Nat /\ left < Word
  BY WordIs DEF Words
<1>3. PICK rest \in Nat : rest = unit - fee /\ rest > 0 /\ rest <= unit /\ rest \in Words
  BY <1>1, <1>2 DEF Words
<1>4. PICK p \in Nat : p = left * rest
  BY <1>2, <1>3, TimesNat
<1>5. PICK net \in Nat : net = p \div unit /\ net * unit <= p
  BY <1>1, <1>4, Floors
<1>6. net <= left
  <2>1. left * rest <= left * unit /\ net * unit \in Nat /\ left * unit \in Nat
    BY <1>1, <1>2, <1>3, <1>5, TimesMonotone, TimesNat
  <2>2. net * unit <= left * unit
    BY <1>4, <1>5, <2>1
  <2> QED
    BY <1>1, <1>2, <2>2, Cancels
<1>7. MulDiv(left, rest, unit) = net
  <2>1. MulDiv(left, rest, unit) = IF (left * rest) \div unit < Word THEN (left * rest) \div unit ELSE Err
    BY <1>1, <1>3, MulDivExact
  <2>2. net < Word
    BY <1>2, <1>6
  <2> QED
    BY <1>4, <1>5, <2>1, <2>2
<1>8. ASSUME NEW in \in Nat, in <= net PROVE in + DivCeil(in * fee, rest) <= left
  <2>1. in * unit <= net * unit /\ in * unit \in Nat /\ in * fee \in Nat /\ in * rest \in Nat
        /\ net * unit \in Nat
    BY <1>1, <1>3, <1>8, TimesMonotone, TimesNat
  <2>2. in * unit <= left * rest
    BY <1>4, <1>5, <2>1
  <2>3. PICK more \in Nat : more = left - in
    BY <1>2, <1>6, <1>8
  <2>4. more * rest = left * rest - in * rest /\ left * rest \in Nat
    BY <1>2, <1>3, <2>3, TimesNat
  <2>5. in * unit = in * rest + in * fee
    BY <1>1, <1>3
  <2>6. in * fee <= more * rest
    BY <2>1, <2>2, <2>4, <2>5
  <2>7. PICK q \in Nat : q = in * fee
    BY <2>1
  <2>8. DivCeil(q, rest) \in Nat /\ (DivCeil(q, rest) <= more <=> q <= more * rest)
    BY <1>3, Ceilings
  <2> QED
    BY <1>2, <2>3, <2>6, <2>7, <2>8
<1> QED
  BY <1>1, <1>3, <1>5, <1>6, <1>7, <1>8

(* A step ends at its target or has used up what was left, and a step      *)
(* without liquidity ends at its target.                                   *)
StepSound(s, from, to, L, left) ==
    /\ OnTheWay(s.price, from, to, from >= to) /\ {s.in, s.out, s.fee} \subseteq Nat
    /\ left > 0 => s.in + s.fee <= left /\ (s.price = to \/ s.in + s.fee = left)
    /\ left < 0 => s.out <= -left /\ (s.price = to \/ s.out = -left)
    /\ L = 0 => s.price = to

LEMMA Direction ==
    ASSUME NEW from \in Ratios, NEW to \in Ratios
    PROVE  \E zeroForOne \in BOOLEAN :
             zeroForOne = (from >= to) /\ Heads(from, to, zeroForOne)
<1>1. from \in Nat /\ to \in Nat
  BY RatiosAre
<1>2. CASE from >= to
  <2>1. TRUE = (from >= to)
    BY <1>2, Zenon
  <2>2. Heads(from, to, TRUE)
    BY <1>1, <1>2 DEF Heads
  <2> QED
    BY <2>1, <2>2, Zenon
<1>3. CASE ~(from >= to)
  <2>1. FALSE = (from >= to)
    BY <1>3, SMT
  <2>2. Heads(from, to, FALSE)
    BY <1>1, <1>3 DEF Heads
  <2> QED
    BY <2>1, <2>2, Zenon
<1> QED
  BY <1>2, <1>3

LEMMA StepInIs ==
    ASSUME NEW L \in 0..UMax, NEW from \in Ratios, NEW to \in Ratios, NEW fee \in FeePips,
           NEW left \in 1 .. Word - 1
    PROVE  StepSound(StepExactIn(from, to, L, left, fee), from, to, L, left)
<1>1. PICK zeroForOne \in BOOLEAN : zeroForOne = (from >= to) /\ Heads(from, to, zeroForOne)
  BY Direction
<1>2. Heads(from, to, zeroForOne) /\ from \in Nat /\ to \in Nat
  BY <1>1, RatiosAre
<1>3. left \in Nat /\ left > 0 /\ left \in Words
  BY WordIs DEF Words
<1>4. PICK net \in Nat :
        /\ MulDiv(left, FeeUnit - fee, FeeUnit) = net /\ net <= left
        /\ \A in \in Nat : in <= net => in + DivCeil(in * fee, FeeUnit - fee) <= left
  BY <1>3, LessFeeIs
<1>5. PICK all \in Nat :
        /\ AmountIn(from, to, L, zeroForOne) = all /\ all <= L * Q
        /\ \A x \in Nat : x < all =>
             OnTheWay(GetNextSqrtPriceFromInput(from, L, x, zeroForOne), from, to, zeroForOne)
  BY <1>2, AmountInIs
<1>6. StepExactIn(from, to, L, left, fee) =
        IF net >= all
        THEN Step(to, all, AmountOut(from, to, L, zeroForOne), FeeOf(all, fee))
        ELSE Step(GetNextSqrtPriceFromInput(from, L, net, zeroForOne), net,
                  AmountOut(from, GetNextSqrtPriceFromInput(from, L, net, zeroForOne), L, zeroForOne),
                  left - net)
  BY <1>1, <1>4, <1>5, Zenon DEF StepExactIn
<1>7. CASE net >= all
  <2>1. PICK out \in Nat : out = AmountOut(from, to, L, zeroForOne)
    BY <1>2, AmountOutIs
  <2>2. PICK charge \in Nat : charge = FeeOf(all, fee) /\ charge = DivCeil(all * fee, FeeUnit - fee)
    <3>1. all <= UMax * Q
      BY <1>5, NumeratorIs, WidthsOfQuotes
    <3> QED
      BY <3>1, FeeOfIs
  <2>3. all + charge <= left
    BY <1>4, <1>7, <2>2
  <2>4. StepExactIn(from, to, L, left, fee) = [price |-> to, in |-> all, out |-> out, fee |-> charge]
    BY <1>6, <1>7, <2>1, <2>2 DEF Step
  <2>5. OnTheWay(to, from, to, from >= to)
    BY <1>2 DEF OnTheWay, Heads
  <2> QED
    BY <1>3, <2>3, <2>4, <2>5 DEF StepSound
<1>8. CASE ~(net >= all)
  <2>1. net < all
    BY <1>8
  <2>2. PICK next : /\ next = GetNextSqrtPriceFromInput(from, L, net, zeroForOne)
                    /\ OnTheWay(next, from, to, zeroForOne)
    BY <1>5, <2>1
  <2>3. PICK out \in Nat : out = AmountOut(from, next, L, zeroForOne)
    BY <2>2, AmountOutIs DEF OnTheWay
  <2>4. StepExactIn(from, to, L, left, fee) = [price |-> next, in |-> net, out |-> out, fee |-> left - net]
    BY <1>6, <1>8, <2>2, <2>3 DEF Step
  <2>5. OnTheWay(next, from, to, from >= to)
    BY <1>1, <2>2, Zenon
  <2>6. left - net \in Nat /\ net + (left - net) = left
    BY <1>3, <1>4
  <2>7. L # 0
    <3>1. L = 0 => L * Q = 0
      BY WidthsOfQuotes
    <3> QED
      BY <1>5, <2>1, <3>1
  <2> QED
    BY <1>3, <2>4, <2>5, <2>6, <2>7 DEF StepSound
<1> QED
  BY <1>7, <1>8

LEMMA StepOutIs ==
    ASSUME NEW L \in 0..UMax, NEW from \in Ratios, NEW to \in Ratios, NEW fee \in FeePips,
           NEW left \in 1 - Word .. -1
    PROVE  StepSound(StepExactOut(from, to, L, -left, fee), from, to, L, left)
<1>1. PICK zeroForOne \in BOOLEAN : zeroForOne = (from >= to) /\ Heads(from, to, zeroForOne)
  BY Direction
<1>2. Heads(from, to, zeroForOne) /\ from \in Nat /\ to \in Nat
  BY <1>1, RatiosAre
<1>3. PICK m \in Nat : m = -left /\ left < 0 /\ left \in Int
  <2>1. -left \in Nat /\ left < 0 /\ left \in Int
    BY WordIs
  <2> QED
    BY <2>1
<1>4. PICK all \in Nat :
        /\ AmountOut(from, to, L, zeroForOne) = all /\ all <= L * Q
        /\ \A x \in Nat : x < all =>
             OnTheWay(GetNextSqrtPriceFromOutput(from, L, x, zeroForOne), from, to, zeroForOne)
  BY <1>2, AmountOutIs
<1>5. ASSUME NEW next, OnTheWay(next, from, to, zeroForOne)
      PROVE  \E in \in Nat, charge \in Nat :
               in = AmountIn(from, next, L, zeroForOne) /\ charge = FeeOf(in, fee)
  <2>1. PICK in \in Nat : in = AmountIn(from, next, L, zeroForOne) /\ in <= L * Q
    BY <1>5, AmountInIs DEF OnTheWay
  <2>2. in <= UMax * Q
    BY <2>1, NumeratorIs, WidthsOfQuotes
  <2> QED
    BY <2>1, <2>2, FeeOfIs
<1>6. StepExactOut(from, to, L, m, fee) =
        IF m >= all
        THEN Step(to, AmountIn(from, to, L, zeroForOne), all,
                  FeeOf(AmountIn(from, to, L, zeroForOne), fee))
        ELSE Step(GetNextSqrtPriceFromOutput(from, L, m, zeroForOne),
                  AmountIn(from, GetNextSqrtPriceFromOutput(from, L, m, zeroForOne), L, zeroForOne), m,
                  FeeOf(AmountIn(from, GetNextSqrtPriceFromOutput(from, L, m, zeroForOne), L, zeroForOne),
                        fee))
  BY <1>1, <1>4, Zenon DEF StepExactOut
<1>7. CASE m >= all
  <2>1. OnTheWay(to, from, to, zeroForOne)
    BY <1>2 DEF OnTheWay, Heads
  <2>2. PICK in \in Nat, charge \in Nat :
          in = AmountIn(from, to, L, zeroForOne) /\ charge = FeeOf(in, fee)
    BY <1>5, <2>1
  <2>3. StepExactOut(from, to, L, m, fee) = [price |-> to, in |-> in, out |-> all, fee |-> charge]
    BY <1>6, <1>7, <2>2 DEF Step
  <2>4. OnTheWay(to, from, to, from >= to)
    BY <1>1, <2>1, Zenon
  <2> QED
    BY <1>3, <1>7, <2>3, <2>4 DEF StepSound
<1>8. CASE ~(m >= all)
  <2>1. m < all
    BY <1>8
  <2>2. PICK next : /\ next = GetNextSqrtPriceFromOutput(from, L, m, zeroForOne)
                    /\ OnTheWay(next, from, to, zeroForOne)
    BY <1>4, <2>1
  <2>3. PICK in \in Nat, charge \in Nat :
          in = AmountIn(from, next, L, zeroForOne) /\ charge = FeeOf(in, fee)
    BY <1>5, <2>2
  <2>4. StepExactOut(from, to, L, m, fee) = [price |-> next, in |-> in, out |-> m, fee |-> charge]
    BY <1>6, <1>8, <2>2, <2>3 DEF Step
  <2>5. OnTheWay(next, from, to, from >= to)
    BY <1>1, <2>2, Zenon
  <2>6. L # 0
    <3>1. L = 0 => L * Q = 0
      BY WidthsOfQuotes
    <3> QED
      BY <1>4, <2>1, <3>1
  <2> QED
    BY <1>3, <2>4, <2>5, <2>6 DEF StepSound
<1> QED
  BY <1>3, <1>7, <1>8

(* compute_swap_step for every liquidity, fee and amount, in both          *)
(* directions: it is no Err, does not pass its target, takes with its fee  *)
(* no more than is left, gives no more than is asked for, and stops short  *)
(* of the target only with all of it taken or given.                       *)
THEOREM SwapStepSound ==
    ASSUME NEW L \in 0..UMax, NEW from \in Ratios, NEW to \in Ratios, NEW fee \in FeePips,
           NEW left \in 1 - Word .. Word - 1, left # 0
    PROVE  StepSound(ComputeSwapStep(from, to, L, left, fee), from, to, L, left)
<1>1. Word \in Nat
  BY WordIs
<1>2. CASE left > 0
  <2>1. left >= 0 /\ left \in 1 .. Word - 1
    BY <1>1, <1>2
  <2> QED
    BY <2>1, StepInIs DEF ComputeSwapStep
<1>3. CASE left < 0
  <2>1. ~(left >= 0) /\ left \in 1 - Word .. -1
    BY <1>1, <1>3
  <2> QED
    BY <2>1, StepOutIs DEF ComputeSwapStep
<1> QED
  BY <1>1, <1>2, <1>3
-----------------------------------------------------------------------------
(* Ticks and their prices. *)

LEMMA TicksAre == MinTick \in Int /\ MaxTick \in Int /\ MinTick < MaxTick /\ Ticks = MinTick .. MaxTick
BY MathAssumption DEF Ticks

LEMMA MinIs ==
    ASSUME NEW S \in SUBSET Ticks, S # {}
    PROVE  Min(S) \in S /\ \A t \in S : Min(S) <= t
<1> DEFINE up(t) == t - MinTick
           T == {up(t) : t \in S}
<1>1. \A t \in S : t \in Int /\ up(t) \in Nat
  BY TicksAre
<1>2. PICK n \in T : \A k \in T : ~(k < n)
  <2>1. T \in SUBSET Nat /\ T # {}
    BY <1>1
  <2> HIDE DEF T
  <2> QED
    BY <2>1, SmallestNumber
<1>3. PICK t \in S : n = up(t)
  OBVIOUS
<1>4. \A u \in S : t <= u
  <2>1. ASSUME NEW u \in S PROVE ~(up(u) < up(t))
    BY <1>2, <1>3
  <2> QED
    BY <1>1, <2>1, TicksAre
<1>5. \E x \in S : \A y \in S : x <= y
  BY <1>4
<1> QED
  BY <1>5 DEF Min

LEMMA MaxIs ==
    ASSUME NEW S \in SUBSET Ticks, S # {}
    PROVE  Max(S) \in S /\ \A t \in S : t <= Max(S)
<1> DEFINE down(t) == MaxTick - t
           T == {down(t) : t \in S}
<1>1. \A t \in S : t \in Int /\ down(t) \in Nat
  BY TicksAre
<1>2. PICK n \in T : \A k \in T : ~(k < n)
  <2>1. T \in SUBSET Nat /\ T # {}
    BY <1>1
  <2> HIDE DEF T
  <2> QED
    BY <2>1, SmallestNumber
<1>3. PICK t \in S : n = down(t)
  OBVIOUS
<1>4. \A u \in S : u <= t
  <2>1. ASSUME NEW u \in S PROVE ~(down(u) < down(t))
    BY <1>2, <1>3
  <2> QED
    BY <1>1, <2>1, TicksAre
<1>5. \E x \in S : \A y \in S : y <= x
  BY <1>4
<1> QED
  BY <1>5 DEF Max

LEMMA PricesAre ==
    ASSUME NEW t \in Ticks PROVE PriceAt(t) \in Ratios /\ PriceAt(t) \in Nat /\ PriceAt(t) > 0
<1>1. PriceAt(t) \in Ratios
  BY TickMathAssumption DEF PriceAt, Ratios
<1> QED
  BY <1>1, RatiosAre

LEMMA PricesRise ==
    ASSUME NEW s \in Ticks, NEW t \in Ticks, s < t PROVE PriceAt(s) < PriceAt(t)
<1> DEFINE wrong == {n \in Nat : s + n \in Ticks /\ n > 0 /\ ~(PriceAt(s) < PriceAt(s + n))}
<1>1. SUFFICES ASSUME wrong # {} PROVE FALSE
  <2>1. t - s \in Nat /\ s + (t - s) = t /\ t - s > 0
    BY TicksAre
  <2> QED
    BY <2>1
<1>2. PICK n \in wrong : \A k \in wrong : ~(k < n)
  <2>1. wrong \in SUBSET Nat
    OBVIOUS
  <2> HIDE DEF wrong
  <2> QED
    BY <1>1, <2>1, SmallestNumber
<1>3. n \in Nat /\ n > 0 /\ s + n \in Ticks /\ ~(PriceAt(s) < PriceAt(s + n))
  BY <1>2
<1>4. PICK u : u = s + (n - 1) /\ u \in MinTick .. MaxTick - 1 /\ u \in Ticks /\ u + 1 = s + n
  BY <1>3, TicksAre
<1>5. PriceAt(u) < PriceAt(s + n)
  BY <1>4, TickMathAssumption
<1>6. PriceAt(u) \in Nat /\ PriceAt(s) \in Nat /\ PriceAt(s + n) \in Nat
  BY <1>3, <1>4, PricesAre
<1>7. CASE n = 1
  BY <1>3, <1>4, <1>5, <1>7, TicksAre
<1>8. CASE n # 1
  <2>1. n - 1 \in Nat /\ n - 1 > 0 /\ n - 1 < n /\ s + (n - 1) \in Ticks
    BY <1>3, <1>4, <1>8
  <2>2. n - 1 \notin wrong
    BY <1>2, <2>1
  <2>3. PriceAt(s) < PriceAt(u)
    BY <1>4, <2>1, <2>2
  <2> QED
    BY <1>3, <1>5, <1>6, <2>3
<1> QED
  BY <1>7, <1>8

(* The order of ticks is that of their prices.                             *)
LEMMA PricesOrder ==
    ASSUME NEW s \in Ticks, NEW t \in Ticks
    PROVE  (s <= t <=> PriceAt(s) <= PriceAt(t)) /\ (s < t <=> PriceAt(s) < PriceAt(t))
<1>1. s \in Int /\ t \in Int /\ PriceAt(s) \in Nat /\ PriceAt(t) \in Nat
  BY TicksAre, PricesAre
<1>2. s < t => PriceAt(s) < PriceAt(t)
  BY PricesRise
<1>3. t < s => PriceAt(t) < PriceAt(s)
  BY PricesRise
<1>4. s = t => PriceAt(s) = PriceAt(t)
  OBVIOUS
<1> QED
  BY <1>1, <1>2, <1>3, <1>4

LEMMA TickOfIs ==
    ASSUME NEW p \in Nat, PriceAt(MinTick) <= p, p < PriceAt(MaxTick)
    PROVE  /\ TickOf(p) \in Ticks /\ TickOf(p) < MaxTick
           /\ PriceAt(TickOf(p)) <= p /\ p < PriceAt(TickOf(p) + 1)
<1> DEFINE S == {t \in Ticks : PriceAt(t) <= p}
<1>1. MinTick \in S /\ MinTick \in Ticks /\ MaxTick \in Ticks
  BY TicksAre
<1>2. PICK m \in S : m = Max(S) /\ \A t \in S : t <= m
  <2>1. S \in SUBSET Ticks /\ S # {}
    BY <1>1
  <2> HIDE DEF S
  <2> QED
    BY <2>1, MaxIs
<1>3. m = TickOf(p)
  BY <1>2 DEF TickOf
<1>4. m \in Ticks /\ PriceAt(m) <= p /\ PriceAt(m) \in Nat /\ PriceAt(MaxTick) \in Nat
  BY <1>1, <1>2, PricesAre
<1>5. m < MaxTick
  <2>1. m # MaxTick
    BY <1>4
  <2> QED
    BY <1>4, <2>1, TicksAre
<1>6. m + 1 \in Ticks /\ ~(m + 1 <= m)
  BY <1>4, <1>5, TicksAre
<1>7. m + 1 \notin S
  BY <1>2, <1>6
<1>8. PriceAt(m + 1) \in Nat /\ ~(PriceAt(m + 1) <= p)
  BY <1>6, <1>7, PricesAre
<1> QED
  BY <1>3, <1>4, <1>5, <1>8
-----------------------------------------------------------------------------
(* Liquidity along the ticks. *)

LEMMA ActiveNext ==
    ASSUME NEW p \in [Ranges -> Nat], NEW t \in Int
    PROVE  ActiveIn(p, t) = ActiveIn(p, t - 1) + NetIn(p, t)
<1>1. \A r \in Ranges : r[1] \in Int /\ r[2] \in Int /\ r[1] < r[2]
  BY RangesFinite, TicksAre
<1>2. /\ Covering(t) \cup Ending(t) = Covering(t - 1) \cup Starting(t)
      /\ Covering(t) \cap Ending(t) = {} /\ Covering(t - 1) \cap Starting(t) = {}
  BY <1>1 DEF Covering, Ending, Starting, Over
<1>3. PICK a, b, c, d : a = Covering(t) /\ b = Ending(t) /\ c = Covering(t - 1) /\ d = Starting(t)
  OBVIOUS
<1>4. /\ IsFiniteSet(a) /\ IsFiniteSet(b) /\ IsFiniteSet(c) /\ IsFiniteSet(d)
      /\ \A r \in a \cup b : p[r] \in Nat
      /\ \A r \in c \cup d : p[r] \in Nat
  BY <1>3, Sides
<1>5. SumOf(p, a \cup b) = SumOf(p, a) + SumOf(p, b)
  BY <1>2, <1>3, <1>4, SumUnion
<1>6. SumOf(p, c \cup d) = SumOf(p, c) + SumOf(p, d)
  BY <1>2, <1>3, <1>4, SumUnion
<1>7. SumOf(p, a) \in Nat /\ SumOf(p, b) \in Nat /\ SumOf(p, c) \in Nat /\ SumOf(p, d) \in Nat
  BY <1>3, TermsNat DEF ActiveIn
<1>8. SumOf(p, a) + SumOf(p, b) = SumOf(p, c) + SumOf(p, d)
  BY <1>2, <1>3, <1>5, <1>6
<1>9. ActiveIn(p, t) = SumOf(p, a) /\ ActiveIn(p, t - 1) = SumOf(p, c)
      /\ NetIn(p, t) = SumOf(p, d) - SumOf(p, b)
  BY <1>3 DEF ActiveIn, NetIn
<1> QED
  BY <1>7, <1>8, <1>9

LEMMA ActiveSame ==
    ASSUME NEW p \in [Ranges -> Nat], NEW s \in Int, NEW t \in Int, s <= t,
           \A u \in s + 1 .. t : GrossIn(p, u) = 0
    PROVE  ActiveIn(p, t) = ActiveIn(p, s)
<1> DEFINE wrong == {n \in Nat : s + n <= t /\ ActiveIn(p, s + n) # ActiveIn(p, s)}
<1>1. SUFFICES ASSUME wrong # {} PROVE FALSE
  <2>1. t - s \in Nat /\ s + (t - s) = t
    OBVIOUS
  <2> QED
    BY <2>1
<1>2. PICK n \in wrong : \A k \in wrong : ~(k < n)
  <2>1. wrong \in SUBSET Nat
    OBVIOUS
  <2> HIDE DEF wrong
  <2> QED
    BY <1>1, <2>1, SmallestNumber
<1>3. n \in Nat /\ s + n <= t /\ ActiveIn(p, s + n) # ActiveIn(p, s)
  BY <1>2
<1>4. n # 0
  BY <1>3
<1>5. PICK u \in Int : u = s + n /\ u - 1 = s + (n - 1) /\ u \in s + 1 .. t
  <2>1. s + n \in Int /\ (s + n) - 1 = s + (n - 1) /\ s + n \in s + 1 .. t
    BY <1>3, <1>4
  <2> QED
    BY <2>1
<1>6. ActiveIn(p, u - 1) = ActiveIn(p, s)
  <2>1. n - 1 \in Nat /\ s + (n - 1) <= t /\ n - 1 < n
    BY <1>3, <1>4
  <2>2. n - 1 \notin wrong
    BY <1>2, <2>1
  <2> QED
    BY <1>5, <2>1, <2>2
<1>7. NetIn(p, u) = 0
  <2>1. GrossIn(p, u) = 0
    BY <1>5
  <2> QED
    BY <2>1, TermsNat
<1>8. ActiveIn(p, u) = ActiveIn(p, u - 1)
  BY <1>7, ActiveNext, TermsNat
<1> QED
  BY <1>3, <1>5, <1>6, <1>8

(* Beyond the last initialized tick on either side there is nothing.       *)
LEMMA ActiveNone ==
    ASSUME NEW p \in [Ranges -> Nat], NEW t \in Ticks,
           (\A u \in Ticks : u <= t => GrossIn(p, u) = 0) \/ (\A u \in Ticks : u > t => GrossIn(p, u) = 0)
    PROVE  ActiveIn(p, t) = 0
<1>1. ASSUME NEW r \in Covering(t) PROVE p[r] = 0
  <2>1. r \in Ranges /\ r[1] \in Ticks /\ r[2] \in Ticks /\ r[1] <= t /\ r[2] > t
    BY RangesFinite, TicksAre DEF Covering, Over
  <2>2. PICK u \in Ticks : u \in {r[1], r[2]} /\ GrossIn(p, u) = 0
    BY <2>1
  <2>3. p[r] <= GrossIn(p, u) /\ p[r] \in Nat
    BY <2>1, <2>2, PositionCounted
  <2> QED
    BY <2>2, <2>3
<1> QED
  BY <1>1, Sides, SumZero DEF ActiveIn
-----------------------------------------------------------------------------
(* The next initialized tick of a pool that is where the chain is.         *)

AtHead == pool = FetchedIn(Now) /\ Allowed(positions)

LEMMA AheadIs ==
    ASSUME AtHead, NEW t
    PROVE  /\ Ahead(t, TRUE) \subseteq Ticks /\ Ahead(t, FALSE) \subseteq Ticks
           /\ \A u \in Ticks : u \in Ahead(t, TRUE) <=> GrossIn(positions, u) > 0 /\ u <= t
           /\ \A u \in Ticks : u \in Ahead(t, FALSE) <=> GrossIn(positions, u) > 0 /\ u > t
           /\ \A u \in Ahead(t, TRUE) \cup Ahead(t, FALSE) : pool.ticks[u].net = NetIn(positions, u)
<1>1. pool.ticks = TableIn(positions)
  BY DEF AtHead, FetchedIn, Now
<1>2. DOMAIN pool.ticks = {u \in Ticks : GrossIn(positions, u) > 0}
  BY <1>1 DEF TableIn, TableOf, GrossesOf
<1>3. \A u \in DOMAIN pool.ticks : pool.ticks[u].net = NetIn(positions, u)
  BY <1>1, <1>2 DEF TableIn, TableOf, GrossesOf, NetsOf
<1>4. Ahead(t, TRUE) = {u \in DOMAIN pool.ticks : u <= t}
      /\ Ahead(t, FALSE) = {u \in DOMAIN pool.ticks : u > t}
  BY DEF Ahead
<1> QED
  BY <1>2, <1>3, <1>4

LEMMA TicksBetween ==
    ASSUME NEW s \in Ticks, NEW t \in Ticks, NEW u \in Int, s <= u, u <= t PROVE u \in Ticks
<1>1. s \in Int /\ t \in Int /\ MinTick <= s /\ t <= MaxTick /\ MinTick \in Int /\ MaxTick \in Int
  BY TicksAre
<1> QED
  BY <1>1, TicksAre

LEMMA NextDown ==
    ASSUME AtHead, NEW s, s.down = TRUE, s.tick \in Ticks, s.liquidity = ActiveIn(positions, s.tick)
    PROVE  \E next \in Ticks :
             /\ next = NextTick(s.tick, TRUE) /\ next <= s.tick
             /\ \A u \in Int : next < u /\ u <= s.tick => GrossIn(positions, u) = 0
             /\ Crossed(s, next) = ActiveIn(positions, next - 1)
<1>1. positions \in [Ranges -> Nat] /\ \A u \in Int : GrossIn(positions, u) \in Nat
  BY TermsNat DEF AtHead, Allowed
<1>2. PICK t \in Int : t = s.tick /\ t \in Ticks /\ s.liquidity = ActiveIn(positions, t)
  BY TicksAre
<1>3. PICK A \in SUBSET Ticks :
        /\ A = Ahead(t, TRUE) /\ \A u \in Ticks : u \in Int /\ (u \in A <=> GrossIn(positions, u) > 0 /\ u <= t)
        /\ \A u \in A : pool.ticks[u].net = NetIn(positions, u)
  <2>1. \A u \in Ticks : u \in Int
    BY TicksAre
  <2> QED
    BY <2>1, AheadIs, Zenon
<1>4. CASE A = {}
  <2>1. NextTick(s.tick, TRUE) = t
    BY <1>2, <1>3, <1>4 DEF NextTick
  <2>2. \A u \in Ticks : u <= t => GrossIn(positions, u) = 0
    <3>1. ASSUME NEW u \in Ticks, u <= t PROVE GrossIn(positions, u) = 0
      <4>1. ~(GrossIn(positions, u) > 0) /\ u \in Int
        BY <1>3, <1>4, <3>1
      <4> QED
        BY <1>1, <4>1
    <3> QED
      BY <3>1
  <2>3. ActiveIn(positions, t) = 0
    BY <1>1, <1>2, <2>2, ActiveNone
  <2>4. GrossIn(positions, t) = 0 /\ NetIn(positions, t) = 0
    BY <1>1, <1>2, <2>2, TermsNat
  <2>5. ActiveIn(positions, t - 1) = 0
    BY <1>1, <1>2, <2>3, <2>4, ActiveNext, TermsNat
  <2>6. Crossed(s, t) = 0
    BY <1>2, <1>3, <1>4, <2>3 DEF Crossed
  <2>7. Crossed(s, t) = ActiveIn(positions, t - 1)
    BY <2>5, <2>6
  <2>8. t <= t /\ \A u \in Int : ~(t < u /\ u <= t)
    OBVIOUS
  <2> QED
    BY <1>2, <2>1, <2>7, <2>8, Zenon
<1>5. CASE A # {}
  <2>1. NextTick(s.tick, TRUE) = Max(A)
    BY <1>2, <1>3, <1>5 DEF NextTick
  <2>2. PICK next \in Int : next = Max(A) /\ next \in A /\ next \in Ticks /\ \A u \in A : u <= next
    BY <1>3, <1>5, MaxIs
  <2>3. next <= t
    BY <1>3, <2>2
  <2>4. ASSUME NEW u \in Int, next < u, u <= t PROVE GrossIn(positions, u) = 0
    <3>1. u \in Ticks
      <4>1. next <= u
        BY <2>4
      <4> QED
        BY <1>2, <2>2, <2>4, <4>1, TicksBetween
    <3>2. u \notin A
      BY <2>2, <2>4
    <3>3. ~(GrossIn(positions, u) > 0)
      BY <1>3, <2>4, <3>1, <3>2
    <3> QED
      BY <1>1, <3>3
  <2>5. ActiveIn(positions, t) = ActiveIn(positions, next)
    <3>1. \A u \in next + 1 .. t : GrossIn(positions, u) = 0
      BY <2>4
    <3> QED
      BY <1>1, <2>3, <3>1, ActiveSame
  <2>6. PICK n \in Int, a \in Nat, b \in Nat :
          /\ n = NetIn(positions, next) /\ a = ActiveIn(positions, next) /\ b = ActiveIn(positions, next - 1)
          /\ a = b + n
    <3>1. /\ NetIn(positions, next) \in Int /\ ActiveIn(positions, next) \in Nat
          /\ ActiveIn(positions, next - 1) \in Nat
      BY <1>1, TermsNat
    <3>2. ActiveIn(positions, next) = ActiveIn(positions, next - 1) + NetIn(positions, next)
      BY <1>1, ActiveNext
    <3> QED
      BY <3>1, <3>2
  <2>7. Crossed(s, next) = a + (-1) * n
    BY <1>2, <1>3, <1>5, <2>2, <2>5, <2>6 DEF Crossed
  <2>8. a + (-1) * n = b
    BY <2>6
  <2>9. Crossed(s, next) = ActiveIn(positions, next - 1)
    BY <2>6, <2>7, <2>8
  <2>10. \A u \in Int : next < u /\ u <= t => GrossIn(positions, u) = 0
    BY <2>4
  <2> QED
    BY <1>2, <2>1, <2>2, <2>3, <2>9, <2>10
<1> QED
  BY <1>4, <1>5

LEMMA NextUp ==
    ASSUME AtHead, NEW s, s.down = FALSE, s.tick \in Ticks, s.liquidity = ActiveIn(positions, s.tick)
    PROVE  \E next \in Ticks :
             /\ next = NextTick(s.tick, FALSE)
             /\ \/ /\ next > s.tick
                   /\ \A u \in Int : s.tick < u /\ u < next => GrossIn(positions, u) = 0
                   /\ Crossed(s, next) = ActiveIn(positions, next)
                \/ next = s.tick /\ s.liquidity = 0 /\ Crossed(s, next) = 0
<1>1. positions \in [Ranges -> Nat] /\ \A u \in Int : GrossIn(positions, u) \in Nat
  BY TermsNat DEF AtHead, Allowed
<1>2. PICK t \in Int : t = s.tick /\ t \in Ticks /\ s.liquidity = ActiveIn(positions, t)
  BY TicksAre
<1>3. PICK A \in SUBSET Ticks :
        /\ A = Ahead(t, FALSE) /\ \A u \in Ticks : u \in Int /\ (u \in A <=> GrossIn(positions, u) > 0 /\ u > t)
        /\ \A u \in A : pool.ticks[u].net = NetIn(positions, u)
  <2>1. \A u \in Ticks : u \in Int
    BY TicksAre
  <2> QED
    BY <2>1, AheadIs, Zenon
<1>4. CASE A = {}
  <2>1. NextTick(s.tick, FALSE) = t
    BY <1>2, <1>3, <1>4 DEF NextTick
  <2>2. \A u \in Ticks : u > t => GrossIn(positions, u) = 0
    <3>1. ASSUME NEW u \in Ticks, u > t PROVE GrossIn(positions, u) = 0
      <4>1. ~(GrossIn(positions, u) > 0) /\ u \in Int
        BY <1>3, <1>4, <3>1
      <4> QED
        BY <1>1, <4>1
    <3> QED
      BY <3>1
  <2>3. s.liquidity = 0
    BY <1>1, <1>2, <2>2, ActiveNone
  <2>4. Crossed(s, t) = 0
    BY <1>2, <1>3, <1>4, <2>3 DEF Crossed
  <2> QED
    BY <1>2, <2>1, <2>3, <2>4
<1>5. CASE A # {}
  <2>1. NextTick(s.tick, FALSE) = Min(A)
    BY <1>2, <1>3, <1>5 DEF NextTick
  <2>2. PICK next \in Int : next = Min(A) /\ next \in A /\ next \in Ticks /\ \A u \in A : next <= u
    BY <1>3, <1>5, MinIs
  <2>3. next > t
    BY <1>3, <2>2
  <2>4. ASSUME NEW u \in Int, t < u, u < next PROVE GrossIn(positions, u) = 0
    <3>1. u \in Ticks
      <4>1. t <= u /\ u <= next
        BY <2>4
      <4> QED
        BY <1>2, <2>2, <2>4, <4>1, TicksBetween
    <3>2. u \notin A
      BY <2>2, <2>4
    <3>3. ~(GrossIn(positions, u) > 0)
      BY <1>3, <2>4, <3>1, <3>2
    <3> QED
      BY <1>1, <3>3
  <2>5. ActiveIn(positions, next - 1) = ActiveIn(positions, t)
    <3>1. \A u \in t + 1 .. next - 1 : GrossIn(positions, u) = 0
      BY <2>4
    <3>2. next - 1 \in Int /\ t <= next - 1
      BY <2>3
    <3> QED
      BY <1>1, <3>1, <3>2, ActiveSame
  <2>6. PICK n \in Int, a \in Nat, b \in Nat :
          /\ n = NetIn(positions, next) /\ a = ActiveIn(positions, next) /\ b = ActiveIn(positions, next - 1)
          /\ a = b + n
    <3>1. /\ NetIn(positions, next) \in Int /\ ActiveIn(positions, next) \in Nat
          /\ ActiveIn(positions, next - 1) \in Nat
      BY <1>1, TermsNat
    <3>2. ActiveIn(positions, next) = ActiveIn(positions, next - 1) + NetIn(positions, next)
      BY <1>1, ActiveNext
    <3> QED
      BY <3>1, <3>2
  <2>7. Crossed(s, next) = b + 1 * n
    BY <1>2, <1>3, <1>5, <2>2, <2>5, <2>6 DEF Crossed
  <2>8. b + 1 * n = a
    BY <2>6
  <2>9. Crossed(s, next) = ActiveIn(positions, next)
    BY <2>6, <2>7, <2>8
  <2>10. \A u \in Int : t < u /\ u < next => GrossIn(positions, u) = 0
    BY <2>4
  <2> QED
    BY <1>2, <2>1, <2>2, <2>3, <2>9, <2>10
<1> QED
  BY <1>4, <1>5
-----------------------------------------------------------------------------
(* The loop of v3_swap. *)

Names == {"contract", "fee", "down", "specified", "turns", "price", "tick", "liquidity", "left",
          "calculated", "end"}
Shaped(s) == s = [f \in DOMAIN s |-> s[f]] /\ Names \subseteq DOMAIN s

BookedTurn(s, step) == [Booked(s, step) EXCEPT !.turns = @ + 1]

BookedFrom(b, s, step) ==
    /\ Shaped(b) /\ b.price = step.price /\ b.turns = s.turns + 1
    /\ b.left = IF s.specified >= 0 THEN s.left - step.in - step.fee ELSE s.left + step.out
    /\ b.contract = s.contract /\ b.fee = s.fee /\ b.down = s.down /\ b.specified = s.specified
    /\ b.tick = s.tick /\ b.liquidity = s.liquidity /\ b.end = s.end

LEMMA BookedIs ==
    ASSUME NEW s, Shaped(s), NEW step PROVE BookedFrom(BookedTurn(s, step), s, step)
<1>0. PICK b : b = BookedTurn(s, step)
  OBVIOUS
<1>1. PICK c : c = Booked(s, step)
  OBVIOUS
<1>2. /\ Shaped(c) /\ c.price = step.price /\ c.turns = s.turns
      /\ c.left = IF s.specified >= 0 THEN s.left - step.in - step.fee ELSE s.left + step.out
      /\ c.contract = s.contract /\ c.fee = s.fee /\ c.down = s.down /\ c.specified = s.specified
      /\ c.tick = s.tick /\ c.liquidity = s.liquidity /\ c.end = s.end
  <2>1. CASE s.specified >= 0
    BY <1>1, <2>1 DEF Booked, Shaped, Names
  <2>2. CASE ~(s.specified >= 0)
    BY <1>1, <2>2 DEF Booked, Shaped, Names
  <2> QED
    BY <2>1, <2>2
<1>3. b = [c EXCEPT !.turns = @ + 1]
  BY <1>0, <1>1 DEF BookedTurn
<1>4. Shaped(b) /\ b.price = c.price /\ b.turns = c.turns + 1 /\ b.left = c.left
      /\ b.contract = c.contract /\ b.fee = c.fee /\ b.down = c.down /\ b.specified = c.specified
      /\ b.tick = c.tick /\ b.liquidity = c.liquidity /\ b.end = c.end
  BY <1>2, <1>3 DEF Shaped, Names
<1>5. BookedFrom(b, s, step)
  BY <1>2, <1>4 DEF BookedFrom
<1> QED
  BY <1>0, <1>5

LEMMA MovedIs ==
    ASSUME NEW b, Shaped(b), NEW from, NEW next, NEW m, m = Moved(b, from, next)
    PROVE  /\ Shaped(m) /\ m.price = b.price /\ m.turns = b.turns /\ m.left = b.left
           /\ m.contract = b.contract /\ m.fee = b.fee /\ m.down = b.down /\ m.specified = b.specified
           /\ m.end = b.end
           /\ m.tick = IF b.price = PriceAt(next) THEN Onto(next, b.down)
                       ELSE IF b.price # from THEN GetTickAtSqrtRatio(b.price) ELSE b.tick
           /\ m.liquidity = IF b.price = PriceAt(next) THEN Crossed(b, next) ELSE b.liquidity
<1>1. CASE b.price = PriceAt(next)
  BY <1>1 DEF Moved, Shaped, Names
<1>2. CASE b.price # PriceAt(next) /\ b.price # from
  BY <1>2 DEF Moved, Shaped, Names
<1>3. CASE b.price # PriceAt(next) /\ b.price = from
  BY <1>3 DEF Moved, Shaped, Names
<1> QED
  BY <1>1, <1>2, <1>3

LEMMA CheckedIs ==
    ASSUME NEW m, Shaped(m), NEW crossed \in BOOLEAN, NEW t, t = Checked(m, crossed)
    PROVE  /\ Shaped(t) /\ t.price = m.price /\ t.turns = m.turns /\ t.left = m.left
           /\ t.contract = m.contract /\ t.fee = m.fee /\ t.down = m.down /\ t.specified = m.specified
           /\ t.tick = m.tick /\ t.liquidity = m.liquidity
           /\ t.end = IF m.liquidity \notin 0..UMax \/ m.tick = NoTick THEN "error"
                      ELSE IF crossed /\ m.liquidity = 0 THEN "dry"
                      ELSE IF m.left = 0 THEN "filled"
                      ELSE IF m.price = Limit(m.down) THEN "limit"
                      ELSE "no"
BY DEF Checked, Shaped, Names

(* All that a turn changes.                                                *)
LEMMA SettledIs ==
    ASSUME NEW s, Shaped(s), NEW step, NEW next, Err \notin {step.price, step.in, step.out, step.fee},
           NEW t, t = Settled(s, next, step)
    PROVE  /\ Shaped(t) /\ t.price = step.price /\ t.turns = s.turns + 1
           /\ t.left = IF s.specified >= 0 THEN s.left - step.in - step.fee ELSE s.left + step.out
           /\ t.contract = s.contract /\ t.fee = s.fee /\ t.down = s.down /\ t.specified = s.specified
           /\ t.tick = IF step.price = PriceAt(next) THEN Onto(next, s.down)
                       ELSE IF step.price # s.price THEN GetTickAtSqrtRatio(step.price) ELSE s.tick
           /\ t.liquidity = IF step.price = PriceAt(next) THEN Crossed(s, next) ELSE s.liquidity
           /\ t.end = IF t.liquidity \notin 0..UMax \/ t.tick = NoTick THEN "error"
                      ELSE IF step.price = PriceAt(next) /\ t.liquidity = 0 THEN "dry"
                      ELSE IF t.left = 0 THEN "filled"
                      ELSE IF t.price = Limit(s.down) THEN "limit"
                      ELSE "no"
<1>1. PICK b : b = BookedTurn(s, step)
  OBVIOUS
<1>2. PICK m : m = Moved(b, s.price, next)
  OBVIOUS
<1>3. t = Checked(m, step.price = PriceAt(next))
  BY <1>1, <1>2, Zenon DEF Settled, BookedTurn
<1>4. PICK crossed \in BOOLEAN : crossed = (step.price = PriceAt(next))
  <2>1. (step.price = PriceAt(next)) \in BOOLEAN
    OBVIOUS
  <2> QED
    BY <2>1, Zenon
<1>5. crossed <=> step.price = PriceAt(next)
  BY <1>4, Zenon
<1>6. t = Checked(m, crossed)
  BY <1>3, <1>4, Zenon
<1>7. /\ Shaped(b) /\ b.price = step.price /\ b.turns = s.turns + 1
      /\ b.left = IF s.specified >= 0 THEN s.left - step.in - step.fee ELSE s.left + step.out
      /\ b.contract = s.contract /\ b.fee = s.fee /\ b.down = s.down /\ b.specified = s.specified
      /\ b.tick = s.tick /\ b.liquidity = s.liquidity
  <2>1. BookedFrom(b, s, step)
    BY <1>1, BookedIs, Zenon
  <2> QED
    BY <2>1 DEF BookedFrom
<1>8. Crossed(b, next) = Crossed(s, next)
  BY <1>7, Zenon DEF Crossed
<1>9. /\ Shaped(m) /\ m.price = b.price /\ m.turns = b.turns /\ m.left = b.left
      /\ m.contract = b.contract /\ m.fee = b.fee /\ m.down = b.down /\ m.specified = b.specified
      /\ m.tick = IF b.price = PriceAt(next) THEN Onto(next, b.down)
                  ELSE IF b.price # s.price THEN GetTickAtSqrtRatio(b.price) ELSE b.tick
      /\ m.liquidity = IF b.price = PriceAt(next) THEN Crossed(b, next) ELSE b.liquidity
  BY <1>2, <1>7, MovedIs
<1>10. /\ Shaped(t) /\ t.price = m.price /\ t.turns = m.turns /\ t.left = m.left
       /\ t.contract = m.contract /\ t.fee = m.fee /\ t.down = m.down /\ t.specified = m.specified
       /\ t.tick = m.tick /\ t.liquidity = m.liquidity
       /\ t.end = IF m.liquidity \notin 0..UMax \/ m.tick = NoTick THEN "error"
                  ELSE IF crossed /\ m.liquidity = 0 THEN "dry"
                  ELSE IF m.left = 0 THEN "filled"
                  ELSE IF m.price = Limit(m.down) THEN "limit"
                  ELSE "no"
  BY <1>6, <1>9, CheckedIs
<1>11. /\ Shaped(t) /\ t.price = step.price /\ t.turns = s.turns + 1
       /\ t.left = IF s.specified >= 0 THEN s.left - step.in - step.fee ELSE s.left + step.out
       /\ t.contract = s.contract /\ t.fee = s.fee /\ t.down = s.down /\ t.specified = s.specified
  BY <1>7, <1>9, <1>10, Zenon
<1>12. /\ t.tick = IF step.price = PriceAt(next) THEN Onto(next, s.down)
                   ELSE IF step.price # s.price THEN GetTickAtSqrtRatio(step.price) ELSE s.tick
       /\ t.liquidity = IF step.price = PriceAt(next) THEN Crossed(s, next) ELSE s.liquidity
  BY <1>7, <1>8, <1>9, <1>10, Zenon
<1>13. t.end = IF t.liquidity \notin 0..UMax \/ t.tick = NoTick THEN "error"
               ELSE IF step.price = PriceAt(next) /\ t.liquidity = 0 THEN "dry"
               ELSE IF t.left = 0 THEN "filled"
               ELSE IF t.price = Limit(s.down) THEN "limit"
               ELSE "no"
  BY <1>5, <1>7, <1>9, <1>10, Zenon
<1> QED
  BY <1>11, <1>12, <1>13
-----------------------------------------------------------------------------
(* A turn leaves price, tick and liquidity together. *)

(* The price lies between those of the tick and of the next one.           *)
Placed(p, t, l) ==
    /\ t \in Ticks /\ t < MaxTick /\ p \in Ratios
    /\ PriceAt(t) <= p /\ p <= PriceAt(t + 1) /\ l = ActiveIn(positions, t)

LEMMA LimitsAre ==
    /\ Limit(TRUE) \in Ratios /\ Limit(FALSE) \in Ratios
    /\ PriceAt(MinTick) < Limit(TRUE) /\ Limit(FALSE) < PriceAt(MaxTick)
    /\ \A p \in Nat : PriceAt(MinTick) < p => Limit(TRUE) <= p
    /\ \A p \in Nat : p < PriceAt(MaxTick) => p <= Limit(FALSE)
<1>1. PICK a \in Ratios, b \in Ratios : a = PriceAt(MinTick) /\ b = PriceAt(MaxTick)
  BY TicksAre, PricesAre
<1>2. a < b
  BY <1>1, TicksAre, PricesRise
<1>3. PICK m \in Nat : m = 2 ^ RatioBits - 1 /\ a \in 1..m /\ b \in 1..m /\ Ratios = 1..m
  <2>1. a \in Nat /\ a < 2 ^ RatioBits /\ b < 2 ^ RatioBits
    BY RatiosAre
  <2>2. 2 ^ RatioBits \in Nat
    BY WidthsOfQuotes
  <2> QED
    BY <2>1, <2>2 DEF Ratios
<1>4. Limit(TRUE) = a + 1 /\ Limit(FALSE) = b - 1
  BY <1>1 DEF Limit
<1>5. PICK l \in Int, u \in Int : l = a + 1 /\ u = b - 1 /\ l \in 1..m /\ u \in 1..m /\ a < l /\ u < b
  <2>1. a \in Int /\ b \in Int /\ a + 1 \in 1..m /\ b - 1 \in 1..m
    BY <1>2, <1>3
  <2> QED
    BY <2>1
<1>6. a \in Int /\ b \in Int
  BY <1>3
<1>7. \A p \in Nat : (a < p => l <= p) /\ (p < b => p <= u)
  BY <1>5, <1>6
<1> QED
  BY <1>1, <1>3, <1>4, <1>5, <1>7, Zenon

(* The target of a step is where it heads, and no farther than the limit.  *)
LEMMA TargetIs ==
    ASSUME NEW next \in Ticks
    PROVE  /\ Target(next, TRUE) \in Ratios /\ Target(next, FALSE) \in Ratios
           /\ PriceAt(next) <= Target(next, TRUE) /\ Limit(TRUE) <= Target(next, TRUE)
           /\ Target(next, TRUE) \in {PriceAt(next), Limit(TRUE)}
           /\ Target(next, FALSE) <= PriceAt(next) /\ Target(next, FALSE) <= Limit(FALSE)
           /\ Target(next, FALSE) \in {PriceAt(next), Limit(FALSE)}
<1>1. PICK p \in Ratios, a \in Ratios, b \in Ratios : p = PriceAt(next) /\ a = Limit(TRUE) /\ b = Limit(FALSE)
  BY PricesAre, LimitsAre
<1>2. p \in Nat /\ a \in Nat /\ b \in Nat
  BY RatiosAre
<1>3. /\ Max({p, a}) \in {p, a} /\ p <= Max({p, a}) /\ a <= Max({p, a})
      /\ Min({p, b}) \in {p, b} /\ Min({p, b}) <= p /\ Min({p, b}) <= b
  <2>0. p \in Int /\ a \in Int /\ b \in Int
    BY <1>2
  <2>1. (p <= a => Max({p, a}) = a) /\ (a <= p => Max({p, a}) = p)
    BY <2>0, MinMaxOfTwo, Zenon
  <2>2. (p <= b => Min({p, b}) = p) /\ (b <= p => Min({p, b}) = b)
    BY <2>0, MinMaxOfTwo, Zenon
  <2> QED
    BY <1>2, <2>1, <2>2
<1>4. Target(next, TRUE) = Max({p, a}) /\ Target(next, FALSE) = Min({p, b})
  BY <1>1 DEF Target
<1>5. Max({p, a}) \in Ratios /\ Min({p, b}) \in Ratios
  BY <1>3
<1> QED
  BY <1>1, <1>3, <1>4, <1>5

LEMMA TickAfter ==
    ASSUME NEW t \in Ticks, t < MaxTick
    PROVE  t \in Int /\ t + 1 \in Ticks /\ PriceAt(t) \in Nat /\ PriceAt(t + 1) \in Nat /\ PriceAt(t) < PriceAt(t + 1)
<1>1. t \in Int /\ t + 1 \in Ticks /\ t < t + 1
  BY TicksAre
<1> QED
  BY <1>1, PricesAre, PricesRise

(* Downwards short of the next tick: the liquidity is still the same.      *)
LEMMA LandsDown ==
    ASSUME AtHead, NEW p, NEW t, NEW l, Placed(p, t, l), NEW next \in Ticks,
           \A u \in Int : next < u /\ u <= t => GrossIn(positions, u) = 0,
           NEW q \in Ratios, PriceAt(next) < q, q < p
    PROVE  Placed(q, GetTickAtSqrtRatio(q), l)
<1>1. t \in Ticks /\ t < MaxTick /\ p \in Nat /\ q \in Nat /\ p <= PriceAt(t + 1) /\ l = ActiveIn(positions, t)
  BY RatiosAre DEF Placed
<1>2. next \in Int /\ t \in Int /\ t + 1 \in Ticks /\ PriceAt(t + 1) \in Nat /\ PriceAt(next) \in Nat
  BY <1>1, TickAfter, PricesAre, TicksAre
<1>3. PriceAt(MinTick) <= q /\ q < PriceAt(MaxTick) /\ PriceAt(MinTick) \in Nat /\ PriceAt(MaxTick) \in Nat
  <2>1. MinTick \in Ticks /\ MaxTick \in Ticks /\ MinTick <= next /\ t + 1 <= MaxTick
    BY <1>2, TicksAre
  <2>2. PriceAt(MinTick) <= PriceAt(next) /\ PriceAt(t + 1) <= PriceAt(MaxTick)
    BY <1>2, <2>1, PricesOrder
  <2>3. PriceAt(MinTick) \in Nat /\ PriceAt(MaxTick) \in Nat
    BY <2>1, PricesAre
  <2> QED
    BY <1>1, <1>2, <2>2, <2>3
<1>4. PICK v \in Ticks : v = GetTickAtSqrtRatio(q) /\ v < MaxTick /\ PriceAt(v) <= q /\ q < PriceAt(v + 1)
  <2>1. q \in PriceAt(MinTick) .. PriceAt(MaxTick) - 1
    BY <1>1, <1>3
  <2>2. GetTickAtSqrtRatio(q) = TickOf(q)
    BY <2>1, TickMathAssumption
  <2> QED
    BY <1>1, <1>3, <2>2, TickOfIs
<1>5. v \in Int /\ v + 1 \in Ticks /\ PriceAt(v) \in Nat /\ PriceAt(v + 1) \in Nat
  BY <1>4, TickAfter
<1>6. next < v + 1 /\ v < t + 1
  <2>1. PriceAt(next) < PriceAt(v + 1) /\ PriceAt(v) < PriceAt(t + 1)
    BY <1>1, <1>2, <1>4, <1>5
  <2> QED
    BY <1>2, <1>4, <1>5, <2>1, PricesOrder
<1>7. ActiveIn(positions, t) = ActiveIn(positions, v)
  <2>1. v <= t /\ \A u \in v + 1 .. t : GrossIn(positions, u) = 0
    BY <1>2, <1>5, <1>6
  <2>2. positions \in [Ranges -> Nat]
    BY DEF AtHead, Allowed
  <2> QED
    BY <1>2, <1>5, <2>1, <2>2, ActiveSame
<1>8. q <= PriceAt(v + 1)
  BY <1>1, <1>4, <1>5
<1> QED
  BY <1>1, <1>4, <1>7, <1>8 DEF Placed

LEMMA LandsUp ==
    ASSUME AtHead, NEW p, NEW t, NEW l, Placed(p, t, l), NEW next \in Ticks,
           \A u \in Int : t < u /\ u < next => GrossIn(positions, u) = 0,
           NEW q \in Ratios, q < PriceAt(next), p < q
    PROVE  Placed(q, GetTickAtSqrtRatio(q), l)
<1>1. t \in Ticks /\ t < MaxTick /\ p \in Nat /\ q \in Nat /\ PriceAt(t) <= p /\ l = ActiveIn(positions, t)
  BY RatiosAre DEF Placed
<1>2. next \in Int /\ t \in Int /\ t + 1 \in Ticks /\ PriceAt(t) \in Nat /\ PriceAt(next) \in Nat
  BY <1>1, TickAfter, PricesAre, TicksAre
<1>3. PriceAt(MinTick) <= q /\ q < PriceAt(MaxTick) /\ PriceAt(MinTick) \in Nat /\ PriceAt(MaxTick) \in Nat
  <2>1. MinTick \in Ticks /\ MaxTick \in Ticks /\ MinTick <= t /\ next <= MaxTick
    BY <1>1, <1>2, TicksAre
  <2>2. PriceAt(MinTick) <= PriceAt(t) /\ PriceAt(next) <= PriceAt(MaxTick)
    BY <1>1, <1>2, <2>1, PricesOrder
  <2>3. PriceAt(MinTick) \in Nat /\ PriceAt(MaxTick) \in Nat
    BY <2>1, PricesAre
  <2> QED
    BY <1>1, <1>2, <2>2, <2>3
<1>4. PICK v \in Ticks : v = GetTickAtSqrtRatio(q) /\ v < MaxTick /\ PriceAt(v) <= q /\ q < PriceAt(v + 1)
  <2>1. q \in PriceAt(MinTick) .. PriceAt(MaxTick) - 1
    BY <1>1, <1>3
  <2>2. GetTickAtSqrtRatio(q) = TickOf(q)
    BY <2>1, TickMathAssumption
  <2> QED
    BY <1>1, <1>3, <2>2, TickOfIs
<1>5. v \in Int /\ v + 1 \in Ticks /\ PriceAt(v) \in Nat /\ PriceAt(v + 1) \in Nat
  BY <1>4, TickAfter
<1>6. t < v + 1 /\ v < next
  <2>1. PriceAt(t) < PriceAt(v + 1) /\ PriceAt(v) < PriceAt(next)
    BY <1>1, <1>2, <1>4, <1>5
  <2> QED
    BY <1>1, <1>2, <1>4, <1>5, <2>1, PricesOrder
<1>7. ActiveIn(positions, v) = ActiveIn(positions, t)
  <2>1. t <= v /\ \A u \in t + 1 .. v : GrossIn(positions, u) = 0
    BY <1>2, <1>5, <1>6
  <2>2. positions \in [Ranges -> Nat]
    BY DEF AtHead, Allowed
  <2> QED
    BY <1>2, <1>5, <2>1, <2>2, ActiveSame
<1>8. q <= PriceAt(v + 1)
  BY <1>1, <1>4, <1>5
<1> QED
  BY <1>1, <1>4, <1>7, <1>8 DEF Placed
-----------------------------------------------------------------------------
(* One turn. *)

(* What is left to be paid, or still to be got (negative).                 *)
Owed(specified, left) ==
    /\ left \in 1 - Word .. Word - 1
    /\ specified >= 0 => left >= 0
    /\ ~(specified >= 0) => left <= 0

(* Every turn that goes on has crossed a tick.                             *)
InTime(n, down, t) == n <= IF down THEN MaxTick - 1 - t ELSE t - MinTick

Walks(s) ==
    /\ Shaped(s) /\ s.down \in BOOLEAN /\ s.fee \in FeePips /\ s.specified \in Int
    /\ s.turns \in 0..Turns /\ Owed(s.specified, s.left) /\ Placed(s.price, s.tick, s.liquidity)
Going(s) ==
    /\ Walks(s) /\ s.left # 0 /\ Limit(TRUE) <= s.price /\ s.price <= Limit(FALSE)
    /\ InTime(s.turns, s.down, s.tick)

Ends == {"filled", "limit", "dry"}
TurnedWell(s, t) ==
    /\ t.contract = s.contract /\ t.down = s.down /\ t.specified = s.specified
    /\ Walks(t) /\ t.end \in Ends \cup {"no"} /\ (t.end = "no" => Going(t))

LEMMA LeftIs ==
    ASSUME NEW specified \in Int, NEW left, Owed(specified, left), left # 0,
           NEW step, NEW from, NEW to, NEW L, StepSound(step, from, to, L, left),
           NEW after, after = IF specified >= 0 THEN left - step.in - step.fee ELSE left + step.out
    PROVE  Owed(specified, after) /\ (after = 0 \/ step.price = to)
<1>1. PICK in \in Nat, out \in Nat, fee \in Nat : in = step.in /\ out = step.out /\ fee = step.fee
  BY DEF StepSound
<1>2. /\ left > 0 => in + fee <= left /\ (step.price = to \/ in + fee = left)
      /\ left < 0 => out <= -left /\ (step.price = to \/ out = -left)
  BY <1>1 DEF StepSound
<1>3. PICK w \in Nat : w = Word /\ left \in 1 - w .. w - 1
  BY WordIs DEF Owed
<1>4. CASE specified >= 0
  <2>1. left > 0 /\ after = left - in - fee
    BY <1>1, <1>3, <1>4 DEF Owed
  <2>2. after \in 1 - w .. w - 1 /\ after >= 0 /\ (after = 0 \/ step.price = to)
    BY <1>2, <1>3, <2>1
  <2> QED
    BY <1>3, <1>4, <2>2 DEF Owed
<1>5. CASE ~(specified >= 0)
  <2>1. left < 0 /\ after = left + out
    BY <1>1, <1>3, <1>5 DEF Owed
  <2>2. after \in 1 - w .. w - 1 /\ after <= 0 /\ (after = 0 \/ step.price = to)
    BY <1>2, <1>3, <2>1
  <2> QED
    BY <1>3, <1>5, <2>2 DEF Owed
<1> QED
  BY <1>4, <1>5

LEMMA TurnsAre == Turns = MaxTick - MinTick + 2 /\ Turns \in Nat
<1>1. MinTick \in Int /\ MaxTick \in Int /\ MinTick < MaxTick /\ Ticks = MinTick .. MaxTick
  BY TicksAre
<1>2. Cardinality(MinTick .. MaxTick) = MaxTick - MinTick + 1
  BY <1>1, FS_Interval
<1> QED
  BY <1>1, <1>2 DEF Turns

(* Where a turn leaves the quote, once it is known where the price is.     *)
LEMMA TurnEnds ==
    ASSUME AtHead, NEW s, Going(s), NEW next, NEW to, to \in {PriceAt(next), Limit(s.down)},
           NEW step, StepSound(step, s.price, to, s.liquidity, s.left),
           NEW u, u = IF step.price = PriceAt(next) THEN Onto(next, s.down)
                      ELSE IF step.price # s.price THEN GetTickAtSqrtRatio(step.price) ELSE s.tick,
           NEW l, l = IF step.price = PriceAt(next) THEN Crossed(s, next) ELSE s.liquidity,
           Placed(step.price, u, l),
           step.price = PriceAt(next) =>
             l = 0 \/ /\ InTime(s.turns + 1, s.down, u)
                      /\ Limit(TRUE) <= step.price /\ step.price <= Limit(FALSE)
    PROVE  TurnedWell(s, Settled(s, next, step))
<1>1. Err \notin {step.price, step.in, step.out, step.fee}
  <2>1. step.price \in Nat /\ step.in \in Nat /\ step.out \in Nat /\ step.fee \in Nat
    BY RatiosAre DEF StepSound, OnTheWay
  <2> QED
    BY <2>1 DEF Err
<1>2. PICK t : t = Settled(s, next, step)
  OBVIOUS
<1>3. Shaped(s) /\ s.down \in BOOLEAN /\ s.fee \in FeePips /\ s.specified \in Int
      /\ s.turns \in 0..Turns /\ Owed(s.specified, s.left) /\ s.left # 0 /\ s.turns \in Nat
  BY TurnsAre DEF Going, Walks
<1>4. /\ Shaped(t) /\ t.price = step.price /\ t.turns = s.turns + 1
      /\ t.left = IF s.specified >= 0 THEN s.left - step.in - step.fee ELSE s.left + step.out
      /\ t.contract = s.contract /\ t.fee = s.fee /\ t.down = s.down /\ t.specified = s.specified
      /\ t.tick = u /\ t.liquidity = l
      /\ t.end = IF t.liquidity \notin 0..UMax \/ t.tick = NoTick THEN "error"
                 ELSE IF step.price = PriceAt(next) /\ t.liquidity = 0 THEN "dry"
                 ELSE IF t.left = 0 THEN "filled"
                 ELSE IF t.price = Limit(s.down) THEN "limit"
                 ELSE "no"
  BY <1>1, <1>2, <1>3, SettledIs
<1>5. Owed(t.specified, t.left) /\ (t.left = 0 \/ step.price = to)
  BY <1>3, <1>4, LeftIs
<1>6. Placed(t.price, t.tick, t.liquidity)
  BY <1>4
<1>7. ~(t.liquidity \notin 0..UMax \/ t.tick = NoTick)
  <2>1. t.liquidity \in 0..UMax
    BY <1>6, ActiveBounded DEF Placed, AtHead
  <2>2. t.tick # NoTick
    BY <1>6, TicksAre DEF Placed, NoTick
  <2> QED
    BY <2>1, <2>2
<1>8. t.turns \in 0..Turns
  <2>1. s.tick \in Ticks /\ s.tick < MaxTick /\ InTime(s.turns, s.down, s.tick)
    BY DEF Going, Walks, Placed
  <2>2. PICK n \in Nat, v \in Int, a \in Int, b \in Int :
          n = s.turns /\ v = s.tick /\ a = MinTick /\ b = MaxTick /\ a <= v /\ v < b
    BY <1>3, <2>1, TicksAre
  <2>3. n <= b - 1 - v \/ n <= v - a
    BY <2>1, <2>2 DEF InTime
  <2>4. n + 1 \in 0 .. b - a + 2
    BY <2>2, <2>3
  <2> QED
    BY <1>4, <2>2, <2>4, TurnsAre
<1>9. Walks(t)
  BY <1>3, <1>4, <1>5, <1>6, <1>8 DEF Walks
<1>10. t.end = IF step.price = PriceAt(next) /\ t.liquidity = 0 THEN "dry"
               ELSE IF t.left = 0 THEN "filled"
               ELSE IF t.price = Limit(s.down) THEN "limit"
               ELSE "no"
  BY <1>4, <1>7, Zenon
<1>11. t.end \in Ends \cup {"no"}
  BY <1>10 DEF Ends
<1>12. t.end = "no" => Going(t)
  <2>1. SUFFICES ASSUME t.end = "no" PROVE Going(t)
    OBVIOUS
  <2>2. ~(step.price = PriceAt(next) /\ t.liquidity = 0) /\ t.left # 0 /\ t.price # Limit(s.down)
    BY <1>10, <2>1
  <2>3. step.price = PriceAt(next)
    BY <1>4, <1>5, <2>2
  <2>4. InTime(s.turns + 1, s.down, u) /\ Limit(TRUE) <= step.price /\ step.price <= Limit(FALSE)
    BY <1>4, <2>2, <2>3
  <2> QED
    BY <1>4, <1>9, <2>2, <2>4 DEF Going
<1>13. TurnedWell(s, t)
  BY <1>4, <1>9, <1>11, <1>12 DEF TurnedWell
<1> QED
  BY <1>2, <1>13

LEMMA TurnDown ==
    ASSUME AtHead, NEW s, Going(s), s.down = TRUE PROVE TurnedWell(s, Turn(s))
<1>1. PICK p \in Ratios, t \in Int, n \in Nat :
        /\ p = s.price /\ t = s.tick /\ n = s.turns /\ t \in Ticks /\ t < MaxTick
        /\ PriceAt(t) <= p /\ p <= PriceAt(t + 1) /\ s.liquidity = ActiveIn(positions, t)
        /\ Limit(TRUE) <= p /\ p <= Limit(FALSE) /\ n <= MaxTick - 1 - t
  <2>1. s.tick \in Int /\ s.turns \in Nat
    BY TurnsAre, TicksAre DEF Going, Walks, Placed
  <2> QED
    BY <2>1 DEF Going, Walks, Placed, InTime
<1>2. PICK next \in Ticks :
        /\ next = NextTick(t, TRUE) /\ next <= t
        /\ \A u \in Int : next < u /\ u <= t => GrossIn(positions, u) = 0
        /\ Crossed(s, next) = ActiveIn(positions, next - 1)
  BY <1>1, NextDown
<1>3. PICK to \in Ratios :
        /\ to = Target(next, TRUE) /\ PriceAt(next) <= to /\ Limit(TRUE) <= to
        /\ to \in {PriceAt(next), Limit(TRUE)}
  BY TargetIs
<1>4. PICK x \in Nat, y \in Nat, lo \in Nat, hi \in Nat :
        /\ x = PriceAt(next) /\ y = PriceAt(t) /\ lo = Limit(TRUE) /\ hi = Limit(FALSE)
        /\ x <= y /\ y <= p /\ lo <= p /\ p <= hi /\ x <= to /\ lo <= to /\ to \in {x, lo}
        /\ p \in Nat /\ to \in Nat /\ next \in Int
  <2>1. PriceAt(next) <= PriceAt(t)
    BY <1>1, <1>2, PricesOrder
  <2>2. PriceAt(next) \in Nat /\ PriceAt(t) \in Nat /\ Limit(TRUE) \in Nat /\ Limit(FALSE) \in Nat
    BY <1>1, RatiosAre, PricesAre, LimitsAre
  <2>3. p \in Nat /\ to \in Nat /\ next \in Int
    BY RatiosAre, TicksAre
  <2> QED
    BY <1>1, <1>3, <2>1, <2>2, <2>3, Zenon
<1>5. /\ x <= y /\ y <= p /\ lo <= p /\ p <= hi /\ x <= to /\ lo <= to /\ (to = x \/ to = lo)
      /\ p \in Nat /\ to \in Nat /\ next \in Int /\ x = PriceAt(next)
  BY <1>4, Zenon
<1>5a. to <= p
  BY <1>5
<1>6. PICK step : step = ComputeSwapStep(p, to, s.liquidity, s.left, s.fee)
  OBVIOUS
<1>7. StepSound(step, p, to, s.liquidity, s.left)
  <2>1. s.liquidity \in 0..UMax
    BY <1>1, ActiveBounded DEF AtHead
  <2>2. s.fee \in FeePips /\ s.left \in 1 - Word .. Word - 1 /\ s.left # 0
    BY DEF Going, Walks, Owed
  <2> QED
    BY <1>6, <2>1, <2>2, SwapStepSound
<1>8. PICK q \in Ratios : q = step.price /\ q <= p /\ to <= q /\ q \in Nat
  <2>1. step.price \in Ratios /\ Heads(p, step.price, p >= to) /\ Heads(step.price, to, p >= to)
    BY <1>7 DEF StepSound, OnTheWay
  <2>2. p >= to
    BY <1>5, <1>5a
  <2>3. step.price \in Nat
    BY <2>1, RatiosAre
  <2> QED
    BY <2>1, <2>2, <2>3 DEF Heads
<1>9. Turn(s) = Settled(s, next, step)
  BY <1>1, <1>2, <1>3, <1>6 DEF Turn, TurnTo
<1>10. PICK u : u = IF q = PriceAt(next) THEN Onto(next, TRUE)
                    ELSE IF q # p THEN GetTickAtSqrtRatio(q) ELSE t
  OBVIOUS
<1>11. PICK l : l = IF q = PriceAt(next) THEN Crossed(s, next) ELSE s.liquidity
  OBVIOUS
<1>12. Placed(p, t, s.liquidity)
  BY <1>1 DEF Placed
<1>13. CASE q = PriceAt(next)
  <2>1. u = next - 1 /\ l = ActiveIn(positions, next - 1)
    BY <1>2, <1>10, <1>11, <1>13 DEF Onto
  <2>2. MinTick < next
    <3>1. PICK z \in Nat : z = PriceAt(MinTick)
      BY TicksAre, PricesAre
    <3>2. z < lo
      BY <1>4, <3>1, LimitsAre, Zenon
    <3>3. lo <= x
      BY <1>5, <1>8, <1>13
    <3>4. x # z
      BY <3>2, <3>3
    <3>5. next # MinTick
      BY <1>5, <3>1, <3>4
    <3> QED
      BY <1>5, <3>5, TicksAre
  <2>3. next - 1 \in Ticks /\ next - 1 < MaxTick /\ (next - 1) + 1 = next
    <3>1. next <= MaxTick
      BY TicksAre
    <3> QED
      BY <1>1, <1>5, <2>2, <3>1, TicksAre
  <2>4. PriceAt(next - 1) <= q /\ q <= PriceAt(next)
    <3>1. PriceAt(next - 1) \in Nat /\ PriceAt(next - 1) < PriceAt(next)
      BY <2>3, TickAfter
    <3> QED
      BY <1>5, <1>8, <1>13, <3>1
  <2>5. Placed(q, u, l)
    BY <2>1, <2>3, <2>4 DEF Placed
  <2>6. InTime(n + 1, TRUE, u)
    <3>1. PICK m \in Int : m = MaxTick
      BY TicksAre
    <3>2. n <= m - 1 - t /\ next <= t
      BY <1>1, <1>2, <3>1
    <3>3. n + 1 <= m - 1 - (next - 1)
      BY <1>5, <3>2
    <3> QED
      BY <2>1, <3>1, <3>3 DEF InTime
  <2>7. Limit(TRUE) <= q /\ q <= Limit(FALSE)
    <3>1. lo <= q /\ q <= hi
      BY <1>5, <1>8
    <3> QED
      BY <1>4, <3>1, Zenon
  <2> QED
    BY <1>1, <1>3, <1>7, <1>8, <1>9, <1>10, <1>11, <2>5, <2>6, <2>7, TurnEnds
<1>14. CASE q # PriceAt(next)
  <2>1. Placed(q, u, l)
    <3>1. CASE q = p
      BY <1>10, <1>11, <1>12, <1>14, <3>1
    <3>2. CASE q # p
      <4>0. x < q /\ q < p
        BY <1>5, <1>8, <1>14, <3>2
      <4>1. PriceAt(next) < q /\ q < p
        BY <1>5, <4>0
      <4>2. u = GetTickAtSqrtRatio(q) /\ l = s.liquidity
        BY <1>10, <1>11, <1>14, <3>2
      <4> QED
        BY <1>2, <1>12, <4>1, <4>2, LandsDown
    <3> QED
      BY <3>1, <3>2
  <2> QED
    BY <1>1, <1>3, <1>7, <1>8, <1>9, <1>10, <1>11, <1>14, <2>1, TurnEnds
<1> QED
  BY <1>13, <1>14

LEMMA TurnUp ==
    ASSUME AtHead, NEW s, Going(s), s.down = FALSE PROVE TurnedWell(s, Turn(s))
<1>1. PICK p \in Ratios, t \in Int, n \in Nat :
        /\ p = s.price /\ t = s.tick /\ n = s.turns /\ t \in Ticks /\ t < MaxTick
        /\ PriceAt(t) <= p /\ p <= PriceAt(t + 1) /\ s.liquidity = ActiveIn(positions, t)
        /\ Limit(TRUE) <= p /\ p <= Limit(FALSE) /\ n <= t - MinTick
  <2>1. s.tick \in Int /\ s.turns \in Nat
    BY TurnsAre, TicksAre DEF Going, Walks, Placed
  <2> QED
    BY <2>1 DEF Going, Walks, Placed, InTime
<1>2. PICK next \in Ticks :
        /\ next = NextTick(t, FALSE)
        /\ \/ /\ next > t
              /\ \A u \in Int : t < u /\ u < next => GrossIn(positions, u) = 0
              /\ Crossed(s, next) = ActiveIn(positions, next)
           \/ next = t /\ s.liquidity = 0 /\ Crossed(s, next) = 0
  BY <1>1, NextUp
<1>3. PICK to \in Ratios :
        /\ to = Target(next, FALSE) /\ to <= PriceAt(next) /\ to <= Limit(FALSE)
        /\ to \in {PriceAt(next), Limit(FALSE)}
  BY TargetIs
<1>4. PICK x \in Nat, y \in Nat, z \in Nat, lo \in Nat, hi \in Nat :
        /\ x = PriceAt(next) /\ y = PriceAt(t) /\ z = PriceAt(t + 1) /\ lo = Limit(TRUE) /\ hi = Limit(FALSE)
        /\ y <= p /\ p <= z /\ y < z /\ lo <= p /\ p <= hi /\ to <= x /\ to <= hi /\ to \in {x, hi}
        /\ p \in Nat /\ to \in Nat /\ next \in Int /\ t + 1 \in Ticks
  <2>1. PriceAt(t) \in Nat /\ PriceAt(t + 1) \in Nat /\ PriceAt(t) < PriceAt(t + 1) /\ t + 1 \in Ticks
    BY <1>1, TickAfter
  <2>2. PriceAt(next) \in Nat /\ Limit(TRUE) \in Nat /\ Limit(FALSE) \in Nat
    BY <1>1, RatiosAre, PricesAre, LimitsAre
  <2>3. p \in Nat /\ to \in Nat /\ next \in Int
    BY RatiosAre, TicksAre
  <2> QED
    BY <1>1, <1>3, <2>1, <2>2, <2>3, Zenon
<1>4a. /\ y <= p /\ p <= z /\ y < z /\ lo <= p /\ p <= hi /\ to <= x /\ to <= hi /\ (to = x \/ to = hi)
       /\ p \in Nat /\ to \in Nat /\ next \in Int /\ t + 1 \in Ticks
       /\ x = PriceAt(next) /\ y = PriceAt(t) /\ z = PriceAt(t + 1)
  BY <1>4, Zenon
<1>5. PICK step : step = ComputeSwapStep(p, to, s.liquidity, s.left, s.fee)
  OBVIOUS
<1>6. StepSound(step, p, to, s.liquidity, s.left)
  <2>1. s.liquidity \in 0..UMax
    BY <1>1, ActiveBounded DEF AtHead
  <2>2. s.fee \in FeePips /\ s.left \in 1 - Word .. Word - 1 /\ s.left # 0
    BY DEF Going, Walks, Owed
  <2> QED
    BY <1>5, <2>1, <2>2, SwapStepSound
<1>7. PICK q \in Ratios : q = step.price /\ q \in Nat
  BY <1>6, RatiosAre DEF StepSound, OnTheWay
<1>8. Turn(s) = Settled(s, next, step)
  BY <1>1, <1>2, <1>3, <1>5 DEF Turn, TurnTo
<1>9. PICK u : u = IF q = PriceAt(next) THEN Onto(next, FALSE)
                   ELSE IF q # p THEN GetTickAtSqrtRatio(q) ELSE t
  OBVIOUS
<1>10. PICK l : l = IF q = PriceAt(next) THEN Crossed(s, next) ELSE s.liquidity
  OBVIOUS
<1>11. Placed(p, t, s.liquidity)
  BY <1>1 DEF Placed
<1>12. ASSUME next > t,
              \A v \in Int : t < v /\ v < next => GrossIn(positions, v) = 0,
              Crossed(s, next) = ActiveIn(positions, next)
       PROVE  TurnedWell(s, Turn(s))
  <2>1. z <= x
    <3>1. t + 1 <= next
      BY <1>4a, <1>12
    <3> QED
      BY <1>4a, <3>1, PricesOrder
  <2>2. p <= to
    BY <1>4a, <2>1
  <2>3. p <= q /\ q <= to
    <3>1. Heads(p, q, p >= to) /\ Heads(q, to, p >= to)
      BY <1>6, <1>7 DEF StepSound, OnTheWay
    <3>2. CASE p >= to
      <4>1. q <= p /\ to <= q
        BY <3>1, <3>2 DEF Heads
      <4> QED
        BY <1>4a, <1>7, <2>2, <4>1
    <3>3. CASE ~(p >= to)
      BY <3>1, <3>3 DEF Heads
    <3> QED
      BY <3>2, <3>3
  <2>4. CASE q = PriceAt(next)
    <3>1. u = next /\ l = ActiveIn(positions, next)
      BY <1>9, <1>10, <1>12, <2>4 DEF Onto
    <3>2. next < MaxTick
      <4>1. PICK a \in Nat : a = PriceAt(MaxTick)
        BY TicksAre, PricesAre
      <4>2. hi < a
        BY <1>4, <4>1, LimitsAre, Zenon
      <4>3. x <= hi
        BY <1>4a, <1>7, <2>3, <2>4
      <4>4. x # a
        BY <4>2, <4>3
      <4>5. next # MaxTick
        BY <1>4a, <4>1, <4>4
      <4> QED
        BY <1>4a, <4>5, TicksAre
    <3>3. PriceAt(next) <= q /\ q <= PriceAt(next + 1)
      <4>1. PriceAt(next + 1) \in Nat /\ PriceAt(next) < PriceAt(next + 1)
        BY <3>2, TickAfter
      <4> QED
        BY <1>4a, <1>7, <2>4, <4>1
    <3>4. Placed(q, u, l)
      BY <3>1, <3>2, <3>3 DEF Placed
    <3>5. InTime(n + 1, FALSE, u)
      <4>1. PICK m \in Int : m = MinTick
        BY TicksAre
      <4>2. n <= t - m
        BY <1>1, <4>1
      <4>3. n + 1 <= next - m
        BY <1>4a, <1>12, <4>2
      <4> QED
        BY <3>1, <4>1, <4>3 DEF InTime
    <3>6. Limit(TRUE) <= q /\ q <= Limit(FALSE)
      <4>1. lo <= q /\ q <= hi
        BY <1>4a, <1>7, <2>3
      <4> QED
        BY <1>4, <4>1, Zenon
    <3> QED
      BY <1>1, <1>3, <1>6, <1>7, <1>8, <1>9, <1>10, <3>4, <3>5, <3>6, TurnEnds
  <2>5. CASE q # PriceAt(next)
    <3>1. Placed(q, u, l)
      <4>1. CASE q = p
        BY <1>9, <1>10, <1>11, <2>5, <4>1
      <4>2. CASE q # p
        <5>0. p < q /\ q < x
          BY <1>4a, <1>7, <2>3, <2>5, <4>2
        <5>1. p < q /\ q < PriceAt(next)
          BY <1>4a, <5>0
        <5>2. u = GetTickAtSqrtRatio(q) /\ l = s.liquidity
          BY <1>9, <1>10, <2>5, <4>2
        <5> QED
          BY <1>11, <1>12, <5>1, <5>2, LandsUp
      <4> QED
        BY <4>1, <4>2
    <3> QED
      BY <1>1, <1>3, <1>6, <1>7, <1>8, <1>9, <1>10, <2>5, <3>1, TurnEnds
  <2> QED
    BY <2>4, <2>5
<1>13. ASSUME next = t, s.liquidity = 0, Crossed(s, next) = 0 PROVE TurnedWell(s, Turn(s))
  <2>1. to = PriceAt(t)
    <3>1. x = y
      BY <1>4a, <1>13
    <3>2. to = y
      BY <1>4a, <3>1
    <3> QED
      BY <1>4a, <3>2
  <2>2. q = to
    BY <1>6, <1>7, <1>13 DEF StepSound
  <2>3. u = t /\ l = 0
    BY <1>9, <1>10, <1>13, <2>1, <2>2 DEF Onto
  <2>4. PriceAt(t) <= q /\ q <= PriceAt(t + 1)
    BY <1>4a, <2>1, <2>2
  <2>5. Placed(q, u, l)
    BY <1>1, <1>13, <2>3, <2>4 DEF Placed
  <2> QED
    BY <1>1, <1>3, <1>6, <1>7, <1>8, <1>9, <1>10, <2>3, <2>5, TurnEnds
<1> QED
  BY <1>2, <1>12, <1>13
-----------------------------------------------------------------------------
(* From the first turn to the last. *)

QuotedWell(q) ==
    /\ q.end \in Ends \cup {"no", "error"}
    /\ q.end = "error" => pool.price = Limit(q.down)
    /\ q.end # "error" => Walks(q)
    /\ q.end = "no" => Going(q)
QuoteInv == quote # Idle => kind = "UniswapV3" /\ InStepNow /\ QuotedWell(quote)

LEMMA SlotPlaced ==
    ASSUME NEW p, NEW t, <<p, t>> \in Slots
    PROVE  Placed(p, t, ActiveIn(positions, t)) /\ Limit(TRUE) <= p /\ p <= Limit(FALSE)
<1>1. PICK a \in Nat, b \in Nat, m \in Int :
        a = PriceAt(MinTick) /\ b = PriceAt(MaxTick) /\ m = MaxTick
  BY TicksAre, PricesAre
<1>2. p \in Prices /\ t \in Ticks /\ (t = TickOf(p) \/ (t < MaxTick /\ p = PriceAt(t + 1)))
  BY DEF Slots
<1>3. p \in Nat /\ a < p /\ p < b
  BY <1>1, <1>2, V3Assumption
<1>4. Limit(TRUE) <= p /\ p <= Limit(FALSE)
  <2>1. PriceAt(MinTick) < p /\ p < PriceAt(MaxTick)
    BY <1>1, <1>3
  <2> QED
    BY <1>3, <2>1, LimitsAre, Zenon
<1>5. p \in Ratios
  <2>1. 1 <= p /\ b \in Ratios
    BY <1>1, <1>3, TicksAre, PricesAre
  <2> QED
    BY <1>1, <1>3, <2>1, WidthsOfQuotes DEF Ratios
<1>6. t < MaxTick /\ PriceAt(t) <= p /\ p <= PriceAt(t + 1)
  <2>1. CASE t = TickOf(p)
    <3>1. t < MaxTick /\ PriceAt(t) <= p /\ p < PriceAt(t + 1)
      BY <1>1, <1>3, <2>1, TickOfIs
    <3>2. PriceAt(t + 1) \in Nat
      BY <1>2, <3>1, TickAfter
    <3> QED
      BY <1>3, <3>1, <3>2
  <2>2. CASE t < MaxTick /\ p = PriceAt(t + 1)
    <3>1. PriceAt(t) \in Nat /\ PriceAt(t + 1) \in Nat /\ PriceAt(t) < PriceAt(t + 1)
      BY <1>2, <2>2, TickAfter
    <3> QED
      BY <2>2, <3>1
  <2> QED
    BY <1>2, <2>1, <2>2
<1> QED
  BY <1>2, <1>4, <1>5, <1>6 DEF Placed

LEMMA FeeTyped == ASSUME NEW contract \in Contracts PROVE FetchedFee(contract) \in FeePips
<1>1. PICK f \in FeePips : contract = Charging("UniswapV3", f, [down \in BOOLEAN |-> f])
        \/ (\E c \in [BOOLEAN -> FeePips] : contract = Charging("AlgebraTwoSideFee", 0, c))
        \/ (\E g \in FeePips : contract = Charging("RamsesV2", f, [down \in BOOLEAN |-> g]))
  <2>1. \/ \E f \in FeePips : contract = Charging("UniswapV3", f, [down \in BOOLEAN |-> f])
        \/ \E c \in [BOOLEAN -> FeePips] : contract = Charging("AlgebraTwoSideFee", 0, c)
        \/ \E f, g \in FeePips : contract = Charging("RamsesV2", f, [down \in BOOLEAN |-> g])
    BY DEF Contracts
  <2>2. \A c \in [BOOLEAN -> FeePips] : c[TRUE] \in FeePips
    BY Zenon
  <2> QED
    BY <2>1, <2>2
<1>2. CASE contract = Charging("UniswapV3", f, [down \in BOOLEAN |-> f])
  BY <1>2 DEF FetchedFee, Charging
<1>3. CASE \E g \in FeePips : contract = Charging("RamsesV2", f, [down \in BOOLEAN |-> g])
  BY <1>3 DEF FetchedFee, Charging
<1>4. CASE \E c \in [BOOLEAN -> FeePips] : contract = Charging("AlgebraTwoSideFee", 0, c)
  <2>1. PICK c \in [BOOLEAN -> FeePips] : contract = Charging("AlgebraTwoSideFee", 0, c)
    BY <1>4
  <2>2. contract.kind = "AlgebraTwoSideFee" /\ contract.charged = c
    BY <2>1 DEF Charging
  <2>3. PICK a \in FeePips, b \in FeePips : a = c[TRUE] /\ b = c[FALSE]
    BY Zenon
  <2>4. {c[down] : down \in BOOLEAN} = {a, b}
    BY <2>3, Zenon
  <2>5. FetchedFee(contract) = Max({a, b})
    BY <2>2, <2>4, Zenon DEF FetchedFee
  <2>6. a \in Int /\ b \in Int /\ (a <= b \/ b <= a)
    BY QuoteAssumption, MathAssumption
  <2>7. Max({a, b}) \in FeePips
    BY <2>6, MinMaxOfTwo, Zenon
  <2> QED
    BY <2>5, <2>7
<1> QED
  BY <1>1, <1>2, <1>3, <1>4

LEMMA StartKeeps ==
    ASSUME FollowingInv, InStepNow, NEW contract \in Contracts, NEW down \in BOOLEAN,
           NEW specified \in Specified
    PROVE  QuotedWell(Start(contract, down, specified))
<1>1. PICK s : s = Start(contract, down, specified)
  OBVIOUS
<1>2. pool = FetchedIn(Now) /\ Allowed(positions) /\ <<price, tick>> \in Slots
  BY FollowingHolds, NowSound, FetchedNow DEF InStep, InStepNow
<1>3. pool.price = price /\ pool.tick = tick /\ pool.liquidity = ActiveIn(positions, tick)
  BY <1>2 DEF FetchedIn, Now
<1>4. /\ Shaped(s) /\ s.fee = FetchedFee(contract) /\ s.down = down /\ s.specified = specified
      /\ s.turns = 0 /\ s.price = price /\ s.tick = tick /\ s.liquidity = ActiveIn(positions, tick)
      /\ s.left = specified
      /\ s.end = IF pool.price = Limit(down) THEN "error" ELSE IF specified = 0 THEN "filled" ELSE "no"
  BY <1>1, <1>3 DEF Start, Shaped, Names
<1>5. Placed(s.price, s.tick, s.liquidity) /\ Limit(TRUE) <= s.price /\ s.price <= Limit(FALSE)
  <2>1. /\ Placed(price, tick, ActiveIn(positions, tick)) /\ Limit(TRUE) <= price
        /\ price <= Limit(FALSE)
    BY <1>2, SlotPlaced
  <2> QED
    BY <1>4, <2>1, Zenon
<1>6. specified \in Int /\ Owed(specified, specified)
  <2>1. specified \in 1 - Word .. Word - 1
    BY QuoteAssumption
  <2>2. specified \in Int
    BY <2>1, WordIs
  <2>3. (specified >= 0 => specified >= 0) /\ (~(specified >= 0) => specified <= 0)
    BY <2>2
  <2> QED
    BY <2>1, <2>2, <2>3 DEF Owed
<1>7. Walks(s)
  <2>1. s.turns \in 0..Turns
    BY <1>4, TurnsAre
  <2>2. s.fee \in FeePips
    BY <1>4, FeeTyped
  <2> QED
    BY <1>4, <1>5, <1>6, <2>1, <2>2 DEF Walks
<1>8. InTime(s.turns, s.down, s.tick)
  <2>1. PICK t \in Int, a \in Int, b \in Int : t = s.tick /\ a = MinTick /\ b = MaxTick /\ a <= t /\ t < b
    BY <1>5, TicksAre DEF Placed
  <2>2. 0 <= b - 1 - t /\ 0 <= t - a
    BY <2>1
  <2> QED
    BY <1>4, <2>1, <2>2 DEF InTime
<1>9. s.end = "no" => Going(s)
  BY <1>4, <1>5, <1>7, <1>8 DEF Going
<1>10. QuotedWell(s)
  BY <1>4, <1>7, <1>9 DEF QuotedWell, Ends
<1> QED
  BY <1>1, <1>10

LEMMA TurnKeeps ==
    ASSUME FollowingInv, InStepNow, QuotedWell(quote), quote.end = "no"
    PROVE  QuotedWell(Turn(quote))
<1>1. AtHead
  BY FollowingHolds, NowSound, FetchedNow DEF InStep, InStepNow, AtHead
<1>2. Going(quote) /\ quote.down \in BOOLEAN
  BY DEF QuotedWell, Going, Walks
<1>3. TurnedWell(quote, Turn(quote))
  BY <1>1, <1>2, TurnDown, TurnUp
<1> QED
  BY <1>3 DEF TurnedWell, QuotedWell, Ends

(* While the pool does not change, what is said of a quote stays true.     *)
LEMMA QuoteStays ==
    ASSUME UNCHANGED vars, NEW q, QuotedWell(q), quote' = q PROVE QuotedWell(quote)'
<1>1. positions' = positions /\ pool' = pool
  BY DEF vars, chain
<1>2. ASSUME Walks(q) PROVE Walks(quote)'
  BY <1>1, <1>2 DEF Walks, Placed
<1>3. ASSUME Going(q) PROVE Going(quote)'
  <2>1. Walks(quote)'
    BY <1>2, <1>3 DEF Going
  <2> QED
    BY <1>3, <2>1 DEF Going
<1> QED
  BY <1>1, <1>2, <1>3 DEF QuotedWell

(* A step begins, continues or ends a quote, or leaves it alone.           *)
LEMMA QuoteStep == ASSUME PoolsInv, QuoteInv, [PoolsNext]_poolVars PROVE QuoteInv'
<1>1. Idle.end = "idle"
  BY DEF Idle
<1>2. ASSUME UNCHANGED <<vars, quote, kind>> PROVE QuoteInv'
  <2>1. SUFFICES ASSUME quote # Idle PROVE QuoteInv'
    BY <1>2 DEF QuoteInv, Idle
  <2>2. kind = "UniswapV3" /\ InStepNow /\ QuotedWell(quote)
    BY <2>1 DEF QuoteInv
  <2>3. QuotedWell(quote)' /\ InStepNow'
    BY <1>2, <2>2, QuoteStays DEF vars, InStepNow
  <2> QED
    BY <1>2, <2>2, <2>3 DEF QuoteInv
<1>3. ASSUME kind = "UniswapV2", V2!Next, UNCHANGED <<quote, kind>> PROVE QuoteInv'
  BY <1>3 DEF QuoteInv, Idle
<1>4. ASSUME kind = "UniswapV3", QuoteNext, UNCHANGED kind PROVE QuoteInv'
  <2>0. FollowingInv
    BY <1>4 DEF PoolsInv
  <2>1. CASE quote = Idle /\ Next /\ UNCHANGED quote
    BY <2>1 DEF QuoteInv, Idle
  <2>2. ASSUME NEW down \in BOOLEAN, NEW specified \in Specified, NEW contract \in Contracts,
               BeginQuote(contract, down, specified)
        PROVE  QuoteInv'
    <3>1. /\ InStepNow /\ UNCHANGED vars /\ quote' = Start(contract, down, specified)
      BY <2>2 DEF BeginQuote
    <3>2. QuotedWell(quote)' /\ InStepNow'
      <4>1. QuotedWell(Start(contract, down, specified))
        BY <2>0, <3>1, StartKeeps
      <4> QED
        BY <3>1, <4>1, QuoteStays DEF vars, InStepNow
    <3> QED
      BY <1>4, <3>2 DEF QuoteInv
  <2>3. CASE QuoteTurn
    <3>1. quote.end = "no" /\ UNCHANGED vars /\ quote' = Turn(quote)
      BY <2>3 DEF QuoteTurn
    <3>2. InStepNow /\ QuotedWell(quote)
      BY <1>1, <3>1 DEF QuoteInv
    <3>3. QuotedWell(quote)' /\ InStepNow'
      <4>1. QuotedWell(Turn(quote))
        BY <2>0, <3>1, <3>2, TurnKeeps
      <4> QED
        BY <3>1, <3>2, <4>1, QuoteStays DEF vars, InStepNow
    <3> QED
      BY <1>4, <3>3 DEF QuoteInv
  <2>4. CASE EndQuote
    BY <2>4 DEF EndQuote, QuoteInv, Idle
  <2> QED
    BY <1>4, <2>1, <2>2, <2>3, <2>4 DEF QuoteNext
<1> QED
  <2>1. CASE PoolsNext
    BY <1>3, <1>4, <2>1 DEF PoolsNext
  <2>2. CASE UNCHANGED poolVars
    BY <1>2, <2>2 DEF poolVars, quoteVars
  <2> QED
    BY <2>1, <2>2

(* What the invariant says of a quote is what is promised of it.           *)
LEMMA QuoteHolds == ASSUME PoolsInv, QuoteInv PROVE Quotable
<1>1. CASE quote = Idle
  BY <1>1 DEF Quotable, Idle
<1>2. CASE quote # Idle
  <2>1. FollowingInv /\ QuotedWell(quote)
    BY <1>2 DEF PoolsInv, QuoteInv
  <2>2. \A t : Active(t) = ActiveIn(positions, t)
    BY <2>1, NowSound, FetchedNow
  <2>3. quote.end # "error" =>
          /\ quote.turns \in 0..Turns /\ quote.liquidity = ActiveIn(positions, quote.tick)
          /\ PriceAt(quote.tick) <= quote.price /\ quote.price <= PriceAt(quote.tick + 1)
    BY <2>1 DEF QuotedWell, Walks, Placed
  <2>4. quote.end = "error" => pool.price = Limit(quote.down)
    BY <2>1 DEF QuotedWell
  <2>5. quote.end # "error" => quote.turns <= Turns
    BY <2>3, TurnsAre
  <2> QED
    BY <2>2, <2>3, <2>4, <2>5, Zenon DEF Quotable
<1> QED
  BY <1>1, <1>2

(* v3_swap on a pool that is where its contract is: whatever the amount    *)
(* and the fee, no product, quotient or sum of a turn is out of its width; *)
(* each turn leaves liquidity, tick and price as the contract would have   *)
(* them there; and the loop ends, after as many turns as there are ticks.  *)
THEOREM QuotesGoThrough == PoolsSpec => []Quotable
<1>1. PoolsInit => QuoteInv
  BY DEF PoolsInit, IdentifyAndFetchPool, QuoteInit, QuoteInv
<1>2. PoolsInv /\ QuoteInv /\ [PoolsNext]_poolVars => QuoteInv'
  BY QuoteStep
<1>3. PoolsInv /\ QuoteInv => Quotable
  BY QuoteHolds
<1> QED
  BY <1>1, <1>2, <1>3, PoolsInvHolds, PTL DEF PoolsSpec
=============================================================================
