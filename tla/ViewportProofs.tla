--------------------------- MODULE ViewportProofs ---------------------------
(***************************************************************************)
(* What a menu shows of itself, for every screen, font and list of items:  *)
(* proofs about the scrolling of paralloid_ui (module Viewport).           *)
(***************************************************************************)
EXTENDS Viewport, TLAPS, NaturalsInduction, WellFoundedInduction

-----------------------------------------------------------------------------
(* Numbers.                                                                *)

LEMMA LeastNat ==
  ASSUME NEW S, S \subseteq Nat, S # {}
  PROVE  \E x \in S : \A y \in S : x <= y
<1>1. PICK R : R = OpToRel(<, Nat)
  OBVIOUS
<1>2. IsWellFoundedOn(R, Nat)
  BY <1>1, NatLessThanWellFounded
<1>3. \E x \in S : \A y \in S : ~(<<y, x>> \in R)
  BY <1>2, WFMin
<1>4. PICK x \in S : \A y \in S : ~(<<y, x>> \in R)
  BY <1>3
<1>5. \A y \in S : ~(y < x)
  BY <1>1, <1>4 DEF OpToRel
<1>6. QED
  BY <1>4, <1>5

LEMMA NatInduct ==
  ASSUME NEW S, 0 \in S, \A n \in Nat : n \in S => n + 1 \in S
  PROVE  Nat \subseteq S
<1>1. SUFFICES ASSUME Nat \ S # {} PROVE FALSE
  OBVIOUS
<1>2. PICK x \in Nat \ S : \A y \in Nat \ S : x <= y
  <2>1. PICK T : T = Nat \ S
    OBVIOUS
  <2>2. T \subseteq Nat /\ T # {}
    BY <1>1, <2>1
  <2>3. \E x \in T : \A y \in T : x <= y
    BY <2>2, LeastNat
  <2>4. QED
    BY <2>1, <2>3
<1>3. x # 0 /\ x - 1 \in Nat
  BY <1>2
<1>4. x - 1 \in S
  BY <1>2, <1>3
<1>5. QED
  BY <1>2, <1>3, <1>4

LEMMA MinFacts ==
  ASSUME NEW S, S \subseteq Nat, S # {}
  PROVE  Min(S) \in S /\ \A y \in S : Min(S) <= y
<1>1. \E x \in S : \A y \in S : x =< y
  BY LeastNat
<1>2. QED
  BY <1>1 DEF Min

LEMMA MaxFacts ==
  ASSUME NEW n \in Nat, NEW S, S \subseteq 0..n, S # {}
  PROVE  Max(S) \in S /\ \A y \in S : Max(S) >= y
<1> DEFINE T == {n - x : x \in S}
<1>1. T \subseteq Nat /\ T # {}
  <2>1. \A x \in S : n - x \in Nat
    OBVIOUS
  <2>2. T \subseteq Nat
    BY <2>1
  <2>3. PICK x : x \in S
    OBVIOUS
  <2>4. n - x \in T
    BY <2>3
  <2>5. QED
    BY <2>2, <2>4
<1>2. PICK t \in T : \A y \in T : t <= y
  <2> HIDE DEF T
  <2>1. QED
    BY <1>1, LeastNat
<1>3. PICK x \in S : t = n - x
  BY <1>2
<1>4. \A y \in S : x >= y
  <2>1. SUFFICES ASSUME NEW y \in S PROVE x >= y
    OBVIOUS
  <2>2. t <= n - y
    BY <1>2
  <2>3. QED
    BY <1>3, <2>2
<1>5. QED
  BY <1>4 DEF Max

LEMMA DivisionFacts ==
  ASSUME NEW a \in Nat, NEW c \in Nat \ {0}
  PROVE  /\ a \div c \in Nat /\ a % c \in 0..c - 1
         /\ a < c => a \div c = 0 /\ a % c = a
         /\ a = c => a \div c = 1 /\ a % c = 0
         /\ a >= c => a \div c >= 1
         /\ (a - c) \div c = (a \div c) - 1 /\ (a - c) % c = a % c
<1>1. a % c \in 0..c - 1 /\ a \div c \in Int
  OBVIOUS
<1>2. a = c * (a \div c) + (a % c)
  OBVIOUS
<1>3. a \div c \in Nat
  BY <1>1, <1>2
<1>4. ASSUME a < c PROVE a \div c = 0 /\ a % c = a
  BY <1>4
<1>5. ASSUME a = c PROVE a \div c = 1 /\ a % c = 0
  BY <1>5
<1>6. ASSUME a >= c PROVE a \div c >= 1
  <2>1. CASE a \div c = 0
    BY <1>1, <1>2, <1>6, <2>1
  <2>2. QED
    BY <1>3, <2>1
<1>7. (a - c) \div c = (a \div c) - 1 /\ (a - c) % c = a % c
  OBVIOUS
<1>8. QED
  BY <1>1, <1>3, <1>4, <1>5, <1>6, <1>7

(* The lines that a text is broken into, as measureTextHeight() counts them. *)
LEMMA MeasureFacts ==
  ASSUME NEW t \in Nat \ {0}
  PROVE  /\ MeasureTextHeight(t) \in Nat \ {0}
         /\ t <= characters_per_line => MeasureTextHeight(t) = font_height
         /\ t > characters_per_line =>
              MeasureTextHeight(t) = font_height + MeasureTextHeight(t - characters_per_line)
<1> DEFINE c == characters_per_line
           lines(a) == (a \div c) + IF a % c # 0 THEN 1 ELSE 0
<1>1. c \in Nat \ {0} /\ font_height \in Nat \ {0}
  BY ScreenAssumption
<1>2. \A a : MeasureTextHeight(a) = lines(a) * font_height
  BY DEF MeasureTextHeight
<1>3. t \div c \in Nat /\ t % c \in 0..c - 1
  BY <1>1, DivisionFacts
<1>4. lines(t) \in Nat \ {0}
  <2>1. CASE t < c
    <3>1. t \div c = 0 /\ t % c = t
      BY <1>1, <2>1, DivisionFacts
    <3>2. QED
      BY <3>1
  <2>2. CASE t >= c
    <3>1. t \div c >= 1
      BY <1>1, <2>2, DivisionFacts
    <3>2. QED
      BY <1>3, <3>1
  <2>3. QED
    BY <1>1, <2>1, <2>2
<1>5. ASSUME t <= c PROVE lines(t) = 1
  <2>1. CASE t < c
    <3>1. t \div c = 0 /\ t % c = t
      BY <1>1, <2>1, DivisionFacts
    <3>2. QED
      BY <3>1
  <2>2. CASE t = c
    BY <1>1, <2>2, DivisionFacts
  <2>3. QED
    BY <1>1, <1>5, <2>1, <2>2
<1>6. lines(t) = 1 + lines(t - c)
  <2>1. (t - c) \div c = (t \div c) - 1 /\ (t - c) % c = t % c
    BY <1>1, DivisionFacts
  <2>2. lines(t - c) = ((t \div c) - 1) + IF t % c # 0 THEN 1 ELSE 0
    BY <2>1, Zenon
  <2>3. QED
    BY <1>3, <2>2
<1>7. lines(t) * font_height \in Nat \ {0} /\ 1 * font_height = font_height
  <2> HIDE DEF lines
  <2>1. QED
    BY <1>1, <1>4
<1>8. lines(t) * font_height = font_height + lines(t - c) * font_height
  <2>1. lines(t - c) \in Int
    BY <1>1, <1>3, DivisionFacts
  <2>2. PICK m \in Int : m = lines(t - c)
    BY <2>1
  <2>3. lines(t) = 1 + m
    BY <1>6, <2>2
  <2>4. (1 + m) * font_height = font_height + m * font_height
    BY <1>1
  <2> HIDE DEF lines
  <2>5. QED
    BY <2>2, <2>3, <2>4
<1>9. QED
  <2> HIDE DEF lines
  <2>1. QED
    BY <1>2, <1>5, <1>7, <1>8

LEMMA RenderedRule ==
  \A t \in Nat : RenderedHeight[t] =
    IF t <= characters_per_line THEN font_height
    ELSE font_height + RenderedHeight[t - characters_per_line]
<1> DEFINE c == characters_per_line
           g == [t \in Nat |-> IF t = 0 THEN font_height ELSE MeasureTextHeight(t)]
           Rule(f) == [t \in Nat |-> IF t <= c THEN font_height ELSE font_height + f[t - c]]
<1>1. c \in Nat \ {0}
  BY ScreenAssumption
<1>2. \A t \in Nat : g[t] = IF t <= c THEN font_height ELSE font_height + g[t - c]
  <2>1. SUFFICES ASSUME NEW t \in Nat
                 PROVE  g[t] = IF t <= c THEN font_height ELSE font_height + g[t - c]
    OBVIOUS
  <2>2. CASE t = 0
    BY <1>1, <2>2
  <2>3. CASE t # 0 /\ t <= c
    <3>1. MeasureTextHeight(t) = font_height
      BY <2>3, MeasureFacts
    <3>2. QED
      BY <2>3, <3>1
  <2>4. CASE t > c
    <3>1. t # 0 /\ t - c \in Nat \ {0}
      BY <1>1, <2>4
    <3>2. MeasureTextHeight(t) = font_height + MeasureTextHeight(t - c)
      BY <2>4, <3>1, MeasureFacts
    <3>3. g[t] = MeasureTextHeight(t) /\ g[t - c] = MeasureTextHeight(t - c)
      BY <3>1
    <3>4. QED
      BY <1>1, <2>4, <3>2, <3>3
  <2>5. QED
    BY <1>1, <2>2, <2>3, <2>4
<1>3. g = Rule(g)
  <2>1. \A t \in Nat : Rule(g)[t] = g[t]
    BY <1>2
  <2>2. QED
    BY <2>1
<1>4. RenderedHeight = CHOOSE f : f = Rule(f)
  BY DEF RenderedHeight
<1>5. RenderedHeight = Rule(RenderedHeight)
  <2> HIDE DEF g, Rule
  <2>1. QED
    BY <1>3, <1>4
<1>6. QED
  BY <1>5

(* Each line break of renderLine() is one that measureTextHeight() counts. *)
LEMMA RenderedIsMeasured ==
  \A t \in Nat \ {0} : RenderedHeight[t] = MeasureTextHeight(t)
<1> DEFINE S == {t \in Nat \ {0} : RenderedHeight[t] # MeasureTextHeight(t)}
<1>1. SUFFICES ASSUME S # {} PROVE FALSE
  OBVIOUS
<1>2. PICK t \in S : \A u \in S : t <= u
  <2>1. S \subseteq Nat
    OBVIOUS
  <2> HIDE DEF S
  <2>2. QED
    BY <1>1, <2>1, LeastNat
<1>3. t \in Nat \ {0} /\ RenderedHeight[t] # MeasureTextHeight(t)
  OBVIOUS
<1>4. CASE t <= characters_per_line
  BY <1>3, <1>4, RenderedRule, MeasureFacts
<1>5. CASE t > characters_per_line
  <2>1. PICK u \in Nat \ {0} : u = t - characters_per_line /\ u < t
    BY <1>3, <1>5, ScreenAssumption
  <2>2. u \notin S
    BY <1>2, <1>3, <2>1
  <2>3. RenderedHeight[u] = MeasureTextHeight(u)
    BY <2>1, <2>2
  <2>4. RenderedHeight[t] = font_height + RenderedHeight[u]
    BY <1>3, <1>5, <2>1, RenderedRule, ScreenAssumption
  <2>5. MeasureTextHeight(t) = font_height + MeasureTextHeight(u)
    BY <1>3, <1>5, <2>1, MeasureFacts
  <2>6. QED
    BY <1>3, <2>3, <2>4, <2>5
<1>6. QED
  BY <1>3, <1>4, <1>5, ScreenAssumption

-----------------------------------------------------------------------------
(* Heights of items.                                                       *)

LEMMA AccumulatedRule ==
  ASSUME NEW h \in Seq(Nat \ {0})
  PROVE  \A n \in 0..Len(h) : Accumulated(h)[n] = IF n = 0 THEN 0 ELSE Accumulated(h)[n - 1] + h[n]
<1> DEFINE Upto(m, g) == g[0] = 0 /\ \A n \in 1..m : g[n] = g[n - 1] + h[n]
           S == {m \in Nat : m <= Len(h) => \E g \in [0..m -> Int] : Upto(m, g)}
           Rule(f) == [n \in 0..Len(h) |-> IF n = 0 THEN 0 ELSE f[n - 1] + h[n]]
<1>1. 0 \in S
  <2>1. PICK z : z = [n \in 0..0 |-> 0]
    OBVIOUS
  <2>2. z \in [0..0 -> Int] /\ z[0] = 0
    BY <2>1
  <2>3. \A n \in 1..0 : z[n] = z[n - 1] + h[n]
    OBVIOUS
  <2>4. \E g \in [0..0 -> Int] : Upto(0, g)
    BY <2>2, <2>3
  <2>5. QED
    BY <2>4
<1>2. ASSUME NEW m \in Nat, m \in S PROVE m + 1 \in S
  <2>1. SUFFICES ASSUME m + 1 <= Len(h)
                 PROVE  \E g \in [0..m + 1 -> Int] : Upto(m + 1, g)
    <3> HIDE DEF Upto
    <3>1. QED
      BY <2>1
  <2>2. PICK f \in [0..m -> Int] : Upto(m, f)
    <3> HIDE DEF Upto
    <3>1. m <= Len(h)
      BY <2>1
    <3>2. QED
      BY <1>2, <3>1
  <2>3. PICK g : g = [n \in 0..m + 1 |-> IF n = m + 1 THEN f[m] + h[n] ELSE f[n]]
    OBVIOUS
  <2>4. g \in [0..m + 1 -> Int]
    BY <2>1, <2>3
  <2>5. g[m + 1] = g[m] + h[m + 1]
    BY <2>3
  <2>6. \A n \in 1..m : g[n] = g[n - 1] + h[n]
    <3>1. SUFFICES ASSUME NEW n \in 1..m PROVE g[n] = g[n - 1] + h[n]
      OBVIOUS
    <3>2. g[n] = f[n] /\ g[n - 1] = f[n - 1]
      BY <2>3
    <3>3. QED
      BY <2>2, <3>2
  <2>7. g[0] = 0
    BY <2>2, <2>3
  <2>8. Upto(m + 1, g)
    <3>1. SUFFICES ASSUME NEW n \in 1..m + 1 PROVE g[n] = g[n - 1] + h[n]
      BY <2>7
    <3>2. CASE n = m + 1
      BY <2>5, <3>2
    <3>3. CASE n # m + 1
      <4>1. n \in 1..m
        BY <3>3
      <4>2. QED
        BY <2>6, <4>1
    <3>4. QED
      BY <3>2, <3>3
  <2>9. QED
    BY <2>4, <2>8
<1>3. Len(h) \in S
  <2> HIDE DEF S
  <2>1. QED
    BY <1>1, <1>2, NatInduct
<1>4. PICK g \in [0..Len(h) -> Int] : Upto(Len(h), g)
  BY <1>3
<1>5. g = Rule(g)
  <2>1. \A n \in 0..Len(h) : g[n] = IF n = 0 THEN 0 ELSE g[n - 1] + h[n]
    BY <1>4
  <2>2. QED
    BY <2>1
<1>6. Accumulated(h) = CHOOSE f : f = Rule(f)
  BY DEF Accumulated
<1>7. Accumulated(h) = Rule(Accumulated(h))
  <2> HIDE DEF Rule
  <2>1. QED
    BY <1>5, <1>6
<1>8. QED
  BY <1>7

LEMMA AccumulatedInt ==
  ASSUME NEW h \in Seq(Nat \ {0})
  PROVE  \A n \in 0..Len(h) : Accumulated(h)[n] \in Nat
<1>1. PICK a : a = Accumulated(h)
  OBVIOUS
<1> DEFINE S == {n \in Nat : n <= Len(h) => a[n] \in Nat}
<1>2. a[0] = 0 /\ \A n \in 1..Len(h) : a[n] = a[n - 1] + h[n]
  BY <1>1, AccumulatedRule
<1>3. 0 \in S
  BY <1>2
<1>4. ASSUME NEW n \in Nat, n \in S PROVE n + 1 \in S
  <2>1. SUFFICES ASSUME n + 1 <= Len(h) PROVE a[n + 1] \in Nat
    OBVIOUS
  <2>2. a[n] \in Nat
    BY <1>4, <2>1
  <2>3. a[n + 1] = a[n] + h[n + 1] /\ h[n + 1] \in Nat \ {0}
    BY <1>2, <2>1
  <2>4. QED
    BY <2>2, <2>3
<1>5. Nat \subseteq S
  <2> HIDE DEF S
  <2>1. QED
    BY <1>3, <1>4, NatInduct
<1>6. \A n \in 0..Len(h) : n \in S
  <2> HIDE DEF S
  <2>1. QED
    BY <1>5
<1>7. QED
  BY <1>1, <1>6

LEMMA AccumulatedGrows ==
  ASSUME NEW h \in Seq(Nat \ {0})
  PROVE  \A n \in 0..Len(h) : \A m \in 0..n :
           m < n => Accumulated(h)[m] < Accumulated(h)[n]
<1>1. PICK a : a = Accumulated(h)
  OBVIOUS
<1> DEFINE S == {n \in Nat : n <= Len(h) => \A m \in 0..n : m < n => a[m] < a[n]}
<1>2. /\ \A n \in 1..Len(h) : a[n] = a[n - 1] + h[n]
      /\ \A n \in 0..Len(h) : a[n] \in Nat
  BY <1>1, AccumulatedRule, AccumulatedInt
<1>3. 0 \in S
  BY <1>2
<1>4. ASSUME NEW n \in Nat, n \in S PROVE n + 1 \in S
  <2>1. SUFFICES ASSUME n + 1 <= Len(h), NEW m \in 0..n + 1, m < n + 1
                 PROVE  a[m] < a[n + 1]
    OBVIOUS
  <2>2. m < n => a[m] < a[n]
    BY <1>4, <2>1
  <2>3. a[n + 1] = a[n] + h[n + 1] /\ h[n + 1] \in Nat \ {0}
    BY <1>2, <2>1
  <2>4. a[m] \in Nat /\ a[n] \in Nat
    BY <1>2, <2>1
  <2>5. m = n \/ m < n
    BY <2>1
  <2>6. QED
    BY <2>2, <2>3, <2>4, <2>5
<1>5. Nat \subseteq S
  <2> HIDE DEF S
  <2>1. QED
    BY <1>3, <1>4, NatInduct
<1>6. \A n \in 0..Len(h) : n \in S
  <2> HIDE DEF S
  <2>1. QED
    BY <1>5
<1>7. QED
  BY <1>1, <1>6

LEMMA ListFacts ==
  ASSUME NEW items \in Lists
  PROVE  items \in Seq(Texts) /\ Len(items) \in Nat /\ Len(items) >= 1 /\ items # <<>>
<1>1. PICK n \in 1..MaxItems : items \in [1..n -> Texts]
  BY DEF Lists
<1>2. n \in Nat /\ n >= 1
  BY ScreenAssumption
<1>3. QED
  BY <1>1, <1>2

(* What is drawn of an item has the height that was expected of it.        *)
LEMMA HeightFacts ==
  ASSUME NEW items \in Seq(Texts)
  PROVE  /\ MeasureItemHeight(items) = RenderedItemHeight(items)
         /\ MeasureItemHeight(items) \in Seq(Nat \ {0})
         /\ Len(MeasureItemHeight(items)) = Len(items)
<1>1. \A t \in Texts : /\ RenderedHeight[t] = MeasureTextHeight(t)
                       /\ MeasureTextHeight(t) \in Nat \ {0}
  BY ScreenAssumption, RenderedIsMeasured, MeasureFacts
<1>2. \A k \in DOMAIN items : items[k] \in Texts
  OBVIOUS
<1>3. MeasureItemHeight(items) = RenderedItemHeight(items)
  BY <1>1, <1>2 DEF MeasureItemHeight, RenderedItemHeight
<1>4. MENU_ITEM_PADDING \in Nat
  BY ScreenAssumption DEF MENU_ITEM_PADDING
<1>5. \A k \in 1..Len(items) : 2 * MENU_ITEM_PADDING + MeasureTextHeight(items[k]) \in Nat \ {0}
  BY <1>1, <1>2, <1>4
<1>6. /\ MeasureItemHeight(items) \in Seq(Nat \ {0})
      /\ Len(MeasureItemHeight(items)) = Len(items)
  BY <1>5 DEF MeasureItemHeight
<1>7. QED
  BY <1>3, <1>6

(* More items are taller.                                                  *)
LEMMA ExtentGrows ==
  ASSUME NEW h \in Seq(Nat \ {0}), NEW i \in Nat, NEW j \in Nat, NEW k \in Nat,
         i <= j, j <= k, k < Len(h)
  PROVE  /\ Extent(h, i, j) \in Int /\ Extent(h, i, k) \in Int /\ Extent(h, j, k) \in Int
         /\ i < j => Extent(h, j, k) < Extent(h, i, k)
         /\ j < k => Extent(h, i, j) < Extent(h, i, k)
<1>1. PICK a : a = Accumulated(h)
  OBVIOUS
<1>2. /\ a[i] \in Nat /\ a[j] \in Nat /\ a[j + 1] \in Nat /\ a[k + 1] \in Nat
      /\ i < j => a[i] < a[j]
      /\ j < k => a[j + 1] < a[k + 1]
  <2>1. i \in 0..Len(h) /\ j \in 0..Len(h) /\ j + 1 \in 0..Len(h) /\ k + 1 \in 0..Len(h)
    OBVIOUS
  <2>2. a[i] \in Nat /\ a[j] \in Nat /\ a[j + 1] \in Nat /\ a[k + 1] \in Nat
    BY <1>1, <2>1, AccumulatedInt, Zenon
  <2>3. ASSUME i < j PROVE a[i] < a[j]
    <3>1. i \in 0..j
      OBVIOUS
    <3>2. QED
      BY <1>1, <2>1, <2>3, <3>1, AccumulatedGrows, Zenon
  <2>4. ASSUME j < k PROVE a[j + 1] < a[k + 1]
    <3>1. j + 1 \in 0..k + 1 /\ j + 1 < k + 1
      BY <2>4
    <3>2. QED
      BY <1>1, <2>1, <3>1, AccumulatedGrows, Zenon
  <2>5. QED
    BY <2>2, <2>3, <2>4
<1>3. /\ Extent(h, i, j) = a[j + 1] - a[i]
      /\ Extent(h, i, k) = a[k + 1] - a[i]
      /\ Extent(h, j, k) = a[k + 1] - a[j]
  BY <1>1 DEF Extent
<1>4. PICK x \in Nat, y \in Nat, u \in Nat, v \in Nat :
        x = a[i] /\ y = a[j] /\ u = a[j + 1] /\ v = a[k + 1]
  BY <1>2
<1>5. Extent(h, i, j) = u - x /\ Extent(h, i, k) = v - x /\ Extent(h, j, k) = v - y
  BY <1>3, <1>4
<1>6. (i < j => x < y) /\ (j < k => u < v)
  BY <1>2, <1>4
<1>7. QED
  BY <1>5, <1>6

-----------------------------------------------------------------------------
(* The searches.                                                           *)

LEMMA LastDisplayable ==
  ASSUME NEW items \in Lists, NEW first \in 0..Len(items) - 1, NEW room \in Int,
         NEW h, h = MeasureItemHeight(items), NEW r, r = FindLastDisplayableItem(items, first, room)
  PROVE  /\ r \in first..Len(items) - 1
         /\ r = first \/ Extent(h, first, r) <= room
         /\ r < Len(items) - 1 => Extent(h, first, r + 1) > room
<1> DEFINE over == {k \in first..Len(items) - 1 : Extent(h, first, k) > room}
<1>1. /\ h \in Seq(Nat \ {0}) /\ Len(h) = Len(items) /\ Len(items) \in Nat
      /\ \A k \in first..Len(items) - 1 : Extent(h, first, k) \in Int
  <2>1. h \in Seq(Nat \ {0}) /\ Len(h) = Len(items) /\ Len(items) \in Nat
    BY ListFacts, HeightFacts
  <2>2. \A k \in first..Len(items) - 1 : Extent(h, first, k) \in Int
    BY <2>1, ExtentGrows
  <2>3. QED
    BY <2>1, <2>2
<1>2. ForwardScan(items, first, room) = IF over = {} THEN Len(items) ELSE Min(over) - 1
  BY DEF ForwardScan, Overshot
<1>3. CASE over = {}
  <2>1. ForwardScan(items, first, room) = Len(items)
    BY <1>2, <1>3
  <2>2. r = Len(items) - 1
    BY <1>1, <2>1 DEF FindLastDisplayableItem
  <2>3. r \in first..Len(items) - 1
    BY <1>1, <2>2
  <2>4. Extent(h, first, r) \in Int /\ ~(Extent(h, first, r) > room)
    BY <1>1, <1>3, <2>3
  <2>5. Extent(h, first, r) <= room
    <3> HIDE DEF over
    <3>1. QED
      BY <2>4
  <2>6. QED
    <3> HIDE DEF over
    <3>1. QED
      BY <1>1, <2>2, <2>3, <2>5
<1>4. CASE over # {}
  <2>1. PICK m \in first..Len(items) - 1 :
          /\ m = Min(over) /\ Extent(h, first, m) > room
          /\ \A k \in first..m - 1 : ~(Extent(h, first, k) > room)
    <3>1. over \subseteq Nat
      BY <1>1
    <3>2. PICK m : m = Min(over)
      OBVIOUS
    <3>3. m \in over /\ \A k \in over : m <= k
      <4> HIDE DEF over
      <4>1. QED
        BY <1>4, <3>1, <3>2, MinFacts
    <3>4. m \in first..Len(items) - 1 /\ Extent(h, first, m) > room
      BY <3>3
    <3>5. \A k \in first..m - 1 : ~(Extent(h, first, k) > room)
      BY <1>1, <3>3, <3>4
    <3>6. QED
      BY <3>2, <3>4, <3>5
  <2>2. ForwardScan(items, first, room) = m - 1
    BY <1>2, <1>4, <2>1
  <2>3. CASE m = first
    <3>1. r = first
      BY <1>1, <2>2, <2>3 DEF FindLastDisplayableItem
    <3>2. ASSUME first < Len(items) - 1
          PROVE  Extent(h, first, first + 1) > room
      <4>1. /\ Extent(h, first, first) \in Int /\ Extent(h, first, first + 1) \in Int
            /\ Extent(h, first, first) < Extent(h, first, first + 1)
        BY <1>1, <3>2, ExtentGrows
      <4>2. QED
        BY <2>1, <2>3, <4>1
    <3>3. QED
      BY <1>1, <3>1, <3>2
  <2>4. CASE m > first
    <3>1. r = m - 1
      BY <1>1, <2>1, <2>2, <2>4 DEF FindLastDisplayableItem
    <3>2. r \in first..m - 1 /\ r + 1 = m
      BY <2>1, <2>4, <3>1
    <3>3. ~(Extent(h, first, r) > room)
      BY <2>1, <3>2
    <3>4. r \in first..Len(items) - 1
      BY <1>1, <2>1, <3>2
    <3>5. Extent(h, first, r) <= room
      <4>1. PICK x \in Int : x = Extent(h, first, r)
        BY <1>1, <3>4
      <4>2. QED
        BY <3>3, <4>1
    <3>6. QED
      BY <2>1, <3>2, <3>4, <3>5
  <2>5. QED
    BY <2>1, <2>3, <2>4
<1>5. QED
  BY <1>3, <1>4

LEMMA FirstDisplayable ==
  ASSUME NEW items \in Lists, NEW last \in 0..Len(items) - 1, NEW room \in Int,
         NEW h, h = MeasureItemHeight(items), NEW r, r = FindFirstDisplayableItem(items, last, room)
  PROVE  /\ r \in 0..last
         /\ r = last \/ Extent(h, r, last) <= room
<1> DEFINE over == {k \in 0..last : Extent(h, k, last) > room}
<1>1. /\ last \in Nat /\ Len(items) \in Nat /\ \A k \in 0..last : Extent(h, k, last) \in Int
  <2>1. h \in Seq(Nat \ {0}) /\ Len(h) = Len(items) /\ Len(items) \in Nat
    BY ListFacts, HeightFacts
  <2>2. QED
    BY <2>1, ExtentGrows
<1>2. BackwardScan(items, last, room) = IF over = {} THEN -1 ELSE Max(over) + 1
  BY DEF BackwardScan, Overshot
<1>3. CASE over = {}
  <2>1. BackwardScan(items, last, room) = -1
    BY <1>2, <1>3
  <2>2. r = 0
    BY <1>1, <2>1 DEF FindFirstDisplayableItem
  <2>3. ~(Extent(h, r, last) > room)
    BY <1>1, <1>3, <2>2
  <2>4. QED
    BY <1>1, <2>2, <2>3
<1>4. CASE over # {}
  <2>1. PICK m \in 0..last : m = Max(over) /\ \A k \in m + 1..last : ~(Extent(h, k, last) > room)
    <3>1. PICK m : m = Max(over)
      OBVIOUS
    <3>2. over \subseteq 0..last
      OBVIOUS
    <3>3. m \in over /\ \A k \in over : m >= k
      <4> HIDE DEF over
      <4>1. QED
        BY <1>1, <1>4, <3>1, <3>2, MaxFacts
    <3>4. m \in 0..last
      BY <3>3
    <3>5. \A k \in m + 1..last : ~(Extent(h, k, last) > room)
      BY <1>1, <3>3, <3>4
    <3>6. QED
      BY <3>1, <3>4, <3>5
  <2>2. BackwardScan(items, last, room) = m + 1
    BY <1>2, <1>4, <2>1
  <2>3. CASE m = last
    BY <1>1, <2>2, <2>3 DEF FindFirstDisplayableItem
  <2>4. CASE m < last
    <3>1. r = m + 1
      BY <1>1, <2>1, <2>2, <2>4 DEF FindFirstDisplayableItem
    <3>2. r \in m + 1..last /\ r \in 0..last
      BY <1>1, <2>1, <2>4, <3>1
    <3>3. QED
      BY <1>1, <2>1, <3>2
  <2>5. QED
    BY <1>1, <2>1, <2>3, <2>4
<1>5. QED
  BY <1>3, <1>4

-----------------------------------------------------------------------------
(* Renderings.                                                             *)

(* What renderMenu() draws of the items, from first to last: the selected  *)
(* one among others, no more than there is room for, and no less.          *)
Fits(title, items, selected, first, last) ==
  /\ selected \in 0..Len(items) - 1 /\ first \in 0..selected /\ last \in selected..Len(items) - 1
  /\ first < last => DrawnHeight(items, first, last) <= RemainingHeight(title)
  /\ last < Len(items) - 1 => DrawnHeight(items, first, last + 1) > RemainingHeight(title)

ViewInv ==
  \/ /\ menu_items = <<>> /\ menu_title = 0 /\ menu_extra_text = 0
     /\ selected_item = 0 /\ first_rendered_item = 0 /\ last_item = 0 /\ bottom = 0
  \/ /\ menu_items \in Lists /\ menu_title \in Titles /\ menu_extra_text \in Extras
     /\ Fits(menu_title, menu_items, selected_item, first_rendered_item, last_item)
     /\ bottom = ItemsEnd(menu_title, menu_items, first_rendered_item, last_item)
                   + ExtraHeight(menu_extra_text)

LEMMA ScreenFacts ==
  /\ DIVIDER_MARGIN \in Nat
  /\ \A t \in Titles : RenderedHeight[t] \in Nat /\ RemainingHeight(t) \in Int
<1>1. DIVIDER_MARGIN \in Nat /\ screen_height \in Nat /\ font_height \in Nat
  BY ScreenAssumption DEF DIVIDER_MARGIN
<1>2. \A t \in Titles : RenderedHeight[t] \in Nat
  BY ScreenAssumption, RenderedIsMeasured, MeasureFacts
<1>3. \A t \in Titles : RemainingHeight(t) \in Int
  BY <1>1, <1>2 DEF RemainingHeight
<1>4. QED
  BY <1>1, <1>2, <1>3

(* Where the items and the extra text end.                                 *)
LEMMA EndFacts ==
  ASSUME NEW title \in Titles, NEW items \in Lists, NEW extra \in Extras,
         NEW first \in Nat, NEW last \in Nat, first <= last, last < Len(items)
  PROVE  /\ ExtraHeight(extra) \in Nat /\ DrawnHeight(items, first, last) \in Nat
         /\ ItemsEnd(title, items, first, last) \in Nat
<1>1. ExtraHeight(extra) \in Nat
  BY ScreenAssumption, RenderedIsMeasured, MeasureFacts DEF ExtraHeight, Extras
<1>2. DrawnHeight(items, first, last) \in Nat
  <2>1. PICK h : h = RenderedItemHeight(items)
    OBVIOUS
  <2>2. h \in Seq(Nat \ {0}) /\ Len(h) = Len(items)
    BY <2>1, ListFacts, HeightFacts
  <2>3. PICK a : a = Accumulated(h)
    OBVIOUS
  <2>4. first \in 0..Len(h) /\ last + 1 \in 0..Len(h) /\ first \in 0..last + 1 /\ first < last + 1
    BY <2>2, ListFacts
  <2>5. a[first] \in Nat /\ a[last + 1] \in Nat
    BY <2>2, <2>3, <2>4, AccumulatedInt, Zenon
  <2>6. a[first] < a[last + 1]
    BY <2>2, <2>3, <2>4, AccumulatedGrows, Zenon
  <2>7. DrawnHeight(items, first, last) = a[last + 1] - a[first]
    BY <2>1, <2>3 DEF DrawnHeight, Extent
  <2>8. QED
    BY <2>5, <2>6, <2>7
<1>3. QED
  BY <1>1, <1>2, ScreenFacts DEF ItemsEnd

LEMMA RenderFits ==
  ASSUME NEW title \in Titles, NEW items \in Lists, NEW extra \in Extras,
         NEW selected \in 0..Len(items) - 1,
         first_rendered_item \in Nat, RenderMenu(title, items, extra, selected)
  PROVE  /\ Fits(title, items, selected, first_rendered_item', last_item')
         /\ first_rendered_item' > first_rendered_item =>
              DrawnHeight(items, first_rendered_item, selected) > RemainingHeight(title)
<1>1. PICK room \in Int : room = RemainingHeight(title)
  BY ScreenFacts
<1>2. PICK h : h = MeasureItemHeight(items)
  OBVIOUS
<1>3. /\ h \in Seq(Nat \ {0}) /\ Len(h) = Len(items) /\ Len(items) \in Nat
      /\ \A i, j : DrawnHeight(items, i, j) = Extent(h, i, j)
  BY <1>2, ListFacts, HeightFacts DEF DrawnHeight
<1>4. PICK start : start = StartItem(selected)
  OBVIOUS
<1>5. start \in 0..selected /\ start <= first_rendered_item
  BY <1>3, <1>4 DEF StartItem
<1>6. PICK reach : reach = FindLastDisplayableItem(items, start, room)
  OBVIOUS
<1>7. /\ reach \in start..Len(items) - 1
      /\ reach = start \/ Extent(h, start, reach) <= room
      /\ reach < Len(items) - 1 => Extent(h, start, reach + 1) > room
  <2>1. start \in 0..Len(items) - 1
    BY <1>3, <1>5
  <2>2. QED
    BY <1>2, <1>6, <2>1, LastDisplayable
<1>8. CASE reach >= selected
  <2>1. first_rendered_item' = start /\ last_item' = reach
    BY <1>1, <1>3, <1>4, <1>5, <1>6, <1>7, <1>8 DEF RenderMenu
  <2>2. Fits(title, items, selected, start, reach)
    BY <1>1, <1>3, <1>5, <1>7, <1>8 DEF Fits
  <2>3. ~(first_rendered_item' > first_rendered_item)
    BY <1>3, <1>5, <2>1
  <2>4. QED
    BY <2>1, <2>2, <2>3
<1>9. CASE reach < selected
  <2>1. PICK back : back = FindFirstDisplayableItem(items, selected, room)
    OBVIOUS
  <2>2. back \in 0..selected /\ (back = selected \/ Extent(h, back, selected) <= room)
    BY <1>2, <2>1, FirstDisplayable
  <2>3. PICK end : end = FindLastDisplayableItem(items, back, room)
    OBVIOUS
  <2>4. /\ end \in back..Len(items) - 1
        /\ end = back \/ Extent(h, back, end) <= room
        /\ end < Len(items) - 1 => Extent(h, back, end + 1) > room
    <3>1. back \in 0..Len(items) - 1
      BY <1>3, <2>2
    <3>2. QED
      BY <1>2, <2>3, <3>1, LastDisplayable
  <2>5. first_rendered_item' = back /\ last_item' = end
    BY <1>1, <1>4, <1>6, <1>9, <2>1, <2>3 DEF RenderMenu, LastBelow
  <2>6. end >= selected
    <3>1. SUFFICES ASSUME end < selected PROVE FALSE
      BY <1>3, <2>2, <2>4
    <3>2. Extent(h, back, end + 1) > room /\ back # selected
      BY <1>3, <2>2, <2>4, <3>1
    <3>3. Extent(h, back, end + 1) <= Extent(h, back, selected)
      <4>1. end + 1 \in Nat /\ back <= end + 1 /\ end + 1 <= selected /\ selected < Len(h)
        BY <1>3, <2>2, <2>4, <3>1
      <4>2. CASE end + 1 = selected
        <5>1. Extent(h, back, selected) \in Int
          BY <1>3, <2>2, <4>1, ExtentGrows
        <5>2. QED
          BY <4>2, <5>1
      <4>3. CASE end + 1 < selected
        <5>1. /\ Extent(h, back, end + 1) \in Int /\ Extent(h, back, selected) \in Int
              /\ Extent(h, back, end + 1) < Extent(h, back, selected)
          BY <1>3, <2>2, <4>1, <4>3, ExtentGrows
        <5>2. QED
          BY <5>1
      <4>4. QED
        BY <1>3, <2>2, <2>4, <4>1, <4>2, <4>3
    <3>4. Extent(h, back, end + 1) \in Int /\ Extent(h, back, selected) \in Int
      <4>1. back \in Nat /\ end + 1 \in Nat /\ selected \in Nat
            /\ back <= end + 1 /\ end + 1 <= selected /\ selected < Len(h)
        BY <1>3, <2>2, <2>4, <3>1
      <4>2. QED
        BY <1>3, <4>1, ExtentGrows
    <3>5. QED
      BY <2>2, <3>2, <3>3, <3>4
  <2>7. Fits(title, items, selected, back, end)
    BY <1>1, <1>3, <2>2, <2>4, <2>6 DEF Fits
  <2>8. first_rendered_item' > first_rendered_item =>
          DrawnHeight(items, first_rendered_item, selected) > RemainingHeight(title)
    <3>1. SUFFICES ASSUME back > first_rendered_item
                   PROVE  Extent(h, first_rendered_item, selected) > room
      BY <1>1, <1>3, <2>5
    <3>2. start = first_rendered_item
      BY <1>3, <1>4, <2>2, <3>1 DEF StartItem
    <3>3. Extent(h, start, reach + 1) > room
      BY <1>3, <1>5, <1>7, <1>9
    <3>4. /\ start \in Nat /\ reach + 1 \in Nat /\ selected \in Nat
          /\ start <= reach + 1 /\ reach + 1 <= selected /\ selected < Len(h)
      BY <1>3, <1>5, <1>7, <1>9
    <3>5. CASE reach + 1 = selected
      BY <3>2, <3>3, <3>5
    <3>6. CASE reach + 1 < selected
      <4>1. /\ Extent(h, start, reach + 1) \in Int /\ Extent(h, start, selected) \in Int
            /\ Extent(h, start, reach + 1) < Extent(h, start, selected)
        BY <1>3, <3>4, <3>6, ExtentGrows
      <4>2. QED
        BY <3>2, <3>3, <4>1
    <3>7. QED
      BY <3>4, <3>5, <3>6
  <2>9. QED
    BY <2>5, <2>7, <2>8
<1>10. QED
  BY <1>3, <1>5, <1>7, <1>8, <1>9

(* Every action renders a list with a selection within it.                 *)
LEMMA NextShows ==
  ASSUME ViewInv, Next
  PROVE  \E title \in Titles, items \in Lists, extra \in Extras :
           \E selected \in 0..Len(items) - 1 : Show(title, items, extra, selected)
<1>1. CASE SwitchMenu
  <2>1. PICK title \in Titles, items \in Lists, extra \in Extras : Show(title, items, extra, 0)
    BY <1>1 DEF SwitchMenu
  <2>2. 0 \in 0..Len(items) - 1
    BY ListFacts
  <2>3. QED
    BY <2>1, <2>2
<1>2. ASSUME menu_items # <<>>
      PROVE  /\ menu_items \in Lists /\ menu_title \in Titles /\ Len(menu_items) \in Nat
             /\ menu_extra_text \in Extras
             /\ selected_item \in 0..Len(menu_items) - 1
  BY <1>2, ListFacts DEF ViewInv, Fits
<1>3. CASE RefreshMenu
  <2>1. PICK items \in Lists, extra \in Extras :
          Show(menu_title, items, extra,
               IF selected_item >= Len(items) THEN Len(items) - 1 ELSE selected_item)
    BY <1>3 DEF RefreshMenu
  <2>2. (IF selected_item >= Len(items) THEN Len(items) - 1 ELSE selected_item) \in 0..Len(items) - 1
    BY <1>2, <1>3, ListFacts DEF RefreshMenu
  <2>3. menu_title \in Titles
    BY <1>2, <1>3 DEF RefreshMenu
  <2>4. QED
    BY <2>1, <2>2, <2>3
<1>4. CASE VolumeUp
  <2>1. (IF selected_item > 0 THEN selected_item - 1 ELSE Last) \in 0..Len(menu_items) - 1
    BY <1>2, <1>4 DEF VolumeUp, Last
  <2>2. QED
    BY <1>2, <1>4, <2>1 DEF VolumeUp
<1>5. CASE VolumeDown
  <2>1. (IF selected_item < Last THEN selected_item + 1 ELSE 0) \in 0..Len(menu_items) - 1
    BY <1>2, <1>5 DEF VolumeDown, Last
  <2>2. QED
    BY <1>2, <1>5, <2>1 DEF VolumeDown
<1>6. QED
  BY <1>1, <1>3, <1>4, <1>5 DEF Next

LEMMA ViewStep ==
  ASSUME ViewInv, Next
  PROVE  /\ ViewInv'
         /\ first_rendered_item' > first_rendered_item =>
              DrawnHeight(menu_items', first_rendered_item, selected_item')
                > RemainingHeight(menu_title')
<1>1. PICK title \in Titles, items \in Lists, extra \in Extras :
        \E selected \in 0..Len(items) - 1 : Show(title, items, extra, selected)
  BY NextShows
<1>2. PICK selected \in 0..Len(items) - 1 : Show(title, items, extra, selected)
  BY <1>1
<1>3. first_rendered_item \in Nat
  BY ListFacts DEF ViewInv, Fits
<1>4. /\ menu_title' = title /\ menu_items' = items /\ selected_item' = selected
      /\ menu_extra_text' = extra /\ RenderMenu(title, items, extra, selected)
      /\ bottom' = ItemsEnd(title, items, first_rendered_item', last_item') + ExtraHeight(extra)
  BY <1>2 DEF Show, RenderMenu
<1>5. /\ Fits(title, items, selected, first_rendered_item', last_item')
      /\ first_rendered_item' > first_rendered_item =>
           DrawnHeight(items, first_rendered_item, selected) > RemainingHeight(title)
  BY <1>3, <1>4, RenderFits
<1>6. QED
  BY <1>4, <1>5 DEF ViewInv, Fits, DrawnHeight, RemainingHeight, ItemsEnd, ExtraHeight

LEMMA ViewStays == ViewInv /\ UNCHANGED vars => ViewInv'
  BY DEF ViewInv, vars, Fits, DrawnHeight, RemainingHeight, ItemsEnd, ExtraHeight

LEMMA ViewInit == Init => ViewInv
  BY DEF Init, ViewInv

LEMMA ViewAlways == Spec => []ViewInv
<1>1. ViewInv /\ [Next]_vars => ViewInv'
  BY ViewStep, ViewStays
<1>2. QED
  BY ViewInit, <1>1, PTL DEF Spec

-----------------------------------------------------------------------------
(* What is drawn lies within the list it is drawn from, so that at() never *)
(* throws.                                                                 *)
THEOREM ViewWithinList == Spec => []TypeOK
<1>1. ViewInv => TypeOK
  <2>1. SUFFICES ASSUME ViewInv PROVE TypeOK
    OBVIOUS
  <2>2. CASE menu_items = <<>>
    <3>1. menu_items \notin Lists
      BY <2>2, ListFacts
    <3>2. QED
      BY <2>1, <2>2, <3>1 DEF ViewInv, TypeOK, Extras
  <2>3. CASE menu_items # <<>>
    <3>1. /\ menu_items \in Lists /\ menu_title \in Titles /\ Len(menu_items) \in Nat
          /\ Fits(menu_title, menu_items, selected_item, first_rendered_item, last_item)
          /\ menu_extra_text \in Extras
          /\ bottom = ItemsEnd(menu_title, menu_items, first_rendered_item, last_item)
                        + ExtraHeight(menu_extra_text)
      BY <2>1, <2>3, ListFacts DEF ViewInv
    <3>2. {selected_item, first_rendered_item, last_item} \subseteq 0..Last
      BY <3>1 DEF Fits, Last
    <3>3. bottom \in Nat
      <4>1. /\ first_rendered_item \in Nat /\ last_item \in Nat
            /\ first_rendered_item <= last_item /\ last_item < Len(menu_items)
        BY <3>1 DEF Fits
      <4>2. /\ ItemsEnd(menu_title, menu_items, first_rendered_item, last_item) \in Nat
            /\ ExtraHeight(menu_extra_text) \in Nat
        BY <3>1, <4>1, EndFacts
      <4>3. QED
        BY <3>1, <4>2
    <3>4. QED
      BY <2>3, <3>1, <3>2, <3>3 DEF TypeOK
  <2>4. QED
    BY <2>2, <2>3
<1>2. QED
  BY ViewAlways, <1>1, PTL

(* The selected item is among those drawn, whatever the screen, the font   *)
(* and the lengths of the titles, and after any change of the menu, its    *)
(* items or the selection.                                                 *)
THEOREM SelectionDrawn == Spec => []SelectedInView
<1>1. ViewInv => SelectedInView
  BY ListFacts DEF ViewInv, Fits, SelectedInView
<1>2. QED
  BY ViewAlways, <1>1, PTL

(* Unless a single item is drawn, the items and both dividers end at least *)
(* a line above the bottom of the screen: the heights that the items were  *)
(* expected to have are those that they have.  So all that is drawn ends   *)
(* on the screen if the extra text, of any length, has no more than a line. *)
THEOREM MenuEndsOnScreen == Spec => []EndsOnScreen
<1>1. ViewInv => EndsOnScreen
  <2>1. SUFFICES ASSUME ViewInv, menu_items # <<>>, first_rendered_item < last_item
                 PROVE  /\ bottom - ExtraHeight(menu_extra_text) + 1 + font_height <= screen_height
                        /\ ExtraHeight(menu_extra_text) <= font_height => bottom < screen_height
    BY DEF EndsOnScreen
  <2>2. /\ menu_items \in Lists /\ menu_title \in Titles /\ menu_extra_text \in Extras
        /\ Fits(menu_title, menu_items, selected_item, first_rendered_item, last_item)
        /\ bottom = ItemsEnd(menu_title, menu_items, first_rendered_item, last_item)
                      + ExtraHeight(menu_extra_text)
    BY <2>1 DEF ViewInv
  <2>3. /\ first_rendered_item \in Nat /\ last_item \in Nat
        /\ first_rendered_item <= last_item /\ last_item < Len(menu_items)
    BY <2>2, ListFacts DEF Fits
  <2>4. PICK x \in Nat : x = DrawnHeight(menu_items, first_rendered_item, last_item)
    BY <2>2, <2>3, EndFacts
  <2>5. PICK y \in Nat : y = ExtraHeight(menu_extra_text)
    BY <2>2, <2>3, EndFacts
  <2>6. PICK t \in Nat : t = RenderedHeight[menu_title]
    BY <2>2, ScreenFacts
  <2>7. bottom = t + 2 * DIVIDER_MARGIN + x + 2 * DIVIDER_MARGIN + y
    BY <2>2, <2>4, <2>5, <2>6 DEF ItemsEnd
  <2>8. x <= screen_height - (t + 2 * DIVIDER_MARGIN) - 2 * DIVIDER_MARGIN - 1 - font_height
    BY <2>1, <2>2, <2>4, <2>6 DEF Fits, RemainingHeight
  <2>9. bottom - y + 1 + font_height <= screen_height
    BY <2>7, <2>8, ScreenFacts, ScreenAssumption
  <2>10. y <= font_height => bottom < screen_height
    BY <2>7, <2>9, ScreenFacts, ScreenAssumption
  <2>11. QED
    BY <2>5, <2>9, <2>10
<1>2. QED
  BY ViewAlways, <1>1, PTL

(* No room is left for the item behind the last one drawn.                 *)
THEOREM RoomUsed == Spec => []RoomIsUsed
<1>1. ViewInv => RoomIsUsed
  BY DEF ViewInv, Fits, RoomIsUsed, Last
<1>2. QED
  BY ViewAlways, <1>1, PTL

(* The view moves down only to show the selected item.                     *)
THEOREM ScrollingNeeded == Spec => ScrollsOnlyIfNeeded
<1>1. ViewInv /\ [Next]_vars =>
        [first_rendered_item' > first_rendered_item =>
           DrawnHeight(menu_items', first_rendered_item, selected_item')
             > RemainingHeight(menu_title')]_vars
  BY ViewStep
<1>2. QED
  BY ViewAlways, <1>1, PTL DEF Spec, ScrollsOnlyIfNeeded
=============================================================================
