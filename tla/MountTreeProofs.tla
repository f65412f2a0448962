-------------------------- MODULE MountTreeProofs --------------------------
(***************************************************************************)
(* Where the mounts are on their journey, for every first stage and every  *)
(* target: proofs about move_mount_tree and files/init (module MountTree). *)
(***************************************************************************)
EXTENDS MountTree, TLAPS, NaturalsInduction, WellFoundedInduction, SequenceTheorems

-----------------------------------------------------------------------------
(* Recursion over a list.                                                  *)

LEMMA NatInduct ==
  ASSUME NEW S, 0 \in S, \A n \in Nat : n \in S => n + 1 \in S
  PROVE  Nat \subseteq S
<1>1. SUFFICES ASSUME Nat \ S # {} PROVE FALSE
  OBVIOUS
<1>2. PICK R : R = OpToRel(<, Nat)
  OBVIOUS
<1>3. IsWellFoundedOn(R, Nat)
  BY <1>2, NatLessThanWellFounded
<1>4. PICK T : T = Nat \ S
  OBVIOUS
<1>5. PICK x \in T : \A y \in T : ~(<<y, x>> \in R)
  <2>1. T \subseteq Nat /\ T # {}
    BY <1>1, <1>4
  <2>2. QED
    BY <1>3, <2>1, WFMin
<1>6. \A y \in T : ~(y < x)
  BY <1>2, <1>4, <1>5 DEF OpToRel
<1>7. x \in Nat /\ x # 0 /\ x - 1 \in Nat
  BY <1>4, <1>5
<1>8. x - 1 \in S
  BY <1>4, <1>6, <1>7
<1>9. QED
  BY <1>4, <1>5, <1>7, <1>8

(* A function defined by what each value makes of the one before.          *)
Follows(f, n, a, next) == f[0] = a /\ \A i \in 1..n : f[i] = next[i][f[i - 1]]

LEMMA Recursion ==
  ASSUME NEW n \in Nat, NEW V, NEW a \in V, NEW next \in [1..n -> [V -> V]]
  PROVE  \E f \in [0..n -> V] : Follows(f, n, a, next)
<1> DEFINE Upto(m, f) == f[0] = a /\ \A i \in 1..m : f[i] = next[i][f[i - 1]]
           S == {m \in Nat : m <= n => \E f \in [0..m -> V] : Upto(m, f)}
<1>1. 0 \in S
  <2>1. PICK z : z = [i \in 0..0 |-> a]
    OBVIOUS
  <2>2. z \in [0..0 -> V] /\ z[0] = a
    BY <2>1
  <2>3. \A i \in 1..0 : z[i] = next[i][z[i - 1]]
    OBVIOUS
  <2>4. \E f \in [0..0 -> V] : Upto(0, f)
    BY <2>2, <2>3
  <2>5. QED
    BY <2>4
<1>2. ASSUME NEW m \in Nat, m \in S PROVE m + 1 \in S
  <2>1. SUFFICES ASSUME m + 1 <= n PROVE \E f \in [0..m + 1 -> V] : Upto(m + 1, f)
    <3> HIDE DEF Upto
    <3>1. QED
      BY <2>1
  <2>2. PICK g \in [0..m -> V] : Upto(m, g)
    <3> HIDE DEF Upto
    <3>1. m <= n
      BY <2>1
    <3>2. QED
      BY <1>2, <3>1
  <2>3. PICK v : v = next[m + 1][g[m]]
    OBVIOUS
  <2>4. v \in V
    <3>1. m + 1 \in 1..n /\ g[m] \in V
      BY <2>1, <2>2
    <3>2. QED
      BY <2>3, <3>1
  <2>5. PICK f : f = [i \in 0..m + 1 |-> IF i = m + 1 THEN v ELSE g[i]]
    OBVIOUS
  <2>6. f \in [0..m + 1 -> V]
    BY <2>2, <2>4, <2>5
  <2>7. f[m + 1] = v /\ f[m] = g[m] /\ f[0] = g[0]
    BY <2>5
  <2>8. \A i \in 1..m : f[i] = g[i] /\ f[i - 1] = g[i - 1]
    BY <2>5
  <2>9. \A i \in 1..m + 1 : f[i] = next[i][f[i - 1]]
    <3>1. SUFFICES ASSUME NEW i \in 1..m + 1 PROVE f[i] = next[i][f[i - 1]]
      OBVIOUS
    <3>2. CASE i = m + 1
      <4>1. i - 1 = m
        BY <3>2
      <4>2. QED
        BY <2>3, <2>7, <3>2, <4>1
    <3>3. CASE i # m + 1
      <4>1. i \in 1..m
        BY <3>3
      <4>2. QED
        BY <2>2, <2>8, <4>1
    <3>4. QED
      BY <3>2, <3>3
  <2>10. Upto(m + 1, f)
    BY <2>2, <2>7, <2>9
  <2>11. QED
    BY <2>6, <2>10
<1>3. n \in S
  <2> HIDE DEF S
  <2>1. QED
    BY <1>1, <1>2, NatInduct
<1>4. QED
  BY <1>3 DEF Follows

-----------------------------------------------------------------------------
(* Lists made by looking at the entries of another one after the other.    *)

(* The i-th entry v[i] is taken if the list so far is in take[i].          *)
Scans(f, n, v, take) ==
  /\ f[0] = <<>>
  /\ \A i \in 1..n : f[i] = IF f[i - 1] \in take[i] THEN Append(f[i - 1], v[i]) ELSE f[i - 1]

(* After m entries: at says from where each one comes.                     *)
Scanned(f, m, v, take, at) ==
  /\ at \in [1..Len(f[m]) -> 1..m]
  /\ \A k \in 1..Len(f[m]) :
       f[m][k] = v[at[k]] /\ f[at[k] - 1] \in take[at[k]] /\ Len(f[at[k] - 1]) = k - 1
  /\ \A k \in 1..Len(f[m]) : \A j \in 1..k - 1 : at[j] < at[k]
  /\ \A i \in 0..m : /\ Len(f[i]) <= Len(f[m])
                     /\ \A j \in 1..Len(f[i]) : f[i][j] = f[m][j] /\ at[j] <= i
  /\ \A i \in 1..m : f[i - 1] \in take[i] => \E k \in 1..Len(f[m]) : at[k] = i

LEMMA ScanExists ==
  ASSUME NEW n \in Nat, NEW X, NEW v \in [1..n -> X], NEW take
  PROVE  \E f \in [0..n -> Seq(X)] : Scans(f, n, v, take)
<1>1. PICK next : next = [i \in 1..n |-> [l \in Seq(X) |-> IF l \in take[i] THEN Append(l, v[i]) ELSE l]]
  OBVIOUS
<1>2. next \in [1..n -> [Seq(X) -> Seq(X)]]
  BY <1>1
<1>3. PICK f \in [0..n -> Seq(X)] : Follows(f, n, <<>>, next)
  <2>1. PICK V, a : V = Seq(X) /\ a = <<>>
    OBVIOUS
  <2>2. n \in Nat /\ a \in V /\ next \in [1..n -> [V -> V]]
    BY <1>2, <2>1
  <2>3. \E f \in [0..n -> V] : Follows(f, n, a, next)
    BY <2>2, Recursion, Zenon
  <2>4. QED
    BY <2>1, <2>3
<1>4. \A i \in 1..n : f[i] = IF f[i - 1] \in take[i] THEN Append(f[i - 1], v[i]) ELSE f[i - 1]
  <2>1. SUFFICES ASSUME NEW i \in 1..n
                 PROVE  f[i] = IF f[i - 1] \in take[i] THEN Append(f[i - 1], v[i]) ELSE f[i - 1]
    OBVIOUS
  <2>2. PICK l \in Seq(X) : l = f[i - 1]
    BY <1>3
  <2>3. next[i][l] = IF l \in take[i] THEN Append(l, v[i]) ELSE l
    BY <1>1
  <2>4. QED
    BY <1>3, <2>2, <2>3 DEF Follows
<1>5. QED
  BY <1>3, <1>4 DEF Scans, Follows

LEMMA ScanFacts ==
  ASSUME NEW n \in Nat, NEW X, NEW v \in [1..n -> X], NEW take,
         NEW f \in [0..n -> Seq(X)], Scans(f, n, v, take)
  PROVE  \E at : Scanned(f, n, v, take, at)
<1> DEFINE S == {m \in Nat : m <= n => \E at : Scanned(f, m, v, take, at)}
<1>1. 0 \in S
  <2>1. PICK at : at = [k \in 1..0 |-> 0]
    OBVIOUS
  <2>2. f[0] = <<>> /\ Len(f[0]) = 0
    BY DEF Scans
  <2>3. at \in [1..Len(f[0]) -> 1..0]
    BY <2>1, <2>2
  <2>4. Scanned(f, 0, v, take, at)
    BY <2>2, <2>3 DEF Scanned
  <2>5. QED
    BY <2>4
<1>2. ASSUME NEW m \in Nat, m \in S PROVE m + 1 \in S
  <2>1. SUFFICES ASSUME m + 1 <= n PROVE \E at : Scanned(f, m + 1, v, take, at)
    OBVIOUS
  <2>2. PICK at : Scanned(f, m, v, take, at)
    BY <1>2, <2>1
  <2>3. PICK l \in Seq(X) : l = f[m]
    BY <2>1
  <2>4. PICK len \in Nat : len = Len(l)
    BY <2>3
  <2>5. /\ at \in [1..len -> 1..m]
        /\ \A k \in 1..len : l[k] = v[at[k]] /\ f[at[k] - 1] \in take[at[k]] /\ Len(f[at[k] - 1]) = k - 1
        /\ \A k \in 1..len : \A j \in 1..k - 1 : at[j] < at[k]
        /\ \A i \in 0..m : /\ Len(f[i]) <= len
                           /\ \A j \in 1..Len(f[i]) : f[i][j] = l[j] /\ at[j] <= i
        /\ \A i \in 1..m : f[i - 1] \in take[i] => \E k \in 1..len : at[k] = i
    BY <2>2, <2>3, <2>4 DEF Scanned
  <2>6. f[m + 1] = IF l \in take[m + 1] THEN Append(l, v[m + 1]) ELSE l
    <3>1. m + 1 \in 1..n /\ (m + 1) - 1 = m
      BY <2>1
    <3>2. QED
      BY <2>3, <3>1 DEF Scans
  <2>7. \A i \in 0..m : Len(f[i]) \in Nat /\ f[i] \in Seq(X)
    BY <2>1
  <2>8. CASE l \notin take[m + 1]
    <3>1. f[m + 1] = l /\ Len(f[m + 1]) = len
      BY <2>4, <2>6, <2>8
    <3>2. at \in [1..len -> 1..m + 1]
      BY <2>5
    <3>3. \A i \in 0..m + 1 : /\ Len(f[i]) <= len
                             /\ \A j \in 1..Len(f[i]) : f[i][j] = l[j] /\ at[j] <= i
      <4>1. \A j \in 1..len : at[j] <= m + 1
        BY <2>5
      <4>2. SUFFICES ASSUME NEW i \in 0..m + 1
                     PROVE  /\ Len(f[i]) <= len
                            /\ \A j \in 1..Len(f[i]) : f[i][j] = l[j] /\ at[j] <= i
        OBVIOUS
      <4>3. CASE i = m + 1
        BY <3>1, <4>1, <4>3
      <4>4. CASE i # m + 1
        <5>1. i \in 0..m
          BY <4>4
        <5>2. QED
          BY <2>5, <5>1
      <4>5. QED
        BY <4>3, <4>4
    <3>4. \A i \in 1..m + 1 : f[i - 1] \in take[i] => \E k \in 1..len : at[k] = i
      <4>1. SUFFICES ASSUME NEW i \in 1..m + 1, f[i - 1] \in take[i]
                     PROVE  \E k \in 1..len : at[k] = i
        OBVIOUS
      <4>2. i # m + 1
        <5>1. SUFFICES ASSUME i = m + 1 PROVE FALSE
          OBVIOUS
        <5>2. i - 1 = m
          BY <5>1
        <5>3. QED
          BY <2>3, <2>8, <4>1, <5>1, <5>2
      <4>3. i \in 1..m
        BY <4>2
      <4>4. QED
        BY <2>5, <4>1, <4>3
    <3>5. Scanned(f, m + 1, v, take, at)
      BY <2>5, <3>1, <3>2, <3>3, <3>4 DEF Scanned
    <3>6. QED
      BY <3>5
  <2>9. CASE l \in take[m + 1]
    <3>1. PICK g \in Seq(X) : g = Append(l, v[m + 1])
      <4>1. PICK x \in X : x = v[m + 1]
        BY <2>1
      <4>2. Append(l, x) \in Seq(X)
        OBVIOUS
      <4>3. QED
        BY <4>1, <4>2
    <3>2. /\ f[m + 1] = g /\ Len(g) = len + 1 /\ g[len + 1] = v[m + 1]
          /\ \A k \in 1..len : g[k] = l[k]
      BY <2>1, <2>4, <2>6, <2>9, <3>1
    <3>3. PICK new : new = [k \in 1..len + 1 |-> IF k = len + 1 THEN m + 1 ELSE at[k]]
      OBVIOUS
    <3>4. /\ new[len + 1] = m + 1 /\ \A k \in 1..len : new[k] = at[k] /\ at[k] \in 1..m
          /\ new \in [1..len + 1 -> 1..m + 1]
      BY <2>5, <3>3
    <3>5. \A k \in 1..len + 1 : k \in 1..len \/ k = len + 1
      OBVIOUS
    <3>6. \A k \in 1..len + 1 :
             g[k] = v[new[k]] /\ f[new[k] - 1] \in take[new[k]] /\ Len(f[new[k] - 1]) = k - 1
      <4>1. ASSUME NEW k \in 1..len
            PROVE  g[k] = v[new[k]] /\ f[new[k] - 1] \in take[new[k]] /\ Len(f[new[k] - 1]) = k - 1
        BY <2>5, <3>2, <3>4
      <4>2. /\ g[len + 1] = v[new[len + 1]] /\ f[new[len + 1] - 1] \in take[new[len + 1]]
            /\ Len(f[new[len + 1] - 1]) = (len + 1) - 1
        <5>1. new[len + 1] - 1 = m
          BY <3>4
        <5>2. QED
          BY <2>3, <2>4, <2>9, <3>2, <3>4, <5>1
      <4>3. QED
        BY <3>5, <4>1, <4>2
    <3>7. \A k \in 1..len + 1 : \A j \in 1..k - 1 : new[j] < new[k]
      <4>1. SUFFICES ASSUME NEW k \in 1..len + 1, NEW j \in 1..k - 1 PROVE new[j] < new[k]
        OBVIOUS
      <4>2. j \in 1..len
        OBVIOUS
      <4>3. CASE k = len + 1
        <5>1. PICK a : a = at[j]
          OBVIOUS
        <5>2. new[j] = a /\ a \in 1..m /\ new[k] = m + 1
          BY <3>4, <4>2, <4>3, <5>1
        <5>3. QED
          BY <5>2
      <4>4. CASE k \in 1..len
        <5>1. at[j] < at[k]
          BY <2>5, <4>4
        <5>2. QED
          BY <3>4, <4>2, <4>4, <5>1
      <4>5. QED
        BY <3>5, <4>3, <4>4
    <3>8. \A i \in 0..m + 1 : /\ Len(f[i]) <= len + 1
                             /\ \A j \in 1..Len(f[i]) : f[i][j] = g[j] /\ new[j] <= i
      <4>1. ASSUME NEW i \in 0..m
            PROVE  /\ Len(f[i]) <= len + 1
                   /\ \A j \in 1..Len(f[i]) : f[i][j] = g[j] /\ new[j] <= i
        <5>1. Len(f[i]) \in Nat /\ Len(f[i]) <= len
          BY <2>5, <2>7
        <5>2. \A j \in 1..Len(f[i]) : j \in 1..len
          BY <5>1
        <5>3. QED
          BY <2>5, <3>2, <3>4, <5>1, <5>2
      <4>2. \A j \in 1..len + 1 : new[j] <= m + 1
        BY <3>4
      <4>3. SUFFICES ASSUME NEW i \in 0..m + 1
                     PROVE  /\ Len(f[i]) <= len + 1
                            /\ \A j \in 1..Len(f[i]) : f[i][j] = g[j] /\ new[j] <= i
        OBVIOUS
      <4>4. CASE i = m + 1
        BY <3>2, <4>2, <4>4
      <4>5. CASE i # m + 1
        <5>1. i \in 0..m
          BY <4>5
        <5>2. QED
          BY <4>1, <5>1
      <4>6. QED
        BY <4>4, <4>5
    <3>9. \A i \in 1..m + 1 : f[i - 1] \in take[i] => \E k \in 1..len + 1 : new[k] = i
      <4>1. SUFFICES ASSUME NEW i \in 1..m + 1, f[i - 1] \in take[i]
                     PROVE  \E k \in 1..len + 1 : new[k] = i
        OBVIOUS
      <4>2. CASE i = m + 1
        BY <3>4, <4>2
      <4>3. CASE i # m + 1
        <5>1. i \in 1..m
          BY <4>3
        <5>2. PICK k \in 1..len : at[k] = i
          BY <2>5, <4>1, <5>1
        <5>3. k \in 1..len + 1 /\ new[k] = i
          BY <3>4, <5>2
        <5>4. QED
          BY <5>3
      <4>4. QED
        BY <4>2, <4>3
    <3>10. Scanned(f, m + 1, v, take, new)
      BY <3>2, <3>4, <3>6, <3>7, <3>8, <3>9 DEF Scanned
    <3>11. QED
      BY <3>10
  <2>10. QED
    BY <2>8, <2>9
<1>3. n \in S
  <2> HIDE DEF S
  <2>1. QED
    BY <1>1, <1>2, NatInduct
<1>4. QED
  BY <1>3

LEMMA ScanTypes ==
  ASSUME NEW n \in Nat, NEW X, NEW v \in [1..n -> X], NEW f, f[0] = <<>>,
         \A i \in 1..n : f[i] = Append(f[i - 1], v[i]) \/ f[i] = f[i - 1]
  PROVE  \A i \in 0..n : f[i] \in Seq(X)
<1> DEFINE S == {m \in Nat : m <= n => f[m] \in Seq(X)}
<1>1. 0 \in S
  <2>1. <<>> \in Seq(X)
    OBVIOUS
  <2>2. f[0] \in Seq(X)
    BY <2>1
  <2>3. QED
    BY <2>2
<1>2. ASSUME NEW m \in Nat, m \in S PROVE m + 1 \in S
  <2>1. SUFFICES ASSUME m + 1 <= n PROVE f[m + 1] \in Seq(X)
    OBVIOUS
  <2>2. PICK l \in Seq(X) : l = f[m]
    BY <1>2, <2>1
  <2>3. PICK x \in X : x = v[m + 1]
    BY <2>1
  <2>4. f[m + 1] = Append(l, x) \/ f[m + 1] = l
    <3>1. m + 1 \in 1..n /\ (m + 1) - 1 = m
      BY <2>1
    <3>2. QED
      BY <2>2, <2>3, <3>1
  <2>5. Append(l, x) \in Seq(X)
    OBVIOUS
  <2>6. QED
    BY <2>4, <2>5
<1>3. Nat \subseteq S
  <2> HIDE DEF S
  <2>1. QED
    BY <1>1, <1>2, NatInduct
<1>4. QED
  BY <1>3

(* What is kept of a list, and where each of it was.                       *)
LEMMA KeptFacts ==
  ASSUME NEW X, NEW s \in Seq(X), NEW set, NEW K, K = Kept(s, set)
  PROVE  /\ K \in Seq(X)
         /\ \E at \in [1..Len(K) -> 1..Len(s)] :
              /\ \A k \in 1..Len(K) : K[k] = s[at[k]] /\ K[k] \in set
              /\ \A k \in 1..Len(K) : \A j \in 1..k - 1 : at[j] < at[k]
              /\ \A i \in 1..Len(s) : s[i] \in set => \E k \in 1..Len(K) : at[k] = i
<1> DEFINE Rule(f) == [n \in 0..Len(s) |->
                         IF n = 0 THEN <<>>
                         ELSE IF s[n] \in set THEN Append(f[n - 1], s[n]) ELSE f[n - 1]]
<1>1. PICK n \in Nat : n = Len(s) /\ s \in [1..n -> X]
  OBVIOUS
<1>2. PICK take : take = [i \in 1..n |-> IF s[i] \in set THEN Seq(X) ELSE {}]
  OBVIOUS
<1>3. PICK f \in [0..n -> Seq(X)] : Scans(f, n, s, take)
  BY <1>1, ScanExists
<1>4. f = Rule(f)
  <2>1. \A i \in 1..n : f[i - 1] \in take[i] <=> s[i] \in set
    BY <1>2
  <2>2. \A i \in 1..n : f[i] = IF s[i] \in set THEN Append(f[i - 1], s[i]) ELSE f[i - 1]
    BY <1>3, <2>1 DEF Scans
  <2>3. f[0] = <<>>
    BY <1>3 DEF Scans
  <2>4. ASSUME NEW i \in 0..n
        PROVE  f[i] = IF i = 0 THEN <<>>
                      ELSE IF s[i] \in set THEN Append(f[i - 1], s[i]) ELSE f[i - 1]
    <3>1. CASE i = 0
      BY <2>3, <3>1
    <3>2. CASE i # 0
      <4>1. i \in 1..n
        BY <3>2
      <4>2. QED
        BY <2>2, <3>2, <4>1
    <3>3. QED
      BY <3>1, <3>2
  <2>5. QED
    BY <1>1, <2>4
<1>5. PICK c : c = CHOOSE g : g = Rule(g)
  OBVIOUS
<1>6. c = Rule(c)
  <2> HIDE DEF Rule
  <2>1. QED
    BY <1>4, <1>5
<1>7. K = c[n]
  BY <1>1, <1>5 DEF Kept
<1>8. /\ c[0] = <<>>
      /\ \A i \in 1..n : c[i] = IF s[i] \in set THEN Append(c[i - 1], s[i]) ELSE c[i - 1]
  <2>1. ASSUME NEW i \in 0..n
        PROVE  c[i] = IF i = 0 THEN <<>>
                      ELSE IF s[i] \in set THEN Append(c[i - 1], s[i]) ELSE c[i - 1]
    BY <1>1, <1>6
  <2>2. \A i \in 1..n : i \in 0..n /\ i # 0
    OBVIOUS
  <2>3. 0 \in 0..n
    OBVIOUS
  <2>4. QED
    BY <2>1, <2>2, <2>3
<1>9. c \in [0..n -> Seq(X)]
  <2>1. \A i \in 0..n : c[i] \in Seq(X)
    <3>1. \A i \in 1..n : c[i] = Append(c[i - 1], s[i]) \/ c[i] = c[i - 1]
      BY <1>8
    <3>2. QED
      BY <1>1, <1>8, <3>1, ScanTypes
  <2>2. c = [i \in 0..n |-> c[i]]
    BY <1>1, <1>6
  <2>3. QED
    BY <2>1, <2>2
<1>10. Scans(c, n, s, take)
  <2>1. \A i \in 1..n : c[i - 1] \in take[i] <=> s[i] \in set
    BY <1>2, <1>9
  <2>2. QED
    BY <1>8, <2>1 DEF Scans
<1>11. PICK at : Scanned(c, n, s, take, at)
  BY <1>1, <1>9, <1>10, ScanFacts
<1>12. K \in Seq(X) /\ Len(K) \in Nat
  BY <1>7, <1>9
<1>13. at \in [1..Len(K) -> 1..Len(s)]
  BY <1>1, <1>7, <1>11 DEF Scanned
<1>14. \A k \in 1..Len(K) : K[k] = s[at[k]] /\ K[k] \in set
  <2>1. SUFFICES ASSUME NEW k \in 1..Len(K) PROVE K[k] = s[at[k]] /\ K[k] \in set
    OBVIOUS
  <2>2. K[k] = s[at[k]] /\ c[at[k] - 1] \in take[at[k]]
    BY <1>7, <1>11 DEF Scanned
  <2>3. at[k] \in 1..n
    BY <1>1, <1>13
  <2>4. QED
    BY <1>2, <2>2, <2>3
<1>15. \A k \in 1..Len(K) : \A j \in 1..k - 1 : at[j] < at[k]
  BY <1>7, <1>11 DEF Scanned
<1>16. \A i \in 1..Len(s) : s[i] \in set => \E k \in 1..Len(K) : at[k] = i
  <2>1. SUFFICES ASSUME NEW i \in 1..n, s[i] \in set PROVE \E k \in 1..Len(K) : at[k] = i
    BY <1>1
  <2>2. c[i - 1] \in take[i]
    BY <1>2, <1>9, <2>1
  <2>3. QED
    BY <1>7, <1>11, <2>2 DEF Scanned
<1>17. QED
  BY <1>12, <1>13, <1>14, <1>15, <1>16

Owners == {"system", "first", "paralloid", "internal", "image", "override"}
Mounts == [dir : Path, of : Owners, at : Path]

(* What move_mount_tree lists: directories of the table below the old      *)
(* root, none below an earlier one, and one at or above each mount there.  *)
ListAs(L, old, new, table) ==
  /\ L \in Seq(Path)
  /\ \E at \in [1..Len(L) -> 1..Len(table)] :
       /\ \A k \in 1..Len(L) :
            L[k] = table[at[k]].dir /\ Below(L[k], old) /\ L[k] # new
       /\ \A k \in 1..Len(L) : \A j \in 1..k - 1 : at[j] < at[k] /\ ~Below(L[k], L[j])
       /\ \A i \in 1..Len(table) : Below(table[i].dir, old) /\ table[i].dir # new =>
            \E k \in 1..Len(L) :
              at[k] <= i /\ (table[i].dir = L[k] \/ Below(table[i].dir, L[k]))

LEMMA ListFacts ==
  ASSUME NEW table \in Seq(Mounts), NEW old, NEW new, NEW L, L = GetMountsToMove(old, new, table)
  PROVE  ListAs(L, old, new, table)
<1> USE DEF ListAs
<1> DEFINE Rule(f) == [n \in 0..Len(table) |->
                         IF n = 0 THEN <<>>
                         ELSE IF Wanted(old, new, f[n - 1], table[n].dir)
                                THEN Append(f[n - 1], table[n].dir) ELSE f[n - 1]]
<1>1. PICK n \in Nat : n = Len(table)
  OBVIOUS
<1>2. PICK v : v = [i \in 1..n |-> table[i].dir]
  OBVIOUS
<1>3. v \in [1..n -> Path] /\ \A i \in 1..n : v[i] = table[i].dir
  <2> HIDE DEF Rule
  <2>1. \A i \in 1..n : table[i] \in Mounts
    BY <1>1
  <2>2. \A i \in 1..n : table[i].dir \in Path
    BY <2>1 DEF Mounts
  <2>3. QED
    BY <1>2, <2>2
<1>4. PICK take : take = [i \in 1..n |-> {l \in Seq(Path) : Wanted(old, new, l, table[i].dir)}]
  OBVIOUS
<1>5. \A i \in 1..n : \A l \in Seq(Path) : l \in take[i] <=> Wanted(old, new, l, table[i].dir)
  BY <1>4
<1>6. PICK f \in [0..n -> Seq(Path)] : Scans(f, n, v, take)
  BY <1>3, ScanExists
<1>7. f = Rule(f)
  <2>1. \A i \in 1..n : f[i] = IF Wanted(old, new, f[i - 1], table[i].dir)
                                THEN Append(f[i - 1], table[i].dir) ELSE f[i - 1]
    <3>1. SUFFICES ASSUME NEW i \in 1..n
                   PROVE  f[i] = IF Wanted(old, new, f[i - 1], table[i].dir)
                                   THEN Append(f[i - 1], table[i].dir) ELSE f[i - 1]
      OBVIOUS
    <3>2. PICK l \in Seq(Path) : l = f[i - 1]
      OBVIOUS
    <3>3. f[i] = IF l \in take[i] THEN Append(l, v[i]) ELSE l
      BY <1>6, <3>2 DEF Scans
    <3>4. QED
      BY <1>3, <1>5, <3>2, <3>3
  <2>2. f[0] = <<>>
    BY <1>6 DEF Scans
  <2>3. ASSUME NEW i \in 0..n
        PROVE  f[i] = IF i = 0 THEN <<>>
                      ELSE IF Wanted(old, new, f[i - 1], table[i].dir)
                             THEN Append(f[i - 1], table[i].dir) ELSE f[i - 1]
    <3>1. CASE i = 0
      BY <2>2, <3>1
    <3>2. CASE i # 0
      <4>1. i \in 1..n
        BY <3>2
      <4>2. QED
        BY <2>1, <3>2, <4>1
    <3>3. QED
      BY <3>1, <3>2
  <2>4. QED
    BY <1>1, <2>3
<1>8. PICK c : c = CHOOSE g : g = Rule(g)
  OBVIOUS
<1>9. c = Rule(c)
  <2> HIDE DEF Rule
  <2>1. QED
    BY <1>7, <1>8
<1>10. L = c[n]
  BY <1>1, <1>8 DEF GetMountsToMove
<1>11. /\ c[0] = <<>>
       /\ \A i \in 1..n : c[i] = IF Wanted(old, new, c[i - 1], table[i].dir)
                                   THEN Append(c[i - 1], v[i]) ELSE c[i - 1]
  <2>1. ASSUME NEW i \in 0..n
        PROVE  c[i] = IF i = 0 THEN <<>>
                      ELSE IF Wanted(old, new, c[i - 1], table[i].dir)
                             THEN Append(c[i - 1], table[i].dir) ELSE c[i - 1]
    BY <1>1, <1>9
  <2>2. \A i \in 1..n : i \in 0..n /\ i # 0
    OBVIOUS
  <2>3. 0 \in 0..n
    OBVIOUS
  <2>4. QED
    BY <1>3, <2>1, <2>2, <2>3
<1>12. c \in [0..n -> Seq(Path)]
  <2>1. \A i \in 0..n : c[i] \in Seq(Path)
    <3>1. \A i \in 1..n : c[i] = Append(c[i - 1], v[i]) \/ c[i] = c[i - 1]
      BY <1>11
    <3>2. QED
      BY <1>3, <1>11, <3>1, ScanTypes
  <2>2. c = [i \in 0..n |-> c[i]]
    BY <1>1, <1>9
  <2>3. QED
    BY <2>1, <2>2
<1>13. \A i \in 1..n : c[i - 1] \in take[i] <=> Wanted(old, new, c[i - 1], table[i].dir)
  <2>1. \A i \in 1..n : c[i - 1] \in Seq(Path)
    BY <1>12
  <2>2. QED
    BY <1>5, <2>1
<1>14. Scans(c, n, v, take)
  BY <1>11, <1>13 DEF Scans
<1>15. PICK at : Scanned(c, n, v, take, at)
  BY <1>3, <1>12, <1>14, ScanFacts
<1>16. L \in Seq(Path) /\ Len(L) \in Nat
  BY <1>10, <1>12
<1>17. at \in [1..Len(L) -> 1..n]
  BY <1>10, <1>15 DEF Scanned
<1>18. ASSUME NEW k \in 1..Len(L)
       PROVE  /\ L[k] = table[at[k]].dir /\ Wanted(old, new, c[at[k] - 1], L[k])
              /\ Len(c[at[k] - 1]) = k - 1
              /\ \A j \in 1..k - 1 : c[at[k] - 1][j] = L[j] /\ at[j] < at[k]
  <2>1. /\ L[k] = v[at[k]] /\ c[at[k] - 1] \in take[at[k]] /\ Len(c[at[k] - 1]) = k - 1
        /\ \A j \in 1..k - 1 : at[j] < at[k]
    BY <1>10, <1>15 DEF Scanned
  <2>2. PICK a \in 1..n : a = at[k]
    BY <1>17
  <2>3. Wanted(old, new, c[a - 1], table[a].dir) /\ v[a] = table[a].dir
    BY <1>3, <1>13, <2>1, <2>2
  <2>4. a - 1 \in 0..n
    OBVIOUS
  <2>5. \A j \in 1..Len(c[a - 1]) : c[a - 1][j] = L[j]
    BY <1>10, <1>15, <2>4 DEF Scanned
  <2>6. QED
    BY <2>1, <2>2, <2>3, <2>5
<1>19. ASSUME NEW k \in 1..Len(L)
       PROVE  Below(L[k], old) /\ L[k] # new /\ \A j \in 1..k - 1 : ~Below(L[k], L[j])
  <2>1. Wanted(old, new, c[at[k] - 1], L[k])
    BY <1>18
  <2>2. \A j \in 1..k - 1 : L[j] \in Range(c[at[k] - 1])
    <3>1. at[k] - 1 \in 0..n
      <4>1. PICK a \in 1..n : a = at[k]
        BY <1>17
      <4>2. a - 1 \in 0..n
        OBVIOUS
      <4>3. QED
        BY <4>1, <4>2
    <3>2. PICK l \in Seq(Path) : l = c[at[k] - 1]
      BY <1>12, <3>1
    <3>3. Len(l) = k - 1 /\ \A j \in 1..k - 1 : l[j] = L[j]
      BY <1>18, <3>2
    <3>4. \A j \in 1..k - 1 : l[j] \in Range(l)
      <4>1. DOMAIN l = 1..k - 1
        BY <3>3
      <4>2. QED
        BY <4>1 DEF Range
    <3>5. QED
      BY <3>2, <3>3, <3>4
  <2>3. QED
    BY <2>1, <2>2 DEF Wanted
<1>20. ASSUME NEW i \in 1..Len(table), Below(table[i].dir, old), table[i].dir # new
       PROVE  \E k \in 1..Len(L) :
                at[k] <= i /\ (table[i].dir = L[k] \/ Below(table[i].dir, L[k]))
  <2>1. CASE c[i - 1] \in take[i]
    <3>1. PICK k \in 1..Len(L) : at[k] = i
      BY <1>1, <1>10, <1>15, <2>1 DEF Scanned
    <3>2. table[i].dir = L[k]
      BY <1>18, <3>1
    <3>3. at[k] <= i
      BY <1>1, <3>1
    <3>4. QED
      BY <3>2, <3>3
  <2>2. CASE c[i - 1] \notin take[i]
    <3>1. ~Wanted(old, new, c[i - 1], table[i].dir)
      BY <1>1, <1>13, <2>2
    <3>2. PICK d \in Range(c[i - 1]) : Below(table[i].dir, d)
      BY <1>20, <3>1 DEF Wanted
    <3>3. i - 1 \in 0..n /\ i \in Nat
      BY <1>1
    <3>4. PICK l \in Seq(Path) : l = c[i - 1]
      BY <1>12, <3>3
    <3>5. PICK j \in 1..Len(l) : d = l[j]
      BY <3>2, <3>4 DEF Range
    <3>6. Len(l) <= Len(L) /\ l[j] = L[j] /\ at[j] <= i - 1
      BY <1>10, <1>15, <3>3, <3>4 DEF Scanned
    <3>7. j \in 1..Len(L) /\ at[j] <= i
      <4>1. j \in 1..Len(L)
        BY <1>16, <3>6
      <4>2. at[j] \in Nat
        BY <1>17, <4>1
      <4>3. QED
        BY <3>3, <3>6, <4>1, <4>2
    <3>8. QED
      BY <3>2, <3>5, <3>6, <3>7
  <2>3. QED
    BY <2>1, <2>2
<1>21. QED
  <2>1. \A k \in 1..Len(L) : \A j \in 1..k - 1 : at[j] < at[k] /\ ~Below(L[k], L[j])
    BY <1>18, <1>19
  <2>2. \A k \in 1..Len(L) : L[k] = table[at[k]].dir /\ Below(L[k], old) /\ L[k] # new
    BY <1>18, <1>19
  <2>3. QED
    BY <1>1, <1>16, <1>17, <1>20, <2>1, <2>2

-----------------------------------------------------------------------------
(* Paths.                                                                  *)

LEMMA UnderRule ==
  ASSUME NEW p \in Path, NEW d \in Path
  PROVE  Under(p, d) <=> Len(d) <= Len(p) /\ \A i \in 1..Len(d) : p[i] = d[i]
<1>1. PICK m \in Nat, n \in Nat : m = Len(d) /\ n = Len(p)
  BY DEF Path
<1>2. ASSUME m <= n
      PROVE  /\ SubSeq(d, 1, m) \in Path /\ SubSeq(p, 1, m) \in Path
             /\ Len(SubSeq(d, 1, m)) = m /\ Len(SubSeq(p, 1, m)) = m
             /\ \A i \in 1..m : SubSeq(d, 1, m)[i] = d[i] /\ SubSeq(p, 1, m)[i] = p[i]
  BY <1>1, <1>2 DEF Path
<1>3. m <= n => (SubSeq(d, 1, m) = SubSeq(p, 1, m) <=> \A i \in 1..m : p[i] = d[i])
  <2>1. SUFFICES ASSUME m <= n
                 PROVE  SubSeq(d, 1, m) = SubSeq(p, 1, m) <=> \A i \in 1..m : p[i] = d[i]
    OBVIOUS
  <2>2. PICK a, b : a = SubSeq(d, 1, m) /\ b = SubSeq(p, 1, m)
    OBVIOUS
  <2>3. /\ a \in Path /\ b \in Path /\ Len(a) = m /\ Len(b) = m
        /\ \A i \in 1..m : a[i] = d[i] /\ b[i] = p[i]
    BY <1>2, <2>1, <2>2
  <2>4. (\A i \in 1..m : a[i] = b[i]) => a = b
    BY <2>3, SeqEqual DEF Path
  <2>5. QED
    BY <2>2, <2>3, <2>4
<1>4. QED
  BY <1>1, <1>3 DEF Under, IsPrefix

LEMMA JoinRule ==
  ASSUME NEW d \in Path, NEW r \in Path
  PROVE  /\ d \o r \in Path /\ Len(d \o r) = Len(d) + Len(r)
         /\ \A i \in 1..Len(d) : (d \o r)[i] = d[i]
         /\ \A i \in 1..Len(r) : (d \o r)[Len(d) + i] = r[i]
<1>1. /\ d \o r \in Path /\ Len(d \o r) = Len(d) + Len(r)
      /\ \A i \in 1..Len(d) + Len(r) : (d \o r)[i] = IF i <= Len(d) THEN d[i] ELSE r[i - Len(d)]
  BY ConcatProperties DEF Path
<1>2. Len(d) \in Nat /\ Len(r) \in Nat
  BY DEF Path
<1>3. QED
  BY <1>1, <1>2

(* What is left of a path below d.                                         *)
Rest(p, d) == SubSeq(p, Len(d) + 1, Len(p))

LEMMA RestRule ==
  ASSUME NEW p \in Path, NEW d \in Path, Len(d) <= Len(p)
  PROVE  /\ Rest(p, d) \in Path /\ Len(Rest(p, d)) = Len(p) - Len(d)
         /\ \A i \in 1..Len(p) - Len(d) : Rest(p, d)[i] = p[Len(d) + i]
<1>1. PICK m \in Nat, n \in Nat : m = Len(d) /\ n = Len(p) /\ m <= n
  BY DEF Path
<1>2. \A i \in m + 1..n : p[i] \in Names
  BY <1>1 DEF Path
<1>3. /\ SubSeq(p, m + 1, n) \in Seq(Names)
      /\ Len(SubSeq(p, m + 1, n)) = IF m + 1 <= n THEN n - (m + 1) + 1 ELSE 0
      /\ \A i \in 1..n - (m + 1) + 1 : SubSeq(p, m + 1, n)[i] = p[(m + 1) + i - 1]
  BY <1>2, SubSeqProperties
<1>4. /\ Len(SubSeq(p, m + 1, n)) = n - m
      /\ \A i \in 1..n - m : SubSeq(p, m + 1, n)[i] = p[m + i]
  BY <1>1, <1>3
<1>5. QED
  BY <1>1, <1>3, <1>4 DEF Rest, Path

LEMMA UnderRest ==
  ASSUME NEW p \in Path, NEW d \in Path, Under(p, d)
  PROVE  Rest(p, d) \in Path /\ p = d \o Rest(p, d)
<1>1. Len(d) <= Len(p) /\ \A i \in 1..Len(d) : p[i] = d[i]
  BY UnderRule
<1>2. PICK r \in Path : r = Rest(p, d)
  BY <1>1, RestRule
<1>3. PICK q \in Path : q = d \o r
  BY JoinRule
<1>4. PICK m \in Nat, n \in Nat : m = Len(d) /\ n = Len(p)
  BY DEF Path
<1>5. Len(r) = n - m /\ \A i \in 1..n - m : r[i] = p[m + i]
  BY <1>1, <1>2, <1>4, RestRule
<1>6. /\ Len(q) = n /\ \A i \in 1..m : q[i] = d[i]
      /\ \A i \in 1..n - m : q[m + i] = r[i]
  <2>1. /\ Len(q) = Len(d) + Len(r) /\ \A i \in 1..Len(d) : q[i] = d[i]
        /\ \A i \in 1..Len(r) : q[Len(d) + i] = r[i]
    BY <1>3, JoinRule
  <2>2. m + (n - m) = n
    OBVIOUS
  <2>3. QED
    BY <1>4, <1>5, <2>1, <2>2, Zenon
<1>7. \A i \in 1..n : p[i] = q[i]
  <2>1. SUFFICES ASSUME NEW i \in 1..n PROVE p[i] = q[i]
    OBVIOUS
  <2>2. CASE i <= m
    BY <1>1, <1>4, <1>6, <2>2
  <2>3. CASE i > m
    <3>1. i - m \in 1..n - m /\ m + (i - m) = i
      BY <2>3
    <3>2. QED
      BY <1>5, <1>6, <3>1
  <2>4. QED
    BY <2>2, <2>3
<1>8. p = q
  BY <1>4, <1>6, <1>7, SeqEqual DEF Path
<1>9. QED
  BY <1>2, <1>3, <1>8

LEMMA JoinUnder ==
  ASSUME NEW d \in Path, NEW r \in Path
  PROVE  Under(d \o r, d) /\ Rest(d \o r, d) = r
<1>1. PICK q \in Path : q = d \o r
  BY JoinRule
<1>2. PICK m \in Nat, n \in Nat : m = Len(d) /\ n = Len(r)
  BY DEF Path
<1>3. Len(q) = m + n /\ (\A i \in 1..m : q[i] = d[i]) /\ \A i \in 1..n : q[m + i] = r[i]
  <2>1. /\ Len(q) = Len(d) + Len(r) /\ \A i \in 1..Len(d) : q[i] = d[i]
        /\ \A i \in 1..Len(r) : q[Len(d) + i] = r[i]
    BY <1>1, JoinRule
  <2>2. QED
    BY <1>2, <2>1, Zenon
<1>4. Under(q, d)
  <2>1. Len(d) <= Len(q)
    BY <1>2, <1>3
  <2>2. \A i \in 1..Len(d) : q[i] = d[i]
    BY <1>2, <1>3, Zenon
  <2>3. QED
    BY <2>1, <2>2, UnderRule
<1>5. PICK s \in Path : s = Rest(q, d)
  BY <1>2, <1>3, RestRule
<1>6. Len(s) = n /\ \A i \in 1..n : s[i] = q[m + i]
  <2>1. PICK u \in Nat : u = Len(q) /\ u = m + n /\ u - m = n
    <3>1. PICK u \in Nat : u = m + n
      OBVIOUS
    <3>2. QED
      BY <1>3, <3>1
  <2>2. Len(d) <= Len(q)
    <3>1. m <= u
      BY <2>1
    <3>2. QED
      BY <1>2, <2>1, <3>1, Zenon
  <2>3. Len(s) = Len(q) - Len(d) /\ \A i \in 1..Len(q) - Len(d) : s[i] = q[Len(d) + i]
    BY <1>5, <2>2, RestRule
  <2>4. Len(s) = u - m /\ \A i \in 1..u - m : s[i] = q[m + i]
    BY <1>2, <2>1, <2>3, Zenon
  <2>5. QED
    BY <2>1, <2>4
<1>7. s = r
  BY <1>2, <1>3, <1>6, SeqEqual DEF Path
<1>8. QED
  BY <1>1, <1>4, <1>5, <1>7

(* Moving a path replaces what it begins with.                             *)
LEMMA MovedRule ==
  ASSUME NEW d \in Path, NEW r \in Path, NEW new \in Path
  PROVE  Moved(d \o r, d, new) = new \o r
<1>1. Moved(d \o r, d, new) = new \o Rest(d \o r, d)
  BY DEF Moved, Rest
<1>2. Rest(d \o r, d) = r
  BY JoinUnder
<1>3. QED
  BY <1>1, <1>2, Zenon

LEMMA UnderOrder ==
  ASSUME NEW a \in Path, NEW b \in Path, NEW c \in Path
  PROVE  /\ Under(a, a) /\ Under(a, Root)
         /\ Under(a, b) /\ Under(b, c) => Under(a, c)
         /\ Under(a, b) /\ Under(b, a) => a = b
         /\ Under(a, b) /\ Under(a, c) => Under(b, c) \/ Under(c, b)
         /\ Below(a, b) <=> Under(a, b) /\ a # b
<1>1. PICK k \in Nat, m \in Nat, n \in Nat : k = Len(a) /\ m = Len(b) /\ n = Len(c)
  BY DEF Path
<1>2. /\ Under(a, b) <=> m <= k /\ \A i \in 1..m : a[i] = b[i]
      /\ Under(b, a) <=> k <= m /\ \A i \in 1..k : b[i] = a[i]
      /\ Under(a, c) <=> n <= k /\ \A i \in 1..n : a[i] = c[i]
      /\ Under(b, c) <=> n <= m /\ \A i \in 1..n : b[i] = c[i]
      /\ Under(c, b) <=> m <= n /\ \A i \in 1..m : c[i] = b[i]
  BY <1>1, UnderRule
<1>3. Under(a, a) /\ Under(a, Root)
  <2>1. Root \in Path /\ Len(Root) = 0
    BY DEF Root, Path
  <2>2. QED
    BY <1>1, <2>1, UnderRule
<1>4. Under(a, b) /\ Under(b, c) => Under(a, c)
  BY <1>2
<1>5. Under(a, b) /\ Under(b, a) => a = b
  BY <1>1, <1>2, SeqEqual DEF Path
<1>6. Under(a, b) /\ Under(a, c) => Under(b, c) \/ Under(c, b)
  <2>1. CASE n <= m
    BY <1>2, <2>1
  <2>2. CASE m <= n
    BY <1>2, <2>2
  <2>3. QED
    BY <2>1, <2>2
<1>7. Below(a, b) <=> Under(a, b) /\ a # b
  BY DEF Below, Under, IsStrictPrefix
<1>8. QED
  BY <1>3, <1>4, <1>5, <1>6, <1>7

LEMMA JoinEqual ==
  ASSUME NEW d \in Path, NEW p \in Path, NEW q \in Path
  PROVE  /\ d \o p = d \o q => p = q
         /\ Under(d \o p, d \o q) <=> Under(p, q)
<1>1. d \o p = d \o q => p = q
  <2>1. Rest(d \o p, d) = p /\ Rest(d \o q, d) = q
    BY JoinUnder
  <2>2. QED
    BY <2>1, Zenon
<1>2. PICK a \in Path, b \in Path : a = d \o p /\ b = d \o q
  BY JoinRule
<1>3. PICK k \in Nat, m \in Nat, n \in Nat : k = Len(d) /\ m = Len(p) /\ n = Len(q)
  BY DEF Path
<1>4. /\ Len(a) = k + m /\ (\A i \in 1..k : a[i] = d[i]) /\ \A i \in 1..m : a[k + i] = p[i]
      /\ Len(b) = k + n /\ (\A i \in 1..k : b[i] = d[i]) /\ \A i \in 1..n : b[k + i] = q[i]
  BY <1>2, <1>3, JoinRule
<1>5. Under(a, b) <=> k + n <= k + m /\ \A i \in 1..k + n : a[i] = b[i]
  <2>1. Under(a, b) <=> Len(b) <= Len(a) /\ \A i \in 1..Len(b) : a[i] = b[i]
    BY UnderRule
  <2>2. Len(a) = k + m /\ Len(b) = k + n
    BY <1>4
  <2>3. QED
    BY <2>1, <2>2, Zenon
<1>6. Under(p, q) <=> n <= m /\ \A i \in 1..n : p[i] = q[i]
  BY <1>3, UnderRule
<1>7. ASSUME Under(a, b) PROVE Under(p, q)
  <2>1. n <= m /\ \A i \in 1..n : k + i \in 1..k + n
    BY <1>5, <1>7
  <2>2. \A i \in 1..n : a[k + i] = b[k + i]
    BY <1>5, <1>7, <2>1
  <2>3. \A i \in 1..n : p[i] = q[i]
    BY <1>4, <2>1, <2>2
  <2>4. QED
    BY <1>6, <2>1, <2>3
<1>8. ASSUME Under(p, q) PROVE Under(a, b)
  <2>1. n <= m
    BY <1>6, <1>8
  <2>2. ASSUME NEW i \in 1..k + n PROVE a[i] = b[i]
    <3>1. CASE i <= k
      BY <1>4, <3>1
    <3>2. CASE i > k
      <4>1. PICK j \in 1..n : i = k + j
        <5>1. i - k \in 1..n /\ i = k + (i - k)
          BY <3>2
        <5>2. QED
          BY <5>1
      <4>2. p[j] = q[j] /\ j \in 1..m
        BY <1>6, <1>8, <2>1
      <4>3. QED
        BY <1>4, <4>1, <4>2
    <3>3. QED
      BY <3>1, <3>2
  <2>3. QED
    BY <1>5, <2>1, <2>2
<1>9. QED
  BY <1>1, <1>2, <1>7, <1>8

(* What a mount below d becomes when d is moved to new \o d.               *)
LEMMA MovedOnto ==
  ASSUME NEW p \in Path, NEW d \in Path, NEW new \in Path, Under(p, d)
  PROVE  Moved(p, d, new \o d) = new \o p
<1>1. PICK r \in Path : r = Rest(p, d) /\ p = d \o r
  BY UnderRest
<1>2. PICK nd \in Path : nd = new \o d
  BY JoinRule
<1>3. Moved(p, d, nd) = nd \o r
  <2>1. Moved(d \o r, d, nd) = nd \o r
    BY MovedRule
  <2>2. QED
    BY <1>1, <2>1, Zenon
<1>4. (new \o d) \o r = new \o (d \o r)
  <2>1. new \in Seq(Names) /\ d \in Seq(Names) /\ r \in Seq(Names)
    BY DEF Path
  <2>2. QED
    BY <2>1, ConcatAssociative
<1>5. QED
  BY <1>1, <1>2, <1>3, <1>4, Zenon

LEMMA MovedFromRoot ==
  ASSUME NEW p \in Path, NEW new \in Path
  PROVE  Moved(p, Root, new) = new \o p
<1>1. Root \in Path /\ Root \o p = p
  BY DEF Root, Path
<1>2. PICK root \in Path : root = Root
  BY <1>1
<1>3. Moved(root \o p, root, new) = new \o p
  BY MovedRule
<1>4. QED
  BY <1>1, <1>2, <1>3, Zenon

LEMMA MovedIsPath ==
  ASSUME NEW p \in Path, NEW d \in Path, NEW new \in Path, Under(p, d)
  PROVE  Moved(p, d, new) \in Path
<1>1. PICK r \in Path : r = Rest(p, d) /\ p = d \o r
  BY UnderRest
<1>2. Moved(d \o r, d, new) = new \o r
  BY MovedRule
<1>3. new \o r \in Path
  BY JoinRule
<1>4. QED
  BY <1>1, <1>2, <1>3, Zenon

-----------------------------------------------------------------------------
(* The mount table.                                                        *)

LEMMA TableFacts ==
  ASSUME NEW table \in Seq(Mounts)
  PROVE  /\ Len(table) \in Nat
         /\ \A i \in 1..Len(table) : /\ table[i] \in Mounts /\ table[i].dir \in Path
                                     /\ table[i].of \in Owners /\ table[i].at \in Path
<1>1. PICK n \in Nat : n = Len(table)
  OBVIOUS
<1>2. \A i \in 1..n : table[i] \in Mounts
  BY <1>1
<1>3. \A m \in Mounts : m.dir \in Path /\ m.of \in Owners /\ m.at \in Path
  BY DEF Mounts
<1>4. QED
  BY <1>1, <1>2, <1>3

RenamedAs(R, table, d, new) ==
  /\ R \in Seq(Mounts) /\ Len(R) = Len(table)
  /\ \A i \in 1..Len(table) :
       /\ R[i].of = table[i].of /\ R[i].at = table[i].at
       /\ Under(table[i].dir, d) => R[i].dir = Moved(table[i].dir, d, new)
       /\ ~Under(table[i].dir, d) => R[i] = table[i]

LEMMA RenamedFacts ==
  ASSUME NEW table \in Seq(Mounts), NEW d \in Path, NEW new \in Path,
         NEW R, R = Renamed(table, d, new)
  PROVE  RenamedAs(R, table, d, new)
<1> USE DEF RenamedAs
<1>1. PICK n \in Nat : n = Len(table)
  OBVIOUS
<1>2. DOMAIN table = 1..n /\ \A i \in 1..n : table[i] \in Mounts
  BY <1>1
<1>3. R = [i \in 1..n |-> IF Under(table[i].dir, d)
                          THEN [table[i] EXCEPT !.dir = Moved(table[i].dir, d, new)]
                          ELSE table[i]]
  BY <1>2 DEF Renamed
<1>4. ASSUME NEW i \in 1..n
      PROVE  /\ R[i] \in Mounts
             /\ R[i].of = table[i].of /\ R[i].at = table[i].at
             /\ Under(table[i].dir, d) => R[i].dir = Moved(table[i].dir, d, new)
             /\ ~Under(table[i].dir, d) => R[i] = table[i]
  <2>1. PICK m \in Mounts : m = table[i]
    BY <1>2
  <2>2. m.dir \in Path
    BY DEF Mounts
  <2>3. CASE Under(m.dir, d)
    <3>1. PICK p \in Path : p = Moved(m.dir, d, new)
      BY <2>2, <2>3, MovedIsPath
    <3>2. R[i] = [m EXCEPT !.dir = p]
      BY <1>3, <2>1, <2>3, <3>1
    <3>3. R[i] \in Mounts /\ R[i].of = m.of /\ R[i].at = m.at /\ R[i].dir = p
      BY <3>2 DEF Mounts
    <3>4. QED
      BY <2>1, <2>3, <3>1, <3>3
  <2>4. CASE ~Under(m.dir, d)
    BY <1>3, <2>1, <2>4
  <2>5. QED
    BY <2>3, <2>4
<1>5. R \in [1..n -> Mounts]
  <2>1. DOMAIN R = 1..n
    BY <1>3
  <2>2. R = [i \in 1..n |-> R[i]]
    BY <1>3
  <2>3. QED
    BY <1>4, <2>1, <2>2
<1>6. R \in Seq(Mounts) /\ Len(R) = n
  BY <1>5
<1>7. QED
  BY <1>1, <1>4, <1>6

BoundAs(B, table, d, new) ==
  /\ B \in Seq(Mounts) /\ Len(table) <= Len(B)
  /\ \A i \in 1..Len(table) : B[i] = table[i]
  /\ \E from \in [Len(table) + 1..Len(B) -> 1..Len(table)] :
       /\ \A i, j \in Len(table) + 1..Len(B) : i < j => from[i] < from[j]
       /\ \A i \in 1..Len(table) : Under(table[i].dir, d) =>
            \E k \in Len(table) + 1..Len(B) : from[k] = i
       /\ \A k \in Len(table) + 1..Len(B) :
            /\ B[k].of = table[from[k]].of /\ B[k].at = table[from[k]].at
            /\ Under(table[from[k]].dir, d)
            /\ B[k].dir = Moved(table[from[k]].dir, d, new)

LEMMA BoundFacts ==
  ASSUME NEW table \in Seq(Mounts), NEW d \in Path, NEW new \in Path,
         NEW B, B = BoundMount(table, d, new)
  PROVE  BoundAs(B, table, d, new)
<1> USE DEF BoundAs
<1>1. PICK n \in Nat : n = Len(table)
  OBVIOUS
<1>2. PICK set : set = {m \in Range(table) : Under(m.dir, d)}
  OBVIOUS
<1>3. PICK K : K = Kept(table, set)
  OBVIOUS
<1>4. K \in Seq(Mounts)
  BY <1>3, KeptFacts
<1>5. PICK at \in [1..Len(K) -> 1..Len(table)] :
         /\ \A k \in 1..Len(K) : K[k] = table[at[k]] /\ K[k] \in set
         /\ \A k \in 1..Len(K) : \A j \in 1..k - 1 : at[j] < at[k]
         /\ \A i \in 1..Len(table) : table[i] \in set => \E k \in 1..Len(K) : at[k] = i
  BY <1>3, KeptFacts
<1>6. PICK u \in Nat : u = Len(K)
  BY <1>4
<1>7. PICK R : R = Renamed(K, d, new)
  OBVIOUS
<1>8. /\ R \in Seq(Mounts) /\ Len(R) = u
      /\ \A i \in 1..u : /\ R[i].of = K[i].of /\ R[i].at = K[i].at
                         /\ Under(K[i].dir, d) => R[i].dir = Moved(K[i].dir, d, new)
  <2>1. /\ R \in Seq(Mounts) /\ Len(R) = Len(K)
        /\ \A i \in 1..Len(K) :
             /\ R[i].of = K[i].of /\ R[i].at = K[i].at
             /\ Under(K[i].dir, d) => R[i].dir = Moved(K[i].dir, d, new)
    <3>1. K \in Seq(Mounts) /\ d \in Path /\ new \in Path /\ R = Renamed(K, d, new)
      BY <1>4, <1>7
    <3>2. RenamedAs(R, K, d, new)
      BY <3>1, RenamedFacts
    <3>3. QED
      BY <3>2 DEF RenamedAs
  <2>2. QED
    BY <1>6, <2>1
<1>9. B = table \o R
  BY <1>2, <1>3, <1>7 DEF BoundMount
<1>10. /\ B \in Seq(Mounts) /\ Len(B) = n + u
       /\ \A i \in 1..n + u : B[i] = IF i <= n THEN table[i] ELSE R[i - n]
  <2>1. /\ table \o R \in Seq(Mounts) /\ Len(table \o R) = Len(table) + Len(R)
        /\ \A i \in 1..Len(table) + Len(R) :
             (table \o R)[i] = IF i <= Len(table) THEN table[i] ELSE R[i - Len(table)]
    BY <1>8, ConcatProperties
  <2>2. QED
    BY <1>1, <1>8, <1>9, <2>1, Zenon
<1>11. PICK from : from = [k \in n + 1..n + u |-> at[k - n]]
  OBVIOUS
<1>12. \A k \in n + 1..n + u : k - n \in 1..u /\ from[k] = at[k - n] /\ B[k] = R[k - n]
  <2>1. ASSUME NEW k \in n + 1..n + u
        PROVE  k - n \in 1..u /\ k \in 1..n + u /\ ~(k <= n)
    OBVIOUS
  <2>2. QED
    BY <1>10, <1>11, <2>1
<1>13. from \in [n + 1..n + u -> 1..n]
  <2>1. ASSUME NEW k \in n + 1..n + u PROVE at[k - n] \in 1..n
    BY <1>1, <1>5, <1>6, <1>12
  <2>2. QED
    BY <1>11, <2>1
<1>14. \A i, j \in n + 1..n + u : i < j => from[i] < from[j]
  <2>1. SUFFICES ASSUME NEW i \in n + 1..n + u, NEW j \in n + 1..n + u, i < j
                 PROVE  from[i] < from[j]
    OBVIOUS
  <2>2. PICK a \in 1..u, b \in 1..u : a = i - n /\ b = j - n
    BY <1>12
  <2>3. a \in 1..b - 1
    BY <2>1, <2>2
  <2>4. at[a] < at[b]
    BY <1>5, <1>6, <2>3
  <2>5. QED
    BY <1>12, <2>2, <2>4
<1>15. \A i \in 1..n : Under(table[i].dir, d) => \E k \in n + 1..n + u : from[k] = i
  <2>1. SUFFICES ASSUME NEW i \in 1..n, Under(table[i].dir, d)
                 PROVE  \E k \in n + 1..n + u : from[k] = i
    OBVIOUS
  <2>2. table[i] \in set
    BY <1>1, <1>2, <2>1 DEF Range
  <2>3. PICK j \in 1..u : at[j] = i
    BY <1>1, <1>5, <1>6, <2>2
  <2>4. PICK k \in n + 1..n + u : k = j + n /\ k - n = j
    <3>1. j + n \in n + 1..n + u /\ (j + n) - n = j
      OBVIOUS
    <3>2. QED
      BY <3>1
  <2>5. QED
    BY <1>12, <2>3, <2>4
<1>16. ASSUME NEW k \in n + 1..n + u
       PROVE  /\ B[k].of = table[from[k]].of /\ B[k].at = table[from[k]].at
              /\ Under(table[from[k]].dir, d)
              /\ B[k].dir = Moved(table[from[k]].dir, d, new)
  <2>1. PICK j \in 1..u : j = k - n
    BY <1>12
  <2>2. B[k] = R[j] /\ from[k] = at[j]
    BY <1>12, <2>1
  <2>3. K[j] = table[at[j]] /\ Under(K[j].dir, d)
    BY <1>2, <1>5, <1>6
  <2>4. QED
    BY <1>8, <2>2, <2>3
<1>17. n <= n + u
  OBVIOUS
<1>18. n \in Nat /\ u \in Nat /\ Len(B) = n + u /\ Len(table) = n
  BY <1>1, <1>10
<1>19. \A i \in 1..n : B[i] = table[i]
  BY <1>10
<1>20. PICK l, b : l = Len(table) /\ b = Len(B)
  OBVIOUS
<1>21. /\ l <= b /\ \A i \in 1..l : B[i] = table[i]
       /\ from \in [l + 1..b -> 1..l]
       /\ \A i, j \in l + 1..b : i < j => from[i] < from[j]
       /\ \A i \in 1..l : Under(table[i].dir, d) => \E k \in l + 1..b : from[k] = i
       /\ \A k \in l + 1..b : /\ B[k].of = table[from[k]].of /\ B[k].at = table[from[k]].at
                              /\ Under(table[from[k]].dir, d)
                              /\ B[k].dir = Moved(table[from[k]].dir, d, new)
  BY <1>13, <1>14, <1>15, <1>16, <1>17, <1>18, <1>19, <1>20, Zenon
<1>22. QED
  BY <1>10, <1>20, <1>21, Zenon

PivotedAs(P, table, new, old) ==
  /\ P \in Seq(Mounts) /\ Len(P) = Len(table)
  /\ \A i \in 1..Len(table) :
       /\ P[i].of = table[i].of /\ P[i].at = table[i].at
       /\ \A p \in Path : table[i].dir = new \o p => P[i].dir = p
       /\ ~Under(table[i].dir, new) => P[i].dir = old \o table[i].dir

LEMMA PivotedFacts ==
  ASSUME NEW table \in Seq(Mounts), NEW new \in Path, NEW old \in Path,
         NEW P, P = Pivoted(table, new, old)
  PROVE  PivotedAs(P, table, new, old)
<1> USE DEF PivotedAs
<1>1. PICK n \in Nat : n = Len(table)
  OBVIOUS
<1>2. DOMAIN table = 1..n /\ \A i \in 1..n : table[i] \in Mounts
  BY <1>1
<1>3. P = [i \in 1..n |-> [table[i] EXCEPT !.dir = IF Under(table[i].dir, new)
                                                   THEN Moved(table[i].dir, new, Root)
                                                   ELSE old \o table[i].dir]]
  BY <1>2 DEF Pivoted
<1>4. ASSUME NEW i \in 1..n
      PROVE  /\ P[i] \in Mounts
             /\ P[i].of = table[i].of /\ P[i].at = table[i].at
             /\ \A p \in Path : table[i].dir = new \o p => P[i].dir = p
             /\ ~Under(table[i].dir, new) => P[i].dir = old \o table[i].dir
  <2>1. PICK m \in Mounts : m = table[i]
    BY <1>2
  <2>2. PICK dir \in Path : dir = m.dir
    BY DEF Mounts
  <2>3. PICK q : q = IF Under(dir, new) THEN Moved(dir, new, Root) ELSE old \o dir
    OBVIOUS
  <2>4. Root \in Path
    BY DEF Root, Path
  <2>5. q \in Path
    <3>1. Under(dir, new) => Moved(dir, new, Root) \in Path
      BY <2>4, MovedIsPath
    <3>2. old \o dir \in Path
      BY JoinRule
    <3>3. QED
      BY <2>3, <3>1, <3>2
  <2>6. P[i] = [m EXCEPT !.dir = q]
    BY <1>3, <2>1, <2>2, <2>3
  <2>7. P[i] \in Mounts /\ P[i].of = m.of /\ P[i].at = m.at /\ P[i].dir = q
    BY <2>5, <2>6 DEF Mounts
  <2>8. ASSUME NEW p \in Path, dir = new \o p PROVE q = p
    <3>1. Under(dir, new)
      BY <2>8, JoinUnder
    <3>2. Moved(dir, new, Root) = Root \o p
      BY <2>4, <2>8, MovedRule
    <3>3. Root \o p = p
      BY DEF Root, Path
    <3>4. QED
      BY <2>3, <3>1, <3>2, <3>3, Zenon
  <2>9. QED
    BY <2>1, <2>2, <2>3, <2>7, <2>8
<1>5. P \in [1..n -> Mounts]
  <2>1. P = [i \in 1..n |-> P[i]]
    BY <1>3
  <2>2. QED
    BY <1>4, <2>1
<1>6. P \in Seq(Mounts) /\ Len(P) = n
  BY <1>5
<1>7. QED
  BY <1>1, <1>4, <1>6

MountsAs(M, paths, of, dir) ==
  /\ M \in Seq(Mounts) /\ Len(M) = Len(paths)
  /\ \A i \in 1..Len(paths) :
       M[i].dir = dir \o paths[i] /\ M[i].of = of /\ M[i].at = paths[i]

LEMMA MountsOfFacts ==
  ASSUME NEW paths \in Seq(Path), NEW of \in Owners, NEW dir \in Path,
         NEW M, M = MountsOf(paths, of, dir)
  PROVE  MountsAs(M, paths, of, dir)
<1> USE DEF MountsAs
<1>1. PICK n \in Nat : n = Len(paths)
  OBVIOUS
<1>2. DOMAIN paths = 1..n /\ \A i \in 1..n : paths[i] \in Path
  BY <1>1
<1>3. M = [i \in 1..n |-> [dir |-> dir \o paths[i], of |-> of, at |-> paths[i]]]
  BY <1>2 DEF MountsOf, Mount
<1>4. ASSUME NEW i \in 1..n
      PROVE  /\ M[i] \in Mounts
             /\ M[i].dir = dir \o paths[i] /\ M[i].of = of /\ M[i].at = paths[i]
  <2>1. PICK p \in Path, q \in Path : p = paths[i] /\ q = dir \o p
    BY <1>2, JoinRule
  <2>2. M[i] = [dir |-> q, of |-> of, at |-> p]
    BY <1>3, <2>1
  <2>3. QED
    BY <2>1, <2>2 DEF Mounts
<1>5. M \in [1..n -> Mounts]
  <2>1. M = [i \in 1..n |-> M[i]]
    BY <1>3
  <2>2. QED
    BY <1>4, <2>1
<1>6. M \in Seq(Mounts) /\ Len(M) = n
  BY <1>5
<1>7. QED
  BY <1>1, <1>4, <1>6

-----------------------------------------------------------------------------
(* The mounts of the first stage and the directories of Paralloid.         *)

FirstPaths == Range(FirstStage)
OtherPaths == Range(Partitions)
Places     == FirstPaths \union {Root}
OwnDirs    == {Ramdisk, OldRoot, TargetTmp, Target, DebugRamdisk}

LEMMA RootFacts == Root \in Path /\ Len(Root) = 0 /\ \A p \in Path : Len(p) = 0 => p = Root
<1>1. Root \in Path /\ Len(Root) = 0
  BY DEF Root, Path
<1>2. \A p \in Path : Len(p) = 0 => p = Root
  BY DEF Root, Path
<1>3. QED
  BY <1>1, <1>2

LEMMA OwnFacts ==
  ASSUME NEW d \in OwnDirs
  PROVE  d \in Path /\ Len(d) = 1 /\ d # Root /\ ~Under(Root, d)
<1>1. d \in Path /\ Len(d) = 1
  <2>1. ASSUME NEW name \in Names PROVE <<name>> \in Seq(Names) /\ Len(<<name>>) = 1
    OBVIOUS
  <2>2. PICK name \in Names : d = <<name>>
    BY MountsAssumption DEF OwnDirs, Ramdisk, OldRoot, TargetTmp, Target, DebugRamdisk
  <2>3. QED
    BY <2>1, <2>2 DEF Path
<1>2. d # Root
  BY <1>1, RootFacts
<1>3. ~Under(Root, d)
  BY <1>1, RootFacts, UnderRule
<1>4. QED
  BY <1>1, <1>2, <1>3

LEMMA OneName ==
  ASSUME NEW p \in Path, NEW d \in Path, Len(d) = 1, p # Root, Under(d, p)
  PROVE  p = d
<1>1. Len(p) <= Len(d) /\ \A i \in 1..Len(p) : d[i] = p[i]
  BY UnderRule
<1>2. Len(p) \in Nat /\ Len(p) # 0
  <2>1. Len(p) \in Nat
    BY DEF Path
  <2>2. QED
    BY <2>1, RootFacts
<1>3. Len(p) = 1
  <2>1. PICK n \in Nat : n = Len(p) /\ n # 0
    BY <1>2
  <2>2. n <= 1
    BY <1>1, <2>1
  <2>3. QED
    BY <2>1, <2>2
<1>4. Len(p) = Len(d) /\ \A i \in 1..Len(p) : p[i] = d[i]
  BY <1>1, <1>3
<1>5. QED
  BY <1>4, SeqEqual DEF Path

LEMMA OwnApart ==
  ASSUME NEW d \in OwnDirs, NEW e \in OwnDirs, d # e
  PROVE  ~Under(d, e)
BY OwnFacts, OneName

LEMMA FirstFacts ==
  ASSUME NEW p \in FirstPaths \union OtherPaths
  PROVE  p \in Path /\ p # Root /\ \A d \in OwnDirs : ~Under(p, d) /\ ~Under(d, p)
<1>1. p \in Path
  BY MountsAssumption DEF FirstPaths, OtherPaths, Range
<1>2. p # Root /\ \A d \in OwnDirs : ~Under(p, d)
  BY MountsAssumption DEF FirstPaths, OtherPaths, OwnDirs
<1>3. ASSUME NEW d \in OwnDirs PROVE ~Under(d, p)
  <2>1. SUFFICES ASSUME Under(d, p) PROVE FALSE
    OBVIOUS
  <2>2. p = d
    BY <1>1, <1>2, <2>1, OwnFacts, OneName
  <2>3. Under(p, d)
    BY <1>1, <2>2, UnderOrder
  <2>4. QED
    BY <1>2, <2>3
<1>4. QED
  BY <1>1, <1>2, <1>3

(* A path below one of Paralloid's directories is none of the first stage. *)
LEMMA PlaceFacts ==
  ASSUME NEW d \in OwnDirs
  PROVE  /\ \A p \in Path : d \o p \in Path /\ Under(d \o p, d) /\ d \o p \notin Places
         /\ \A p, q \in Path : d \o p = d \o q => p = q
         /\ \A p \in Places : p \in Path /\ ~Under(p, d)
<1>1. d \in Path /\ ~Under(Root, d)
  BY OwnFacts
<1>2. \A p \in Places : p \in Path /\ ~Under(p, d)
  BY <1>1, RootFacts, FirstFacts DEF Places
<1>3. ASSUME NEW p \in Path
      PROVE  d \o p \in Path /\ Under(d \o p, d) /\ d \o p \notin Places
  <2>1. PICK q \in Path : q = d \o p
    BY <1>1, JoinRule
  <2>2. Under(q, d)
    BY <1>1, <2>1, JoinUnder
  <2>3. QED
    BY <1>2, <2>1, <2>2
<1>4. \A p, q \in Path : d \o p = d \o q => p = q
  BY <1>1, JoinEqual
<1>5. QED
  BY <1>2, <1>3, <1>4

-----------------------------------------------------------------------------
(* One move.                                                               *)

(* No mount of the list is within one that comes before it, and each one   *)
(* is there.                                                               *)
Apart(list) == \A k \in 1..Len(list) : \A j \in 1..k - 1 : ~Under(list[k], list[j])
AllMounted(list, table) ==
  \A k \in 1..Len(list) : \E i \in 1..Len(table) : table[i].dir = list[k]

LEMMA TailFacts ==
  ASSUME NEW list \in Seq(Path), list # <<>>, NEW d, d = Head(list), NEW rest, rest = Tail(list)
  PROVE  /\ d \in Path /\ rest \in Seq(Path) /\ d = list[1] /\ 1 \in 1..Len(list)
         /\ Len(list) \in Nat /\ Len(rest) = Len(list) - 1
         /\ \A k \in 1..Len(rest) : k + 1 \in 2..Len(list) /\ rest[k] = list[k + 1]
<1>1. PICK n \in Nat : n = Len(list) /\ n # 0
  OBVIOUS
<1>2. rest \in Seq(Path) /\ Len(rest) = n - 1
  BY <1>1
<1>3. \A k \in 1..n - 1 : rest[k] = list[k + 1]
  BY <1>1
<1>4. d = list[1] /\ d \in Path
  BY <1>1
<1>5. 1 \in 1..n /\ \A k \in 1..n - 1 : k + 1 \in 2..n
  BY <1>1
<1>6. QED
  BY <1>1, <1>2, <1>3, <1>4, <1>5

LEMMA TailApart ==
  ASSUME NEW list \in Seq(Path), list # <<>>, NEW d, d = Head(list), NEW rest, rest = Tail(list),
         Apart(list)
  PROVE  Apart(rest) /\ \A k \in 1..Len(rest) : ~Under(rest[k], d)
<1>1. PICK n \in Nat : n = Len(list) /\ Len(rest) = n - 1
  BY TailFacts
<1>2. d = list[1] /\ \A k \in 1..n - 1 : k + 1 \in 2..n /\ rest[k] = list[k + 1]
  BY <1>1, TailFacts
<1>3. \A k \in 1..n : \A j \in 1..k - 1 : ~Under(list[k], list[j])
  BY <1>1 DEF Apart
<1>4. ASSUME NEW k \in 1..n - 1 PROVE ~Under(rest[k], d)
  <2>1. k + 1 \in 1..n /\ 1 \in 1..(k + 1) - 1
    OBVIOUS
  <2>2. ~Under(list[k + 1], list[1])
    BY <1>3, <2>1
  <2>3. QED
    BY <1>2, <2>2
<1>5. ASSUME NEW k \in 1..n - 1, NEW j \in 1..k - 1 PROVE ~Under(rest[k], rest[j])
  <2>1. k + 1 \in 1..n /\ j + 1 \in 1..(k + 1) - 1 /\ j \in 1..n - 1
    OBVIOUS
  <2>2. ~Under(list[k + 1], list[j + 1])
    BY <1>3, <2>1
  <2>3. QED
    BY <1>2, <2>1, <2>2
<1>6. QED
  BY <1>1, <1>4, <1>5 DEF Apart

LEMMA TailMounted ==
  ASSUME NEW list \in Seq(Path), list # <<>>, NEW d, d = Head(list), NEW rest, rest = Tail(list),
         NEW table \in Seq(Mounts), AllMounted(list, table)
  PROVE  AllMounted(rest, table)
<1>1. PICK n \in Nat : n = Len(list) /\ Len(rest) = n - 1
  BY TailFacts
<1>2. \A k \in 1..n - 1 : k + 1 \in 2..n /\ rest[k] = list[k + 1]
  BY <1>1, TailFacts
<1>3. \A k \in 1..n : \E i \in 1..Len(table) : table[i].dir = list[k]
  BY <1>1 DEF AllMounted
<1>4. ASSUME NEW k \in 1..n - 1 PROVE \E i \in 1..Len(table) : table[i].dir = rest[k]
  <2>1. k + 1 \in 1..n
    OBVIOUS
  <2>2. QED
    BY <1>2, <1>3, <2>1
<1>5. QED
  BY <1>1, <1>4 DEF AllMounted

(* Moving the first of the list takes none of the others along.            *)
LEMMA MovedMounted ==
  ASSUME NEW list \in Seq(Path), list # <<>>, NEW d, d = Head(list), NEW rest, rest = Tail(list),
         NEW table \in Seq(Mounts), AllMounted(list, table), Apart(list),
         NEW new \in Path, NEW t, RenamedAs(t, table, d, new)
  PROVE  AllMounted(rest, t)
<1>1. AllMounted(rest, table)
  BY TailMounted
<1>2. \A k \in 1..Len(rest) : ~Under(rest[k], d)
  BY TailApart
<1>3. Len(t) = Len(table) /\ \A i \in 1..Len(table) : ~Under(table[i].dir, d) => t[i] = table[i]
  BY DEF RenamedAs
<1>4. ASSUME NEW k \in 1..Len(rest) PROVE \E i \in 1..Len(t) : t[i].dir = rest[k]
  <2>1. PICK i \in 1..Len(table) : table[i].dir = rest[k]
    BY <1>1 DEF AllMounted
  <2>2. ~Under(table[i].dir, d)
    BY <1>2, <2>1
  <2>3. QED
    BY <1>3, <2>1, <2>2
<1>5. QED
  BY <1>4 DEF AllMounted

LEMMA BoundMounted ==
  ASSUME NEW list \in Seq(Path), list # <<>>, NEW d, d = Head(list), NEW rest, rest = Tail(list),
         NEW table \in Seq(Mounts), AllMounted(list, table),
         NEW new \in Path, NEW t, BoundAs(t, table, d, new)
  PROVE  AllMounted(rest, t)
<1>1. AllMounted(rest, table)
  BY TailMounted
<1>2. Len(table) \in Nat /\ Len(t) \in Nat /\ Len(table) <= Len(t)
      /\ \A i \in 1..Len(table) : t[i] = table[i]
  BY DEF BoundAs
<1>3. ASSUME NEW k \in 1..Len(rest) PROVE \E i \in 1..Len(t) : t[i].dir = rest[k]
  <2>1. PICK i \in 1..Len(table) : table[i].dir = rest[k]
    BY <1>1 DEF AllMounted
  <2>2. i \in 1..Len(t)
    BY <1>2
  <2>3. QED
    BY <1>2, <2>1, <2>2
<1>4. QED
  BY <1>3 DEF AllMounted

-----------------------------------------------------------------------------
(* The moves from the root to new.                                         *)

(* Each mount is where it was, or at the same path below new; no directory *)
(* is mounted twice; what is still to be moved is not yet below new.       *)
InPlace(table, new) ==
  \A i \in 1..Len(table) :
    table[i].dir \in Places \/ \E p \in Places : table[i].dir = new \o p
DirsDiffer(table) ==
  \A i, j \in 1..Len(table) : table[i].dir = table[j].dir => i = j
MovedOnce(table, list, new) ==
  \A i, j \in 1..Len(table) : \A k \in 1..Len(list) :
    table[j].dir \in FirstPaths /\ table[i].dir = new \o table[j].dir
      => ~Under(table[j].dir, list[k])
OfFirst(list) == \A k \in 1..Len(list) : list[k] \in FirstPaths

Phase(table, list, new) ==
  /\ InPlace(table, new) /\ DirsDiffer(table) /\ MovedOnce(table, list, new)
  /\ OfFirst(list) /\ Apart(list) /\ AllMounted(list, table)

(* What a move takes along is still where it was.                          *)
LEMMA StillThere ==
  ASSUME NEW p \in Path, NEW d \in FirstPaths, NEW new \in OwnDirs, Under(p, d),
         p \in Places \/ \E q \in Places : p = new \o q
  PROVE  p \in FirstPaths
<1>1. d \in Path /\ d # Root /\ ~Under(new, d) /\ ~Under(d, new) /\ new \in Path
  BY FirstFacts, OwnFacts
<1>2. p # Root
  <2>1. SUFFICES ASSUME p = Root PROVE FALSE
    OBVIOUS
  <2>2. Under(Root, d) /\ Under(d, Root)
    BY <1>1, <2>1, UnderOrder
  <2>3. QED
    BY <1>1, <2>2, RootFacts, UnderOrder
<1>3. ASSUME NEW q \in Places, p = new \o q PROVE FALSE
  <2>1. q \in Path
    BY PlaceFacts
  <2>2. Under(p, new)
    BY <1>3, <2>1, PlaceFacts
  <2>3. QED
    BY <1>1, <2>2, UnderOrder
<1>4. QED
  BY <1>2, <1>3 DEF Places

LEMMA PhaseMove ==
  ASSUME NEW table \in Seq(Mounts), NEW list \in Seq(Path), list # <<>>,
         NEW new \in OwnDirs, Phase(table, list, new),
         NEW d, d = Head(list), NEW rest, rest = Tail(list),
         NEW to \in Path, to = new \o d, NEW t, RenamedAs(t, table, d, to)
  PROVE  Phase(t, rest, new)
<1>1. PICK n \in Nat : n = Len(table)
  OBVIOUS
<1>2. PICK m \in Nat : m = Len(rest) /\ Len(list) = m + 1
  BY TailFacts
<1>3. /\ d \in Path /\ d \in FirstPaths
      /\ \A k \in 1..m : rest[k] = list[k + 1] /\ rest[k] \in FirstPaths /\ k + 1 \in 1..m + 1
  <2>1. d = list[1] /\ d \in Path /\ 1 \in 1..m + 1
    BY <1>2, TailFacts
  <2>2. \A k \in 1..m : rest[k] = list[k + 1] /\ k + 1 \in 1..m + 1
    BY <1>2, TailFacts
  <2>3. \A k \in 1..m + 1 : list[k] \in FirstPaths
    BY <1>2 DEF Phase, OfFirst
  <2>4. QED
    BY <2>1, <2>2, <2>3
<1>4. \A i \in 1..n : table[i].dir \in Path
  BY <1>1, TableFacts
<1>5. new \in Path
  BY OwnFacts
<1>6. \A i \in 1..n : Under(table[i].dir, d) => table[i].dir \in FirstPaths
  BY <1>1, <1>3, <1>4, StillThere DEF Phase, InPlace
<1>7. Len(t) = n /\ t \in Seq(Mounts)
  BY <1>1 DEF RenamedAs
<1>8. ASSUME NEW i \in 1..n
      PROVE  /\ Under(table[i].dir, d) => t[i].dir = new \o table[i].dir
             /\ ~Under(table[i].dir, d) => t[i].dir = table[i].dir
  <2>1. /\ Under(table[i].dir, d) => t[i].dir = Moved(table[i].dir, d, to)
        /\ ~Under(table[i].dir, d) => t[i] = table[i]
    BY <1>1 DEF RenamedAs
  <2>2. PICK p \in Path : p = table[i].dir
    BY <1>4
  <2>3. Under(p, d) => Moved(p, d, to) = new \o p
    BY <1>3, <1>5, MovedOnto
  <2>4. QED
    BY <2>1, <2>2, <2>3
<1>9. ASSUME NEW i \in 1..n, t[i].dir \in FirstPaths
      PROVE  ~Under(table[i].dir, d) /\ t[i].dir = table[i].dir
  <2>1. new \o table[i].dir \notin FirstPaths
    BY <1>4, PlaceFacts DEF Places
  <2>2. QED
    BY <1>8, <1>9, <2>1
<1>10. InPlace(t, new)
  <2>1. SUFFICES ASSUME NEW i \in 1..n
                 PROVE  t[i].dir \in Places \/ \E p \in Places : t[i].dir = new \o p
    BY <1>7 DEF InPlace
  <2>2. CASE Under(table[i].dir, d)
    BY <1>6, <1>8, <2>2 DEF Places
  <2>3. CASE ~Under(table[i].dir, d)
    BY <1>1, <1>8, <2>3 DEF Phase, InPlace
  <2>4. QED
    BY <2>2, <2>3
<1>11. \A i, j \in 1..n : table[i].dir = table[j].dir => i = j
  BY <1>1 DEF Phase, DirsDiffer
<1>12. \A i, j \in 1..n : Under(table[i].dir, d) => table[j].dir # new \o table[i].dir
  <2>1. SUFFICES ASSUME NEW i \in 1..n, NEW j \in 1..n,
                        Under(table[i].dir, d), table[j].dir = new \o table[i].dir
                 PROVE  FALSE
    OBVIOUS
  <2>2. d = list[1] /\ 1 \in 1..Len(list)
    BY TailFacts
  <2>3. QED
    BY <1>1, <1>6, <2>1, <2>2 DEF Phase, MovedOnce
<1>13. DirsDiffer(t)
  <2>1. SUFFICES ASSUME NEW i \in 1..n, NEW j \in 1..n, t[i].dir = t[j].dir
                 PROVE  i = j
    BY <1>7 DEF DirsDiffer
  <2>2. CASE Under(table[i].dir, d) /\ Under(table[j].dir, d)
    <3>1. new \o table[i].dir = new \o table[j].dir
      BY <1>8, <2>1, <2>2
    <3>2. table[i].dir = table[j].dir
      BY <1>4, <3>1, PlaceFacts
    <3>3. QED
      BY <1>11, <3>2
  <2>3. CASE Under(table[i].dir, d) /\ ~Under(table[j].dir, d)
    BY <1>8, <1>12, <2>1, <2>3
  <2>4. CASE ~Under(table[i].dir, d) /\ Under(table[j].dir, d)
    BY <1>8, <1>12, <2>1, <2>4
  <2>5. CASE ~Under(table[i].dir, d) /\ ~Under(table[j].dir, d)
    BY <1>8, <1>11, <2>1, <2>5
  <2>6. QED
    BY <2>2, <2>3, <2>4, <2>5
<1>14. MovedOnce(t, rest, new)
  <2>1. SUFFICES ASSUME NEW i \in 1..n, NEW j \in 1..n, NEW k \in 1..m,
                        t[j].dir \in FirstPaths, t[i].dir = new \o t[j].dir
                 PROVE  ~Under(t[j].dir, rest[k])
    BY <1>2, <1>7 DEF MovedOnce
  <2>2. ~Under(table[j].dir, d) /\ t[j].dir = table[j].dir
    BY <1>9, <2>1
  <2>3. CASE Under(table[i].dir, d)
    <3>1. new \o table[i].dir = new \o table[j].dir
      BY <1>8, <2>1, <2>2, <2>3
    <3>2. table[i].dir = table[j].dir
      BY <1>4, <3>1, PlaceFacts
    <3>3. QED
      BY <2>2, <2>3, <3>2
  <2>4. CASE ~Under(table[i].dir, d)
    <3>1. table[j].dir \in FirstPaths /\ table[i].dir = new \o table[j].dir
      BY <1>8, <2>1, <2>2, <2>4
    <3>2. k + 1 \in 1..Len(list) /\ rest[k] = list[k + 1]
      BY <1>2, <1>3
    <3>3. QED
      BY <1>1, <2>2, <3>1, <3>2 DEF Phase, MovedOnce
  <2>5. QED
    BY <2>3, <2>4
<1>15. OfFirst(rest)
  BY <1>2, <1>3 DEF OfFirst
<1>16. Apart(rest)
  <2>1. Apart(list)
    BY DEF Phase
  <2>2. QED
    BY <2>1, TailApart
<1>17. AllMounted(rest, t)
  <2>1. AllMounted(list, table) /\ Apart(list)
    BY DEF Phase
  <2>2. QED
    BY <2>1, MovedMounted
<1>18. QED
  BY <1>10, <1>13, <1>14, <1>15, <1>16, <1>17 DEF Phase

LEMMA PhaseBind ==
  ASSUME NEW table \in Seq(Mounts), NEW list \in Seq(Path), list # <<>>,
         NEW new \in OwnDirs, Phase(table, list, new),
         NEW d, d = Head(list), Len(d) = 1, NEW rest, rest = Tail(list),
         NEW to \in Path, to = new \o d, NEW t, BoundAs(t, table, d, to)
  PROVE  Phase(t, rest, new)
<1>1. PICK n \in Nat, l \in Nat : n = Len(table) /\ l = Len(t) /\ n <= l
  BY DEF BoundAs
<1>2. PICK m \in Nat : m = Len(rest) /\ Len(list) = m + 1
  BY TailFacts
<1>3. /\ d \in Path /\ d \in FirstPaths
      /\ \A k \in 1..m : rest[k] = list[k + 1] /\ rest[k] \in FirstPaths /\ k + 1 \in 1..m + 1
  <2>1. d = list[1] /\ d \in Path /\ 1 \in 1..m + 1
    BY <1>2, TailFacts
  <2>2. \A k \in 1..m : rest[k] = list[k + 1] /\ k + 1 \in 1..m + 1
    BY <1>2, TailFacts
  <2>3. \A k \in 1..m + 1 : list[k] \in FirstPaths
    BY <1>2 DEF Phase, OfFirst
  <2>4. QED
    BY <2>1, <2>2, <2>3
<1>4. \A i \in 1..n : table[i].dir \in Path
  BY <1>1, TableFacts
<1>5. new \in Path
  BY OwnFacts
<1>6. \A i \in 1..n : Under(table[i].dir, d) => table[i].dir \in FirstPaths
  BY <1>1, <1>3, <1>4, StillThere DEF Phase, InPlace
<1>7. t \in Seq(Mounts) /\ \A i \in 1..n : t[i] = table[i] /\ i \in 1..l
  <2>1. t \in Seq(Mounts) /\ \A i \in 1..n : t[i] = table[i]
    BY <1>1 DEF BoundAs
  <2>2. \A i \in 1..n : i \in 1..l
    BY <1>1
  <2>3. QED
    BY <2>1, <2>2
<1>8. PICK from \in [n + 1..l -> 1..n] :
        /\ \A i, j \in n + 1..l : i < j => from[i] < from[j]
        /\ \A k \in n + 1..l : /\ Under(table[from[k]].dir, d)
                               /\ t[k].dir = Moved(table[from[k]].dir, d, to)
  BY <1>1 DEF BoundAs
<1>9. ASSUME NEW k \in n + 1..l
      PROVE  t[k].dir = new \o table[from[k]].dir /\ Under(table[from[k]].dir, d)
             /\ table[from[k]].dir \in FirstPaths /\ from[k] \in 1..n
  <2>1. PICK i \in 1..n : i = from[k]
    BY <1>8
  <2>2. PICK p \in Path : p = table[i].dir
    BY <1>4
  <2>3. Under(p, d) /\ t[k].dir = Moved(p, d, to)
    BY <1>8, <2>1, <2>2
  <2>4. Moved(p, d, to) = new \o p
    BY <1>3, <1>5, <2>3, MovedOnto
  <2>5. QED
    BY <1>6, <2>1, <2>2, <2>3, <2>4
<1>10. \A i \in 1..l : i \in 1..n \/ i \in n + 1..l
  BY <1>1
<1>11. InPlace(t, new)
  <2>1. SUFFICES ASSUME NEW i \in 1..l
                 PROVE  t[i].dir \in Places \/ \E p \in Places : t[i].dir = new \o p
    BY <1>1 DEF InPlace
  <2>2. CASE i \in n + 1..l
    BY <1>9, <2>2 DEF Places
  <2>3. CASE i \in 1..n
    BY <1>1, <1>7, <2>3 DEF Phase, InPlace
  <2>4. QED
    BY <1>10, <2>2, <2>3
<1>12. \A i, j \in 1..n : table[i].dir = table[j].dir => i = j
  BY <1>1 DEF Phase, DirsDiffer
<1>13. \A i, j \in 1..n : Under(table[i].dir, d) => table[j].dir # new \o table[i].dir
  <2>1. SUFFICES ASSUME NEW i \in 1..n, NEW j \in 1..n,
                        Under(table[i].dir, d), table[j].dir = new \o table[i].dir
                 PROVE  FALSE
    OBVIOUS
  <2>2. d = list[1] /\ 1 \in 1..Len(list)
    BY TailFacts
  <2>3. QED
    BY <1>1, <1>6, <2>1, <2>2 DEF Phase, MovedOnce
<1>14. \A i, j \in n + 1..l : from[i] = from[j] => i = j
  <2>1. SUFFICES ASSUME NEW i \in n + 1..l, NEW j \in n + 1..l, from[i] = from[j], i # j
                 PROVE  FALSE
    OBVIOUS
  <2>2. from[i] \in Nat
    BY <1>9
  <2>3. i < j \/ j < i
    BY <2>1
  <2>4. QED
    BY <1>8, <2>1, <2>2, <2>3
<1>15. DirsDiffer(t)
  <2>1. SUFFICES ASSUME NEW i \in 1..l, NEW j \in 1..l, t[i].dir = t[j].dir
                 PROVE  i = j
    BY <1>1 DEF DirsDiffer
  <2>2. CASE i \in n + 1..l /\ j \in n + 1..l
    <3>1. new \o table[from[i]].dir = new \o table[from[j]].dir
      BY <1>9, <2>1, <2>2
    <3>2. from[i] \in 1..n /\ from[j] \in 1..n
      BY <1>9, <2>2
    <3>3. table[from[i]].dir = table[from[j]].dir
      BY <1>4, <3>1, <3>2, PlaceFacts
    <3>4. QED
      BY <1>12, <1>14, <2>2, <3>2, <3>3
  <2>3. ASSUME NEW a \in n + 1..l, NEW b \in 1..n, t[a].dir = t[b].dir PROVE FALSE
    <3>1. from[a] \in 1..n /\ Under(table[from[a]].dir, d) /\ t[a].dir = new \o table[from[a]].dir
      BY <1>9
    <3>2. t[b].dir = table[b].dir
      BY <1>7
    <3>3. QED
      BY <1>13, <2>3, <3>1, <3>2
  <2>4. (i \in n + 1..l <=> j \in n + 1..l)
    BY <1>10, <2>1, <2>3
  <2>5. CASE i \in 1..n /\ j \in 1..n
    BY <1>7, <1>12, <2>1, <2>5
  <2>6. QED
    BY <1>10, <2>2, <2>4, <2>5
<1>16. Apart(rest) /\ \A k \in 1..m : ~Under(rest[k], d)
  <2>1. Apart(list)
    BY DEF Phase
  <2>2. Apart(rest) /\ \A k \in 1..Len(rest) : ~Under(rest[k], d)
    BY <2>1, TailApart
  <2>3. QED
    BY <1>2, <2>2
<1>17. MovedOnce(t, rest, new)
  <2>1. SUFFICES ASSUME NEW i \in 1..l, NEW j \in 1..l, NEW k \in 1..m,
                        t[j].dir \in FirstPaths, t[i].dir = new \o t[j].dir
                 PROVE  ~Under(t[j].dir, rest[k])
    BY <1>1, <1>2 DEF MovedOnce
  <2>2. j \in 1..n
    <3>1. CASE j \in n + 1..l
      <4>1. from[j] \in 1..n /\ t[j].dir = new \o table[from[j]].dir
        BY <1>9, <3>1
      <4>2. t[j].dir \notin Places
        BY <1>4, <4>1, PlaceFacts
      <4>3. QED
        BY <2>1, <4>2 DEF Places
    <3>2. QED
      BY <1>10, <3>1
  <2>3. t[j].dir = table[j].dir
    BY <1>7, <2>2
  <2>4. CASE i \in n + 1..l
    <3>1. from[i] \in 1..n /\ Under(table[from[i]].dir, d)
          /\ new \o table[from[i]].dir = new \o table[j].dir
      BY <1>9, <2>1, <2>3, <2>4
    <3>2. PICK p \in Path : p = table[j].dir
      BY <1>4, <2>2
    <3>3. Under(p, d)
      BY <1>4, <3>1, <3>2, PlaceFacts
    <3>4. PICK q \in Path : q = rest[k] /\ q # Root /\ ~Under(q, d)
      BY <1>3, <1>16, FirstFacts
    <3>5. ~Under(d, q)
      <4>1. SUFFICES ASSUME Under(d, q) PROVE FALSE
        OBVIOUS
      <4>2. q = d
        BY <1>3, <3>4, <4>1, OneName
      <4>3. QED
        BY <1>3, <3>4, <4>2, UnderOrder
    <3>6. ~Under(p, q)
      BY <1>3, <3>3, <3>4, <3>5, UnderOrder
    <3>7. QED
      BY <2>3, <3>2, <3>4, <3>6
  <2>5. CASE i \in 1..n
    <3>1. table[j].dir \in FirstPaths /\ table[i].dir = new \o table[j].dir
      BY <1>7, <2>1, <2>3, <2>5
    <3>2. k + 1 \in 1..Len(list) /\ rest[k] = list[k + 1]
      BY <1>2, <1>3
    <3>3. QED
      BY <1>1, <2>2, <2>3, <2>5, <3>1, <3>2 DEF Phase, MovedOnce
  <2>6. QED
    BY <1>10, <2>4, <2>5
<1>18. OfFirst(rest)
  BY <1>2, <1>3 DEF OfFirst
<1>19. AllMounted(rest, t)
  <2>1. AllMounted(list, table)
    BY DEF Phase
  <2>2. QED
    BY <2>1, BoundMounted
<1>20. QED
  BY <1>11, <1>15, <1>16, <1>17, <1>18, <1>19 DEF Phase

(* A mount that is not there fails to move.                                *)
LEMMA PhaseSkip ==
  ASSUME NEW table \in Seq(Mounts), NEW list \in Seq(Path), list # <<>>,
         NEW new \in OwnDirs, Phase(table, list, new), NEW rest, rest = Tail(list)
  PROVE  Phase(table, rest, new)
<1>1. PICK d : d = Head(list)
  OBVIOUS
<1>2. PICK m \in Nat : m = Len(rest) /\ Len(list) = m + 1
  BY <1>1, TailFacts
<1>3. \A k \in 1..m : rest[k] = list[k + 1] /\ k + 1 \in 1..Len(list)
  <2>1. \A k \in 1..m : k + 1 \in 1..m + 1
    OBVIOUS
  <2>2. QED
    BY <1>1, <1>2, <2>1, TailFacts
<1>4. MovedOnce(table, rest, new) /\ OfFirst(rest)
  BY <1>2, <1>3 DEF Phase, MovedOnce, OfFirst
<1>5. Apart(rest) /\ AllMounted(rest, table)
  BY <1>1, TailApart, TailMounted DEF Phase
<1>6. QED
  BY <1>4, <1>5 DEF Phase

-----------------------------------------------------------------------------
(* What move_mount_tree lists when it is called.                           *)

(* The mounts of these directories each have one of their own.             *)
Unique(table, dirs) ==
  \A i, j \in 1..Len(table) : table[i].dir \in dirs /\ table[i].dir = table[j].dir => i = j

ListReady(L, table, old, new) ==
  /\ L \in Seq(Path) /\ Apart(L) /\ AllMounted(L, table)
  /\ \A k \in 1..Len(L) : Below(L[k], old) /\ L[k] # new

LEMMA ListApart ==
  ASSUME NEW table \in Seq(Mounts), NEW old, NEW new, NEW L, L = GetMountsToMove(old, new, table),
         Unique(table, {p \in Path : Below(p, old)})
  PROVE  ListReady(L, table, old, new)
<1> USE DEF ListReady
<1>1. ListAs(L, old, new, table)
  BY ListFacts
<1>2. L \in Seq(Path)
  BY <1>1 DEF ListAs
<1>3. PICK at \in [1..Len(L) -> 1..Len(table)] :
         /\ \A k \in 1..Len(L) : L[k] = table[at[k]].dir /\ Below(L[k], old) /\ L[k] # new
         /\ \A k \in 1..Len(L) : \A j \in 1..k - 1 : at[j] < at[k] /\ ~Below(L[k], L[j])
  BY <1>1 DEF ListAs
<1>4. PICK n \in Nat, m \in Nat : n = Len(L) /\ m = Len(table)
  BY <1>2
<1>5. AllMounted(L, table)
  <2>1. SUFFICES ASSUME NEW k \in 1..n PROVE \E i \in 1..m : table[i].dir = L[k]
    BY <1>4 DEF AllMounted
  <2>2. at[k] \in 1..m /\ L[k] = table[at[k]].dir
    BY <1>3, <1>4
  <2>3. QED
    BY <2>2
<1>6. Apart(L)
  <2>1. SUFFICES ASSUME NEW k \in 1..n, NEW j \in 1..k - 1, Under(L[k], L[j]) PROVE FALSE
    BY <1>4 DEF Apart
  <2>2. j \in 1..n
    OBVIOUS
  <2>3. PICK p \in Path, q \in Path : p = L[k] /\ q = L[j]
    BY <1>2, <1>4, <2>2
  <2>4. at[j] < at[k] /\ ~Below(p, q)
    BY <1>3, <1>4, <2>3
  <2>5. p = q
    BY <2>1, <2>3, <2>4, UnderOrder
  <2>6. at[k] \in 1..m /\ at[j] \in 1..m /\ table[at[k]].dir = p /\ table[at[j]].dir = p
        /\ Below(p, old)
    BY <1>3, <1>4, <2>2, <2>3, <2>5
  <2>7. at[k] = at[j]
    BY <1>4, <2>6 DEF Unique
  <2>8. QED
    BY <2>4, <2>6, <2>7
<1>7. QED
  BY <1>2, <1>3, <1>5, <1>6

LEMMA PhaseStarts ==
  ASSUME NEW table \in Seq(Mounts), NEW new \in OwnDirs,
         \A i \in 1..Len(table) : table[i].dir \in Places \union {new},
         DirsDiffer(table), NEW L, L = GetMountsToMove(Root, new, table)
  PROVE  L \in Seq(Path) /\ Phase(table, L, new)
<1>1. Unique(table, {p \in Path : Below(p, Root)})
  BY DEF Unique, DirsDiffer
<1>2. /\ L \in Seq(Path) /\ Apart(L) /\ AllMounted(L, table)
      /\ \A k \in 1..Len(L) : Below(L[k], Root) /\ L[k] # new
  BY <1>1, ListApart DEF ListReady
<1>3. new \in Path /\ Root \in Path /\ Root \in Places /\ new \o Root = new
  BY OwnFacts, RootFacts DEF Places, Path, Root
<1>4. InPlace(table, new)
  <2>1. \A i \in 1..Len(table) : table[i].dir \in Places \/ table[i].dir = new \o Root
    BY <1>3
  <2>2. QED
    BY <1>3, <2>1 DEF InPlace
<1>5. OfFirst(L)
  <2>1. SUFFICES ASSUME NEW k \in 1..Len(L) PROVE L[k] \in FirstPaths
    BY DEF OfFirst
  <2>2. L[k] # Root
    <3>1. SUFFICES ASSUME L[k] = Root PROVE FALSE
      OBVIOUS
    <3>2. QED
      BY <1>2, <1>3, <3>1, UnderOrder
  <2>3. PICK i \in 1..Len(table) : table[i].dir = L[k]
    BY <1>2 DEF AllMounted
  <2>4. QED
    BY <1>2, <2>2, <2>3 DEF Places
<1>6. MovedOnce(table, L, new)
  <2>1. SUFFICES ASSUME NEW i \in 1..Len(table), NEW p \in FirstPaths, table[i].dir = new \o p
                 PROVE  FALSE
    BY DEF MovedOnce
  <2>2. p \in Path /\ p # Root
    BY FirstFacts
  <2>3. table[i].dir \notin Places
    BY <2>1, <2>2, PlaceFacts
  <2>4. new \o p = new \o Root
    BY <1>3, <2>1, <2>3
  <2>5. QED
    BY <1>3, <2>2, <2>4, PlaceFacts
<1>7. QED
  BY <1>2, <1>4, <1>5, <1>6 DEF Phase

(* The table after the pivot into the ramdisk.                             *)
Entered(table) ==
  /\ \A i \in 1..Len(table) : Under(table[i].dir, OldRoot) \/ table[i].dir \in Places
  /\ Unique(table, {p \in Path : ~Under(p, OldRoot)})

LEMMA PhaseEntered ==
  ASSUME NEW table \in Seq(Mounts), InPlace(table, Ramdisk), DirsDiffer(table),
         NEW P, PivotedAs(P, table, Ramdisk, OldRoot)
  PROVE  P \in Seq(Mounts) /\ Entered(P)
<1>1. PICK n \in Nat : n = Len(table) /\ n = Len(P)
  BY DEF PivotedAs
<1>2. Ramdisk \in OwnDirs /\ OldRoot \in OwnDirs
  BY DEF OwnDirs
<1>3. \A i \in 1..n : table[i].dir \in Path
  BY <1>1, TableFacts
<1>4. ASSUME NEW i \in 1..n
      PROVE  Under(P[i].dir, OldRoot) \/ (P[i].dir \in Places /\ table[i].dir = Ramdisk \o P[i].dir)
  <2>1. PICK q \in Path : q = table[i].dir
    BY <1>3
  <2>2. /\ \A p \in Path : q = Ramdisk \o p => P[i].dir = p
        /\ ~Under(q, Ramdisk) => P[i].dir = OldRoot \o q
    BY <1>1, <2>1 DEF PivotedAs
  <2>3. CASE q \in Places
    <3>1. ~Under(q, Ramdisk) /\ Under(OldRoot \o q, OldRoot)
      BY <1>2, <2>3, PlaceFacts
    <3>2. QED
      BY <2>2, <3>1
  <2>4. CASE \E p \in Places : q = Ramdisk \o p
    <3>1. PICK p \in Places : q = Ramdisk \o p
      BY <2>4
    <3>2. p \in Path
      BY <1>2, PlaceFacts
    <3>3. P[i].dir = p
      BY <2>2, <3>1, <3>2
    <3>4. QED
      BY <2>1, <3>1, <3>3
  <2>5. QED
    BY <1>1, <2>1, <2>3, <2>4 DEF InPlace
<1>5. Unique(P, {p \in Path : ~Under(p, OldRoot)})
  <2>1. SUFFICES ASSUME NEW i \in 1..n, NEW j \in 1..n, ~Under(P[i].dir, OldRoot),
                        P[i].dir = P[j].dir
                 PROVE  i = j
    BY <1>1 DEF Unique
  <2>2. table[i].dir = Ramdisk \o P[i].dir /\ table[j].dir = Ramdisk \o P[j].dir
    BY <1>4, <2>1
  <2>3. table[i].dir = table[j].dir
    BY <2>1, <2>2
  <2>4. QED
    BY <1>1, <2>3 DEF DirsDiffer
<1>6. P \in Seq(Mounts)
  BY DEF PivotedAs
<1>7. QED
  BY <1>1, <1>4, <1>5, <1>6 DEF Entered

KeptAs(K, table, set, dirs) ==
  /\ K \in Seq(Mounts) /\ Unique(K, dirs)
  /\ \A k \in 1..Len(K) : K[k] \in set /\ \E i \in 1..Len(table) : K[k] = table[i]

LEMMA KeptMounts ==
  ASSUME NEW table \in Seq(Mounts), NEW set, NEW K, K = Kept(table, set),
         NEW dirs, Unique(table, dirs)
  PROVE  KeptAs(K, table, set, dirs)
<1> USE DEF KeptAs
<1>1. K \in Seq(Mounts)
  BY KeptFacts
<1>2. PICK at \in [1..Len(K) -> 1..Len(table)] :
         /\ \A k \in 1..Len(K) : K[k] = table[at[k]] /\ K[k] \in set
         /\ \A k \in 1..Len(K) : \A j \in 1..k - 1 : at[j] < at[k]
  BY KeptFacts
<1>3. PICK n \in Nat, m \in Nat : n = Len(K) /\ m = Len(table)
  BY <1>1
<1>4. \A k \in 1..n : at[k] \in 1..m /\ K[k] = table[at[k]] /\ K[k] \in set
  BY <1>2, <1>3
<1>5. ASSUME NEW k \in 1..n, NEW j \in 1..n, at[k] = at[j] PROVE k = j
  <2>1. at[k] \in Nat /\ at[j] \in Nat
    BY <1>4
  <2>2. ~(k < j)
    <3>1. k < j => k \in 1..j - 1
      OBVIOUS
    <3>2. QED
      BY <1>2, <1>3, <1>5, <2>1, <3>1
  <2>3. ~(j < k)
    <3>1. j < k => j \in 1..k - 1
      OBVIOUS
    <3>2. QED
      BY <1>2, <1>3, <1>5, <2>1, <3>1
  <2>4. QED
    BY <2>2, <2>3
<1>6. Unique(K, dirs)
  <2>1. SUFFICES ASSUME NEW k \in 1..n, NEW j \in 1..n, K[k].dir \in dirs, K[k].dir = K[j].dir
                 PROVE  k = j
    BY <1>3 DEF Unique
  <2>2. PICK a \in 1..m, b \in 1..m : a = at[k] /\ b = at[j]
    BY <1>4
  <2>3. table[a].dir \in dirs /\ table[a].dir = table[b].dir
    BY <1>4, <2>1, <2>2
  <2>4. a = b
    BY <1>3, <2>3 DEF Unique
  <2>5. QED
    BY <1>5, <2>2, <2>4
<1>7. QED
  BY <1>1, <1>3, <1>4, <1>6

LEMMA KeptPaths ==
  ASSUME NEW s \in Seq(Path), IsInjective(s), NEW set, NEW K, K = Kept(s, set)
  PROVE  /\ K \in Seq(Path) /\ \A i, j \in 1..Len(K) : K[i] = K[j] => i = j
         /\ \A j \in 1..Len(K) : K[j] \in Range(s) /\ K[j] \in set
<1>1. K \in Seq(Path)
  BY KeptFacts
<1>2. PICK at \in [1..Len(K) -> 1..Len(s)] :
         /\ \A k \in 1..Len(K) : K[k] = s[at[k]] /\ K[k] \in set
         /\ \A k \in 1..Len(K) : \A j \in 1..k - 1 : at[j] < at[k]
  BY KeptFacts
<1>3. PICK n \in Nat, m \in Nat : n = Len(K) /\ m = Len(s)
  BY <1>1
<1>4. \A k \in 1..n : at[k] \in 1..m /\ K[k] = s[at[k]] /\ K[k] \in set
  BY <1>2, <1>3
<1>5. DOMAIN s = 1..m
  BY <1>3
<1>6. ASSUME NEW i \in 1..n, NEW j \in 1..n, K[i] = K[j] PROVE i = j
  <2>1. PICK a \in 1..m, b \in 1..m : a = at[i] /\ b = at[j]
    BY <1>4
  <2>2. s[a] = s[b]
    BY <1>4, <1>6, <2>1
  <2>3. a = b
    BY <1>5, <2>2 DEF IsInjective
  <2>4. at[i] = at[j] /\ at[i] \in Nat
    BY <2>1, <2>3
  <2>5. ~(i < j)
    <3>1. i < j => i \in 1..j - 1
      OBVIOUS
    <3>2. QED
      BY <1>2, <1>3, <2>4, <3>1
  <2>6. ~(j < i)
    <3>1. j < i => j \in 1..i - 1
      OBVIOUS
    <3>2. QED
      BY <1>2, <1>3, <2>4, <3>1
  <2>7. QED
    BY <2>5, <2>6
<1>7. \A j \in 1..n : K[j] \in Range(s)
  BY <1>4, <1>5 DEF Range
<1>8. QED
  BY <1>1, <1>3, <1>4, <1>6, <1>7

JoinedAs(t, table, extra) ==
  /\ t \in Seq(Mounts) /\ Len(t) = Len(table) + Len(extra)
  /\ \A i \in 1..Len(t) : (i \in 1..Len(table) /\ t[i] = table[i]) \/
                          (i - Len(table) \in 1..Len(extra) /\ t[i] = extra[i - Len(table)])
  /\ \A i \in 1..Len(table) : i \in 1..Len(t) /\ t[i] = table[i]
  /\ \A i \in 1..Len(extra) : Len(table) + i \in 1..Len(t) /\ t[Len(table) + i] = extra[i]

LEMMA JoinedMounts ==
  ASSUME NEW table \in Seq(Mounts), NEW extra \in Seq(Mounts), NEW t, t = table \o extra
  PROVE  JoinedAs(t, table, extra)
<1> USE DEF JoinedAs
<1>1. PICK n \in Nat, m \in Nat : n = Len(table) /\ m = Len(extra)
  OBVIOUS
<1>2. /\ t \in Seq(Mounts) /\ Len(t) = n + m
      /\ \A i \in 1..n + m : t[i] = IF i <= n THEN table[i] ELSE extra[i - n]
  <2>1. /\ table \o extra \in Seq(Mounts) /\ Len(table \o extra) = Len(table) + Len(extra)
        /\ \A i \in 1..Len(table) + Len(extra) :
             (table \o extra)[i] = IF i <= Len(table) THEN table[i] ELSE extra[i - Len(table)]
    BY ConcatProperties
  <2>2. QED
    BY <1>1, <2>1, Zenon
<1>3. \A i \in 1..n + m : (i \in 1..n /\ i <= n) \/ (i - n \in 1..m /\ ~(i <= n))
  OBVIOUS
<1>4. \A i \in 1..n : i \in 1..n + m /\ i <= n
  OBVIOUS
<1>5. \A i \in 1..m : n + i \in 1..n + m /\ ~(n + i <= n) /\ (n + i) - n = i
  OBVIOUS
<1>6. \A i \in 1..n + m : (i \in 1..n /\ t[i] = table[i]) \/ (i - n \in 1..m /\ t[i] = extra[i - n])
  BY <1>2, <1>3
<1>7. \A i \in 1..n : i \in 1..n + m /\ t[i] = table[i]
  BY <1>2, <1>4
<1>8. \A i \in 1..m : n + i \in 1..n + m /\ t[n + i] = extra[i]
  BY <1>2, <1>5
<1>9. QED
  BY <1>1, <1>2, <1>6, <1>7, <1>8

LEMMA JoinedUnique ==
  ASSUME NEW table \in Seq(Mounts), NEW extra \in Seq(Mounts), NEW t, t = table \o extra,
         NEW dirs, Unique(table, dirs), Unique(extra, dirs),
         \A i \in 1..Len(table) : \A j \in 1..Len(extra) :
           table[i].dir = extra[j].dir => table[i].dir \notin dirs
  PROVE  Unique(t, dirs)
<1>1. PICK n \in Nat, m \in Nat : n = Len(table) /\ m = Len(extra)
  OBVIOUS
<1>2. /\ Len(t) = n + m
      /\ \A i \in 1..n + m : (i \in 1..n /\ t[i] = table[i]) \/ (i - n \in 1..m /\ t[i] = extra[i - n])
  BY <1>1, JoinedMounts DEF JoinedAs
<1>3. SUFFICES ASSUME NEW i \in 1..n + m, NEW j \in 1..n + m, t[i].dir \in dirs, t[i].dir = t[j].dir
               PROVE  i = j
  BY <1>2 DEF Unique
<1>4. CASE (i \in 1..n /\ t[i] = table[i]) /\ (j \in 1..n /\ t[j] = table[j])
  BY <1>1, <1>3, <1>4 DEF Unique
<1>5. CASE (i - n \in 1..m /\ t[i] = extra[i - n]) /\ (j - n \in 1..m /\ t[j] = extra[j - n])
  <2>1. PICK a \in 1..m, b \in 1..m : a = i - n /\ b = j - n
    BY <1>5
  <2>2. a = b
    BY <1>1, <1>3, <1>5, <2>1 DEF Unique
  <2>3. QED
    BY <2>1, <2>2
<1>6. CASE (i \in 1..n /\ t[i] = table[i]) /\ (j - n \in 1..m /\ t[j] = extra[j - n])
  BY <1>1, <1>3, <1>6
<1>7. CASE (j \in 1..n /\ t[j] = table[j]) /\ (i - n \in 1..m /\ t[i] = extra[i - n])
  BY <1>1, <1>3, <1>7
<1>8. QED
  BY <1>2, <1>4, <1>5, <1>6, <1>7

LEMMA OneEntry ==
  ASSUME NEW dir \in Path, NEW of \in Owners, NEW at \in Path, NEW one, one = <<Mount(dir, of, at)>>
  PROVE  /\ one \in Seq(Mounts) /\ Len(one) = 1
         /\ one[1].dir = dir /\ one[1].of = of /\ one[1].at = at
<1>1. PICK m \in Mounts : m = Mount(dir, of, at) /\ m.dir = dir /\ m.of = of /\ m.at = at
  BY DEF Mount, Mounts
<1>2. one = <<m>>
  BY <1>1
<1>3. one \in Seq(Mounts) /\ Len(one) = 1 /\ one[1] = m
  BY <1>2
<1>4. QED
  BY <1>1, <1>3

LEMMA OneMount ==
  ASSUME NEW dir \in Path, NEW of \in Owners, NEW at \in Path, NEW table \in Seq(Mounts),
         NEW one, one = <<Mount(dir, of, at)>>
  PROVE  /\ one \in Seq(Mounts) /\ Len(one) = 1 /\ one[1].dir = dir /\ one[1].of = of /\ one[1].at = at
         /\ Append(table, Mount(dir, of, at)) = table \o one
         /\ \A dirs : Unique(one, dirs)
<1>1. PICK m \in Mounts : m = Mount(dir, of, at) /\ m.dir = dir /\ m.of = of /\ m.at = at
  BY DEF Mount, Mounts
<1>2. one = <<m>>
  BY <1>1
<1>3. one \in Seq(Mounts) /\ Len(one) = 1 /\ one[1] = m
  BY <1>2
<1>4. Append(table, m) = table \o <<m>>
  BY AppendIsConcat
<1>5. \A dirs : Unique(one, dirs)
  BY <1>3 DEF Unique
<1>6. QED
  BY <1>1, <1>2, <1>3, <1>4, <1>5

(* The mounts of the first stage while the menu is shown.                  *)
BelowTmp == {p \in Path : Under(p, TargetTmp)}
AtMenu(table) ==
  /\ Unique(table, BelowTmp)
  /\ \A i \in 1..Len(table) :
       Under(table[i].dir, TargetTmp) => \E p \in Places : table[i].dir = TargetTmp \o p

LEMMA PhaseMenu ==
  ASSUME NEW table \in Seq(Mounts), InPlace(table, TargetTmp), DirsDiffer(table),
         NEW own \in Seq(Mounts), \A j \in 1..Len(own) : ~Under(own[j].dir, TargetTmp),
         NEW t, t = table \o own
  PROVE  AtMenu(t)
<1>1. Unique(table, BelowTmp) /\ Unique(own, BelowTmp)
  BY DEF Unique, DirsDiffer, BelowTmp
<1>2. \A i \in 1..Len(table) : \A j \in 1..Len(own) :
        table[i].dir = own[j].dir => table[i].dir \notin BelowTmp
  BY DEF BelowTmp
<1>3. Unique(t, BelowTmp)
  BY <1>1, <1>2, JoinedUnique
<1>4. PICK n \in Nat, m \in Nat : n = Len(table) /\ m = Len(own)
  OBVIOUS
<1>5. Len(t) = n + m
      /\ \A i \in 1..n + m : (i \in 1..n /\ t[i] = table[i]) \/ (i - n \in 1..m /\ t[i] = own[i - n])
  BY <1>4, JoinedMounts DEF JoinedAs
<1>6. ASSUME NEW i \in 1..n + m, Under(t[i].dir, TargetTmp)
      PROVE  \E p \in Places : t[i].dir = TargetTmp \o p
  <2>1. i \in 1..n /\ t[i] = table[i]
    BY <1>4, <1>5, <1>6
  <2>2. TargetTmp \in OwnDirs
    BY DEF OwnDirs
  <2>3. table[i].dir \notin Places
    BY <1>6, <2>1, <2>2, PlaceFacts
  <2>4. QED
    BY <1>4, <2>1, <2>3 DEF InPlace
<1>7. QED
  BY <1>3, <1>5, <1>6 DEF AtMenu

LEMMA OwnMountsFacts ==
  /\ OwnMounts \in Seq(Mounts)
  /\ \A j \in 1..Len(OwnMounts) :
       /\ OwnMounts[j].of = "paralloid"
       /\ ~Under(OwnMounts[j].dir, TargetTmp) /\ ~Under(OwnMounts[j].dir, Target)
  /\ \E j \in 1..Len(OwnMounts) : OwnMounts[j].dir = <<"dev">>
<1>1. PICK list : list = << <<"proc">>, <<"config">>, <<"dev">>, <<"tmp">>, <<"sys", "fs", "pstore">> >>
  OBVIOUS
<1>2. \A p \in {<<"proc">>, <<"config">>, <<"dev">>, <<"tmp">>, <<"sys", "fs", "pstore">>} :
        p \in Path /\ p[1] # "target_tmp" /\ p[1] # "target"
  <2>1. \A a \in Names : <<a>> \in Seq(Names) /\ <<a>>[1] = a
    OBVIOUS
  <2>2. \A a, b, c \in Names : <<a, b, c>> \in Seq(Names) /\ <<a, b, c>>[1] = a
    OBVIOUS
  <2>3. {"proc", "config", "dev", "tmp", "sys", "fs", "pstore"} \subseteq Names
    BY MountsAssumption
  <2>4. <<"proc">>[1] = "proc" /\ <<"config">>[1] = "config" /\ <<"dev">>[1] = "dev"
        /\ <<"tmp">>[1] = "tmp" /\ <<"sys", "fs", "pstore">>[1] = "sys"
    OBVIOUS
  <2>5. PICK a \in Names, b \in Names, c \in Names, d \in Names, e \in Names, f \in Names, g \in Names :
          a = "proc" /\ b = "config" /\ c = "dev" /\ d = "tmp" /\ e = "sys" /\ f = "fs" /\ g = "pstore"
    BY <2>3
  <2>6. <<a>> \in Path /\ <<b>> \in Path /\ <<c>> \in Path /\ <<d>> \in Path /\ <<e, f, g>> \in Path
    BY <2>1, <2>2 DEF Path
  <2>7. /\ <<"proc">> \in Path /\ <<"config">> \in Path /\ <<"dev">> \in Path
        /\ <<"tmp">> \in Path /\ <<"sys", "fs", "pstore">> \in Path
    BY <2>5, <2>6
  <2>8. QED
    BY <2>4, <2>7
<1>3. list \in Seq(Path) /\ Len(list) = 5 /\ \A j \in 1..5 : list[j] \in Path /\ list[j][1] # "target_tmp"
                                                /\ list[j][1] # "target"
  <2>1. \A a, b, c, d, e \in Path :
          /\ <<a, b, c, d, e>> \in Seq(Path) /\ Len(<<a, b, c, d, e>>) = 5
          /\ \A j \in 1..5 : <<a, b, c, d, e>>[j] \in {a, b, c, d, e}
    OBVIOUS
  <2>2. PICK a, b, c, d, e :
          a = <<"proc">> /\ b = <<"config">> /\ c = <<"dev">> /\ d = <<"tmp">> /\ e = <<"sys", "fs", "pstore">>
    OBVIOUS
  <2>3. \A p \in {a, b, c, d, e} : p \in Path /\ p[1] # "target_tmp" /\ p[1] # "target"
    BY <1>2, <2>2
  <2>4. list = <<a, b, c, d, e>>
    BY <1>1, <2>2
  <2>5. QED
    BY <2>1, <2>3, <2>4
<1>4. "paralloid" \in Owners /\ Root \in Path
  BY RootFacts DEF Owners
<1>5. PICK own : own = OwnMounts
  OBVIOUS
<1>6. MountsAs(own, list, "paralloid", Root)
  <2>1. own = MountsOf(list, "paralloid", Root)
    BY <1>1, <1>5 DEF OwnMounts
  <2>2. QED
    BY <1>3, <1>4, <2>1, MountsOfFacts
<1>7. own \in Seq(Mounts) /\ Len(own) = 5
      /\ \A j \in 1..5 : own[j].of = "paralloid" /\ own[j].dir = Root \o list[j]
  BY <1>3, <1>6 DEF MountsAs
<1>8. ASSUME NEW j \in 1..5, NEW d \in {TargetTmp, Target} PROVE ~Under(own[j].dir, d)
  <2>1. PICK p \in Path : p = list[j] /\ p[1] # "target_tmp" /\ p[1] # "target"
    BY <1>3
  <2>2. own[j].dir = p
    BY <1>7, <2>1 DEF Root, Path
  <2>3. d \in Path /\ Len(d) = 1 /\ d[1] \in {"target_tmp", "target"}
    <3>1. TargetTmp[1] = "target_tmp" /\ Target[1] = "target"
      BY DEF TargetTmp, Target
    <3>2. d \in OwnDirs
      BY DEF OwnDirs
    <3>3. QED
      BY <3>1, <3>2, OwnFacts
  <2>4. 1 \in 1..Len(d) /\ p[1] # d[1]
    BY <2>1, <2>3
  <2>5. ~Under(p, d)
    BY <2>3, <2>4, UnderRule
  <2>6. QED
    BY <2>2, <2>5
<1>9. own[3].dir = <<"dev">>
  <2>1. list[3] = <<"dev">> /\ 3 \in 1..5
    BY <1>1
  <2>2. Root \o list[3] = list[3]
    BY <1>3, <2>1 DEF Root, Path
  <2>3. QED
    BY <1>7, <2>1, <2>2
<1>10. QED
  BY <1>5, <1>7, <1>8, <1>9

TargetTable(t, table, of) ==
  /\ t \in Seq(Mounts) /\ Unique(t, {p \in Path : Below(p, TargetTmp)})
  /\ \A i \in 1..Len(t) : t[i].of = of \/ \E j \in 1..Len(table) : t[i] = table[j]

(* The partitions join the mounts of the first stage.                      *)
LEMMA InternalUnique ==
  ASSUME NEW table \in Seq(Mounts), AtMenu(table), NEW some, NEW t,
         t = Append(table, Mount(Target, "internal", Root))
               \o MountsOf(Kept(Partitions, some), "internal", TargetTmp)
  PROVE  TargetTable(t, table, "internal")
<1> USE DEF TargetTable
<1> DEFINE dirs == {p \in Path : Below(p, TargetTmp)}
<1>1. Target \in OwnDirs /\ TargetTmp \in OwnDirs /\ Target # TargetTmp
  BY DEF OwnDirs, Target, TargetTmp
<1>2. /\ Target \in Path /\ TargetTmp \in Path /\ Root \in Path /\ "internal" \in Owners
      /\ ~Under(Target, TargetTmp)
  BY <1>1, OwnFacts, OwnApart, RootFacts DEF Owners
<1>3. \A p \in Path : Below(p, TargetTmp) <=> Under(p, TargetTmp) /\ p # TargetTmp
  BY <1>2, UnderOrder
<1>4. PICK one, a : one = <<Mount(Target, "internal", Root)>> /\ a = table \o one
  OBVIOUS
<1>5. /\ one \in Seq(Mounts) /\ Len(one) = 1 /\ one[1].dir = Target /\ one[1].of = "internal"
      /\ a = Append(table, Mount(Target, "internal", Root)) /\ \A s : Unique(one, s)
  BY <1>2, <1>4, OneMount
<1>6. Unique(table, dirs)
  BY <1>3 DEF AtMenu, Unique, BelowTmp
<1>7. \A i \in 1..Len(table) : \A j \in 1..Len(one) :
        table[i].dir = one[j].dir => table[i].dir \notin dirs
  BY <1>2, <1>3, <1>5
<1>8. a \in Seq(Mounts) /\ Unique(a, dirs)
  <2> HIDE DEF dirs
  <2>1. a \in Seq(Mounts)
    BY <1>4, <1>5, JoinedMounts DEF JoinedAs
  <2>2. QED
    BY <1>4, <1>5, <1>6, <1>7, <2>1, JoinedUnique
<1>9. PICK n \in Nat : n = Len(table)
  OBVIOUS
<1>10. /\ Len(a) = n + 1
       /\ \A i \in 1..n + 1 : \/ i \in 1..n /\ a[i] = table[i]
                              \/ a[i].dir = Target /\ a[i].of = "internal"
  <2>1. /\ Len(a) = n + 1
        /\ \A i \in 1..n + 1 : (i \in 1..n /\ a[i] = table[i]) \/ (i - n \in 1..1 /\ a[i] = one[i - n])
    BY <1>4, <1>5, <1>9, JoinedMounts DEF JoinedAs
  <2>2. \A i \in 1..n + 1 : i - n \in 1..1 => i - n = 1
    OBVIOUS
  <2>3. QED
    BY <1>5, <2>1, <2>2
<1>11. PICK K : K = Kept(Partitions, some)
  OBVIOUS
<1>12. Partitions \in Seq(Path) /\ IsInjective(Partitions)
  BY MountsAssumption
<1>13. /\ K \in Seq(Path) /\ \A i, j \in 1..Len(K) : K[i] = K[j] => i = j
       /\ \A j \in 1..Len(K) : K[j] \in OtherPaths
  BY <1>11, <1>12, KeptPaths DEF OtherPaths
<1>14. PICK m \in Nat : m = Len(K)
  BY <1>13
<1>15. ASSUME NEW j \in 1..m PROVE K[j] \in OtherPaths /\ K[j] \in Path /\ K[j] \notin Places
  <2>1. K[j] \in OtherPaths
    BY <1>13, <1>14
  <2>2. K[j] # Root /\ K[j] \in Path
    BY <2>1, FirstFacts
  <2>3. K[j] \notin FirstPaths
    BY <2>1, MountsAssumption DEF OtherPaths, FirstPaths
  <2>4. QED
    BY <2>1, <2>2, <2>3 DEF Places
<1>16. \A i, j \in 1..m : K[i] = K[j] => i = j
  BY <1>13, <1>14
<1>17. PICK M : M = MountsOf(K, "internal", TargetTmp)
  OBVIOUS
<1>18. MountsAs(M, K, "internal", TargetTmp)
  BY <1>2, <1>13, <1>17, MountsOfFacts
<1>19. M \in Seq(Mounts) /\ Len(M) = m
       /\ \A j \in 1..m : M[j].dir = TargetTmp \o K[j] /\ M[j].of = "internal"
  BY <1>14, <1>18 DEF MountsAs
<1>20. Unique(M, dirs)
  <2>1. SUFFICES ASSUME NEW i \in 1..m, NEW j \in 1..m, M[i].dir = M[j].dir PROVE i = j
    BY <1>19 DEF Unique
  <2>2. TargetTmp \o K[i] = TargetTmp \o K[j]
    BY <1>19, <2>1
  <2>3. K[i] = K[j]
    BY <1>1, <1>15, <2>2, PlaceFacts
  <2>4. QED
    BY <1>16, <2>3
<1>21. ASSUME NEW i \in 1..n + 1, NEW j \in 1..m, a[i].dir = M[j].dir PROVE FALSE
  <2>1. a[i].dir = TargetTmp \o K[j]
    BY <1>19, <1>21
  <2>2. Under(a[i].dir, TargetTmp)
    BY <1>1, <1>15, <2>1, PlaceFacts
  <2>3. i \in 1..n /\ a[i] = table[i]
    BY <1>2, <1>10, <2>2
  <2>4. PICK p \in Places : table[i].dir = TargetTmp \o p
    BY <1>9, <2>2, <2>3 DEF AtMenu
  <2>5. p \in Path /\ TargetTmp \o p = TargetTmp \o K[j]
    BY <1>1, <2>1, <2>3, <2>4, PlaceFacts
  <2>6. p = K[j]
    BY <1>1, <1>15, <2>5, PlaceFacts
  <2>7. QED
    BY <1>15, <2>6
<1>22. t = a \o M
  BY <1>5, <1>11, <1>17
<1>23. t \in Seq(Mounts)
  BY <1>8, <1>19, <1>22, JoinedMounts DEF JoinedAs
<1>24. Unique(t, dirs)
  <2> HIDE DEF dirs
  <2>1. \A i \in 1..Len(a) : \A j \in 1..Len(M) : a[i].dir = M[j].dir => a[i].dir \notin dirs
    BY <1>10, <1>19, <1>21
  <2>2. QED
    BY <1>8, <1>19, <1>20, <1>22, <2>1, JoinedUnique
<1>25. ASSUME NEW i \in 1..Len(t)
       PROVE  t[i].of = "internal" \/ \E j \in 1..Len(table) : t[i] = table[j]
  <2>1. (i \in 1..Len(a) /\ t[i] = a[i]) \/ (i - Len(a) \in 1..Len(M) /\ t[i] = M[i - Len(a)])
    <3>1. a \in Seq(Mounts) /\ M \in Seq(Mounts) /\ t = a \o M
      BY <1>8, <1>19, <1>22
    <3>2. JoinedAs(t, a, M)
      BY <3>1, JoinedMounts
    <3>3. QED
      BY <3>2 DEF JoinedAs
  <2>2. CASE i \in 1..Len(a) /\ t[i] = a[i]
    BY <1>9, <1>10, <2>2
  <2>3. CASE i - Len(a) \in 1..Len(M) /\ t[i] = M[i - Len(a)]
    BY <1>19, <2>3
  <2>4. QED
    BY <2>1, <2>2, <2>3
<1>26. QED
  BY <1>23, <1>24, <1>25

(* An image brings its mounts below /target only.                          *)
LEMMA ImageUnique ==
  ASSUME NEW table \in Seq(Mounts), AtMenu(table), NEW some, NEW t,
         t = Append(table, Mount(Target, "image", Root))
               \o MountsOf(Kept(<< <<"product">> >>, some), "image", Target)
  PROVE  TargetTable(t, table, "image")
<1> USE DEF TargetTable
<1> DEFINE dirs == {p \in Path : Below(p, TargetTmp)}
<1>1. Target \in OwnDirs /\ TargetTmp \in OwnDirs /\ Target # TargetTmp
  BY DEF OwnDirs, Target, TargetTmp
<1>2. /\ Target \in Path /\ TargetTmp \in Path /\ Root \in Path /\ "image" \in Owners
      /\ ~Under(Target, TargetTmp) /\ ~Under(TargetTmp, Target)
  BY <1>1, OwnFacts, OwnApart, RootFacts DEF Owners
<1>3. \A p \in Path : Below(p, TargetTmp) <=> Under(p, TargetTmp) /\ p # TargetTmp
  BY <1>2, UnderOrder
<1>4. PICK one, a : one = <<Mount(Target, "image", Root)>> /\ a = table \o one
  OBVIOUS
<1>5. /\ one \in Seq(Mounts) /\ Len(one) = 1 /\ one[1].dir = Target /\ one[1].of = "image"
      /\ a = Append(table, Mount(Target, "image", Root)) /\ \A s : Unique(one, s)
  BY <1>2, <1>4, OneMount
<1>6. Unique(table, dirs)
  BY <1>3 DEF AtMenu, Unique, BelowTmp
<1>7. \A i \in 1..Len(table) : \A j \in 1..Len(one) :
        table[i].dir = one[j].dir => table[i].dir \notin dirs
  BY <1>2, <1>3, <1>5
<1>8. a \in Seq(Mounts) /\ Unique(a, dirs)
  <2> HIDE DEF dirs
  <2>1. a \in Seq(Mounts)
    BY <1>4, <1>5, JoinedMounts DEF JoinedAs
  <2>2. QED
    BY <1>4, <1>5, <1>6, <1>7, <2>1, JoinedUnique
<1>9. PICK n \in Nat : n = Len(table)
  OBVIOUS
<1>10. /\ Len(a) = n + 1
       /\ \A i \in 1..n + 1 : \/ i \in 1..n /\ a[i] = table[i]
                              \/ a[i].dir = Target /\ a[i].of = "image"
  <2>1. /\ Len(a) = n + 1
        /\ \A i \in 1..n + 1 : (i \in 1..n /\ a[i] = table[i]) \/ (i - n \in 1..1 /\ a[i] = one[i - n])
    BY <1>4, <1>5, <1>9, JoinedMounts DEF JoinedAs
  <2>2. \A i \in 1..n + 1 : i - n \in 1..1 => i - n = 1
    OBVIOUS
  <2>3. QED
    BY <1>5, <2>1, <2>2
<1>11. PICK list : list = << <<"product">> >>
  OBVIOUS
<1>12. list \in Seq(Path) /\ IsInjective(list)
  <2>1. \A a1 \in Names : <<a1>> \in Seq(Names)
    OBVIOUS
  <2>2. PICK p \in Path : p = <<"product">>
    BY <2>1, MountsAssumption DEF Path
  <2>3. list = <<p>>
    BY <1>11, <2>2
  <2>4. list \in Seq(Path) /\ DOMAIN list = 1..1
    BY <2>3
  <2>5. QED
    BY <2>4 DEF IsInjective
<1>13. PICK K : K = Kept(list, some)
  OBVIOUS
<1>14. K \in Seq(Path) /\ \A i, j \in 1..Len(K) : K[i] = K[j] => i = j
  BY <1>12, <1>13, KeptPaths
<1>15. PICK m \in Nat : m = Len(K)
  BY <1>14
<1>16. \A j \in 1..m : K[j] \in Path
  BY <1>14, <1>15
<1>17. PICK M : M = MountsOf(K, "image", Target)
  OBVIOUS
<1>18. MountsAs(M, K, "image", Target)
  BY <1>2, <1>14, <1>17, MountsOfFacts
<1>19. M \in Seq(Mounts) /\ Len(M) = m
       /\ \A j \in 1..m : M[j].dir = Target \o K[j] /\ M[j].of = "image"
  BY <1>15, <1>18 DEF MountsAs
<1>20. ASSUME NEW j \in 1..m PROVE M[j].dir \notin dirs
  <2>1. PICK q \in Path : q = M[j].dir /\ Under(q, Target)
    BY <1>1, <1>16, <1>19, PlaceFacts
  <2>2. ~Under(q, TargetTmp)
    BY <1>2, <2>1, UnderOrder
  <2>3. QED
    BY <1>3, <2>1, <2>2
<1>21. t = a \o M
  BY <1>5, <1>11, <1>13, <1>17
<1>22. t \in Seq(Mounts)
  BY <1>8, <1>19, <1>21, JoinedMounts DEF JoinedAs
<1>23. Unique(t, dirs)
  <2>1. \A j \in 1..Len(M) : M[j].dir \notin dirs
    BY <1>19, <1>20
  <2> HIDE DEF dirs
  <2>2. Unique(M, dirs)
    BY <2>1 DEF Unique
  <2>3. \A i \in 1..Len(a) : \A j \in 1..Len(M) : a[i].dir = M[j].dir => a[i].dir \notin dirs
    BY <2>1
  <2>4. QED
    BY <1>8, <1>19, <1>21, <2>2, <2>3, JoinedUnique
<1>24. ASSUME NEW i \in 1..Len(t)
       PROVE  t[i].of = "image" \/ \E j \in 1..Len(table) : t[i] = table[j]
  <2>1. (i \in 1..Len(a) /\ t[i] = a[i]) \/ (i - Len(a) \in 1..Len(M) /\ t[i] = M[i - Len(a)])
    <3>1. a \in Seq(Mounts) /\ M \in Seq(Mounts) /\ t = a \o M
      BY <1>8, <1>19, <1>21
    <3>2. JoinedAs(t, a, M)
      BY <3>1, JoinedMounts
    <3>3. QED
      BY <3>2 DEF JoinedAs
  <2>2. CASE i \in 1..Len(a) /\ t[i] = a[i]
    BY <1>9, <1>10, <2>2
  <2>3. CASE i - Len(a) \in 1..Len(M) /\ t[i] = M[i - Len(a)]
    BY <1>19, <2>3
  <2>4. QED
    BY <2>1, <2>2, <2>3
<1>25. QED
  BY <1>22, <1>23, <1>24

-----------------------------------------------------------------------------
(* Where the mounts of one origin are, and those of the original system.   *)

OwnedAt(table, who, dirs) ==
  \A i \in 1..Len(table) : table[i].of \in who => table[i].dir \in dirs
SystemOnly(table, dirs) == OwnedAt(table, {"system"}, dirs)

(* All but the mounts of the first stage.                                  *)
Others == Owners \ {"first"}

LEMMA OwnedMoved ==
  ASSUME NEW table \in Seq(Mounts), NEW who, NEW dirs, OwnedAt(table, who, dirs),
         NEW d \in Path, \A q \in dirs : ~Under(q, d),
         NEW to \in Path, NEW t, RenamedAs(t, table, d, to)
  PROVE  OwnedAt(t, who, dirs)
<1>1. Len(t) = Len(table)
  BY DEF RenamedAs
<1>2. ASSUME NEW i \in 1..Len(table), t[i].of \in who PROVE t[i].dir \in dirs
  <2>1. table[i].of \in who /\ (~Under(table[i].dir, d) => t[i] = table[i])
    BY <1>2 DEF RenamedAs
  <2>2. table[i].dir \in dirs
    BY <2>1 DEF OwnedAt
  <2>3. QED
    BY <2>1, <2>2
<1>3. QED
  BY <1>1, <1>2 DEF OwnedAt

LEMMA OwnedBound ==
  ASSUME NEW table \in Seq(Mounts), NEW who, NEW dirs, OwnedAt(table, who, dirs),
         NEW d \in Path, \A q \in dirs : ~Under(q, d),
         NEW to \in Path, NEW t, BoundAs(t, table, d, to)
  PROVE  OwnedAt(t, who, dirs)
<1>1. PICK n \in Nat, l \in Nat : n = Len(table) /\ l = Len(t) /\ n <= l
  BY DEF BoundAs
<1>2. \A i \in 1..n : t[i] = table[i]
  BY <1>1 DEF BoundAs
<1>3. PICK from \in [n + 1..l -> 1..n] :
        \A k \in n + 1..l : t[k].of = table[from[k]].of /\ Under(table[from[k]].dir, d)
  BY <1>1 DEF BoundAs
<1>4. ASSUME NEW i \in 1..l, t[i].of \in who PROVE t[i].dir \in dirs
  <2>1. i \in 1..n \/ i \in n + 1..l
    BY <1>1
  <2>2. CASE i \in 1..n
    BY <1>1, <1>2, <1>4, <2>2 DEF OwnedAt
  <2>3. CASE i \in n + 1..l
    <3>1. PICK j \in 1..n : j = from[i]
      BY <1>3, <2>3
    <3>2. table[j].of \in who /\ Under(table[j].dir, d)
      BY <1>3, <1>4, <2>3, <3>1
    <3>3. table[j].dir \in dirs
      BY <1>1, <3>2 DEF OwnedAt
    <3>4. QED
      BY <3>2, <3>3
  <2>4. QED
    BY <2>1, <2>2, <2>3
<1>5. QED
  BY <1>1, <1>4 DEF OwnedAt

LEMMA OwnedJoined ==
  ASSUME NEW table \in Seq(Mounts), NEW extra \in Seq(Mounts), NEW t, t = table \o extra,
         NEW who, NEW dirs, OwnedAt(table, who, dirs),
         \A j \in 1..Len(extra) : extra[j].of \in who => extra[j].dir \in dirs
  PROVE  OwnedAt(t, who, dirs)
<1>1. \A i \in 1..Len(t) : (i \in 1..Len(table) /\ t[i] = table[i]) \/
                           (i - Len(table) \in 1..Len(extra) /\ t[i] = extra[i - Len(table)])
  BY JoinedMounts DEF JoinedAs
<1>2. QED
  BY <1>1 DEF OwnedAt

-----------------------------------------------------------------------------
(* The invariant.                                                          *)

Stages == {"start", "ramdisk", "entered", "target_tmp", "menu", "target", "booted"}

Typed ==
  /\ tree \in Seq(Mounts) /\ todo \in Seq(Path) /\ pc \in Stages
  /\ \A d \in made : Below(d, TargetTmp)
  /\ todo # <<>> => pc \in {"ramdisk", "target_tmp", "target"}
  /\ Always \subseteq first /\ first \subseteq FirstPaths
  /\ parts \subseteq OtherPaths \union {<<"product">>} /\ dropped \subseteq Skippable

SystemAt ==
  /\ pc \in {"start", "ramdisk"} => SystemOnly(tree, {Root})
  /\ pc = "entered" => SystemOnly(tree, {OldRoot})
  /\ pc \in {"target_tmp", "menu", "target", "booted"} => SystemOnly(tree, {})

AtStart == DirsDiffer(tree) /\ \A i \in 1..Len(tree) : tree[i].dir \in Places

AtTarget ==
  /\ Apart(todo) /\ AllMounted(todo, tree)
  /\ \A k \in 1..Len(todo) : Below(todo[k], TargetTmp)

Journey ==
  /\ pc = "start" => AtStart
  /\ pc = "ramdisk" => Phase(tree, todo, Ramdisk)
  /\ pc = "entered" => Entered(tree)
  /\ pc = "target_tmp" => Phase(tree, todo, TargetTmp)
  /\ pc = "menu" => AtMenu(tree)
  /\ pc = "target" => AtTarget

MountsInv == Typed /\ SystemAt /\ Journey

LEMMA MoveArguments ==
  /\ DOMAIN MoveAt = {"ramdisk", "target_tmp", "target"}
  /\ MoveAt["ramdisk"].old = Root /\ MoveAt["ramdisk"].new = Ramdisk
  /\ MoveAt["ramdisk"].rbind = {<<"sys">>}
  /\ MoveAt["target_tmp"].old = Root /\ MoveAt["target_tmp"].new = TargetTmp
  /\ MoveAt["target_tmp"].rbind = {<<"sys">>}
  /\ MoveAt["target"].old = TargetTmp /\ MoveAt["target"].new = Target
  /\ MoveAt["target"].rbind = {}
<1>1. PICK root, ramdisk, tmp, target, sys :
        /\ root = Root /\ ramdisk = Ramdisk /\ tmp = TargetTmp /\ target = Target
        /\ sys = {<<"sys">>}
  OBVIOUS
<1>2. MoveAt = [ramdisk    |-> [old |-> root, new |-> ramdisk, rbind |-> sys],
                target_tmp |-> [old |-> root, new |-> tmp, rbind |-> sys],
                target     |-> [old |-> tmp, new |-> target, rbind |-> {}]]
  BY <1>1, Zenon DEF MoveAt, Move
<1>3. QED
  BY <1>1, <1>2

LEMMA MountsInit ==
  ASSUME Init
  PROVE  MountsInv /\ OwnedAt(tree, Others, {Root})
<1>1. PICK some \in SUBSET FirstPaths :
        /\ Always \subseteq some /\ first = some
        /\ tree = <<Mount(Root, "system", Root)>> \o MountsOf(Kept(FirstStage, some), "first", Root)
  BY DEF Init, FirstPaths
<1>2. made = {} /\ todo = <<>> /\ pc = "start" /\ parts = {} /\ dropped = {}
  BY DEF Init
<1>3. PICK one, K, M : /\ one = <<Mount(Root, "system", Root)>> /\ K = Kept(FirstStage, some)
                       /\ M = MountsOf(K, "first", Root)
  OBVIOUS
<1>4. Root \in Path /\ "system" \in Owners /\ "first" \in Owners /\ <<>> \in Seq(Mounts)
  BY RootFacts DEF Owners
<1>5. one \in Seq(Mounts) /\ Len(one) = 1 /\ one[1].dir = Root /\ one[1].of = "system"
  <2>1. PICK root \in Path, system \in Owners : root = Root /\ system = "system"
    BY <1>4
  <2>2. one = <<Mount(root, system, root)>>
    BY <1>3, <2>1
  <2>3. one \in Seq(Mounts) /\ Len(one) = 1 /\ one[1].dir = root /\ one[1].of = system
    BY <2>2, OneEntry
  <2>4. QED
    BY <2>1, <2>3
<1>6. FirstStage \in Seq(Path) /\ IsInjective(FirstStage)
  BY MountsAssumption
<1>7. /\ K \in Seq(Path) /\ \A i, j \in 1..Len(K) : K[i] = K[j] => i = j
      /\ \A j \in 1..Len(K) : K[j] \in FirstPaths
  BY <1>3, <1>6, KeptPaths DEF FirstPaths
<1>8. PICK m \in Nat : m = Len(K)
  BY <1>7
<1>9. MountsAs(M, K, "first", Root)
  BY <1>3, <1>4, <1>7, MountsOfFacts
<1>10. M \in Seq(Mounts) /\ Len(M) = m
       /\ \A j \in 1..m : M[j].dir = Root \o K[j] /\ M[j].of = "first"
  BY <1>8, <1>9 DEF MountsAs
<1>11. ASSUME NEW j \in 1..m PROVE M[j].dir = K[j] /\ K[j] \in FirstPaths /\ K[j] # Root
  <2>1. PICK p \in Path : p = K[j] /\ p \in FirstPaths /\ p # Root
    BY <1>7, <1>8, FirstFacts
  <2>2. Root \o p = p
    BY DEF Root, Path
  <2>3. QED
    BY <1>10, <2>1, <2>2
<1>12. tree = one \o M
  BY <1>1, <1>3
<1>13. JoinedAs(tree, one, M)
  BY <1>5, <1>10, <1>12, JoinedMounts
<1>14. tree \in Seq(Mounts) /\ Len(tree) = 1 + m
       /\ \A i \in 1..1 + m : \/ i = 1 /\ tree[i] = one[1]
                              \/ i - 1 \in 1..m /\ tree[i] = M[i - 1]
  <2>1. \A i \in 1..1 : i = 1
    OBVIOUS
  <2>2. QED
    BY <1>5, <1>10, <1>13, <2>1 DEF JoinedAs
<1>15. \A i \in 1..1 + m : \/ i = 1 /\ tree[i].dir = Root /\ tree[i].of = "system"
                           \/ i - 1 \in 1..m /\ tree[i].dir = K[i - 1] /\ tree[i].of = "first"
  BY <1>5, <1>10, <1>11, <1>14
<1>16. AtStart
  <2>1. \A i \in 1..1 + m : tree[i].dir \in Places
    BY <1>11, <1>15 DEF Places
  <2>2. ASSUME NEW i \in 1..1 + m, NEW j \in 1..1 + m, tree[i].dir = tree[j].dir PROVE i = j
    <3>1. CASE i - 1 \in 1..m /\ j - 1 \in 1..m /\ tree[i].dir = K[i - 1] /\ tree[j].dir = K[j - 1]
      <4>1. i - 1 = j - 1
        BY <1>7, <1>8, <2>2, <3>1
      <4>2. QED
        BY <4>1
    <3>2. QED
      BY <1>11, <1>15, <2>2, <3>1
  <2>3. QED
    BY <1>14, <2>1, <2>2 DEF AtStart, DirsDiffer
<1>17. SystemOnly(tree, {Root}) /\ OwnedAt(tree, Others, {Root})
  BY <1>14, <1>15 DEF SystemOnly, OwnedAt, Others
<1>18. Typed
  BY <1>1, <1>2, <1>14 DEF Typed, Stages
<1>19. QED
  BY <1>2, <1>16, <1>17, <1>18 DEF MountsInv, SystemAt, Journey

(* The three calls of move_mount_tree.                                     *)
LEMMA MountsCopy ==
  ASSUME MountsInv, CopyToRamdisk
  PROVE  MountsInv'
<1>1. pc = "start" /\ pc' = "ramdisk" /\ UNCHANGED <<made, first, parts, dropped>>
  BY DEF CopyToRamdisk, CallMove
<1>2. PICK one : one = <<Mount(Ramdisk, "paralloid", Ramdisk)>>
  OBVIOUS
<1>3. Ramdisk \in OwnDirs /\ Ramdisk \in Path /\ "paralloid" \in Owners /\ tree \in Seq(Mounts)
  BY OwnFacts DEF OwnDirs, Owners, MountsInv, Typed
<1>4. /\ one \in Seq(Mounts) /\ Len(one) = 1 /\ one[1].dir = Ramdisk /\ one[1].of = "paralloid"
      /\ Append(tree, Mount(Ramdisk, "paralloid", Ramdisk)) = tree \o one
      /\ Unique(one, Path)
  BY <1>2, <1>3, OneMount
<1>5. tree' = tree \o one
      /\ todo' = GetMountsToMove(Root, Ramdisk, tree')
  BY <1>4, MoveArguments DEF CopyToRamdisk, CallMove
<1>6. PICK t : t = tree'
  OBVIOUS
<1>7. JoinedAs(t, tree, one)
  BY <1>3, <1>4, <1>5, <1>6, JoinedMounts
<1>8. PICK n \in Nat : n = Len(tree)
  BY <1>3
<1>9. t \in Seq(Mounts) /\ Len(t) = n + 1
      /\ \A i \in 1..n + 1 : \/ i \in 1..n /\ t[i] = tree[i]
                             \/ i - n \in 1..1 /\ t[i] = one[1]
  <2>1. \A k \in 1..1 : k = 1
    OBVIOUS
  <2>2. QED
    BY <1>4, <1>7, <1>8, <2>1 DEF JoinedAs
<1>10. \A i \in 1..n : tree[i].dir \in Places /\ ~Under(tree[i].dir, Ramdisk)
  BY <1>1, <1>3, <1>8, PlaceFacts DEF MountsInv, Journey, AtStart
<1>11. \A i \in 1..n + 1 : t[i].dir \in Places \union {Ramdisk}
  BY <1>4, <1>9, <1>10
<1>12. DirsDiffer(t)
  <2>1. Under(Ramdisk, Ramdisk)
    BY <1>3, UnderOrder
  <2>2. \A i \in 1..Len(tree) : \A j \in 1..Len(one) :
          tree[i].dir = one[j].dir => tree[i].dir \notin Path
    BY <1>4, <1>8, <1>10, <2>1
  <2>3. Unique(tree, Path)
    BY <1>1 DEF MountsInv, Journey, AtStart, DirsDiffer, Unique
  <2>4. Unique(t, Path)
    BY <1>3, <1>4, <1>5, <1>6, <2>2, <2>3, JoinedUnique
  <2>5. \A i \in 1..Len(t) : t[i].dir \in Path
    BY <1>9, TableFacts
  <2>6. QED
    BY <2>4, <2>5 DEF DirsDiffer, Unique
<1>13. PICK L : L = todo'
  OBVIOUS
<1>14. L \in Seq(Path) /\ Phase(t, L, Ramdisk)
  <2>1. L = GetMountsToMove(Root, Ramdisk, t)
    BY <1>5, <1>6, <1>13
  <2>2. \A i \in 1..Len(t) : t[i].dir \in Places \union {Ramdisk}
    BY <1>9, <1>11
  <2>3. QED
    BY <1>3, <1>9, <1>12, <2>1, <2>2, PhaseStarts
<1>15. SystemOnly(t, {Root})
  <2>1. SystemOnly(tree, {Root})
    BY <1>1 DEF MountsInv, SystemAt
  <2>2. \A j \in 1..Len(one) : one[j].of # "system"
    BY <1>4
  <2>3. QED
    BY <1>3, <1>4, <1>5, <1>6, <2>1, <2>2, OwnedJoined DEF SystemOnly
<1>16. Typed'
  BY <1>1, <1>6, <1>9, <1>13, <1>14 DEF Typed, MountsInv, Stages
<1>17. SystemAt' /\ Journey'
  BY <1>1, <1>6, <1>13, <1>14, <1>15 DEF SystemAt, Journey
<1>18. QED
  BY <1>16, <1>17 DEF MountsInv

LEMMA MountsEnter ==
  ASSUME MountsInv, EnterRamdisk
  PROVE  MountsInv'
<1>1. pc = "ramdisk" /\ pc' = "entered" /\ UNCHANGED <<made, todo, first, parts, dropped>>
      /\ todo = <<>> /\ tree' = Pivoted(tree, Ramdisk, OldRoot)
  BY DEF EnterRamdisk, MovesDone
<1>2. PICK P : P = tree'
  OBVIOUS
<1>3. tree \in Seq(Mounts) /\ Ramdisk \in OwnDirs /\ Ramdisk \in Path /\ OldRoot \in Path
  BY OwnFacts DEF OwnDirs, MountsInv, Typed
<1>4. PivotedAs(P, tree, Ramdisk, OldRoot)
  BY <1>1, <1>2, <1>3, PivotedFacts
<1>5. InPlace(tree, Ramdisk) /\ DirsDiffer(tree) /\ SystemOnly(tree, {Root})
  BY <1>1 DEF MountsInv, Journey, Phase, SystemAt
<1>6. P \in Seq(Mounts) /\ Entered(P)
  BY <1>3, <1>4, <1>5, PhaseEntered
<1>7. SystemOnly(P, {OldRoot})
  <2>1. SUFFICES ASSUME NEW i \in 1..Len(P), P[i].of = "system" PROVE P[i].dir = OldRoot
    BY DEF SystemOnly, OwnedAt
  <2>2. Len(P) = Len(tree) /\ P[i].of = tree[i].of
        /\ (~Under(tree[i].dir, Ramdisk) => P[i].dir = OldRoot \o tree[i].dir)
    BY <1>4 DEF PivotedAs
  <2>3. tree[i].dir = Root
    BY <1>5, <2>1, <2>2 DEF SystemOnly, OwnedAt
  <2>4. ~Under(Root, Ramdisk)
    BY <1>3, OwnFacts
  <2>5. OldRoot \o Root = OldRoot
    BY <1>3 DEF Root, Path
  <2>6. QED
    BY <2>2, <2>3, <2>4, <2>5
<1>8. Typed'
  BY <1>1, <1>2, <1>6 DEF Typed, MountsInv, Stages
<1>9. SystemAt' /\ Journey'
  BY <1>1, <1>2, <1>6, <1>7 DEF SystemAt, Journey
<1>10. QED
  BY <1>8, <1>9 DEF MountsInv

LEMMA MountsFree ==
  ASSUME MountsInv, FreeSystem
  PROVE  MountsInv'
<1>1. pc = "entered" /\ pc' = "target_tmp" /\ UNCHANGED <<made, first, parts, dropped>>
  BY DEF FreeSystem, CallMove
<1>2. PICK one, set, K :
        /\ one = <<Mount(TargetTmp, "paralloid", TargetTmp)>>
        /\ set = {m \in Range(tree) : ~Under(m.dir, OldRoot)} /\ K = Kept(tree, set)
  OBVIOUS
<1>3. TargetTmp \in OwnDirs /\ TargetTmp \in Path /\ "paralloid" \in Owners /\ tree \in Seq(Mounts)
  BY OwnFacts DEF OwnDirs, Owners, MountsInv, Typed
<1>4. Entered(tree) /\ SystemOnly(tree, {OldRoot})
  BY <1>1 DEF MountsInv, Journey, SystemAt
<1>5. PICK dirs : dirs = {p \in Path : ~Under(p, OldRoot)}
  OBVIOUS
<1>6. /\ K \in Seq(Mounts) /\ Unique(K, dirs)
      /\ \A k \in 1..Len(K) : K[k] \in set /\ \E i \in 1..Len(tree) : K[k] = tree[i]
  <2>1. Unique(tree, dirs)
    BY <1>4, <1>5 DEF Entered
  <2>2. KeptAs(K, tree, set, dirs)
    BY <1>2, <1>3, <2>1, KeptMounts
  <2>3. QED
    BY <2>2 DEF KeptAs
<1>7. \A k \in 1..Len(K) : /\ ~Under(K[k].dir, OldRoot) /\ K[k].dir \in Places
                           /\ K[k].of # "system"
  <2>1. SUFFICES ASSUME NEW k \in 1..Len(K)
                 PROVE  /\ ~Under(K[k].dir, OldRoot) /\ K[k].dir \in Places /\ K[k].of # "system"
    OBVIOUS
  <2>2. PICK i \in 1..Len(tree) : K[k] = tree[i]
    BY <1>6
  <2>3. ~Under(K[k].dir, OldRoot)
    BY <1>2, <1>6
  <2>4. tree[i].dir \in Places
    BY <1>4, <2>2, <2>3 DEF Entered
  <2>5. OldRoot \in OwnDirs
    BY DEF OwnDirs
  <2>6. Under(OldRoot, OldRoot)
    BY <2>5, OwnFacts, UnderOrder
  <2>7. tree[i].of # "system"
    BY <1>4, <2>2, <2>3, <2>6 DEF SystemOnly, OwnedAt
  <2>8. QED
    BY <2>2, <2>3, <2>4, <2>7
<1>8. /\ one \in Seq(Mounts) /\ Len(one) = 1 /\ one[1].dir = TargetTmp /\ one[1].of = "paralloid"
      /\ Append(K, Mount(TargetTmp, "paralloid", TargetTmp)) = K \o one
      /\ Unique(one, Path)
  BY <1>2, <1>3, <1>6, OneMount
<1>9. tree' = K \o one
      /\ todo' = GetMountsToMove(Root, TargetTmp, tree')
  BY <1>2, <1>8, MoveArguments DEF FreeSystem, CallMove, RecursiveUmount
<1>10. PICK t, L : t = tree' /\ L = todo'
  OBVIOUS
<1>11. JoinedAs(t, K, one)
  BY <1>6, <1>8, <1>9, <1>10, JoinedMounts
<1>12. PICK n \in Nat : n = Len(K)
  BY <1>6
<1>13. t \in Seq(Mounts) /\ Len(t) = n + 1
       /\ \A i \in 1..n + 1 : \/ i \in 1..n /\ t[i] = K[i]
                              \/ i - n \in 1..1 /\ t[i] = one[1]
  <2>1. \A k \in 1..1 : k = 1
    OBVIOUS
  <2>2. QED
    BY <1>8, <1>11, <1>12, <2>1 DEF JoinedAs
<1>14. \A i \in 1..n + 1 : t[i].dir \in Places \union {TargetTmp}
  BY <1>7, <1>8, <1>12, <1>13
<1>15. DirsDiffer(t)
  <2>1. Under(TargetTmp, TargetTmp)
    BY <1>3, UnderOrder
  <2>2. \A i \in 1..Len(K) : \A j \in 1..Len(one) :
          K[i].dir = one[j].dir => K[i].dir \notin Path
    BY <1>3, <1>7, <1>8, <2>1, PlaceFacts
  <2>3. Unique(K, Path)
    <3>1. \A i \in 1..Len(K) : K[i].dir \in Path
      BY <1>6, TableFacts
    <3>2. \A i \in 1..Len(K) : K[i].dir \in dirs
      BY <1>5, <1>7, <3>1
    <3>3. QED
      BY <1>6, <3>2 DEF Unique
  <2>4. Unique(t, Path)
    BY <1>6, <1>8, <1>9, <1>10, <2>2, <2>3, JoinedUnique
  <2>5. \A i \in 1..Len(t) : t[i].dir \in Path
    BY <1>13, TableFacts
  <2>6. QED
    BY <2>4, <2>5 DEF DirsDiffer, Unique
<1>16. L \in Seq(Path) /\ Phase(t, L, TargetTmp)
  <2>1. L = GetMountsToMove(Root, TargetTmp, t)
    BY <1>9, <1>10
  <2>2. \A i \in 1..Len(t) : t[i].dir \in Places \union {TargetTmp}
    BY <1>13, <1>14
  <2>3. QED
    BY <1>3, <1>13, <1>15, <2>1, <2>2, PhaseStarts
<1>17. SystemOnly(t, {})
  <2>1. SystemOnly(K, {})
    BY <1>7 DEF SystemOnly, OwnedAt
  <2>2. \A j \in 1..Len(one) : one[j].of # "system"
    BY <1>8
  <2>3. QED
    BY <1>6, <1>8, <1>9, <1>10, <2>1, <2>2, OwnedJoined DEF SystemOnly
<1>18. Typed'
  BY <1>1, <1>10, <1>13, <1>16 DEF Typed, MountsInv, Stages
<1>19. SystemAt' /\ Journey'
  BY <1>1, <1>10, <1>16, <1>17 DEF SystemAt, Journey
<1>20. QED
  BY <1>18, <1>19 DEF MountsInv

LEMMA MountsRemount ==
  ASSUME MountsInv, RemountOwn
  PROVE  MountsInv'
<1>1. pc = "target_tmp" /\ pc' = "menu" /\ UNCHANGED <<made, todo, first, parts, dropped>>
      /\ todo = <<>> /\ tree' = tree \o OwnMounts
  BY DEF RemountOwn, MovesDone
<1>2. PICK own, t : own = OwnMounts /\ t = tree'
  OBVIOUS
<1>3. own \in Seq(Mounts) /\ \A j \in 1..Len(own) : own[j].of = "paralloid" /\ ~Under(own[j].dir, TargetTmp)
  BY <1>2, OwnMountsFacts
<1>4. tree \in Seq(Mounts) /\ InPlace(tree, TargetTmp) /\ DirsDiffer(tree) /\ SystemOnly(tree, {})
  BY <1>1 DEF MountsInv, Typed, Journey, Phase, SystemAt
<1>5. t = tree \o own
  BY <1>1, <1>2
<1>6. AtMenu(t)
  BY <1>3, <1>4, <1>5, PhaseMenu
<1>7. t \in Seq(Mounts)
  BY <1>3, <1>4, <1>5, JoinedMounts DEF JoinedAs
<1>8. SystemOnly(t, {})
  <2>1. \A j \in 1..Len(own) : own[j].of # "system"
    BY <1>3
  <2>2. QED
    BY <1>3, <1>4, <1>5, <2>1, OwnedJoined DEF SystemOnly
<1>9. Typed'
  BY <1>1, <1>2, <1>7 DEF Typed, MountsInv, Stages
<1>10. SystemAt' /\ Journey'
  BY <1>1, <1>2, <1>6, <1>8 DEF SystemAt, Journey
<1>11. QED
  BY <1>9, <1>10 DEF MountsInv

TargetReady(t, L, table) ==
  /\ t \in Seq(Mounts) /\ L \in Seq(Path) /\ Apart(L) /\ AllMounted(L, t)
  /\ \A k \in 1..Len(L) : Below(L[k], TargetTmp)
  /\ \A k \in 1..Len(t) : \E i \in 1..Len(table) : t[k] = table[i]

(* What both ways to prepare the target come to.                           *)
LEMMA TargetStarts ==
  ASSUME NEW table \in Seq(Mounts), Unique(table, {p \in Path : Below(p, TargetTmp)}),
         NEW set, NEW t, t = Kept(table, set), NEW L, L = GetMountsToMove(TargetTmp, Target, t)
  PROVE  TargetReady(t, L, table)
<1> USE DEF TargetReady
<1>1. PICK dirs : dirs = {p \in Path : Below(p, TargetTmp)}
  OBVIOUS
<1>2. Unique(table, dirs)
  BY <1>1
<1>3. /\ t \in Seq(Mounts) /\ Unique(t, dirs)
      /\ \A k \in 1..Len(t) : \E i \in 1..Len(table) : t[k] = table[i]
  <2>1. KeptAs(t, table, set, dirs)
    BY <1>2, KeptMounts
  <2>2. QED
    BY <2>1 DEF KeptAs
<1>4. Unique(t, {p \in Path : Below(p, TargetTmp)})
  BY <1>1, <1>3
<1>5. /\ L \in Seq(Path) /\ Apart(L) /\ AllMounted(L, t)
      /\ \A k \in 1..Len(L) : Below(L[k], TargetTmp)
  BY <1>3, <1>4, ListApart DEF ListReady
<1>6. QED
  BY <1>3, <1>5

LEMMA MountsInternal ==
  ASSUME MountsInv, TargetInternal
  PROVE  MountsInv'
<1>1. pc = "menu" /\ pc' = "target" /\ UNCHANGED first
  BY DEF TargetInternal, CallMove
<1>2. PICK some, skip, table, gone :
        /\ some \subseteq OtherPaths /\ skip \subseteq Skippable
        /\ table = Append(tree, Mount(Target, "internal", Root))
                     \o MountsOf(Kept(Partitions, some), "internal", TargetTmp)
        /\ CallMove("target", Kept(table, {m \in Range(table) : m.dir \notin gone}))
        /\ parts' = some /\ dropped' = skip
  BY DEF TargetInternal, OtherPaths
<1>3. tree \in Seq(Mounts) /\ AtMenu(tree) /\ SystemOnly(tree, {})
  BY <1>1 DEF MountsInv, Typed, Journey, SystemAt
<1>4. /\ table \in Seq(Mounts) /\ Unique(table, {p \in Path : Below(p, TargetTmp)})
      /\ \A i \in 1..Len(table) : table[i].of = "internal" \/ \E j \in 1..Len(tree) : table[i] = tree[j]
  <2>1. TargetTable(table, tree, "internal")
    BY <1>2, <1>3, InternalUnique
  <2>2. QED
    BY <2>1 DEF TargetTable
<1>5. PICK set, t, L : /\ set = {m \in Range(table) : m.dir \notin gone}
                       /\ t = Kept(table, set) /\ L = GetMountsToMove(TargetTmp, Target, t)
  OBVIOUS
<1>6. tree' = t /\ todo' = L
  BY <1>2, <1>5, MoveArguments DEF CallMove
<1>7. /\ t \in Seq(Mounts) /\ L \in Seq(Path) /\ Apart(L) /\ AllMounted(L, t)
      /\ \A k \in 1..Len(L) : Below(L[k], TargetTmp)
      /\ \A k \in 1..Len(t) : \E i \in 1..Len(table) : t[k] = table[i]
  <2>1. TargetReady(t, L, table)
    BY <1>4, <1>5, TargetStarts
  <2>2. QED
    BY <2>1 DEF TargetReady
<1>8. SystemOnly(t, {})
  BY <1>3, <1>4, <1>7 DEF SystemOnly, OwnedAt
<1>9. \A d \in made' : Below(d, TargetTmp)
  <2>1. made' = made \union {TargetTmp \o p : p \in OtherPaths}
    BY DEF TargetInternal, OtherPaths
  <2>2. ASSUME NEW p \in OtherPaths PROVE Below(TargetTmp \o p, TargetTmp)
    <3>1. p \in Path /\ p # Root
      BY FirstFacts
    <3>2. TargetTmp \in OwnDirs
      BY DEF OwnDirs
    <3>3. PICK q \in Path, d \in Path : q = TargetTmp \o p /\ d = TargetTmp /\ Under(q, d)
      <4>1. TargetTmp \in Path /\ TargetTmp \o p \in Path /\ Under(TargetTmp \o p, TargetTmp)
        BY <3>1, <3>2, OwnFacts, PlaceFacts
      <4>2. QED
        BY <4>1
    <3>4. d \o Root = d /\ Root \in Path
      BY RootFacts DEF Root, Path
    <3>5. q # d
      BY <3>1, <3>2, <3>3, <3>4, PlaceFacts
    <3>6. QED
      BY <3>3, <3>5, UnderOrder
  <2>3. QED
    BY <2>1, <2>2 DEF MountsInv, Typed
<1>10. Typed'
  BY <1>1, <1>2, <1>6, <1>7, <1>9 DEF Typed, MountsInv, Stages
<1>11. SystemAt' /\ Journey'
  BY <1>1, <1>6, <1>7, <1>8 DEF SystemAt, Journey, AtTarget
<1>12. QED
  BY <1>10, <1>11 DEF MountsInv

LEMMA MountsImage ==
  ASSUME MountsInv, TargetImage
  PROVE  MountsInv'
<1>1. pc = "menu" /\ pc' = "target" /\ UNCHANGED <<made, first, dropped>>
  BY DEF TargetImage, CallMove
<1>2. PICK some, t :
        /\ some \subseteq {<<"product">>}
        /\ t = Append(tree, Mount(Target, "image", Root))
                 \o MountsOf(Kept(<< <<"product">> >>, some), "image", Target)
        /\ CallMove("target", t) /\ parts' = some
  BY DEF TargetImage
<1>3. tree \in Seq(Mounts) /\ AtMenu(tree) /\ SystemOnly(tree, {})
  BY <1>1 DEF MountsInv, Typed, Journey, SystemAt
<1>4. /\ t \in Seq(Mounts) /\ Unique(t, {p \in Path : Below(p, TargetTmp)})
      /\ \A i \in 1..Len(t) : t[i].of = "image" \/ \E j \in 1..Len(tree) : t[i] = tree[j]
  <2>1. TargetTable(t, tree, "image")
    BY <1>2, <1>3, ImageUnique
  <2>2. QED
    BY <2>1 DEF TargetTable
<1>5. PICK L : L = GetMountsToMove(TargetTmp, Target, t)
  OBVIOUS
<1>6. tree' = t /\ todo' = L
  BY <1>2, <1>5, MoveArguments DEF CallMove
<1>7. /\ L \in Seq(Path) /\ Apart(L) /\ AllMounted(L, t)
      /\ \A k \in 1..Len(L) : Below(L[k], TargetTmp)
  <2>1. ListReady(L, t, TargetTmp, Target)
    BY <1>4, <1>5, ListApart
  <2>2. QED
    BY <2>1 DEF ListReady
<1>8. SystemOnly(t, {})
  BY <1>3, <1>4 DEF SystemOnly, OwnedAt
<1>9. Typed'
  BY <1>1, <1>2, <1>4, <1>6, <1>7 DEF Typed, MountsInv, Stages
<1>10. SystemAt' /\ Journey'
  BY <1>1, <1>6, <1>7, <1>8 DEF SystemAt, Journey, AtTarget
<1>11. QED
  BY <1>9, <1>10 DEF MountsInv

(* The mounts made over an image: one outside the target, and files, each  *)
(* at a path of its own.                                                   *)
OverridesAs(E) ==
  /\ E \in Seq(Mounts)
  /\ \A k \in 1..Len(E) :
       \/ E[k].of = "paralloid" /\ ~Under(E[k].dir, Target)
       \/ /\ E[k].of = "override" /\ E[k].at \in Range(Overridden)
          /\ E[k].dir = Target \o E[k].at
  /\ \A k, j \in 1..Len(E) : /\ E[k].of = "override" /\ E[j].of = "override"
                             /\ E[k].at = E[j].at
                             => k = j

LEMMA OverridesFacts ==
  ASSUME NEW some, NEW E, E = Overrides(some)
  PROVE  OverridesAs(E)
<1>1. PICK list, K, A, B :
        /\ list = << <<"dev", "mntRAM">> >> /\ K = Kept(Overridden, some)
        /\ A = MountsOf(list, "paralloid", Root) /\ B = MountsOf(K, "override", Target)
  OBVIOUS
<1>2. PICK p \in Path : p = <<"dev", "mntRAM">> /\ p[1] = "dev"
  <2>1. \A a, b \in Names : <<a, b>> \in Seq(Names) /\ <<a, b>>[1] = a
    OBVIOUS
  <2>2. "dev" \in Names /\ "mntRAM" \in Names
    BY MountsAssumption, OverridesAssumption
  <2>3. PICK a \in Names, b \in Names : a = "dev" /\ b = "mntRAM"
    BY <2>2
  <2>4. <<a, b>> \in Path /\ <<a, b>>[1] = "dev"
    BY <2>1, <2>3 DEF Path
  <2>5. QED
    BY <2>3, <2>4
<1>3. list \in Seq(Path) /\ Len(list) = 1 /\ list[1] = p
  <2>1. list = <<p>>
    BY <1>1, <1>2
  <2>2. QED
    BY <2>1
<1>4. /\ "paralloid" \in Owners /\ "override" \in Owners /\ Root \in Path
      /\ Target \in Path /\ Len(Target) = 1
  BY RootFacts, OwnFacts DEF Owners, OwnDirs
<1>5. MountsAs(A, list, "paralloid", Root)
  BY <1>1, <1>3, <1>4, MountsOfFacts
<1>6. A \in Seq(Mounts) /\ Len(A) = 1 /\ A[1].of = "paralloid" /\ A[1].dir = p
  <2>1. A \in Seq(Mounts) /\ Len(A) = 1 /\ A[1].of = "paralloid" /\ A[1].dir = Root \o p
    BY <1>3, <1>5 DEF MountsAs
  <2>2. Root \o p = p
    BY DEF Root, Path
  <2>3. QED
    BY <2>1, <2>2
<1>7. ~Under(p, Target)
  <2>1. Target[1] = "target"
    BY DEF Target
  <2>2. 1 \in 1..Len(Target) /\ p[1] # Target[1]
    BY <1>2, <1>4, <2>1
  <2>3. QED
    BY <1>4, <2>2, UnderRule
<1>8. /\ K \in Seq(Path) /\ \A i, j \in 1..Len(K) : K[i] = K[j] => i = j
      /\ \A j \in 1..Len(K) : K[j] \in Range(Overridden)
  BY <1>1, OverridesAssumption, KeptPaths
<1>9. MountsAs(B, K, "override", Target)
  BY <1>1, <1>4, <1>8, MountsOfFacts
<1>10. E = A \o B
  BY <1>1 DEF Overrides
<1>11. PICK n \in Nat : n = Len(K)
  BY <1>8
<1>12. /\ B \in Seq(Mounts) /\ Len(B) = n
       /\ \A i \in 1..n : B[i].dir = Target \o K[i] /\ B[i].of = "override" /\ B[i].at = K[i]
  BY <1>9, <1>11 DEF MountsAs
<1>13. E \in Seq(Mounts) /\ Len(E) = 1 + n
       /\ \A i \in 1..1 + n : (i \in 1..1 /\ E[i] = A[i]) \/ (i - 1 \in 1..n /\ E[i] = B[i - 1])
  <2>1. JoinedAs(E, A, B)
    BY <1>6, <1>10, <1>12, JoinedMounts
  <2>2. PICK l \in Nat : l = Len(A) /\ l = 1
    BY <1>6
  <2>3. E \in Seq(Mounts) /\ Len(E) = l + n
        /\ \A i \in 1..Len(E) : (i \in 1..l /\ E[i] = A[i]) \/ (i - l \in 1..n /\ E[i] = B[i - l])
    BY <1>12, <2>1, <2>2 DEF JoinedAs
  <2>4. QED
    BY <2>2, <2>3
<1>14. \A k \in 1..1 + n :
         \/ E[k].of = "paralloid" /\ ~Under(E[k].dir, Target)
         \/ /\ k - 1 \in 1..n /\ E[k].of = "override" /\ E[k].at = K[k - 1]
            /\ E[k].dir = Target \o K[k - 1]
  <2>1. SUFFICES ASSUME NEW k \in 1..1 + n
                 PROVE  \/ E[k].of = "paralloid" /\ ~Under(E[k].dir, Target)
                        \/ /\ k - 1 \in 1..n /\ E[k].of = "override" /\ E[k].at = K[k - 1]
                           /\ E[k].dir = Target \o K[k - 1]
    OBVIOUS
  <2>2. CASE k \in 1..1 /\ E[k] = A[k]
    <3>1. k = 1
      BY <2>2
    <3>2. QED
      BY <1>6, <1>7, <2>2, <3>1
  <2>3. CASE k - 1 \in 1..n /\ E[k] = B[k - 1]
    BY <1>12, <2>3
  <2>4. QED
    BY <1>13, <2>2, <2>3
<1>15. ASSUME NEW k \in 1..1 + n, NEW j \in 1..1 + n, E[k].of = "override", E[j].of = "override",
              E[k].at = E[j].at
       PROVE  k = j
  <2>1. /\ k - 1 \in 1..n /\ j - 1 \in 1..n
        /\ E[k].at = K[k - 1] /\ E[j].at = K[j - 1]
    BY <1>14, <1>15
  <2>2. k - 1 = j - 1
    BY <1>8, <1>11, <1>15, <2>1
  <2>3. QED
    BY <2>2
<1>16. \A k \in 1..1 + n :
         \/ E[k].of = "paralloid" /\ ~Under(E[k].dir, Target)
         \/ /\ E[k].of = "override" /\ E[k].at \in Range(Overridden)
            /\ E[k].dir = Target \o E[k].at
  BY <1>8, <1>11, <1>14
<1>17. QED
  BY <1>13, <1>15, <1>16 DEF OverridesAs

(* What is pivoted is the table and, for an image, those mounts.           *)
LEMMA BootTable ==
  ASSUME MountsInv, EnterTarget
  PROVE  \E E, t : /\ OverridesAs(E) /\ t = tree \o E /\ JoinedAs(t, tree, E)
                   /\ Len(E) # 0 => Mount(Target, "image", Root) \in Table
                   /\ tree' = Pivoted(t, Target, DebugRamdisk)
<1>1. PICK some, image, E :
        /\ image <=> Mount(Target, "image", Root) \in Table
        /\ E = IF image THEN Overrides(some) ELSE <<>>
        /\ tree' = Pivoted(tree \o E, Target, DebugRamdisk)
  <2>1. PICK some :
          tree' = Pivoted(tree \o IF Mount(Target, "image", Root) \in Table
                                  THEN Overrides(some) ELSE <<>>,
                          Target, DebugRamdisk)
    BY DEF EnterTarget
  <2>2. PICK E : E = IF Mount(Target, "image", Root) \in Table THEN Overrides(some) ELSE <<>>
    OBVIOUS
  <2>3. tree' = Pivoted(tree \o E, Target, DebugRamdisk)
    BY <2>1, <2>2
  <2>4. QED
    BY <2>2, <2>3
<1>2. OverridesAs(E) /\ (Len(E) # 0 => image)
  <2>1. CASE image
    BY <1>1, <2>1, OverridesFacts
  <2>2. CASE ~image
    <3>1. E \in Seq(Mounts) /\ Len(E) = 0
      BY <1>1, <2>2
    <3>2. QED
      BY <3>1 DEF OverridesAs
  <2>3. QED
    BY <1>1, <2>1, <2>2
<1>3. tree \in Seq(Mounts) /\ E \in Seq(Mounts)
  BY <1>2 DEF MountsInv, Typed, OverridesAs
<1>4. PICK t : t = tree \o E
  OBVIOUS
<1>5. JoinedAs(t, tree, E)
  BY <1>3, <1>4, JoinedMounts
<1>6. QED
  BY <1>1, <1>2, <1>4, <1>5

LEMMA MountsBoot ==
  ASSUME MountsInv, EnterTarget
  PROVE  MountsInv'
<1>1. pc = "target" /\ pc' = "booted" /\ UNCHANGED <<made, todo, first, parts, dropped>>
      /\ todo = <<>>
  BY DEF EnterTarget, MovesDone
<1>2. PICK E, t : OverridesAs(E) /\ t = tree \o E /\ tree' = Pivoted(t, Target, DebugRamdisk)
  BY BootTable
<1>3. PICK P : P = tree'
  OBVIOUS
<1>4. tree \in Seq(Mounts) /\ E \in Seq(Mounts) /\ Target \in Path /\ DebugRamdisk \in Path
  BY <1>2, OwnFacts DEF OwnDirs, MountsInv, Typed, OverridesAs
<1>5. t \in Seq(Mounts)
  BY <1>2, <1>4, JoinedMounts DEF JoinedAs
<1>6. PivotedAs(P, t, Target, DebugRamdisk)
  BY <1>2, <1>3, <1>4, <1>5, PivotedFacts
<1>7. SystemOnly(t, {})
  <2>1. SystemOnly(tree, {})
    BY <1>1 DEF MountsInv, SystemAt
  <2>2. \A k \in 1..Len(E) : E[k].of \notin {"system"}
    BY <1>2 DEF OverridesAs
  <2>3. QED
    BY <1>2, <1>4, <2>1, <2>2, OwnedJoined DEF SystemOnly
<1>8. SystemOnly(P, {})
  BY <1>6, <1>7 DEF SystemOnly, OwnedAt, PivotedAs
<1>9. Typed'
  BY <1>1, <1>3, <1>6 DEF Typed, MountsInv, Stages, PivotedAs
<1>10. SystemAt' /\ Journey'
  BY <1>1, <1>3, <1>8 DEF SystemAt, Journey
<1>11. QED
  BY <1>9, <1>10 DEF MountsInv

LEMMA MountsSame ==
  ASSUME MountsInv, UNCHANGED vars
  PROVE  MountsInv'
<1>1. tree' = tree /\ made' = made /\ todo' = todo /\ pc' = pc /\ first' = first /\ parts' = parts
      /\ dropped' = dropped
  BY DEF vars
<1>2. Typed'
  BY <1>1 DEF MountsInv, Typed
<1>3. SystemAt'
  BY <1>1 DEF MountsInv, SystemAt
<1>4. Journey'
  BY <1>1 DEF MountsInv, Journey, AtStart, AtTarget
<1>5. QED
  BY <1>2, <1>3, <1>4 DEF MountsInv

(* One mount of the list.                                                  *)
MoveResult(t, d, to) ==
  t = tree \/ t = MovedMount(tree, d, to) \/
  (t = BoundMount(tree, d, to) /\ \E n \in MoveAt[pc].rbind : d = MoveAt[pc].old \o n)

LEMMA MoveMountIs ==
  ASSUME MountsInv, MoveMount, NEW d, d = Head(todo), NEW rest, rest = Tail(todo),
         NEW to, to = Moved(d, MoveAt[pc].old, MoveAt[pc].new), NEW t, t = tree'
  PROVE  /\ pc \in {"ramdisk", "target_tmp", "target"} /\ todo # <<>> /\ todo' = rest
         /\ UNCHANGED <<pc, first, parts, dropped>> /\ made' = MadeBy(to)
         /\ MoveResult(t, d, to)
<1>1. pc \in DOMAIN MoveAt /\ todo # <<>> /\ todo' = rest /\ UNCHANGED <<pc, first, parts, dropped>>
  BY DEF MoveMount
<1>2. /\ made' = MadeBy(to)
      /\ t = IF ~IsDirectory(to, made') THEN tree
             ELSE IF ShouldRbind(MoveAt[pc], d) THEN BoundMount(tree, d, to)
             ELSE MovedMount(tree, d, to)
  BY DEF MoveMount
<1>3. MoveResult(t, d, to)
  BY <1>2, Zenon DEF MoveResult, ShouldRbind
<1>4. QED
  BY <1>1, <1>2, <1>3, MoveArguments

(* Out of the root, where everything of the first stage is.                *)
LEMMA RootMove ==
  ASSUME MountsInv, NEW new \in OwnDirs, Phase(tree, todo, new), todo # <<>>,
         MoveAt[pc].old = Root, MoveAt[pc].rbind = {<<"sys">>},
         NEW dirs \in SUBSET {Root}, SystemOnly(tree, dirs),
         NEW d, d = Head(todo), NEW rest, rest = Tail(todo), NEW to, to = Moved(d, Root, new),
         NEW t, MoveResult(t, d, to)
  PROVE  t \in Seq(Mounts) /\ rest \in Seq(Path) /\ Phase(t, rest, new) /\ SystemOnly(t, dirs)
<1>1. tree \in Seq(Mounts) /\ todo \in Seq(Path) /\ new \in Path
  BY OwnFacts DEF MountsInv, Typed
<1>2. d \in Path /\ rest \in Seq(Path) /\ d = todo[1] /\ 1 \in 1..Len(todo)
  BY <1>1, TailFacts
<1>3. d \in FirstPaths
  BY <1>2 DEF Phase, OfFirst
<1>4. to = new \o d
  BY <1>1, <1>2, MovedFromRoot
<1>5. to \in Path
  <2>1. new \o d \in Path
    BY <1>1, <1>2, JoinRule
  <2>2. QED
    BY <1>4, <2>1
<1>6. \A q \in dirs : ~Under(q, d)
  <2>1. SUFFICES ASSUME Under(Root, d) PROVE FALSE
    OBVIOUS
  <2>2. Under(d, Root) /\ Root \in Path
    BY <1>2, RootFacts, UnderOrder
  <2>3. d = Root
    BY <1>2, <2>1, <2>2, UnderOrder
  <2>4. QED
    BY <1>3, <2>3, FirstFacts
<1>7. CASE t = tree
  BY <1>1, <1>2, <1>7, PhaseSkip
<1>8. CASE t = MovedMount(tree, d, to)
  <2>1. RenamedAs(t, tree, d, to)
    BY <1>1, <1>2, <1>5, <1>8, RenamedFacts DEF MovedMount
  <2>2. t \in Seq(Mounts)
    BY <2>1 DEF RenamedAs
  <2>3. Phase(t, rest, new)
    BY <1>1, <1>2, <1>4, <1>5, <2>1, PhaseMove
  <2>4. SystemOnly(t, dirs)
    BY <1>1, <1>2, <1>5, <1>6, <2>1, OwnedMoved DEF SystemOnly
  <2>5. QED
    BY <1>2, <2>2, <2>3, <2>4
<1>9. CASE t = BoundMount(tree, d, to) /\ \E n \in MoveAt[pc].rbind : d = MoveAt[pc].old \o n
  <2>1. BoundAs(t, tree, d, to)
    BY <1>1, <1>2, <1>5, <1>9, BoundFacts
  <2>2. t \in Seq(Mounts)
    BY <2>1 DEF BoundAs
  <2>3. Len(d) = 1
    <3>1. d = Root \o <<"sys">>
      BY <1>9
    <3>2. QED
      BY <3>1 DEF Root
  <2>4. Phase(t, rest, new)
    BY <1>1, <1>2, <1>4, <1>5, <2>1, <2>3, PhaseBind
  <2>5. SystemOnly(t, dirs)
    BY <1>1, <1>2, <1>5, <1>6, <2>1, OwnedBound DEF SystemOnly
  <2>6. QED
    BY <1>2, <2>2, <2>4, <2>5
<1>10. QED
  BY <1>7, <1>8, <1>9 DEF MoveResult

(* From /target_tmp into the target.                                       *)
LEMMA TargetMove ==
  ASSUME MountsInv, pc = "target", todo # <<>>,
         NEW d, d = Head(todo), NEW rest, rest = Tail(todo), NEW to, to = Moved(d, TargetTmp, Target),
         NEW t, MoveResult(t, d, to)
  PROVE  /\ t \in Seq(Mounts) /\ rest \in Seq(Path) /\ SystemOnly(t, {})
         /\ Apart(rest) /\ AllMounted(rest, t)
         /\ \A k \in 1..Len(rest) : Below(rest[k], TargetTmp)
<1>1. /\ tree \in Seq(Mounts) /\ todo \in Seq(Path) /\ Target \in Path /\ TargetTmp \in Path
      /\ SystemOnly(tree, {})
  BY OwnFacts DEF OwnDirs, MountsInv, Typed, SystemAt
<1>2. Apart(todo) /\ AllMounted(todo, tree) /\ \A k \in 1..Len(todo) : Below(todo[k], TargetTmp)
  BY DEF MountsInv, Journey, AtTarget
<1>3. /\ d \in Path /\ rest \in Seq(Path) /\ d = todo[1] /\ 1 \in 1..Len(todo)
      /\ \A k \in 1..Len(rest) : k + 1 \in 2..Len(todo) /\ rest[k] = todo[k + 1]
  BY <1>1, TailFacts
<1>4. \A k \in 1..Len(rest) : Below(rest[k], TargetTmp)
  <2>1. PICK n \in Nat, m \in Nat : n = Len(todo) /\ m = Len(rest)
    BY <1>1, <1>3
  <2>2. \A k \in 1..m : k + 1 \in 1..n
    BY <1>3, <2>1
  <2>3. QED
    BY <1>2, <1>3, <2>1, <2>2
<1>5. Apart(rest) /\ AllMounted(rest, tree)
  BY <1>1, <1>2, TailApart, TailMounted
<1>6. Under(d, TargetTmp)
  BY <1>1, <1>2, <1>3, UnderOrder
<1>7. to \in Path
  BY <1>1, <1>3, <1>6, MovedIsPath
<1>8. CASE t = tree
  BY <1>1, <1>3, <1>4, <1>5, <1>8
<1>9. CASE t = MovedMount(tree, d, to)
  <2>1. RenamedAs(t, tree, d, to)
    BY <1>1, <1>3, <1>7, <1>9, RenamedFacts DEF MovedMount
  <2>2. t \in Seq(Mounts)
    BY <2>1 DEF RenamedAs
  <2>3. AllMounted(rest, t)
    BY <1>1, <1>2, <1>3, <1>7, <2>1, MovedMounted
  <2>4. SystemOnly(t, {})
    BY <1>1, <1>3, <1>7, <2>1, OwnedMoved DEF SystemOnly
  <2>5. QED
    BY <1>3, <1>4, <1>5, <2>2, <2>3, <2>4
<1>10. QED
  BY <1>8, <1>9, MoveArguments DEF MoveResult

LEMMA MountsMove ==
  ASSUME MountsInv, MoveMount
  PROVE  MountsInv'
<1>1. PICK d, rest, to, t : /\ d = Head(todo) /\ rest = Tail(todo) /\ t = tree'
                            /\ to = Moved(d, MoveAt[pc].old, MoveAt[pc].new)
  OBVIOUS
<1>2. /\ pc \in {"ramdisk", "target_tmp", "target"} /\ todo # <<>> /\ todo' = rest
      /\ UNCHANGED <<pc, first, parts, dropped>> /\ made' = MadeBy(to)
      /\ MoveResult(t, d, to)
  BY <1>1, MoveMountIs
<1>3. \A e \in made' : Below(e, TargetTmp)
  BY <1>2 DEF MadeBy, MountsInv, Typed
<1>4. CASE pc = "ramdisk"
  <2>1. Ramdisk \in OwnDirs /\ Phase(tree, todo, Ramdisk) /\ SystemOnly(tree, {Root})
    BY <1>4 DEF OwnDirs, MountsInv, Journey, SystemAt
  <2>2. to = Moved(d, Root, Ramdisk) /\ MoveAt[pc].old = Root /\ MoveAt[pc].rbind = {<<"sys">>}
    BY <1>1, <1>4, MoveArguments
  <2>3. t \in Seq(Mounts) /\ rest \in Seq(Path) /\ Phase(t, rest, Ramdisk) /\ SystemOnly(t, {Root})
    BY <1>1, <1>2, <2>1, <2>2, RootMove
  <2>4. Typed'
    BY <1>1, <1>2, <1>3, <2>3 DEF Typed, MountsInv
  <2>5. SystemAt' /\ Journey'
    BY <1>1, <1>2, <1>4, <2>3 DEF SystemAt, Journey
  <2>6. QED
    BY <2>4, <2>5 DEF MountsInv
<1>5. CASE pc = "target_tmp"
  <2>1. TargetTmp \in OwnDirs /\ Phase(tree, todo, TargetTmp) /\ SystemOnly(tree, {})
    BY <1>5 DEF OwnDirs, MountsInv, Journey, SystemAt
  <2>2. to = Moved(d, Root, TargetTmp) /\ MoveAt[pc].old = Root /\ MoveAt[pc].rbind = {<<"sys">>}
    BY <1>1, <1>5, MoveArguments
  <2>3. t \in Seq(Mounts) /\ rest \in Seq(Path) /\ Phase(t, rest, TargetTmp) /\ SystemOnly(t, {})
    BY <1>1, <1>2, <2>1, <2>2, RootMove
  <2>4. Typed'
    BY <1>1, <1>2, <1>3, <2>3 DEF Typed, MountsInv
  <2>5. SystemAt' /\ Journey'
    BY <1>1, <1>2, <1>5, <2>3 DEF SystemAt, Journey
  <2>6. QED
    BY <2>4, <2>5 DEF MountsInv
<1>6. CASE pc = "target"
  <2>1. to = Moved(d, TargetTmp, Target)
    BY <1>1, <1>6, MoveArguments
  <2>2. /\ t \in Seq(Mounts) /\ rest \in Seq(Path) /\ SystemOnly(t, {})
        /\ Apart(rest) /\ AllMounted(rest, t)
        /\ \A k \in 1..Len(rest) : Below(rest[k], TargetTmp)
    BY <1>1, <1>2, <1>6, <2>1, TargetMove
  <2>3. Typed'
    BY <1>1, <1>2, <1>3, <2>2 DEF Typed, MountsInv
  <2>4. SystemAt' /\ Journey'
    BY <1>1, <1>2, <1>6, <2>2 DEF SystemAt, Journey, AtTarget
  <2>5. QED
    BY <2>3, <2>4 DEF MountsInv
<1>7. QED
  BY <1>2, <1>4, <1>5, <1>6

-----------------------------------------------------------------------------
(* The results.                                                            *)

LEMMA MountsInductive == MountsInv /\ [Next]_vars => MountsInv'
<1>1. SUFFICES ASSUME MountsInv, [Next]_vars PROVE MountsInv'
  OBVIOUS
<1>2. CASE Next
  BY <1>1, <1>2, MountsCopy, MountsEnter, MountsFree, MountsRemount, MountsInternal, MountsImage,
     MountsBoot, MountsMove, MountsSame DEF Next, Terminated
<1>3. CASE UNCHANGED vars
  BY <1>1, <1>3, MountsSame
<1>4. QED
  BY <1>1, <1>2, <1>3

LEMMA MountsInvariant == Spec => []MountsInv
<1>1. Init => MountsInv
  BY MountsInit
<1>2. QED
  BY <1>1, MountsInductive, PTL DEF Spec

(* The types of the state: who a mount belongs to, what is made below      *)
(* /target_tmp, when there is something to move (files/init,               *)
(* move_mount_tree).                                                       *)
THEOREM MountTypesCorrect == Spec => []TypeOK
<1>1. MountsInv => TypeOK
  <2>1. SUFFICES ASSUME MountsInv PROVE TypeOK
    OBVIOUS
  <2>2. \A m \in Table : m.of \in {"system", "first", "paralloid", "internal", "image", "override"}
    <3>1. tree \in Seq(Mounts)
      BY <2>1 DEF MountsInv, Typed
    <3>2. DOMAIN tree = 1..Len(tree)
      BY <3>1
    <3>3. QED
      BY <3>1, <3>2, TableFacts DEF Table, Range, Owners
  <2>3. QED
    BY <2>1, <2>2, MoveArguments DEF TypeOK, MountsInv, Typed, Stages, FirstPaths, OtherPaths
<1>2. QED
  BY <1>1, MountsInvariant, PTL

(* Whatever the first stage mounted and in whatever order, every mount     *)
(* move_mount_tree listed (main.cpp:43) is still there when its turn       *)
(* comes, in each of the three calls.                                      *)
THEOREM ListStaysCurrent == Spec => []ListIsCurrent
<1>1. MountsInv => ListIsCurrent
  <2>1. SUFFICES ASSUME MountsInv PROVE ListIsCurrent
    OBVIOUS
  <2>2. tree \in Seq(Mounts) /\ todo \in Seq(Path)
    BY <2>1 DEF MountsInv, Typed
  <2>3. DOMAIN todo = 1..Len(todo) /\ DOMAIN tree = 1..Len(tree)
    BY <2>2
  <2>4. AllMounted(todo, tree)
    <3>1. CASE todo = <<>>
      <4>1. Len(todo) = 0
        BY <3>1
      <4>2. QED
        BY <4>1 DEF AllMounted
    <3>2. CASE todo # <<>>
      BY <2>1, <3>2 DEF MountsInv, Typed, Journey, Phase, AtTarget
    <3>3. QED
      BY <3>1, <3>2
  <2>5. ASSUME NEW d \in Range(todo) PROVE \E m \in Range(tree) : m.dir = d
    <3>1. PICK k \in 1..Len(todo) : d = todo[k]
      BY <2>3 DEF Range
    <3>2. PICK i \in 1..Len(tree) : tree[i].dir = d
      BY <2>4, <3>1 DEF AllMounted
    <3>3. QED
      BY <2>3, <3>2 DEF Range
  <2>6. QED
    BY <2>5 DEF ListIsCurrent, Mounted, Table
<1>2. QED
  BY <1>1, MountsInvariant, PTL

(* From the moment the menu can be shown nothing of the original system is *)
(* mounted anywhere (files/init:29), so that its partition can be flashed. *)
THEOREM SystemStaysFree == Spec => []SystemFreed
<1>1. MountsInv => SystemFreed
  <2>1. SUFFICES ASSUME MountsInv, pc \in {"target_tmp", "menu", "target", "booted"},
                        NEW m \in Table, m.of = "system"
                 PROVE  FALSE
    BY DEF SystemFreed
  <2>2. tree \in Seq(Mounts) /\ SystemOnly(tree, {})
    BY <2>1 DEF MountsInv, Typed, SystemAt
  <2>3. PICK i \in 1..Len(tree) : m = tree[i]
    <3>1. DOMAIN tree = 1..Len(tree)
      BY <2>2
    <3>2. QED
      BY <2>1, <3>1 DEF Table, Range
  <2>4. QED
    BY <2>1, <2>2, <2>3 DEF SystemOnly, OwnedAt
<1>2. QED
  BY <1>1, MountsInvariant, PTL

-----------------------------------------------------------------------------
(* The mounts of the first stage reach the system.                         *)

Has(table, dir, p) ==
  \E i \in 1..Len(table) : table[i].dir = dir /\ table[i].of = "first" /\ table[i].at = p

TopOf(p, q) == q \in FirstPaths /\ Len(q) = 1 /\ Under(p, q)

Listed(list, e) == \E k \in 1..Len(list) : list[k] = e

(* It is below new already, or still below old with the mount at the top   *)
(* that it goes with in the list.                                          *)
Comes(p, table, list, old, new) ==
  \/ Has(table, new \o p, p)
  \/ /\ Has(table, old \o p, p)
     /\ \E q \in FirstPaths : TopOf(p, q) /\ Listed(list, old \o q)

LandsAs(p, old, new, d, to) == to \in Path /\ Moved(old \o p, d, to) = new \o p

LEMMA RestMoved ==
  ASSUME NEW p \in Path, NEW old \in Path, NEW new \in Path, NEW d \in Path, Under(d, old),
         Under(old \o p, d), NEW to, to = Moved(d, old, new)
  PROVE  LandsAs(p, old, new, d, to)
<1>1. PICK r \in Path : r = Rest(d, old) /\ d = old \o r
  BY UnderRest
<1>2. PICK a \in Path : a = old \o p
  BY JoinRule
<1>3. PICK s \in Path : s = Rest(a, d) /\ a = d \o s
  BY <1>2, UnderRest
<1>4. Moved(old \o r, old, new) = new \o r
  BY MovedRule
<1>5. to = new \o r
  BY <1>1, <1>4, Zenon
<1>6. to \in Path
  BY <1>5, JoinRule
<1>7. PICK rs \in Path : rs = r \o s
  BY JoinRule
<1>8. (old \o r) \o s = old \o rs /\ (new \o r) \o s = new \o rs
  <2>1. old \in Seq(Names) /\ new \in Seq(Names) /\ r \in Seq(Names) /\ s \in Seq(Names)
    BY DEF Path
  <2>2. (old \o r) \o s = old \o (r \o s)
    BY <2>1, ConcatAssociative
  <2>3. (new \o r) \o s = new \o (r \o s)
    BY <2>1, ConcatAssociative
  <2>4. QED
    BY <1>7, <2>2, <2>3, Zenon
<1>9. old \o p = old \o rs
  BY <1>1, <1>2, <1>3, <1>8, Zenon
<1>10. p = rs
  BY <1>9, JoinEqual
<1>11. Moved(d \o s, d, to) = to \o s
  <2>1. \A e \in Path : Moved(d \o s, d, e) = e \o s
    BY MovedRule
  <2>2. QED
    BY <1>6, <2>1
<1>12. Moved(old \o p, d, to) = to \o s
  BY <1>2, <1>3, <1>11, Zenon
<1>13. to \o s = new \o p
  BY <1>5, <1>8, <1>10, Zenon
<1>14. QED
  BY <1>6, <1>12, <1>13, Zenon DEF LandsAs

(* The place in the list is kept, unless it was the first.                 *)
LEMMA WaitsOn ==
  ASSUME NEW list \in Seq(Path), list # <<>>, NEW d, d = Head(list), NEW rest, rest = Tail(list),
         NEW e, Listed(list, e), e # d
  PROVE  Listed(rest, e)
<1>. PICK k \in 1..Len(list) : list[k] = e
  BY DEF Listed
<1>1. PICK m \in Nat : m = Len(rest) /\ Len(list) = m + 1
  BY TailFacts
<1>2. d = list[1] /\ \A j \in 1..m : rest[j] = list[j + 1]
  BY <1>1, TailFacts
<1>3. k # 1 /\ k \in 1..m + 1
  BY <1>1, <1>2
<1>4. PICK j \in 1..m : k = j + 1
  <2>1. k - 1 \in 1..m /\ k = (k - 1) + 1
    BY <1>3
  <2>2. QED
    BY <2>1
<1>5. QED
  BY <1>1, <1>2, <1>4 DEF Listed

LEMMA ComesMoved ==
  ASSUME NEW table \in Seq(Mounts), NEW list \in Seq(Path), list # <<>>,
         NEW old \in Path, NEW new \in Path, NEW p \in FirstPaths, Comes(p, table, list, old, new),
         NEW d, d = Head(list), NEW rest, rest = Tail(list),
         Under(d, old), ~Under(d, new), ~Under(new, d),
         NEW to, to = Moved(d, old, new), NEW t, RenamedAs(t, table, d, to)
  PROVE  Comes(p, t, rest, old, new)
<1>1. p \in Path /\ d \in Path
  BY FirstFacts, TailFacts
<1>2. PICK a \in Path, b \in Path : a = old \o p /\ b = new \o p
  BY <1>1, JoinRule
<1>3. Len(t) = Len(table) /\ \A i \in 1..Len(table) :
        /\ t[i].of = table[i].of /\ t[i].at = table[i].at
        /\ Under(table[i].dir, d) => t[i].dir = Moved(table[i].dir, d, to)
        /\ ~Under(table[i].dir, d) => t[i] = table[i]
  BY DEF RenamedAs
<1>4. CASE Has(table, b, p)
  <2>1. PICK i \in 1..Len(table) : table[i].dir = b /\ table[i].of = "first" /\ table[i].at = p
    BY <1>4 DEF Has
  <2>2. Under(b, new)
    BY <1>1, <1>2, JoinUnder
  <2>3. ~Under(b, d)
    BY <1>1, <2>2, UnderOrder
  <2>4. t[i] = table[i]
    BY <1>3, <2>1, <2>3
  <2>5. Has(t, b, p)
    BY <1>3, <2>1, <2>4 DEF Has
  <2>6. QED
    BY <1>2, <2>5 DEF Comes
<1>5. CASE Has(table, a, p) /\ \E q \in FirstPaths : TopOf(p, q) /\ Listed(list, old \o q)
  <2>1. PICK i \in 1..Len(table) : table[i].dir = a /\ table[i].of = "first" /\ table[i].at = p
    BY <1>5 DEF Has
  <2>2. PICK q \in FirstPaths : TopOf(p, q) /\ Listed(list, old \o q)
    BY <1>5
  <2>3. CASE Under(a, d)
    <3>1. Moved(a, d, to) = b
      <4>1. Under(old \o p, d)
        BY <1>2, <2>3
      <4>2. LandsAs(p, old, new, d, to)
        <5>1. p \in Path /\ d \in Path /\ Under(d, old) /\ to = Moved(d, old, new)
          BY <1>1
        <5>2. QED
          BY <4>1, <5>1, RestMoved
      <4>3. QED
        BY <1>2, <4>2 DEF LandsAs
    <3>2. t[i].dir = b /\ t[i].of = "first" /\ t[i].at = p
      BY <1>3, <2>1, <2>3, <3>1
    <3>3. Has(t, b, p)
      BY <1>3, <3>2 DEF Has
    <3>4. QED
      BY <1>2, <3>3 DEF Comes
  <2>4. CASE ~Under(a, d)
    <3>1. Has(t, a, p)
      BY <1>3, <2>1, <2>4 DEF Has
    <3>2. q \in Path /\ Under(p, q)
      BY <2>2, FirstFacts DEF TopOf
    <3>3. Under(a, old \o q)
      BY <1>1, <1>2, <3>2, JoinEqual
    <3>4. old \o q # d
      BY <2>4, <3>3
    <3>5. Listed(rest, old \o q)
      <4>1. PICK e \in {old \o q} : Listed(list, e) /\ e # d
        BY <2>2, <3>4
      <4>2. Listed(rest, e)
        BY <4>1, WaitsOn
      <4>3. QED
        BY <4>2
    <3>6. QED
      BY <1>2, <2>2, <3>1, <3>5 DEF Comes
  <2>5. QED
    BY <2>3, <2>4
<1>6. QED
  BY <1>2, <1>4, <1>5 DEF Comes

LEMMA ComesBound ==
  ASSUME NEW table \in Seq(Mounts), NEW list \in Seq(Path), list # <<>>,
         NEW old \in Path, NEW new \in Path, NEW p \in FirstPaths, Comes(p, table, list, old, new),
         NEW d, d = Head(list), NEW rest, rest = Tail(list), Under(d, old),
         NEW to, to = Moved(d, old, new), NEW t, BoundAs(t, table, d, to)
  PROVE  Comes(p, t, rest, old, new)
<1>1. p \in Path /\ d \in Path
  BY FirstFacts, TailFacts
<1>2. PICK a \in Path, b \in Path : a = old \o p /\ b = new \o p
  BY <1>1, JoinRule
<1>3. PICK n \in Nat, l \in Nat : n = Len(table) /\ l = Len(t) /\ n <= l
  BY DEF BoundAs
<1>4. \A i \in 1..n : t[i] = table[i] /\ i \in 1..l
  <2>1. \A i \in 1..n : t[i] = table[i]
    BY <1>3 DEF BoundAs
  <2>2. \A i \in 1..n : i \in 1..l
    BY <1>3
  <2>3. QED
    BY <2>1, <2>2
<1>5. PICK from \in [n + 1..l -> 1..n] :
        /\ \A i \in 1..n : Under(table[i].dir, d) => \E k \in n + 1..l : from[k] = i
        /\ \A k \in n + 1..l :
             /\ t[k].of = table[from[k]].of /\ t[k].at = table[from[k]].at
             /\ Under(table[from[k]].dir, d)
             /\ t[k].dir = Moved(table[from[k]].dir, d, to)
  BY <1>3 DEF BoundAs
<1>6. ASSUME NEW dir, Has(table, dir, p) PROVE Has(t, dir, p)
  BY <1>3, <1>4, <1>6 DEF Has
<1>7. CASE Has(table, b, p)
  BY <1>2, <1>6, <1>7 DEF Comes
<1>8. CASE Has(table, a, p) /\ \E q \in FirstPaths : TopOf(p, q) /\ Listed(list, old \o q)
  <2>1. PICK i \in 1..n : table[i].dir = a /\ table[i].of = "first" /\ table[i].at = p
    BY <1>3, <1>8 DEF Has
  <2>2. PICK q \in FirstPaths : TopOf(p, q) /\ Listed(list, old \o q)
    BY <1>8
  <2>3. CASE Under(a, d)
    <3>1. Moved(a, d, to) = b
      <4>1. Under(old \o p, d)
        BY <1>2, <2>3
      <4>2. LandsAs(p, old, new, d, to)
        <5>1. p \in Path /\ d \in Path /\ Under(d, old) /\ to = Moved(d, old, new)
          BY <1>1
        <5>2. QED
          BY <4>1, <5>1, RestMoved
      <4>3. QED
        BY <1>2, <4>2 DEF LandsAs
    <3>2. PICK c \in n + 1..l : from[c] = i
      BY <1>5, <2>1, <2>3
    <3>3. t[c].dir = b /\ t[c].of = "first" /\ t[c].at = p
      BY <1>5, <2>1, <3>1, <3>2
    <3>4. c \in 1..l
      BY <1>3
    <3>5. Has(t, b, p)
      BY <1>3, <3>3, <3>4 DEF Has
    <3>6. QED
      BY <1>2, <3>5 DEF Comes
  <2>4. CASE ~Under(a, d)
    <3>1. Has(t, a, p)
      BY <1>6, <1>8
    <3>2. q \in Path /\ Under(p, q)
      BY <2>2, FirstFacts DEF TopOf
    <3>3. Under(a, old \o q)
      BY <1>1, <1>2, <3>2, JoinEqual
    <3>4. old \o q # d
      BY <2>4, <3>3
    <3>5. Listed(rest, old \o q)
      <4>1. PICK e \in {old \o q} : Listed(list, e) /\ e # d
        BY <2>2, <3>4
      <4>2. Listed(rest, e)
        BY <4>1, WaitsOn
      <4>3. QED
        BY <4>2
    <3>6. QED
      BY <1>2, <2>2, <3>1, <3>5 DEF Comes
  <2>5. QED
    BY <2>3, <2>4
<1>9. QED
  BY <1>2, <1>7, <1>8 DEF Comes

(* What could not be moved is not what it goes with.                       *)
LEMMA ComesSkipped ==
  ASSUME NEW table, NEW list \in Seq(Path), list # <<>>,
         NEW old \in Path, NEW new \in Path, NEW p \in FirstPaths, Comes(p, table, list, old, new),
         NEW d, d = Head(list), NEW rest, rest = Tail(list),
         \A q \in FirstPaths : Len(q) = 1 => d # old \o q
  PROVE  Comes(p, table, rest, old, new)
<1>1. CASE Has(table, new \o p, p)
  BY <1>1 DEF Comes
<1>2. CASE Has(table, old \o p, p) /\ \E q \in FirstPaths : TopOf(p, q) /\ Listed(list, old \o q)
  <2>1. PICK q \in FirstPaths : TopOf(p, q) /\ Listed(list, old \o q)
    BY <1>2
  <2>2. old \o q # d
    BY <2>1 DEF TopOf
  <2>3. Listed(rest, old \o q)
    <3>1. PICK e \in {old \o q} : Listed(list, e) /\ e # d
      BY <2>1, <2>2
    <3>2. Listed(rest, e)
      BY <3>1, WaitsOn
    <3>3. QED
      BY <3>2
  <2>4. QED
    BY <1>2, <2>1, <2>3 DEF Comes
<1>3. QED
  BY <1>1, <1>2 DEF Comes

LEMMA ComesStarts ==
  ASSUME NEW table \in Seq(Mounts), NEW old \in Path, NEW new \in Path,
         NEW L, L = GetMountsToMove(old, new, table),
         NEW p \in FirstPaths, NEW q, TopOf(p, q), old \o q # new,
         Has(table, old \o p, p), Has(table, old \o q, q)
  PROVE  Comes(p, table, L, old, new)
<1>1. q \in FirstPaths /\ q \in Path /\ q # Root /\ Len(q) = 1
  BY FirstFacts DEF TopOf
<1>2. PICK a \in Path : a = old \o q
  BY <1>1, JoinRule
<1>3. ListAs(L, old, new, table)
  BY ListFacts
<1>4. L \in Seq(Path)
  BY <1>3 DEF ListAs
<1>5. PICK i \in 1..Len(table) : table[i].dir = a
  BY <1>2 DEF Has
<1>6. Under(a, old) /\ a # old
  <2>1. Under(old \o q, old) /\ Rest(old \o q, old) = q
    BY <1>1, JoinUnder
  <2>2. old \o Root = old /\ Root \in Path
    BY RootFacts DEF Root, Path
  <2>3. a # old
    BY <1>1, <1>2, <2>2, JoinEqual
  <2>4. QED
    BY <1>2, <2>1, <2>3
<1>7. Below(table[i].dir, old) /\ table[i].dir # new
  <2>1. Below(a, old)
    BY <1>6, UnderOrder
  <2>2. QED
    BY <1>2, <1>5, <2>1
<1>8. PICK k \in 1..Len(L) : /\ table[i].dir = L[k] \/ Below(table[i].dir, L[k])
                             /\ Below(L[k], old)
  BY <1>3, <1>7 DEF ListAs
<1>9. PICK e \in Path : e = L[k]
  BY <1>4
<1>10. Under(a, e) /\ Under(e, old) /\ e # old
  BY <1>5, <1>8, <1>9, UnderOrder
<1>11. PICK s \in Path : e = old \o s
  BY <1>10, UnderRest
<1>12. s # Root
  <2>1. old \o Root = old
    BY DEF Root, Path
  <2>2. QED
    BY <1>10, <1>11, <2>1
<1>13. Under(q, s)
  BY <1>1, <1>2, <1>10, <1>11, JoinEqual
<1>14. s = q
  BY <1>1, <1>12, <1>13, OneName
<1>15. QED
  BY <1>1, <1>9, <1>11, <1>14 DEF Comes, Listed

(* One mount of the list, for a mount of the first stage.                  *)
LEMMA ComesOn ==
  ASSUME NEW table \in Seq(Mounts), NEW list \in Seq(Path), list # <<>>,
         NEW old \in Path, NEW new \in Path, NEW p \in FirstPaths, Comes(p, table, list, old, new),
         NEW d, d = Head(list), NEW rest, rest = Tail(list),
         Under(d, old), ~Under(d, new), ~Under(new, d),
         NEW to, to = Moved(d, old, new), NEW t,
         \/ t = MovedMount(table, d, to) \/ t = BoundMount(table, d, to)
         \/ t = table /\ \A q \in FirstPaths : Len(q) = 1 => d # old \o q
  PROVE  Comes(p, t, rest, old, new)
<1>1. d \in Path
  BY TailFacts
<1>2. to \in Path
  BY <1>1, MovedIsPath
<1>3. CASE t = MovedMount(table, d, to)
  <2>1. RenamedAs(t, table, d, to)
    BY <1>1, <1>2, <1>3, RenamedFacts DEF MovedMount
  <2>2. QED
    BY <2>1, ComesMoved
<1>4. CASE t = BoundMount(table, d, to)
  <2>1. BoundAs(t, table, d, to)
    BY <1>1, <1>2, <1>4, BoundFacts
  <2>2. QED
    BY <2>1, ComesBound
<1>5. CASE t = table /\ \A q \in FirstPaths : Len(q) = 1 => d # old \o q
  BY <1>5, ComesSkipped
<1>6. QED
  BY <1>3, <1>4, <1>5

(* When nothing is left to move it has arrived.                            *)
LEMMA ComesEnds ==
  ASSUME NEW table, NEW old, NEW new, NEW p, Comes(p, table, <<>>, old, new)
  PROVE  Has(table, new \o p, p)
<1>1. ~Listed(<<>>, old \o p) /\ \A e : ~Listed(<<>>, e)
  BY DEF Listed
<1>2. QED
  BY <1>1 DEF Comes

LEMMA HasJoined ==
  ASSUME NEW table \in Seq(Mounts), NEW extra \in Seq(Mounts), NEW t, t = table \o extra,
         NEW dir, NEW p, Has(table, dir, p)
  PROVE  Has(t, dir, p)
<1>1. JoinedAs(t, table, extra)
  BY JoinedMounts
<1>2. QED
  BY <1>1 DEF JoinedAs, Has

LEMMA HasKept ==
  ASSUME NEW table \in Seq(Mounts), NEW set, NEW K, K = Kept(table, set),
         NEW dir, NEW p, Has(table, dir, p), \A m \in Range(table) : m.dir = dir => m \in set
  PROVE  K \in Seq(Mounts) /\ Has(K, dir, p)
<1>1. /\ K \in Seq(Mounts)
      /\ \E at \in [1..Len(K) -> 1..Len(table)] :
           /\ \A k \in 1..Len(K) : K[k] = table[at[k]]
           /\ \A i \in 1..Len(table) : table[i] \in set => \E k \in 1..Len(K) : at[k] = i
  BY KeptFacts
<1>2. PICK i \in 1..Len(table) : table[i].dir = dir /\ table[i].of = "first" /\ table[i].at = p
  BY DEF Has
<1>3. table[i] \in Range(table)
  <2>1. DOMAIN table = 1..Len(table)
    OBVIOUS
  <2>2. QED
    BY <2>1 DEF Range
<1>4. table[i] \in set
  BY <1>2, <1>3
<1>5. PICK k \in 1..Len(K) : K[k] = table[i]
  BY <1>1, <1>4
<1>6. QED
  BY <1>1, <1>2, <1>5 DEF Has

LEMMA HasPivoted ==
  ASSUME NEW table \in Seq(Mounts), NEW new \in Path, NEW old, NEW P, PivotedAs(P, table, new, old),
         NEW p \in Path, Has(table, new \o p, p)
  PROVE  Has(P, p, p)
<1>1. PICK i \in 1..Len(table) : table[i].dir = new \o p /\ table[i].of = "first" /\ table[i].at = p
  BY DEF Has
<1>2. P[i].dir = p /\ P[i].of = "first" /\ P[i].at = p /\ i \in 1..Len(P)
  BY <1>1 DEF PivotedAs
<1>3. QED
  BY <1>2 DEF Has

(* The mount it goes with.                                                 *)
LEMMA TopExists ==
  ASSUME Always \subseteq first, first \subseteq FirstPaths, NEW p \in first
  PROVE  \E q \in first : TopOf(p, q)
<1>1. p \in FirstPaths /\ p \in Path
  BY FirstFacts
<1>2. CASE Len(p) = 1
  <2>1. Under(p, p)
    BY <1>1, UnderOrder
  <2>2. QED
    BY <1>1, <1>2, <2>1 DEF TopOf
<1>3. CASE \E q \in Always : Len(q) = 1 /\ Under(p, q)
  BY <1>3 DEF TopOf
<1>4. QED
  <2>1. PICK j \in DOMAIN FirstStage : p = FirstStage[j]
    BY <1>1 DEF FirstPaths, Range
  <2>2. Len(p) = 1 \/ \E q \in Always : Len(q) = 1 /\ Under(p, q)
    BY <2>1, DeliveryAssumption
  <2>3. QED
    BY <1>2, <1>3, <2>2

(* Whether a mount at the top of the first stage finds its directory.      *)
LEMMA RamdiskDirectory ==
  ASSUME NEW q \in Path, NEW to, to = Ramdisk \o q, NEW dirs
  PROVE  IsDirectory(to, dirs)
<1>1. Ramdisk \in OwnDirs /\ TargetTmp \in OwnDirs /\ Target \in OwnDirs
  BY DEF OwnDirs
<1>2. Ramdisk # TargetTmp /\ Ramdisk # Target
  BY DEF Ramdisk, TargetTmp, Target
<1>3. to \in Path /\ Under(to, Ramdisk)
  BY <1>1, PlaceFacts
<1>4. ASSUME NEW e \in OwnDirs, e # Ramdisk PROVE ~Below(to, e)
  <2>1. SUFFICES ASSUME Under(to, e) PROVE FALSE
    BY <1>3, <1>4, OwnFacts, UnderOrder
  <2>2. Under(e, Ramdisk) \/ Under(Ramdisk, e)
    BY <1>1, <1>3, <2>1, OwnFacts, UnderOrder
  <2>3. QED
    BY <1>1, <1>4, <2>2, OwnApart
<1>5. ~Below(to, TargetTmp) /\ ~Below(to, Target)
  BY <1>1, <1>2, <1>4
<1>6. QED
  BY <1>5 DEF IsDirectory

LEMMA TargetTmpDirectory ==
  ASSUME NEW q \in Path, Len(q) = 1, NEW to, to = TargetTmp \o q
  PROVE  IsDirectory(to, MadeBy(to))
<1>1. TargetTmp \in OwnDirs
  BY DEF OwnDirs
<1>2. TargetTmp \in Path /\ Len(TargetTmp) = 1
  BY <1>1, OwnFacts
<1>3. to \in Path /\ Len(to) = 2 /\ to[1] = TargetTmp[1] /\ Under(to, TargetTmp)
  <2>1. PICK d \in Path : d = TargetTmp /\ Len(d) = 1
    BY <1>2
  <2>2. /\ d \o q \in Path /\ Len(d \o q) = Len(d) + Len(q)
        /\ \A i \in 1..Len(d) : (d \o q)[i] = d[i]
    BY JoinRule
  <2>3. 1 \in 1..Len(d) /\ Len(d) + Len(q) = 2
    BY <2>1
  <2>4. Under(d \o q, d)
    BY JoinUnder
  <2>5. QED
    BY <2>1, <2>2, <2>3, <2>4
<1>4. Below(to, TargetTmp)
  <2>1. to # TargetTmp
    BY <1>2, <1>3
  <2>2. QED
    BY <1>2, <1>3, <2>1, UnderOrder
<1>5. Front(to) = TargetTmp
  <2>1. Front(to) = SubSeq(to, 1, 1)
    <3>1. Len(to) - 1 = 1
      BY <1>3
    <3>2. QED
      BY <3>1, Zenon DEF Front
  <2>2. ASSUME NEW s \in Seq(Names), Len(s) = 2
        PROVE  SubSeq(s, 1, 1) \in Seq(Names) /\ Len(SubSeq(s, 1, 1)) = 1 /\ SubSeq(s, 1, 1)[1] = s[1]
    <3>1. PICK m \in Int, n \in Int : m = 1 /\ n = 1
      OBVIOUS
    <3>2. \A i \in m..n : i \in 1..Len(s)
      BY <2>2, <3>1
    <3>3. /\ SubSeq(s, m, n) \in Seq(Names)
          /\ Len(SubSeq(s, m, n)) = IF m <= n THEN n - m + 1 ELSE 0
          /\ \A i \in 1..n - m + 1 : SubSeq(s, m, n)[i] = s[m + i - 1]
      BY <3>2, SubSeqProperties
    <3>4. 1 \in 1..n - m + 1 /\ m + 1 - 1 = 1 /\ n - m + 1 = 1 /\ m <= n
      BY <3>1
    <3>5. SubSeq(s, m, n)[1] = s[1] /\ Len(SubSeq(s, m, n)) = 1
      BY <3>3, <3>4
    <3>6. QED
      BY <3>1, <3>3, <3>5, Zenon
  <2>3. /\ SubSeq(to, 1, 1) \in Path /\ Len(SubSeq(to, 1, 1)) = 1 /\ SubSeq(to, 1, 1)[1] = to[1]
    BY <1>3, <2>2 DEF Path
  <2>4. PICK f \in Path : f = Front(to) /\ Len(f) = 1 /\ f[1] = TargetTmp[1]
    BY <1>3, <2>1, <2>3
  <2>5. Under(f, TargetTmp)
    <3>1. \A i \in 1..1 : f[i] = TargetTmp[i]
      BY <2>4
    <3>2. QED
      BY <1>2, <2>4, <3>1, UnderRule
  <2>6. Under(TargetTmp, f)
    <3>1. \A i \in 1..1 : TargetTmp[i] = f[i]
      BY <2>4
    <3>2. QED
      BY <1>2, <2>4, <3>1, UnderRule
  <2>7. QED
    BY <1>2, <2>4, <2>5, <2>6, UnderOrder
<1>6. to \in MadeBy(to)
  BY <1>4, <1>5 DEF MadeBy
<1>7. ~Below(to, Target)
  <2>1. SUFFICES ASSUME Under(to, Target) PROVE FALSE
    BY <1>1, <1>3, OwnFacts, UnderOrder DEF OwnDirs
  <2>2. Target \in OwnDirs /\ Target # TargetTmp
    BY DEF OwnDirs, Target, TargetTmp
  <2>3. Under(Target, TargetTmp) \/ Under(TargetTmp, Target)
    BY <1>2, <1>3, <2>1, <2>2, OwnFacts, UnderOrder
  <2>4. QED
    BY <1>1, <2>2, <2>3, OwnApart
<1>8. QED
  BY <1>4, <1>6, <1>7 DEF IsDirectory

LEMMA TargetDirectory ==
  ASSUME NEW q \in TargetDirs, q \in Path, NEW to, to = Target \o q, NEW dirs
  PROVE  IsDirectory(to, dirs)
<1>1. Target \in OwnDirs /\ TargetTmp \in OwnDirs /\ Target # TargetTmp
  BY DEF OwnDirs, Target, TargetTmp
<1>2. to \in Path /\ Under(to, Target) /\ Target \in Path /\ TargetTmp \in Path
  BY <1>1, PlaceFacts, OwnFacts
<1>3. ~Under(to, TargetTmp)
  <2>1. SUFFICES ASSUME Under(to, TargetTmp) PROVE FALSE
    OBVIOUS
  <2>2. Under(Target, TargetTmp) \/ Under(TargetTmp, Target)
    BY <1>2, <2>1, UnderOrder
  <2>3. QED
    BY <1>1, <2>2, OwnApart
<1>4. ~Below(to, TargetTmp)
  BY <1>2, <1>3, UnderOrder
<1>5. Moved(to, Target, <<>>) = q
  <2>1. Moved(Target \o q, Target, Root) = Root \o q
    BY <1>2, RootFacts, MovedRule
  <2>2. Root \o q = q /\ Root = <<>>
    BY DEF Root, Path
  <2>3. QED
    BY <2>1, <2>2
<1>6. QED
  BY <1>4, <1>5 DEF IsDirectory

(* What MoveMount does of the two things that it may.                      *)
MoveOutcome(t, d, to, dirs) ==
  \/ t = MovedMount(tree, d, to) \/ t = BoundMount(tree, d, to)
  \/ t = tree /\ ~IsDirectory(to, dirs)

LEMMA MoveTells ==
  ASSUME MoveMount, NEW d, d = Head(todo),
         NEW to, to = Moved(d, MoveAt[pc].old, MoveAt[pc].new), NEW t, t = tree'
  PROVE  MoveOutcome(t, d, to, MadeBy(to))
<1>1. /\ made' = MadeBy(to)
      /\ t = IF ~IsDirectory(to, made') THEN tree
             ELSE IF ShouldRbind(MoveAt[pc], d) THEN BoundMount(tree, d, to)
             ELSE MovedMount(tree, d, to)
  BY DEF MoveMount
<1>2. QED
  BY <1>1, Zenon DEF MoveOutcome

-----------------------------------------------------------------------------
(* The invariant of the delivery.                                          *)

ArrivedIn(dir, paths) == \A p \in paths : Has(tree, dir \o p, p)
OnTheWay(old, new, paths) == \A p \in paths : Comes(p, tree, todo, old, new)

Delivery ==
  /\ pc \in {"start", "entered"} => ArrivedIn(Root, first)
  /\ pc = "ramdisk" => OnTheWay(Root, Ramdisk, first)
  /\ pc = "target_tmp" => OnTheWay(Root, TargetTmp, first)
  /\ pc = "menu" => ArrivedIn(TargetTmp, first)
  /\ pc = "target" => OnTheWay(TargetTmp, Target, first \ dropped)
  /\ pc = "booted" => ArrivedIn(Root, first \ dropped)

LEMMA DeliveryMove ==
  ASSUME MountsInv, Delivery, MoveMount
  PROVE  Delivery'
<1>1. PICK d, rest, to, t : /\ d = Head(todo) /\ rest = Tail(todo) /\ t = tree'
                            /\ to = Moved(d, MoveAt[pc].old, MoveAt[pc].new)
  OBVIOUS
<1>2. /\ pc \in {"ramdisk", "target_tmp", "target"} /\ todo # <<>> /\ todo' = rest
      /\ UNCHANGED <<pc, first, parts, dropped>>
  BY <1>1, MoveMountIs
<1>3. MoveOutcome(t, d, to, MadeBy(to))
  BY <1>1, MoveTells
<1>4. tree \in Seq(Mounts) /\ todo \in Seq(Path) /\ first \subseteq FirstPaths
  BY DEF MountsInv, Typed
<1>5. d \in Path /\ d = todo[1] /\ 1 \in 1..Len(todo)
  BY <1>1, <1>2, <1>4, TailFacts
<1>6. Root \in Path /\ Ramdisk \in Path /\ TargetTmp \in Path /\ Target \in Path
      /\ Ramdisk \in OwnDirs /\ TargetTmp \in OwnDirs /\ Target \in OwnDirs
  BY RootFacts, OwnFacts DEF OwnDirs
<1>7. \A q \in FirstPaths : q \in Path
  BY FirstFacts
<1>8. ASSUME NEW new \in OwnDirs, OfFirst(todo)
      PROVE  Under(d, Root) /\ ~Under(d, new) /\ ~Under(new, d)
  <2>1. d \in FirstPaths
    BY <1>5, <1>8 DEF OfFirst
  <2>2. QED
    BY <1>5, <2>1, FirstFacts, UnderOrder
<1>9. ASSUME NEW old \in Path, NEW new \in Path, to = Moved(d, old, new),
             Under(d, old), ~Under(d, new), ~Under(new, d),
             \A q \in FirstPaths : Len(q) = 1 /\ d = old \o q => IsDirectory(to, MadeBy(to)),
             NEW p \in FirstPaths, Comes(p, tree, todo, old, new)
      PROVE  Comes(p, t, rest, old, new)
  <2>1. \/ t = MovedMount(tree, d, to) \/ t = BoundMount(tree, d, to)
        \/ t = tree /\ \A q \in FirstPaths : Len(q) = 1 => d # old \o q
    BY <1>3, <1>9 DEF MoveOutcome
  <2>2. QED
    BY <1>1, <1>2, <1>4, <1>9, <2>1, ComesOn
<1>10. ASSUME NEW q \in Path, NEW old \in Path, NEW new \in Path, d = old \o q, to = Moved(d, old, new)
       PROVE  to = new \o q
  BY <1>10, MovedRule
<1>11. CASE pc = "ramdisk"
  <2>1. to = Moved(d, Root, Ramdisk)
    BY <1>1, <1>11, MoveArguments
  <2>2. OfFirst(todo)
    BY <1>11 DEF MountsInv, Journey, Phase
  <2>3. \A q \in FirstPaths : Len(q) = 1 /\ d = Root \o q => IsDirectory(to, MadeBy(to))
    <3>1. SUFFICES ASSUME NEW q \in FirstPaths, d = Root \o q PROVE IsDirectory(to, MadeBy(to))
      OBVIOUS
    <3>2. to = Ramdisk \o q
      BY <1>6, <1>7, <1>10, <2>1, <3>1
    <3>3. QED
      BY <1>7, <3>2, RamdiskDirectory
  <2>4. \A p \in first : Comes(p, t, rest, Root, Ramdisk)
    BY <1>4, <1>6, <1>8, <1>9, <1>11, <2>1, <2>2, <2>3 DEF Delivery, OnTheWay
  <2>5. QED
    BY <1>1, <1>2, <1>11, <2>4 DEF Delivery, OnTheWay
<1>12. CASE pc = "target_tmp"
  <2>1. to = Moved(d, Root, TargetTmp)
    BY <1>1, <1>12, MoveArguments
  <2>2. OfFirst(todo)
    BY <1>12 DEF MountsInv, Journey, Phase
  <2>3. \A q \in FirstPaths : Len(q) = 1 /\ d = Root \o q => IsDirectory(to, MadeBy(to))
    <3>1. SUFFICES ASSUME NEW q \in FirstPaths, Len(q) = 1, d = Root \o q
                   PROVE  IsDirectory(to, MadeBy(to))
      OBVIOUS
    <3>2. to = TargetTmp \o q
      BY <1>6, <1>7, <1>10, <2>1, <3>1
    <3>3. QED
      BY <1>7, <3>1, <3>2, TargetTmpDirectory
  <2>4. \A p \in first : Comes(p, t, rest, Root, TargetTmp)
    BY <1>4, <1>6, <1>8, <1>9, <1>12, <2>1, <2>2, <2>3 DEF Delivery, OnTheWay
  <2>5. QED
    BY <1>1, <1>2, <1>12, <2>4 DEF Delivery, OnTheWay
<1>13. CASE pc = "target"
  <2>1. to = Moved(d, TargetTmp, Target)
    BY <1>1, <1>13, MoveArguments
  <2>2. Under(d, TargetTmp)
    BY <1>5, <1>6, <1>13, UnderOrder DEF MountsInv, Journey, AtTarget
  <2>3. ~Under(d, Target) /\ ~Under(Target, d)
    <3>1. Target # TargetTmp
      BY DEF Target, TargetTmp
    <3>2. ~Under(Target, TargetTmp) /\ ~Under(TargetTmp, Target)
      BY <1>6, <3>1, OwnApart
    <3>3. ~Under(Target, d)
      BY <1>5, <1>6, <2>2, <3>2, UnderOrder
    <3>4. ~Under(d, Target)
      BY <1>5, <1>6, <2>2, <3>2, UnderOrder
    <3>5. QED
      BY <3>3, <3>4
  <2>4. \A q \in FirstPaths : Len(q) = 1 /\ d = TargetTmp \o q => IsDirectory(to, MadeBy(to))
    <3>1. SUFFICES ASSUME NEW q \in FirstPaths, Len(q) = 1, d = TargetTmp \o q
                   PROVE  IsDirectory(to, MadeBy(to))
      OBVIOUS
    <3>2. to = Target \o q
      BY <1>6, <1>7, <1>10, <2>1, <3>1
    <3>3. q \in TargetDirs /\ q \in Path
      <4>1. PICK j \in DOMAIN FirstStage : q = FirstStage[j]
        BY <3>1 DEF FirstPaths, Range
      <4>2. QED
        BY <1>7, <3>1, <4>1, DeliveryAssumption
    <3>4. QED
      BY <3>2, <3>3, TargetDirectory
  <2>5. \A p \in first \ dropped : Comes(p, t, rest, TargetTmp, Target)
    BY <1>4, <1>6, <1>9, <1>13, <2>1, <2>2, <2>3, <2>4 DEF Delivery, OnTheWay
  <2>6. QED
    BY <1>1, <1>2, <1>13, <2>5 DEF Delivery, OnTheWay
<1>14. QED
  BY <1>2, <1>11, <1>12, <1>13

LEMMA DeliveryInit ==
  ASSUME Init
  PROVE  Delivery
<1>1. PICK some \in SUBSET FirstPaths :
        /\ first = some /\ pc = "start"
        /\ tree = <<Mount(Root, "system", Root)>> \o MountsOf(Kept(FirstStage, some), "first", Root)
  BY DEF Init, FirstPaths
<1>2. PICK one, K, M : /\ one = <<Mount(Root, "system", Root)>> /\ K = Kept(FirstStage, some)
                       /\ M = MountsOf(K, "first", Root)
  OBVIOUS
<1>3. Root \in Path /\ "system" \in Owners /\ "first" \in Owners /\ FirstStage \in Seq(Path)
  BY RootFacts, MountsAssumption DEF Owners
<1>4. one \in Seq(Mounts) /\ Len(one) = 1
  <2>1. PICK root \in Path, system \in Owners : root = Root /\ system = "system"
    BY <1>3
  <2>2. one = <<Mount(root, system, root)>>
    BY <1>2, <2>1
  <2>3. QED
    BY <2>2, OneEntry
<1>5. /\ K \in Seq(Path)
      /\ \E at \in [1..Len(K) -> 1..Len(FirstStage)] :
           /\ \A k \in 1..Len(K) : K[k] = FirstStage[at[k]]
           /\ \A i \in 1..Len(FirstStage) : FirstStage[i] \in some => \E k \in 1..Len(K) : at[k] = i
  BY <1>2, <1>3, KeptFacts
<1>6. MountsAs(M, K, "first", Root)
  BY <1>2, <1>3, <1>5, MountsOfFacts
<1>7. JoinedAs(tree, one, M)
  BY <1>1, <1>2, <1>4, <1>6, JoinedMounts DEF MountsAs
<1>8. ASSUME NEW p \in first PROVE Has(tree, Root \o p, p)
  <2>1. PICK i \in 1..Len(FirstStage) : FirstStage[i] = p
    <3>1. DOMAIN FirstStage = 1..Len(FirstStage)
      BY <1>3
    <3>2. p \in Range(FirstStage)
      BY <1>1, <1>8 DEF FirstPaths
    <3>3. QED
      BY <3>1, <3>2 DEF Range
  <2>2. PICK k \in 1..Len(K) : K[k] = p
    <3>1. FirstStage[i] \in some
      BY <1>1, <1>8, <2>1
    <3>2. \E k \in 1..Len(K) : K[k] = FirstStage[i]
      BY <1>5, <3>1
    <3>3. QED
      BY <2>1, <3>2
  <2>3. M[k].dir = Root \o p /\ M[k].of = "first" /\ M[k].at = p /\ k \in 1..Len(M)
    BY <1>6, <2>2 DEF MountsAs
  <2>4. PICK j \in 1..Len(tree) : tree[j] = M[k]
    BY <1>7, <2>3 DEF JoinedAs
  <2>5. QED
    BY <2>3, <2>4 DEF Has
<1>9. QED
  BY <1>1, <1>8 DEF Delivery, ArrivedIn

(* move_mount_tree is called with every mount of the first stage in place. *)
LEMMA RootStarts ==
  ASSUME Always \subseteq first, first \subseteq FirstPaths, NEW new \in OwnDirs,
         NEW table \in Seq(Mounts), NEW L, L = GetMountsToMove(Root, new, table),
         \A p \in first : Has(table, Root \o p, p), NEW p \in first
  PROVE  Comes(p, table, L, Root, new)
<1>1. PICK q \in first : TopOf(p, q)
  BY TopExists
<1>2. q \in Path /\ ~Under(q, new) /\ new \in Path /\ Root \in Path
  BY FirstFacts, OwnFacts, RootFacts
<1>3. Root \o q # new
  <2>1. Root \o q = q
    BY <1>2 DEF Root, Path
  <2>2. Under(new, new)
    BY <1>2, UnderOrder
  <2>3. QED
    BY <1>2, <2>1, <2>2
<1>4. Has(table, Root \o p, p) /\ Has(table, Root \o q, q) /\ p \in FirstPaths
  OBVIOUS
<1>5. QED
  BY <1>1, <1>2, <1>3, <1>4, ComesStarts

LEMMA DeliveryCopy ==
  ASSUME MountsInv, Delivery, CopyToRamdisk
  PROVE  Delivery'
<1>1. pc = "start" /\ pc' = "ramdisk" /\ UNCHANGED first
  BY DEF CopyToRamdisk, CallMove
<1>2. PICK one : one = <<Mount(Ramdisk, "paralloid", Ramdisk)>>
  OBVIOUS
<1>3. /\ Ramdisk \in OwnDirs /\ Ramdisk \in Path /\ "paralloid" \in Owners /\ tree \in Seq(Mounts)
      /\ Always \subseteq first /\ first \subseteq FirstPaths
  BY OwnFacts DEF OwnDirs, Owners, MountsInv, Typed
<1>4. one \in Seq(Mounts) /\ Append(tree, Mount(Ramdisk, "paralloid", Ramdisk)) = tree \o one
  BY <1>2, <1>3, OneMount
<1>5. PICK t, L : t = tree \o one /\ tree' = t /\ L = GetMountsToMove(Root, Ramdisk, t) /\ todo' = L
  BY <1>4, MoveArguments DEF CopyToRamdisk, CallMove
<1>6. t \in Seq(Mounts)
  BY <1>3, <1>4, <1>5, JoinedMounts DEF JoinedAs
<1>7. \A p \in first : Has(t, Root \o p, p)
  BY <1>1, <1>3, <1>4, <1>5, HasJoined DEF Delivery, ArrivedIn
<1>8. \A p \in first : Comes(p, t, L, Root, Ramdisk)
  BY <1>3, <1>5, <1>6, <1>7, RootStarts
<1>9. QED
  BY <1>1, <1>5, <1>8 DEF Delivery, OnTheWay

LEMMA DeliveryEnter ==
  ASSUME MountsInv, Delivery, EnterRamdisk
  PROVE  Delivery'
<1>1. pc = "ramdisk" /\ pc' = "entered" /\ UNCHANGED first
      /\ todo = <<>> /\ tree' = Pivoted(tree, Ramdisk, OldRoot)
  BY DEF EnterRamdisk, MovesDone
<1>2. PICK P : P = tree'
  OBVIOUS
<1>3. tree \in Seq(Mounts) /\ Ramdisk \in Path /\ OldRoot \in Path /\ first \subseteq FirstPaths
  BY OwnFacts DEF OwnDirs, MountsInv, Typed
<1>4. PivotedAs(P, tree, Ramdisk, OldRoot)
  BY <1>1, <1>2, <1>3, PivotedFacts
<1>5. ASSUME NEW p \in first PROVE Has(P, Root \o p, p)
  <2>1. p \in Path
    BY <1>3, FirstFacts
  <2>2. Comes(p, tree, <<>>, Root, Ramdisk)
    BY <1>1 DEF Delivery, OnTheWay
  <2>3. Has(tree, Ramdisk \o p, p)
    BY <2>2, ComesEnds
  <2>4. Has(P, p, p)
    BY <1>3, <1>4, <2>1, <2>3, HasPivoted
  <2>5. Root \o p = p
    BY <2>1 DEF Root, Path
  <2>6. QED
    BY <2>4, <2>5
<1>6. QED
  BY <1>1, <1>2, <1>5 DEF Delivery, ArrivedIn

LEMMA DeliveryFree ==
  ASSUME MountsInv, Delivery, FreeSystem
  PROVE  Delivery'
<1>1. pc = "entered" /\ pc' = "target_tmp" /\ UNCHANGED first
  BY DEF FreeSystem, CallMove
<1>2. PICK one, set, K :
        /\ one = <<Mount(TargetTmp, "paralloid", TargetTmp)>>
        /\ set = {m \in Range(tree) : ~Under(m.dir, OldRoot)} /\ K = Kept(tree, set)
  OBVIOUS
<1>3. /\ TargetTmp \in OwnDirs /\ TargetTmp \in Path /\ "paralloid" \in Owners /\ tree \in Seq(Mounts)
      /\ Always \subseteq first /\ first \subseteq FirstPaths /\ OldRoot \in OwnDirs
  BY OwnFacts DEF OwnDirs, Owners, MountsInv, Typed
<1>4. K \in Seq(Mounts)
  BY <1>2, <1>3, KeptFacts
<1>5. ASSUME NEW p \in first PROVE Has(K, Root \o p, p)
  <2>1. p \in Path /\ ~Under(p, OldRoot)
    BY <1>3, FirstFacts
  <2>2. PICK e : e = Root \o p /\ e = p
    BY <2>1 DEF Root, Path
  <2>3. \A m \in Range(tree) : m.dir = e => m \in set
    BY <1>2, <2>1, <2>2
  <2>4. Has(tree, e, p)
    BY <1>1, <2>2 DEF Delivery, ArrivedIn
  <2>5. Has(K, e, p)
    BY <1>2, <1>3, <2>3, <2>4, HasKept
  <2>6. QED
    BY <2>2, <2>5
<1>6. one \in Seq(Mounts) /\ Append(K, Mount(TargetTmp, "paralloid", TargetTmp)) = K \o one
  BY <1>2, <1>3, <1>4, OneMount
<1>7. PICK t, L : t = K \o one /\ tree' = t /\ L = GetMountsToMove(Root, TargetTmp, t) /\ todo' = L
  BY <1>2, <1>6, MoveArguments DEF FreeSystem, CallMove, RecursiveUmount
<1>8. t \in Seq(Mounts)
  BY <1>4, <1>6, <1>7, JoinedMounts DEF JoinedAs
<1>9. \A p \in first : Has(t, Root \o p, p)
  BY <1>4, <1>5, <1>6, <1>7, HasJoined
<1>10. \A p \in first : Comes(p, t, L, Root, TargetTmp)
  BY <1>3, <1>7, <1>8, <1>9, RootStarts
<1>11. QED
  BY <1>1, <1>7, <1>10 DEF Delivery, OnTheWay

LEMMA DeliveryRemount ==
  ASSUME MountsInv, Delivery, RemountOwn
  PROVE  Delivery'
<1>1. pc = "target_tmp" /\ pc' = "menu" /\ UNCHANGED first
      /\ todo = <<>> /\ tree' = tree \o OwnMounts
  BY DEF RemountOwn, MovesDone
<1>2. PICK own, t : own = OwnMounts /\ t = tree' /\ t = tree \o own
  BY <1>1
<1>3. own \in Seq(Mounts) /\ tree \in Seq(Mounts)
  BY <1>2, OwnMountsFacts DEF MountsInv, Typed
<1>4. ASSUME NEW p \in first PROVE Has(t, TargetTmp \o p, p)
  <2>1. Comes(p, tree, <<>>, Root, TargetTmp)
    BY <1>1 DEF Delivery, OnTheWay
  <2>2. Has(tree, TargetTmp \o p, p)
    BY <2>1, ComesEnds
  <2>3. QED
    BY <1>2, <1>3, <2>2, HasJoined
<1>5. QED
  BY <1>1, <1>2, <1>4 DEF Delivery, ArrivedIn

LEMMA DeliveryBoot ==
  ASSUME MountsInv, Delivery, EnterTarget
  PROVE  Delivery'
<1>1. pc = "target" /\ pc' = "booted" /\ UNCHANGED <<first, dropped>> /\ todo = <<>>
  BY DEF EnterTarget, MovesDone
<1>2. PICK E, t : OverridesAs(E) /\ t = tree \o E /\ tree' = Pivoted(t, Target, DebugRamdisk)
  BY BootTable
<1>3. PICK P : P = tree'
  OBVIOUS
<1>4. /\ tree \in Seq(Mounts) /\ E \in Seq(Mounts) /\ Target \in Path /\ DebugRamdisk \in Path
      /\ first \subseteq FirstPaths
  BY <1>2, OwnFacts DEF OwnDirs, MountsInv, Typed, OverridesAs
<1>5. t \in Seq(Mounts)
  BY <1>2, <1>4, JoinedMounts DEF JoinedAs
<1>6. PivotedAs(P, t, Target, DebugRamdisk)
  BY <1>2, <1>3, <1>4, <1>5, PivotedFacts
<1>7. ASSUME NEW p \in first \ dropped PROVE Has(P, Root \o p, p)
  <2>1. p \in Path
    BY <1>4, FirstFacts
  <2>2. Comes(p, tree, <<>>, TargetTmp, Target)
    BY <1>1 DEF Delivery, OnTheWay
  <2>3. Has(tree, Target \o p, p)
    BY <2>2, ComesEnds
  <2>4. Has(t, Target \o p, p)
    BY <1>2, <1>4, <2>3, HasJoined
  <2>5. Has(P, p, p)
    BY <1>4, <1>5, <1>6, <2>1, <2>4, HasPivoted
  <2>6. Root \o p = p
    BY <2>1 DEF Root, Path
  <2>7. QED
    BY <2>5, <2>6
<1>8. QED
  BY <1>1, <1>3, <1>7 DEF Delivery, ArrivedIn

(* What the target is mounted with takes nothing out of the table.         *)
AddsTo(t, table) ==
  t \in Seq(Mounts) /\ \A i \in 1..Len(table) : i \in 1..Len(t) /\ t[i] = table[i]

LEMMA HasPrepared ==
  ASSUME NEW table \in Seq(Mounts), NEW of \in Owners, NEW paths \in Seq(Path), NEW dir \in Path,
         NEW some, NEW t,
         t = Append(table, Mount(Target, of, Root)) \o MountsOf(Kept(paths, some), of, dir)
  PROVE  AddsTo(t, table)
<1>1. Target \in Path /\ Root \in Path
  BY OwnFacts, RootFacts DEF OwnDirs
<1>2. PICK one, a, K, M : /\ one = <<Mount(Target, of, Root)>> /\ a = table \o one
                          /\ K = Kept(paths, some) /\ M = MountsOf(K, of, dir)
  OBVIOUS
<1>3. one \in Seq(Mounts) /\ a = Append(table, Mount(Target, of, Root))
  BY <1>1, <1>2, OneMount
<1>4. K \in Seq(Path)
  BY <1>2, KeptFacts
<1>5. M \in Seq(Mounts)
  BY <1>2, <1>4, MountsOfFacts DEF MountsAs
<1>6. a \in Seq(Mounts) /\ t = a \o M
  <2>1. a \in Seq(Mounts)
    BY <1>2, <1>3, JoinedMounts DEF JoinedAs
  <2>2. QED
    BY <1>2, <1>3, <2>1
<1>7. t \in Seq(Mounts)
  BY <1>5, <1>6, JoinedMounts DEF JoinedAs
<1>8. \A i \in 1..Len(table) : i \in 1..Len(a) /\ a[i] = table[i]
  <2>1. JoinedAs(a, table, one)
    BY <1>2, <1>3, JoinedMounts
  <2>2. QED
    BY <2>1 DEF JoinedAs
<1>9. \A i \in 1..Len(a) : i \in 1..Len(t) /\ t[i] = a[i]
  <2>1. JoinedAs(t, a, M)
    BY <1>5, <1>6, JoinedMounts
  <2>2. QED
    BY <2>1 DEF JoinedAs
<1>10. QED
  BY <1>7, <1>8, <1>9 DEF AddsTo

(* And so is the third call.                                               *)
LEMMA TmpStarts ==
  ASSUME NEW table \in Seq(Mounts), NEW L, L = GetMountsToMove(TargetTmp, Target, table),
         NEW p \in FirstPaths, NEW q, TopOf(p, q),
         Has(table, TargetTmp \o p, p), Has(table, TargetTmp \o q, q)
  PROVE  Comes(p, table, L, TargetTmp, Target)
<1>1. /\ TargetTmp \in OwnDirs /\ Target \in OwnDirs /\ Target # TargetTmp
      /\ TargetTmp \in Path /\ Target \in Path /\ q \in Path
  BY OwnFacts, FirstFacts DEF OwnDirs, Target, TargetTmp, TopOf
<1>2. TargetTmp \o q # Target
  <2>1. Under(TargetTmp \o q, TargetTmp)
    BY <1>1, PlaceFacts
  <2>2. ~Under(Target, TargetTmp)
    BY <1>1, OwnApart
  <2>3. QED
    BY <2>1, <2>2
<1>3. QED
  BY <1>1, <1>2, ComesStarts

LEMMA DeliveryImage ==
  ASSUME MountsInv, Delivery, TargetImage
  PROVE  Delivery'
<1>1. pc = "menu" /\ pc' = "target" /\ UNCHANGED <<first, dropped>>
  BY DEF TargetImage, CallMove
<1>2. PICK some, t :
        /\ t = Append(tree, Mount(Target, "image", Root))
                 \o MountsOf(Kept(<< <<"product">> >>, some), "image", Target)
        /\ CallMove("target", t)
  BY DEF TargetImage
<1>3. PICK L : L = GetMountsToMove(TargetTmp, Target, t) /\ tree' = t /\ todo' = L
  BY <1>2, MoveArguments DEF CallMove
<1>4. /\ tree \in Seq(Mounts) /\ Always \subseteq first /\ first \subseteq FirstPaths
      /\ Target \in Path /\ "image" \in Owners
  BY OwnFacts DEF MountsInv, Typed, OwnDirs, Owners
<1>5. PICK paths : paths = << <<"product">> >> /\ paths \in Seq(Path)
  <2>1. PICK name \in Names : name = "product"
    BY MountsAssumption
  <2>2. \A a \in Names : <<a>> \in Seq(Names)
    OBVIOUS
  <2>3. PICK path \in Path : path = <<name>>
    BY <2>2 DEF Path
  <2>4. <<path>> \in Seq(Path)
    OBVIOUS
  <2>5. QED
    BY <2>1, <2>3, <2>4
<1>6. t \in Seq(Mounts) /\ \A e, p : Has(tree, e, p) => Has(t, e, p)
  <2>1. PICK of \in Owners, dir \in Path : of = "image" /\ dir = Target
    BY <1>4
  <2>2. t = Append(tree, Mount(Target, of, Root)) \o MountsOf(Kept(paths, some), of, dir)
    BY <1>2, <1>5, <2>1
  <2>3. AddsTo(t, tree)
    BY <1>4, <1>5, <2>2, HasPrepared
  <2>4. QED
    BY <2>3 DEF AddsTo, Has
<1>7. ASSUME NEW p \in first PROVE Comes(p, t, L, TargetTmp, Target)
  <2>1. PICK q \in first : TopOf(p, q)
    BY <1>4, TopExists
  <2>2. Has(t, TargetTmp \o p, p) /\ Has(t, TargetTmp \o q, q)
    BY <1>1, <1>6 DEF Delivery, ArrivedIn
  <2>3. p \in FirstPaths
    BY <1>4
  <2>4. QED
    BY <1>3, <1>6, <2>1, <2>2, <2>3, TmpStarts
<1>8. QED
  BY <1>1, <1>3, <1>7 DEF Delivery, OnTheWay

LEMMA DeliveryInternal ==
  ASSUME MountsInv, Delivery, TargetInternal
  PROVE  Delivery'
<1>1. pc = "menu" /\ pc' = "target" /\ UNCHANGED first
  BY DEF TargetInternal, CallMove
<1>2. PICK some, skip, table, gone :
        /\ skip \subseteq Skippable
        /\ table = Append(tree, Mount(Target, "internal", Root))
                     \o MountsOf(Kept(Partitions, some), "internal", TargetTmp)
        /\ gone = Umounted(table, {SkipMountDir(p) : p \in skip})
        /\ CallMove("target", Kept(table, {m \in Range(table) : m.dir \notin gone}))
        /\ dropped' = skip
  BY DEF TargetInternal
<1>3. PICK set, t, L : /\ set = {m \in Range(table) : m.dir \notin gone}
                       /\ t = Kept(table, set) /\ L = GetMountsToMove(TargetTmp, Target, t)
                       /\ tree' = t /\ todo' = L
  BY <1>2, MoveArguments DEF CallMove
<1>4. /\ tree \in Seq(Mounts) /\ Always \subseteq first /\ first \subseteq FirstPaths
      /\ TargetTmp \in OwnDirs /\ TargetTmp \in Path /\ "internal" \in Owners
      /\ Partitions \in Seq(Path)
  BY OwnFacts, MountsAssumption DEF MountsInv, Typed, OwnDirs, Owners
<1>5. table \in Seq(Mounts) /\ \A e, p : Has(tree, e, p) => Has(table, e, p)
  <2>1. PICK of \in Owners, dir \in Path : of = "internal" /\ dir = TargetTmp
    BY <1>4
  <2>2. table = Append(tree, Mount(Target, of, Root)) \o MountsOf(Kept(Partitions, some), of, dir)
    BY <1>2, <2>1
  <2>3. AddsTo(table, tree)
    BY <1>4, <2>2, HasPrepared
  <2>4. QED
    BY <2>3 DEF AddsTo, Has
<1>6. \A p \in first : p \in Path /\ Has(table, TargetTmp \o p, p)
  BY <1>1, <1>4, <1>5, FirstFacts DEF Delivery, ArrivedIn
<1>7. t \in Seq(Mounts)
  BY <1>3, <1>5, KeptFacts
<1>8. \A d \in gone : (\E s \in skip : d = TargetTmp \o s) /\ \A m \in Range(table) : ~Below(m.dir, d)
  BY <1>2 DEF Umounted, SkipMountDir
<1>9. \A s \in skip : s \in Path
  <2>1. Skippable \subseteq FirstPaths \union OtherPaths
    BY MountsAssumption DEF FirstPaths, OtherPaths
  <2>2. QED
    BY <1>2, <2>1, FirstFacts
<1>10. ASSUME NEW p \in first, TargetTmp \o p \notin gone PROVE Has(t, TargetTmp \o p, p)
  <2>1. PICK e : e = TargetTmp \o p
    OBVIOUS
  <2>2. \A m \in Range(table) : m.dir = e => m \in set
    BY <1>3, <1>10, <2>1
  <2>3. Has(table, e, p)
    BY <1>6, <2>1
  <2>4. Has(t, e, p)
    BY <1>3, <1>5, <2>2, <2>3, HasKept
  <2>5. QED
    BY <2>1, <2>4
<1>11. ASSUME NEW p \in first \ skip PROVE Comes(p, t, L, TargetTmp, Target)
  <2>1. TargetTmp \o p \notin gone
    <3>1. p \in Path
      BY <1>6
    <3>2. \A s \in skip : TargetTmp \o p # TargetTmp \o s
      BY <1>4, <1>9, <3>1, PlaceFacts
    <3>3. QED
      BY <1>8, <3>2
  <2>2. PICK q \in first : TopOf(p, q)
    BY <1>4, TopExists
  <2>3. TargetTmp \o q \notin gone
    <3>1. CASE q = p
      BY <2>1, <3>1
    <3>2. CASE q # p
      <4>1. PICK a \in Path, b \in Path : a = TargetTmp \o p /\ b = TargetTmp \o q
        BY <1>4, <1>6, JoinRule
      <4>2. Under(a, b)
        BY <1>4, <1>6, <2>2, <4>1, JoinEqual DEF TopOf
      <4>3. a # b
        BY <1>4, <1>6, <3>2, <4>1, PlaceFacts
      <4>4. Below(a, b)
        BY <4>2, <4>3, UnderOrder
      <4>5. PICK i \in 1..Len(table) : table[i].dir = a
        BY <1>6, <4>1 DEF Has
      <4>6. table[i] \in Range(table)
        <5>1. DOMAIN table = 1..Len(table)
          BY <1>5
        <5>2. QED
          BY <5>1 DEF Range
      <4>7. QED
        BY <1>8, <4>1, <4>4, <4>5, <4>6
    <3>3. QED
      BY <3>1, <3>2
  <2>4. Has(t, TargetTmp \o p, p) /\ Has(t, TargetTmp \o q, q)
    BY <1>10, <2>1, <2>3
  <2>5. p \in FirstPaths
    BY <1>4
  <2>6. QED
    BY <1>3, <1>7, <2>2, <2>4, <2>5, TmpStarts
<1>12. QED
  BY <1>1, <1>2, <1>3, <1>11 DEF Delivery, OnTheWay

LEMMA DeliverySame ==
  ASSUME Delivery, UNCHANGED vars
  PROVE  Delivery'
<1>1. tree' = tree /\ todo' = todo /\ pc' = pc /\ first' = first /\ dropped' = dropped
  BY DEF vars
<1>2. QED
  BY <1>1 DEF Delivery, ArrivedIn, OnTheWay

(* After three moves, two pivots and a recursive umount, each mount of the *)
(* first stage that skip_mount.cfg does not name is at its own path in the *)
(* system (files/init:325), whatever they are and in whatever order, if    *)
(* each goes with one at the top and the system has the directories there. *)
THEOREM FirstStageArrives == Spec => []FirstStageDelivered
<1>1. Init => Delivery
  BY DeliveryInit
<1>2. MountsInv /\ Delivery /\ [Next]_vars => Delivery'
  <2>1. SUFFICES ASSUME MountsInv, Delivery, [Next]_vars PROVE Delivery'
    OBVIOUS
  <2>2. CASE Next
    BY <2>1, <2>2, DeliveryCopy, DeliveryEnter, DeliveryFree, DeliveryRemount, DeliveryInternal,
       DeliveryImage, DeliveryBoot, DeliveryMove, DeliverySame DEF Next, Terminated
  <2>3. CASE UNCHANGED vars
    BY <2>1, <2>3, DeliverySame
  <2>4. QED
    BY <2>1, <2>2, <2>3
<1>3. MountsInv /\ Delivery => FirstStageDelivered
  <2>1. SUFFICES ASSUME MountsInv, Delivery, pc = "booted", NEW p \in first \ dropped
                 PROVE  Mount(p, "first", p) \in Table
    BY DEF FirstStageDelivered
  <2>2. p \in Path /\ tree \in Seq(Mounts)
    BY <2>1, FirstFacts DEF MountsInv, Typed
  <2>3. Root \o p = p
    BY <2>2 DEF Root, Path
  <2>4. PICK i \in 1..Len(tree) : tree[i].dir = p /\ tree[i].of = "first" /\ tree[i].at = p
    <3>1. Has(tree, Root \o p, p)
      BY <2>1 DEF Delivery, ArrivedIn
    <3>2. Has(tree, p, p)
      BY <2>3, <3>1
    <3>3. QED
      BY <3>2 DEF Has
  <2>5. tree[i] \in Table /\ tree[i] \in Mounts
    <3>1. DOMAIN tree = 1..Len(tree)
      BY <2>2
    <3>2. QED
      BY <2>2, <3>1 DEF Table, Range
  <2>6. tree[i] = Mount(p, "first", p)
    BY <2>4, <2>5 DEF Mounts, Mount
  <2>7. QED
    BY <2>5, <2>6
<1>4. QED
  BY <1>1, <1>2, <1>3, MountsInvariant, PTL DEF Spec

-----------------------------------------------------------------------------
(* One of the two null devices is there.                                   *)

Sys     == <<"sys">>
Selinux == <<"sys", "selinux">>

LEMMA SysFacts ==
  /\ Sys \in FirstPaths /\ Selinux \in FirstPaths /\ Sys \in Path /\ Selinux \in Path
  /\ Len(Sys) = 1 /\ Len(Selinux) = 2 /\ Sys # Selinux /\ Under(Selinux, Sys)
  /\ \A d \in Path : d # Root /\ Under(Selinux, d) => d = Sys \/ d = Selinux
<1>1. Sys \in Always /\ Selinux \in Always /\ Always \subseteq FirstPaths
  BY MountsAssumption DEF Sys, Selinux, FirstPaths
<1>2. Sys \in Path /\ Selinux \in Path
  BY <1>1, FirstFacts
<1>3. Len(Sys) = 1 /\ Len(Selinux) = 2 /\ Sys[1] = Selinux[1]
  BY DEF Sys, Selinux
<1>4. Under(Selinux, Sys)
  <2>1. \A i \in 1..1 : Selinux[i] = Sys[i]
    BY <1>3
  <2>2. QED
    BY <1>2, <1>3, <2>1, UnderRule
<1>5. ASSUME NEW d \in Path, d # Root, Under(Selinux, d) PROVE d = Sys \/ d = Selinux
  <2>1. PICK n \in Nat : n = Len(d) /\ n # 0
    <3>1. Len(d) \in Nat
      BY DEF Path
    <3>2. QED
      BY <1>5, <3>1, RootFacts
  <2>2. n <= 2 /\ \A i \in 1..n : Selinux[i] = d[i]
    BY <1>2, <1>3, <1>5, <2>1, UnderRule
  <2>3. CASE n = 1
    <3>1. \A i \in 1..1 : d[i] = Sys[i]
      BY <1>3, <2>2, <2>3
    <3>2. Under(d, Sys) /\ Under(Sys, d)
      <4>1. Len(Sys) = 1 /\ Len(d) = 1 /\ \A i \in 1..1 : Sys[i] = d[i]
        BY <1>3, <2>1, <2>3, <3>1
      <4>2. Under(d, Sys)
        BY <1>2, <3>1, <4>1, UnderRule
      <4>3. Under(Sys, d)
        BY <1>2, <4>1, UnderRule
      <4>4. QED
        BY <4>2, <4>3
    <3>3. QED
      BY <1>2, <3>2, UnderOrder
  <2>4. CASE n = 2
    <3>1. Under(d, Selinux)
      <4>1. Len(Selinux) <= Len(d) /\ \A i \in 1..Len(Selinux) : d[i] = Selinux[i]
        BY <1>3, <2>1, <2>2, <2>4
      <4>2. QED
        BY <1>2, <4>1, UnderRule
    <3>2. QED
      BY <1>2, <1>5, <3>1, UnderOrder
  <2>5. QED
    BY <2>1, <2>2, <2>3, <2>4
<1>6. Sys # Selinux
  BY <1>3
<1>7. QED
  BY <1>1, <1>2, <1>3, <1>4, <1>5, <1>6

(* Two mounts in the order of the table.                                   *)
InOrder(table, a, b) ==
  \E i, j \in 1..Len(table) : i < j /\ table[i].dir = a /\ table[j].dir = b

LEMMA OrderRenamed ==
  ASSUME NEW table \in Seq(Mounts), NEW d, NEW to, NEW t, RenamedAs(t, table, d, to),
         NEW a, NEW b, InOrder(table, a, b), ~Under(a, d), ~Under(b, d)
  PROVE  InOrder(t, a, b)
<1>1. PICK i \in 1..Len(table), j \in 1..Len(table) :
        i < j /\ table[i].dir = a /\ table[j].dir = b
  BY DEF InOrder
<1>2. Len(t) = Len(table) /\ t[i] = table[i] /\ t[j] = table[j]
  BY <1>1 DEF RenamedAs
<1>3. QED
  BY <1>1, <1>2 DEF InOrder

LEMMA OrderBound ==
  ASSUME NEW table \in Seq(Mounts), NEW d, NEW to, NEW t, BoundAs(t, table, d, to),
         NEW a, NEW b, InOrder(table, a, b)
  PROVE  /\ InOrder(t, a, b)
         /\ Under(a, d) /\ Under(b, d) => InOrder(t, Moved(a, d, to), Moved(b, d, to))
<1>1. PICK i \in 1..Len(table), j \in 1..Len(table) :
        i < j /\ table[i].dir = a /\ table[j].dir = b
  BY DEF InOrder
<1>2. PICK n \in Nat, l \in Nat : n = Len(table) /\ l = Len(t) /\ n <= l
  BY DEF BoundAs
<1>3. t[i] = table[i] /\ t[j] = table[j] /\ i \in 1..l /\ j \in 1..l
  <2>1. t[i] = table[i] /\ t[j] = table[j]
    BY DEF BoundAs
  <2>2. QED
    BY <1>2, <2>1
<1>4. InOrder(t, a, b)
  BY <1>1, <1>2, <1>3 DEF InOrder
<1>5. ASSUME Under(a, d), Under(b, d) PROVE InOrder(t, Moved(a, d, to), Moved(b, d, to))
  <2>1. PICK from \in [Len(table) + 1..Len(t) -> 1..Len(table)] :
          /\ \A x, y \in Len(table) + 1..Len(t) : x < y => from[x] < from[y]
          /\ \A x \in 1..Len(table) : Under(table[x].dir, d) =>
               \E k \in Len(table) + 1..Len(t) : from[k] = x
          /\ \A k \in Len(table) + 1..Len(t) : t[k].dir = Moved(table[from[k]].dir, d, to)
    BY DEF BoundAs
  <2>2. PICK k \in Len(table) + 1..Len(t) : from[k] = i
    BY <1>1, <1>5, <2>1
  <2>3. PICK m \in Len(table) + 1..Len(t) : from[m] = j
    BY <1>1, <1>5, <2>1
  <2>4. t[k].dir = Moved(a, d, to) /\ t[m].dir = Moved(b, d, to)
    BY <1>1, <2>1, <2>2, <2>3
  <2>5. k < m
    <3>1. ~(m < k)
      BY <1>1, <1>2, <2>1, <2>2, <2>3
    <3>2. m # k
      BY <1>1, <1>2, <2>2, <2>3
    <3>3. QED
      BY <1>2, <3>1, <3>2
  <2>6. k \in 1..l /\ m \in 1..l
    BY <1>2
  <2>7. QED
    BY <1>2, <2>4, <2>5, <2>6 DEF InOrder
<1>6. QED
  BY <1>4, <1>5

LEMMA OrderJoined ==
  ASSUME NEW table \in Seq(Mounts), NEW extra \in Seq(Mounts), NEW t, t = table \o extra,
         NEW a, NEW b, InOrder(table, a, b)
  PROVE  InOrder(t, a, b)
<1>1. JoinedAs(t, table, extra)
  BY JoinedMounts
<1>2. PICK i \in 1..Len(table), j \in 1..Len(table) :
        i < j /\ table[i].dir = a /\ table[j].dir = b
  BY DEF InOrder
<1>3. t[i] = table[i] /\ t[j] = table[j] /\ i \in 1..Len(t) /\ j \in 1..Len(t)
  BY <1>1 DEF JoinedAs
<1>4. QED
  BY <1>2, <1>3 DEF InOrder

(* What is kept of a list is kept in its order.                            *)
KeptOf(K, s, set) ==
  \E at \in [1..Len(K) -> 1..Len(s)] :
    /\ \A k \in 1..Len(K) : K[k] = s[at[k]] /\ K[k] \in set
    /\ \A k \in 1..Len(K) : \A j \in 1..k - 1 : at[j] < at[k]
    /\ \A i \in 1..Len(s) : s[i] \in set => \E k \in 1..Len(K) : at[k] = i

LEMMA KeptIs ==
  ASSUME NEW X, NEW s \in Seq(X), NEW set, NEW K, K = Kept(s, set)
  PROVE  KeptOf(K, s, set)
<1>1. /\ K \in Seq(X)
      /\ \E at \in [1..Len(K) -> 1..Len(s)] :
           /\ \A k \in 1..Len(K) : K[k] = s[at[k]] /\ K[k] \in set
           /\ \A k \in 1..Len(K) : \A j \in 1..k - 1 : at[j] < at[k]
           /\ \A i \in 1..Len(s) : s[i] \in set => \E k \in 1..Len(K) : at[k] = i
  BY KeptFacts
<1>2. QED
  BY <1>1 DEF KeptOf

KeptTwo(K, a, b) == \E k, m \in 1..Len(K) : k < m /\ K[k] = a /\ K[m] = b

LEMMA KeptOrder ==
  ASSUME NEW X, NEW table \in Seq(X), NEW set, NEW K, K = Kept(table, set),
         NEW p \in 1..Len(table), NEW q \in 1..Len(table), p < q, table[p] \in set, table[q] \in set
  PROVE  KeptTwo(K, table[p], table[q])
<1>1. Len(K) \in Nat /\ Len(table) \in Nat
  <2>1. K \in Seq(X)
    BY KeptFacts
  <2>2. QED
    BY <2>1
<1>2. PICK at \in [1..Len(K) -> 1..Len(table)] :
        /\ \A k \in 1..Len(K) : K[k] = table[at[k]] /\ K[k] \in set
        /\ \A k \in 1..Len(K) : \A j \in 1..k - 1 : at[j] < at[k]
        /\ \A i \in 1..Len(table) : table[i] \in set => \E k \in 1..Len(K) : at[k] = i
  <2>1. KeptOf(K, table, set)
    BY KeptIs
  <2>2. QED
    BY <2>1 DEF KeptOf
<1>3. PICK k \in 1..Len(K) : at[k] = p
  BY <1>1, <1>2
<1>4. PICK m \in 1..Len(K) : at[m] = q
  BY <1>1, <1>2
<1>5. k < m
  <2>1. ~(m < k)
    <3>1. SUFFICES ASSUME m < k PROVE FALSE
      OBVIOUS
    <3>2. m \in 1..k - 1
      BY <1>1, <3>1
    <3>3. at[m] < at[k]
      BY <1>2, <3>2
    <3>4. QED
      BY <1>1, <1>3, <1>4, <3>3
  <2>2. m # k
    BY <1>1, <1>3, <1>4
  <2>3. QED
    BY <1>1, <2>1, <2>2
<1>6. QED
  BY <1>1, <1>2, <1>3, <1>4, <1>5 DEF KeptTwo

LEMMA OrderKept ==
  ASSUME NEW table \in Seq(Mounts), NEW set, NEW K, K = Kept(table, set), NEW a, NEW b,
         InOrder(table, a, b), \A m \in Range(table) : m.dir \in {a, b} => m \in set
  PROVE  InOrder(K, a, b)
<1>1. PICK i \in 1..Len(table), j \in 1..Len(table) :
        i < j /\ table[i].dir = a /\ table[j].dir = b
  BY DEF InOrder
<1>2. table[i] \in set /\ table[j] \in set
  <2>1. DOMAIN table = 1..Len(table)
    OBVIOUS
  <2>2. table[i] \in Range(table) /\ table[j] \in Range(table)
    BY <2>1 DEF Range
  <2>3. QED
    BY <1>1, <2>2
<1>3. PICK k \in 1..Len(K), m \in 1..Len(K) : k < m /\ K[k] = table[i] /\ K[m] = table[j]
  <2>1. KeptTwo(K, table[i], table[j])
    BY <1>1, <1>2, KeptOrder
  <2>2. QED
    BY <2>1 DEF KeptTwo
<1>4. QED
  BY <1>1, <1>3 DEF InOrder

LEMMA OrderPivoted ==
  ASSUME NEW table \in Seq(Mounts), NEW new, NEW old, NEW P, PivotedAs(P, table, new, old),
         NEW a \in Path, NEW b \in Path, InOrder(table, new \o a, new \o b)
  PROVE  InOrder(P, a, b)
<1>1. PICK i \in 1..Len(table), j \in 1..Len(table) :
        i < j /\ table[i].dir = new \o a /\ table[j].dir = new \o b
  BY DEF InOrder
<1>2. Len(P) = Len(table) /\ P[i].dir = a /\ P[j].dir = b
  BY <1>1 DEF PivotedAs
<1>3. QED
  BY <1>1, <1>2 DEF InOrder

(* /sys and the selinux mount stay where they are, since the first is      *)
(* moved with MS_BIND and the second only along with it; the copies below  *)
(* new are in the same order.                                              *)
AlongWithSys(list) == \A k \in 1..Len(list) : Under(Selinux, list[k]) => list[k] = Sys
NullMoves(table, list, new) ==
  /\ InOrder(table, Sys, Selinux) /\ AlongWithSys(list)
  /\ Listed(list, Sys) \/ InOrder(table, new \o Sys, new \o Selinux)

LEMMA NullStarts ==
  ASSUME NEW table \in Seq(Mounts), DirsDiffer(table), InOrder(table, Sys, Selinux),
         NEW new \in OwnDirs, NEW L, L = GetMountsToMove(Root, new, table)
  PROVE  NullMoves(table, L, new)
<1>1. /\ Sys \in Path /\ Selinux \in Path /\ Root \in Path /\ new \in Path
      /\ Len(Sys) = 1 /\ Sys # Selinux /\ Under(Selinux, Sys)
      /\ Sys # Root /\ Sys # new /\ Under(Sys, Root)
  <2>1. Sys # Root /\ ~Under(Sys, new) /\ Under(new, new) /\ Under(Sys, Root)
    BY SysFacts, FirstFacts, OwnFacts, UnderOrder
  <2>2. QED
    BY <2>1, SysFacts, OwnFacts, RootFacts
<1>2. Below(Sys, Root) /\ Below(Selinux, Sys)
  BY <1>1, UnderOrder
<1>3. PICK i \in 1..Len(table), j \in 1..Len(table) :
        i < j /\ table[i].dir = Sys /\ table[j].dir = Selinux
  BY DEF InOrder
<1>4. PICK n \in Nat, l \in Nat : n = Len(L) /\ l = Len(table)
  <2>1. L \in Seq(Path)
    BY ListFacts DEF ListAs
  <2>2. QED
    BY <2>1
<1>5. PICK at \in [1..n -> 1..l] :
        /\ \A k \in 1..n : L[k] = table[at[k]].dir /\ Below(L[k], Root) /\ L[k] # new
        /\ \A k \in 1..n : \A y \in 1..k - 1 : at[y] < at[k] /\ ~Below(L[k], L[y])
        /\ \A x \in 1..l : Below(table[x].dir, Root) /\ table[x].dir # new =>
             \E k \in 1..n : at[k] <= x /\ (table[x].dir = L[k] \/ Below(table[x].dir, L[k]))
  <2>1. ListAs(L, Root, new, table)
    BY ListFacts
  <2>2. QED
    BY <1>4, <2>1 DEF ListAs
<1>6. \A k \in 1..n : L[k] \in Path /\ L[k] # Root
  <2>1. \A k \in 1..n : L[k] \in Path
    BY <1>4, ListFacts DEF ListAs
  <2>2. QED
    BY <1>1, <1>5, <2>1, UnderOrder
<1>7. PICK s \in 1..n : at[s] <= i /\ L[s] = Sys
  <2>1. PICK k \in 1..n : at[k] <= i /\ (Sys = L[k] \/ Below(Sys, L[k]))
    BY <1>1, <1>2, <1>3, <1>4, <1>5
  <2>2. Under(Sys, L[k])
    BY <1>1, <1>6, <2>1, UnderOrder
  <2>3. L[k] = Sys
    BY <1>1, <1>6, <2>2, OneName
  <2>4. QED
    BY <2>1, <2>3
<1>8. AlongWithSys(L)
  <2>1. SUFFICES ASSUME NEW k \in 1..n, Under(Selinux, L[k]), L[k] # Sys PROVE FALSE
    BY <1>4 DEF AlongWithSys
  <2>2. L[k] = Selinux
    BY <1>6, <2>1, SysFacts
  <2>3. at[k] \in 1..l /\ table[at[k]].dir = Selinux
    BY <1>5, <2>2
  <2>4. at[k] = j
    BY <1>3, <1>4, <2>3 DEF DirsDiffer
  <2>5. at[s] < at[k]
    BY <1>3, <1>4, <1>5, <1>7, <2>4
  <2>6. s # k /\ ~(k < s)
    <3>1. ASSUME k < s PROVE at[k] < at[s]
      <4>1. k \in 1..s - 1
        BY <1>4, <3>1
      <4>2. QED
        BY <1>5, <4>1
    <3>2. at[s] \in 1..l /\ at[k] \in 1..l
      BY <1>5
    <3>3. QED
      BY <1>4, <2>5, <3>1, <3>2
  <2>7. s \in 1..k - 1
    BY <1>4, <2>6
  <2>8. QED
    BY <1>2, <1>5, <1>7, <2>2, <2>7
<1>9. Listed(L, Sys)
  BY <1>4, <1>7 DEF Listed
<1>10. QED
  BY <1>8, <1>9 DEF NullMoves

(* What is done with one mount of the list.                                *)
NullOutcome(t, table, d, to) ==
  \/ d = Sys /\ t = BoundMount(table, d, to)
  \/ d # Sys /\ (t = table \/ t = MovedMount(table, d, to))

LEMMA NullTells ==
  ASSUME MoveMount, NEW d, d = Head(todo), d \in Path, MoveAt[pc].rbind = {Sys},
         MoveAt[pc].old = Root, NEW new, new = MoveAt[pc].new, new \in {Ramdisk, TargetTmp},
         NEW to, to = Moved(d, Root, new), NEW t, t = tree'
  PROVE  NullOutcome(t, tree, d, to)
<1>1. /\ made' = MadeBy(to)
      /\ t = IF ~IsDirectory(to, made') THEN tree
             ELSE IF ShouldRbind(MoveAt[pc], d) THEN BoundMount(tree, d, to)
             ELSE MovedMount(tree, d, to)
  BY DEF MoveMount
<1>2. ShouldRbind(MoveAt[pc], d) <=> d = Sys
  <2>1. Root \o Sys = Sys
    BY SysFacts DEF Root, Path
  <2>2. QED
    BY <2>1 DEF ShouldRbind
<1>3. CASE d # Sys
  BY <1>1, <1>2, <1>3, Zenon DEF NullOutcome
<1>4. CASE d = Sys
  <2>1. d \in Path /\ Len(d) = 1
    BY <1>4, SysFacts
  <2>2. to = new \o d
    BY <2>1, MovedFromRoot, OwnFacts DEF OwnDirs
  <2>3. IsDirectory(to, made')
    <3>1. CASE new = Ramdisk
      BY <2>1, <2>2, <3>1, RamdiskDirectory
    <3>2. CASE new = TargetTmp
      BY <1>1, <2>1, <2>2, <3>2, TargetTmpDirectory
    <3>3. QED
      BY <3>1, <3>2
  <2>4. QED
    BY <1>1, <1>2, <1>4, <2>3, Zenon DEF NullOutcome
<1>5. QED
  BY <1>3, <1>4

LEMMA NullMove ==
  ASSUME NEW table \in Seq(Mounts), NEW list \in Seq(Path), list # <<>>, OfFirst(list),
         NEW new \in OwnDirs, NullMoves(table, list, new),
         NEW d, d = Head(list), NEW rest, rest = Tail(list), NEW to, to = Moved(d, Root, new),
         NEW t, NullOutcome(t, table, d, to)
  PROVE  NullMoves(t, rest, new)
<1>1. /\ d \in Path /\ d \in FirstPaths /\ d = list[1] /\ 1 \in 1..Len(list)
      /\ \A k \in 1..Len(rest) : \E j \in 1..Len(list) : rest[k] = list[j]
  <2>1. PICK m \in Nat : m = Len(rest) /\ Len(list) = m + 1
    BY TailFacts
  <2>2. d \in Path /\ d = list[1] /\ \A k \in 1..m : rest[k] = list[k + 1]
    BY <2>1, TailFacts
  <2>3. 1 \in 1..m + 1 /\ \A k \in 1..m : k + 1 \in 1..m + 1
    BY <2>1
  <2>4. d \in FirstPaths
    BY <2>1, <2>2, <2>3 DEF OfFirst
  <2>5. QED
    BY <2>1, <2>2, <2>3, <2>4
<1>2. AlongWithSys(rest)
  BY <1>1 DEF NullMoves, AlongWithSys
<1>3. /\ Sys \in Path /\ Selinux \in Path /\ new \in Path /\ Root \in Path /\ Len(Sys) = 1
      /\ Under(Selinux, Sys) /\ InOrder(table, Sys, Selinux)
  BY SysFacts, OwnFacts, RootFacts DEF NullMoves
<1>4. d # Root /\ ~Under(d, new) /\ ~Under(new, d)
  BY <1>1, FirstFacts
<1>5. to = new \o d /\ to \in Path
  <2>1. to = new \o d
    BY <1>1, <1>3, MovedFromRoot
  <2>2. new \o d \in Path
    BY <1>1, <1>3, JoinRule
  <2>3. QED
    BY <2>1, <2>2
<1>6. PICK a \in Path, b \in Path : a = new \o Sys /\ b = new \o Selinux
  BY <1>3, JoinRule
<1>7. ~Under(a, d) /\ ~Under(b, d)
  <2>1. Under(a, new) /\ Under(b, new)
    BY <1>3, <1>6, JoinUnder
  <2>2. QED
    BY <1>1, <1>3, <1>4, <2>1, UnderOrder
<1>8. CASE d = Sys /\ t = BoundMount(table, d, to)
  <2>1. BoundAs(t, table, d, to)
    BY <1>1, <1>5, <1>8, BoundFacts
  <2>2. Under(Sys, d) /\ Under(Selinux, d)
    BY <1>3, <1>8, UnderOrder
  <2>3. InOrder(t, Sys, Selinux) /\ InOrder(t, Moved(Sys, d, to), Moved(Selinux, d, to))
    BY <1>3, <2>1, <2>2, OrderBound
  <2>4. Moved(Sys, d, new \o d) = new \o Sys /\ Moved(Selinux, d, new \o d) = new \o Selinux
    BY <1>1, <1>3, <2>2, MovedOnto
  <2>5. InOrder(t, new \o Sys, new \o Selinux)
    BY <1>5, <2>3, <2>4
  <2>6. QED
    BY <1>2, <2>3, <2>5 DEF NullMoves
<1>9. CASE d # Sys /\ (t = table \/ t = MovedMount(table, d, to))
  <2>1. ~Under(Sys, d) /\ ~Under(Selinux, d)
    <3>1. ~Under(Sys, d)
      BY <1>1, <1>3, <1>4, <1>9, OneName
    <3>2. ~Under(Selinux, d)
      BY <1>1, <1>9 DEF NullMoves, AlongWithSys
    <3>3. QED
      BY <3>1, <3>2
  <2>2. \A x, y : InOrder(table, x, y) /\ ~Under(x, d) /\ ~Under(y, d) => InOrder(t, x, y)
    <3>1. CASE t = table
      BY <3>1
    <3>2. CASE t = MovedMount(table, d, to)
      <4>1. RenamedAs(t, table, d, to)
        BY <1>1, <1>5, <3>2, RenamedFacts DEF MovedMount
      <4>2. QED
        BY <4>1, OrderRenamed
    <3>3. QED
      BY <1>9, <3>1, <3>2
  <2>3. InOrder(t, Sys, Selinux)
    BY <1>3, <2>1, <2>2
  <2>4. CASE Listed(list, Sys)
    <3>1. PICK e : e = Sys /\ Listed(list, e) /\ e # d
      BY <1>9, <2>4
    <3>2. Listed(rest, e)
      BY <3>1, WaitsOn
    <3>3. QED
      BY <1>2, <2>3, <3>1, <3>2 DEF NullMoves
  <2>5. CASE InOrder(table, new \o Sys, new \o Selinux)
    <3>1. InOrder(t, a, b)
      BY <1>6, <1>7, <2>2, <2>5
    <3>2. QED
      BY <1>2, <1>6, <2>3, <3>1 DEF NullMoves
  <2>6. QED
    BY <2>4, <2>5 DEF NullMoves
<1>10. QED
  BY <1>8, <1>9 DEF NullOutcome

Dev == <<"dev">>
MountedAt(table, dir) == \E i \in 1..Len(table) : table[i].dir = dir

LEMMA DevFacts == Dev \in Path /\ ~Under(Dev, TargetTmp) /\ ~Under(Dev, Target)
<1>1. Dev \in Path /\ Len(Dev) = 1
  <2>1. \A a \in Names : <<a>> \in Seq(Names) /\ Len(<<a>>) = 1
    OBVIOUS
  <2>2. QED
    BY <2>1, MountsAssumption DEF Dev, Path
<1>2. ASSUME NEW d \in {TargetTmp, Target} PROVE ~Under(Dev, d)
  <2>1. d \in OwnDirs /\ d # Dev
    BY DEF OwnDirs, Dev, TargetTmp, Target
  <2>2. d \in Path /\ d # Root
    BY <2>1, OwnFacts
  <2>3. QED
    BY <1>1, <2>1, <2>2, OneName
<1>3. QED
  BY <1>1, <1>2

NullAt ==
  /\ pc \in {"start", "entered"} => InOrder(tree, Sys, Selinux)
  /\ pc = "ramdisk" => NullMoves(tree, todo, Ramdisk)
  /\ pc = "target_tmp" => NullMoves(tree, todo, TargetTmp)
  /\ pc \in {"menu", "target"} => MountedAt(tree, Dev)

LEMMA NullInit ==
  ASSUME Init
  PROVE  NullAt
<1>1. PICK some \in SUBSET FirstPaths :
        /\ Always \subseteq some /\ pc = "start"
        /\ tree = <<Mount(Root, "system", Root)>> \o MountsOf(Kept(FirstStage, some), "first", Root)
  BY DEF Init, FirstPaths
<1>2. PICK one, K, M : /\ one = <<Mount(Root, "system", Root)>> /\ K = Kept(FirstStage, some)
                       /\ M = MountsOf(K, "first", Root)
  OBVIOUS
<1>3. Root \in Path /\ "system" \in Owners /\ "first" \in Owners /\ FirstStage \in Seq(Path)
  BY RootFacts, MountsAssumption DEF Owners
<1>4. one \in Seq(Mounts) /\ Len(one) = 1
  <2>1. PICK root \in Path, system \in Owners : root = Root /\ system = "system"
    BY <1>3
  <2>2. one = <<Mount(root, system, root)>>
    BY <1>2, <2>1
  <2>3. QED
    BY <2>2, OneEntry
<1>5. K \in Seq(Path)
  BY <1>2, <1>3, KeptFacts
<1>6. MountsAs(M, K, "first", Root)
  BY <1>2, <1>3, <1>5, MountsOfFacts
<1>7. PICK i \in 1..Len(FirstStage), j \in 1..Len(FirstStage) :
        i < j /\ FirstStage[i] = Sys /\ FirstStage[j] = Selinux
  <2>1. DOMAIN FirstStage = 1..Len(FirstStage) /\ Len(FirstStage) \in Nat
    BY <1>3
  <2>2. PICK j \in 1..Len(FirstStage) : FirstStage[j] = Selinux
    BY <2>1, SysFacts DEF FirstPaths, Range
  <2>3. PICK i \in 1..j - 1 : Len(FirstStage[i]) = 1 /\ Under(Selinux, FirstStage[i])
    <3>1. Len(Selinux) # 1
      BY SysFacts
    <3>2. QED
      BY <2>1, <2>2, <3>1, DeliveryAssumption
  <2>4. i \in 1..Len(FirstStage) /\ i < j
    BY <2>1, <2>2, <2>3
  <2>5. FirstStage[i] \in Path /\ FirstStage[i] # Root
    <3>1. FirstStage[i] \in Path
      BY <1>3, <2>4
    <3>2. Len(FirstStage[i]) = 1 /\ Len(Root) = 0
      BY <2>3, RootFacts
    <3>3. QED
      BY <3>1, <3>2
  <2>6. FirstStage[i] = Sys
    <3>1. PICK d \in Path : d = FirstStage[i] /\ d # Root /\ Len(d) = 1 /\ Under(Selinux, d)
      BY <2>3, <2>5
    <3>2. d = Sys \/ d = Selinux
      BY <3>1, SysFacts
    <3>3. Len(d) = 1 /\ Len(Selinux) = 2
      BY <3>1, SysFacts
    <3>4. QED
      BY <3>1, <3>2, <3>3
  <2>7. QED
    BY <2>2, <2>4, <2>6
<1>8. FirstStage[i] \in some /\ FirstStage[j] \in some
  BY <1>1, <1>7, MountsAssumption DEF Sys, Selinux
<1>9. PICK k \in 1..Len(K), m \in 1..Len(K) :
        k < m /\ K[k] = FirstStage[i] /\ K[m] = FirstStage[j]
  <2>1. PICK paths \in Seq(Path) : paths = FirstStage
    BY <1>3
  <2>2. /\ i \in 1..Len(paths) /\ j \in 1..Len(paths) /\ i < j
        /\ paths[i] \in some /\ paths[j] \in some /\ K = Kept(paths, some)
    BY <1>2, <1>7, <1>8, <2>1
  <2>3. KeptTwo(K, paths[i], paths[j])
    BY <2>2, KeptOrder
  <2>4. QED
    BY <2>1, <2>3 DEF KeptTwo
<1>10. /\ M[k].dir = Sys /\ M[m].dir = Selinux /\ k \in 1..Len(M) /\ m \in 1..Len(M)
  <2>1. Root \o Sys = Sys /\ Root \o Selinux = Selinux
    BY SysFacts DEF Root, Path
  <2>2. QED
    BY <1>6, <1>7, <1>9, <2>1 DEF MountsAs
<1>11. M \in Seq(Mounts) /\ Len(M) \in Nat
  BY <1>6 DEF MountsAs
<1>12. JoinedAs(tree, one, M)
  BY <1>1, <1>2, <1>4, <1>11, JoinedMounts
<1>13. /\ 1 + k \in 1..Len(tree) /\ tree[1 + k].dir = Sys
       /\ 1 + m \in 1..Len(tree) /\ tree[1 + m].dir = Selinux
  BY <1>4, <1>10, <1>12 DEF JoinedAs
<1>14. 1 + k < 1 + m
  BY <1>5, <1>9
<1>15. QED
  BY <1>1, <1>13, <1>14 DEF NullAt, InOrder

LEMMA NullCopy ==
  ASSUME MountsInv, NullAt, CopyToRamdisk
  PROVE  NullAt'
<1>1. pc = "start" /\ pc' = "ramdisk"
  BY DEF CopyToRamdisk, CallMove
<1>2. PICK one : one = <<Mount(Ramdisk, "paralloid", Ramdisk)>>
  OBVIOUS
<1>3. Ramdisk \in OwnDirs /\ Ramdisk \in Path /\ "paralloid" \in Owners /\ tree \in Seq(Mounts)
  BY OwnFacts DEF OwnDirs, Owners, MountsInv, Typed
<1>4. one \in Seq(Mounts) /\ Append(tree, Mount(Ramdisk, "paralloid", Ramdisk)) = tree \o one
  BY <1>2, <1>3, OneMount
<1>5. PICK t, L : t = tree \o one /\ tree' = t /\ L = GetMountsToMove(Root, Ramdisk, t) /\ todo' = L
  BY <1>4, MoveArguments DEF CopyToRamdisk, CallMove
<1>6. InOrder(t, Sys, Selinux)
  BY <1>1, <1>3, <1>4, <1>5, OrderJoined DEF NullAt
<1>7. t \in Seq(Mounts) /\ DirsDiffer(t)
  BY <1>1, <1>5, MountsCopy DEF MountsInv, Typed, Journey, Phase
<1>8. NullMoves(t, L, Ramdisk)
  BY <1>3, <1>5, <1>6, <1>7, NullStarts
<1>9. QED
  BY <1>1, <1>5, <1>8 DEF NullAt

LEMMA NullEnter ==
  ASSUME MountsInv, NullAt, EnterRamdisk
  PROVE  NullAt'
<1>1. pc = "ramdisk" /\ pc' = "entered" /\ todo = <<>> /\ tree' = Pivoted(tree, Ramdisk, OldRoot)
  BY DEF EnterRamdisk, MovesDone
<1>2. PICK P : P = tree'
  OBVIOUS
<1>3. tree \in Seq(Mounts) /\ Ramdisk \in Path /\ OldRoot \in Path
  BY OwnFacts DEF OwnDirs, MountsInv, Typed
<1>4. PivotedAs(P, tree, Ramdisk, OldRoot)
  BY <1>1, <1>2, <1>3, PivotedFacts
<1>5. InOrder(tree, Ramdisk \o Sys, Ramdisk \o Selinux)
  <2>1. ~Listed(<<>>, Sys)
    BY DEF Listed
  <2>2. QED
    BY <1>1, <2>1 DEF NullAt, NullMoves
<1>6. InOrder(P, Sys, Selinux)
  BY <1>3, <1>4, <1>5, SysFacts, OrderPivoted
<1>7. QED
  BY <1>1, <1>2, <1>6 DEF NullAt

LEMMA NullFree ==
  ASSUME MountsInv, NullAt, FreeSystem
  PROVE  NullAt'
<1>1. pc = "entered" /\ pc' = "target_tmp"
  BY DEF FreeSystem, CallMove
<1>2. PICK one, set, K :
        /\ one = <<Mount(TargetTmp, "paralloid", TargetTmp)>>
        /\ set = {m \in Range(tree) : ~Under(m.dir, OldRoot)} /\ K = Kept(tree, set)
  OBVIOUS
<1>3. /\ TargetTmp \in OwnDirs /\ TargetTmp \in Path /\ "paralloid" \in Owners /\ tree \in Seq(Mounts)
      /\ OldRoot \in OwnDirs
  BY OwnFacts DEF OwnDirs, Owners, MountsInv, Typed
<1>4. K \in Seq(Mounts)
  BY <1>2, <1>3, KeptFacts
<1>5. InOrder(K, Sys, Selinux)
  <2>1. ~Under(Sys, OldRoot) /\ ~Under(Selinux, OldRoot)
    BY <1>3, SysFacts, FirstFacts
  <2>2. \A m \in Range(tree) : m.dir \in {Sys, Selinux} => m \in set
    BY <1>2, <2>1
  <2>3. QED
    BY <1>1, <1>2, <1>3, <2>2, OrderKept DEF NullAt
<1>6. one \in Seq(Mounts) /\ Append(K, Mount(TargetTmp, "paralloid", TargetTmp)) = K \o one
  BY <1>2, <1>3, <1>4, OneMount
<1>7. PICK t, L : t = K \o one /\ tree' = t /\ L = GetMountsToMove(Root, TargetTmp, t) /\ todo' = L
  BY <1>2, <1>6, MoveArguments DEF FreeSystem, CallMove, RecursiveUmount
<1>8. InOrder(t, Sys, Selinux)
  BY <1>4, <1>5, <1>6, <1>7, OrderJoined
<1>9. t \in Seq(Mounts) /\ DirsDiffer(t)
  BY <1>1, <1>7, MountsFree DEF MountsInv, Typed, Journey, Phase
<1>10. NullMoves(t, L, TargetTmp)
  BY <1>3, <1>7, <1>8, <1>9, NullStarts
<1>11. QED
  BY <1>1, <1>7, <1>10 DEF NullAt

LEMMA NullRemount ==
  ASSUME MountsInv, RemountOwn
  PROVE  NullAt'
<1>1. pc' = "menu" /\ tree' = tree \o OwnMounts
  BY DEF RemountOwn, MovesDone
<1>2. PICK own, t : own = OwnMounts /\ t = tree' /\ t = tree \o own
  BY <1>1
<1>3. own \in Seq(Mounts) /\ tree \in Seq(Mounts)
  BY <1>2, OwnMountsFacts DEF MountsInv, Typed
<1>4. JoinedAs(t, tree, own)
  BY <1>2, <1>3, JoinedMounts
<1>5. PICK j \in 1..Len(own) : own[j].dir = Dev
  BY <1>2, OwnMountsFacts DEF Dev
<1>6. MountedAt(t, Dev)
  BY <1>4, <1>5 DEF JoinedAs, MountedAt
<1>7. QED
  BY <1>1, <1>2, <1>6 DEF NullAt

(* What is mounted at a path stays so when its mounts are kept.            *)
LEMMA KeptAt ==
  ASSUME NEW table \in Seq(Mounts), NEW set, NEW K, K = Kept(table, set),
         NEW dir, MountedAt(table, dir), \A m \in Range(table) : m.dir = dir => m \in set
  PROVE  MountedAt(K, dir)
<1>1. \E at \in [1..Len(K) -> 1..Len(table)] :
        /\ \A k \in 1..Len(K) : K[k] = table[at[k]]
        /\ \A i \in 1..Len(table) : table[i] \in set => \E k \in 1..Len(K) : at[k] = i
  BY KeptFacts
<1>2. PICK i \in 1..Len(table) : table[i].dir = dir
  BY DEF MountedAt
<1>3. table[i] \in set
  <2>1. DOMAIN table = 1..Len(table)
    OBVIOUS
  <2>2. QED
    BY <1>2, <2>1 DEF Range
<1>4. PICK k \in 1..Len(K) : K[k] = table[i]
  BY <1>1, <1>3
<1>5. QED
  BY <1>2, <1>4 DEF MountedAt

(* The mount of the script itself is out of the way of the third call.     *)
LEMMA NullInternal ==
  ASSUME MountsInv, NullAt, TargetInternal
  PROVE  NullAt'
<1>1. pc = "menu" /\ pc' = "target"
  BY DEF TargetInternal, CallMove
<1>2. PICK some, skip, table, gone :
        /\ skip \subseteq Skippable
        /\ table = Append(tree, Mount(Target, "internal", Root))
                     \o MountsOf(Kept(Partitions, some), "internal", TargetTmp)
        /\ gone = Umounted(table, {SkipMountDir(p) : p \in skip})
        /\ CallMove("target", Kept(table, {m \in Range(table) : m.dir \notin gone}))
        /\ dropped' = skip
  BY DEF TargetInternal
<1>3. PICK set, t : set = {m \in Range(table) : m.dir \notin gone} /\ t = Kept(table, set) /\ tree' = t
  BY <1>2 DEF CallMove
<1>4. /\ tree \in Seq(Mounts) /\ TargetTmp \in OwnDirs /\ TargetTmp \in Path /\ "internal" \in Owners
      /\ Partitions \in Seq(Path)
  BY OwnFacts, MountsAssumption DEF MountsInv, Typed, OwnDirs, Owners
<1>5. AddsTo(table, tree)
  <2>1. PICK of \in Owners, dir \in Path : of = "internal" /\ dir = TargetTmp
    BY <1>4
  <2>2. table = Append(tree, Mount(Target, of, Root)) \o MountsOf(Kept(Partitions, some), of, dir)
    BY <1>2, <2>1
  <2>3. QED
    BY <1>4, <2>2, HasPrepared
<1>6. table \in Seq(Mounts) /\ MountedAt(table, Dev)
  BY <1>1, <1>5 DEF NullAt, MountedAt, AddsTo
<1>7. Dev \notin gone
  <2>1. SUFFICES ASSUME Dev \in gone PROVE FALSE
    OBVIOUS
  <2>2. PICK s \in skip : Dev = TargetTmp \o s
    BY <1>2, <2>1 DEF Umounted, SkipMountDir
  <2>3. s \in Path
    <3>1. Skippable \subseteq FirstPaths \union OtherPaths
      BY MountsAssumption DEF FirstPaths, OtherPaths
    <3>2. QED
      BY <1>2, <3>1, FirstFacts
  <2>4. Under(TargetTmp \o s, TargetTmp)
    BY <1>4, <2>3, PlaceFacts
  <2>5. QED
    BY <2>2, <2>4, DevFacts
<1>8. \A m \in Range(table) : m.dir = Dev => m \in set
  BY <1>3, <1>7
<1>9. MountedAt(t, Dev)
  BY <1>3, <1>6, <1>8, KeptAt
<1>10. QED
  BY <1>1, <1>3, <1>9 DEF NullAt

LEMMA NullImage ==
  ASSUME MountsInv, NullAt, TargetImage
  PROVE  NullAt'
<1>1. pc = "menu" /\ pc' = "target"
  BY DEF TargetImage, CallMove
<1>2. PICK some, t :
        /\ t = Append(tree, Mount(Target, "image", Root))
                 \o MountsOf(Kept(<< <<"product">> >>, some), "image", Target)
        /\ tree' = t
  BY DEF TargetImage, CallMove
<1>3. tree \in Seq(Mounts) /\ Target \in Path /\ "image" \in Owners
  BY OwnFacts DEF MountsInv, Typed, OwnDirs, Owners
<1>4. PICK paths : paths = << <<"product">> >> /\ paths \in Seq(Path)
  <2>1. PICK name \in Names : name = "product"
    BY MountsAssumption
  <2>2. \A a \in Names : <<a>> \in Seq(Names)
    OBVIOUS
  <2>3. PICK path \in Path : path = <<name>>
    BY <2>2 DEF Path
  <2>4. <<path>> \in Seq(Path)
    OBVIOUS
  <2>5. QED
    BY <2>1, <2>3, <2>4
<1>5. AddsTo(t, tree)
  <2>1. PICK of \in Owners, dir \in Path : of = "image" /\ dir = Target
    BY <1>3
  <2>2. t = Append(tree, Mount(Target, of, Root)) \o MountsOf(Kept(paths, some), of, dir)
    BY <1>2, <1>4, <2>1
  <2>3. QED
    BY <1>3, <1>4, <2>2, HasPrepared
<1>6. QED
  BY <1>1, <1>2, <1>5 DEF NullAt, MountedAt, AddsTo

LEMMA NullMoveMount ==
  ASSUME MountsInv, NullAt, MoveMount
  PROVE  NullAt'
<1>1. PICK d, rest, to, t : /\ d = Head(todo) /\ rest = Tail(todo) /\ t = tree'
                            /\ to = Moved(d, MoveAt[pc].old, MoveAt[pc].new)
  OBVIOUS
<1>2. /\ pc \in {"ramdisk", "target_tmp", "target"} /\ todo # <<>> /\ todo' = rest /\ pc' = pc
  BY <1>1, MoveMountIs
<1>3. tree \in Seq(Mounts) /\ todo \in Seq(Path) /\ Ramdisk \in OwnDirs /\ TargetTmp \in OwnDirs
  BY DEF MountsInv, Typed, OwnDirs
<1>4. d \in Path /\ d = todo[1] /\ 1 \in 1..Len(todo)
  BY <1>1, <1>2, <1>3, TailFacts
<1>5. ASSUME NEW new \in {Ramdisk, TargetTmp}, new = MoveAt[pc].new, MoveAt[pc].old = Root,
             MoveAt[pc].rbind = {Sys}, Phase(tree, todo, new), NullMoves(tree, todo, new)
      PROVE  NullMoves(t, rest, new)
  <2>1. to = Moved(d, Root, new)
    BY <1>1, <1>5
  <2>2. NullOutcome(t, tree, d, to)
    BY <1>1, <1>4, <1>5, <2>1, NullTells
  <2>3. OfFirst(todo) /\ new \in OwnDirs
    BY <1>3, <1>5 DEF Phase
  <2>4. QED
    BY <1>1, <1>2, <1>3, <1>5, <2>1, <2>2, <2>3, NullMove
<1>6. CASE pc = "ramdisk"
  <2>1. /\ Ramdisk = MoveAt[pc].new /\ MoveAt[pc].old = Root /\ MoveAt[pc].rbind = {Sys}
        /\ Phase(tree, todo, Ramdisk) /\ NullMoves(tree, todo, Ramdisk)
    BY <1>6, MoveArguments DEF Sys, MountsInv, Journey, NullAt
  <2>2. NullMoves(t, rest, Ramdisk)
    BY <1>5, <2>1
  <2>3. QED
    BY <1>1, <1>2, <1>6, <2>2 DEF NullAt
<1>7. CASE pc = "target_tmp"
  <2>1. /\ TargetTmp = MoveAt[pc].new /\ MoveAt[pc].old = Root /\ MoveAt[pc].rbind = {Sys}
        /\ Phase(tree, todo, TargetTmp) /\ NullMoves(tree, todo, TargetTmp)
    BY <1>7, MoveArguments DEF Sys, MountsInv, Journey, NullAt
  <2>2. NullMoves(t, rest, TargetTmp)
    BY <1>5, <2>1
  <2>3. QED
    BY <1>1, <1>2, <1>7, <2>2 DEF NullAt
<1>8. CASE pc = "target"
  <2>1. Below(d, TargetTmp) /\ TargetTmp \in Path /\ Target \in Path
    BY <1>4, <1>8, OwnFacts DEF MountsInv, Journey, AtTarget, OwnDirs
  <2>2. Under(d, TargetTmp) /\ ~Under(Dev, d)
    BY <1>4, <2>1, DevFacts, UnderOrder
  <2>3. to \in Path
    <3>1. to = Moved(d, TargetTmp, Target)
      BY <1>1, <1>8, MoveArguments
    <3>2. QED
      BY <1>4, <2>1, <2>2, <3>1, MovedIsPath
  <2>4. PICK i \in 1..Len(tree) : tree[i].dir = Dev
    BY <1>8 DEF NullAt, MountedAt
  <2>5. MoveOutcome(t, d, to, MadeBy(to))
    BY <1>1, MoveTells
  <2>6. i \in 1..Len(t) /\ t[i] = tree[i]
    <3>1. CASE t = tree
      BY <3>1
    <3>2. CASE t = MovedMount(tree, d, to)
      <4>1. RenamedAs(t, tree, d, to)
        BY <1>3, <1>4, <2>3, <3>2, RenamedFacts DEF MovedMount
      <4>2. QED
        BY <2>2, <2>4, <4>1 DEF RenamedAs
    <3>3. CASE t = BoundMount(tree, d, to)
      <4>1. BoundAs(t, tree, d, to)
        BY <1>3, <1>4, <2>3, <3>3, BoundFacts
      <4>2. Len(tree) <= Len(t) /\ t[i] = tree[i] /\ Len(t) \in Nat /\ Len(tree) \in Nat
        BY <1>3, <4>1 DEF BoundAs
      <4>3. QED
        BY <4>2
    <3>4. QED
      BY <2>5, <3>1, <3>2, <3>3 DEF MoveOutcome
  <2>7. QED
    BY <1>1, <1>2, <1>8, <2>4, <2>6 DEF NullAt, MountedAt
<1>9. QED
  BY <1>2, <1>6, <1>7, <1>8

LEMMA NullSame ==
  ASSUME NullAt, UNCHANGED vars
  PROVE  NullAt'
<1>1. tree' = tree /\ todo' = todo /\ pc' = pc
  BY DEF vars
<1>2. QED
  BY <1>1 DEF NullAt

(* A program of Paralloid that starts finds one of its null devices at     *)
(* every step of the journey (files/init:35-39): moving /sys copies it,    *)
(* and the script mounts its own /dev before the menu.                     *)
THEOREM NullDeviceStays == Spec => []NullDeviceAtHand
<1>1. Init => NullAt
  BY NullInit
<1>2. MountsInv /\ NullAt /\ [Next]_vars => NullAt'
  <2>1. SUFFICES ASSUME MountsInv, NullAt, [Next]_vars PROVE NullAt'
    OBVIOUS
  <2>2. CASE EnterTarget
    BY <2>2 DEF EnterTarget, NullAt
  <2>3. CASE Next /\ ~EnterTarget
    BY <2>1, <2>3, NullCopy, NullEnter, NullFree, NullRemount, NullInternal, NullImage, NullMoveMount,
       NullSame DEF Next, Terminated
  <2>4. CASE UNCHANGED vars
    BY <2>1, <2>4, NullSame
  <2>5. QED
    BY <2>1, <2>2, <2>3, <2>4
<1>3. MountsInv /\ NullAt /\ FirstStageDelivered => NullDeviceAtHand
  <2>1. SUFFICES ASSUME MountsInv, NullAt, FirstStageDelivered PROVE NullDeviceAtHand
    OBVIOUS
  <2>2. tree \in Seq(Mounts) /\ pc \in Stages
    BY <2>1 DEF MountsInv, Typed
  <2>3. DOMAIN tree = 1..Len(tree)
    BY <2>2
  <2>4. \A e : MountedAt(tree, e) => Mounted(e)
    BY <2>3 DEF MountedAt, Mounted, Table, Range
  <2>5. CASE pc \in {"start", "ramdisk", "entered", "target_tmp"}
    <3>1. InOrder(tree, Sys, Selinux)
      BY <2>1, <2>5 DEF NullAt, NullMoves
    <3>2. QED
      BY <2>4, <3>1 DEF InOrder, MountedAt, NullDeviceAtHand, Selinux
  <2>6. CASE pc \in {"menu", "target"}
    BY <2>1, <2>4, <2>6 DEF NullAt, NullDeviceAtHand, Dev
  <2>7. CASE pc = "booted"
    <3>1. Selinux \in first \ dropped
      BY <2>1, MountsAssumption, DeliveryAssumption DEF Selinux, MountsInv, Typed
    <3>2. Mount(Selinux, "first", Selinux) \in Table
      BY <2>1, <2>7, <3>1 DEF FirstStageDelivered
    <3>3. Mount(Selinux, "first", Selinux).dir = Selinux
      BY DEF Mount
    <3>4. Mounted(Selinux)
      BY <3>2, <3>3 DEF Mounted
    <3>5. QED
      BY <3>4 DEF NullDeviceAtHand, Selinux
  <2>8. QED
    BY <2>2, <2>5, <2>6, <2>7 DEF Stages
<1>4. QED
  BY <1>1, <1>2, <1>3, MountsInvariant, FirstStageArrives, PTL DEF Spec

-----------------------------------------------------------------------------
(* The system finds what is its own.                                       *)

Product == <<"product">>

(* What the system may bring: partitions or the product of an image.       *)
OwnTops == (OtherPaths \union {Product}) \cap TargetDirs

LEMMA OwnTopFacts ==
  ASSUME NEW p \in OwnTops
  PROVE  /\ p \in Path /\ Len(p) = 1 /\ p # Root /\ p \notin FirstPaths
         /\ \A d \in OwnDirs : ~Under(p, d)
<1>1. CASE p \in OtherPaths
  <2>1. p \in Path /\ p # Root /\ \A d \in OwnDirs : ~Under(p, d)
    BY <1>1, FirstFacts
  <2>2. Len(p) = 1 /\ p \notin FirstPaths
    BY <1>1, MountsAssumption, DeliveryAssumption DEF OtherPaths, FirstPaths
  <2>3. QED
    BY <2>1, <2>2
<1>2. CASE p = Product
  <2>1. p \in Path /\ Len(p) = 1
    <3>1. \A a \in Names : <<a>> \in Seq(Names) /\ Len(<<a>>) = 1
      OBVIOUS
    <3>2. "product" \in Names
      BY MountsAssumption
    <3>3. QED
      BY <1>2, <3>1, <3>2 DEF Product, Path
  <2>2. p # Root
    BY <2>1, RootFacts
  <2>3. p \notin FirstPaths
    BY <1>2, MountsAssumption DEF Product, FirstPaths
  <2>4. ASSUME NEW d \in OwnDirs, Under(p, d) PROVE FALSE
    <3>1. d = p
      BY <2>1, <2>4, OwnFacts, OneName
    <3>2. p \notin OwnDirs
      BY <1>2 DEF Product, OwnDirs, Ramdisk, OldRoot, TargetTmp, Target, DebugRamdisk
    <3>3. QED
      BY <3>1, <3>2
  <2>5. QED
    BY <2>1, <2>2, <2>3, <2>4
<1>3. QED
  BY <1>1, <1>2 DEF OwnTops

(* The mount is at this path of the system, or waits to be moved there.    *)
At(q, p) == q = Target \o p \/ (q = TargetTmp \o p /\ p # Root)

LEMMA AtFacts ==
  ASSUME NEW p \in Path
  PROVE  /\ Target \o p \in Path /\ Under(Target \o p, Target) /\ ~Under(Target \o p, TargetTmp)
         /\ TargetTmp \o p \in Path /\ Under(TargetTmp \o p, TargetTmp)
         /\ ~Under(TargetTmp \o p, Target)
         /\ p # Root => Below(TargetTmp \o p, TargetTmp)
<1>1. /\ TargetTmp \in OwnDirs /\ Target \in OwnDirs /\ Target # TargetTmp
      /\ TargetTmp \in Path /\ Target \in Path
  BY OwnFacts DEF OwnDirs, Target, TargetTmp
<1>2. ~Under(Target, TargetTmp) /\ ~Under(TargetTmp, Target)
  BY <1>1, OwnApart
<1>3. PICK a \in Path, b \in Path : /\ a = Target \o p /\ b = TargetTmp \o p
                                    /\ Under(a, Target) /\ Under(b, TargetTmp)
  BY <1>1, PlaceFacts
<1>4. ~Under(a, TargetTmp) /\ ~Under(b, Target)
  BY <1>1, <1>2, <1>3, UnderOrder
<1>5. p # Root => b # TargetTmp
  <2>1. TargetTmp \o Root = TargetTmp /\ Root \in Path
    BY RootFacts DEF Root, TargetTmp
  <2>2. QED
    BY <1>1, <1>3, <2>1, PlaceFacts
<1>6. p # Root => Below(b, TargetTmp)
  BY <1>1, <1>3, <1>5, UnderOrder
<1>7. QED
  BY <1>3, <1>4, <1>6

LEMMA AtOne ==
  ASSUME NEW p \in Path, NEW r \in Path, NEW q, At(q, p), At(q, r)
  PROVE  p = r
<1>1. TargetTmp \in OwnDirs /\ Target \in OwnDirs
  BY DEF OwnDirs
<1>2. Target \o p # TargetTmp \o r /\ TargetTmp \o p # Target \o r
  BY AtFacts
<1>3. Target \o p = Target \o r \/ TargetTmp \o p = TargetTmp \o r
  BY <1>2 DEF At
<1>4. QED
  BY <1>1, <1>3, PlaceFacts

(* Whatever is below one of the two directories is at some path.           *)
LEMMA AtSome ==
  ASSUME NEW q \in Path
  PROVE  /\ Under(q, Target) => \E p \in Path : q = Target \o p
         /\ Below(q, TargetTmp) => \E p \in Path : q = TargetTmp \o p /\ p # Root
<1>1. TargetTmp \in Path /\ Target \in Path
  BY OwnFacts DEF OwnDirs
<1>2. Under(q, Target) => \E p \in Path : q = Target \o p
  BY <1>1, UnderRest
<1>3. ASSUME Below(q, TargetTmp) PROVE \E p \in Path : q = TargetTmp \o p /\ p # Root
  <2>1. Under(q, TargetTmp) /\ q # TargetTmp
    BY <1>1, <1>3, UnderOrder
  <2>2. PICK p \in Path : q = TargetTmp \o p
    BY <1>1, <2>1, UnderRest
  <2>3. TargetTmp \o Root = TargetTmp
    BY DEF Root, TargetTmp
  <2>4. QED
    BY <2>1, <2>2, <2>3
<1>4. QED
  BY <1>2, <1>3

(* A move leaves every mount at its path.                                  *)
AtSame(t, table) ==
  \A i \in 1..Len(table) : \A p \in Path :
    /\ At(t[i].dir, p) <=> At(table[i].dir, p)
    /\ t[i].dir = TargetTmp \o p => table[i].dir = TargetTmp \o p

LEMMA AtMoved ==
  ASSUME NEW table \in Seq(Mounts), NEW d \in Path, Below(d, TargetTmp),
         NEW to, to = Moved(d, TargetTmp, Target), NEW t, RenamedAs(t, table, d, to)
  PROVE  /\ AtSame(t, table)
         /\ \A i \in 1..Len(table) : t[i].dir # d
<1>1. TargetTmp \in OwnDirs /\ Target \in OwnDirs /\ TargetTmp \in Path /\ Target \in Path
  BY OwnFacts DEF OwnDirs
<1>2. Under(d, TargetTmp) /\ d # TargetTmp
  BY <1>1, UnderOrder
<1>3. ASSUME NEW i \in 1..Len(table)
      PROVE  /\ table[i].dir \in Path
             /\ Under(table[i].dir, d) => t[i].dir = Moved(table[i].dir, d, to)
             /\ ~Under(table[i].dir, d) => t[i].dir = table[i].dir
  BY TableFacts DEF RenamedAs
<1>4. ASSUME NEW i \in 1..Len(table), Under(table[i].dir, d)
      PROVE  \E r \in Path : r # Root /\ table[i].dir = TargetTmp \o r /\ t[i].dir = Target \o r
  <2>1. PICK q \in Path : q = table[i].dir
    BY <1>3
  <2>2. Under(q, TargetTmp)
    BY <1>1, <1>2, <1>4, <2>1, UnderOrder
  <2>3. q # TargetTmp
    BY <1>1, <1>2, <1>4, <2>1, UnderOrder
  <2>4. PICK r \in Path : q = TargetTmp \o r /\ r # Root
    BY <1>1, <2>2, <2>3, AtSome, UnderOrder
  <2>5. LandsAs(r, TargetTmp, Target, d, to)
    <3>1. Under(TargetTmp \o r, d)
      BY <1>4, <2>1, <2>4
    <3>2. QED
      BY <1>1, <1>2, <3>1, RestMoved
  <2>6. Moved(q, d, to) = Target \o r
    BY <2>4, <2>5 DEF LandsAs
  <2>7. QED
    BY <1>3, <1>4, <2>1, <2>4, <2>6
<1>5. ASSUME NEW i \in 1..Len(table), NEW p \in Path
      PROVE  /\ At(t[i].dir, p) <=> At(table[i].dir, p)
             /\ t[i].dir = TargetTmp \o p => table[i].dir = TargetTmp \o p
  <2>1. CASE ~Under(table[i].dir, d)
    BY <1>3, <2>1
  <2>2. CASE Under(table[i].dir, d)
    <3>1. PICK r \in Path : r # Root /\ table[i].dir = TargetTmp \o r /\ t[i].dir = Target \o r
      BY <1>4, <2>2
    <3>2. At(t[i].dir, r) /\ At(table[i].dir, r)
      BY <3>1 DEF At
    <3>3. At(t[i].dir, p) => p = r
      BY <3>2, AtOne
    <3>4. At(table[i].dir, p) => p = r
      BY <3>2, AtOne
    <3>5. t[i].dir # TargetTmp \o p
      <4>1. ~Under(Target \o r, TargetTmp) /\ Under(TargetTmp \o p, TargetTmp)
        BY AtFacts
      <4>2. QED
        BY <3>1, <4>1
    <3>6. QED
      BY <3>2, <3>3, <3>4, <3>5
  <2>3. QED
    BY <2>1, <2>2
<1>6. ASSUME NEW i \in 1..Len(table), t[i].dir = d PROVE FALSE
  <2>1. CASE ~Under(table[i].dir, d)
    BY <1>3, <1>6, <2>1, UnderOrder
  <2>2. CASE Under(table[i].dir, d)
    <3>1. PICK r \in Path : t[i].dir = Target \o r
      BY <1>4, <2>2
    <3>2. ~Under(Target \o r, TargetTmp)
      BY AtFacts
    <3>3. QED
      BY <1>2, <1>6, <3>1, <3>2
  <2>3. QED
    BY <2>1, <2>2
<1>7. AtSame(t, table)
  BY <1>5 DEF AtSame
<1>8. QED
  BY <1>6, <1>7

(* Each mount at a path of the system is one of the first stage, or one of *)
(* these paths, of the system and made for that path.                      *)
Account(table, of, paths) ==
  \A i \in 1..Len(table) : \A p \in Path : At(table[i].dir, p) =>
    \/ table[i].of = "first" /\ p \in FirstPaths
    \/ table[i].of = of /\ table[i].at = p /\ p \in paths
OnePerPath(table) ==
  \A i, j \in 1..Len(table) : \A p \in Path :
    At(table[i].dir, p) /\ At(table[j].dir, p) => i = j
AllThere(table, of, paths) ==
  \A p \in paths : \E i \in 1..Len(table) :
    At(table[i].dir, p) /\ table[i].of = of /\ table[i].at = p
StillListed(table, list, paths) ==
  \A p \in paths \ {Root} : \A i \in 1..Len(table) :
    table[i].dir = TargetTmp \o p => Listed(list, TargetTmp \o p)

OwnReady(table, list, of, paths) ==
  /\ Account(table, of, paths) /\ OnePerPath(table) /\ AllThere(table, of, paths)
  /\ StillListed(table, list, paths)
  /\ paths \subseteq OwnTops \union {Root}

MovedOrStays(t, table, d, to, dirs) ==
  t = MovedMount(table, d, to) \/ (t = table /\ ~IsDirectory(to, dirs))

LEMMA OwnTells ==
  ASSUME MoveMount, pc = "target", NEW d, d = Head(todo),
         NEW to, to = Moved(d, TargetTmp, Target), NEW t, t = tree'
  PROVE  MovedOrStays(t, tree, d, to, MadeBy(to))
<1>1. MoveAt[pc].old = TargetTmp /\ MoveAt[pc].new = Target /\ MoveAt[pc].rbind = {}
  BY MoveArguments
<1>2. /\ made' = MadeBy(to)
      /\ t = IF ~IsDirectory(to, made') THEN tree
             ELSE IF ShouldRbind(MoveAt[pc], d) THEN BoundMount(tree, d, to)
             ELSE MovedMount(tree, d, to)
  BY <1>1 DEF MoveMount
<1>3. ~ShouldRbind(MoveAt[pc], d)
  BY <1>1 DEF ShouldRbind
<1>4. QED
  BY <1>2, <1>3, Zenon DEF MovedOrStays

(* A mount of the list takes its place in the target.                      *)
LEMMA OwnReadyMoved ==
  ASSUME NEW table \in Seq(Mounts), NEW list \in Seq(Path), list # <<>>,
         NEW of, NEW paths, OwnReady(table, list, of, paths),
         NEW d, d = Head(list), Below(d, TargetTmp), NEW rest, rest = Tail(list),
         NEW to, to = Moved(d, TargetTmp, Target), NEW t, NEW dirs,
         MovedOrStays(t, table, d, to, dirs)
  PROVE  OwnReady(t, rest, of, paths)
<1>1. d \in Path /\ TargetTmp \in Path /\ Target \in Path
  BY TailFacts, OwnFacts DEF OwnDirs
<1>2. Under(d, TargetTmp)
  BY <1>1, UnderOrder
<1>3. to \in Path
  BY <1>1, <1>2, MovedIsPath
<1>4. paths \subseteq OwnTops \union {Root} /\ StillListed(table, list, paths)
  BY DEF OwnReady
<1>5. ASSUME NEW p \in paths \ {Root}, NEW e, e = TargetTmp \o p, Listed(list, e), e # d
      PROVE  Listed(rest, e)
  BY <1>5, WaitsOn
<1>6. ASSUME NEW p \in Path, NEW old \in Path, NEW new \in Path, d = old \o p, to = Moved(d, old, new)
      PROVE  to = new \o p
  BY <1>6, MovedRule
<1>7. CASE t = MovedMount(table, d, to)
  <2>1. RenamedAs(t, table, d, to)
    BY <1>1, <1>3, <1>7, RenamedFacts DEF MovedMount
  <2>2. AtSame(t, table) /\ \A i \in 1..Len(table) : t[i].dir # d
    BY <1>1, <2>1, AtMoved
  <2>3. Len(t) = Len(table)
        /\ \A i \in 1..Len(table) : t[i].of = table[i].of /\ t[i].at = table[i].at
    BY <2>1 DEF RenamedAs
  <2>4. \A i \in 1..Len(table) : \A p \in Path :
          /\ At(t[i].dir, p) <=> At(table[i].dir, p)
          /\ t[i].dir = TargetTmp \o p => table[i].dir = TargetTmp \o p
    BY <2>2 DEF AtSame
  <2>5. Account(t, of, paths)
    BY <2>3, <2>4 DEF OwnReady, Account
  <2>6. OnePerPath(t)
    BY <2>3, <2>4 DEF OwnReady, OnePerPath
  <2>7. \A p \in paths : p \in Path
    BY <1>4, OwnTopFacts, RootFacts
  <2>8. AllThere(t, of, paths)
    BY <2>3, <2>4, <2>7 DEF OwnReady, AllThere
  <2>9. StillListed(t, rest, paths)
    <3>1. SUFFICES ASSUME NEW p \in paths \ {Root}, NEW i \in 1..Len(table),
                          t[i].dir = TargetTmp \o p
                   PROVE  Listed(rest, TargetTmp \o p)
      BY <2>3 DEF StillListed
    <3>2. PICK e : e = TargetTmp \o p
      OBVIOUS
    <3>3. e # d
      BY <2>2, <3>1, <3>2
    <3>4. Listed(list, e)
      BY <1>4, <2>4, <2>7, <3>1, <3>2 DEF StillListed
    <3>5. QED
      BY <1>5, <3>2, <3>3, <3>4
  <2>10. QED
    BY <1>4, <2>5, <2>6, <2>8, <2>9 DEF OwnReady
<1>8. CASE t = table /\ ~IsDirectory(to, dirs)
  <2>1. ASSUME NEW p \in paths \ {Root} PROVE TargetTmp \o p # d
    <3>1. p \in OwnTops /\ p \in Path
      BY <1>4, <2>1, OwnTopFacts
    <3>2. SUFFICES ASSUME TargetTmp \o p = d PROVE FALSE
      OBVIOUS
    <3>3. to = Target \o p
      BY <1>1, <1>6, <3>1, <3>2
    <3>4. p \in TargetDirs
      BY <3>1 DEF OwnTops
    <3>5. IsDirectory(to, dirs)
      BY <3>1, <3>3, <3>4, TargetDirectory
    <3>6. QED
      BY <1>8, <3>5
  <2>2. StillListed(t, rest, paths)
    <3>1. SUFFICES ASSUME NEW p \in paths \ {Root}, NEW i \in 1..Len(table),
                          table[i].dir = TargetTmp \o p
                   PROVE  Listed(rest, TargetTmp \o p)
      BY <1>8 DEF StillListed
    <3>2. PICK e : e = TargetTmp \o p
      OBVIOUS
    <3>3. Listed(list, e)
      BY <1>4, <3>1, <3>2 DEF StillListed
    <3>4. QED
      BY <1>5, <2>1, <3>2, <3>3
  <2>3. QED
    BY <1>8, <2>2 DEF OwnReady
<1>9. QED
  BY <1>7, <1>8 DEF MovedOrStays

(* move_mount_tree is called with a mount right below /target_tmp.         *)
LEMMA ListsTop ==
  ASSUME NEW table \in Seq(Mounts), NEW L, L = GetMountsToMove(TargetTmp, Target, table),
         NEW p \in Path, Len(p) = 1, NEW a, a = TargetTmp \o p,
         NEW i \in 1..Len(table), table[i].dir = a
  PROVE  Listed(L, a)
<1>1. TargetTmp \in OwnDirs /\ Target \in OwnDirs /\ TargetTmp \in Path /\ Target \in Path
  BY OwnFacts DEF OwnDirs
<1>2. p # Root
  <2>1. ASSUME p = Root PROVE Len(p) = 0
    BY <2>1, RootFacts, Zenon
  <2>2. Len(p) # 0
    OBVIOUS
  <2>3. QED
    BY <2>1, <2>2
<1>3. a \in Path /\ Below(a, TargetTmp) /\ Under(a, TargetTmp) /\ ~Under(a, Target)
  BY <1>2, AtFacts
<1>4. a # Target
  BY <1>1, <1>3, UnderOrder
<1>5. ListAs(L, TargetTmp, Target, table)
  BY ListFacts
<1>6. PICK k \in 1..Len(L) : /\ a = L[k] \/ Below(a, L[k])
                             /\ Below(L[k], TargetTmp)
  BY <1>3, <1>4, <1>5 DEF ListAs
<1>7. PICK e \in Path : e = L[k]
  BY <1>5 DEF ListAs
<1>8. Under(a, e) /\ Under(e, TargetTmp) /\ e # TargetTmp
  BY <1>1, <1>3, <1>6, <1>7, UnderOrder
<1>9. PICK s \in Path : e = TargetTmp \o s /\ s # Root
  BY <1>1, <1>6, <1>7, AtSome
<1>10. Under(p, s)
  BY <1>1, <1>8, <1>9, JoinEqual
<1>11. s = p
  BY <1>9, <1>10, OneName
<1>12. QED
  BY <1>7, <1>9, <1>11 DEF Listed

(* At the menu only mounts of the first stage wait below /target_tmp.      *)
OwnMenu(table) ==
  /\ OwnedAt(table, Others, {q \in Path : ~Below(q, TargetTmp)})
  /\ \A i \in 1..Len(table) : ~Under(table[i].dir, Target)

OnlyFirst(table) ==
  \A i \in 1..Len(table) : \A p \in Path :
    At(table[i].dir, p) => table[i].of = "first" /\ p \in FirstPaths

LEMMA MenuEntries ==
  ASSUME NEW table \in Seq(Mounts), AtMenu(table), OwnMenu(table)
  PROVE  OnlyFirst(table) /\ OnePerPath(table)
<1>1. TargetTmp \in OwnDirs
  BY DEF OwnDirs
<1>2. ASSUME NEW i \in 1..Len(table), NEW p \in Path, At(table[i].dir, p)
      PROVE  /\ table[i].dir = TargetTmp \o p /\ table[i].dir \in BelowTmp
             /\ table[i].of = "first" /\ p \in FirstPaths
  <2>1. PICK q \in Path : q = table[i].dir
    BY TableFacts
  <2>2. q # Target \o p
    BY <2>1, AtFacts DEF OwnMenu
  <2>3. q = TargetTmp \o p /\ p # Root
    BY <1>2, <2>1, <2>2 DEF At
  <2>4. Below(q, TargetTmp) /\ Under(q, TargetTmp)
    BY <2>3, AtFacts
  <2>5. table[i].of \in Owners /\ table[i].of \notin Others
    BY <2>1, <2>4, TableFacts DEF OwnMenu, OwnedAt
  <2>6. PICK r \in Places : q = TargetTmp \o r
    BY <2>1, <2>4 DEF AtMenu
  <2>7. r = p
    BY <1>1, <2>3, <2>6, PlaceFacts
  <2>8. QED
    BY <2>1, <2>3, <2>4, <2>5, <2>6, <2>7 DEF Others, Places, BelowTmp
<1>3. OnlyFirst(table)
  BY <1>2 DEF OnlyFirst
<1>4. OnePerPath(table)
  <2>1. SUFFICES ASSUME NEW i \in 1..Len(table), NEW j \in 1..Len(table), NEW p \in Path,
                        At(table[i].dir, p), At(table[j].dir, p)
                 PROVE  i = j
    BY DEF OnePerPath
  <2>2. table[i].dir = table[j].dir /\ table[i].dir \in BelowTmp
    BY <1>2, <2>1
  <2>3. QED
    BY <2>2 DEF AtMenu, Unique
<1>5. QED
  BY <1>3, <1>4

(* What the target is mounted with: its root and its partitions.           *)
EntryIs(m, dir, of, at) == m.dir = dir /\ m.of = of /\ m.at = at

PreparedAs(t, table, K, of, dir) ==
  /\ t \in Seq(Mounts) /\ Len(t) = Len(table) + 1 + Len(K)
  /\ \A i \in 1..Len(table) : t[i] = table[i]
  /\ EntryIs(t[Len(table) + 1], Target, of, Root)
  /\ \A j \in 1..Len(K) : EntryIs(t[Len(table) + 1 + j], dir \o K[j], of, K[j])

LEMMA PreparedFacts ==
  ASSUME NEW table \in Seq(Mounts), NEW of \in Owners, NEW K \in Seq(Path), NEW dir \in Path,
         NEW t, t = Append(table, Mount(Target, of, Root)) \o MountsOf(K, of, dir)
  PROVE  PreparedAs(t, table, K, of, dir)
<1>1. Target \in Path /\ Root \in Path
  BY OwnFacts, RootFacts DEF OwnDirs
<1>2. PICK one, a, M : /\ one = <<Mount(Target, of, Root)>> /\ a = table \o one
                       /\ M = MountsOf(K, of, dir)
  OBVIOUS
<1>3. /\ one \in Seq(Mounts) /\ Len(one) = 1 /\ EntryIs(one[1], Target, of, Root)
      /\ a = Append(table, Mount(Target, of, Root))
  BY <1>1, <1>2, OneMount DEF EntryIs
<1>4. PICK n \in Nat, m \in Nat : n = Len(table) /\ m = Len(K)
  OBVIOUS
<1>5. /\ M \in Seq(Mounts) /\ Len(M) = m
      /\ \A j \in 1..m : EntryIs(M[j], dir \o K[j], of, K[j])
  <2>1. MountsAs(M, K, of, dir)
    BY <1>2, MountsOfFacts
  <2>2. QED
    BY <1>4, <2>1 DEF MountsAs, EntryIs
<1>6. /\ a \in Seq(Mounts) /\ Len(a) = n + 1
      /\ \A i \in 1..n : a[i] = table[i]
      /\ a[n + 1] = one[1]
  <2>1. JoinedAs(a, table, one)
    BY <1>2, <1>3, JoinedMounts
  <2>2. 1 \in 1..Len(one)
    BY <1>3
  <2>3. QED
    BY <1>3, <1>4, <2>1, <2>2 DEF JoinedAs
<1>7. t = a \o M
  BY <1>2, <1>3
<1>8. /\ t \in Seq(Mounts) /\ Len(t) = n + 1 + m
      /\ \A i \in 1..n + 1 : t[i] = a[i]
      /\ \A j \in 1..m : t[n + 1 + j] = M[j]
  <2>1. JoinedAs(t, a, M)
    BY <1>5, <1>6, <1>7, JoinedMounts
  <2>2. QED
    BY <1>5, <1>6, <2>1 DEF JoinedAs
<1>9. n + 1 \in 1..n + 1 /\ \A i \in 1..n : i \in 1..n + 1
  OBVIOUS
<1>10. /\ \A i \in 1..n : t[i] = table[i]
       /\ EntryIs(t[n + 1], Target, of, Root)
       /\ \A j \in 1..m : EntryIs(t[n + 1 + j], dir \o K[j], of, K[j])
  BY <1>3, <1>5, <1>6, <1>8, <1>9
<1>11. QED
  BY <1>4, <1>8, <1>10 DEF PreparedAs

Arrived(table, of, paths) ==
  /\ Account(table, of, paths) /\ OnePerPath(table) /\ AllThere(table, of, paths)
  /\ paths \subseteq OwnTops \union {Root}

ListOf(K, some) ==
  /\ K \in Seq(Path)
  /\ \A i, j \in 1..Len(K) : K[i] = K[j] => i = j
  /\ \A j \in 1..Len(K) : K[j] \in some
  /\ \A p \in some : \E j \in 1..Len(K) : K[j] = p

LEMMA KeptAll ==
  ASSUME NEW s \in Seq(Path), IsInjective(s), NEW some \in SUBSET Range(s),
         NEW K, K = Kept(s, some)
  PROVE  ListOf(K, some)
<1>1. /\ K \in Seq(Path) /\ \A i, j \in 1..Len(K) : K[i] = K[j] => i = j
      /\ \A j \in 1..Len(K) : K[j] \in some
  BY KeptPaths
<1>2. KeptOf(K, s, some)
  BY KeptIs
<1>3. ASSUME NEW p \in some PROVE \E j \in 1..Len(K) : K[j] = p
  <2>1. PICK i \in 1..Len(s) : s[i] = p
    <3>1. DOMAIN s = 1..Len(s)
      OBVIOUS
    <3>2. QED
      BY <1>3, <3>1 DEF Range
  <2>2. QED
    BY <1>2, <2>1 DEF KeptOf
<1>4. QED
  BY <1>1, <1>3 DEF ListOf

(* The mounts waiting for the system are all below /target_tmp.            *)
AllWait(table) ==
  \A i \in 1..Len(table) : \A p \in Path :
    At(table[i].dir, p) /\ p # Root => table[i].dir = TargetTmp \o p

LEMMA OwnPrepared ==
  ASSUME NEW table \in Seq(Mounts), AtMenu(table), OwnMenu(table), NEW of \in Owners,
         NEW some \in SUBSET OwnTops, NEW K, ListOf(K, some),
         NEW dir \in {TargetTmp, Target}, NEW t, PreparedAs(t, table, K, of, dir)
  PROVE  Arrived(t, of, some \union {Root}) /\ (dir = TargetTmp => AllWait(t))
<1>1. PICK n \in Nat, m \in Nat : n = Len(table) /\ m = Len(K)
  BY DEF ListOf
<1>2. /\ Len(t) = n + 1 + m
      /\ \A i \in 1..n : t[i] = table[i]
      /\ EntryIs(t[n + 1], Target, of, Root)
      /\ \A j \in 1..m : EntryIs(t[n + 1 + j], dir \o K[j], of, K[j])
  BY <1>1 DEF PreparedAs
<1>3. /\ \A i, j \in 1..m : K[i] = K[j] => i = j
      /\ \A j \in 1..m : K[j] \in some
      /\ \A p \in some : \E j \in 1..m : K[j] = p
  BY <1>1 DEF ListOf
<1>4. \A p \in some : p \in Path /\ p # Root /\ p \notin FirstPaths
  BY OwnTopFacts
<1>5. Root \in Path /\ Root \notin FirstPaths /\ Target \o Root = Target
  BY RootFacts, FirstFacts DEF Root, Target
<1>6. At(t[n + 1].dir, Root)
  BY <1>2, <1>5 DEF EntryIs, At
<1>7. \A j \in 1..m : At(t[n + 1 + j].dir, K[j])
  BY <1>2, <1>3, <1>4 DEF EntryIs, At
<1>8. OnlyFirst(table) /\ OnePerPath(table)
  BY MenuEntries
<1>9. ASSUME NEW i \in 1..n + 1 + m, NEW p \in Path, At(t[i].dir, p)
      PROVE  \/ i \in 1..n /\ p \in FirstPaths /\ t[i] = table[i] /\ t[i].of = "first"
             \/ i = n + 1 /\ p = Root
             \/ \E j \in 1..m : i = n + 1 + j /\ p = K[j]
  <2>1. i \in 1..n \/ i = n + 1 \/ i - (n + 1) \in 1..m
    OBVIOUS
  <2>2. CASE i \in 1..n
    BY <1>1, <1>2, <1>8, <1>9, <2>2 DEF OnlyFirst
  <2>3. CASE i = n + 1
    BY <1>5, <1>6, <1>9, <2>3, AtOne
  <2>4. CASE i - (n + 1) \in 1..m
    <3>1. PICK j \in 1..m : j = i - (n + 1)
      BY <2>4
    <3>2. i = n + 1 + j
      BY <3>1
    <3>3. At(t[i].dir, K[j]) /\ K[j] \in Path
      BY <1>3, <1>4, <1>7, <3>2
    <3>4. p = K[j]
      BY <1>9, <3>3, AtOne
    <3>5. QED
      BY <3>2, <3>4
  <2>5. QED
    BY <2>1, <2>2, <2>3, <2>4
<1>10. Account(t, of, some \union {Root})
  <2>1. SUFFICES ASSUME NEW i \in 1..n + 1 + m, NEW p \in Path, At(t[i].dir, p)
                 PROVE  \/ t[i].of = "first" /\ p \in FirstPaths
                        \/ t[i].of = of /\ t[i].at = p /\ p \in some \union {Root}
    BY <1>2 DEF Account
  <2>2. CASE i \in 1..n /\ p \in FirstPaths /\ t[i] = table[i] /\ t[i].of = "first"
    BY <2>2
  <2>3. CASE i = n + 1 /\ p = Root
    BY <1>2, <2>3 DEF EntryIs
  <2>4. ASSUME NEW j \in 1..m, i = n + 1 + j, p = K[j]
        PROVE  t[i].of = of /\ t[i].at = p /\ p \in some
    BY <1>2, <1>3, <2>4 DEF EntryIs
  <2>5. QED
    BY <1>9, <2>1, <2>2, <2>3, <2>4
<1>11. OnePerPath(t)
  <2>1. SUFFICES ASSUME NEW i \in 1..n + 1 + m, NEW j \in 1..n + 1 + m, NEW p \in Path,
                        At(t[i].dir, p), At(t[j].dir, p)
                 PROVE  i = j
    BY <1>2 DEF OnePerPath
  <2>2. CASE p \in FirstPaths
    <3>1. i \in 1..n /\ j \in 1..n /\ t[i] = table[i] /\ t[j] = table[j]
      BY <1>3, <1>4, <1>5, <1>9, <2>1, <2>2
    <3>2. QED
      BY <1>1, <1>8, <2>1, <3>1 DEF OnePerPath
  <2>3. CASE p = Root
    <3>1. i = n + 1 /\ j = n + 1
      BY <1>3, <1>4, <1>5, <1>9, <2>1, <2>3
    <3>2. QED
      BY <3>1
  <2>4. CASE p \notin FirstPaths /\ p # Root
    <3>1. PICK k \in 1..m : i = n + 1 + k /\ p = K[k]
      BY <1>9, <2>1, <2>4
    <3>2. PICK l \in 1..m : j = n + 1 + l /\ p = K[l]
      BY <1>9, <2>1, <2>4
    <3>3. k = l
      BY <1>3, <3>1, <3>2
    <3>4. QED
      BY <3>1, <3>2, <3>3
  <2>5. QED
    BY <2>2, <2>3, <2>4
<1>12. AllThere(t, of, some \union {Root})
  <2>1. n + 1 \in 1..n + 1 + m /\ \A j \in 1..m : n + 1 + j \in 1..n + 1 + m
    OBVIOUS
  <2>2. ASSUME NEW p \in some
        PROVE  \E i \in 1..n + 1 + m : At(t[i].dir, p) /\ t[i].of = of /\ t[i].at = p
    <3>1. PICK j \in 1..m : K[j] = p
      BY <1>3, <2>2
    <3>2. At(t[n + 1 + j].dir, p) /\ t[n + 1 + j].of = of /\ t[n + 1 + j].at = p
      BY <1>2, <1>7, <3>1 DEF EntryIs
    <3>3. QED
      BY <2>1, <3>2
  <2>3. At(t[n + 1].dir, Root) /\ t[n + 1].of = of /\ t[n + 1].at = Root
    BY <1>2, <1>6 DEF EntryIs
  <2>4. QED
    BY <1>2, <2>1, <2>2, <2>3 DEF AllThere
<1>13. ASSUME dir = TargetTmp PROVE AllWait(t)
  <2>1. SUFFICES ASSUME NEW i \in 1..n + 1 + m, NEW p \in Path, At(t[i].dir, p), p # Root
                 PROVE  t[i].dir = TargetTmp \o p
    BY <1>2 DEF AllWait
  <2>2. CASE i \in 1..n /\ t[i] = table[i]
    <3>1. table[i].dir # Target \o p
      <4>1. ~Under(table[i].dir, Target)
        BY <1>1, <2>2 DEF OwnMenu
      <4>2. Under(Target \o p, Target)
        BY AtFacts
      <4>3. QED
        BY <4>1, <4>2
    <3>2. QED
      BY <2>1, <2>2, <3>1 DEF At
  <2>3. ASSUME NEW j \in 1..m, i = n + 1 + j, p = K[j] PROVE t[i].dir = TargetTmp \o p
    BY <1>2, <1>13, <2>3 DEF EntryIs
  <2>4. QED
    BY <1>9, <2>1, <2>2, <2>3
<1>14. QED
  BY <1>10, <1>11, <1>12, <1>13 DEF Arrived

(* What an umount leaves of them.                                          *)
LEMMA OwnKept ==
  ASSUME NEW table \in Seq(Mounts), NEW of, NEW paths, Arrived(table, of, paths),
         NEW left \in SUBSET paths, NEW set, NEW K, K = Kept(table, set),
         \A i \in 1..Len(table) : \A p \in paths :
           At(table[i].dir, p) /\ table[i].of = of => (table[i] \in set <=> p \in left)
  PROVE  Arrived(K, of, left)
<1>1. KeptOf(K, table, set)
  BY KeptIs
<1>2. PICK n \in Nat, m \in Nat : n = Len(table) /\ m = Len(K)
  <2>1. K \in Seq(Mounts)
    BY KeptFacts
  <2>2. QED
    BY <2>1
<1>3. PICK at \in [1..m -> 1..n] :
        /\ \A k \in 1..m : K[k] = table[at[k]] /\ K[k] \in set
        /\ \A k \in 1..m : \A j \in 1..k - 1 : at[j] < at[k]
        /\ \A i \in 1..n : table[i] \in set => \E k \in 1..m : at[k] = i
  BY <1>1, <1>2 DEF KeptOf
<1>4. Account(K, of, left)
  <2>1. SUFFICES ASSUME NEW k \in 1..m, NEW p \in Path, At(K[k].dir, p)
                 PROVE  \/ K[k].of = "first" /\ p \in FirstPaths
                        \/ K[k].of = of /\ K[k].at = p /\ p \in left
    BY <1>2 DEF Account
  <2>2. PICK i \in 1..n : i = at[k] /\ K[k] = table[i] /\ table[i] \in set
    BY <1>3
  <2>3. \/ table[i].of = "first" /\ p \in FirstPaths
        \/ table[i].of = of /\ table[i].at = p /\ p \in paths
    BY <1>2, <2>1, <2>2 DEF Arrived, Account
  <2>4. p \in paths /\ table[i].of = of => p \in left
    BY <1>2, <2>1, <2>2
  <2>5. QED
    BY <2>2, <2>3, <2>4
<1>5. OnePerPath(K)
  <2>1. SUFFICES ASSUME NEW k \in 1..m, NEW l \in 1..m, NEW p \in Path,
                        At(K[k].dir, p), At(K[l].dir, p)
                 PROVE  k = l
    BY <1>2 DEF OnePerPath
  <2>2. at[k] = at[l]
    <3>1. PICK i \in 1..n, j \in 1..n : i = at[k] /\ j = at[l]
      BY <1>3
    <3>2. At(table[i].dir, p) /\ At(table[j].dir, p)
      BY <1>3, <2>1, <3>1
    <3>3. i = j
      BY <1>2, <3>2 DEF Arrived, OnePerPath
    <3>4. QED
      BY <3>1, <3>3
  <2>3. at[k] \in Nat
    BY <1>3
  <2>4. k < l => at[k] < at[l]
    BY <1>3
  <2>5. l < k => at[l] < at[k]
    BY <1>3
  <2>6. QED
    BY <2>2, <2>3, <2>4, <2>5
<1>6. AllThere(K, of, left)
  <2>1. SUFFICES ASSUME NEW p \in left
                 PROVE  \E k \in 1..m : At(K[k].dir, p) /\ K[k].of = of /\ K[k].at = p
    BY <1>2 DEF AllThere
  <2>2. PICK i \in 1..n : At(table[i].dir, p) /\ table[i].of = of /\ table[i].at = p
    BY <1>2, <2>1 DEF Arrived, AllThere
  <2>3. table[i] \in set
    BY <1>2, <2>1, <2>2
  <2>4. PICK k \in 1..m : at[k] = i
    BY <1>3, <2>3
  <2>5. K[k] = table[i]
    BY <1>3, <2>4
  <2>6. QED
    BY <2>2, <2>5
<1>7. QED
  BY <1>4, <1>5, <1>6 DEF Arrived

(* Then move_mount_tree is called.                                         *)
LEMMA OwnStarts ==
  ASSUME NEW table \in Seq(Mounts), NEW of, NEW paths, Arrived(table, of, paths),
         NEW L, L = GetMountsToMove(TargetTmp, Target, table)
  PROVE  OwnReady(table, L, of, paths)
<1>1. ASSUME NEW p \in paths \ {Root}, NEW i \in 1..Len(table), table[i].dir = TargetTmp \o p
      PROVE  Listed(L, TargetTmp \o p)
  <2>1. p \in Path /\ Len(p) = 1
    BY <1>1, OwnTopFacts DEF Arrived
  <2>2. PICK a : a = TargetTmp \o p
    OBVIOUS
  <2>3. QED
    BY <1>1, <2>1, <2>2, ListsTop
<1>2. QED
  BY <1>1 DEF OwnReady, Arrived, StillListed

(* A mount of the first stage goes with one at the top.                    *)
LEMMA FirstTop ==
  ASSUME NEW p \in FirstPaths
  PROVE  \E q \in FirstPaths : TopOf(p, q)
<1>1. p \in Path
  BY FirstFacts
<1>2. PICK j \in DOMAIN FirstStage : p = FirstStage[j]
  BY DEF FirstPaths, Range
<1>3. CASE Len(p) = 1
  <2>1. Under(p, p)
    BY <1>1, UnderOrder
  <2>2. QED
    BY <1>3, <2>1 DEF TopOf
<1>4. CASE \E q \in Always : Len(q) = 1 /\ Under(p, q)
  <2>1. Always \subseteq FirstPaths
    BY MountsAssumption DEF FirstPaths
  <2>2. QED
    BY <1>4, <2>1 DEF TopOf
<1>5. QED
  BY <1>2, <1>3, <1>4, DeliveryAssumption

(* Nothing is mounted within a partition.                                  *)
LEMMA NothingWithin ==
  ASSUME NEW r \in FirstPaths \union OwnTops \union {Root}, NEW p \in OwnTops, Under(r, p)
  PROVE  r = p
<1>1. p \in Path /\ p # Root /\ Len(p) = 1 /\ p \notin FirstPaths
  BY OwnTopFacts
<1>2. CASE r \in FirstPaths
  <2>1. PICK q \in FirstPaths : TopOf(r, q)
    BY <1>2, FirstTop
  <2>2. /\ r \in Path /\ q \in Path /\ q # Root /\ Len(q) = 1 /\ Under(r, q)
    BY <1>2, <2>1, FirstFacts DEF TopOf
  <2>3. Under(p, q) \/ Under(q, p)
    BY <1>1, <2>2, UnderOrder
  <2>4. p = q
    BY <1>1, <2>2, <2>3, OneName
  <2>5. QED
    BY <1>1, <2>1, <2>4
<1>3. CASE r \in OwnTops
  <2>1. r \in Path /\ Len(r) = 1
    BY <1>3, OwnTopFacts
  <2>2. QED
    BY <1>1, <2>1, OneName
<1>4. CASE r = Root
  <2>1. Root \in Path /\ Under(p, Root)
    BY <1>1, RootFacts, UnderOrder
  <2>2. p = Root
    BY <1>1, <1>4, <2>1, UnderOrder
  <2>3. QED
    BY <1>1, <2>2
<1>5. QED
  BY <1>2, <1>3, <1>4

Skipped(skip) == {SkipMountDir(p) : p \in skip}

(* skip_mount.cfg takes the partitions it names out of the system, and     *)
(* nothing else of the system.                                             *)
LEMMA OwnSkipped ==
  ASSUME NEW table \in Seq(Mounts), NEW of, NEW paths, Arrived(table, of, paths), AllWait(table),
         NEW skip \in SUBSET (FirstPaths \union OtherPaths),
         NEW gone, gone = Umounted(table, Skipped(skip)),
         NEW i \in 1..Len(table), NEW p \in paths, At(table[i].dir, p)
  PROVE  table[i].dir \notin gone <=> p \in (paths \ skip) \union {Root}
<1>1. /\ TargetTmp \in OwnDirs /\ Target \in OwnDirs /\ TargetTmp \in Path /\ Root \in Path
      /\ p \in Path
  BY OwnFacts, RootFacts, OwnTopFacts DEF OwnDirs, Arrived
<1>2. \A s \in skip : s \in Path /\ s # Root
  BY FirstFacts
<1>3. \A d \in gone : \E s \in skip : d = TargetTmp \o s
  BY DEF Umounted, Skipped, SkipMountDir
<1>4. ASSUME NEW s \in skip, table[i].dir = TargetTmp \o s PROVE p = s
  <2>1. At(table[i].dir, s)
    BY <1>2, <1>4 DEF At
  <2>2. QED
    BY <1>1, <1>2, <2>1, AtOne
<1>5. ASSUME p \in skip PROVE table[i].dir \in gone
  <2>1. p # Root /\ p \in OwnTops
    BY <1>2, <1>5 DEF Arrived
  <2>2. table[i].dir = TargetTmp \o p
    BY <1>1, <2>1 DEF AllWait
  <2>3. DOMAIN table = 1..Len(table)
    OBVIOUS
  <2>4. ASSUME NEW m \in Range(table), Below(m.dir, TargetTmp \o p) PROVE FALSE
    <3>1. PICK j \in 1..Len(table) : m = table[j]
      BY <2>3 DEF Range
    <3>2. PICK a \in Path, b \in Path : a = TargetTmp \o p /\ b = m.dir
      <4>1. TargetTmp \o p \in Path
        BY <1>1, AtFacts
      <4>2. QED
        BY <3>1, <4>1, TableFacts
    <3>3. Under(b, a) /\ b # a
      BY <2>4, <3>2, UnderOrder
    <3>4. Below(a, TargetTmp) /\ Under(a, TargetTmp)
      BY <1>1, <2>1, <3>2, AtFacts
    <3>5. Under(b, TargetTmp)
      BY <1>1, <3>3, <3>4, UnderOrder
    <3>6. b # TargetTmp
      BY <1>1, <3>3, <3>4, UnderOrder
    <3>7. PICK r \in Path : b = TargetTmp \o r /\ r # Root
      BY <1>1, <3>5, <3>6, AtSome, UnderOrder
    <3>8. Under(r, p)
      BY <1>1, <3>2, <3>3, <3>7, JoinEqual
    <3>9. At(m.dir, r)
      BY <3>2, <3>7 DEF At
    <3>10. r \in FirstPaths \union OwnTops \union {Root}
      BY <3>1, <3>9 DEF Arrived, Account
    <3>11. r = p
      BY <2>1, <3>8, <3>10, NothingWithin
    <3>12. QED
      BY <3>2, <3>3, <3>7, <3>11
  <2>5. table[i] \in Range(table)
    BY <2>3 DEF Range
  <2>6. QED
    BY <1>5, <2>2, <2>4, <2>5 DEF Umounted, Skipped, SkipMountDir
<1>6. QED
  <2>1. table[i].dir \in gone => p \in skip
    BY <1>3, <1>4
  <2>2. p = Root => p \notin skip
    BY <1>2
  <2>3. QED
    BY <1>5, <2>1, <2>2

(* What the system sees once it is the root.                               *)
Shown(table) == {i \in DOMAIN table : ~Under(table[i].dir, DebugRamdisk)}
Seen(table)  == {table[i] : i \in {i \in Shown(table) : table[i].of # "first"}}

OverrideMounts == {Mount(p, "override", p) : p \in Range(Overridden)}
Found(table, of, paths) ==
  /\ \A i, j \in Shown(table) : table[i].dir = table[j].dir => i = j
  /\ {Mount(p, of, p) : p \in paths} \subseteq Seen(table)
  /\ Seen(table) \subseteq {Mount(p, of, p) : p \in paths}
                             \union (IF of = "image" THEN OverrideMounts ELSE {})

LEMMA OverriddenFacts ==
  ASSUME NEW o \in Range(Overridden)
  PROVE  o \in Path /\ o \notin FirstPaths \union OwnTops \union {Root}
<1>1. o \in Path
  BY OverridesAssumption DEF Range
<1>2. o # Root /\ o # Product
  BY OverridesAssumption DEF Product
<1>3. ASSUME NEW p \in FirstPaths \union OtherPaths PROVE p # o
  <2>1. ~Under(p, o)
    BY OverridesAssumption DEF FirstPaths, OtherPaths
  <2>2. p \in Path /\ Under(p, p)
    BY FirstFacts, UnderOrder
  <2>3. QED
    BY <2>1, <2>2
<1>4. QED
  BY <1>1, <1>2, <1>3 DEF OwnTops

(* What a mount of the joined table is that the system sees: where it is   *)
(* expected, of the table, or an override of a file.                       *)
Entry(i, p, table, of, paths, E, t) ==
  \/ /\ i \in 1..Len(table) /\ t[i] = table[i] /\ At(table[i].dir, p)
     /\ p \in FirstPaths \union OwnTops \union {Root}
     /\ t[i].of = "first" \/ (t[i].of = of /\ t[i].at = p /\ p \in paths)
  \/ /\ i - Len(table) \in 1..Len(E) /\ t[i] = E[i - Len(table)]
     /\ t[i].of = "override" /\ t[i].at = p /\ p \in Range(Overridden)

LEMMA BootEntries ==
  ASSUME NEW table \in Seq(Mounts), NEW of, NEW paths, OwnReady(table, <<>>, of, paths),
         NEW E, OverridesAs(E), NEW t, JoinedAs(t, table, E),
         NEW i \in 1..Len(t), NEW p \in Path, t[i].dir = Target \o p
  PROVE  Entry(i, p, table, of, paths, E, t)
<1>1. Target \in OwnDirs /\ Target \in Path
  BY OwnFacts DEF OwnDirs
<1>2. CASE i \in 1..Len(table) /\ t[i] = table[i]
  <2>1. At(table[i].dir, p)
    BY <1>2 DEF At
  <2>2. \/ table[i].of = "first" /\ p \in FirstPaths
        \/ table[i].of = of /\ table[i].at = p /\ p \in paths
    BY <1>2, <2>1 DEF OwnReady, Account
  <2>3. p \in FirstPaths \union OwnTops \union {Root}
    BY <2>2 DEF OwnReady
  <2>4. QED
    BY <1>2, <2>1, <2>2, <2>3 DEF Entry
<1>3. CASE i - Len(table) \in 1..Len(E) /\ t[i] = E[i - Len(table)]
  <2>1. PICK k \in 1..Len(E) : k = i - Len(table) /\ t[i] = E[k]
    BY <1>3
  <2>2. Under(E[k].dir, Target)
    BY <1>1, <2>1, PlaceFacts
  <2>3. E[k].of = "override" /\ E[k].at \in Range(Overridden) /\ E[k].dir = Target \o E[k].at
    BY <2>2 DEF OverridesAs
  <2>4. E[k].at = p
    BY <1>1, <2>1, <2>3, OverriddenFacts, PlaceFacts
  <2>5. QED
    BY <1>3, <2>1, <2>3, <2>4 DEF Entry
<1>4. QED
  BY <1>2, <1>3 DEF JoinedAs

LEMMA OwnFound ==
  ASSUME NEW table \in Seq(Mounts), NEW of \in {"internal", "image"}, NEW paths,
         OwnReady(table, <<>>, of, paths),
         NEW E, OverridesAs(E), Len(E) # 0 => of = "image",
         NEW t, JoinedAs(t, table, E),
         NEW P, PivotedAs(P, t, Target, DebugRamdisk)
  PROVE  Found(P, of, paths)
<1>1. /\ Target \in OwnDirs /\ DebugRamdisk \in OwnDirs /\ Target \in Path /\ DebugRamdisk \in Path
      /\ Root \in Path
  BY OwnFacts, RootFacts DEF OwnDirs
<1>2. PICK n \in Nat, m \in Nat : n = Len(t) /\ m = Len(table)
  BY DEF JoinedAs
<1>3. P \in Seq(Mounts) /\ DOMAIN P = 1..n /\ Len(P) = n
      /\ \A i \in 1..n : /\ P[i].of = t[i].of /\ P[i].at = t[i].at
                         /\ \A p \in Path : t[i].dir = Target \o p => P[i].dir = p
                         /\ ~Under(t[i].dir, Target) => P[i].dir = DebugRamdisk \o t[i].dir
  BY <1>2 DEF PivotedAs
<1>4. \A i \in 1..n : t[i].dir \in Path /\ P[i] \in Mounts
  <2>1. t \in Seq(Mounts)
    BY DEF JoinedAs
  <2>2. QED
    BY <1>2, <1>3, <2>1, TableFacts
<1>5. \A p \in paths : p \in Path /\ p \in OwnTops \union {Root}
  BY <1>1, OwnTopFacts DEF OwnReady
<1>6. \A p \in OwnTops \union {Root} : ~Under(p, DebugRamdisk)
  BY <1>1, OwnTopFacts, OwnFacts
<1>7. ASSUME NEW i \in Shown(P)
      PROVE  i \in 1..n /\ P[i].dir \in Path /\ t[i].dir = Target \o P[i].dir
  <2>1. i \in 1..n /\ ~Under(P[i].dir, DebugRamdisk)
    BY <1>3 DEF Shown
  <2>2. PICK q \in Path : q = t[i].dir
    BY <1>4, <2>1
  <2>3. Under(q, Target)
    <3>1. SUFFICES ASSUME ~Under(q, Target) PROVE FALSE
      OBVIOUS
    <3>2. P[i].dir = DebugRamdisk \o q
      BY <1>3, <2>1, <2>2, <3>1
    <3>3. Under(DebugRamdisk \o q, DebugRamdisk)
      BY <1>1, PlaceFacts
    <3>4. QED
      BY <2>1, <3>2, <3>3
  <2>4. PICK p \in Path : q = Target \o p
    BY <2>3, AtSome
  <2>5. P[i].dir = p
    BY <1>3, <2>1, <2>2, <2>4
  <2>6. QED
    BY <2>1, <2>2, <2>4, <2>5
<1>8. ASSUME NEW i \in Shown(P), NEW j \in Shown(P), P[i].dir = P[j].dir PROVE i = j
  <2>1. i \in 1..n /\ j \in 1..n
    BY <1>7
  <2>2. PICK p \in Path : p = P[i].dir /\ t[i].dir = Target \o p /\ t[j].dir = Target \o p
    BY <1>7, <1>8
  <2>3. Entry(i, p, table, of, paths, E, t)
    BY <1>2, <2>1, <2>2, BootEntries
  <2>4. Entry(j, p, table, of, paths, E, t)
    BY <1>2, <2>1, <2>2, BootEntries
  <2>5. CASE p \in Range(Overridden)
    <3>1. p \notin FirstPaths \union OwnTops \union {Root}
      BY <2>5, OverriddenFacts
    <3>2. /\ i - m \in 1..Len(E) /\ E[i - m].of = "override" /\ E[i - m].at = p
          /\ j - m \in 1..Len(E) /\ E[j - m].of = "override" /\ E[j - m].at = p
      BY <1>2, <2>3, <2>4, <3>1 DEF Entry
    <3>3. i - m = j - m
      BY <3>2 DEF OverridesAs
    <3>4. QED
      BY <1>2, <2>1, <3>3
  <2>6. CASE p \notin Range(Overridden)
    <3>1. /\ i \in 1..m /\ At(table[i].dir, p) /\ j \in 1..m /\ At(table[j].dir, p)
      BY <1>2, <2>3, <2>4, <2>6 DEF Entry
    <3>2. QED
      BY <1>2, <3>1 DEF OwnReady, OnePerPath
  <2>7. QED
    BY <2>5, <2>6
<1>9. \A m1 \in Mounts : m1 = Mount(m1.dir, m1.of, m1.at)
  BY DEF Mounts, Mount
<1>10. ASSUME NEW i \in Shown(P), P[i].of # "first"
       PROVE  \/ \E p \in paths : P[i] = Mount(p, of, p)
              \/ of = "image" /\ P[i] \in OverrideMounts
  <2>1. i \in 1..n /\ P[i] \in Mounts
    BY <1>4, <1>7
  <2>2. PICK p \in Path : p = P[i].dir /\ t[i].dir = Target \o p
    BY <1>7
  <2>3. P[i].of = t[i].of /\ P[i].at = t[i].at
    BY <1>3, <2>1
  <2>4. \/ t[i].of = "first" \/ (t[i].of = of /\ t[i].at = p /\ p \in paths)
        \/ /\ i - m \in 1..Len(E)
           /\ t[i].of = "override" /\ t[i].at = p /\ p \in Range(Overridden)
    <3>1. Entry(i, p, table, of, paths, E, t)
      BY <1>2, <2>1, <2>2, BootEntries
    <3>2. QED
      BY <1>2, <3>1 DEF Entry
  <2>5. P[i] = Mount(p, P[i].of, P[i].at)
    BY <1>9, <2>1, <2>2
  <2>6. CASE t[i].of = of /\ t[i].at = p /\ p \in paths
    BY <2>3, <2>5, <2>6
  <2>7. CASE /\ i - m \in 1..Len(E)
             /\ t[i].of = "override" /\ t[i].at = p /\ p \in Range(Overridden)
    <3>1. Len(E) # 0
      <4>1. E \in Seq(Mounts)
        BY DEF OverridesAs
      <4>2. QED
        BY <2>7, <4>1
    <3>2. P[i] = Mount(p, "override", p)
      BY <2>3, <2>5, <2>7
    <3>3. QED
      BY <2>7, <3>1, <3>2 DEF OverrideMounts
  <2>8. QED
    BY <1>10, <2>3, <2>4, <2>6, <2>7
<1>11. ASSUME NEW p \in paths
       PROVE  \E i \in Shown(P) : P[i].of # "first" /\ P[i] = Mount(p, of, p)
  <2>1. PICK i \in 1..m : At(table[i].dir, p) /\ table[i].of = of /\ table[i].at = p
    BY <1>2 DEF OwnReady, AllThere
  <2>2. table[i].dir = Target \o p
    <3>1. SUFFICES ASSUME table[i].dir = TargetTmp \o p, p # Root PROVE FALSE
      BY <2>1 DEF At
    <3>2. Listed(<<>>, TargetTmp \o p)
      BY <1>2, <3>1 DEF OwnReady, StillListed
    <3>3. QED
      BY <3>2 DEF Listed
  <2>3. i \in 1..n /\ t[i] = table[i]
    BY <1>2 DEF JoinedAs
  <2>4. P[i].dir = p /\ P[i].of = of /\ P[i].at = p
    BY <1>3, <1>5, <2>1, <2>2, <2>3
  <2>5. ~Under(P[i].dir, DebugRamdisk)
    BY <1>5, <1>6, <2>4
  <2>6. i \in Shown(P)
    BY <1>3, <2>3, <2>5 DEF Shown
  <2>7. P[i] = Mount(P[i].dir, P[i].of, P[i].at)
    BY <1>4, <1>9, <2>3
  <2>8. P[i] = Mount(p, of, p) /\ P[i].of # "first"
    BY <2>4, <2>7
  <2>9. QED
    BY <2>6, <2>8
<1>12. {Mount(p, of, p) : p \in paths} \subseteq Seen(P)
  <2>1. SUFFICES ASSUME NEW p \in paths PROVE Mount(p, of, p) \in Seen(P)
    OBVIOUS
  <2>2. PICK i \in Shown(P) : P[i].of # "first" /\ P[i] = Mount(p, of, p)
    BY <1>11
  <2>3. QED
    BY <2>2 DEF Seen
<1>13. Seen(P) \subseteq {Mount(p, of, p) : p \in paths}
                           \union (IF of = "image" THEN OverrideMounts ELSE {})
  BY <1>10 DEF Seen
<1>14. QED
  BY <1>8, <1>12, <1>13 DEF Found

(* The invariant: whose mounts are where before the target is prepared,    *)
(* and then that everything of the system is there or on its way.          *)
OwnPaths == (parts \ dropped) \union {Root}

BeforeTarget ==
  /\ pc = "start" => OwnedAt(tree, Others, {Root})
  /\ pc = "ramdisk" => OwnedAt(tree, Others, {Root, Ramdisk})
  /\ pc = "entered" => OwnedAt(tree, Others, {Root} \union {q \in Path : Under(q, OldRoot)})
  /\ pc = "target_tmp" => OwnedAt(tree, Others, {Root, TargetTmp})
  /\ pc = "menu" => OwnMenu(tree)
  /\ pc \notin {"target", "booted"} => dropped = {}

OwnInv ==
  /\ BeforeTarget
  /\ pc = "target" => \E of \in {"internal", "image"} : OwnReady(tree, todo, of, OwnPaths)
  /\ TargetFindsItsOwn

LEMMA OwnInit ==
  ASSUME Init
  PROVE  OwnInv
<1>1. OwnedAt(tree, Others, {Root})
  BY MountsInit
<1>2. pc = "start" /\ dropped = {}
  BY DEF Init
<1>3. QED
  BY <1>1, <1>2 DEF OwnInv, BeforeTarget, TargetFindsItsOwn

LEMMA OwnCopy ==
  ASSUME MountsInv, OwnInv, CopyToRamdisk
  PROVE  OwnInv'
<1>1. pc = "start" /\ pc' = "ramdisk" /\ UNCHANGED <<parts, dropped>>
  BY DEF CopyToRamdisk, CallMove
<1>2. PICK one, t : one = <<Mount(Ramdisk, "paralloid", Ramdisk)>> /\ t = tree'
  OBVIOUS
<1>3. Ramdisk \in Path /\ "paralloid" \in Owners /\ tree \in Seq(Mounts)
  BY OwnFacts DEF OwnDirs, Owners, MountsInv, Typed
<1>4. /\ one \in Seq(Mounts) /\ Len(one) = 1 /\ one[1].dir = Ramdisk
      /\ Append(tree, Mount(Ramdisk, "paralloid", Ramdisk)) = tree \o one
  BY <1>2, <1>3, OneMount
<1>5. t = tree \o one
  BY <1>2, <1>4 DEF CopyToRamdisk, CallMove
<1>6. OwnedAt(tree, Others, {Root, Ramdisk}) /\ dropped = {}
  BY <1>1 DEF OwnInv, BeforeTarget, OwnedAt
<1>7. OwnedAt(t, Others, {Root, Ramdisk})
  <2>1. \A j \in 1..Len(one) : one[j].dir \in {Root, Ramdisk}
    BY <1>4
  <2>2. QED
    BY <1>3, <1>4, <1>5, <1>6, <2>1, OwnedJoined
<1>8. QED
  BY <1>1, <1>2, <1>6, <1>7 DEF OwnInv, BeforeTarget, TargetFindsItsOwn

LEMMA OwnEnter ==
  ASSUME MountsInv, OwnInv, EnterRamdisk
  PROVE  OwnInv'
<1>1. pc = "ramdisk" /\ pc' = "entered" /\ UNCHANGED <<parts, dropped>>
      /\ tree' = Pivoted(tree, Ramdisk, OldRoot)
  BY DEF EnterRamdisk, MovesDone
<1>2. PICK P : P = tree'
  OBVIOUS
<1>3. /\ tree \in Seq(Mounts) /\ Ramdisk \in OwnDirs /\ OldRoot \in OwnDirs
      /\ Ramdisk \in Path /\ OldRoot \in Path /\ Root \in Path
  BY OwnFacts, RootFacts DEF OwnDirs, MountsInv, Typed
<1>4. PivotedAs(P, tree, Ramdisk, OldRoot)
  BY <1>1, <1>2, <1>3, PivotedFacts
<1>5. OwnedAt(tree, Others, {Root, Ramdisk}) /\ dropped = {}
  BY <1>1 DEF OwnInv, BeforeTarget
<1>6. PICK dirs : dirs = {Root} \union {q \in Path : Under(q, OldRoot)}
  OBVIOUS
<1>7. OwnedAt(P, Others, dirs)
  <2>1. SUFFICES ASSUME NEW i \in 1..Len(P), P[i].of \in Others PROVE P[i].dir \in dirs
    BY DEF OwnedAt
  <2>2. /\ Len(P) = Len(tree) /\ P[i].of = tree[i].of
        /\ \A p \in Path : tree[i].dir = Ramdisk \o p => P[i].dir = p
        /\ (~Under(tree[i].dir, Ramdisk) => P[i].dir = OldRoot \o tree[i].dir)
    BY <1>4 DEF PivotedAs
  <2>3. tree[i].dir \in {Root, Ramdisk}
    BY <1>5, <2>1, <2>2 DEF OwnedAt
  <2>4. CASE tree[i].dir = Root
    <3>1. ~Under(Root, Ramdisk)
      BY <1>3, OwnFacts
    <3>2. P[i].dir = OldRoot \o Root
      BY <2>2, <2>4, <3>1
    <3>3. OldRoot \o Root \in Path /\ Under(OldRoot \o Root, OldRoot)
      BY <1>3, PlaceFacts
    <3>4. QED
      BY <1>6, <3>2, <3>3
  <2>5. CASE tree[i].dir = Ramdisk
    <3>1. Ramdisk = Ramdisk \o Root
      BY DEF Root, Ramdisk
    <3>2. P[i].dir = Root
      BY <1>3, <2>2, <2>5, <3>1
    <3>3. QED
      BY <1>6, <3>2
  <2>6. QED
    BY <2>3, <2>4, <2>5
<1>8. QED
  BY <1>1, <1>2, <1>5, <1>6, <1>7 DEF OwnInv, BeforeTarget, TargetFindsItsOwn

LEMMA OwnFree ==
  ASSUME MountsInv, OwnInv, FreeSystem
  PROVE  OwnInv'
<1>1. pc = "entered" /\ pc' = "target_tmp" /\ UNCHANGED <<parts, dropped>>
  BY DEF FreeSystem, CallMove
<1>2. PICK one, set, K, t :
        /\ one = <<Mount(TargetTmp, "paralloid", TargetTmp)>> /\ t = tree'
        /\ set = {m \in Range(tree) : ~Under(m.dir, OldRoot)} /\ K = Kept(tree, set)
  OBVIOUS
<1>3. TargetTmp \in Path /\ "paralloid" \in Owners /\ tree \in Seq(Mounts)
  BY OwnFacts DEF OwnDirs, Owners, MountsInv, Typed
<1>4. /\ OwnedAt(tree, Others, {Root} \union {q \in Path : Under(q, OldRoot)})
      /\ dropped = {}
  BY <1>1 DEF OwnInv, BeforeTarget
<1>5. K \in Seq(Mounts)
  BY <1>2, <1>3, KeptFacts
<1>6. KeptOf(K, tree, set)
  BY <1>2, <1>3, KeptIs
<1>7. OwnedAt(K, Others, {Root, TargetTmp})
  <2>1. SUFFICES ASSUME NEW k \in 1..Len(K), K[k].of \in Others PROVE K[k].dir = Root
    BY DEF OwnedAt
  <2>2. PICK i \in 1..Len(tree) : K[k] = tree[i] /\ K[k] \in set
    BY <1>6 DEF KeptOf
  <2>3. ~Under(K[k].dir, OldRoot)
    BY <1>2, <2>2
  <2>4. QED
    BY <1>4, <2>1, <2>2, <2>3 DEF OwnedAt
<1>8. /\ one \in Seq(Mounts) /\ Len(one) = 1 /\ one[1].dir = TargetTmp
      /\ Append(K, Mount(TargetTmp, "paralloid", TargetTmp)) = K \o one
  BY <1>2, <1>3, <1>5, OneMount
<1>9. t = K \o one
  BY <1>2, <1>8 DEF FreeSystem, CallMove, RecursiveUmount
<1>10. OwnedAt(t, Others, {Root, TargetTmp})
  <2>1. \A j \in 1..Len(one) : one[j].dir \in {Root, TargetTmp}
    BY <1>8
  <2>2. QED
    BY <1>5, <1>7, <1>8, <1>9, <2>1, OwnedJoined
<1>11. QED
  BY <1>1, <1>2, <1>4, <1>10 DEF OwnInv, BeforeTarget, TargetFindsItsOwn

LEMMA OwnRemount ==
  ASSUME MountsInv, OwnInv, RemountOwn
  PROVE  OwnInv'
<1>1. pc = "target_tmp" /\ pc' = "menu" /\ UNCHANGED <<parts, dropped>> /\ tree' = tree \o OwnMounts
  BY DEF RemountOwn, MovesDone
<1>2. PICK own, t : own = OwnMounts /\ t = tree'
  OBVIOUS
<1>3. /\ own \in Seq(Mounts) /\ t = tree \o own
      /\ \A j \in 1..Len(own) : ~Under(own[j].dir, TargetTmp) /\ ~Under(own[j].dir, Target)
  BY <1>1, <1>2, OwnMountsFacts
<1>4. /\ tree \in Seq(Mounts) /\ InPlace(tree, TargetTmp)
      /\ OwnedAt(tree, Others, {Root, TargetTmp}) /\ dropped = {}
  BY <1>1 DEF MountsInv, Typed, Journey, Phase, OwnInv, BeforeTarget
<1>5. /\ TargetTmp \in OwnDirs /\ Target \in OwnDirs /\ TargetTmp \in Path /\ Root \in Path
      /\ ~Under(Root, TargetTmp)
  BY OwnFacts, RootFacts DEF OwnDirs
<1>6. \A q \in Path : Below(q, TargetTmp) <=> Under(q, TargetTmp) /\ q # TargetTmp
  BY <1>5, UnderOrder
<1>7. PICK dirs : dirs = {q \in Path : ~Below(q, TargetTmp)}
  OBVIOUS
<1>8. OwnedAt(t, Others, dirs)
  <2>1. Root \in dirs /\ TargetTmp \in dirs
    BY <1>5, <1>6, <1>7
  <2>2. OwnedAt(tree, Others, dirs)
    BY <1>4, <2>1 DEF OwnedAt
  <2>3. \A j \in 1..Len(own) : own[j].dir \in dirs
    BY <1>3, <1>6, <1>7, TableFacts
  <2>4. QED
    BY <1>3, <1>4, <2>2, <2>3, OwnedJoined
<1>9. ASSUME NEW i \in 1..Len(t), Under(t[i].dir, Target) PROVE FALSE
  <2>1. (i \in 1..Len(tree) /\ t[i] = tree[i]) \/
        (i - Len(tree) \in 1..Len(own) /\ t[i] = own[i - Len(tree)])
    BY <1>3, <1>4, JoinedMounts DEF JoinedAs
  <2>2. CASE i \in 1..Len(tree) /\ t[i] = tree[i]
    <3>1. tree[i].dir \in Places \/ \E p \in Places : tree[i].dir = TargetTmp \o p
      BY <1>4, <2>2 DEF InPlace
    <3>2. \A p \in Places : p \in Path /\ ~Under(p, Target)
      BY <1>5, PlaceFacts
    <3>3. \A p \in Places : ~Under(TargetTmp \o p, Target)
      BY <3>2, AtFacts
    <3>4. QED
      BY <1>9, <2>2, <3>1, <3>2, <3>3
  <2>3. CASE i - Len(tree) \in 1..Len(own) /\ t[i] = own[i - Len(tree)]
    BY <1>3, <1>9, <2>3
  <2>4. QED
    BY <2>1, <2>2, <2>3
<1>10. OwnMenu(t)
  BY <1>7, <1>8, <1>9 DEF OwnMenu
<1>11. QED
  BY <1>1, <1>2, <1>4, <1>10 DEF OwnInv, BeforeTarget, TargetFindsItsOwn

(* The target is prepared: an image, or the internal system.               *)
LEMMA OwnImage ==
  ASSUME MountsInv, OwnInv, TargetImage
  PROVE  OwnInv'
<1>1. pc = "menu" /\ pc' = "target" /\ UNCHANGED dropped
  BY DEF TargetImage, CallMove
<1>2. PICK some, t :
        /\ some \subseteq {<<"product">>} \cap TargetDirs
        /\ t = Append(tree, Mount(Target, "image", Root))
                 \o MountsOf(Kept(<< <<"product">> >>, some), "image", Target)
        /\ CallMove("target", t) /\ parts' = some
  BY DEF TargetImage
<1>3. PICK L : L = GetMountsToMove(TargetTmp, Target, t) /\ tree' = t /\ todo' = L
  BY <1>2, MoveArguments DEF CallMove
<1>4. tree \in Seq(Mounts) /\ AtMenu(tree) /\ OwnMenu(tree) /\ dropped = {}
  BY <1>1 DEF MountsInv, Typed, Journey, OwnInv, BeforeTarget
<1>5. PICK of, list, K : of \in Owners /\ of = "image" /\ list = <<Product>> /\ K = Kept(list, some)
  BY DEF Owners
<1>6. some \in SUBSET OwnTops /\ some \subseteq {Product}
  BY <1>2 DEF OwnTops, Product
<1>7. list \in Seq(Path) /\ IsInjective(list) /\ some \in SUBSET Range(list)
  <2>1. \A a \in Names : <<a>> \in Seq(Names)
    OBVIOUS
  <2>2. PICK p \in Path : p = Product
    BY <2>1, MountsAssumption DEF Path, Product
  <2>3. list = <<p>>
    BY <1>5, <2>2
  <2>4. list \in Seq(Path) /\ DOMAIN list = 1..1 /\ list[1] = Product
    BY <2>2, <2>3
  <2>5. IsInjective(list)
    BY <2>4 DEF IsInjective
  <2>6. Product \in Range(list)
    BY <2>4 DEF Range
  <2>7. QED
    BY <1>6, <2>4, <2>5, <2>6
<1>8. ListOf(K, some)
  BY <1>5, <1>7, KeptAll
<1>9. K \in Seq(Path) /\ Target \in Path
  BY <1>8, OwnFacts DEF ListOf, OwnDirs
<1>10. t = Append(tree, Mount(Target, of, Root)) \o MountsOf(K, of, Target)
  BY <1>2, <1>5 DEF Product
<1>11. PreparedAs(t, tree, K, of, Target)
  BY <1>4, <1>5, <1>9, <1>10, PreparedFacts
<1>12. t \in Seq(Mounts) /\ Arrived(t, of, some \union {Root})
  <2>1. t \in Seq(Mounts)
    BY <1>11 DEF PreparedAs
  <2>2. Target \in {TargetTmp, Target}
    OBVIOUS
  <2>3. QED
    BY <1>4, <1>5, <1>6, <1>8, <1>11, <2>1, <2>2, OwnPrepared
<1>13. OwnReady(t, L, of, some \union {Root})
  BY <1>3, <1>12, OwnStarts
<1>14. OwnPaths' = some \union {Root}
  BY <1>1, <1>2, <1>4 DEF OwnPaths
<1>15. \E o \in {"internal", "image"} : OwnReady(tree', todo', o, OwnPaths')
  BY <1>3, <1>5, <1>13, <1>14
<1>16. QED
  BY <1>1, <1>15 DEF OwnInv, BeforeTarget, TargetFindsItsOwn

LEMMA OwnInternal ==
  ASSUME MountsInv, OwnInv, TargetInternal
  PROVE  OwnInv'
<1>1. pc = "menu" /\ pc' = "target"
  BY DEF TargetInternal, CallMove
<1>2. PICK some, skip, table, gone :
        /\ some \subseteq OtherPaths /\ skip \subseteq Skippable
        /\ table = Append(tree, Mount(Target, "internal", Root))
                     \o MountsOf(Kept(Partitions, some), "internal", TargetTmp)
        /\ gone = Umounted(table, {SkipMountDir(p) : p \in skip})
        /\ CallMove("target", Kept(table, {m \in Range(table) : m.dir \notin gone}))
        /\ parts' = some /\ dropped' = skip
  BY DEF TargetInternal, OtherPaths
<1>3. PICK set, t, L : /\ set = {m \in Range(table) : m.dir \notin gone}
                       /\ t = Kept(table, set) /\ L = GetMountsToMove(TargetTmp, Target, t)
                       /\ tree' = t /\ todo' = L
  BY <1>2, MoveArguments DEF CallMove
<1>4. tree \in Seq(Mounts) /\ AtMenu(tree) /\ OwnMenu(tree)
  BY <1>1 DEF MountsInv, Typed, Journey, OwnInv, BeforeTarget
<1>5. PICK of, K : of \in Owners /\ of = "internal" /\ K = Kept(Partitions, some)
  BY DEF Owners
<1>6. some \in SUBSET OwnTops
  BY <1>2, DeliveryAssumption DEF OwnTops, OtherPaths
<1>7. ListOf(K, some)
  BY <1>2, <1>5, MountsAssumption, KeptAll DEF OtherPaths
<1>8. K \in Seq(Path) /\ TargetTmp \in Path
  BY <1>7, OwnFacts DEF ListOf, OwnDirs
<1>9. table = Append(tree, Mount(Target, of, Root)) \o MountsOf(K, of, TargetTmp)
  BY <1>2, <1>5
<1>10. PreparedAs(table, tree, K, of, TargetTmp)
  BY <1>4, <1>5, <1>8, <1>9, PreparedFacts
<1>11. PICK paths : paths = some \union {Root}
  OBVIOUS
<1>12. table \in Seq(Mounts) /\ Arrived(table, of, paths) /\ AllWait(table)
  <2>1. table \in Seq(Mounts)
    BY <1>10 DEF PreparedAs
  <2>2. TargetTmp \in {TargetTmp, Target}
    OBVIOUS
  <2>3. QED
    BY <1>4, <1>5, <1>6, <1>7, <1>10, <1>11, <2>1, <2>2, OwnPrepared
<1>13. PICK left : left = (paths \ skip) \union {Root}
  OBVIOUS
<1>14. skip \in SUBSET (FirstPaths \union OtherPaths)
  BY <1>2, MountsAssumption DEF FirstPaths, OtherPaths
<1>15. gone = Umounted(table, Skipped(skip))
  BY <1>2 DEF Skipped
<1>16. ASSUME NEW i \in 1..Len(table), NEW p \in paths, At(table[i].dir, p)
       PROVE  table[i] \in set <=> p \in left
  <2>1. table[i].dir \notin gone <=> p \in left
    BY <1>12, <1>13, <1>14, <1>15, <1>16, OwnSkipped
  <2>2. table[i] \in Range(table)
    <3>1. DOMAIN table = 1..Len(table)
      BY <1>12
    <3>2. QED
      BY <3>1 DEF Range
  <2>3. QED
    BY <1>3, <2>1, <2>2
<1>17. t \in Seq(Mounts) /\ Arrived(t, of, left)
  <2>1. left \in SUBSET paths
    BY <1>11, <1>13
  <2>2. t \in Seq(Mounts)
    BY <1>3, <1>12, KeptFacts
  <2>3. QED
    BY <1>3, <1>12, <1>16, <2>1, <2>2, OwnKept
<1>18. OwnReady(t, L, of, left)
  BY <1>3, <1>17, OwnStarts
<1>19. OwnPaths' = left
  BY <1>2, <1>11, <1>13 DEF OwnPaths
<1>20. \E o \in {"internal", "image"} : OwnReady(tree', todo', o, OwnPaths')
  BY <1>3, <1>5, <1>18, <1>19
<1>21. QED
  BY <1>1, <1>20 DEF OwnInv, BeforeTarget, TargetFindsItsOwn

(* A mount on its way out of the root is one of the first stage.           *)
LEMMA RootOwned ==
  ASSUME MountsInv, NEW new \in OwnDirs, Phase(tree, todo, new), todo # <<>>,
         NEW dirs, dirs \subseteq {Root} \union OwnDirs, OwnedAt(tree, Others, dirs),
         NEW d, d = Head(todo), NEW to, to = Moved(d, Root, new), NEW t, MoveResult(t, d, to)
  PROVE  OwnedAt(t, Others, dirs)
<1>1. tree \in Seq(Mounts) /\ todo \in Seq(Path) /\ new \in Path /\ Root \in Path
  BY OwnFacts, RootFacts DEF MountsInv, Typed
<1>2. d \in Path /\ d = todo[1] /\ 1 \in 1..Len(todo)
  BY <1>1, TailFacts
<1>3. d \in FirstPaths
  BY <1>2 DEF Phase, OfFirst
<1>4. to \in Path
  <2>1. Under(d, Root)
    BY <1>1, <1>2, UnderOrder
  <2>2. QED
    BY <1>1, <1>2, <2>1, MovedIsPath
<1>5. \A q \in dirs : ~Under(q, d)
  <2>1. \A q \in OwnDirs : ~Under(q, d)
    BY <1>3, FirstFacts
  <2>2. ~Under(Root, d)
    <3>1. d # Root /\ Under(d, Root)
      BY <1>1, <1>2, <1>3, FirstFacts, UnderOrder
    <3>2. QED
      BY <1>1, <1>2, <3>1, UnderOrder
  <2>3. QED
    BY <2>1, <2>2
<1>6. CASE t = tree
  BY <1>6
<1>7. CASE t = MovedMount(tree, d, to)
  <2>1. RenamedAs(t, tree, d, to)
    BY <1>1, <1>2, <1>4, <1>7, RenamedFacts DEF MovedMount
  <2>2. QED
    BY <1>1, <1>2, <1>4, <1>5, <2>1, OwnedMoved
<1>8. CASE t = BoundMount(tree, d, to)
  <2>1. BoundAs(t, tree, d, to)
    BY <1>1, <1>2, <1>4, <1>8, BoundFacts
  <2>2. QED
    BY <1>1, <1>2, <1>4, <1>5, <2>1, OwnedBound
<1>9. QED
  BY <1>6, <1>7, <1>8 DEF MoveResult

LEMMA OwnMove ==
  ASSUME MountsInv, OwnInv, MoveMount
  PROVE  OwnInv'
<1>1. PICK d, rest, to, t : /\ d = Head(todo) /\ rest = Tail(todo) /\ t = tree'
                            /\ to = Moved(d, MoveAt[pc].old, MoveAt[pc].new)
  OBVIOUS
<1>2. /\ pc \in {"ramdisk", "target_tmp", "target"} /\ todo # <<>> /\ todo' = rest
      /\ UNCHANGED <<pc, first, parts, dropped>> /\ made' = MadeBy(to)
      /\ MoveResult(t, d, to)
  BY <1>1, MoveMountIs
<1>3. CASE pc = "ramdisk"
  <2>1. Ramdisk \in OwnDirs /\ Phase(tree, todo, Ramdisk)
    BY <1>3 DEF OwnDirs, MountsInv, Journey
  <2>2. to = Moved(d, Root, Ramdisk)
    BY <1>1, <1>3, MoveArguments
  <2>3. PICK dirs : dirs = {Root, Ramdisk}
    OBVIOUS
  <2>4. OwnedAt(tree, Others, dirs) /\ dropped = {} /\ dirs \subseteq {Root} \union OwnDirs
    BY <1>3, <2>1, <2>3 DEF OwnInv, BeforeTarget
  <2>5. OwnedAt(t, Others, dirs)
    BY <1>1, <1>2, <2>1, <2>2, <2>4, RootOwned
  <2>6. QED
    BY <1>1, <1>2, <1>3, <2>3, <2>4, <2>5 DEF OwnInv, BeforeTarget, TargetFindsItsOwn
<1>4. CASE pc = "target_tmp"
  <2>1. TargetTmp \in OwnDirs /\ Phase(tree, todo, TargetTmp)
    BY <1>4 DEF OwnDirs, MountsInv, Journey
  <2>2. to = Moved(d, Root, TargetTmp)
    BY <1>1, <1>4, MoveArguments
  <2>3. PICK dirs : dirs = {Root, TargetTmp}
    OBVIOUS
  <2>4. OwnedAt(tree, Others, dirs) /\ dropped = {} /\ dirs \subseteq {Root} \union OwnDirs
    BY <1>4, <2>1, <2>3 DEF OwnInv, BeforeTarget
  <2>5. OwnedAt(t, Others, dirs)
    BY <1>1, <1>2, <2>1, <2>2, <2>4, RootOwned
  <2>6. QED
    BY <1>1, <1>2, <1>4, <2>3, <2>4, <2>5 DEF OwnInv, BeforeTarget, TargetFindsItsOwn
<1>5. CASE pc = "target"
  <2>1. to = Moved(d, TargetTmp, Target)
    BY <1>1, <1>5, MoveArguments
  <2>2. tree \in Seq(Mounts) /\ todo \in Seq(Path) /\ \A k \in 1..Len(todo) : Below(todo[k], TargetTmp)
    BY <1>5 DEF MountsInv, Typed, Journey, AtTarget
  <2>3. d \in Path /\ d = todo[1] /\ 1 \in 1..Len(todo)
    BY <1>1, <1>2, <2>2, TailFacts
  <2>4. Below(d, TargetTmp)
    BY <2>2, <2>3
  <2>5. PICK of, paths : /\ of \in {"internal", "image"} /\ paths = OwnPaths
                          /\ OwnReady(tree, todo, of, paths)
    BY <1>5 DEF OwnInv
  <2>6. MovedOrStays(t, tree, d, to, MadeBy(to))
    BY <1>1, <1>5, <2>1, OwnTells
  <2>7. OwnReady(t, rest, of, paths)
    BY <1>1, <1>2, <2>1, <2>2, <2>4, <2>5, <2>6, OwnReadyMoved
  <2>8. OwnPaths' = paths
    BY <1>2, <2>5 DEF OwnPaths
  <2>9. \E o \in {"internal", "image"} : OwnReady(tree', todo', o, OwnPaths')
    BY <1>1, <1>2, <2>5, <2>7, <2>8
  <2>10. QED
    BY <1>2, <1>5, <2>9 DEF OwnInv, BeforeTarget, TargetFindsItsOwn
<1>6. QED
  BY <1>2, <1>3, <1>4, <1>5

LEMMA OwnBoot ==
  ASSUME MountsInv, OwnInv, EnterTarget
  PROVE  OwnInv'
<1>1. pc = "target" /\ pc' = "booted" /\ UNCHANGED <<parts, dropped>> /\ todo = <<>>
  BY DEF EnterTarget, MovesDone
<1>2. PICK E, t : /\ OverridesAs(E) /\ t = tree \o E /\ JoinedAs(t, tree, E)
                  /\ Len(E) # 0 => Mount(Target, "image", Root) \in Table
                  /\ tree' = Pivoted(t, Target, DebugRamdisk)
  BY BootTable
<1>3. PICK P : P = tree'
  OBVIOUS
<1>4. /\ tree \in Seq(Mounts) /\ t \in Seq(Mounts)
      /\ Target \in Path /\ DebugRamdisk \in Path /\ Root \in Path
  BY <1>2, OwnFacts, RootFacts DEF OwnDirs, MountsInv, Typed, JoinedAs
<1>5. PivotedAs(P, t, Target, DebugRamdisk)
  BY <1>2, <1>3, <1>4, PivotedFacts
<1>6. PICK of \in {"internal", "image"} : OwnReady(tree, <<>>, of, OwnPaths)
  BY <1>1 DEF OwnInv
<1>7. ASSUME Mount(Target, "image", Root) \in Table PROVE of = "image"
  <2>1. DOMAIN tree = 1..Len(tree)
    BY <1>4
  <2>2. PICK i \in 1..Len(tree) : tree[i] = Mount(Target, "image", Root)
    BY <1>7, <2>1 DEF Table, Range
  <2>3. tree[i].dir = Target /\ tree[i].of = "image"
    BY <2>2 DEF Mount
  <2>4. At(tree[i].dir, Root)
    <3>1. Target \o Root = Target
      BY DEF Target, Root
    <3>2. QED
      BY <2>3, <3>1 DEF At
  <2>5. tree[i].of = "first" \/ tree[i].of = of
    BY <1>4, <1>6, <2>4 DEF OwnReady, Account
  <2>6. QED
    BY <2>3, <2>5
<1>8. Found(P, of, OwnPaths)
  BY <1>2, <1>4, <1>5, <1>6, <1>7, OwnFound
<1>9. TargetFindsItsOwn'
  <2>1. OwnPaths = (parts' \ dropped') \union {Root}
    BY <1>1 DEF OwnPaths
  <2>2. PICK shown, seen : /\ shown = {i \in DOMAIN P : ~Under(P[i].dir, DebugRamdisk)}
                           /\ seen = {P[i] : i \in {i \in shown : P[i].of # "first"}}
    OBVIOUS
  <2>3. PICK own, files : /\ own = {Mount(p, of, p) : p \in (parts' \ dropped') \union {Root}}
                          /\ files = {Mount(p, "override", p) : p \in Range(Overridden)}
    OBVIOUS
  <2>4. /\ \A i, j \in shown : P[i].dir = P[j].dir => i = j
        /\ own \subseteq seen
        /\ seen \subseteq own \union (IF of = "image" THEN files ELSE {})
    BY <1>8, <2>1, <2>2, <2>3 DEF Found, Shown, Seen, OverrideMounts
  <2>5. QED
    BY <1>3, <2>2, <2>3, <2>4 DEF TargetFindsItsOwn
<1>10. QED
  BY <1>1, <1>9 DEF OwnInv, BeforeTarget

LEMMA OwnSame ==
  ASSUME OwnInv, UNCHANGED vars
  PROVE  OwnInv'
<1>1. tree' = tree /\ todo' = todo /\ pc' = pc /\ parts' = parts /\ dropped' = dropped
  BY DEF vars
<1>2. QED
  BY <1>1 DEF OwnInv, BeforeTarget, TargetFindsItsOwn, OwnPaths

(* The system finds its partitions, or the product of the image, each one  *)
(* once and without those that skip_mount.cfg names, at their own paths,   *)
(* and nothing of Paralloid outside /debug_ramdisk but, in an image, the   *)
(* overrides of files (files/init:257-325, 341-349, 412-422, 456-463).     *)
THEOREM TargetFindsAll == Spec => []TargetFindsItsOwn
<1>1. Init => MountsInv /\ OwnInv
  BY MountsInit, OwnInit
<1>2. MountsInv /\ OwnInv /\ [Next]_vars => MountsInv' /\ OwnInv'
  <2>1. SUFFICES ASSUME MountsInv, OwnInv, [Next]_vars PROVE OwnInv'
    BY MountsInductive
  <2>2. CASE UNCHANGED vars
    BY <2>1, <2>2, OwnSame
  <2>3. CASE Next
    BY <2>1, <2>3, OwnSame, OwnCopy, OwnEnter, OwnFree, OwnRemount, OwnInternal, OwnImage,
       OwnBoot, OwnMove DEF Next, Terminated
  <2>4. QED
    BY <2>1, <2>2, <2>3
<1>3. OwnInv => TargetFindsItsOwn
  BY DEF OwnInv
<1>4. QED
  BY <1>1, <1>2, <1>3, PTL DEF Spec

=============================================================================
