---------------------------- MODULE TimelineProofs ----------------------------
(***************************************************************************)
(* Proofs about the gallery: what its searches find, that a layout shows   *)
(* every photo once, in order and within the box, and what the frames and  *)
(* timers leave behind.                                                    *)
(***************************************************************************)
EXTENDS Timeline, FiniteSetTheorems, SequenceTheorems, WellFoundedInduction, TLAPS

-----------------------------------------------------------------------------
(* Loops.                                                                  *)

\* What is there at the start of a loop and survives every turn is there at
\* each of its turns.
LEMMA Upwards ==
  ASSUME NEW n \in Nat, NEW S, 0 \in S, \A k \in 0 .. n - 1 : k \in S => k + 1 \in S
  PROVE  0 .. n \subseteq S
  <1> DEFINE Bad == (0 .. n) \ S
             Less == OpToRel(<, Nat)
  <1>1. SUFFICES ASSUME Bad # {} PROVE FALSE
    OBVIOUS
  <1>2. Bad \in SUBSET Nat
    OBVIOUS
  <1>3. PICK k \in Bad : \A m \in Bad : ~(<<m, k>> \in Less)
    <2>1. IsWellFoundedOn(Less, Nat)
      BY NatLessThanWellFounded
    <2> HIDE DEF Bad, Less
    <2> QED BY <1>1, <1>2, <2>1, WFMin
  <1>4. \A m \in Bad : ~(m < k)
    BY <1>2, <1>3 DEF OpToRel
  <1>5. k \in 0 .. n /\ k \notin S /\ k # 0
    OBVIOUS
  <1>6. k - 1 \in 0 .. n - 1 /\ (k - 1) + 1 = k /\ k - 1 \in 0 .. n /\ k - 1 < k
    BY <1>5
  <1>7. k - 1 \in S
    BY <1>4, <1>6
  <1> QED BY <1>5, <1>6, <1>7

\* The states a loop of n turns goes through.
Turns(f, n, start, turn) == f[0] = start /\ \A k \in 1 .. n : f[k] = turn[k][f[k - 1]]

\* There are such states for any turn.
LEMMA LoopExists ==
  ASSUME NEW n \in Nat, NEW S, NEW start \in S, NEW turn \in [1 .. n -> [S -> S]]
  PROVE  \E f \in [0 .. n -> S] : Turns(f, n, start, turn)
  <1> DEFINE Upto(k, f) == Turns(f, k, start, turn)
             T == {k \in 0 .. n : \E f \in [0 .. n -> S] : Upto(k, f)}
  <1>1. 0 \in T
    <2> DEFINE f0 == [k \in 0 .. n |-> start]
    <2>1. f0 \in [0 .. n -> S] /\ f0[0] = start
      OBVIOUS
    <2> HIDE DEF f0
    <2>2. \A i \in 1 .. 0 : f0[i] = turn[i][f0[i - 1]]
      OBVIOUS
    <2> QED BY <2>1, <2>2 DEF Turns
  <1>2. ASSUME NEW k \in 0 .. n - 1, k \in T PROVE k + 1 \in T
    <2>1. PICK f \in [0 .. n -> S] : Upto(k, f)
      BY <1>2
    <2> DEFINE x == turn[k + 1][f[k]]
               g == [f EXCEPT ![k + 1] = x]
    <2>2. k + 1 \in 1 .. n /\ k \in 0 .. n /\ k + 1 \in 0 .. n /\ (k + 1) - 1 = k /\ k + 1 # 0
      OBVIOUS
    <2>3. x \in S
      BY <2>2
    <2>4. g \in [0 .. n -> S] /\ g[k + 1] = x
      BY <2>2, <2>3
    <2>5. \A i \in 0 .. k : g[i] = f[i]
      OBVIOUS
    <2> HIDE DEF g, x
    <2>6. g[0] = start
      BY <2>1, <2>5 DEF Turns
    <2>7. ASSUME NEW i \in 1 .. k + 1 PROVE g[i] = turn[i][g[i - 1]]
      <3>1. CASE i = k + 1
        <4>1. g[i - 1] = f[k]
          BY <3>1, <2>2, <2>5
        <4> QED BY <3>1, <2>4, <4>1 DEF x
      <3>2. CASE i # k + 1
        <4>1. i \in 1 .. k /\ i \in 0 .. k /\ i - 1 \in 0 .. k
          BY <3>2
        <4> QED BY <4>1, <2>1, <2>5 DEF Turns
      <3> QED BY <3>1, <3>2
    <2>8. Upto(k + 1, g)
      BY <2>6, <2>7 DEF Turns
    <2> QED BY <2>2, <2>4, <2>8
  <1>3. n \in T
    <2> HIDE DEF T
    <2>1. 0 .. n \subseteq T
      BY <1>1, <1>2, Upwards
    <2> QED BY <2>1
  <1> QED BY <1>3

\* What every turn hands on to the next one is there at each turn of a loop.
LEMMA LoopStays ==
  ASSUME NEW n \in Nat, NEW good, NEW f, NEW turn, NEW start, Turns(f, n, start, turn),
         start \in good[0], \A k \in 1 .. n : \A x \in good[k - 1] : turn[k][x] \in good[k]
  PROVE  \A k \in 0 .. n : f[k] \in good[k]
  <1> DEFINE S == {k \in 0 .. n : f[k] \in good[k]}
  <1>1. 0 \in S
    BY DEF Turns
  <1>2. ASSUME NEW k \in 0 .. n - 1, k \in S PROVE k + 1 \in S
    <2>1. k + 1 \in 1 .. n /\ (k + 1) - 1 = k /\ k + 1 \in 0 .. n
      OBVIOUS
    <2>2. f[k + 1] = turn[k + 1][f[k]]
      BY <2>1 DEF Turns
    <2>3. f[k + 1] \in good[k + 1]
      BY <1>2, <2>1, <2>2
    <2> QED BY <2>1, <2>3
  <1>3. 0 .. n \subseteq S
    <2> HIDE DEF S
    <2> QED BY <1>1, <1>2, Upwards
  <1> QED BY <1>3

\* There is a loop of turns that hand on what the next one needs.
LEMMA LoopGood ==
  ASSUME NEW n \in Nat, NEW S, NEW good \in [0 .. n -> SUBSET S], NEW start \in good[0],
         NEW turn, \A k \in 1 .. n : \A x \in good[k - 1] : turn[k][x] \in good[k]
  PROVE  \E f \in [0 .. n -> S] :
           Turns(f, n, start, turn) /\ \A k \in 0 .. n : f[k] \in good[k]
  <1> DEFINE safe == [k \in 1 .. n |-> [x \in S |-> IF x \in good[k - 1] THEN turn[k][x] ELSE x]]
  <1>1. \A k \in 1 .. n : k \in 0 .. n /\ k - 1 \in 0 .. n
    OBVIOUS
  <1>2. \A k \in 1 .. n : \A x \in good[k - 1] :
          x \in S /\ safe[k][x] = turn[k][x] /\ safe[k][x] \in good[k]
    BY <1>1
  <1>3. safe \in [1 .. n -> [S -> S]]
    BY <1>1
  <1>4. start \in S
    OBVIOUS
  <1> HIDE DEF safe
  <1>5. PICK f \in [0 .. n -> S] : Turns(f, n, start, safe)
    BY <1>3, <1>4, LoopExists
  <1>6. \A k \in 0 .. n : f[k] \in good[k]
    <2>1. \A k \in 1 .. n : \A x \in good[k - 1] : safe[k][x] \in good[k]
      BY <1>2
    <2> QED BY <1>5, <2>1, LoopStays
  <1>7. Turns(f, n, start, turn)
    BY <1>1, <1>2, <1>5, <1>6 DEF Turns
  <1> QED BY <1>6, <1>7

\* The larger and the smaller of two numbers.
LEMMA MaxMinOf ==
  ASSUME NEW a \in Int, NEW b \in Int
  PROVE  /\ Max({a, b}) = IF a >= b THEN a ELSE b
         /\ Min({a, b}) = IF a <= b THEN a ELSE b
  BY DEF Max, Min

\* The least of a set of numbers from 1.
LEMMA LeastOf ==
  ASSUME NEW S, S \subseteq Nat, S # {}
  PROVE  Min(S) \in S /\ \A x \in S : Min(S) <= x
  <1> DEFINE Less == OpToRel(<, Nat)
  <1>1. PICK n \in S : \A m \in S : ~(<<m, n>> \in Less)
    <2>1. IsWellFoundedOn(Less, Nat)
      BY NatLessThanWellFounded
    <2> HIDE DEF Less
    <2> QED BY <2>1, WFMin
  <1>2. \A m \in S : ~(m < n)
    BY <1>1 DEF OpToRel
  <1>3. n \in S /\ \A m \in S : n <= m
    BY <1>2
  <1> QED BY <1>3 DEF Min

-----------------------------------------------------------------------------
(* The binary searches.                                                    *)

Probed == [lo : Int, hi : Int, found : Int]

\* The states a search goes through.
Searched(s, side, test, lo, hi, found) ==
  /\ s[0] = [lo |-> lo, hi |-> hi, found |-> found]
  /\ \A k \in 1 .. hi : s[k] = Probe(side, test)[s[k - 1]]
  /\ Search(side, test, lo, hi, found) = s[hi].found

\* A search goes from probe to probe.
LEMMA SearchSteps ==
  ASSUME NEW side, NEW test, NEW lo \in Int, NEW hi \in Nat, NEW found \in Int
  PROVE  \E s \in [0 .. hi -> Probed] : Searched(s, side, test, lo, hi, found)
  <1> DEFINE start == [lo |-> lo, hi |-> hi, found |-> found]
             turn == [k \in 1 .. hi |-> Probe(side, test)]
             Rec(s) == s = [k \in 0 .. hi |-> IF k = 0 THEN start ELSE Probe(side, test)[s[k - 1]]]
  <1>1. start \in Probed
    BY DEF Probed
  <1>2. Probe(side, test) \in [Probed -> Probed]
    BY DEF Probe, Probed
  <1>3. turn \in [1 .. hi -> [Probed -> Probed]]
    BY <1>2
  <1>4. \A k \in 1 .. hi : turn[k] = Probe(side, test)
    OBVIOUS
  <1> HIDE DEF start, turn
  <1>5. PICK s \in [0 .. hi -> Probed] : Turns(s, hi, start, turn)
    BY <1>1, <1>3, LoopExists
  <1>6. Rec(s)
    BY <1>4, <1>5 DEF Turns
  <1> DEFINE c == CHOOSE x : Rec(x)
  <1>7. Rec(c)
    BY <1>6
  <1>8. Search(side, test, lo, hi, found) = c[hi].found
    BY DEF Search, start
  <1> HIDE DEF c
  <1>9. DOMAIN c = 0 .. hi /\ c[0] = start
        /\ \A k \in 1 .. hi : c[k] = Probe(side, test)[c[k - 1]]
    BY <1>7
  <1> DEFINE Typed == {k \in 0 .. hi : c[k] \in Probed}
  <1>10. 0 .. hi \subseteq Typed
    <2>1. 0 \in Typed
      BY <1>1, <1>9
    <2>2. \A k \in 0 .. hi - 1 : k \in Typed => k + 1 \in Typed
      BY <1>2, <1>9
    <2> HIDE DEF Typed
    <2> QED BY <2>1, <2>2, Upwards
  <1>11. c \in [0 .. hi -> Probed]
    BY <1>7, <1>10
  <1> QED BY <1>8, <1>9, <1>11 DEF start, Searched

\* What a probe at mid makes of a search.
Moved(side, test, x, mid, y) ==
  /\ x.lo \in Int /\ x.hi \in Int /\ x.found \in Int
  /\ x.lo > x.hi => y = x
  /\ x.lo <= x.hi => mid \in Int /\ x.lo <= mid /\ mid <= x.hi
  /\ x.lo <= x.hi /\ ((side = "last") <=> test[mid]) => y.lo = mid + 1 /\ y.hi = x.hi
  /\ x.lo <= x.hi /\ ~((side = "last") <=> test[mid]) => y.lo = x.lo /\ y.hi = mid - 1
  /\ x.lo <= x.hi /\ test[mid] => y.found = mid
  /\ x.lo <= x.hi /\ ~test[mid] => y.found = x.found

\* A probe moves a search.
LEMMA ProbeDoes ==
  ASSUME NEW side, NEW test, NEW x \in Probed
  PROVE  Moved(side, test, x, (x.lo + x.hi) \div 2, Probe(side, test)[x])
  <1>1. x.lo \in Int /\ x.hi \in Int /\ x.found \in Int
    BY DEF Probed
  <1>2. PICK mid, y : mid = (x.lo + x.hi) \div 2 /\ y = Probe(side, test)[x]
    OBVIOUS
  <1>3. x.lo <= x.hi => mid \in Int /\ x.lo <= mid /\ mid <= x.hi
    BY <1>1, <1>2
  <1>4. y = IF x.lo > x.hi THEN x
            ELSE [lo |-> IF (side = "last") <=> test[mid] THEN mid + 1 ELSE x.lo,
                  hi |-> IF (side = "last") <=> test[mid] THEN x.hi ELSE mid - 1,
                  found |-> IF test[mid] THEN mid ELSE x.found]
    BY <1>2 DEF Probe, Probed
  <1>5. Moved(side, test, x, mid, y)
    BY <1>1, <1>3, <1>4 DEF Moved
  <1> QED BY <1>2, <1>5

\* A search finds a place between its bounds, or nothing.
LEMMA SearchFinds ==
  ASSUME NEW side, NEW test, NEW lo \in Int, NEW hi \in Nat, NEW found \in Int
  PROVE  /\ Search(side, test, lo, hi, found) \in Int
         /\ \/ Search(side, test, lo, hi, found) = found
            \/ Search(side, test, lo, hi, found) \in lo .. hi
  <1>1. PICK s \in [0 .. hi -> Probed] : Searched(s, side, test, lo, hi, found)
    BY SearchSteps
  <1> DEFINE Within(x) == x.lo >= lo /\ x.hi <= hi /\ (x.found = found \/ x.found \in lo .. hi)
             S == {k \in 0 .. hi : Within(s[k])}
  <1>2. 0 \in S
    BY <1>1 DEF Searched
  <1>3. ASSUME NEW k \in 0 .. hi - 1, k \in S PROVE k + 1 \in S
    <2>1. PICK x \in Probed : x = s[k]
      OBVIOUS
    <2>2. s[k + 1] = Probe(side, test)[x] /\ k + 1 \in 0 .. hi
      BY <1>1, <2>1 DEF Searched
    <2>3. Within(x)
      BY <1>3, <2>1
    <2>4. PICK mid, y : Moved(side, test, x, mid, y) /\ y = Probe(side, test)[x]
      BY ProbeDoes
    <2>5. Within(y)
      BY <2>3, <2>4 DEF Moved
    <2> QED BY <2>2, <2>4, <2>5
  <1>4. hi \in S
    <2> HIDE DEF S
    <2>1. 0 .. hi \subseteq S
      BY <1>2, <1>3, Upwards
    <2> QED BY <2>1
  <1>5. s[hi] \in Probed
    OBVIOUS
  <1> QED BY <1>1, <1>4, <1>5 DEF Probed, Searched

\* Upwards through a test that holds first and then no more, a search finds the
\* last place where it holds.
LEMMA SearchLast ==
  ASSUME NEW n \in Nat, NEW test \in [1 .. n -> BOOLEAN], NEW lo \in 1 .. n + 1,
         \A i, j \in lo .. n : i <= j /\ test[j] => test[i]
  PROVE  /\ Search("last", test, lo, n, lo - 1) \in lo - 1 .. n
         /\ \A i \in lo .. n : test[i] <=> i <= Search("last", test, lo, n, lo - 1)
  <1>0. lo \in Int /\ lo - 1 \in Int
    OBVIOUS
  <1>1. PICK s \in [0 .. n -> Probed] : Searched(s, "last", test, lo, n, lo - 1)
    BY <1>0, SearchSteps
  <1> DEFINE Split(l, h, f) ==
               /\ lo <= l /\ h <= n /\ l <= h + 1 /\ f = l - 1
               /\ \A i \in lo .. l - 1 : test[i]
               /\ \A i \in h + 1 .. n : ~test[i]
             Left(l, h, k) == l > h \/ h - l + 1 <= n - k
             Inv(x, k) == Split(x.lo, x.hi, x.found) /\ Left(x.lo, x.hi, k)
             S == {k \in 0 .. n : Inv(s[k], k)}
  <1>2. 0 \in S
    <2>1. s[0].lo = lo /\ s[0].hi = n /\ s[0].found = lo - 1
      BY <1>1 DEF Searched
    <2> QED BY <2>1
  <1>3. ASSUME NEW k \in 0 .. n - 1, k \in S PROVE k + 1 \in S
    <2>1. PICK x \in Probed : x = s[k]
      OBVIOUS
    <2>2. PICK mid, y : Moved("last", test, x, mid, y) /\ y = Probe("last", test)[x]
      BY ProbeDoes
    <2>3. k + 1 \in 0 .. n /\ s[k + 1] = y
      <3>1. k + 1 \in 0 .. n /\ k + 1 \in 1 .. n /\ (k + 1) - 1 = k
        OBVIOUS
      <3> QED BY <1>1, <2>1, <2>2, <3>1 DEF Searched
    <2>4. PICK l \in Int, h \in Int, f \in Int : l = x.lo /\ h = x.hi /\ f = x.found
      BY <2>2 DEF Moved
    <2>5. Split(l, h, f) /\ Left(l, h, k)
      BY <1>3, <2>1, <2>4
    <2>6. CASE l > h
      <3>1. y = x
        BY <2>2, <2>4, <2>6 DEF Moved
      <3>2. Inv(y, k + 1)
        BY <2>4, <2>5, <2>6, <3>1
      <3> HIDE DEF Inv
      <3> QED BY <2>3, <3>2
    <2>7. CASE l <= h
      <3>1. mid \in Int /\ l <= mid /\ mid <= h /\ mid \in lo .. n
        BY <2>2, <2>4, <2>5, <2>7 DEF Moved
      <3>2. CASE test[mid]
        <4>1. y.lo = mid + 1 /\ y.hi = h /\ y.found = mid
          BY <2>2, <2>4, <2>7, <3>2 DEF Moved
        <4>2. \A i \in lo .. mid : test[i]
          BY <3>1, <3>2
        <4>3. Split(mid + 1, h, mid) /\ Left(mid + 1, h, k + 1)
          BY <2>5, <3>1, <4>2
        <4>4. Inv(y, k + 1)
          BY <4>1, <4>3
        <4> HIDE DEF Inv
        <4> QED BY <2>3, <4>4
      <3>3. CASE ~test[mid]
        <4>1. y.lo = l /\ y.hi = mid - 1 /\ y.found = f
          BY <2>2, <2>4, <2>7, <3>3 DEF Moved
        <4>2. \A i \in mid .. n : ~test[i]
          BY <3>1, <3>3, <2>5
        <4>3. Split(l, mid - 1, f) /\ Left(l, mid - 1, k + 1)
          BY <2>5, <3>1, <4>2
        <4>4. Inv(y, k + 1)
          BY <4>1, <4>3
        <4> HIDE DEF Inv
        <4> QED BY <2>3, <4>4
      <3> QED BY <3>2, <3>3
    <2> QED BY <2>4, <2>6, <2>7
  <1>4. n \in S
    <2> HIDE DEF S
    <2>1. 0 .. n \subseteq S
      BY <1>2, <1>3, Upwards
    <2> QED BY <2>1
  <1>5. PICK l \in Int, h \in Int, f \in Int : l = s[n].lo /\ h = s[n].hi /\ f = s[n].found
    <2>1. s[n] \in Probed
      OBVIOUS
    <2> QED BY <2>1 DEF Probed
  <1>6. Split(l, h, f) /\ Left(l, h, n)
    BY <1>4, <1>5
  <1>7. l = h + 1 /\ f = h
    BY <1>6
  <1>8. f \in lo - 1 .. n /\ \A i \in lo .. n : test[i] <=> i <= f
    BY <1>6, <1>7
  <1>9. Search("last", test, lo, n, lo - 1) = f
    BY <1>1, <1>5 DEF Searched
  <1> QED BY <1>8, <1>9

\* Downwards through a test that holds from some place on, a search finds the
\* first place where it holds.
LEMMA SearchFirst ==
  ASSUME NEW n \in Nat, NEW test \in [1 .. n -> BOOLEAN],
         \A i, j \in 1 .. n : i <= j /\ test[i] => test[j]
  PROVE  /\ Search("first", test, 1, n, n + 1) \in 1 .. n + 1
         /\ \A i \in 1 .. n : test[i] <=> i >= Search("first", test, 1, n, n + 1)
  <1>0. 1 \in Int /\ n + 1 \in Int
    OBVIOUS
  <1>1. PICK s \in [0 .. n -> Probed] : Searched(s, "first", test, 1, n, n + 1)
    BY <1>0, SearchSteps
  <1> DEFINE Split(l, h, f) ==
               /\ 1 <= l /\ h <= n /\ l <= h + 1 /\ f = h + 1
               /\ \A i \in 1 .. l - 1 : ~test[i]
               /\ \A i \in h + 1 .. n : test[i]
             Left(l, h, k) == l > h \/ h - l + 1 <= n - k
             Inv(x, k) == Split(x.lo, x.hi, x.found) /\ Left(x.lo, x.hi, k)
             S == {k \in 0 .. n : Inv(s[k], k)}
  <1>2. 0 \in S
    <2>1. s[0].lo = 1 /\ s[0].hi = n /\ s[0].found = n + 1
      BY <1>1 DEF Searched
    <2> QED BY <2>1
  <1>3. ASSUME NEW k \in 0 .. n - 1, k \in S PROVE k + 1 \in S
    <2>1. PICK x \in Probed : x = s[k]
      OBVIOUS
    <2>2. PICK mid, y : Moved("first", test, x, mid, y) /\ y = Probe("first", test)[x]
      BY ProbeDoes
    <2>3. k + 1 \in 0 .. n /\ s[k + 1] = y
      <3>1. k + 1 \in 0 .. n /\ k + 1 \in 1 .. n /\ (k + 1) - 1 = k
        OBVIOUS
      <3> QED BY <1>1, <2>1, <2>2, <3>1 DEF Searched
    <2>4. PICK l \in Int, h \in Int, f \in Int : l = x.lo /\ h = x.hi /\ f = x.found
      BY <2>2 DEF Moved
    <2>5. Split(l, h, f) /\ Left(l, h, k)
      BY <1>3, <2>1, <2>4
    <2>6. CASE l > h
      <3>1. y = x
        BY <2>2, <2>4, <2>6 DEF Moved
      <3>2. Inv(y, k + 1)
        BY <2>4, <2>5, <2>6, <3>1
      <3> HIDE DEF Inv
      <3> QED BY <2>3, <3>2
    <2>7. CASE l <= h
      <3>1. mid \in Int /\ l <= mid /\ mid <= h /\ mid \in 1 .. n
        BY <2>2, <2>4, <2>5, <2>7 DEF Moved
      <3>2. CASE test[mid]
        <4>1. y.lo = l /\ y.hi = mid - 1 /\ y.found = mid
          BY <2>2, <2>4, <2>7, <3>2 DEF Moved
        <4>2. \A i \in mid .. n : test[i]
          BY <3>1, <3>2
        <4>3. Split(l, mid - 1, mid) /\ Left(l, mid - 1, k + 1)
          BY <2>5, <3>1, <4>2
        <4>4. Inv(y, k + 1)
          BY <4>1, <4>3
        <4> HIDE DEF Inv
        <4> QED BY <2>3, <4>4
      <3>3. CASE ~test[mid]
        <4>1. y.lo = mid + 1 /\ y.hi = h /\ y.found = f
          BY <2>2, <2>4, <2>7, <3>3 DEF Moved
        <4>2. \A i \in 1 .. mid : ~test[i]
          BY <3>1, <3>3
        <4>3. Split(mid + 1, h, f) /\ Left(mid + 1, h, k + 1)
          BY <2>5, <3>1, <4>2
        <4>4. Inv(y, k + 1)
          BY <4>1, <4>3
        <4> HIDE DEF Inv
        <4> QED BY <2>3, <4>4
      <3> QED BY <3>2, <3>3
    <2> QED BY <2>4, <2>6, <2>7
  <1>4. n \in S
    <2> HIDE DEF S
    <2>1. 0 .. n \subseteq S
      BY <1>2, <1>3, Upwards
    <2> QED BY <2>1
  <1>5. PICK l \in Int, h \in Int, f \in Int : l = s[n].lo /\ h = s[n].hi /\ f = s[n].found
    <2>1. s[n] \in Probed
      OBVIOUS
    <2> QED BY <2>1 DEF Probed
  <1>6. Split(l, h, f) /\ Left(l, h, n)
    BY <1>4, <1>5
  <1>7. l = h + 1 /\ f = h + 1
    BY <1>6
  <1>8. f \in 1 .. n + 1 /\ \A i \in 1 .. n : test[i] <=> i >= f
    BY <1>6, <1>7
  <1>9. Search("first", test, 1, n, n + 1) = f
    BY <1>1, <1>5 DEF Searched
  <1> QED BY <1>8, <1>9

-----------------------------------------------------------------------------
(* Ratios.                                                                 *)

\* A photo is never narrower or wider than the layout allows for.
LEMMA RatioRange ==
  ASSUME NEW a \in Asset
  PROVE  GetAspectRatio(a) \in 4 .. 25
  <1>1. ASSUME NEW r \in Int PROVE ClampRatio(r) \in 4 .. 25
    <2>1. PICK x \in Int : x = Min({25, r}) /\ x <= 25
      BY MaxMinOf
    <2>2. Max({4, x}) = IF 4 >= x THEN 4 ELSE x
      BY MaxMinOf
    <2> QED BY <2>1, <2>2 DEF ClampRatio
  <1>2. a.ratio \in Int /\ a.w \in Nat /\ a.h \in Nat
    BY DEF Asset
  <1>3. a.w # 0 => (10 * a.h) \div a.w \in Int
    BY <1>2
  <1>4. a.h # 0 => (10 * a.w) \div a.h \in Int
    BY <1>2
  <1>5. CASE a.ratio > 0
    BY <1>1, <1>2, <1>5 DEF GetAspectRatio
  <1>6. CASE ~(a.ratio > 0) /\ (a.w = 0 \/ a.h = 0)
    BY <1>6 DEF GetAspectRatio
  <1>7. CASE ~(a.ratio > 0) /\ ~(a.w = 0 \/ a.h = 0) /\ a.rotated
    <2>1. GetAspectRatio(a) = ClampRatio((10 * a.h) \div a.w)
      BY <1>7 DEF GetAspectRatio
    <2> QED BY <1>1, <1>3, <1>7, <2>1
  <1>8. CASE ~(a.ratio > 0) /\ ~(a.w = 0 \/ a.h = 0) /\ ~a.rotated
    <2>1. GetAspectRatio(a) = ClampRatio((10 * a.w) \div a.h)
      BY <1>8 DEF GetAspectRatio
    <2> QED BY <1>1, <1>4, <1>8, <2>1
  <1> QED BY <1>5, <1>6, <1>7, <1>8

\* The running sum of the ratios of a row.
Summed(f, p) ==
  /\ f[0] = 0
  /\ \A i \in 1 .. Len(p) : f[i] = f[i - 1] + GetAspectRatio(p[i])
  /\ \A i \in 0 .. Len(p) : f[i] \in Nat /\ 4 * i <= f[i] /\ f[i] <= 25 * i
  /\ \A i, j \in 0 .. Len(p) : i <= j => f[i] <= f[j]

\* RatioUpTo is such a sum, and grows.
LEMMA RatioSums ==
  ASSUME NEW p \in Seq(Asset)
  PROVE  Summed(RatioUpTo(p), p)
  <1>1. PICK n \in Nat : n = Len(p)
    OBVIOUS
  <1>2. \A i \in 1 .. n : GetAspectRatio(p[i]) \in 4 .. 25
    BY <1>1, RatioRange
  <1> DEFINE turn == [k \in 1 .. n |-> [x \in Int |-> x + GetAspectRatio(p[k])]]
             Rec(s) == s = [k \in 0 .. n |->
                              IF k = 0 THEN 0 ELSE s[k - 1] + GetAspectRatio(p[k])]
  <1>3. turn \in [1 .. n -> [Int -> Int]]
    <2>1. ASSUME NEW k \in 1 .. n PROVE [x \in Int |-> x + GetAspectRatio(p[k])] \in [Int -> Int]
      <3>1. PICK r \in 4 .. 25 : r = GetAspectRatio(p[k])
        BY <1>2
      <3>2. [x \in Int |-> x + r] \in [Int -> Int]
        OBVIOUS
      <3> QED BY <3>1, <3>2
    <2> QED BY <2>1
  <1>4. \A k \in 1 .. n : \A x \in Int : turn[k][x] = x + GetAspectRatio(p[k])
    OBVIOUS
  <1> HIDE DEF turn
  <1>5. 0 \in Int
    OBVIOUS
  <1>6. PICK s \in [0 .. n -> Int] : Turns(s, n, 0, turn)
    BY <1>3, <1>5, LoopExists
  <1>7. Rec(s)
    BY <1>4, <1>6 DEF Turns
  <1> DEFINE f == CHOOSE x : Rec(x)
  <1>8. Rec(f)
    BY <1>7
  <1>9. RatioUpTo(p) = f
    BY <1>1 DEF RatioUpTo
  <1> HIDE DEF f
  <1>10. f[0] = 0 /\ \A i \in 1 .. n : f[i] = f[i - 1] + GetAspectRatio(p[i])
    BY <1>8
  <1> DEFINE Bounded == {k \in 0 .. n : f[k] \in Nat /\ 4 * k <= f[k] /\ f[k] <= 25 * k
                                        /\ \A i \in 0 .. k : f[i] \in Nat /\ f[i] <= f[k]}
  <1>11. 0 .. n \subseteq Bounded
    <2>1. 0 \in Bounded
      BY <1>10
    <2>2. ASSUME NEW k \in 0 .. n - 1, k \in Bounded PROVE k + 1 \in Bounded
      <3>1. k + 1 \in 1 .. n /\ (k + 1) - 1 = k
        OBVIOUS
      <3>2. PICK x \in Nat, r \in 4 .. 25 : x = f[k] /\ r = GetAspectRatio(p[k + 1])
        BY <1>2, <2>2, <3>1
      <3>3. f[k + 1] = x + r
        BY <1>10, <3>1, <3>2
      <3>4. \A i \in 0 .. k : f[i] \in Nat /\ f[i] <= x
        BY <2>2, <3>2
      <3>5. 4 * k <= x /\ x <= 25 * k
        BY <2>2, <3>2
      <3>6. x + r \in Nat /\ 4 * (k + 1) <= x + r /\ x + r <= 25 * (k + 1)
        BY <3>5
      <3>7. \A i \in 0 .. k + 1 : f[i] \in Nat /\ f[i] <= x + r
        BY <3>3, <3>4, <3>6
      <3> QED BY <3>1, <3>3, <3>6, <3>7
    <2> HIDE DEF Bounded
    <2> QED BY <2>1, <2>2, Upwards
  <1>12. \A k \in 0 .. n : f[k] \in Nat /\ 4 * k <= f[k] /\ f[k] <= 25 * k
    BY <1>11
  <1>13. \A i, j \in 0 .. n : i <= j => f[i] <= f[j]
    BY <1>11
  <1> QED BY <1>1, <1>9, <1>10, <1>12, <1>13 DEF Summed

\* A photo adds its ratio to those of a row.
LEMMA RatioAdds ==
  ASSUME NEW p \in Seq(Asset), NEW a \in Asset
  PROVE  /\ Append(p, a) \in Seq(Asset) /\ Append(p, a) # <<>>
         /\ Len(Append(p, a)) = Len(p) + 1
         /\ PendingRatio(Append(p, a)) = PendingRatio(p) + GetAspectRatio(a)
  <1>1. PICK q \in Seq(Asset) : q = Append(p, a)
    BY AppendProperties
  <1>2. PICK n \in Nat : n = Len(p)
    OBVIOUS
  <1>3. Len(q) = n + 1 /\ q[n + 1] = a /\ \A i \in 1 .. n : q[i] = p[i]
    BY <1>1, <1>2, AppendProperties
  <1>4. PICK f, g : f = RatioUpTo(p) /\ g = RatioUpTo(q)
    OBVIOUS
  <1>5. Summed(f, p) /\ Summed(g, q)
    BY <1>4, RatioSums
  <1> DEFINE Same == {k \in 0 .. n : f[k] = g[k]}
  <1>6. 0 .. n \subseteq Same
    <2>1. 0 \in Same
      BY <1>5 DEF Summed
    <2>2. ASSUME NEW k \in 0 .. n - 1, k \in Same PROVE k + 1 \in Same
      <3>1. k + 1 \in 1 .. n /\ k + 1 \in 1 .. n + 1 /\ (k + 1) - 1 = k
        OBVIOUS
      <3>2. f[k + 1] = f[k] + GetAspectRatio(p[k + 1])
        BY <1>2, <1>5, <3>1 DEF Summed
      <3>3. g[k + 1] = g[k] + GetAspectRatio(q[k + 1])
        BY <1>3, <1>5, <3>1 DEF Summed
      <3> QED BY <1>3, <2>2, <3>1, <3>2, <3>3
    <2> HIDE DEF Same
    <2> QED BY <2>1, <2>2, Upwards
  <1>7. g[n + 1] = g[n] + GetAspectRatio(a) /\ f[n] = g[n]
    <2>1. n + 1 \in 1 .. n + 1 /\ (n + 1) - 1 = n /\ n \in 0 .. n
      OBVIOUS
    <2> QED BY <1>3, <1>5, <1>6, <2>1 DEF Summed
  <1> QED BY <1>1, <1>2, <1>3, <1>4, <1>7 DEF PendingRatio

-----------------------------------------------------------------------------
(* Rows.                                                                   *)

\* What a division gives.
LEMMA Quotient ==
  ASSUME NEW a \in Int, NEW b \in Nat, b > 0
  PROVE  a \div b \in Int /\ b * (a \div b) <= a /\ a < b * (a \div b) + b
  OBVIOUS

\* Widths at a height, rounded down: in the order of the ratios, and not more
\* apart than together.
LEMMA WidthsAt ==
  ASSUME NEW a \in Nat, NEW b \in Nat, NEW h \in Nat
  PROVE  /\ (a * h) \div 10 \in Nat
         /\ (a * h) \div 10 + (b * h) \div 10 <= ((a + b) * h) \div 10
         /\ a <= b => (a * h) \div 10 <= (b * h) \div 10
  <1>1. PICK x \in Nat, y \in Nat : x = a * h /\ y = b * h
    OBVIOUS
  <1>2. (a + b) * h = x + y /\ (a <= b => x <= y)
    BY <1>1
  <1>3. x \div 10 \in Nat /\ x \div 10 + y \div 10 <= (x + y) \div 10
    OBVIOUS
  <1>4. x <= y => x \div 10 <= y \div 10
    OBVIOUS
  <1> QED BY <1>1, <1>2, <1>3, <1>4

Item == [id : Int, left : Int, width : Int]

\* The items of a row follow one another within a width.
InOrder(items, w) ==
  \A k, n \in DOMAIN items :
    /\ items[k].left + items[k].width <= w
    /\ k < n => items[k].left + items[k].width <= items[n].left

\* Photos at a height at which they fit a width become items that do.
LEMMA ItemsFit ==
  ASSUME NEW p \in Seq(Asset), p # <<>>, NEW h \in Nat, NEW w \in Int,
         NEW m \in LayoutMetrics, PendingRatio(p) * h <= 10 * (w - m.gap * (Len(p) - 1))
  PROVE  /\ ItemsOf(p, h, m) \in Seq(Item) /\ Len(ItemsOf(p, h, m)) = Len(p)
         /\ \A k \in 1 .. Len(p) : ItemsOf(p, h, m)[k].id = p[k].id
         /\ InOrder(ItemsOf(p, h, m), w)
  <1>1. PICK n \in Nat : n = Len(p) /\ DOMAIN p = 1 .. n
    OBVIOUS
  <1>2. PICK f : f = RatioUpTo(p) /\ Summed(f, p)
    BY RatioSums
  <1>3. PICK g \in Nat : g = m.gap
    BY DEF LayoutMetrics
  <1>4. \A k \in 1 .. n : p[k] \in Asset
    BY <1>1
  <1>5. ASSUME NEW k \in 1 .. n
        PROVE  /\ k - 1 \in 0 .. n /\ f[k - 1] \in Nat /\ f[k] \in Nat
               /\ GetAspectRatio(p[k]) \in Nat /\ f[k] = f[k - 1] + GetAspectRatio(p[k])
    <2>1. k \in 0 .. n /\ k - 1 \in 0 .. n
      OBVIOUS
    <2>2. p[k] \in Asset
      BY <1>4
    <2>3. PICK r \in 4 .. 25 : r = GetAspectRatio(p[k])
      BY <2>2, RatioRange
    <2>4. f[k - 1] \in Nat /\ f[k] \in Nat /\ f[k] = f[k - 1] + r
      BY <1>1, <1>2, <2>1, <2>3 DEF Summed
    <2>5. r \in Nat
      OBVIOUS
    <2> QED BY <2>1, <2>3, <2>4, <2>5
  <1> DEFINE upto == [k \in 0 .. n |-> (f[k] * h) \div 10]
             gaps == [k \in 0 .. n |-> g * k]
             left == [k \in 1 .. n |-> upto[k - 1] + gaps[k - 1]]
             breadth == [k \in 1 .. n |-> (GetAspectRatio(p[k]) * h) \div 10]
             q == [k \in 1 .. n |-> [id |-> p[k].id, left |-> left[k], width |-> breadth[k]]]
  <1>6. \A k \in 0 .. n : upto[k] \in Int /\ gaps[k] \in Int
    <2>1. \A k \in 0 .. n : f[k] \in Nat
      BY <1>1, <1>2 DEF Summed
    <2> QED BY <2>1, WidthsAt
  <1>7. ASSUME NEW k \in 1 .. n
        PROVE  /\ left[k] = upto[k - 1] + gaps[k - 1] /\ left[k] \in Int /\ breadth[k] \in Int
               /\ upto[k - 1] + breadth[k] <= upto[k]
    <2>1. PICK a \in Nat, b \in Nat :
            a = f[k - 1] /\ b = GetAspectRatio(p[k]) /\ f[k] = a + b /\ k - 1 \in 0 .. n
      BY <1>5
    <2>2. upto[k - 1] = (a * h) \div 10
      BY <2>1
    <2>3. breadth[k] = (b * h) \div 10
      BY <2>1
    <2>4. upto[k] = ((a + b) * h) \div 10
      <3>1. k \in 0 .. n /\ upto[k] = (f[k] * h) \div 10
        OBVIOUS
      <3> HIDE DEF upto
      <3> QED BY <2>1, <3>1
    <2>5. left[k] = upto[k - 1] + gaps[k - 1]
      OBVIOUS
    <2> HIDE DEF upto, breadth, left, gaps
    <2>6. PICK x \in Int, y \in Int, z \in Int, v \in Int :
            x = upto[k - 1] /\ y = gaps[k - 1] /\ z = upto[k] /\ v = (b * h) \div 10
      <3>1. (b * h) \div 10 \in Int /\ k \in 0 .. n
        BY WidthsAt
      <3> QED BY <1>6, <2>1, <3>1
    <2>7. x + v <= z
      BY <2>2, <2>4, <2>6, WidthsAt
    <2> QED BY <2>3, <2>5, <2>6, <2>7
  <1>8. ASSUME NEW k \in 0 .. n, NEW j \in 0 .. n, k <= j
        PROVE  upto[k] <= upto[j] /\ gaps[k] <= gaps[j]
    <2>1. f[k] \in Nat /\ f[j] \in Nat /\ f[k] <= f[j]
      BY <1>1, <1>2, <1>8 DEF Summed
    <2>2. upto[k] <= upto[j]
      BY <2>1, WidthsAt
    <2> QED BY <1>8, <2>2
  <1>9. n > 0 /\ upto[n] + gaps[n - 1] <= w
    <2>1. PICK a \in Nat : a = f[n]
      BY <1>1, <1>2 DEF Summed
    <2>2. n > 0 /\ n - 1 \in 0 .. n
      BY <1>1, EmptySeq
    <2>3. a * h <= 10 * (w - g * (n - 1))
      BY <1>1, <1>2, <1>3, <2>1 DEF PendingRatio
    <2>4. PICK x \in Int, y \in Int : x = a * h /\ y = g * (n - 1)
      OBVIOUS
    <2>5. x \div 10 + y <= w
      BY <2>3, <2>4
    <2> QED BY <2>1, <2>2, <2>4, <2>5
  <1>10. ItemsOf(p, h, m) = q
    BY <1>1, <1>2, <1>3, <1>5 DEF ItemsOf
  <1>11. \A k \in 1 .. n : p[k].id \in Nat
    BY <1>4 DEF Asset
  <1> HIDE DEF left, breadth, gaps, upto
  <1>12. \A k \in 1 .. n : q[k].id = p[k].id /\ q[k].left = left[k] /\ q[k].width = breadth[k]
    OBVIOUS
  <1>13. q \in Seq(Item) /\ Len(q) = n /\ DOMAIN q = 1 .. n
    <2>1. q \in [1 .. n -> Item]
      BY <1>7, <1>11 DEF Item
    <2> HIDE DEF q
    <2> QED BY <2>1
  <1> HIDE DEF q
  <1>14. ASSUME NEW k \in 1 .. n PROVE left[k] + breadth[k] <= w
    <2>1. n \in 0 .. n /\ k \in 0 .. n /\ k <= n /\ k - 1 \in 0 .. n /\ n - 1 \in 0 .. n
          /\ k - 1 <= n - 1
      OBVIOUS
    <2>2. upto[k] <= upto[n] /\ gaps[k - 1] <= gaps[n - 1]
      BY <1>8, <2>1
    <2>3. PICK x \in Int, y \in Int, z \in Int, u \in Int, v \in Int :
            /\ x = upto[k - 1] /\ y = gaps[k - 1] /\ z = upto[k] /\ u = upto[n]
            /\ v = gaps[n - 1]
      BY <1>6, <2>1
    <2>4. left[k] = x + y /\ breadth[k] \in Int /\ x + breadth[k] <= z
      BY <1>7, <2>3
    <2>5. z <= u /\ y <= v /\ u + v <= w
      BY <1>9, <2>2, <2>3
    <2> QED BY <2>4, <2>5
  <1>15. ASSUME NEW k \in 1 .. n, NEW j \in 1 .. n, k < j
         PROVE  left[k] + breadth[k] <= left[j]
    <2>1. k \in 0 .. n /\ k - 1 \in 0 .. n /\ j - 1 \in 0 .. n /\ k <= j - 1 /\ k - 1 <= j - 1
      BY <1>15
    <2>2. upto[k] <= upto[j - 1] /\ gaps[k - 1] <= gaps[j - 1]
      BY <1>8, <2>1
    <2>3. PICK x \in Int, y \in Int, z \in Int, u \in Int, v \in Int :
            /\ x = upto[k - 1] /\ y = gaps[k - 1] /\ z = upto[k] /\ u = upto[j - 1]
            /\ v = gaps[j - 1]
      BY <1>6, <2>1
    <2>4. left[k] = x + y /\ breadth[k] \in Int /\ x + breadth[k] <= z
      BY <1>7, <2>3
    <2>5. z <= u /\ y <= v /\ left[j] = u + v
      BY <1>7, <2>2, <2>3
    <2> QED BY <2>4, <2>5
  <1>16. InOrder(q, w)
    BY <1>12, <1>13, <1>14, <1>15 DEF InOrder
  <1> QED BY <1>1, <1>10, <1>12, <1>13, <1>16

-----------------------------------------------------------------------------
(* Heights.                                                                *)

\* What TimelineAssumption says of a width and the metrics.
Fitting(w, m) ==
  /\ m \in LayoutMetrics /\ m.rowHeight >= 3 /\ 3 * m.gap <= m.rowHeight
  /\ w \in Nat /\ w >= 3 * m.gap + 11

\* Pending photos that fill a row of one pixel height at most.
Narrow(p, w, m) ==
  p \in Seq(Asset) /\ p # <<>> /\ PendingRatio(p) <= 10 * (w - m.gap * (Len(p) - 1))

\* Pending photos that do not fill a row of the target height.
Open(p, w, m) ==
  p \in Seq(Asset) /\ (p # <<>> => RowWidthAt(p, m.rowHeight, m) < w)

\* The numbers of a row: its photos, their ratios, and its width at a height.
LEMMA RowNumbers ==
  ASSUME NEW p \in Seq(Asset), p # <<>>, NEW m \in LayoutMetrics, NEW h \in Nat
  PROVE  /\ Len(p) \in Nat /\ Len(p) >= 1 /\ m.gap \in Nat /\ m.rowHeight \in Nat
         /\ PendingRatio(p) \in Nat
         /\ 4 * Len(p) <= PendingRatio(p) /\ PendingRatio(p) <= 25 * Len(p)
         /\ RowWidthAt(p, h, m) = (PendingRatio(p) * h) \div 10 + m.gap * (Len(p) - 1)
         /\ RowWidthAt(p, h, m) \in Int
  <1>1. PICK n \in Nat : n = Len(p) /\ n >= 1
    BY EmptySeq
  <1>2. m.gap \in Nat /\ m.rowHeight \in Nat
    BY DEF LayoutMetrics
  <1>3. PICK r \in Nat : r = PendingRatio(p) /\ 4 * n <= r /\ r <= 25 * n
    <2>1. Summed(RatioUpTo(p), p) /\ n \in 0 .. Len(p)
      BY <1>1, RatioSums
    <2> QED BY <1>1, <2>1 DEF Summed, PendingRatio
  <1>4. Max({0, n - 1}) = n - 1
    <2>1. 0 \in Int /\ n - 1 \in Int /\ ~(0 >= n - 1 /\ n - 1 # 0)
      BY <1>1
    <2> QED BY <2>1, MaxMinOf
  <1>5. RowWidthAt(p, h, m) = (r * h) \div 10 + m.gap * (n - 1)
    BY <1>1, <1>3, <1>4 DEF RowWidthAt
  <1>6. (r * h) \div 10 \in Int /\ m.gap * (n - 1) \in Int
    BY <1>2, WidthsAt
  <1> QED BY <1>1, <1>2, <1>3, <1>5, <1>6

\* A row that fills two thirds of the width or more is justified without
\* growing beyond twice the target height, and fits the width.
LEMMA JustifiedHeight ==
  ASSUME NEW p, NEW w, NEW m, Fitting(w, m), Narrow(p, w, m),
         100 * RowWidthAt(p, m.rowHeight, m) >= 66 * w
  PROVE  /\ FitHeight(p, w, m) \in Nat /\ FitHeight(p, w, m) >= 1
         /\ FitHeight(p, w, m) <= 2 * m.rowHeight
         /\ PendingRatio(p) * FitHeight(p, w, m) <= 10 * (w - m.gap * (Len(p) - 1))
  <1>1. PICK n \in Nat, r \in Nat, g \in Nat, h \in Nat :
          n = Len(p) /\ r = PendingRatio(p) /\ g = m.gap /\ h = m.rowHeight
    BY RowNumbers DEF Fitting, Narrow
  <1>2. n >= 1 /\ 4 * n <= r /\ 3 * g <= h /\ w \in Nat
    BY <1>1, RowNumbers DEF Fitting, Narrow
  <1>3. PICK gaps \in Nat, x \in Nat : gaps = g * (n - 1) /\ x = r * h
    BY <1>2
  <1>4. r <= 10 * (w - gaps) /\ 100 * (x \div 10 + gaps) >= 66 * w
    <2>1. RowWidthAt(p, h, m) = x \div 10 + gaps
      BY <1>1, <1>3, RowNumbers DEF Fitting, Narrow
    <2> QED BY <1>1, <1>3, <2>1 DEF Narrow
  <1>5. x >= 12 * gaps
    <2>1. gaps <= g * n /\ g * n \in Nat
      BY <1>3
    <2>2. r * h >= (4 * n) * (3 * g)
      BY <1>2
    <2>3. (4 * n) * (3 * g) = 12 * (g * n)
      OBVIOUS
    <2> QED BY <1>3, <2>1, <2>2, <2>3
  <1>6. PICK f \in Int : f = (10 * (w - gaps)) \div r
    BY <1>2, Quotient
  <1>7. r * f <= 10 * (w - gaps) /\ 10 * (w - gaps) < r * f + r
    BY <1>2, <1>6, Quotient
  <1>8. f >= 1
    BY <1>2, <1>4, <1>7
  <1>9. f <= 2 * h
    <2>1. SUFFICES ASSUME f >= 2 * h + 1 PROVE FALSE
      OBVIOUS
    <2>2. r * f >= r * (2 * h + 1) /\ r * (2 * h + 1) = 2 * x + r
      BY <1>2, <1>3, <2>1
    <2>3. 2 * x + r <= 10 * (w - gaps)
      BY <1>2, <1>7, <2>2
    <2> QED BY <1>2, <1>4, <1>5, <2>3
  <1>10. FitHeight(p, w, m) = f
    BY <1>1, <1>3, <1>6 DEF FitHeight
  <1> QED BY <1>1, <1>2, <1>3, <1>7, <1>8, <1>9, <1>10

\* A trailing row keeps the target height, or what fits the width.
LEMMA TrailingHeight ==
  ASSUME NEW p, NEW w, NEW m, Fitting(w, m), Narrow(p, w, m), NEW h,
         h = Max({1, Min({FitHeight(p, w, m), m.rowHeight})})
  PROVE  /\ h \in Nat /\ h >= 1 /\ h <= m.rowHeight
         /\ PendingRatio(p) * h <= 10 * (w - m.gap * (Len(p) - 1))
  <1>1. PICK n \in Nat, r \in Nat, g \in Nat, t \in Nat :
          n = Len(p) /\ r = PendingRatio(p) /\ g = m.gap /\ t = m.rowHeight
    BY RowNumbers DEF Fitting, Narrow
  <1>2. n >= 1 /\ 4 * n <= r /\ t >= 3 /\ w \in Nat
    BY <1>1, RowNumbers DEF Fitting, Narrow
  <1>3. PICK gaps \in Nat : gaps = g * (n - 1)
    BY <1>2
  <1>4. r <= 10 * (w - gaps)
    BY <1>1, <1>3 DEF Narrow
  <1>5. PICK f \in Int : f = (10 * (w - gaps)) \div r
    BY <1>2, Quotient
  <1>6. r * f <= 10 * (w - gaps) /\ 10 * (w - gaps) < r * f + r
    BY <1>2, <1>5, Quotient
  <1>7. f >= 1
    BY <1>2, <1>4, <1>6
  <1>8. FitHeight(p, w, m) = f
    BY <1>1, <1>3, <1>5 DEF FitHeight
  <1>9. Min({f, t}) = IF f <= t THEN f ELSE t
    <2>1. f \in Int /\ t \in Int
      OBVIOUS
    <2> QED BY <2>1, MaxMinOf
  <1>10. PICK k \in Int : k = Min({f, t}) /\ 1 <= k /\ k <= f /\ k <= t
    BY <1>2, <1>7, <1>9
  <1>11. h = k
    <2>1. 1 \in Int /\ k \in Int /\ (1 >= k => k = 1)
      BY <1>10
    <2>2. Max({1, k}) = k
      BY <2>1, MaxMinOf
    <2> QED BY <1>1, <1>8, <1>10, <2>2
  <1>12. r * k <= 10 * (w - gaps)
    <2>1. r * k <= r * f
      BY <1>10
    <2> QED BY <1>2, <1>6, <2>1
  <1> QED BY <1>1, <1>3, <1>10, <1>11, <1>12

\* A single photo is narrow enough for any width.
LEMMA OneIsNarrow ==
  ASSUME NEW a \in Asset, NEW w, NEW m, Fitting(w, m)
  PROVE  /\ Narrow(Append(<<>>, a), w, m) /\ Len(Append(<<>>, a)) = 1
         /\ Append(<<>>, a)[1] = a
  <1>1. <<>> \in Seq(Asset) /\ Len(<<>>) = 0
    OBVIOUS
  <1>2. PICK p : p = Append(<<>>, a)
    OBVIOUS
  <1>3. p \in Seq(Asset) /\ p # <<>> /\ Len(p) = 1 /\ p[1] = a
    BY <1>1, <1>2, AppendProperties
  <1>4. m \in LayoutMetrics /\ w \in Nat /\ w >= 3 * m.gap + 11 /\ m.gap \in Nat
    BY DEF Fitting, LayoutMetrics
  <1>5. PICK r \in Nat : r = PendingRatio(p) /\ r <= 25
    <2>1. 0 \in Nat
      OBVIOUS
    <2>2. PendingRatio(p) \in Nat /\ PendingRatio(p) <= 25 * Len(p)
      BY <1>3, <1>4, <2>1, RowNumbers
    <2> QED BY <1>3, <2>2
  <1>6. m.gap * (1 - 1) = 0
    BY <1>4
  <1> QED BY <1>2, <1>3, <1>4, <1>5, <1>6 DEF Narrow

\* Photos that do not overflow the width, or of which the last one does while
\* the row without it is short, fit it at some height.
LEMMA MoreIsNarrow ==
  ASSUME NEW p, NEW a \in Asset, NEW w, NEW m, Fitting(w, m),
         p \in Seq(Asset), p # <<>>,
         \/ RowWidthAt(Append(p, a), m.rowHeight, m) <= w
         \/ 100 * RowWidthAt(p, m.rowHeight, m) < 66 * w
  PROVE  Narrow(Append(p, a), w, m)
  <1>1. PICK q : q = Append(p, a)
    OBVIOUS
  <1>2. q \in Seq(Asset) /\ q # <<>> /\ Len(q) = Len(p) + 1
        /\ PendingRatio(q) = PendingRatio(p) + GetAspectRatio(a)
    BY <1>1, RatioAdds
  <1>3. PICK n \in Nat, r \in Nat, g \in Nat, h \in Nat :
          n = Len(p) /\ r = PendingRatio(p) /\ g = m.gap /\ h = m.rowHeight
    BY RowNumbers DEF Fitting
  <1>4. n >= 1 /\ 4 * n <= r /\ h >= 3 /\ w \in Nat /\ w >= 3 * g + 11
    BY <1>3, RowNumbers DEF Fitting
  <1>5. PICK b \in Nat : b = GetAspectRatio(a) /\ 4 <= b /\ b <= 25
    BY RatioRange
  <1>6. PICK gaps \in Nat, x \in Nat, y \in Nat :
          gaps = g * (n - 1) /\ x = r * h /\ y = (r + b) * h
    BY <1>4
  <1>7. g * n = gaps + g /\ x >= 3 * r /\ y >= 3 * (r + b)
    BY <1>4, <1>6
  <1>8. RowWidthAt(p, h, m) = x \div 10 + gaps
    BY <1>3, <1>6, RowNumbers DEF Fitting
  <1>9. RowWidthAt(q, h, m) = y \div 10 + (gaps + g)
    <2>1. RowWidthAt(q, h, m) = (PendingRatio(q) * h) \div 10 + m.gap * (Len(q) - 1)
      BY <1>2, <1>3, RowNumbers DEF Fitting
    <2>2. Len(q) - 1 = n
      BY <1>2, <1>3
    <2> QED BY <1>2, <1>3, <1>5, <1>6, <1>7, <2>1, <2>2
  <1>10. r + b <= 10 * (w - (gaps + g))
    <2>1. CASE y \div 10 + (gaps + g) <= w
      BY <1>4, <1>5, <1>7, <2>1
    <2>2. CASE 100 * (x \div 10 + gaps) < 66 * w
      <3>1. x <= 10 * (x \div 10) + 9 /\ x \div 10 \in Nat
        OBVIOUS
      <3> QED BY <1>4, <1>5, <1>7, <2>2, <3>1
    <2> QED BY <1>1, <1>3, <1>8, <1>9, <2>1, <2>2
  <1>11. Len(q) - 1 = n /\ m.gap * n = gaps + g
    BY <1>2, <1>3, <1>7
  <1> QED BY <1>1, <1>2, <1>3, <1>5, <1>10, <1>11 DEF Narrow

\* What does not fill a row at the target height fits it at some height.
LEMMA OpenIsNarrow ==
  ASSUME NEW p, NEW w, NEW m, Fitting(w, m), Open(p, w, m), p # <<>>
  PROVE  Narrow(p, w, m)
  <1>1. PICK n \in Nat, r \in Nat, g \in Nat, h \in Nat :
          n = Len(p) /\ r = PendingRatio(p) /\ g = m.gap /\ h = m.rowHeight
    BY RowNumbers DEF Fitting, Open
  <1>2. n >= 1 /\ 4 * n <= r /\ h >= 3 /\ w \in Nat
    BY <1>1, RowNumbers DEF Fitting, Open
  <1>3. PICK gaps \in Nat, x \in Nat : gaps = g * (n - 1) /\ x = r * h
    BY <1>2
  <1>4. x \div 10 + gaps < w
    <2>1. RowWidthAt(p, h, m) = x \div 10 + gaps
      BY <1>1, <1>3, RowNumbers DEF Fitting, Open
    <2> QED BY <1>1, <2>1 DEF Open
  <1>5. x >= 3 * r
    BY <1>2, <1>3
  <1>6. r <= 10 * (w - gaps)
    BY <1>2, <1>4, <1>5
  <1> QED BY <1>1, <1>3, <1>6 DEF Narrow, Open

-----------------------------------------------------------------------------
(* Blocks of rows.                                                         *)

Row == [kind : {"header", "assets"}, top : Int, height : Nat, items : Seq(Item)]

\* A header holds nothing; a row of photos holds some, is not too high, and
\* shows them within the width.
RowSound(r, w, m) ==
  /\ r.kind = "header" => r.items = <<>>
  /\ r.kind = "assets" => r.items # <<>> /\ r.height >= 1 /\ r.height <= 2 * m.rowHeight
  /\ InOrder(r.items, w)

IdsOf(items) == {items[k].id : k \in DOMAIN items}

\* Items that show their photos one before the other.
Follow(items, before) ==
  \A k, n \in DOMAIN items : k < n => <<items[k].id, items[n].id>> \in before

\* Rows from lo to hi, one under the other, that show the photos S in order.
Block(rows, S, before, lo, hi, w, m) ==
  /\ rows \in Seq(Row) /\ lo \in Int /\ hi \in Int /\ lo <= hi
  /\ \A i \in DOMAIN rows : /\ RowSound(rows[i], w, m) /\ Follow(rows[i].items, before)
                            /\ IdsOf(rows[i].items) \subseteq S
                            /\ lo <= rows[i].top /\ rows[i].top + rows[i].height <= hi
  /\ \A i, j \in DOMAIN rows : i < j =>
       /\ rows[i].top + rows[i].height <= rows[j].top
       /\ IdsOf(rows[i].items) \X IdsOf(rows[j].items) \subseteq before
  /\ \A x \in S : \E i \in DOMAIN rows : x \in IdsOf(rows[i].items)

\* A row among others has a place and a height.
LEMMA RowPlaces ==
  ASSUME NEW rows \in Seq(Row), NEW i \in DOMAIN rows
  PROVE  /\ rows[i] \in Row /\ rows[i].top \in Int /\ rows[i].height \in Nat
         /\ rows[i].items \in Seq(Item) /\ rows[i].kind \in {"header", "assets"}
  <1>1. rows[i] \in Row
    OBVIOUS
  <1> QED BY <1>1 DEF Row

\* There is an empty block at any place.
LEMMA BlockEmpty ==
  ASSUME NEW before, NEW y \in Int, NEW w, NEW m
  PROVE  Block(<<>>, {}, before, y, y, w, m)
  BY DEF Block

\* A row below a block makes a larger one.
LEMMA BlockAppend ==
  ASSUME NEW rows, NEW S, NEW before, NEW lo, NEW hi, NEW w, NEW m,
         Block(rows, S, before, lo, hi, w, m),
         NEW r \in Row, RowSound(r, w, m), Follow(r.items, before), hi <= r.top,
         S \X IdsOf(r.items) \subseteq before
  PROVE  Block(Append(rows, r), S \union IdsOf(r.items), before, lo, r.top + r.height, w, m)
  <1>1. PICK n \in Nat : n = Len(rows) /\ DOMAIN rows = 1 .. n
    BY DEF Block
  <1>2. PICK all : all = Append(rows, r)
    OBVIOUS
  <1>3. all \in Seq(Row) /\ DOMAIN all = 1 .. n + 1 /\ all[n + 1] = r
        /\ \A i \in 1 .. n : all[i] = rows[i]
    BY <1>1, <1>2, AppendProperties DEF Block
  <1>4. PICK y \in Int, h \in Nat : y = r.top /\ h = r.height
    BY DEF Row
  <1>5. lo \in Int /\ hi \in Int /\ lo <= hi /\ hi <= y /\ lo <= y + h /\ y + h \in Int
    BY <1>4 DEF Block
  <1>6. \A i \in 1 .. n : rows[i].top \in Int /\ rows[i].height \in Nat
    BY <1>1, RowPlaces DEF Block
  <1>7. ASSUME NEW i \in 1 .. n + 1
        PROVE  /\ RowSound(all[i], w, m) /\ Follow(all[i].items, before)
               /\ IdsOf(all[i].items) \subseteq S \union IdsOf(r.items)
               /\ lo <= all[i].top /\ all[i].top + all[i].height <= y + h
    <2>1. CASE i = n + 1
      BY <1>3, <1>4, <1>5, <2>1
    <2>2. CASE i # n + 1
      <3>1. i \in 1 .. n /\ all[i] = rows[i]
        BY <1>3, <2>2
      <3>2. rows[i].top + rows[i].height <= hi
        BY <1>1, <3>1 DEF Block
      <3>3. rows[i].top + rows[i].height <= y + h
        BY <1>4, <1>5, <1>6, <3>1, <3>2
      <3> QED BY <1>1, <3>1, <3>3 DEF Block
    <2> QED BY <2>1, <2>2
  <1>8. ASSUME NEW i \in 1 .. n + 1, NEW j \in 1 .. n + 1, i < j
        PROVE  /\ all[i].top + all[i].height <= all[j].top
               /\ IdsOf(all[i].items) \X IdsOf(all[j].items) \subseteq before
    <2>1. i \in 1 .. n /\ all[i] = rows[i]
      BY <1>3, <1>8
    <2>2. CASE j = n + 1
      <3>1. rows[i].top + rows[i].height <= hi /\ IdsOf(rows[i].items) \subseteq S
        BY <1>1, <2>1 DEF Block
      <3>2. rows[i].top + rows[i].height <= y
        BY <1>5, <1>6, <2>1, <3>1
      <3>3. IdsOf(rows[i].items) \X IdsOf(r.items) \subseteq before
        BY <3>1
      <3> QED BY <1>3, <1>4, <2>1, <2>2, <3>2, <3>3
    <2>3. CASE j # n + 1
      <3>1. j \in 1 .. n /\ all[j] = rows[j]
        BY <1>3, <2>3
      <3> QED BY <1>1, <1>8, <2>1, <3>1 DEF Block
    <2> QED BY <2>2, <2>3
  <1>9. ASSUME NEW x \in S \union IdsOf(r.items)
        PROVE  \E i \in 1 .. n + 1 : x \in IdsOf(all[i].items)
    <2>1. CASE x \in S
      <3>1. PICK i \in 1 .. n : x \in IdsOf(rows[i].items)
        BY <1>1, <2>1 DEF Block
      <3> QED BY <1>3, <3>1
    <2>2. CASE x \in IdsOf(r.items)
      BY <1>3, <2>2
    <2> QED BY <2>1, <2>2
  <1> QED BY <1>2, <1>3, <1>4, <1>5, <1>7, <1>8, <1>9 DEF Block

\* A block below another makes a larger one.
LEMMA BlockJoin ==
  ASSUME NEW rows, NEW S, NEW before, NEW lo, NEW hi, NEW w, NEW m,
         Block(rows, S, before, lo, hi, w, m),
         NEW more, NEW T, NEW from, NEW end, Block(more, T, before, from, end, w, m),
         hi <= from, S \X T \subseteq before
  PROVE  Block(rows \o more, S \union T, before, lo, end, w, m)
  <1>1. PICK n \in Nat, k \in Nat : /\ n = Len(rows) /\ DOMAIN rows = 1 .. n
                                   /\ k = Len(more) /\ DOMAIN more = 1 .. k
    BY DEF Block
  <1>2. PICK all : all = rows \o more
    OBVIOUS
  <1>3. all \in Seq(Row) /\ DOMAIN all = 1 .. n + k /\ \A i \in 1 .. n : all[i] = rows[i]
    BY <1>1, <1>2, ConcatProperties DEF Block
  <1>4. \A i \in 1 .. n + k : i > n => all[i] = more[i - n] /\ i - n \in 1 .. k
    BY <1>1, <1>2, ConcatProperties DEF Block
  <1>5. lo \in Int /\ hi \in Int /\ from \in Int /\ end \in Int
        /\ lo <= hi /\ hi <= from /\ from <= end /\ lo <= end
    BY DEF Block
  <1>6. /\ \A i \in 1 .. n : rows[i].top \in Int /\ rows[i].height \in Nat
        /\ \A i \in 1 .. k : more[i].top \in Int /\ more[i].height \in Nat
    BY <1>1, RowPlaces DEF Block
  <1>7. ASSUME NEW i \in 1 .. n + k
        PROVE  /\ RowSound(all[i], w, m) /\ Follow(all[i].items, before)
               /\ IdsOf(all[i].items) \subseteq S \union T
               /\ lo <= all[i].top /\ all[i].top + all[i].height <= end
    <2>1. CASE i > n
      <3>1. PICK j \in 1 .. k : all[i] = more[j]
        BY <1>4, <2>1
      <3>2. from <= more[j].top
        BY <1>1, <3>1 DEF Block
      <3>3. lo <= more[j].top
        BY <1>5, <1>6, <3>2
      <3> QED BY <1>1, <3>1, <3>3 DEF Block
    <2>2. CASE i <= n
      <3>1. i \in 1 .. n /\ all[i] = rows[i]
        BY <1>3, <2>2
      <3>2. rows[i].top + rows[i].height <= hi
        BY <1>1, <3>1 DEF Block
      <3>3. rows[i].top + rows[i].height <= end
        BY <1>5, <1>6, <3>1, <3>2
      <3> QED BY <1>1, <3>1, <3>3 DEF Block
    <2> QED BY <2>1, <2>2
  <1>8. ASSUME NEW i \in 1 .. n + k, NEW j \in 1 .. n + k, i < j
        PROVE  /\ all[i].top + all[i].height <= all[j].top
               /\ IdsOf(all[i].items) \X IdsOf(all[j].items) \subseteq before
    <2>1. CASE j <= n
      <3>1. i \in 1 .. n /\ j \in 1 .. n /\ all[i] = rows[i] /\ all[j] = rows[j]
        BY <1>3, <1>8, <2>1
      <3> QED BY <1>1, <1>8, <3>1 DEF Block
    <2>2. CASE i > n
      <3>1. PICK a \in 1 .. k, b \in 1 .. k : a = i - n /\ b = j - n
        BY <1>4, <1>8, <2>2
      <3>2. all[i] = more[a] /\ all[j] = more[b] /\ a < b
        BY <1>4, <1>8, <2>2, <3>1
      <3> QED BY <1>1, <3>2 DEF Block
    <2>3. CASE i <= n /\ j > n
      <3>1. i \in 1 .. n /\ all[i] = rows[i]
        BY <1>3, <2>3
      <3>2. PICK b \in 1 .. k : all[j] = more[b]
        BY <1>4, <2>3
      <3>3. rows[i].top + rows[i].height <= hi /\ IdsOf(rows[i].items) \subseteq S
        BY <1>1, <3>1 DEF Block
      <3>4. from <= more[b].top /\ IdsOf(more[b].items) \subseteq T
        BY <1>1, <3>2 DEF Block
      <3>5. rows[i].top + rows[i].height <= more[b].top
        BY <1>5, <1>6, <3>1, <3>3, <3>4
      <3>6. IdsOf(rows[i].items) \X IdsOf(more[b].items) \subseteq before
        BY <3>3, <3>4
      <3> QED BY <3>1, <3>2, <3>5, <3>6
    <2> QED BY <2>1, <2>2, <2>3
  <1>9. ASSUME NEW x \in S \union T
        PROVE  \E i \in 1 .. n + k : x \in IdsOf(all[i].items)
    <2>1. CASE x \in S
      <3>1. PICK i \in 1 .. n : x \in IdsOf(rows[i].items)
        BY <1>1, <2>1 DEF Block
      <3> QED BY <1>3, <3>1
    <2>2. CASE x \in T
      <3>1. PICK i \in 1 .. k : x \in IdsOf(more[i].items)
        BY <1>1, <2>2 DEF Block
      <3>2. n + i \in 1 .. n + k /\ all[n + i] = more[i]
        <4>1. n + i \in 1 .. n + k /\ n + i > n /\ (n + i) - n = i
          OBVIOUS
        <4> QED BY <1>4, <4>1
      <3> QED BY <3>1, <3>2
    <2> QED BY <2>1, <2>2
  <1> QED BY <1>2, <1>3, <1>5, <1>7, <1>8, <1>9 DEF Block

-----------------------------------------------------------------------------
(* The rows of a day.                                                      *)

\* The ids of the photos of a list from one place to another.
Ids(u, i, j) == {u[k].id : k \in i .. j}

\* Photos listed in the order they are to be shown in.
Listed(u, before) ==
  u \in Seq(Asset) /\ \A i, j \in DOMAIN u : i < j => <<u[i].id, u[j].id>> \in before

Builder == [rows : Seq(Row), y : Int, pending : Seq(Asset)]

\* The pending photos are the last ones of the first k.
Pending(p, u, c, k) == Len(p) = k - c /\ \A i \in 1 .. k - c : p[i] = u[c + i]

\* The first k photos of a list from a place on: in rows, but for the pending ones.
Building(b, u, k, before, y, w, m) ==
  /\ b \in Builder /\ Built(b, m).bottom <= b.y
  /\ \E c \in 0 .. k : /\ Pending(b.pending, u, c, k)
                       /\ Block(b.rows, Ids(u, 1, c), before, y, Built(b, m).bottom, w, m)

\* The pending photos become a row below the others, at a height they fit.
LEMMA RowAddedDoes ==
  ASSUME NEW u, NEW before, Listed(u, before), NEW k \in 0 .. Len(u), NEW y, NEW w \in Nat,
         NEW m \in LayoutMetrics, NEW b, Building(b, u, k, before, y, w, m),
         b.pending # <<>>, NEW h \in Nat, h >= 1, h <= 2 * m.rowHeight,
         PendingRatio(b.pending) * h <= 10 * (w - m.gap * (Len(b.pending) - 1))
  PROVE  /\ Building(RowAdded(b, h, m), u, k, before, y, w, m)
         /\ RowAdded(b, h, m).pending = <<>>
  <1>1. PICK c \in 0 .. k :
          /\ Pending(b.pending, u, c, k)
          /\ Block(b.rows, Ids(u, 1, c), before, y, Built(b, m).bottom, w, m)
    BY DEF Building
  <1>2. PICK p \in Seq(Asset), rows \in Seq(Row), at \in Int, g \in Nat :
          p = b.pending /\ rows = b.rows /\ at = b.y /\ g = m.gap
    BY DEF Building, Builder, LayoutMetrics
  <1> DEFINE n == k - c
  <1>0. /\ k \in Nat /\ c \in Nat /\ n \in Nat /\ c + n = k
        /\ \A i \in 1 .. n : c + i \in DOMAIN u
        /\ \A i \in 1 .. k : i \in DOMAIN u
    <2>1. PICK N \in Nat : N = Len(u) /\ DOMAIN u = 1 .. N
      BY DEF Listed
    <2> QED BY <2>1
  <1>3. Len(p) = n /\ \A i \in 1 .. n : p[i] = u[c + i]
    BY <1>1, <1>2 DEF Pending
  <1> HIDE DEF n
  <1>4. PICK items : items = ItemsOf(p, h, m)
    OBVIOUS
  <1>5. /\ items \in Seq(Item) /\ Len(items) = n /\ InOrder(items, w)
        /\ \A i \in 1 .. n : items[i].id = p[i].id
    <2>1. /\ PendingRatio(p) * h <= 10 * (w - m.gap * (Len(p) - 1)) /\ w \in Int
          /\ p # <<>>
      BY <1>2
    <2>2. /\ ItemsOf(p, h, m) \in Seq(Item) /\ Len(ItemsOf(p, h, m)) = Len(p)
          /\ \A j \in 1 .. Len(p) : ItemsOf(p, h, m)[j].id = p[j].id
          /\ InOrder(ItemsOf(p, h, m), w)
      BY <2>1, ItemsFit
    <2> QED BY <1>3, <1>4, <2>2
  <1>6. DOMAIN items = 1 .. n /\ items # <<>>
    <2>1. n # 0
      BY <1>2, <1>3, EmptySeq
    <2> QED BY <1>0, <1>5, <2>1
  <1>7. \A i \in 1 .. n : items[i].id = u[c + i].id
    BY <1>3, <1>5
  <1>8. PICK r : r = [kind |-> "assets", top |-> at, height |-> h, items |-> items]
    OBVIOUS
  <1>9. r \in Row /\ r.items = items /\ r.top = at /\ r.height = h /\ r.kind = "assets"
    BY <1>5, <1>8 DEF Row
  <1>10. RowSound(r, w, m)
    BY <1>5, <1>6, <1>9 DEF RowSound
  <1>11. Follow(r.items, before)
    <2>1. ASSUME NEW i \in 1 .. n, NEW j \in 1 .. n, i < j
          PROVE  << items[i].id, items[j].id >> \in before
      <3>1. c + i \in DOMAIN u /\ c + j \in DOMAIN u /\ c + i < c + j
        BY <1>0, <2>1
      <3>2. << u[c + i].id, u[c + j].id >> \in before
        BY <3>1 DEF Listed
      <3> QED BY <1>7, <3>2
    <2> QED BY <1>6, <1>9, <2>1 DEF Follow
  <1>12. IdsOf(r.items) = Ids(u, c + 1, k)
    <2>1. ASSUME NEW x \in Ids(u, c + 1, k) PROVE x \in IdsOf(r.items)
      <3>1. PICK i \in c + 1 .. k : x = u[i].id
        BY <2>1 DEF Ids
      <3>2. i - c \in 1 .. n /\ c + (i - c) = i
        BY <1>0, <3>1
      <3>3. x = items[i - c].id
        BY <1>7, <3>1, <3>2
      <3> QED BY <1>6, <1>9, <3>2, <3>3 DEF IdsOf
    <2>2. ASSUME NEW x \in IdsOf(r.items) PROVE x \in Ids(u, c + 1, k)
      <3>1. PICK i \in 1 .. n : x = u[c + i].id
        BY <1>6, <1>7, <1>9, <2>2 DEF IdsOf
      <3>2. c + i \in c + 1 .. k
        BY <1>0, <3>1
      <3> QED BY <3>1, <3>2 DEF Ids
    <2> QED BY <2>1, <2>2
  <1>13. Ids(u, 1, c) \X Ids(u, c + 1, k) \subseteq before
    <2>1. ASSUME NEW i \in 1 .. c, NEW j \in c + 1 .. k
          PROVE  << u[i].id, u[j].id >> \in before
      <3>1. i \in DOMAIN u /\ j \in DOMAIN u /\ i < j
        BY <1>0, <2>1
      <3> QED BY <3>1 DEF Listed
    <2> QED BY <2>1 DEF Ids
  <1>14. Ids(u, 1, c) \union Ids(u, c + 1, k) = Ids(u, 1, k)
    <2>1. 1 .. k = (1 .. c) \union (c + 1 .. k)
      BY <1>0
    <2> QED BY <2>1 DEF Ids
  <1>15. Built(b, m).bottom <= at
    BY <1>2 DEF Building
  <1>16. PICK more : more = Append(rows, r)
    OBVIOUS
  <1>17. Block(more, Ids(u, 1, k), before, y, at + h, w, m)
    <2>1. Block(rows, Ids(u, 1, c), before, y, Built(b, m).bottom, w, m)
      BY <1>1, <1>2
    <2>2. Ids(u, 1, c) \X IdsOf(r.items) \subseteq before /\ Built(b, m).bottom <= r.top
      BY <1>9, <1>12, <1>13, <1>15
    <2>3. Block(Append(rows, r), Ids(u, 1, c) \union IdsOf(r.items), before, y,
                r.top + r.height, w, m)
      BY <1>9, <1>10, <1>11, <2>1, <2>2, BlockAppend
    <2> QED BY <1>9, <1>12, <1>14, <1>16, <2>3
  <1>18. more \in Seq(Row) /\ more # <<>>
    BY <1>9, <1>16, AppendProperties
  <1>19. RowAdded(b, h, m) = [rows |-> more, y |-> at + h + g, pending |-> <<>>]
    BY <1>2, <1>4, <1>8, <1>16 DEF RowAdded
  <1>20. PICK x : x = RowAdded(b, h, m)
    OBVIOUS
  <1>21. x.rows = more /\ x.y = at + h + g /\ x.pending = <<>> /\ x \in Builder
    BY <1>18, <1>19, <1>20 DEF Builder
  <1>22. Built(x, m).bottom = at + h
    <2>1. Built(x, m).bottom = (at + h + g) - g
      BY <1>2, <1>18, <1>21 DEF Built
    <2> QED BY <2>1
  <1>23. Pending(x.pending, u, k, k) /\ k \in 0 .. k /\ at + h <= x.y
    BY <1>0, <1>21 DEF Pending
  <1>24. Building(x, u, k, before, y, w, m)
    BY <1>17, <1>21, <1>22, <1>23 DEF Building
  <1> QED BY <1>20, <1>21, <1>24

\* A justified row is added whole.
LEMMA Justified ==
  ASSUME NEW u, NEW before, Listed(u, before), NEW k \in 0 .. Len(u), NEW y, NEW w,
         NEW m, Fitting(w, m), NEW b, Building(b, u, k, before, y, w, m),
         Narrow(b.pending, w, m), 100 * RowWidthAt(b.pending, m.rowHeight, m) >= 66 * w
  PROVE  /\ Building(Flush(b, TRUE, w, m), u, k, before, y, w, m)
         /\ Flush(b, TRUE, w, m).pending = <<>>
  <1>1. PICK h \in Nat : /\ h = FitHeight(b.pending, w, m) /\ h >= 1 /\ h <= 2 * m.rowHeight
                         /\ PendingRatio(b.pending) * h
                              <= 10 * (w - m.gap * (Len(b.pending) - 1))
    BY JustifiedHeight
  <1>2. b.pending # <<>> /\ w \in Nat /\ m \in LayoutMetrics
    BY DEF Narrow, Fitting
  <1>3. Flush(b, TRUE, w, m) = RowAdded(b, Max({1, Min({h})}), m)
    <2>1. {FitHeight(b.pending, w, m)} \union {} = {h}
      BY <1>1
    <2> QED BY <1>2, <2>1 DEF Flush
  <1>4. Min({h}) = h
    BY DEF Min
  <1>5. Max({1, h}) = h
    <2>1. 1 \in Int /\ h \in Int /\ (1 >= h => h = 1)
      BY <1>1
    <2> QED BY <2>1, MaxMinOf
  <1>6. Flush(b, TRUE, w, m) = RowAdded(b, h, m)
    BY <1>3, <1>4, <1>5
  <1>7. /\ Building(RowAdded(b, h, m), u, k, before, y, w, m)
        /\ RowAdded(b, h, m).pending = <<>>
    BY <1>1, <1>2, RowAddedDoes, Zenon
  <1> QED BY <1>6, <1>7

\* The trailing row is added whole.
LEMMA Trailing ==
  ASSUME NEW u, NEW before, Listed(u, before), NEW k \in 0 .. Len(u), NEW y, NEW w,
         NEW m, Fitting(w, m), NEW b, Building(b, u, k, before, y, w, m),
         Open(b.pending, w, m)
  PROVE  /\ Building(Flush(b, FALSE, w, m), u, k, before, y, w, m)
         /\ Flush(b, FALSE, w, m).pending = <<>>
  <1>1. CASE b.pending = <<>>
    BY <1>1 DEF Flush
  <1>2. CASE b.pending # <<>>
    <2>1. Narrow(b.pending, w, m)
      BY <1>2, OpenIsNarrow
    <2>2. PICK h : h = Max({1, Min({FitHeight(b.pending, w, m), m.rowHeight})})
      OBVIOUS
    <2>3. /\ h \in Nat /\ h >= 1 /\ h <= m.rowHeight
          /\ PendingRatio(b.pending) * h <= 10 * (w - m.gap * (Len(b.pending) - 1))
      BY <2>1, <2>2, TrailingHeight
    <2>4. w \in Nat /\ m \in LayoutMetrics /\ m.rowHeight \in Nat
      BY DEF Fitting, LayoutMetrics
    <2>5. h <= 2 * m.rowHeight
      BY <2>3, <2>4
    <2>6. Flush(b, FALSE, w, m) = RowAdded(b, h, m)
      <3>1. {FitHeight(b.pending, w, m)} \union {m.rowHeight}
              = {FitHeight(b.pending, w, m), m.rowHeight}
        OBVIOUS
      <3> QED BY <1>2, <2>2, <3>1 DEF Flush
    <2>7. /\ Building(RowAdded(b, h, m), u, k, before, y, w, m)
          /\ RowAdded(b, h, m).pending = <<>>
      BY <1>2, <2>3, <2>4, <2>5, RowAddedDoes, Zenon
    <2> QED BY <2>6, <2>7
  <1> QED BY <1>1, <1>2

\* The next photo joins the pending ones.
LEMMA WithDoes ==
  ASSUME NEW u, NEW before, Listed(u, before), NEW k \in Nat, k + 1 <= Len(u), NEW y, NEW w,
         NEW m, NEW b, Building(b, u, k, before, y, w, m)
  PROVE  /\ u[k + 1] \in Asset
         /\ Building([b EXCEPT !.pending = Append(@, u[k + 1])], u, k + 1, before, y, w, m)
         /\ [b EXCEPT !.pending = Append(@, u[k + 1])].pending = Append(b.pending, u[k + 1])
  <1>1. PICK a \in Asset : a = u[k + 1]
    <2>1. PICK N \in Nat : N = Len(u) /\ u \in Seq(Asset)
      BY DEF Listed
    <2> QED BY <2>1
  <1>2. PICK c \in 0 .. k :
          /\ Pending(b.pending, u, c, k)
          /\ Block(b.rows, Ids(u, 1, c), before, y, Built(b, m).bottom, w, m)
    BY DEF Building
  <1>3. PICK p \in Seq(Asset), q \in Seq(Asset) : p = b.pending /\ q = Append(p, a)
    BY AppendProperties DEF Building, Builder
  <1>4. PICK x : x = [b EXCEPT !.pending = q]
    OBVIOUS
  <1>5. q \in Seq(Asset) /\ Len(q) = Len(p) + 1 /\ q[Len(p) + 1] = a
        /\ \A i \in 1 .. Len(p) : q[i] = p[i]
    BY <1>3, AppendProperties
  <1>6. x \in Builder /\ x.rows = b.rows /\ x.y = b.y /\ x.pending = q
    BY <1>4, <1>5 DEF Building, Builder
  <1>7. Built(x, m) = Built(b, m)
    BY <1>6 DEF Built
  <1>8. Pending(q, u, c, k + 1) /\ c \in 0 .. k + 1
    <2>1. PICK n \in Nat : n = Len(p) /\ n = k - c /\ (k + 1) - c = n + 1 /\ c + (n + 1) = k + 1
      BY <1>2, <1>3 DEF Pending
    <2>2. \A i \in 1 .. n : p[i] = u[c + i]
      BY <1>2, <1>3, <2>1 DEF Pending
    <2>3. ASSUME NEW i \in 1 .. n + 1 PROVE q[i] = u[c + i]
      <3>1. CASE i = n + 1
        BY <1>1, <1>5, <2>1, <3>1
      <3>2. CASE i # n + 1
        <4>1. i \in 1 .. n
          BY <3>2
        <4> QED BY <1>5, <2>1, <2>2, <4>1
      <3> QED BY <3>1, <3>2
    <2> QED BY <1>5, <2>1, <2>3 DEF Pending
  <1>9. Built(x, m).bottom <= x.y
    BY <1>6, <1>7 DEF Building
  <1>10. Building(x, u, k + 1, before, y, w, m)
    BY <1>2, <1>6, <1>7, <1>8, <1>9 DEF Building
  <1> QED BY <1>1, <1>3, <1>4, <1>6, <1>10

\* Every photo of a list is put into a row or waits for the next ones.
LEMMA PlaceDoes ==
  ASSUME NEW u, NEW before, Listed(u, before), NEW k \in Nat, k + 1 <= Len(u), NEW y, NEW w,
         NEW m, Fitting(w, m), NEW b, Building(b, u, k, before, y, w, m),
         Open(b.pending, w, m)
  PROVE  /\ Building(Place(b, u[k + 1], w, m), u, k + 1, before, y, w, m)
         /\ Open(Place(b, u[k + 1], w, m).pending, w, m)
  <1>1. PICK a \in Asset : a = u[k + 1]
    BY WithDoes
  <1>2. k \in 0 .. Len(u) /\ k + 1 \in 0 .. Len(u)
    <2>1. PICK N \in Nat : N = Len(u)
      BY DEF Listed
    <2> QED BY <2>1
  <1>3. ASSUME NEW p \in Seq(Asset), p # <<>>
        PROVE  RowWidthAt(p, m.rowHeight, m) \in Int
    BY <1>3, RowNumbers DEF Fitting, LayoutMetrics
  <1>4. w \in Nat
    BY DEF Fitting
  <1>5. Open(<<>>, w, m)
    BY DEF Open
  \* A row closed after the photo joined it.
  <1>6. ASSUME NEW x, Building(x, u, k + 1, before, y, w, m), NEW q, x.pending = q,
               Narrow(q, w, m), RowWidthAt(q, m.rowHeight, m) >= w
        PROVE  /\ Building(Flush(x, TRUE, w, m), u, k + 1, before, y, w, m)
               /\ Open(Flush(x, TRUE, w, m).pending, w, m)
    <2>1. PICK v \in Int : v = RowWidthAt(q, m.rowHeight, m)
      BY <1>3, <1>6 DEF Narrow
    <2>2. 100 * v >= 66 * w
      BY <1>4, <1>6, <2>1
    <2>3. 100 * RowWidthAt(x.pending, m.rowHeight, m) >= 66 * w
      BY <1>6, <2>1, <2>2
    <2>4. Narrow(x.pending, w, m)
      BY <1>6
    <2>5. /\ Building(Flush(x, TRUE, w, m), u, k + 1, before, y, w, m)
          /\ Flush(x, TRUE, w, m).pending = <<>>
      BY <1>2, <1>6, <2>3, <2>4, Justified, Zenon
    <2> QED BY <1>5, <2>5
  <1> DEFINE with == [b EXCEPT !.pending = Append(@, a)]
             full == b.pending # <<>> /\ RowWidthAt(with.pending, m.rowHeight, m) > w
             short == 100 * RowWidthAt(b.pending, m.rowHeight, m) < 66 * w
  <1>7. CASE full /\ ~short
    <2>1. b.pending \in Seq(Asset) /\ b.pending # <<>> /\ Narrow(b.pending, w, m)
      BY <1>7, OpenIsNarrow DEF Open
    <2>2. 100 * RowWidthAt(b.pending, m.rowHeight, m) >= 66 * w
      <3>1. PICK v \in Int : v = RowWidthAt(b.pending, m.rowHeight, m)
        BY <1>3, <2>1
      <3> QED BY <1>4, <1>7, <3>1
    <2>3. PICK f : /\ f = Flush(b, TRUE, w, m) /\ f.pending = <<>>
                   /\ Building(f, u, k, before, y, w, m)
      BY <1>2, <2>1, <2>2, Justified, Zenon
    <2>4. PICK x, q : /\ x = [f EXCEPT !.pending = Append(@, a)]
                      /\ q = Append(<<>>, a) /\ x.pending = q
                      /\ Building(x, u, k + 1, before, y, w, m)
      BY <1>1, <2>3, WithDoes
    <2>5. Narrow(q, w, m) /\ q \in Seq(Asset)
      BY <2>4, OneIsNarrow DEF Narrow
    <2>6. Place(b, a, w, m) = IF RowWidthAt(q, m.rowHeight, m) >= w THEN Flush(x, TRUE, w, m)
                              ELSE x
      BY <1>7, <2>3, <2>4 DEF Place, CloseIf
    <2>7. CASE RowWidthAt(q, m.rowHeight, m) >= w
      BY <1>1, <1>6, <2>4, <2>5, <2>6, <2>7
    <2>8. CASE ~(RowWidthAt(q, m.rowHeight, m) >= w)
      <3>1. Open(q, w, m)
        BY <1>3, <1>4, <2>5, <2>8 DEF Open
      <3> QED BY <1>1, <2>4, <2>6, <2>8, <3>1
    <2> QED BY <2>7, <2>8
  <1>8. CASE ~(full /\ ~short)
    <2>1. PICK x, q : /\ x = with /\ q = Append(b.pending, a) /\ x.pending = q
                      /\ Building(x, u, k + 1, before, y, w, m)
      BY <1>1, WithDoes
    <2>2. b.pending \in Seq(Asset) /\ q \in Seq(Asset) /\ q # <<>>
      BY <2>1, RatioAdds DEF Open
    <2>3. PICK v \in Int : v = RowWidthAt(q, m.rowHeight, m)
      BY <1>3, <2>2
    <2>4. Place(b, a, w, m) = IF full \/ v >= w THEN Flush(x, TRUE, w, m) ELSE x
      BY <1>8, <2>1, <2>3 DEF Place, CloseIf
    <2>5. full <=> b.pending # <<>> /\ v > w
      BY <2>1, <2>3
    <2>6. CASE v >= w
      <3>1. Narrow(q, w, m)
        <4>1. CASE b.pending = <<>>
          BY <2>1, <4>1, OneIsNarrow
        <4>2. CASE b.pending # <<>>
          <5>1. v <= w \/ short
            BY <1>4, <1>8, <2>5, <4>2
          <5>2. \/ RowWidthAt(Append(b.pending, a), m.rowHeight, m) <= w
                \/ 100 * RowWidthAt(b.pending, m.rowHeight, m) < 66 * w
            BY <2>1, <2>3, <5>1
          <5> QED BY <2>1, <2>2, <4>2, <5>2, MoreIsNarrow
        <4> QED BY <4>1, <4>2
      <3>2. Place(b, a, w, m) = Flush(x, TRUE, w, m)
        BY <2>4, <2>6
      <3> QED BY <1>1, <1>6, <2>1, <2>3, <2>6, <3>1, <3>2
    <2>7. CASE ~(v >= w)
      <3>1. v < w
        BY <1>4, <2>7
      <3>2. Place(b, a, w, m) = x
        <4>1. ~(v > w) /\ ~(v >= w)
          BY <1>4, <3>1
        <4>2. ~full
          BY <2>5, <4>1
        <4> HIDE DEF full
        <4> QED BY <2>4, <4>1, <4>2
      <3>3. Open(q, w, m)
        BY <2>2, <2>3, <3>1 DEF Open
      <3> QED BY <1>1, <2>1, <3>2, <3>3
    <2> QED BY <2>6, <2>7
  <1> QED BY <1>7, <1>8

\* The rows of a day show its photos in order, from the first place on.
LEMMA GroupRows ==
  ASSUME NEW group, NEW before, Listed(group.assets, before), group.assets # <<>>,
         NEW y \in Int, NEW w, NEW m, Fitting(w, m)
  PROVE  /\ BuildGroupRows(group, w, y, m).bottom \in Int
         /\ Block(BuildGroupRows(group, w, y, m).rows,
                  Ids(group.assets, 1, Len(group.assets)), before, y,
                  BuildGroupRows(group, w, y, m).bottom, w, m)
  <1>1. PICK u : u = group.assets /\ Listed(u, before) /\ u # <<>>
    OBVIOUS
  <1>2. PICK n \in Nat : n = Len(u)
    BY <1>1 DEF Listed
  <1> DEFINE start == [rows |-> <<>>, y |-> y, pending |-> <<>>]
             Good(k) == {b \in Builder : /\ Building(b, u, k, before, y, w, m)
                                         /\ Open(b.pending, w, m)}
             Rec(s) == s = [k \in 0 .. n |-> IF k = 0 THEN start ELSE Place(s[k - 1], u[k], w, m)]
  <1>3. start \in Good(0)
    <2>1. PICK b : b = start
      OBVIOUS
    <2>2. b \in Builder /\ b.rows = <<>> /\ b.y = y /\ b.pending = <<>>
      BY <2>1 DEF Builder
    <2>3. Built(b, m).bottom = y /\ Pending(b.pending, u, 0, 0)
      BY <2>2 DEF Built, Pending
    <2>4. Ids(u, 1, 0) = {}
      BY DEF Ids
    <2>5. Block(b.rows, Ids(u, 1, 0), before, y, Built(b, m).bottom, w, m)
      BY <2>2, <2>3, <2>4, BlockEmpty
    <2>6. Building(b, u, 0, before, y, w, m)
      BY <2>2, <2>3, <2>5 DEF Building
    <2>7. Open(b.pending, w, m)
      BY <2>2 DEF Open
    <2> QED BY <2>1, <2>2, <2>6, <2>7
  <1>4. ASSUME NEW k \in 0 .. n - 1, NEW b \in Good(k)
        PROVE  Place(b, u[k + 1], w, m) \in Good(k + 1)
    <2>1. Building(b, u, k, before, y, w, m) /\ Open(b.pending, w, m)
      OBVIOUS
    <2>2. k \in Nat /\ k + 1 <= Len(u)
      BY <1>2
    <2>3. /\ Building(Place(b, u[k + 1], w, m), u, k + 1, before, y, w, m)
          /\ Open(Place(b, u[k + 1], w, m).pending, w, m)
      BY <1>1, <2>1, <2>2, PlaceDoes
    <2> QED BY <2>3 DEF Building
  <1> DEFINE good == [k \in 0 .. n |-> Good(k)]
             turn == [k \in 1 .. n |-> [b \in Builder |-> Place(b, u[k], w, m)]]
  <1>5. good \in [0 .. n -> SUBSET Builder] /\ good[0] = Good(0)
    OBVIOUS
  <1>6. ASSUME NEW k \in 1 .. n, NEW b \in good[k - 1]
        PROVE  /\ b \in Builder /\ turn[k][b] = Place(b, u[k], w, m)
               /\ turn[k][b] \in good[k]
    <2>1. k - 1 \in 0 .. n - 1 /\ k \in 0 .. n /\ (k - 1) + 1 = k /\ k - 1 \in 0 .. n
      OBVIOUS
    <2>2. b \in Good(k - 1) /\ b \in Builder
      BY <2>1
    <2>3. Place(b, u[(k - 1) + 1], w, m) \in Good((k - 1) + 1)
      BY <1>4, <2>1, <2>2
    <2>4. turn[k][b] = Place(b, u[k], w, m)
      BY <2>2
    <2> HIDE DEF turn, Good
    <2> QED BY <2>1, <2>2, <2>3, <2>4
  <1> HIDE DEF Good
  <1>7. start \in good[0]
    BY <1>3, <1>5
  <1> HIDE DEF good, turn, start
  <1>8. PICK s \in [0 .. n -> Builder] :
          Turns(s, n, start, turn) /\ \A k \in 0 .. n : s[k] \in good[k]
    BY <1>5, <1>6, <1>7, LoopGood
  <1>9. \A k \in 1 .. n : k - 1 \in 0 .. n /\ k \in 0 .. n /\ k # 0
    OBVIOUS
  <1>10. Rec(s)
    BY <1>6, <1>8, <1>9 DEF Turns
  <1> DEFINE c == CHOOSE x : Rec(x)
  <1>11. Rec(c)
    BY <1>10
  <1>12. /\ BuildGroupRows(group, w, y, m) = Built(Flush(c[n], FALSE, w, m), m)
    BY <1>1, <1>2 DEF BuildGroupRows, start
  <1> HIDE DEF c
  <1>13. c[0] = start /\ \A k \in 1 .. n : c[k] = Place(c[k - 1], u[k], w, m)
    BY <1>9, <1>11
  <1> DEFINE Kept == {k \in 0 .. n : c[k] \in good[k]}
  <1>14. 0 .. n \subseteq Kept
    <2>1. 0 \in Kept
      BY <1>7, <1>13
    <2>2. ASSUME NEW k \in 0 .. n - 1, k \in Kept PROVE k + 1 \in Kept
      <3>1. k + 1 \in 1 .. n /\ (k + 1) - 1 = k /\ k + 1 \in 0 .. n
        OBVIOUS
      <3>2. c[k + 1] = Place(c[k], u[k + 1], w, m)
        BY <1>13, <3>1
      <3>3. c[k] \in good[k]
        BY <2>2
      <3>4. c[k + 1] \in good[k + 1]
        BY <1>6, <3>1, <3>2, <3>3
      <3> QED BY <3>1, <3>4
    <2> HIDE DEF Kept
    <2> QED BY <2>1, <2>2, Upwards
  <1>15. Building(c[n], u, n, before, y, w, m) /\ Open(c[n].pending, w, m)
    BY <1>14 DEF good, Good
  <1>16. PICK b : /\ b = Flush(c[n], FALSE, w, m) /\ b.pending = <<>>
                  /\ Building(b, u, n, before, y, w, m)
    <2>1. n \in 0 .. Len(u)
      BY <1>2
    <2> QED BY <1>1, <1>15, <2>1, Trailing, Zenon
  <1>17. PICK k \in 0 .. n :
           /\ Pending(b.pending, u, k, n)
           /\ Block(b.rows, Ids(u, 1, k), before, y, Built(b, m).bottom, w, m)
    BY <1>16 DEF Building
  <1>18. k = n
    <2>1. Len(<<>>) = n - k
      BY <1>16, <1>17 DEF Pending
    <2> QED BY <2>1
  <1>19. BuildGroupRows(group, w, y, m).rows = b.rows
         /\ BuildGroupRows(group, w, y, m).bottom = Built(b, m).bottom
    BY <1>12, <1>16 DEF Built
  <1>20. Block(b.rows, Ids(u, 1, n), before, y, Built(b, m).bottom, w, m)
    BY <1>17, <1>18
  <1>21. Built(b, m).bottom \in Int
    BY <1>20 DEF Block
  <1> QED BY <1>1, <1>2, <1>19, <1>20, <1>21

-----------------------------------------------------------------------------
(* The rows of all days.                                                   *)

Group == [date : Int, assets : Seq(Asset)]
Heading == [date : Int, top : Int, height : Int]
Layout == [rows : Seq(Row), groups : Seq(Heading), totalHeight : Int]

\* The ids of the photos of the first k days.
Shown(groups, k) == UNION {IdsOf(groups[g].assets) : g \in 1 .. k}

\* Days to be shown in their order, each with some photos in theirs.
GroupsSound(groups, before) ==
  /\ groups \in Seq(Group)
  /\ \A g \in DOMAIN groups : /\ Listed(groups[g].assets, before)
                              /\ groups[g].assets # <<>>
  /\ \A g, h \in DOMAIN groups : g < h =>
       IdsOf(groups[g].assets) \X IdsOf(groups[h].assets) \subseteq before

\* A layout of the first k days.
Laid(l, groups, k, before, w, m) ==
  /\ l \in Layout /\ Len(l.groups) = k
  /\ \A g \in 1 .. k : l.groups[g].date = groups[g].date
  /\ Block(l.rows, Shown(groups, k), before, 0, l.totalHeight, w, m)

\* A day is laid out below the ones before it, its header first.
LEMMA AddGroupDoes ==
  ASSUME NEW groups, NEW before, GroupsSound(groups, before),
         NEW k \in Nat, k + 1 <= Len(groups), NEW w, NEW m, Fitting(w, m),
         NEW l, Laid(l, groups, k, before, w, m)
  PROVE  Laid(AddGroup(l, groups[k + 1], w, m), groups, k + 1, before, w, m)
  <1>1. PICK n \in Nat : n = Len(groups) /\ DOMAIN groups = 1 .. n /\ k + 1 \in 1 .. n
    BY DEF GroupsSound
  <1>2. PICK group \in Group : group = groups[k + 1]
    BY <1>1 DEF GroupsSound
  <1>3. PICK u \in Seq(Asset), date \in Int : u = group.assets /\ date = group.date
    BY DEF Group
  <1>4. Listed(u, before) /\ u # <<>>
    BY <1>1, <1>2, <1>3 DEF GroupsSound
  <1>5. PICK total \in Int, rows \in Seq(Row) :
          total = l.totalHeight /\ rows = l.rows /\ total >= 0
    BY DEF Laid, Layout, Block
  <1>6. PICK space \in Nat, head \in Nat : space = m.groupSpacing /\ head = m.headerHeight
    BY DEF Fitting, LayoutMetrics
  <1>7. PICK top \in Int : top = total + space /\ total <= top
    BY <1>5
  <1>8. PICK built : built = BuildGroupRows(group, w, top + head, m)
    OBVIOUS
  <1>9. PICK bottom \in Int, more \in Seq(Row) :
          /\ bottom = built.bottom /\ more = built.rows
          /\ Block(more, Ids(u, 1, Len(u)), before, top + head, bottom, w, m)
    <2>1. top + head \in Int /\ Listed(group.assets, before) /\ group.assets # <<>>
      BY <1>3, <1>4
    <2>2. built.bottom \in Int
          /\ Block(built.rows, Ids(u, 1, Len(u)), before, top + head, built.bottom, w, m)
      BY <1>3, <1>8, <2>1, GroupRows
    <2>3. built.rows \in Seq(Row)
      BY <2>2 DEF Block
    <2> QED BY <2>2, <2>3
  <1>10. Ids(u, 1, Len(u)) = IdsOf(u)
    <2>1. DOMAIN u = 1 .. Len(u)
      OBVIOUS
    <2> QED BY <2>1 DEF Ids, IdsOf
  <1>11. PICK r : r = [kind |-> "header", top |-> top, height |-> head, items |-> <<>>]
    OBVIOUS
  <1>12. r \in Row /\ r.kind = "header" /\ r.top = top /\ r.height = head /\ r.items = <<>>
    BY <1>11 DEF Row
  <1>13. RowSound(r, w, m) /\ Follow(r.items, before) /\ IdsOf(r.items) = {}
    BY <1>12 DEF RowSound, Follow, InOrder, IdsOf
  <1>14. PICK S : S = Shown(groups, k)
    OBVIOUS
  <1>15. Block(rows, S, before, 0, total, w, m)
    BY <1>5, <1>14 DEF Laid
  <1>16. PICK with : with = Append(rows, r) /\ Block(with, S, before, 0, top + head, w, m)
    <2>1. S \X IdsOf(r.items) \subseteq before /\ total <= r.top
      BY <1>7, <1>12, <1>13
    <2>2. Block(Append(rows, r), S \union IdsOf(r.items), before, 0, r.top + r.height, w, m)
      BY <1>12, <1>13, <1>15, <2>1, BlockAppend
    <2> QED BY <1>12, <1>13, <2>2
  <1>17. S \X IdsOf(u) \subseteq before
    <2>1. ASSUME NEW g \in 1 .. k PROVE IdsOf(groups[g].assets) \X IdsOf(u) \subseteq before
      <3>1. g \in DOMAIN groups /\ k + 1 \in DOMAIN groups /\ g < k + 1
        BY <1>1
      <3> QED BY <1>2, <1>3, <3>1 DEF GroupsSound
    <2> QED BY <1>14, <2>1 DEF Shown
  <1>18. S \union IdsOf(u) = Shown(groups, k + 1)
    <2>1. 1 .. k + 1 = (1 .. k) \union {k + 1}
      OBVIOUS
    <2>2. Shown(groups, k + 1) = Shown(groups, k) \union IdsOf(groups[k + 1].assets)
      BY <2>1 DEF Shown
    <2> QED BY <1>2, <1>3, <1>14, <2>2
  <1>19. PICK all : all = with \o more /\ Block(all, Shown(groups, k + 1), before, 0, bottom, w, m)
    <2>1. top + head <= top + head
      BY <1>6, <1>7
    <2>2. Block(with \o more, S \union IdsOf(u), before, 0, bottom, w, m)
      BY <1>9, <1>10, <1>16, <1>17, <2>1, BlockJoin
    <2> QED BY <1>18, <2>2
  <1>20. PICK kept : kept = l.groups /\ kept \in Seq(Heading)
                     /\ Len(kept) = k /\ \A g \in 1 .. k : kept[g].date = groups[g].date
    BY DEF Laid, Layout
  <1>21. PICK new : new = [date |-> date, top |-> top, height |-> bottom - top]
    OBVIOUS
  <1>22. new \in Heading /\ new.date = date
    BY <1>21 DEF Heading
  <1>23. PICK dates : dates = Append(kept, new)
    OBVIOUS
  <1>24. /\ dates \in Seq(Heading) /\ Len(dates) = k + 1
         /\ dates[k + 1] = new /\ \A g \in 1 .. k : dates[g] = kept[g]
    BY <1>20, <1>22, <1>23, AppendProperties
  <1>25. \A g \in 1 .. k + 1 : dates[g].date = groups[g].date
    <2>1. \A g \in 1 .. k + 1 : g = k + 1 \/ g \in 1 .. k
      OBVIOUS
    <2> QED BY <1>2, <1>3, <1>20, <1>22, <1>24, <2>1
  <1>26. AddGroup(l, group, w, m) = [rows |-> all, groups |-> dates, totalHeight |-> bottom]
    BY <1>3, <1>5, <1>6, <1>7, <1>8, <1>9, <1>11, <1>16, <1>19, <1>20, <1>21, <1>23
       DEF AddGroup, GroupAdded
  <1>27. all \in Seq(Row)
    BY <1>19 DEF Block
  <1>28. PICK x : x = AddGroup(l, group, w, m)
    OBVIOUS
  <1>29. x \in Layout /\ x.rows = all /\ x.groups = dates /\ x.totalHeight = bottom
    BY <1>24, <1>26, <1>27, <1>28 DEF Layout
  <1>30. Laid(x, groups, k + 1, before, w, m)
    BY <1>19, <1>24, <1>25, <1>29 DEF Laid
  <1> QED BY <1>2, <1>28, <1>30

\* The layout of sound days shows all of them.
LEMMA LayoutLaid ==
  ASSUME NEW groups, NEW before, GroupsSound(groups, before), NEW w, NEW m, Fitting(w, m)
  PROVE  Laid(ComputeTimelineLayout(groups, w, m), groups, Len(groups), before, w, m)
  <1>1. PICK n \in Nat : n = Len(groups)
    BY DEF GroupsSound
  <1>2. ~(w <= 0)
    <2>1. m.gap \in Nat /\ w \in Nat /\ w >= 3 * m.gap + 11
      BY DEF Fitting, LayoutMetrics
    <2> QED BY <2>1
  <1> DEFINE Good(k) == {l \in Layout : Laid(l, groups, k, before, w, m)}
             Rec(s) == s = [k \in 0 .. n |-> IF k = 0 \/ w <= 0 THEN EmptyLayout
                                             ELSE AddGroup(s[k - 1], groups[k], w, m)]
             good == [k \in 0 .. n |-> Good(k)]
             turn == [k \in 1 .. n |-> [l \in Layout |-> AddGroup(l, groups[k], w, m)]]
  <1>3. EmptyLayout \in Good(0)
    <2>1. EmptyLayout \in Layout /\ Len(EmptyLayout.groups) = 0
      BY DEF EmptyLayout, Layout
    <2>2. Shown(groups, 0) = {}
      BY DEF Shown
    <2>3. Block(<<>>, {}, before, 0, 0, w, m)
      <3>1. 0 \in Int
        OBVIOUS
      <3> QED BY <3>1, BlockEmpty
    <2>4. Block(EmptyLayout.rows, Shown(groups, 0), before, 0, EmptyLayout.totalHeight, w, m)
      BY <2>2, <2>3 DEF EmptyLayout
    <2> QED BY <2>1, <2>4 DEF Laid
  <1>4. ASSUME NEW k \in 0 .. n - 1, NEW l \in Good(k)
        PROVE  AddGroup(l, groups[k + 1], w, m) \in Good(k + 1)
    <2>1. Laid(l, groups, k, before, w, m)
      OBVIOUS
    <2>2. k \in Nat /\ k + 1 <= Len(groups)
      BY <1>1
    <2>3. Laid(AddGroup(l, groups[k + 1], w, m), groups, k + 1, before, w, m)
      BY <2>1, <2>2, AddGroupDoes
    <2> QED BY <2>3 DEF Laid
  <1>5. good \in [0 .. n -> SUBSET Layout] /\ good[0] = Good(0)
    OBVIOUS
  <1>6. ASSUME NEW k \in 1 .. n, NEW l \in good[k - 1]
        PROVE  /\ l \in Layout /\ turn[k][l] = AddGroup(l, groups[k], w, m)
               /\ turn[k][l] \in good[k]
    <2>1. k - 1 \in 0 .. n - 1 /\ k \in 0 .. n /\ (k - 1) + 1 = k /\ k - 1 \in 0 .. n
      OBVIOUS
    <2>2. l \in Good(k - 1) /\ l \in Layout
      BY <2>1
    <2>3. AddGroup(l, groups[(k - 1) + 1], w, m) \in Good((k - 1) + 1)
      BY <1>4, <2>1, <2>2
    <2>4. turn[k][l] = AddGroup(l, groups[k], w, m)
      BY <2>2
    <2> HIDE DEF turn, Good
    <2> QED BY <2>1, <2>2, <2>3, <2>4
  <1> HIDE DEF Good
  <1>7. EmptyLayout \in good[0]
    BY <1>3, <1>5
  <1> HIDE DEF good, turn
  <1>8. PICK s \in [0 .. n -> Layout] :
          Turns(s, n, EmptyLayout, turn) /\ \A k \in 0 .. n : s[k] \in good[k]
    BY <1>5, <1>6, <1>7, LoopGood
  <1>9. \A k \in 1 .. n : k - 1 \in 0 .. n /\ k \in 0 .. n /\ k # 0
    OBVIOUS
  <1>10. Rec(s)
    BY <1>2, <1>6, <1>8, <1>9 DEF Turns
  <1> DEFINE c == CHOOSE x : Rec(x)
  <1>11. Rec(c)
    BY <1>10
  <1>12. ComputeTimelineLayout(groups, w, m) = c[n]
    BY <1>1 DEF ComputeTimelineLayout
  <1> HIDE DEF c
  <1>13. c[0] = EmptyLayout /\ \A k \in 1 .. n : c[k] = AddGroup(c[k - 1], groups[k], w, m)
    BY <1>2, <1>9, <1>11
  <1> DEFINE Kept == {k \in 0 .. n : c[k] \in good[k]}
  <1>14. 0 .. n \subseteq Kept
    <2>1. 0 \in Kept
      BY <1>7, <1>13
    <2>2. ASSUME NEW k \in 0 .. n - 1, k \in Kept PROVE k + 1 \in Kept
      <3>1. k + 1 \in 1 .. n /\ (k + 1) - 1 = k /\ k + 1 \in 0 .. n
        OBVIOUS
      <3>2. c[k + 1] = AddGroup(c[k], groups[k + 1], w, m)
        BY <1>13, <3>1
      <3>3. c[k] \in good[k]
        BY <2>2
      <3>4. c[k + 1] \in good[k + 1]
        BY <1>6, <3>1, <3>2, <3>3
      <3> QED BY <3>1, <3>4
    <2> HIDE DEF Kept
    <2> QED BY <2>1, <2>2, Upwards
  <1>15. Laid(c[n], groups, n, before, w, m)
    BY <1>14 DEF good, Good
  <1> QED BY <1>1, <1>12, <1>15

-----------------------------------------------------------------------------
(* The days and the photos of a day in their order.                        *)

\* What is ahead of each member of a finite set orders the set.
Ordering(S, ahead) ==
  /\ IsFiniteSet(S) /\ DOMAIN ahead = S
  /\ \A x \in S : ahead[x] \subseteq S /\ x \notin ahead[x]
  /\ \A x, y \in S : x \in ahead[y] => ahead[x] \subseteq ahead[y]
  /\ \A x, y \in S : x = y \/ x \in ahead[y] \/ y \in ahead[x]

\* A set from its first to its last.
InRank(r, S, ahead) ==
  /\ r \in Seq(S)
  /\ \A x \in S : \E i \in DOMAIN r : r[i] = x
  /\ \A i, j \in DOMAIN r : i < j => r[i] \in ahead[r[j]]

\* Ranked sorts a finite set by any order.
LEMMA RankedSorts ==
  ASSUME NEW S, NEW ahead, Ordering(S, ahead)
  PROVE  InRank(Ranked(ahead), S, ahead)
  <1>1. PICK n \in Nat : n = Cardinality(S)
    BY FS_CardinalityType DEF Ordering
  <1> DEFINE rank == [x \in S |-> Cardinality(ahead[x]) + 1]
  <1>2. ASSUME NEW x \in S
        PROVE  IsFiniteSet(ahead[x]) /\ Cardinality(ahead[x]) \in Nat /\ Cardinality(ahead[x]) < n
    <2>1. IsFiniteSet(ahead[x])
      BY FS_Subset DEF Ordering
    <2>2. ahead[x] \union {x} \in SUBSET S
      BY DEF Ordering
    <2>3. Cardinality(ahead[x]) \in Nat
      BY <2>1, FS_CardinalityType
    <2>4. Cardinality(ahead[x] \union {x}) = Cardinality(ahead[x]) + 1
      BY <2>1, FS_AddElement DEF Ordering
    <2>5. Cardinality(ahead[x] \union {x}) <= n
      BY <1>1, <2>2, FS_Subset DEF Ordering
    <2> QED BY <2>1, <2>3, <2>4, <2>5
  <1>3. ASSUME NEW x \in S, NEW y \in S, x \in ahead[y]
        PROVE  Cardinality(ahead[x]) < Cardinality(ahead[y])
    <2>1. IsFiniteSet(ahead[x]) /\ Cardinality(ahead[x]) \in Nat
          /\ IsFiniteSet(ahead[y]) /\ Cardinality(ahead[y]) \in Nat
      BY <1>2
    <2>2. ahead[x] \union {x} \in SUBSET ahead[y] /\ x \notin ahead[x]
      BY <1>3 DEF Ordering
    <2>3. Cardinality(ahead[x] \union {x}) = Cardinality(ahead[x]) + 1
      BY <2>1, <2>2, FS_AddElement
    <2>4. Cardinality(ahead[x] \union {x}) <= Cardinality(ahead[y])
      BY <2>1, <2>2, FS_Subset
    <2> QED BY <2>1, <2>3, <2>4
  <1>4. rank \in [S -> 1 .. n]
    BY <1>2
  <1>5. \A x, y \in S : rank[x] = rank[y] => x = y
    <2>1. ASSUME NEW x \in S, NEW y \in S, rank[x] = rank[y] PROVE x = y
      <3>1. Cardinality(ahead[x]) = Cardinality(ahead[y])
        BY <1>2, <2>1
      <3>2. ~(Cardinality(ahead[x]) < Cardinality(ahead[y]))
            /\ ~(Cardinality(ahead[y]) < Cardinality(ahead[x]))
        BY <1>2, <3>1
      <3> QED BY <1>3, <3>2 DEF Ordering
    <2> QED BY <2>1
  <1>6. \A k \in 1 .. n : \E x \in S : rank[x] = k
    <2>1. rank \in Injection(S, 1 .. n)
      <3> HIDE DEF rank
      <3>1. IsInjective(rank)
        BY <1>4, <1>5 DEF IsInjective
      <3> QED BY <1>4, <3>1 DEF Injection
    <2> HIDE DEF rank
    <2>2. IsFiniteSet(1 .. n) /\ Cardinality(1 .. n) = n
      <3>1. 1 \in Int /\ n \in Int /\ (1 > n => n = 0) /\ n - 1 + 1 = n
        OBVIOUS
      <3> QED BY <3>1, FS_Interval
    <2>3. rank \in Surjection(S, 1 .. n)
      BY <1>1, <2>1, <2>2, FS_Injection
    <2> QED BY <2>3 DEF Surjection
  <1> DEFINE r == Ranked(ahead)
  <1>7. r = [k \in 1 .. n |-> CHOOSE x \in S : Cardinality(ahead[x]) = k - 1]
    BY <1>1 DEF Ranked, Ordering
  <1>8. ASSUME NEW k \in 1 .. n PROVE r[k] \in S /\ Cardinality(ahead[r[k]]) = k - 1
    <2>1. PICK x \in S : Cardinality(ahead[x]) = k - 1
      <3>1. PICK y \in S : rank[y] = k
        BY <1>6
      <3>2. Cardinality(ahead[y]) + 1 = k /\ Cardinality(ahead[y]) \in Nat
        BY <1>2, <3>1
      <3> QED BY <3>2
    <2>2. r[k] = CHOOSE y \in S : Cardinality(ahead[y]) = k - 1
      BY <1>7
    <2> HIDE DEF r
    <2> QED BY <2>1, <2>2
  <1>9. DOMAIN r = 1 .. n
    BY <1>7
  <1>0. Ranked(ahead) = r
    OBVIOUS
  <1>10. r \in Seq(S)
    <2>1. r \in [1 .. n -> S]
      BY <1>7, <1>8
    <2> HIDE DEF r
    <2> QED BY <2>1
  <1> HIDE DEF r
  <1>11. ASSUME NEW x \in S PROVE \E i \in 1 .. n : r[i] = x
    <2>1. PICK k \in 1 .. n : rank[x] = k
      BY <1>4
    <2>2. Cardinality(ahead[x]) = k - 1
      BY <1>2, <2>1
    <2>3. r[k] \in S /\ rank[r[k]] = rank[x]
      BY <1>8, <2>2
    <2> HIDE DEF rank
    <2> QED BY <1>5, <2>3
  <1>12. ASSUME NEW i \in 1 .. n, NEW j \in 1 .. n, i < j PROVE r[i] \in ahead[r[j]]
    <2>1. PICK x \in S, y \in S : x = r[i] /\ y = r[j]
      BY <1>8
    <2>2. Cardinality(ahead[x]) = i - 1 /\ Cardinality(ahead[y]) = j - 1
      BY <1>8, <2>1
    <2>3. ~(Cardinality(ahead[y]) < Cardinality(ahead[x])) /\ x # y
      BY <1>12, <2>2
    <2> QED BY <1>3, <2>1, <2>3 DEF Ordering
  <1> QED BY <1>0, <1>9, <1>10, <1>11, <1>12 DEF InRank

\* The photos of a day are listed once, the newest first.
LEMMA OfDaySorts ==
  ASSUME NEW a \in Seq(Asset), NEW d
  PROVE  InRank(OfDay(a, d), {i \in DOMAIN a : a[i].day = d},
                [i \in {k \in DOMAIN a : a[k].day = d} |->
                   {j \in {k \in DOMAIN a : a[k].day = d} : Newer(a, j, i)}])
  <1> DEFINE those == {i \in DOMAIN a : a[i].day = d}
             ahead == [i \in those |-> {j \in those : Newer(a, j, i)}]
  <1>1. PICK n \in Nat : n = Len(a) /\ DOMAIN a = 1 .. n
    OBVIOUS
  <1>2. IsFiniteSet(those)
    <2>1. IsFiniteSet(1 .. n)
      <3>1. 1 \in Int /\ n \in Int
        OBVIOUS
      <3> QED BY <3>1, FS_Interval
    <2>2. those \in SUBSET (1 .. n)
      BY <1>1
    <2> HIDE DEF those
    <2> QED BY <2>1, <2>2, FS_Subset
  <1>3. \A i \in those : i \in Int /\ a[i].time \in Int
    <2>1. \A i \in those : a[i] \in Asset
      OBVIOUS
    <2> QED BY <1>1, <2>1 DEF Asset
  <1>4. Ordering(those, ahead)
    <2> HIDE DEF those
    <2> QED BY <1>2, <1>3 DEF Ordering, Newer
  <1>5. OfDay(a, d) = Ranked(ahead)
    BY DEF OfDay
  <1> HIDE DEF ahead, those
  <1>6. InRank(OfDay(a, d), those, ahead)
    BY <1>4, <1>5, RankedSorts
  <1> QED BY <1>6 DEF ahead, those

\* The days of an album are listed once, the last one first.
LEMMA DaysSort ==
  ASSUME NEW a \in Seq(Asset)
  PROVE  /\ Days(a) \in Seq(Int)
         /\ \A i \in DOMAIN a : \E g \in DOMAIN Days(a) : Days(a)[g] = a[i].day
         /\ \A g \in DOMAIN Days(a) : \E i \in DOMAIN a : Days(a)[g] = a[i].day
         /\ \A g, h \in DOMAIN Days(a) : g < h => Days(a)[g] > Days(a)[h]
  <1> DEFINE days == {x.day : x \in Range(a)}
             ahead == [d \in days |-> {e \in days : e > d}]
             dayOf == [i \in DOMAIN a |-> a[i].day]
  <1>1. PICK n \in Nat : n = Len(a) /\ DOMAIN a = 1 .. n
    OBVIOUS
  <1>2. \A d : d \in days <=> \E i \in DOMAIN a : d = a[i].day
    BY DEF Range
  <1>3. \A d \in days : d \in Int
    <2>1. \A i \in DOMAIN a : a[i] \in Asset
      OBVIOUS
    <2>2. \A i \in DOMAIN a : a[i].day \in Int
      BY <2>1 DEF Asset
    <2> HIDE DEF days
    <2> QED BY <1>2, <2>2
  <1>4. IsFiniteSet(days)
    <2>1. IsFiniteSet(1 .. n)
      <3>1. 1 \in Int /\ n \in Int
        OBVIOUS
      <3> QED BY <3>1, FS_Interval
    <2> HIDE DEF days
    <2>2. dayOf \in Surjection(1 .. n, days)
      BY <1>1, <1>2 DEF Surjection
    <2> HIDE DEF dayOf
    <2> QED BY <2>1, <2>2, FS_Surjection
  <1>5. Ordering(days, ahead)
    <2> HIDE DEF days
    <2> QED BY <1>3, <1>4 DEF Ordering
  <1>6. Days(a) = Ranked(ahead)
    BY DEF Days
  <1>7. PICK r : r = Days(a) /\ InRank(r, days, ahead)
    <2> HIDE DEF ahead, days
    <2> QED BY <1>5, <1>6, RankedSorts
  <1> HIDE DEF days
  <1>8. r \in Seq(days) /\ \A g \in DOMAIN r : r[g] \in days
    BY <1>7 DEF InRank
  <1>9. r \in Seq(Int)
    BY <1>3, <1>8
  <1>10. \A g, h \in DOMAIN r : g < h => r[g] > r[h]
    BY <1>7, <1>8 DEF InRank
  <1>11. \A i \in DOMAIN a : \E g \in DOMAIN r : r[g] = a[i].day
    BY <1>2, <1>7 DEF InRank
  <1> QED BY <1>2, <1>7, <1>8, <1>9, <1>10, <1>11

\* The photos of an album, each known by its place.
AlbumSound(a) == a \in Seq(Asset) /\ a # <<>> /\ \A i \in DOMAIN a : a[i].id = i

\* Newest day first, and the newest photo of a day first.
Before(a) ==
  {p \in (DOMAIN a) \X (DOMAIN a) :
     a[p[1]].day > a[p[2]].day \/ (a[p[1]].day = a[p[2]].day /\ Newer(a, p[1], p[2]))}

\* What it takes to be shown before another photo.
LEMMA BeforeIs ==
  ASSUME NEW a, NEW i, NEW j
  PROVE  << i, j >> \in Before(a) <=>
           /\ i \in DOMAIN a /\ j \in DOMAIN a
           /\ a[i].day > a[j].day \/ (a[i].day = a[j].day /\ Newer(a, i, j))
  BY DEF Before, Newer

\* A day of an album: its photos, in their order.
DayOf(u, a, d) ==
  /\ Listed(u, Before(a)) /\ u # <<>>
  /\ \A k \in DOMAIN u : u[k].id \in DOMAIN a /\ a[u[k].id].day = d
  /\ \A i \in DOMAIN a : a[i].day = d => i \in IdsOf(u)

\* GroupAssetsByDate makes such days.
LEMMA DaySound ==
  ASSUME NEW a, AlbumSound(a), NEW g \in DOMAIN Days(a)
  PROVE  /\ GroupAssetsByDate(a)[g] \in Group
         /\ GroupAssetsByDate(a)[g].date = Days(a)[g]
         /\ DayOf(GroupAssetsByDate(a)[g].assets, a, Days(a)[g])
  <1>1. a \in Seq(Asset) /\ \A i \in DOMAIN a : a[i] \in Asset /\ a[i].id = i
    BY DEF AlbumSound
  <1>2. PICK d \in Int : d = Days(a)[g] /\ \E i \in DOMAIN a : a[i].day = d
    BY <1>1, DaysSort
  <1> DEFINE those == {i \in DOMAIN a : a[i].day = d}
             ahead == [i \in those |-> {j \in those : Newer(a, j, i)}]
  <1>3. PICK r : r = OfDay(a, d) /\ InRank(r, those, ahead)
    BY <1>1, OfDaySorts
  <1>4. \A x \in those : x \in DOMAIN a /\ a[x].day = d
        /\ \A y \in those : y \in ahead[x] => Newer(a, y, x)
    OBVIOUS
  <1>5. \A i \in DOMAIN a : a[i].day = d => i \in those
    OBVIOUS
  <1> HIDE DEF those, ahead
  <1>6. PICK n \in Nat : n = Len(r) /\ DOMAIN r = 1 .. n /\ \A k \in 1 .. n : r[k] \in those
    BY <1>3 DEF InRank
  <1>7. PICK u : u = [k \in DOMAIN r |-> a[r[k]]]
    OBVIOUS
  <1>8. u \in Seq(Asset) /\ DOMAIN u = 1 .. n
        /\ \A k \in 1 .. n : u[k] = a[r[k]] /\ u[k].id = r[k] /\ r[k] \in DOMAIN a
                             /\ a[r[k]].day = d
    <2>1. \A k \in 1 .. n : r[k] \in DOMAIN a /\ a[r[k]].day = d
      BY <1>4, <1>6
    <2>2. u \in [1 .. n -> Asset]
      BY <1>1, <1>6, <1>7, <2>1
    <2>3. u \in Seq(Asset)
      BY <2>2
    <2> QED BY <1>1, <1>6, <1>7, <2>1, <2>2, <2>3
  <1>9. GroupAssetsByDate(a)[g] = [date |-> d, assets |-> u]
    BY <1>2, <1>3, <1>7 DEF GroupAssetsByDate
  <1>10. Listed(u, Before(a))
    <2>1. ASSUME NEW i \in 1 .. n, NEW j \in 1 .. n, i < j
          PROVE  << u[i].id, u[j].id >> \in Before(a)
      <3>1. r[i] \in ahead[r[j]] /\ r[i] \in those /\ r[j] \in those
        BY <1>3, <1>6, <2>1 DEF InRank
      <3>2. Newer(a, r[i], r[j])
        BY <1>4, <3>1
      <3>3. << r[i], r[j] >> \in Before(a)
        BY <1>8, <3>2, BeforeIs
      <3> QED BY <1>8, <3>3
    <2> QED BY <1>8, <2>1 DEF Listed
  <1>11. \A i \in DOMAIN a : a[i].day = d => i \in IdsOf(u)
    <2>1. ASSUME NEW i \in DOMAIN a, a[i].day = d PROVE i \in IdsOf(u)
      <3>1. PICK k \in 1 .. n : r[k] = i
        BY <1>3, <1>5, <1>6, <2>1 DEF InRank
      <3> QED BY <1>8, <3>1 DEF IdsOf
    <2> QED BY <2>1
  <1>12. u # <<>>
    <2>1. PICK i : i \in IdsOf(u)
      BY <1>2, <1>11
    <2> QED BY <2>1 DEF IdsOf
  <1>13. DayOf(u, a, d)
    BY <1>8, <1>10, <1>11, <1>12 DEF DayOf
  <1> QED BY <1>2, <1>8, <1>9, <1>13 DEF Group

\* The days of an album show all of it, in order.
LEMMA DaysSound ==
  ASSUME NEW a, AlbumSound(a)
  PROVE  /\ GroupsSound(GroupAssetsByDate(a), Before(a))
         /\ Len(GroupAssetsByDate(a)) >= 1
         /\ Shown(GroupAssetsByDate(a), Len(GroupAssetsByDate(a))) = DOMAIN a
         /\ \A g \in DOMAIN GroupAssetsByDate(a) :
              GroupAssetsByDate(a)[g].date \in {x.day : x \in Range(a)}
  <1>1. a \in Seq(Asset) /\ a # <<>> /\ DOMAIN a # {}
    BY DEF AlbumSound
  <1>2. PICK days \in Seq(Int) :
          /\ days = Days(a)
          /\ \A i \in DOMAIN a : \E g \in DOMAIN days : days[g] = a[i].day
          /\ \A g \in DOMAIN days : \E i \in DOMAIN a : days[g] = a[i].day
          /\ \A g, h \in DOMAIN days : g < h => days[g] > days[h]
    BY <1>1, DaysSort
  <1>3. PICK n \in Nat : n = Len(days) /\ DOMAIN days = 1 .. n
    OBVIOUS
  <1>4. PICK groups : groups = GroupAssetsByDate(a)
    OBVIOUS
  <1>5. \A g \in 1 .. n : groups[g] \in Group /\ groups[g].date = days[g]
                          /\ DayOf(groups[g].assets, a, days[g])
    BY <1>2, <1>3, <1>4, DaySound
  <1>6. groups \in Seq(Group) /\ DOMAIN groups = 1 .. n /\ Len(groups) = n
    <2>1. DOMAIN groups = 1 .. n /\ groups = [g \in 1 .. n |-> groups[g]]
      BY <1>2, <1>3, <1>4 DEF GroupAssetsByDate
    <2>2. groups \in [1 .. n -> Group]
      BY <1>5, <2>1
    <2> QED BY <2>1, <2>2
  <1>7. ASSUME NEW g \in 1 .. n, NEW h \in 1 .. n, g < h
        PROVE  IdsOf(groups[g].assets) \X IdsOf(groups[h].assets) \subseteq Before(a)
    <2>1. \A x \in IdsOf(groups[g].assets) : x \in DOMAIN a /\ a[x].day = days[g]
      BY <1>5 DEF DayOf, IdsOf
    <2>2. \A x \in IdsOf(groups[h].assets) : x \in DOMAIN a /\ a[x].day = days[h]
      BY <1>5 DEF DayOf, IdsOf
    <2>3. days[g] > days[h]
      BY <1>2, <1>3, <1>7
    <2>4. ASSUME NEW x \in IdsOf(groups[g].assets), NEW y \in IdsOf(groups[h].assets)
          PROVE  << x, y >> \in Before(a)
      BY <2>1, <2>2, <2>3, BeforeIs
    <2> QED BY <2>4
  <1>8. GroupsSound(groups, Before(a))
    BY <1>5, <1>6, <1>7 DEF GroupsSound, DayOf
  <1>9. \A g \in 1 .. n : IdsOf(groups[g].assets) \subseteq DOMAIN a
    BY <1>5 DEF DayOf, IdsOf
  <1>10. ASSUME NEW i \in DOMAIN a PROVE i \in Shown(groups, n)
    <2>1. PICK g \in 1 .. n : days[g] = a[i].day
      BY <1>2, <1>3
    <2>2. i \in IdsOf(groups[g].assets)
      BY <1>5, <2>1 DEF DayOf
    <2> QED BY <2>2 DEF Shown
  <1>11. Shown(groups, n) = DOMAIN a
    BY <1>9, <1>10 DEF Shown
  <1>12. n >= 1
    <2>1. PICK i : i \in DOMAIN a
      BY <1>1
    <2>2. PICK g \in 1 .. n : days[g] = a[i].day
      BY <1>2, <1>3, <2>1
    <2> QED BY <2>2
  <1>13. ASSUME NEW g \in 1 .. n PROVE groups[g].date \in {x.day : x \in Range(a)}
    <2>1. PICK i \in DOMAIN a : days[g] = a[i].day
      BY <1>2, <1>3
    <2>2. a[i] \in Range(a)
      BY DEF Range
    <2> QED BY <1>5, <2>1, <2>2
  <1> QED BY <1>4, <1>6, <1>8, <1>11, <1>12, <1>13

\* The layout of an album for a width: every photo of it, in order.
LayoutOf(l, a, w, m) ==
  /\ l \in Layout /\ Len(l.groups) >= 1
  /\ \A g \in DOMAIN l.groups : l.groups[g].date \in {x.day : x \in Range(a)}
  /\ l.totalHeight \in Nat
  /\ Block(l.rows, DOMAIN a, Before(a), 0, l.totalHeight, w, m)

\* computeTimelineLayout makes it of the days of any album: every photo is shown
\* once, newest first, in rows that stay within the box.
THEOREM LayoutComputed ==
  ASSUME NEW a, AlbumSound(a), NEW w, NEW m, Fitting(w, m)
  PROVE  LayoutOf(ComputeTimelineLayout(GroupAssetsByDate(a), w, m), a, w, m)
  <1>1. PICK groups : groups = GroupAssetsByDate(a)
    OBVIOUS
  <1>2. /\ GroupsSound(groups, Before(a)) /\ Len(groups) >= 1
        /\ Shown(groups, Len(groups)) = DOMAIN a
        /\ \A g \in DOMAIN groups : groups[g].date \in {x.day : x \in Range(a)}
    BY <1>1, DaysSound
  <1>3. PICK l : l = ComputeTimelineLayout(groups, w, m)
                 /\ Laid(l, groups, Len(groups), Before(a), w, m)
    BY <1>2, LayoutLaid
  <1>4. /\ l \in Layout /\ Len(l.groups) = Len(groups)
        /\ \A g \in 1 .. Len(groups) : l.groups[g].date = groups[g].date
        /\ Block(l.rows, DOMAIN a, Before(a), 0, l.totalHeight, w, m)
    BY <1>2, <1>3 DEF Laid
  <1>5. l.totalHeight \in Nat
    <2>1. Block(l.rows, DOMAIN a, Before(a), 0, l.totalHeight, w, m)
      BY <1>4
    <2>2. l.totalHeight \in Int /\ 0 <= l.totalHeight
      BY <2>1 DEF Block
    <2> QED BY <2>2
  <1>6. DOMAIN groups = 1 .. Len(groups) /\ DOMAIN l.groups = 1 .. Len(groups)
    BY <1>2, <1>4 DEF GroupsSound, Layout
  <1> QED BY <1>1, <1>2, <1>3, <1>4, <1>5, <1>6 DEF LayoutOf

-----------------------------------------------------------------------------
(* What a layout answers.                                                  *)

\* Rows one under the other.
Stacked(rows) ==
  /\ rows \in Seq(Row)
  /\ \A i, j \in DOMAIN rows : i < j => rows[i].top + rows[i].height <= rows[j].top

\* The rows from one that ends below the top on, with all that begin above the
\* bottom.
InView(r, rows, top, bottom) ==
  /\ r.start \in Int /\ r.end \in Int
  /\ \A i \in DOMAIN rows :
       rows[i].top + rows[i].height > top /\ rows[i].top < bottom => i \in r.start .. r.end
  /\ \/ r = EmptyRange
     \/ /\ r.start \in 1 .. Len(rows)
        /\ \A i \in DOMAIN rows : i >= r.start <=> rows[i].top + rows[i].height > top

\* The two binary searches of computeRowRange find them in any sorted rows.
THEOREM RangeFound ==
  ASSUME NEW l, Stacked(l.rows), NEW top \in Int, NEW bottom \in Int, top <= bottom
  PROVE  InView(ComputeRowRange(l, top, bottom), l.rows, top, bottom)
  <1>1. PICK rows \in Seq(Row) : rows = l.rows
    BY DEF Stacked
  <1>2. PICK n \in Nat : n = Len(rows) /\ DOMAIN rows = 1 .. n
    OBVIOUS
  <1>3. \A i \in 1 .. n : rows[i].top \in Int /\ rows[i].height \in Nat
    BY <1>2, RowPlaces
  <1>4. \A i, j \in 1 .. n : i < j => rows[i].top + rows[i].height <= rows[j].top
    BY <1>1, <1>2 DEF Stacked
  <1>5. PICK from : from = [i \in DOMAIN rows |-> rows[i].top + rows[i].height > top]
    OBVIOUS
  <1>6. PICK upto : upto = [i \in DOMAIN rows |-> rows[i].top < bottom]
    OBVIOUS
  <1>7. /\ from \in [1 .. n -> BOOLEAN]
        /\ \A i \in 1 .. n : from[i] <=> rows[i].top + rows[i].height > top
    <2>1. from = [i \in 1 .. n |-> rows[i].top + rows[i].height > top]
      BY <1>2, <1>5, Zenon
    <2>2. from \in [1 .. n -> BOOLEAN]
      BY <2>1
    <2>3. \A i \in 1 .. n : from[i] <=> rows[i].top + rows[i].height > top
      BY <2>1
    <2> QED BY <2>2, <2>3
  <1>8. upto \in [1 .. n -> BOOLEAN] /\ \A i \in 1 .. n : upto[i] <=> rows[i].top < bottom
    <2>1. upto = [i \in 1 .. n |-> rows[i].top < bottom]
      BY <1>2, <1>6, Zenon
    <2>2. upto \in [1 .. n -> BOOLEAN]
      BY <2>1
    <2>3. \A i \in 1 .. n : upto[i] <=> rows[i].top < bottom
      BY <2>1
    <2> QED BY <2>2, <2>3
  <1>9. ASSUME NEW i \in 1 .. n, NEW j \in 1 .. n, i <= j
        PROVE  /\ rows[i].top <= rows[j].top
               /\ rows[i].top + rows[i].height <= rows[j].top + rows[j].height
    <2>1. PICK x \in Int, h \in Nat, y \in Int, k \in Nat :
            x = rows[i].top /\ h = rows[i].height /\ y = rows[j].top /\ k = rows[j].height
      BY <1>3
    <2>2. i = j => x = y /\ h = k
      BY <2>1
    <2>3. i < j => x + h <= y
      BY <1>4, <2>1
    <2>4. x <= y /\ x + h <= y + k
      BY <1>9, <2>2, <2>3
    <2> QED BY <2>1, <2>4
  <1>10. \A i, j \in 1 .. n : i <= j /\ from[i] => from[j]
    <2>1. ASSUME NEW i \in 1 .. n, NEW j \in 1 .. n, i <= j, from[i] PROVE from[j]
      <3>1. PICK x \in Int, y \in Int :
              x = rows[i].top + rows[i].height /\ y = rows[j].top + rows[j].height /\ x <= y
        BY <1>3, <1>9, <2>1
      <3>2. x > top
        BY <1>7, <2>1, <3>1
      <3>3. y > top
        BY <3>1, <3>2
      <3> QED BY <1>7, <3>1, <3>3
    <2> QED BY <2>1
  <1>11. \A i, j \in 1 .. n : i <= j /\ upto[j] => upto[i]
    <2>1. ASSUME NEW i \in 1 .. n, NEW j \in 1 .. n, i <= j, upto[j] PROVE upto[i]
      <3>1. PICK x \in Int, y \in Int : x = rows[i].top /\ y = rows[j].top /\ x <= y
        BY <1>3, <1>9, <2>1
      <3>2. y < bottom
        BY <1>8, <2>1, <3>1
      <3>3. x < bottom
        BY <3>1, <3>2
      <3> QED BY <1>8, <3>1, <3>3
    <2> QED BY <2>1
  <1>12. PICK start \in 1 .. n + 1 : /\ start = Search("first", from, 1, n, n + 1)
                                     /\ \A i \in 1 .. n : from[i] <=> i >= start
    BY <1>7, <1>10, SearchFirst
  <1>13. PICK end \in start - 1 .. n : /\ end = Search("last", upto, start, n, start - 1)
                                       /\ \A i \in start .. n : upto[i] <=> i <= end
    <2>1. \A i, j \in start .. n : i <= j /\ upto[j] => upto[i]
      BY <1>11, <1>12
    <2> QED BY <1>8, <1>12, <2>1, SearchLast
  <1>14. PICK r : r = ComputeRowRange(l, top, bottom)
    OBVIOUS
  <1>15. r = IF bottom < top \/ end < start THEN EmptyRange ELSE [start |-> start, end |-> end]
    <2>1. start = Search("first", [i \in DOMAIN l.rows |-> l.rows[i].top + l.rows[i].height > top],
                         1, Len(l.rows), Len(l.rows) + 1)
      BY <1>1, <1>2, <1>5, <1>12, Zenon
    <2>2. end = Search("last", [i \in DOMAIN l.rows |-> l.rows[i].top < bottom],
                       start, Len(l.rows), start - 1)
      BY <1>1, <1>2, <1>6, <1>13, Zenon
    <2> QED BY <1>14, <2>1, <2>2, Zenon DEF ComputeRowRange
  <1>16. r = IF end < start THEN EmptyRange ELSE [start |-> start, end |-> end]
    BY <1>15
  <1>17. \A i \in 1 .. n : rows[i].top + rows[i].height > top /\ rows[i].top < bottom
                             => start <= i /\ i <= end
    BY <1>7, <1>8, <1>12, <1>13
  <1>18. CASE end < start
    <2>1. r = EmptyRange /\ r.start = 1 /\ r.end = 0
      BY <1>16, <1>18 DEF EmptyRange
    <2>2. \A i \in 1 .. n : ~(rows[i].top + rows[i].height > top /\ rows[i].top < bottom)
      BY <1>17, <1>18
    <2> QED BY <1>1, <1>2, <1>14, <2>1, <2>2 DEF InView
  <1>19. CASE ~(end < start)
    <2>1. r.start = start /\ r.end = end /\ start \in 1 .. n
      BY <1>16, <1>19
    <2>2. \A i \in 1 .. n : i >= start <=> rows[i].top + rows[i].height > top
      BY <1>7, <1>12
    <2>3. \A i \in 1 .. n : rows[i].top + rows[i].height > top /\ rows[i].top < bottom
                              => i \in start .. end
      BY <1>17
    <2>4. InView(r, rows, top, bottom)
      BY <1>2, <2>1, <2>2, <2>3 DEF InView
    <2> QED BY <1>1, <1>14, <2>4
  <1> QED BY <1>18, <1>19

\* The rows of a layout are one under the other.
LEMMA LayoutStacked ==
  ASSUME NEW l, NEW a, NEW w, NEW m, LayoutOf(l, a, w, m)
  PROVE  Stacked(l.rows)
  BY DEF LayoutOf, Block, Stacked

\* There is a row for every photo, and the place of one that is put back is a
\* number.
LEMMA AnchorFound ==
  ASSUME NEW l, NEW a, NEW w, NEW m, LayoutOf(l, a, w, m), NEW anchor
  PROVE  /\ anchor.id \in DOMAIN a => AnchorRows(l, anchor) # {}
         /\ AnchorRows(l, anchor) # {} /\ anchor.offset \in Int => RestoreAnchor(l, anchor) \in Int
  <1>1. PICK rows \in Seq(Row) : rows = l.rows
    BY DEF LayoutOf, Block
  <1>2. anchor.id \in DOMAIN a => AnchorRows(l, anchor) # {}
    <2>1. \A x \in DOMAIN a : \E i \in DOMAIN rows : x \in IdsOf(rows[i].items)
      BY <1>1 DEF LayoutOf, Block
    <2> QED BY <1>1, <2>1 DEF AnchorRows, Holds, IdsOf
  <1>3. ASSUME AnchorRows(l, anchor) # {}, anchor.offset \in Int
        PROVE  RestoreAnchor(l, anchor) \in Int
    <2>1. PICK S : S = AnchorRows(l, anchor) /\ S \subseteq DOMAIN rows
      BY <1>1 DEF AnchorRows
    <2>2. S \subseteq Nat /\ S # {}
      BY <1>3, <2>1
    <2>3. Min(S) \in DOMAIN rows
      BY <2>1, <2>2, LeastOf
    <2>4. rows[Min(S)].top \in Int
      BY <2>3, RowPlaces
    <2> QED BY <1>1, <1>3, <2>1, <2>4 DEF RestoreAnchor
  <1> QED BY <1>2, <1>3

\* A day of the album at any place.
LEMMA DayFound ==
  ASSUME NEW l, NEW a, NEW w, NEW m, LayoutOf(l, a, w, m), NEW y
  PROVE  /\ FindGroupAt(l, y).date \in {x.day : x \in Range(a)}
         /\ l.groups[Len(l.groups)].date \in {x.day : x \in Range(a)}
  <1>1. PICK n \in Nat : n = Len(l.groups) /\ DOMAIN l.groups = 1 .. n /\ n >= 1
    BY DEF LayoutOf, Layout
  <1>2. PICK test : test = [g \in DOMAIN l.groups |-> l.groups[g].top <= y]
    OBVIOUS
  <1>3. PICK g : g = Search("last", test, 1, n, 1)
    OBVIOUS
  <1>4. g \in 1 .. n
    <2>1. 1 \in Int /\ n \in Nat
      OBVIOUS
    <2>2. g = 1 \/ g \in 1 .. n
      BY <1>3, <2>1, SearchFinds
    <2> QED BY <1>1, <2>2
  <1>5. FindGroupAt(l, y) = l.groups[g]
    BY <1>1, <1>2, <1>3 DEF FindGroupAt
  <1> QED BY <1>1, <1>4, <1>5 DEF LayoutOf

\* What captureAnchor finds is the first photo of the top row, a photo of the
\* album.
LEMMA Captured ==
  ASSUME NEW l, NEW a, NEW w, NEW m, LayoutOf(l, a, w, m), NEW top \in Int,
         CaptureAnchor(l, top) # NoAnchor
  PROVE  /\ CaptureAnchor(l, top) = TopAnchor(l, top)
         /\ CaptureAnchor(l, top).id \in DOMAIN a /\ CaptureAnchor(l, top).id \in Int
         /\ CaptureAnchor(l, top).offset \in Int
  <1>1. PICK rows \in Seq(Row), n \in Nat : /\ rows = l.rows /\ Stacked(rows)
                                           /\ n = Len(rows) /\ DOMAIN rows = 1 .. n
    BY LayoutStacked DEF Stacked
  <1>2. PICK range : range = ComputeRowRange(l, top, top + 1)
                     /\ InView(range, rows, top, top + 1)
    <2>1. top + 1 \in Int /\ top <= top + 1
      OBVIOUS
    <2> QED BY <1>1, <2>1, RangeFound
  <1>3. PICK below : below = {i \in range.start .. n : rows[i].kind = "assets"}
    OBVIOUS
  <1>4. PICK c : c = CaptureAnchor(l, top)
    OBVIOUS
  <1>5. /\ range # EmptyRange /\ below # {}
        /\ c = [id |-> rows[Min(below)].items[1].id, offset |-> top - rows[Min(below)].top]
    BY <1>1, <1>2, <1>3, <1>4 DEF CaptureAnchor
  <1>6. range.start \in 1 .. n
        /\ \A i \in 1 .. n : i >= range.start <=> rows[i].top + rows[i].height > top
    BY <1>1, <1>2, <1>5 DEF InView
  <1>7. below = {i \in 1 .. n : rows[i].kind = "assets" /\ rows[i].top + rows[i].height > top}
    BY <1>3, <1>6
  <1>8. PICK k \in 1 .. n : k = Min(below) /\ k \in below
    <2>1. below \subseteq Nat
      BY <1>7
    <2>2. Min(below) \in below
      BY <1>5, <2>1, LeastOf
    <2> QED BY <1>7, <2>2
  <1>9. c = TopAnchor(l, top)
    BY <1>1, <1>5, <1>7 DEF TopAnchor
  <1>10. rows[k].kind = "assets" /\ rows[k].top \in Int /\ rows[k].items \in Seq(Item)
    BY <1>1, <1>7, <1>8, RowPlaces
  <1>11. rows[k].items # <<>> /\ IdsOf(rows[k].items) \subseteq DOMAIN a
    BY <1>1, <1>10 DEF LayoutOf, Block, RowSound
  <1>12. 1 \in DOMAIN rows[k].items
    BY <1>10, <1>11, EmptySeq
  <1>13. rows[k].items[1].id \in DOMAIN a /\ rows[k].items[1].id \in Int
    <2>1. rows[k].items[1] \in Item
      BY <1>10, <1>12
    <2> QED BY <1>11, <1>12, <2>1 DEF IdsOf, Item
  <1> QED BY <1>4, <1>5, <1>8, <1>9, <1>10, <1>13

-----------------------------------------------------------------------------
(* The calls that wait for a frame.                                        *)

Anchor == [id : Int, offset : Int]
Call == [kind : {"sync", "settle", "anchor", "bubble"}, anchor : Anchor]

Has(q, kind) == \E i \in DOMAIN q : q[i].kind = kind
Once(q, kind) == \A i, j \in DOMAIN q : q[i].kind = kind /\ q[j].kind = kind => i = j
Only(q, a) == \A i \in DOMAIN q : q[i].kind = "anchor" => q[i].anchor = a

\* The first call runs.
LEMMA FrameRun ==
  ASSUME NEW q \in Seq(Call), q # <<>>
  PROVE  /\ Head(q) \in Call /\ Tail(q) \in Seq(Call) /\ Has(q, Head(q).kind)
         /\ \A k : Has(Tail(q), k) => Has(q, k)
         /\ \A k : Has(q, k) => Has(Tail(q), k) \/ k = Head(q).kind
         /\ \A k : Once(q, k) => Once(Tail(q), k)
         /\ \A a : Only(q, a) => Only(Tail(q), a)
         /\ \A a : Only(q, a) /\ Head(q).kind = "anchor" => Head(q).anchor = a
  <1>0. PICK r : r = Tail(q)
    OBVIOUS
  <1>1. PICK n \in Nat : n = Len(q) /\ n >= 1 /\ DOMAIN q = 1 .. n
    BY EmptySeq
  <1>2. r \in Seq(Call) /\ DOMAIN r = 1 .. n - 1 /\ \A i \in 1 .. n - 1 : r[i] = q[i + 1]
    BY <1>0, <1>1, HeadTailProperties
  <1>3. Head(q) = q[1] /\ 1 \in DOMAIN q /\ q[1] \in Call
    BY <1>1, HeadTailProperties
  <1>4. \A i \in 1 .. n - 1 : i + 1 \in 1 .. n
    OBVIOUS
  <1>5. \A i \in 1 .. n : i = 1 \/ (i - 1 \in 1 .. n - 1 /\ (i - 1) + 1 = i)
    OBVIOUS
  <1>6. \A k : Has(r, k) => Has(q, k)
    BY <1>1, <1>2, <1>4 DEF Has
  <1>7. ASSUME NEW k, Has(q, k) PROVE Has(r, k) \/ k = q[1].kind
    <2>1. PICK i \in 1 .. n : q[i].kind = k
      BY <1>1, <1>7 DEF Has
    <2>2. CASE i = 1
      BY <2>1, <2>2
    <2>3. CASE i # 1
      <3>1. i - 1 \in 1 .. n - 1 /\ r[i - 1] = q[i]
        BY <1>2, <1>5, <2>3
      <3> QED BY <1>2, <2>1, <3>1 DEF Has
    <2> QED BY <2>2, <2>3
  <1>8. ASSUME NEW k, Once(q, k) PROVE Once(r, k)
    <2>1. ASSUME NEW i \in 1 .. n - 1, NEW j \in 1 .. n - 1, r[i].kind = k, r[j].kind = k
          PROVE  i = j
      <3>1. i + 1 \in 1 .. n /\ j + 1 \in 1 .. n /\ q[i + 1].kind = k /\ q[j + 1].kind = k
        BY <1>2, <1>4, <2>1
      <3>2. i + 1 = j + 1
        BY <1>1, <1>8, <3>1 DEF Once
      <3> QED BY <3>2
    <2> QED BY <1>2, <2>1 DEF Once
  <1>9. \A a : Only(q, a) => Only(r, a)
    BY <1>1, <1>2, <1>4 DEF Only
  <1>10. Has(q, q[1].kind) /\ \A a : Only(q, a) /\ q[1].kind = "anchor" => q[1].anchor = a
    BY <1>3 DEF Has, Only
  <1> QED BY <1>0, <1>2, <1>3, <1>6, <1>7, <1>8, <1>9, <1>10

\* A call is put last.
LEMMA FrameAsked ==
  ASSUME NEW q \in Seq(Call), NEW c \in Call
  PROVE  /\ Append(q, c) \in Seq(Call) /\ Append(q, c) # <<>>
         /\ \A k : Has(Append(q, c), k) <=> Has(q, k) \/ k = c.kind
         /\ \A k : Once(q, k) /\ (k = c.kind => ~Has(q, k)) => Once(Append(q, c), k)
         /\ \A a : Only(q, a) /\ (c.kind = "anchor" => c.anchor = a) => Only(Append(q, c), a)
  <1>0. PICK r : r = Append(q, c)
    OBVIOUS
  <1>1. PICK n \in Nat : n = Len(q) /\ DOMAIN q = 1 .. n
    OBVIOUS
  <1>2. r \in Seq(Call) /\ r # <<>> /\ DOMAIN r = 1 .. n + 1 /\ r[n + 1] = c
        /\ \A i \in 1 .. n : r[i] = q[i]
    BY <1>0, <1>1, AppendProperties
  <1>3. \A i \in 1 .. n + 1 : i = n + 1 \/ i \in 1 .. n
    OBVIOUS
  <1>4. ASSUME NEW k PROVE Has(r, k) <=> Has(q, k) \/ k = c.kind
    BY <1>1, <1>2, <1>3 DEF Has
  <1>5. ASSUME NEW k, Once(q, k), k = c.kind => ~Has(q, k) PROVE Once(r, k)
    <2>1. ASSUME NEW i \in 1 .. n + 1, NEW j \in 1 .. n + 1, r[i].kind = k, r[j].kind = k
          PROVE  i = j
      <3>1. CASE k = c.kind
        <4>1. i \notin 1 .. n /\ j \notin 1 .. n
          BY <1>1, <1>2, <1>5, <2>1, <3>1 DEF Has
        <4> QED BY <1>3, <4>1
      <3>2. CASE k # c.kind
        <4>1. i \in 1 .. n /\ j \in 1 .. n /\ q[i].kind = k /\ q[j].kind = k
          BY <1>2, <1>3, <2>1, <3>2
        <4> QED BY <1>1, <1>5, <4>1 DEF Once
      <3> QED BY <3>1, <3>2
    <2> QED BY <1>2, <2>1 DEF Once
  <1>6. ASSUME NEW a, Only(q, a), c.kind = "anchor" => c.anchor = a PROVE Only(r, a)
    BY <1>1, <1>2, <1>3, <1>6 DEF Only
  <1> QED BY <1>0, <1>2, <1>4, <1>5, <1>6

\* A call is asked for unless one of its kind waits.
LEMMA FrameScheduled ==
  ASSUME NEW q \in Seq(Call), NEW c \in Call, c.kind # "anchor"
  PROVE  /\ Scheduled(q, c) \in Seq(Call) /\ Has(Scheduled(q, c), c.kind)
         /\ \A k : Has(q, k) => Has(Scheduled(q, c), k)
         /\ \A k : Has(Scheduled(q, c), k) => Has(q, k) \/ k = c.kind
         /\ \A k : Once(q, k) => Once(Scheduled(q, c), k)
         /\ \A a : Only(q, a) => Only(Scheduled(q, c), a)
  <1>1. PICK r : r = Scheduled(q, c) /\ r = IF Has(q, c.kind) THEN q ELSE Append(q, c)
    BY DEF Scheduled, Has
  <1>2. CASE Has(q, c.kind)
    BY <1>1, <1>2
  <1>3. CASE ~Has(q, c.kind)
    <2>1. r = Append(q, c)
      BY <1>1, <1>3
    <2> QED BY <1>1, <1>3, <2>1, FrameAsked
  <1> QED BY <1>2, <1>3

\* A pending sync is taken back.
LEMMA FrameCancelled ==
  ASSUME NEW q \in Seq(Call)
  PROVE  /\ CancelSync(q) \in Seq(Call)
         /\ \A k : Has(CancelSync(q), k) => Has(q, k)
         /\ \A k : Has(q, k) => Has(CancelSync(q), k) \/ k = "sync"
         /\ \A k : Once(q, k) => Once(CancelSync(q), k)
         /\ \A a : Only(q, a) => Only(CancelSync(q), a)
  <1>1. PICK r : r = CancelSync(q)
    OBVIOUS
  <1>2. CASE SyncsOf(q) = {}
    BY <1>1, <1>2 DEF CancelSync
  <1>3. CASE SyncsOf(q) # {}
    <2>1. PICK n \in Nat : n = Len(q) /\ DOMAIN q = 1 .. n
      OBVIOUS
    <2>2. PICK m \in 1 .. n : m = Min(SyncsOf(q)) /\ q[m].kind = "sync"
      <3>1. SyncsOf(q) \subseteq Nat
        BY <2>1 DEF SyncsOf
      <3>2. Min(SyncsOf(q)) \in SyncsOf(q)
        BY <1>3, <3>1, LeastOf
      <3> QED BY <2>1, <3>2 DEF SyncsOf
    <2>3. r = SubSeq(q, 1, m - 1) \o SubSeq(q, m + 1, n)
      BY <1>1, <1>3, <2>1, <2>2 DEF CancelSync, RemoveAt
    <2>4. PICK p, s : p = SubSeq(q, 1, m - 1) /\ s = SubSeq(q, m + 1, n)
      OBVIOUS
    <2>5. p \in Seq(Call) /\ Len(p) = m - 1 /\ \A i \in 1 .. m - 1 : p[i] = q[i]
      BY <2>1, <2>4, SubSeqProperties
    <2>6. s \in Seq(Call) /\ Len(s) = n - m /\ \A i \in 1 .. n - m : s[i] = q[m + i]
      BY <2>1, <2>4, SubSeqProperties
    <2>7. r \in Seq(Call) /\ DOMAIN r = 1 .. n - 1
          /\ \A i \in 1 .. n - 1 : r[i] = IF i < m THEN q[i] ELSE q[i + 1]
      BY <2>3, <2>4, <2>5, <2>6, ConcatProperties
    <2> DEFINE at == [i \in 1 .. n - 1 |-> IF i < m THEN i ELSE i + 1]
    <2>8. \A i \in 1 .. n - 1 : at[i] \in 1 .. n /\ r[i] = q[at[i]]
      BY <2>7
    <2>9. \A i, j \in 1 .. n - 1 : at[i] = at[j] => i = j
      OBVIOUS
    <2>10. \A k \in 1 .. n : k = m \/ \E i \in 1 .. n - 1 : at[i] = k
      <3>1. ASSUME NEW k \in 1 .. n, k < m PROVE k \in 1 .. n - 1 /\ at[k] = k
        BY <3>1
      <3>2. ASSUME NEW k \in 1 .. n, k > m PROVE k - 1 \in 1 .. n - 1 /\ at[k - 1] = k
        BY <3>2
      <3>3. \A k \in 1 .. n : k < m \/ k = m \/ k > m
        OBVIOUS
      <3> HIDE DEF at
      <3> QED BY <3>1, <3>2, <3>3
    <2> HIDE DEF at
    <2>11. \A k : Has(r, k) => Has(q, k)
      BY <2>1, <2>7, <2>8 DEF Has
    <2>12. ASSUME NEW k, Has(q, k) PROVE Has(r, k) \/ k = "sync"
      <3>1. PICK j \in 1 .. n : q[j].kind = k
        BY <2>1, <2>12 DEF Has
      <3>2. CASE j = m
        BY <2>2, <3>1, <3>2
      <3>3. CASE j # m
        <4>1. PICK i \in 1 .. n - 1 : at[i] = j
          BY <2>10, <3>3
        <4>2. r[i] = q[j]
          BY <2>8, <4>1
        <4> QED BY <2>7, <3>1, <4>2 DEF Has
      <3> QED BY <3>2, <3>3
    <2>13. ASSUME NEW k, Once(q, k) PROVE Once(r, k)
      <3>1. ASSUME NEW i \in 1 .. n - 1, NEW j \in 1 .. n - 1, r[i].kind = k, r[j].kind = k
            PROVE  i = j
        <4>1. at[i] \in DOMAIN q /\ at[j] \in DOMAIN q /\ r[i] = q[at[i]] /\ r[j] = q[at[j]]
          BY <2>1, <2>8
        <4>2. at[i] = at[j]
          BY <2>13, <3>1, <4>1 DEF Once
        <4> QED BY <2>9, <4>2
      <3> QED BY <2>7, <3>1 DEF Once
    <2>14. ASSUME NEW a, Only(q, a) PROVE Only(r, a)
      BY <2>1, <2>7, <2>8, <2>14 DEF Only
    <2> QED BY <1>1, <2>7, <2>11, <2>12, <2>13, <2>14
  <1> QED BY <1>2, <1>3

-----------------------------------------------------------------------------
(* The inductive invariant.                                                *)

\* The layout is of the album and the width, the positions are numbers the
\* browser and the box can be at.
Placed ==
  /\ album \in Albums /\ width \in Widths /\ boxWidth = width /\ layout = LayoutFor(width)
  /\ boxTop \in BoxTops /\ cachedTop \in BoxTops
  /\ scrollTop \in Int /\ scrolled \in Int /\ scrollTop = Clamped(scrollTop, layout, boxTop)

\* What waits for a frame; something thaws what is frozen.
Queued ==
  /\ frames \in Seq(Call) /\ Once(frames, "sync") /\ Once(frames, "bubble")
  /\ fast => settle \/ Has(frames, "settle")

Flagged ==
  /\ fast \in BOOLEAN /\ settle \in BOOLEAN /\ dragging \in BOOLEAN /\ quiet \in BOOLEAN
  /\ relaid \in BOOLEAN /\ captured \in BOOLEAN
  /\ load.start \in Int /\ load.end \in Int
  /\ pointer \in {"none", "mouse", "touch"} /\ (pointer # "none" => dragging)
  /\ bubble \in {a.day : a \in Range(album)} /\ moves \in 0 .. MaxMoves

\* A position that was read late has a sync coming, or was read with one of the
\* offsets the box has had.
RowsFollow == Has(frames, "sync") \/ \E t \in BoxTops : scrolled = scrollTop - t

\* Without a settle timer nothing has jumped; what is not frozen loads the rows.
RestKnown == (~settle => quiet) /\ (~fast => quiet /\ load = RenderRange)

\* A date that may be wrong will be looked up again.
BubbleFollows ==
  \/ relaid \/ Has(frames, "bubble")
  \/ \E top, bottom \in BoxTops : bubble = GroupAt(scrollTop, top, MaxScroll(layout, bottom))

\* What a resized gallery is to be put back to is a photo of the album, every
\* frame that waits puts it back to that, and without one it is there.
RowKept ==
  captured /\ reading # NoAnchor =>
    /\ reading.id \in DOMAIN album /\ Only(frames, reading)
    /\ \/ Has(frames, "anchor")
       \/ scrollTop = Clamped(RestoreAnchor(layout, reading) + boxTop, layout, boxTop)

IInv == Placed /\ Queued /\ Flagged /\ RowsFollow /\ RestKnown /\ BubbleFollows /\ RowKept

\* The assumptions on the constants, as the lemmas above need them.
LEMMA Assumed ==
  /\ \A a \in Albums : AlbumSound(a)
  /\ \A w \in Widths : Fitting(w, Metrics)
  /\ \A t \in BoxTops : t \in Nat
  /\ \A t, u \in BoxTops : t - u <= Overscan
  /\ ViewportH \in Nat /\ Overscan \in Nat /\ MaxMoves \in Nat /\ Positions \subseteq Int
  /\ Metrics \in LayoutMetrics
  BY TimelineAssumption DEF AlbumSound, Fitting, Overscan

\* The layouts of the album.
LEMMA LayoutForSound ==
  ASSUME NEW w \in Widths, album \in Albums
  PROVE  LayoutOf(LayoutFor(w), album, w, Metrics)
  BY Assumed, LayoutComputed DEF LayoutFor

\* Where the browser stops a scroll, it stays.
LEMMA ClampedStays ==
  ASSUME NEW p \in Int, NEW l, l.totalHeight \in Nat, NEW top \in BoxTops
  PROVE  /\ Clamped(p, l, top) \in Int /\ Clamped(0, l, top) = 0
         /\ Clamped(Clamped(p, l, top), l, top) = Clamped(p, l, top)
  <1>1. PICK x \in Int : x = top + l.totalHeight - ViewportH
    BY Assumed
  <1>2. PICK end \in Int : end = MaxScroll(l, top) /\ end >= 0
    <2>1. 0 \in Int /\ Max({0, x}) = IF 0 >= x THEN 0 ELSE x
      BY MaxMinOf
    <2> QED BY <1>1, <2>1 DEF MaxScroll
  <1>3. ASSUME NEW y \in Int
        PROVE  Clamped(y, l, top) = IF y <= 0 THEN 0 ELSE IF y <= end THEN y ELSE end
    <2>1. PICK z \in Int : z = Min({y, end}) /\ z = IF y <= end THEN y ELSE end
      BY <1>2, MaxMinOf
    <2>2. Max({0, z}) = IF 0 >= z THEN 0 ELSE z
      <3>1. 0 \in Int /\ z \in Int
        OBVIOUS
      <3> QED BY <3>1, MaxMinOf
    <2>3. Clamped(y, l, top) = Max({0, z})
      BY <1>2, <2>1 DEF Clamped
    <2> QED BY <1>2, <2>1, <2>2, <2>3
  <1>4. PICK y \in Int : y = Clamped(p, l, top) /\ (y = 0 \/ (0 <= y /\ y <= end))
    BY <1>2, <1>3
  <1>5. Clamped(y, l, top) = y /\ Clamped(0, l, top) = 0
    BY <1>2, <1>3, <1>4
  <1> QED BY <1>4, <1>5

\* What the browser sends after a scroll.
LEMMA ScrolledDoes ==
  ASSUME NEW p, NEW q \in Seq(Call), ScrolledTo(p, q)
  PROVE  /\ scrollTop' = p /\ frames' \in Seq(Call)
         /\ \A k : Has(q, k) => Has(frames', k)
         /\ \A k : Has(frames', k) => Has(q, k) \/ k \in {"sync", "bubble"}
         /\ \A k : Once(q, k) => Once(frames', k)
         /\ \A a : Only(q, a) => Only(frames', a)
         /\ p # scrollTop => Has(frames', "sync") /\ (Has(frames', "bubble") \/ dragging)
  <1>1. PICK s, b : s = Sync /\ b = [Sync EXCEPT !.kind = "bubble"]
    OBVIOUS
  <1>2. s \in Call /\ s.kind = "sync" /\ b \in Call /\ b.kind = "bubble"
    BY <1>1 DEF Sync, Call, Anchor, NoAnchor
  <1>3. "sync" # "anchor" /\ "bubble" # "anchor"
    OBVIOUS
  <1>4. PICK one : one = Scheduled(q, s)
    OBVIOUS
  <1>5. /\ one \in Seq(Call) /\ Has(one, "sync")
        /\ \A k : Has(q, k) => Has(one, k)
        /\ \A k : Has(one, k) => Has(q, k) \/ k = "sync"
        /\ \A k : Once(q, k) => Once(one, k)
        /\ \A a : Only(q, a) => Only(one, a)
    BY <1>2, <1>3, <1>4, FrameScheduled
  <1>6. PICK two : two = Scheduled(one, b)
    OBVIOUS
  <1>7. /\ two \in Seq(Call) /\ Has(two, "bubble")
        /\ \A k : Has(one, k) => Has(two, k)
        /\ \A k : Has(two, k) => Has(one, k) \/ k = "bubble"
        /\ \A k : Once(one, k) => Once(two, k)
        /\ \A a : Only(one, a) => Only(two, a)
    BY <1>2, <1>3, <1>5, <1>6, FrameScheduled
  <1>8. /\ scrollTop' = p
        /\ frames' = IF p = scrollTop THEN q ELSE IF dragging THEN one ELSE two
    BY <1>1, <1>4, <1>6 DEF ScrolledTo, ScheduleSync
  <1>9. CASE p = scrollTop
    BY <1>8, <1>9
  <1>10. CASE p # scrollTop /\ dragging
    <2>1. frames' = one
      BY <1>8, <1>10
    <2> QED BY <1>5, <1>8, <1>10, <2>1
  <1>11. CASE p # scrollTop /\ ~dragging
    <2>1. frames' = two
      BY <1>8, <1>11
    <2> QED BY <1>5, <1>7, <1>8, <1>11, <2>1
  <1> QED BY <1>9, <1>10, <1>11

\* What the lemmas below need of a state.
LEMMA PlacedKnown ==
  ASSUME Placed
  PROVE  /\ LayoutOf(layout, album, width, Metrics) /\ layout.totalHeight \in Nat
         /\ boxTop \in Nat /\ cachedTop \in Nat /\ scrollTop - boxTop \in Int
         /\ scrollTop - cachedTop \in Int
  <1>1. LayoutOf(layout, album, width, Metrics)
    <2>1. LayoutOf(LayoutFor(width), album, width, Metrics)
      BY LayoutForSound DEF Placed
    <2> QED BY <2>1 DEF Placed
  <1>2. layout.totalHeight \in Nat
    BY <1>1 DEF LayoutOf
  <1>3. boxTop \in Nat /\ cachedTop \in Nat /\ scrollTop \in Int
    BY Assumed DEF Placed
  <1> QED BY <1>1, <1>2, <1>3

\* The rows around the viewport.
LEMMA RangeKnown ==
  ASSUME NEW l, NEW a, NEW w, LayoutOf(l, a, w, Metrics), NEW top \in Int
  PROVE  /\ InView(RangeAt(l, top), l.rows, top - Overscan, top + ViewportH + Overscan)
         /\ RangeAt(l, top).start \in Int /\ RangeAt(l, top).end \in Int
  <1>1. PICK from \in Int, upto \in Int :
          from = top - Overscan /\ upto = top + ViewportH + Overscan /\ from <= upto
    BY Assumed
  <1>2. Stacked(l.rows)
    BY LayoutStacked
  <1>3. InView(ComputeRowRange(l, from, upto), l.rows, from, upto)
    BY <1>1, <1>2, RangeFound
  <1>4. InView(RangeAt(l, top), l.rows, from, upto)
    BY <1>1, <1>3 DEF RangeAt
  <1> QED BY <1>1, <1>4 DEF InView

\* The day at any place is one of the album.
LEMMA DayKnown ==
  ASSUME LayoutOf(layout, album, width, Metrics), NEW p, NEW top, NEW bottom
  PROVE  GroupAt(p, top, bottom) \in {a.day : a \in Range(album)}
  <1>1. FindGroupAt(layout, p - top + GroupTopBias).date \in {a.day : a \in Range(album)}
        /\ layout.groups[Len(layout.groups)].date \in {a.day : a \in Range(album)}
    BY DayFound
  <1> QED BY <1>1 DEF GroupAt

-----------------------------------------------------------------------------
(* What each action keeps of it.                                           *)

\* The box and the browser move, the layout stays.
LEMMA PlacedStays ==
  ASSUME Placed, UNCHANGED <<album, boxWidth, width, layout>>,
         boxTop' \in BoxTops, cachedTop' \in BoxTops, scrolled' \in Int,
         NEW p \in Int, scrollTop' = Clamped(p, layout, boxTop')
  PROVE  Placed'
  <1>1. layout.totalHeight \in Nat
    BY PlacedKnown
  <1>2. PICK top \in BoxTops : top = boxTop'
    OBVIOUS
  <1>3. scrollTop' \in Int /\ scrollTop' = Clamped(scrollTop', layout, boxTop')
    BY <1>1, <1>2, ClampedStays
  <1>4. layout' = LayoutFor(width)'
    BY DEF Placed, LayoutFor
  <1> QED BY <1>3, <1>4 DEF Placed

\* The user makes a move.
LEMMA MoveMade ==
  ASSUME Flagged, moves < MaxMoves, moves' = moves + 1
  PROVE  moves' \in 0 .. MaxMoves
  <1>1. moves \in 0 .. MaxMoves
    BY DEF Flagged
  <1> QED BY <1>1, Assumed

\* It holds before anything has happened.
LEMMA InitIInv ==
  ASSUME Init
  PROVE  IInv
  <1>1. /\ album \in Albums /\ width \in Widths /\ boxWidth = width
        /\ layout = LayoutFor(width) /\ boxTop \in BoxTops /\ cachedTop = boxTop
        /\ scrollTop = 0 /\ scrolled = -cachedTop
    BY DEF Init
  <1>2. LayoutOf(layout, album, width, Metrics) /\ layout.totalHeight \in Nat
    <2>1. LayoutOf(layout, album, width, Metrics)
      BY <1>1, LayoutForSound
    <2> QED BY <2>1 DEF LayoutOf
  <1>3. scrolled \in Int /\ scrolled = scrollTop - cachedTop
    BY <1>1, Assumed
  <1>4. scrollTop = Clamped(scrollTop, layout, boxTop)
    <2>1. 0 \in Int
      OBVIOUS
    <2> QED BY <1>1, <1>2, <2>1, ClampedStays
  <1>5. Placed
    BY <1>1, <1>3, <1>4 DEF Placed
  <1>6. Queued
    <2>1. frames = <<>> /\ fast = FALSE
      BY DEF Init
    <2>2. frames \in Seq(Call) /\ DOMAIN frames = {}
      BY <2>1
    <2> QED BY <2>1, <2>2 DEF Queued, Once
  <1>7. Flagged
    <2>1. bubble \in {a.day : a \in Range(album)}
      BY <1>2, DayKnown DEF Init, GroupAtScrollTop
    <2>2. load.start \in Int /\ load.end \in Int
      BY <1>2, <1>3, RangeKnown DEF Init, RenderRange
    <2>3. moves \in 0 .. MaxMoves
      BY Assumed DEF Init
    <2> QED BY <2>1, <2>2, <2>3, Zenon DEF Init, Flagged
  <1>8. RowsFollow
    BY <1>1, <1>3 DEF RowsFollow
  <1>9. RestKnown
    BY DEF Init, RestKnown
  <1>10. BubbleFollows
    BY <1>1 DEF Init, BubbleFollows, GroupAtScrollTop
  <1>11. RowKept
    BY DEF Init, RowKept
  <1> QED BY <1>5, <1>6, <1>7, <1>8, <1>9, <1>10, <1>11 DEF IInv

\* The user scrolls.
LEMMA ScrollKeeps ==
  ASSUME IInv, NEW p \in Positions, Scroll(p)
  PROVE  IInv'
  <1>1. /\ Placed /\ Queued /\ Flagged /\ RestKnown /\ p \in Int
        /\ boxTop' \in BoxTops /\ ~dragging
    BY Assumed DEF IInv, Scroll
  <1>2. PICK t : t = Clamped(p, layout, boxTop') /\ t # scrollTop /\ ScrolledTo(t, frames)
    BY DEF Scroll
  <1>3. /\ scrollTop' = t /\ frames' \in Seq(Call)
        /\ \A k : Has(frames, k) => Has(frames', k)
        /\ \A k : Once(frames, k) => Once(frames', k)
        /\ Has(frames', "sync") /\ Has(frames', "bubble")
    BY <1>1, <1>2, ScrolledDoes DEF Queued
  <1>4. Placed'
    BY <1>1, <1>2, <1>3, PlacedStays DEF Scroll, measureVars, loadVars, Placed
  <1>5. Queued'
    BY <1>1, <1>3 DEF Queued, Scroll, loadVars
  <1>6. Flagged'
    <2>1. moves' \in 0 .. MaxMoves
      BY <1>1, MoveMade DEF Scroll
    <2>2. UNCHANGED <<album, fast, load, settle, pointer, dragging, bubble, quiet>>
          /\ relaid' = FALSE /\ captured' = FALSE
      BY DEF Scroll, loadVars, scrubVars
    <2> QED BY <1>1, <2>1, <2>2, Zenon DEF Flagged
  <1>7. RowsFollow'
    BY <1>3 DEF RowsFollow
  <1>8. RestKnown'
    BY <1>1 DEF RestKnown, Scroll, loadVars, measureVars, RenderRange
  <1>9. BubbleFollows'
    BY <1>3 DEF BubbleFollows
  <1>10. RowKept'
    BY DEF RowKept, Scroll
  <1> QED BY <1>4, <1>5, <1>6, <1>7, <1>8, <1>9, <1>10 DEF IInv

\* Whether a position is a jump.
LEMMA TeleportsOrNot ==
  ASSUME Placed, NEW top \in Int
  PROVE  Teleports(top) \in BOOLEAN
  BY Assumed DEF Placed, Teleports

\* The frame of the scrubber's date and of the anchor do not depend on a call
\* that is not theirs.
LEMMA OtherCallRun ==
  ASSUME IInv, frames # <<>>, frames' = Tail(frames),
         UNCHANGED <<album, layout, boxTop, scrollTop, bubble, relaid, reading, captured>>
  PROVE  /\ Head(frames).kind # "bubble" => BubbleFollows'
         /\ Head(frames).kind # "anchor" => RowKept'
  <1>1. /\ \A k : Has(frames, k) => Has(frames', k) \/ k = Head(frames).kind
        /\ \A a : Only(frames, a) => Only(frames', a)
    BY FrameRun DEF IInv, Queued
  <1>2. ASSUME Head(frames).kind # "bubble" PROVE BubbleFollows'
    <2>1. CASE relaid \/ Has(frames, "bubble")
      BY <1>1, <1>2, <2>1 DEF BubbleFollows
    <2>2. CASE \E top, bottom \in BoxTops :
                 bubble = GroupAt(scrollTop, top, MaxScroll(layout, bottom))
      BY <2>2 DEF BubbleFollows, GroupAt
    <2> QED BY <2>1, <2>2 DEF IInv, BubbleFollows
  <1>3. ASSUME Head(frames).kind # "anchor" PROVE RowKept'
    BY <1>1, <1>3 DEF IInv, RowKept
  <1> QED BY <1>2, <1>3

\* The frame of the scroll handler runs.
LEMMA RunSyncKeeps ==
  ASSUME IInv, RunSync
  PROVE  IInv'
  <1>1. /\ Placed /\ Queued /\ Flagged /\ RestKnown
        /\ frames # <<>> /\ Head(frames).kind = "sync" /\ frames' = Tail(frames)
    BY DEF IInv, RunSync
  <1>2. /\ frames' \in Seq(Call)
        /\ \A k : Has(frames, k) => Has(frames', k) \/ k = "sync"
        /\ \A k : Once(frames, k) => Once(frames', k)
    BY <1>1, FrameRun DEF Queued
  <1>3. PICK top \in Int : top = scrollTop - cachedTop
    BY <1>1, PlacedKnown
  <1>4. PICK jump \in BOOLEAN : jump = Teleports(top)
    BY <1>1, TeleportsOrNot
  <1>5. /\ scrolled' = top /\ quiet' = (quiet /\ ~jump)
        /\ fast' = (fast \/ jump) /\ settle' = (settle \/ jump)
        /\ load' = IF fast' THEN load ELSE RangeAt(layout, top)
    BY <1>3, <1>4 DEF RunSync, SyncScroll, CatchUp
  <1>6. /\ UNCHANGED <<album, boxWidth, boxTop, scrollTop, width, layout, cachedTop>>
        /\ UNCHANGED <<pointer, dragging, bubble, moves, relaid, reading, captured>>
    BY DEF RunSync, browserVars, measureVars, scrubVars, readVars
  <1>7. Placed'
    BY <1>1, <1>5, <1>6, PlacedStays DEF Placed
  <1>8. Queued'
    <2>1. fast' => settle' \/ Has(frames', "settle")
      BY <1>1, <1>2, <1>5, Zenon DEF Queued, Flagged
    <2> QED BY <1>1, <1>2, <2>1 DEF Queued
  <1>9. Flagged'
    <2>1. load'.start \in Int /\ load'.end \in Int
      BY <1>1, <1>3, <1>5, RangeKnown, PlacedKnown DEF Flagged
    <2>2. quiet' \in BOOLEAN /\ fast' \in BOOLEAN /\ settle' \in BOOLEAN
      BY <1>5
    <2> QED BY <1>1, <1>6, <2>1, <2>2, Zenon DEF Flagged
  <1>10. RowsFollow'
    BY <1>1, <1>3, <1>5, <1>6 DEF RowsFollow, Placed
  <1>11. RestKnown'
    <2>1. RenderRange' = RangeAt(layout, top)
      BY <1>5, <1>6 DEF RenderRange
    <2>2. ~fast' => load' = RenderRange'
      BY <1>5, <2>1, Zenon
    <2>3. (~settle' => quiet') /\ (~fast' => quiet')
      BY <1>1, <1>5, Zenon DEF RestKnown
    <2> QED BY <2>2, <2>3 DEF RestKnown
  <1>12. BubbleFollows' /\ RowKept'
    BY <1>1, <1>6, OtherCallRun
  <1> QED BY <1>7, <1>8, <1>9, <1>10, <1>11, <1>12 DEF IInv

\* The settle timer goes off.
LEMMA SettleTimerKeeps ==
  ASSUME IInv, SettleTimer
  PROVE  IInv'
  <1>1. /\ Placed /\ Queued /\ Flagged /\ RestKnown /\ frames' = Append(frames, Settle)
        /\ settle' = FALSE /\ quiet' = TRUE
    BY DEF IInv, SettleTimer
  <1>2. Settle \in Call /\ Settle.kind = "settle"
    BY DEF Settle, Call, Anchor, NoAnchor
  <1>3. /\ frames' \in Seq(Call) /\ Has(frames', "settle")
        /\ \A k : Has(frames, k) => Has(frames', k)
        /\ Once(frames', "sync") /\ Once(frames', "bubble")
        /\ \A a : Only(frames, a) => Only(frames', a)
    <2>1. "sync" # Settle.kind /\ "bubble" # Settle.kind /\ Settle.kind # "anchor"
      BY <1>2
    <2> QED BY <1>1, <1>2, <2>1, FrameAsked, Zenon DEF Queued
  <1>4. /\ UNCHANGED <<album, boxWidth, boxTop, scrollTop, width, layout, cachedTop>>
        /\ UNCHANGED <<scrolled, fast, load, pointer, dragging, bubble, moves>>
        /\ UNCHANGED <<relaid, reading, captured>>
    BY DEF SettleTimer, browserVars, measureVars, scrubVars, readVars
  <1>5. Placed'
    BY <1>1, <1>4, PlacedStays DEF Placed
  <1>6. Queued'
    BY <1>3 DEF Queued
  <1>7. Flagged'
    BY <1>1, <1>4, Zenon DEF Flagged
  <1>8. RowsFollow'
    BY <1>3, <1>4 DEF IInv, RowsFollow
  <1>9. RestKnown'
    BY <1>1, <1>4 DEF RestKnown, RenderRange
  <1>10. BubbleFollows'
    BY <1>3, <1>4 DEF IInv, BubbleFollows, GroupAt
  <1>11. RowKept'
    BY <1>3, <1>4 DEF IInv, RowKept
  <1> QED BY <1>5, <1>6, <1>7, <1>8, <1>9, <1>10, <1>11 DEF IInv

\* The frame the timer asked for runs.
LEMMA RunSettleKeeps ==
  ASSUME IInv, RunSettle
  PROVE  IInv'
  <1>1. /\ Placed /\ Queued /\ Flagged /\ RestKnown
        /\ frames # <<>> /\ Head(frames).kind = "settle" /\ frames' = Tail(frames)
    BY DEF IInv, RunSettle
  <1>2. /\ frames' \in Seq(Call)
        /\ \A k : Has(frames, k) => Has(frames', k) \/ k = "settle"
        /\ \A k : Once(frames, k) => Once(frames', k)
    BY <1>1, FrameRun DEF Queued
  <1>3. PICK top \in Int : top = scrollTop - boxTop
    BY <1>1, PlacedKnown
  <1>4. PICK jump \in BOOLEAN : jump = Teleports(top)
    BY <1>1, TeleportsOrNot
  <1>5. /\ UNCHANGED <<album, boxWidth, boxTop, scrollTop, width, layout>>
        /\ UNCHANGED <<pointer, dragging, bubble, moves, relaid, reading, captured>>
    BY DEF RunSettle, browserVars, scrubVars, readVars
  <1>6. BubbleFollows' /\ RowKept'
    BY <1>1, <1>5, OtherCallRun
  <1>7. CASE settle
    <2>1. UNCHANGED <<cachedTop, scrolled, fast, load, settle, quiet>>
      BY <1>7 DEF RunSettle, loadVars
    <2>2. Placed'
      BY <1>1, <1>5, <2>1, PlacedStays DEF Placed
    <2>3. Queued'
      BY <1>1, <1>2, <1>7, <2>1 DEF Queued
    <2>4. Flagged'
      BY <1>1, <1>5, <2>1, Zenon DEF Flagged
    <2>5. RowsFollow'
      BY <1>2, <1>5, <2>1 DEF IInv, RowsFollow
    <2>6. RestKnown'
      BY <1>1, <1>5, <2>1 DEF RestKnown, RenderRange
    <2> QED BY <1>6, <2>2, <2>3, <2>4, <2>5, <2>6 DEF IInv
  <1>8. CASE ~settle
    <2>1. /\ cachedTop' = boxTop /\ scrolled' = top
          /\ settle' = jump /\ fast' = jump /\ quiet' = (quiet /\ ~jump)
          /\ load' = IF fast' THEN load ELSE RangeAt(layout, top)
      BY <1>3, <1>4, <1>8 DEF RunSettle, CatchUp
    <2>2. Placed'
      BY <1>1, <1>5, <2>1, PlacedStays DEF Placed
    <2>3. Queued'
      BY <1>1, <1>2, <2>1 DEF Queued
    <2>4. Flagged'
      <3>1. load'.start \in Int /\ load'.end \in Int
        BY <1>1, <1>3, <2>1, RangeKnown, PlacedKnown DEF Flagged
      <3>2. quiet' \in BOOLEAN /\ fast' \in BOOLEAN /\ settle' \in BOOLEAN
        BY <2>1
      <3> QED BY <1>1, <1>5, <3>1, <3>2, Zenon DEF Flagged
    <2>5. RowsFollow'
      BY <1>1, <1>3, <1>5, <2>1 DEF RowsFollow, Placed
    <2>6. RestKnown'
      <3>1. RenderRange' = RangeAt(layout, top)
        BY <1>5, <2>1 DEF RenderRange
      <3>2. ~fast' => load' = RenderRange'
        BY <2>1, <3>1, Zenon
      <3>3. (~settle' => quiet') /\ (~fast' => quiet')
        BY <1>1, <1>8, <2>1, Zenon DEF RestKnown
      <3> QED BY <3>2, <3>3 DEF RestKnown
    <2> QED BY <1>6, <2>2, <2>3, <2>4, <2>5, <2>6 DEF IInv
  <1> QED BY <1>7, <1>8

\* The date of the scrubber is looked up.
LEMMA RunBubbleKeeps ==
  ASSUME IInv, RunBubble
  PROVE  IInv'
  <1>1. /\ Placed /\ Queued /\ Flagged /\ RestKnown
        /\ frames # <<>> /\ Head(frames).kind = "bubble" /\ frames' = Tail(frames)
    BY DEF IInv, RunBubble
  <1>2. /\ frames' \in Seq(Call)
        /\ \A k : Has(frames, k) => Has(frames', k) \/ k = "bubble"
        /\ \A k : Once(frames, k) => Once(frames', k)
        /\ \A a : Only(frames, a) => Only(frames', a)
    BY <1>1, FrameRun DEF Queued
  <1>3. /\ UNCHANGED <<album, boxWidth, boxTop, scrollTop, width, layout, cachedTop>>
        /\ UNCHANGED <<scrolled, fast, load, settle, pointer, dragging, moves>>
        /\ UNCHANGED <<quiet, relaid, reading, captured>>
    BY DEF RunBubble, browserVars, measureVars, loadVars, histVars, readVars
  <1>4. bubble' = GroupAt(scrollTop, cachedTop, MaxScroll(layout, boxTop))
    BY DEF RunBubble, GroupAtScrollTop
  <1>5. Placed'
    BY <1>1, <1>3, PlacedStays DEF Placed
  <1>6. Queued'
    BY <1>1, <1>2, <1>3 DEF Queued
  <1>7. Flagged'
    <2>1. bubble' \in {a.day : a \in Range(album)}
      BY <1>1, <1>4, DayKnown, PlacedKnown
    <2> QED BY <1>1, <1>3, <2>1, Zenon DEF Flagged
  <1>8. RowsFollow'
    BY <1>2, <1>3 DEF IInv, RowsFollow
  <1>9. RestKnown'
    BY <1>1, <1>3 DEF RestKnown, RenderRange
  <1>10. BubbleFollows'
    BY <1>1, <1>3, <1>4 DEF BubbleFollows, GroupAt, Placed
  <1>11. RowKept'
    BY <1>2, <1>3 DEF IInv, RowKept
  <1> QED BY <1>5, <1>6, <1>7, <1>8, <1>9, <1>10, <1>11 DEF IInv

\* A press or a drag on the scrubber.
LEMMA DragToKeeps ==
  ASSUME IInv, NEW p \in Positions, DragTo(p),
         pointer' \in {"none", "mouse", "touch"}, dragging' = TRUE
  PROVE  IInv'
  <1>1. /\ Placed /\ Queued /\ Flagged /\ RestKnown /\ p \in Int
    BY Assumed DEF IInv
  <1>2. PICK target : target = Clamped(p, layout, boxTop)
    OBVIOUS
  <1>3. /\ scrollTop' = target
        /\ bubble' = GroupAt(target, cachedTop, MaxScroll(layout, boxTop))
        /\ frames' = IF target = scrollTop THEN frames ELSE Scheduled(frames, Sync)
        /\ captured' = FALSE /\ relaid' = FALSE
        /\ UNCHANGED <<album, boxWidth, boxTop, width, layout, cachedTop>>
        /\ UNCHANGED <<scrolled, fast, load, settle, quiet>>
    BY <1>2 DEF DragTo, GroupAtScrollTop, ScheduleSync, measureVars, loadVars
  <1>4. Sync \in Call /\ Sync.kind = "sync"
    BY DEF Sync, Call, Anchor, NoAnchor
  <1>5. /\ frames' \in Seq(Call)
        /\ \A k : Has(frames, k) => Has(frames', k)
        /\ \A k : Once(frames, k) => Once(frames', k)
        /\ target # scrollTop => Has(frames', "sync")
    <2>1. CASE target = scrollTop
      BY <1>1, <1>3, <2>1 DEF Queued
    <2>2. CASE target # scrollTop
      <3>1. frames' = Scheduled(frames, Sync) /\ Sync.kind # "anchor"
        BY <1>3, <1>4, <2>2
      <3> QED BY <1>1, <1>4, <3>1, FrameScheduled DEF Queued
    <2> QED BY <2>1, <2>2
  <1>6. Placed'
    BY <1>1, <1>2, <1>3, PlacedStays DEF Placed
  <1>7. Queued'
    BY <1>1, <1>3, <1>5 DEF Queued
  <1>8. Flagged'
    <2>1. moves' \in 0 .. MaxMoves
      BY <1>1, MoveMade DEF DragTo
    <2>2. bubble' \in {a.day : a \in Range(album)}
      BY <1>1, <1>3, DayKnown, PlacedKnown
    <2> QED BY <1>1, <1>3, <2>1, <2>2, Zenon DEF Flagged
  <1>9. RowsFollow'
    <2>1. CASE target = scrollTop
      BY <1>3, <1>5, <2>1 DEF IInv, RowsFollow
    <2>2. CASE target # scrollTop
      BY <1>5, <2>2 DEF RowsFollow
    <2> QED BY <2>1, <2>2
  <1>10. RestKnown'
    BY <1>1, <1>3 DEF RestKnown, RenderRange
  <1>11. BubbleFollows'
    BY <1>1, <1>3 DEF BubbleFollows, GroupAt, Placed
  <1>12. RowKept'
    BY <1>3 DEF RowKept
  <1> QED BY <1>6, <1>7, <1>8, <1>9, <1>10, <1>11, <1>12 DEF IInv

\* Steps that only change what holds the scrubber, if they change anything.
LEMMA HandKeeps ==
  ASSUME IInv,
         UNCHANGED <<album, browserVars, measureVars, loadVars, frames, bubble, moves, histVars>>,
         pointer' \in {"none", "mouse", "touch"}, dragging' \in BOOLEAN,
         pointer' # "none" => dragging'
  PROVE  IInv'
  <1>1. /\ UNCHANGED <<album, boxWidth, boxTop, scrollTop, width, layout, cachedTop>>
        /\ UNCHANGED <<scrolled, fast, load, settle, frames, bubble, moves>>
        /\ UNCHANGED <<quiet, relaid, reading, captured>>
    BY DEF browserVars, measureVars, loadVars, histVars, readVars
  <1>2. Placed'
    BY <1>1, PlacedStays DEF Placed, IInv
  <1>3. Queued'
    BY <1>1 DEF IInv, Queued
  <1>4. Flagged'
    BY <1>1, Zenon DEF IInv, Flagged
  <1>5. RowsFollow' /\ RestKnown'
    BY <1>1 DEF IInv, RowsFollow, RestKnown, RenderRange
  <1>6. BubbleFollows' /\ RowKept'
    BY <1>1 DEF IInv, BubbleFollows, GroupAt, RowKept
  <1> QED BY <1>2, <1>3, <1>4, <1>5, <1>6 DEF IInv

\* What captureAnchor remembers can wait for a frame.
LEMMA CapturedCall ==
  ASSUME Placed, CaptureAnchor(layout, scrolled) # NoAnchor
  PROVE  /\ Restore(CaptureAnchor(layout, scrolled)) \in Call
         /\ CaptureAnchor(layout, scrolled) = TopAnchor(layout, scrolled)
         /\ CaptureAnchor(layout, scrolled).id \in DOMAIN album
  <1>1. PICK c : c = CaptureAnchor(layout, scrolled)
    OBVIOUS
  <1>2. LayoutOf(layout, album, width, Metrics) /\ scrolled \in Int
    BY PlacedKnown DEF Placed
  <1>3. /\ c = TopAnchor(layout, scrolled) /\ c.id \in DOMAIN album
        /\ c.id \in Int /\ c.offset \in Int
    BY <1>1, <1>2, Captured
  <1>4. c = [id |-> c.id, offset |-> c.offset]
    BY <1>1 DEF CaptureAnchor
  <1>5. c \in Anchor
    BY <1>3, <1>4 DEF Anchor
  <1>6. Restore(c) \in Call
    BY <1>5 DEF Restore, Call
  <1> QED BY <1>1, <1>3, <1>6

\* The window or the box is resized.
LEMMA ResizeKeeps ==
  ASSUME IInv, NEW w \in Widths, NEW ofWindow \in BOOLEAN, Resize(w, ofWindow)
  PROVE  IInv'
  <1>1. /\ Placed /\ Queued /\ Flagged /\ RestKnown
        /\ LayoutOf(layout, album, width, Metrics)
    BY PlacedKnown DEF IInv
  <1>2. PICK q : q = IF ofWindow THEN ScheduleSync(frames) ELSE frames
    OBVIOUS
  <1>3. PICK c : c = CaptureAnchor(layout, scrolled)
    OBVIOUS
  <1>4. PICK r : r = IF c = NoAnchor THEN q ELSE Append(q, Restore(c))
    OBVIOUS
  <1>5. PICK t : t = Clamped(scrollTop, layout', boxTop)
    OBVIOUS
  <1>6. boxWidth' = w /\ w # width /\ width # 0
    BY <1>1, Assumed DEF Resize, Placed, Fitting, LayoutMetrics
  <1>7. /\ width' = w /\ layout' = LayoutFor(w) /\ cachedTop' = boxTop
        /\ load' = IF fast' THEN load ELSE RangeAt(layout', scrolled)
        /\ ScrolledTo(t, r)
    BY <1>2, <1>3, <1>4, <1>5, <1>6 DEF Resize, Measure, CatchUp
  <1>8. /\ UNCHANGED <<scrolled, fast, settle, album, boxTop, pointer, dragging, bubble, quiet>>
        /\ relaid' = TRUE /\ captured' = (c # NoAnchor)
        /\ reading' = IF frames # <<>> \/ fast THEN NoAnchor ELSE TopAnchor(layout, scrolled)
    BY <1>3 DEF Resize, scrubVars
  <1>9. /\ q \in Seq(Call)
        /\ \A k : Has(frames, k) => Has(q, k)
        /\ \A k : Once(frames, k) => Once(q, k)
        /\ \A a : Only(frames, a) => Only(q, a)
    <2>1. CASE ofWindow
      <3>1. Sync \in Call /\ Sync.kind # "anchor"
        BY DEF Sync, Call, Anchor, NoAnchor
      <3>2. q = Scheduled(frames, Sync)
        BY <1>2, <2>1 DEF ScheduleSync
      <3> QED BY <1>1, <3>1, <3>2, FrameScheduled DEF Queued
    <2>2. CASE ~ofWindow
      BY <1>1, <1>2, <2>2 DEF Queued
    <2> QED BY <2>1, <2>2
  <1>10. /\ r \in Seq(Call)
         /\ \A k : Has(q, k) => Has(r, k)
         /\ Once(r, "sync") /\ Once(r, "bubble")
    <2>1. Once(q, "sync") /\ Once(q, "bubble")
      BY <1>1, <1>9 DEF Queued
    <2>2. CASE c = NoAnchor
      BY <1>4, <1>9, <2>1, <2>2
    <2>3. CASE c # NoAnchor
      <3>1. Restore(c) \in Call /\ "sync" # Restore(c).kind /\ "bubble" # Restore(c).kind
        BY <1>1, <1>3, <2>3, CapturedCall DEF Restore
      <3>2. r = Append(q, Restore(c))
        BY <1>4, <2>3
      <3> QED BY <1>9, <2>1, <3>1, <3>2, FrameAsked, Zenon
    <2> QED BY <2>2, <2>3
  <1>11. /\ scrollTop' = t /\ frames' \in Seq(Call)
         /\ \A k : Has(r, k) => Has(frames', k)
         /\ \A k : Once(r, k) => Once(frames', k)
         /\ \A a : Only(r, a) => Only(frames', a)
         /\ t # scrollTop => Has(frames', "sync")
    BY <1>7, <1>10, ScrolledDoes
  <1>12. \A k : Has(frames, k) => Has(frames', k)
    BY <1>9, <1>10, <1>11
  <1>13. LayoutOf(layout', album, w, Metrics)
    BY <1>1, <1>7, LayoutForSound DEF Placed
  <1>14. Placed'
    <2>1. PICK l : l = layout'
      OBVIOUS
    <2>2. l.totalHeight \in Nat
      BY <1>13, <2>1 DEF LayoutOf
    <2>3. t \in Int /\ t = Clamped(t, l, boxTop)
      BY <1>1, <1>5, <2>1, <2>2, ClampedStays DEF Placed
    <2>4. scrollTop' \in Int /\ scrollTop' = Clamped(scrollTop', layout', boxTop')
      BY <1>8, <1>11, <2>1, <2>3
    <2>5. layout' = LayoutFor(width)'
      BY <1>7, <1>8 DEF LayoutFor
    <2> QED BY <1>1, <1>6, <1>7, <1>8, <2>4, <2>5 DEF Placed
  <1>15. Queued'
    BY <1>1, <1>8, <1>10, <1>11, <1>12 DEF Queued
  <1>16. Flagged'
    <2>1. moves' \in 0 .. MaxMoves
      BY <1>1, MoveMade DEF Resize
    <2>2. load'.start \in Int /\ load'.end \in Int
      BY <1>1, <1>7, <1>13, RangeKnown DEF Flagged, Placed
    <2>3. relaid' \in BOOLEAN /\ captured' \in BOOLEAN
      BY <1>8
    <2> QED BY <1>1, <1>8, <2>1, <2>2, <2>3, Zenon DEF Flagged
  <1>17. RowsFollow'
    <2>1. CASE t = scrollTop
      BY <1>8, <1>11, <1>12, <2>1 DEF IInv, RowsFollow
    <2>2. CASE t # scrollTop
      BY <1>11, <2>2 DEF RowsFollow
    <2> QED BY <2>1, <2>2
  <1>18. RestKnown'
    <2>1. RenderRange' = RangeAt(layout', scrolled)
      BY <1>8 DEF RenderRange
    <2> QED BY <1>1, <1>7, <1>8, <2>1 DEF RestKnown
  <1>19. BubbleFollows'
    BY <1>8 DEF BubbleFollows
  <1>20. ASSUME captured', reading' # NoAnchor
         PROVE  reading'.id \in DOMAIN album /\ Only(frames', reading') /\ Has(frames', "anchor")
    <2>1. frames = <<>> /\ reading' = TopAnchor(layout, scrolled) /\ c # NoAnchor
      BY <1>8, <1>20
    <2>2. /\ Restore(c) \in Call /\ Restore(c).kind = "anchor" /\ Restore(c).anchor = c
          /\ reading' = c /\ c.id \in DOMAIN album
      BY <1>1, <1>3, <2>1, CapturedCall DEF Restore
    <2>3. r = Append(q, Restore(c))
      BY <1>4, <2>1
    <2>4. Only(q, c)
      <3>1. DOMAIN frames = {}
        BY <2>1
      <3>2. Only(frames, c)
        BY <3>1 DEF Only
      <3> QED BY <1>9, <3>2
    <2>5. Only(r, c) /\ Has(r, "anchor")
      BY <1>9, <2>2, <2>3, <2>4, FrameAsked
    <2> QED BY <1>11, <2>2, <2>5
  <1>21. RowKept'
    BY <1>8, <1>20 DEF RowKept
  <1> QED BY <1>14, <1>15, <1>16, <1>17, <1>18, <1>19, <1>21 DEF IInv

\* The frame that puts a row back runs.
LEMMA RunRestoreKeeps ==
  ASSUME IInv, RunRestore
  PROVE  IInv'
  <1>1. /\ Placed /\ Queued /\ Flagged /\ RestKnown
        /\ LayoutOf(layout, album, width, Metrics)
        /\ frames # <<>> /\ Head(frames).kind = "anchor"
    BY PlacedKnown DEF IInv, RunRestore
  <1>2. PICK q : q = Tail(frames)
    OBVIOUS
  <1>3. PICK a : a = Head(frames).anchor
    OBVIOUS
  <1>4. /\ q \in Seq(Call) /\ a \in Anchor
        /\ \A k : Has(frames, k) => Has(q, k) \/ k = "anchor"
        /\ \A k : Once(frames, k) => Once(q, k)
        /\ \A x : Only(frames, x) => Only(q, x) /\ x = a
    BY <1>1, <1>2, <1>3, FrameRun DEF Queued, Call
  <1>5. /\ UNCHANGED <<album, boxWidth, boxTop, width, layout>>
        /\ UNCHANGED <<pointer, dragging, bubble, moves, reading, captured>>
        /\ relaid' = TRUE
    BY DEF RunRestore, scrubVars
  <1>6. BubbleFollows'
    BY <1>5 DEF BubbleFollows
  <1>7. ASSUME captured', reading' # NoAnchor
        PROVE  Only(q, reading) /\ reading = a /\ reading.id \in DOMAIN album
    BY <1>4, <1>5, <1>7 DEF IInv, RowKept
  <1>8. CASE AnchorRows(layout, a) = {}
    <2>1. frames' = q /\ UNCHANGED <<scrollTop, cachedTop, scrolled, fast, load, settle, quiet>>
      BY <1>2, <1>3, <1>8 DEF RunRestore, loadVars
    <2>2. Placed'
      BY <1>1, <1>5, <2>1, PlacedStays DEF Placed
    <2>3. Queued'
      BY <1>1, <1>4, <2>1 DEF Queued
    <2>4. Flagged'
      BY <1>1, <1>5, <2>1, Zenon DEF Flagged
    <2>5. RowsFollow'
      BY <1>4, <1>5, <2>1 DEF IInv, RowsFollow
    <2>6. RestKnown'
      BY <1>1, <1>5, <2>1 DEF RestKnown, RenderRange
    <2>7. RowKept'
      <3>1. ~(captured' /\ reading' # NoAnchor)
        BY <1>1, <1>7, <1>8, AnchorFound
      <3> QED BY <3>1 DEF RowKept
    <2> QED BY <1>6, <2>2, <2>3, <2>4, <2>5, <2>6, <2>7 DEF IInv
  <1>9. CASE AnchorRows(layout, a) # {}
    <2>1. PICK place \in Int : place = RestoreAnchor(layout, a) + boxTop
      <3>1. RestoreAnchor(layout, a) \in Int
        BY <1>1, <1>4, <1>9, AnchorFound DEF Anchor
      <3> QED BY <1>1, <3>1, PlacedKnown
    <2>2. PICK p \in Int : p = Clamped(place, layout, boxTop)
      BY <1>1, <2>1, PlacedKnown, ClampedStays DEF Placed
    <2>3. PICK top \in Int : top = p - boxTop
      BY <1>1, <2>2, PlacedKnown
    <2>4. PICK jump \in BOOLEAN : jump = Teleports(top)
      BY <1>1, <2>3, TeleportsOrNot
    <2>5. /\ ScrolledTo(p, CancelSync(q)) /\ cachedTop' = boxTop /\ scrolled' = top
          /\ settle' = jump /\ fast' = FALSE /\ quiet' = TRUE /\ load' = RangeAt(layout, top)
      BY <1>2, <1>3, <1>9, <2>1, <2>2, <2>3, <2>4 DEF RunRestore, CatchUp
    <2>6. PICK r : r = CancelSync(q)
      OBVIOUS
    <2>7. /\ r \in Seq(Call)
          /\ \A k : Once(q, k) => Once(r, k)
          /\ \A x : Only(q, x) => Only(r, x)
      BY <1>4, <2>6, FrameCancelled
    <2>8. /\ scrollTop' = p /\ frames' \in Seq(Call)
          /\ \A k : Once(r, k) => Once(frames', k)
          /\ \A x : Only(r, x) => Only(frames', x)
      BY <2>5, <2>6, <2>7, ScrolledDoes
    <2>9. Placed'
      BY <1>1, <1>5, <2>1, <2>2, <2>5, <2>8, PlacedStays DEF Placed
    <2>10. Queued'
      BY <1>1, <1>4, <2>5, <2>7, <2>8 DEF Queued
    <2>11. Flagged'
      <3>1. load'.start \in Int /\ load'.end \in Int
        BY <1>1, <2>3, <2>5, RangeKnown
      <3>2. settle' \in BOOLEAN /\ fast' \in BOOLEAN /\ quiet' \in BOOLEAN
        BY <2>5
      <3> QED BY <1>1, <1>5, <3>1, <3>2, Zenon DEF Flagged
    <2>12. RowsFollow'
      BY <1>1, <1>5, <2>3, <2>5, <2>8 DEF RowsFollow, Placed
    <2>13. RestKnown'
      <3>1. RenderRange' = RangeAt(layout, top)
        BY <1>5, <2>5 DEF RenderRange
      <3> QED BY <2>5, <3>1, Zenon DEF RestKnown
    <2>14. RowKept'
      <3>1. ASSUME captured', reading' # NoAnchor
            PROVE  /\ reading'.id \in DOMAIN album' /\ Only(frames', reading')
                   /\ scrollTop' = Clamped(RestoreAnchor(layout', reading') + boxTop',
                                            layout', boxTop')
        <4>1. Only(q, reading) /\ reading = a /\ reading.id \in DOMAIN album
          BY <1>7, <3>1
        <4> QED BY <1>5, <2>1, <2>2, <2>7, <2>8, <4>1
      <3> QED BY <3>1 DEF RowKept
    <2> QED BY <1>6, <2>9, <2>10, <2>11, <2>12, <2>13, <2>14 DEF IInv
  <1> QED BY <1>8, <1>9

\* It holds whatever happens.
LEMMA NextIInv ==
  ASSUME IInv, [Next]_vars
  PROVE  IInv'
  <1>1. CASE \E p \in Positions : Scroll(p)
    BY <1>1, ScrollKeeps
  <1>2. CASE \E w \in Widths, ofWindow \in BOOLEAN : Resize(w, ofWindow)
    BY <1>2, ResizeKeeps
  <1>3. CASE \E hand \in {"mouse", "touch"}, p \in Positions : Press(hand, p)
    <2>1. PICK hand \in {"mouse", "touch"}, p \in Positions : Press(hand, p)
      BY <1>3
    <2> QED BY <2>1, DragToKeeps DEF Press
  <1>4. CASE \E p \in Positions : Drag(p)
    <2>1. PICK p \in Positions : Drag(p)
      BY <1>4
    <2>2. /\ pointer' \in {"none", "mouse", "touch"} /\ dragging' = TRUE
      BY <2>1 DEF Drag, IInv, Flagged
    <2> QED BY <2>1, <2>2, DragToKeeps DEF Drag
  <1>5. CASE Release
    BY <1>5, HandKeeps DEF Release
  <1>6. CASE TouchCancel
    BY <1>6, HandKeeps DEF TouchCancel, IInv, Flagged
  <1>7. CASE SettleTimer
    BY <1>7, SettleTimerKeeps
  <1>8. CASE RunSync
    BY <1>8, RunSyncKeeps
  <1>9. CASE RunSettle
    BY <1>9, RunSettleKeeps
  <1>10. CASE RunRestore
    BY <1>10, RunRestoreKeeps
  <1>11. CASE RunBubble
    BY <1>11, RunBubbleKeeps
  <1>12. CASE UNCHANGED vars
    BY <1>12, HandKeeps DEF vars, scrubVars, IInv, Flagged
  <1> QED BY <1>1, <1>2, <1>3, <1>4, <1>5, <1>6, <1>7, <1>8, <1>9, <1>10, <1>11, <1>12
          DEF Next, Frame

-----------------------------------------------------------------------------
(* What it says of the gallery.                                            *)

\* The bookkeeping.
LEMMA TypesFollow ==
  ASSUME IInv
  PROVE  TypeOK
  <1>1. Placed /\ Queued /\ Flagged
    BY DEF IInv
  <1>2. /\ album \in Albums /\ {boxWidth, width} \subseteq Widths /\ layout = LayoutFor(width)
        /\ {boxTop, cachedTop} \subseteq BoxTops /\ scrollTop = Clamped(scrollTop, layout, boxTop)
    BY <1>1 DEF Placed
  <1>3. /\ {fast, settle, dragging, quiet, relaid, captured} \subseteq BOOLEAN
        /\ {load.start, load.end} \subseteq Int
        /\ pointer \in {"none", "mouse", "touch"} /\ (pointer # "none" => dragging)
        /\ bubble \in {a.day : a \in Range(album)} /\ moves \in 0 .. MaxMoves
    BY <1>1, Zenon DEF Flagged
  <1>4. \A kind \in {"sync", "bubble"} : \A i, j \in Waiting(kind) : i = j
    BY <1>1 DEF Queued, Once, Waiting
  <1>5. fast => settle \/ Waiting("settle") # {}
    BY <1>1 DEF Queued, Has, Waiting
  <1> QED BY <1>2, <1>3, <1>4, <1>5, Zenon DEF TypeOK

\* The rows show the album.
LEMMA RowsShowAlbum ==
  ASSUME Placed
  PROVE  LayoutSound
  <1>1. PICK rows \in Seq(Row) : rows = layout.rows
    BY PlacedKnown DEF LayoutOf, Block
  <1>2. Block(rows, DOMAIN album, Before(album), 0, layout.totalHeight, width, Metrics)
        /\ LayoutOf(layout, album, width, Metrics)
    BY <1>1, PlacedKnown DEF LayoutOf
  <1>3. ASSUME NEW a \in Range(album) PROVE AnchorRows(layout, a) # {}
    <2>1. PICK i \in DOMAIN album : a = album[i]
      BY DEF Range
    <2>2. a.id \in DOMAIN album
      BY <2>1, Assumed DEF Placed, AlbumSound
    <2> QED BY <1>2, <2>2, AnchorFound
  <1>4. ASSUME NEW i \in DOMAIN rows, NEW j \in DOMAIN rows,
               NEW k \in DOMAIN rows[i].items, NEW n \in DOMAIN rows[j].items,
               i < j \/ (i = j /\ k < n)
        PROVE  ShownBefore(rows[i].items[k].id, rows[j].items[n].id)
    <2>1. PICK x, y : x = rows[i].items[k].id /\ y = rows[j].items[n].id
      OBVIOUS
    <2>2. << x, y >> \in Before(album)
      <3>1. CASE i < j
        <4>1. IdsOf(rows[i].items) \X IdsOf(rows[j].items) \subseteq Before(album)
          BY <1>2, <3>1 DEF Block
        <4>2. x \in IdsOf(rows[i].items) /\ y \in IdsOf(rows[j].items)
          BY <2>1 DEF IdsOf
        <4> QED BY <4>1, <4>2
      <3>2. CASE i = j /\ k < n
        <4>1. Follow(rows[i].items, Before(album))
          BY <1>2 DEF Block
        <4> QED BY <2>1, <3>2, <4>1 DEF Follow
      <3> QED BY <1>4, <3>1, <3>2
    <2>3. ShownBefore(x, y)
      BY <2>2, BeforeIs DEF ShownBefore
    <2> QED BY <2>1, <2>3
  <1>5. \A i, j \in DOMAIN rows : i < j => rows[i].top + rows[i].height <= rows[j].top
    BY <1>2 DEF Block
  <1>6. \A i \in DOMAIN rows : rows[i].kind = "assets" => rows[i].height <= 2 * Metrics.rowHeight
    BY <1>2 DEF Block, RowSound
  <1>7. ASSUME NEW i \in DOMAIN rows, NEW k \in DOMAIN rows[i].items, NEW n \in DOMAIN rows[i].items
        PROVE  /\ rows[i].items[k].left + rows[i].items[k].width <= width
               /\ k < n => rows[i].items[k].left + rows[i].items[k].width <= rows[i].items[n].left
    <2>1. InOrder(rows[i].items, width)
      BY <1>2 DEF Block, RowSound
    <2> QED BY <2>1 DEF InOrder
  <1> QED BY <1>1, <1>3, <1>4, <1>5, <1>6, <1>7 DEF LayoutSound

\* The rows in the DOM.
LEMMA RowsRendered ==
  ASSUME IInv, frames = <<>>, NEW i \in DOMAIN layout.rows,
         layout.rows[i].top + boxTop - scrollTop < ViewportH,
         layout.rows[i].top + boxTop - scrollTop + layout.rows[i].height > 0
  PROVE  i \in RenderRange.start .. RenderRange.end
  <1>1. Placed /\ ~Has(frames, "sync")
    <2>1. DOMAIN frames = {}
      OBVIOUS
    <2> QED BY <2>1 DEF Has, IInv
  <1>2. PICK t \in BoxTops : scrolled = scrollTop - t
    BY <1>1 DEF IInv, RowsFollow
  <1>3. PICK rows \in Seq(Row) : rows = layout.rows /\ LayoutOf(layout, album, width, Metrics)
    BY <1>1, PlacedKnown DEF LayoutOf, Block
  <1>4. PICK x \in Int, h \in Nat : x = rows[i].top /\ h = rows[i].height
    BY <1>3, RowPlaces
  <1>5. scrollTop \in Int /\ scrolled \in Int /\ boxTop \in Nat /\ t \in Nat
        /\ boxTop - t <= Overscan /\ t - boxTop <= Overscan
    BY <1>1, <1>2, Assumed DEF Placed
  <1>6. x + h > scrolled - Overscan /\ x < scrolled + ViewportH + Overscan
    <2>1. x + boxTop - scrollTop < ViewportH /\ x + boxTop - scrollTop + h > 0
      BY <1>3, <1>4
    <2>2. PICK o \in Int, v \in Int : o = Overscan /\ v = ViewportH
      BY Assumed
    <2>3. x + h > scrollTop - t - o /\ x < scrollTop - t + v + o
      BY <1>5, <2>1, <2>2
    <2> QED BY <1>2, <2>2, <2>3
  <1>7. InView(RenderRange, rows, scrolled - Overscan, scrolled + ViewportH + Overscan)
    BY <1>3, <1>5, RangeKnown DEF RenderRange
  <1> QED BY <1>3, <1>4, <1>6, <1>7 DEF InView

\* What a step may do to the loads.
LEMMA LoadsStep ==
  ASSUME IInv, [Next]_vars, load' # load, layout' = layout
  PROVE  quiet' /\ scrolled' = scrollTop' - cachedTop'
  <1>1. (~fast' => quiet') /\ (~fast => load = RenderRange)
    BY NextIInv DEF IInv, RestKnown
  <1>2. CASE RunSync
    <2>1. ~fast' /\ scrolled' = scrollTop - cachedTop
      BY <1>2 DEF RunSync, SyncScroll, CatchUp
    <2> QED BY <1>1, <1>2, <2>1 DEF RunSync, browserVars, measureVars
  <1>3. CASE RunSettle
    <2>1. ~fast' /\ scrolled' = scrollTop - boxTop /\ cachedTop' = boxTop
      BY <1>3 DEF RunSettle, CatchUp, loadVars
    <2> QED BY <1>1, <1>3, <2>1 DEF RunSettle, browserVars
  <1>4. CASE RunRestore
    BY <1>4 DEF RunRestore, ScrolledTo, loadVars
  <1>5. CASE \E w \in Widths, ofWindow \in BOOLEAN : Resize(w, ofWindow)
    <2>1. /\ load' = IF fast' THEN load ELSE RangeAt(layout', scrolled)
          /\ UNCHANGED <<scrolled, fast>>
      BY <1>5 DEF Resize, Measure, CatchUp
    <2>2. load' = load
      BY <1>1, <2>1 DEF RenderRange
    <2> QED BY <2>2
  <1>6. CASE \/ \E p \in Positions : Scroll(p)
             \/ \E hand \in {"mouse", "touch"}, p \in Positions : Press(hand, p)
             \/ \E p \in Positions : Drag(p)
             \/ Release \/ TouchCancel \/ SettleTimer \/ RunBubble \/ UNCHANGED vars
    <2>1. load' = load
      BY <1>6 DEF Scroll, Press, Drag, DragTo, Release, TouchCancel, SettleTimer, RunBubble,
                  vars, loadVars
    <2> QED BY <2>1
  <1> QED BY <1>2, <1>3, <1>4, <1>5, <1>6 DEF Next, Frame

-----------------------------------------------------------------------------
(* The theorems.                                                           *)

\* The invariant of the gallery.
THEOREM GalleryInvariant == Spec => []IInv
  BY InitIInv, NextIInv, PTL DEF Spec

\* Whatever the album and however the box is resized, the rows show every photo
\* of it once, in order, below one another and within the box, and what the
\* gallery keeps of the browser stays in step with it (computeTimelineLayout,
\* AssetTimeline).
THEOREM GalleryStaysSound == Spec => []GallerySound
  <1>1. IInv => GallerySound
    BY TypesFollow, RowsShowAlbum DEF IInv, GallerySound
  <1> QED BY <1>1, GalleryInvariant, PTL

\* When no frame waits, every row the viewport shows is in the DOM, whatever the
\* offset the position was read with, the scrubber names the day the gallery is
\* at, and a row captureAnchor found when a gallery at rest was resized is back at
\* its place (syncScroll, computeRowRange, updateScrollPosition, restoreAnchor).
THEOREM FramesAlwaysCatchUp == Spec => []FramesCatchUp
  <1>1. IInv => VisibleRowsRendered
    BY RowsRendered DEF VisibleRowsRendered
  <1>2. IInv => BubbleNamesDay
    <2>1. ASSUME frames = <<>> PROVE ~Has(frames, "bubble")
      <3>1. DOMAIN frames = {}
        BY <2>1
      <3> QED BY <3>1 DEF Has
    <2> QED BY <2>1 DEF IInv, BubbleFollows, BubbleNamesDay
  <1>3. IInv => CapturedRowKept
    <2>1. ASSUME frames = <<>> PROVE ~Has(frames, "anchor")
      <3>1. DOMAIN frames = {}
        BY <2>1
      <3> QED BY <3>1 DEF Has
    <2> QED BY <2>1 DEF IInv, RowKept, CapturedRowKept, TopRowKept
  <1> QED BY <1>1, <1>2, <1>3, GalleryInvariant, PTL DEF FramesCatchUp

\* Between two layouts, the images to load change only at the position the box
\* has, and never before the settle timer has found a jump at rest (fastScroll).
THEOREM LoadsOnlyAtRest == Spec => LoadsAtRest
  <1>1. IInv /\ [Next]_vars
          => [load' # load /\ layout' = layout
                => quiet' /\ scrolled' = scrollTop' - cachedTop']_vars
    BY LoadsStep
  <1> QED BY <1>1, GalleryInvariant, PTL DEF Spec, LoadsAtRest
=============================================================================
