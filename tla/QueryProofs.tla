---------------------------- MODULE QueryProofs ----------------------------
(***************************************************************************)
(* Theorems about modules Lookup, Message and Query.  Their walks are      *)
(* recursive functions.  What they return is proved without induction over *)
(* an operator: a set of natural numbers has a least member, so a walk     *)
(* stops at the first number at which it may, and what goes on from each   *)
(* number to the next holds up to the last.                                *)
(***************************************************************************)
EXTENDS Query, TLAPS, WellFoundedInduction

-----------------------------------------------------------------------------
\* A set of natural numbers that is not empty has a least member.
LEMMA LeastNumber ==
  ASSUME NEW T, T \subseteq Nat, T # {}
  PROVE  \E x \in T : \A y \in T : x =< y
<1> DEFINE R == OpToRel(<, Nat)
<1>1. PICK x \in T : \A y \in T : ~(<<y, x>> \in R)
  <2> HIDE DEF R
  <2>1. IsWellFoundedOn(R, Nat)
    BY NatLessThanWellFounded DEF R
  <2>2. QED
    BY <2>1, WFMin
<1>2. \A y \in T : ~(y < x)
  BY <1>1 DEF OpToRel
<1>3. QED
  BY <1>2

\* What holds first and goes on from each number to the next holds up to the last: an
\* induction, said with a set.
LEMMA UpTo ==
  ASSUME NEW N \in Nat, NEW T, 0 \in T, \A n \in 1 .. N : n - 1 \in T => n \in T
  PROVE  \A n \in 0 .. N : n \in T
<1> DEFINE B == (0 .. N) \ T
<1> SUFFICES ASSUME B # {}
             PROVE  FALSE
  OBVIOUS
<1>1. PICK n \in B : \A j \in B : n =< j
  <2>1. B \subseteq Nat
    OBVIOUS
  <2> HIDE DEF B
  <2>2. QED
    BY <2>1, LeastNumber
<1>2. n \in 1 .. N
  BY <1>1
<1>3. n - 1 \in T
  BY <1>1, <1>2
<1>4. QED
  BY <1>1, <1>2, <1>3

\* A function may be defined from one number to the next.
Recurs(S, N, base, step) == base \in S /\ step \in [1 .. N -> [S -> S]]
Built(S, N, base, step, f) ==
  f \in [0 .. N -> S] /\ f[0] = base /\ \A i \in 1 .. N : f[i] = step[i][f[i - 1]]

LEMMA Recursion ==
  ASSUME NEW S, NEW N \in Nat, NEW base, NEW step, Recurs(S, N, base, step)
  PROVE  \E f : Built(S, N, base, step, f)
<1> USE DEF Recurs
<1> DEFINE Part(n, f) == f[0] = base /\ \A i \in 1 .. n : f[i] = step[i][f[i - 1]]
           T == {n \in 0 .. N : \E f \in [0 .. N -> S] : Part(n, f)}
<1>1. 0 \in T
  <2> DEFINE f == [i \in 0 .. N |-> base]
  <2>1. f \in [0 .. N -> S] /\ f[0] = base
    OBVIOUS
  <2> HIDE DEF f
  <2>2. Part(0, f)
    BY <2>1
  <2> HIDE DEF Part
  <2>3. 0 \in 0 .. N
    OBVIOUS
  <2>4. QED
    BY <2>1, <2>2, <2>3
<1>2. ASSUME NEW n \in 1 .. N, n - 1 \in T
      PROVE  n \in T
  <2>1. PICK f \in [0 .. N -> S] : Part(n - 1, f)
    BY <1>2
  <2> DEFINE g == [i \in 0 .. N |-> IF i = n THEN step[n][f[n - 1]] ELSE f[i]]
  <2>2. n - 1 \in 0 .. N /\ n \in 0 .. N
    BY <1>2
  <2>3. step[n][f[n - 1]] \in S
    BY <2>2
  <2>4. g \in [0 .. N -> S]
    BY <2>3
  <2>5. g[0] = base
    BY <2>1, <1>2
  <2>6. ASSUME NEW i \in 1 .. n
        PROVE  g[i] = step[i][g[i - 1]]
    <3>1. i \in 0 .. N /\ i - 1 \in 0 .. N /\ i - 1 # n
      BY <1>2, <2>6
    <3>2. g[i - 1] = f[i - 1]
      BY <3>1
    <3>3. CASE i = n
      BY <3>1, <3>2, <3>3
    <3>4. CASE i # n
      <4>1. i \in 1 .. n - 1 /\ g[i] = f[i]
        BY <1>2, <2>6, <3>1, <3>4
      <4>2. QED
        BY <2>1, <3>2, <4>1
    <3>5. QED
      BY <3>3, <3>4
  <2> HIDE DEF g
  <2>7. Part(n, g)
    BY <2>5, <2>6
  <2> HIDE DEF Part
  <2>8. QED
    BY <2>2, <2>4, <2>7
<1>3. N \in T
  <2> HIDE DEF T
  <2>1. \A n \in 0 .. N : n \in T
    BY <1>1, <1>2, UpTo
  <2>2. QED
    BY <2>1
<1>4. QED
  BY <1>3 DEF Built

\* Two functions that start alike and go on alike are alike.
StepAlike(N, f, g) ==
  f[0] = g[0] /\ \A i \in 1 .. N : f[i - 1] = g[i - 1] => f[i] = g[i]

LEMMA Alike ==
  ASSUME NEW N \in Nat, NEW f, NEW g, StepAlike(N, f, g)
  PROVE  \A i \in 0 .. N : f[i] = g[i]
<1> DEFINE T == {i \in 0 .. N : f[i] = g[i]}
<1>1. 0 \in T
  BY DEF StepAlike
<1>2. \A n \in 1 .. N : n - 1 \in T => n \in T
  BY DEF StepAlike
<1>3. \A n \in 0 .. N : n \in T
  <2> HIDE DEF T
  <2>1. QED
    BY <1>1, <1>2, UpTo
<1>4. QED
  BY <1>3

\* Where a walk that stops at the members of K, one of which is beyond every number,
\* stops first.
LEMMA FirstStop ==
  ASSUME NEW K, K \subseteq Nat, \A n \in Nat : \E k \in K : n =< k
  PROVE  \E first \in [Nat -> K] :
           \A n \in Nat : first[n] = IF n \in K THEN n ELSE first[n + 1]
<1>1. ASSUME NEW n \in Nat
      PROVE  \E k \in K : n =< k /\ \A j \in K : n =< j => k =< j
  <2> DEFINE T == {k \in K : n =< k}
  <2>1. T \subseteq Nat /\ T # {}
    OBVIOUS
  <2>2. PICK x \in T : \A y \in T : x =< y
    <3> HIDE DEF T
    <3>1. QED
      BY <2>1, LeastNumber
  <2>3. QED
    BY <2>2
<1> DEFINE g == [n \in Nat |-> CHOOSE k \in K : n =< k /\ \A j \in K : n =< j => k =< j]
<1>2. PICK first \in [Nat -> K] :
          \A n \in Nat : n =< first[n] /\ \A j \in K : n =< j => first[n] =< j
  <2>1. \A n \in Nat : /\ g[n] \in K /\ n =< g[n]
                       /\ \A j \in K : n =< j => g[n] =< j
    BY <1>1
  <2>2. g \in [Nat -> K]
    BY <2>1
  <2> HIDE DEF g
  <2>3. QED
    BY <2>1, <2>2
<1> HIDE DEF g
<1>3. \A n \in Nat : first[n] \in K /\ first[n] \in Nat
  BY <1>2
<1>4. ASSUME NEW n \in Nat
      PROVE  first[n] = IF n \in K THEN n ELSE first[n + 1]
  <2>1. CASE n \in K
    BY <1>2, <1>3, <2>1
  <2>2. CASE n \notin K
    <3>1. n + 1 \in Nat /\ n + 1 =< first[n]
      BY <1>2, <1>3, <2>2
    <3>2. first[n] =< first[n + 1] /\ first[n + 1] =< first[n]
      BY <1>2, <1>3, <3>1
    <3>3. QED
      BY <1>3, <2>2, <3>1, <3>2
  <2>3. QED
    BY <2>1, <2>2
<1>5. QED
  BY <1>4

\* What it returns is what the first place where it stops says.
LEMMA WalkStops ==
  ASSUME NEW K, K \subseteq Nat, NEW v, NEW f,
         \A n \in Nat : f[n] = IF n \in K THEN v[n] ELSE f[n + 1],
         NEW a \in Nat, \E k \in K : a =< k
  PROVE  \E k \in K : a =< k /\ f[a] = v[k] /\ \A j \in K : a =< j => k =< j
<1> DEFINE T == {k \in K : a =< k}
<1>1. PICK k \in T : \A y \in T : k =< y
  <2>1. T \subseteq Nat /\ T # {}
    OBVIOUS
  <2> HIDE DEF T
  <2>2. QED
    BY <2>1, LeastNumber
<1>2. \A j \in a .. k : f[a] = f[j]
  <2> DEFINE B == {j \in a .. k : f[a] # f[j]}
  <2> SUFFICES ASSUME B # {}
               PROVE  FALSE
    OBVIOUS
  <2>1. PICK j \in B : \A y \in B : j =< y
    <3>1. B \subseteq Nat
      OBVIOUS
    <3> HIDE DEF B
    <3>2. QED
      BY <3>1, LeastNumber
  <2>2. j - 1 \in a .. k /\ j - 1 \notin B /\ j - 1 < k
    BY <2>1
  <2>3. j - 1 \notin K /\ j - 1 \in Nat
    BY <1>1, <2>2
  <2>4. f[j - 1] = f[j]
    BY <2>1, <2>3
  <2>5. QED
    BY <2>1, <2>2, <2>4
<1>3. k \in K /\ k \in a .. k
  BY <1>1
<1>4. f[k] = v[k] /\ f[a] = f[k]
  BY <1>2, <1>3
<1>5. QED
  BY <1>1, <1>3, <1>4

-----------------------------------------------------------------------------
From(host, n) == SubSeq(host, n, Len(host))

LEMMA FromIs ==
  ASSUME NEW host \in Seq(Label), NEW n \in Nat \ {0}
  PROVE  /\ From(host, n) \in Seq(Label)
         /\ Len(From(host, n)) = IF n =< Len(host) THEN Len(host) - n + 1 ELSE 0
         /\ \A i \in 1 .. Len(host) - n + 1 : From(host, n)[i] = host[n + i - 1]
BY DEF From

\* The walk in the zone stops first where the rest is registered, or is the zone.
LEMMA ZoneWalk ==
  ASSUME NEW reg, NEW host \in Seq(Label)
  PROVE  \E k \in Nat \ {0} :
           /\ \/ Len(From(host, k)) =< 1 /\ OwnerInZone(reg, host) = NoHost
              \/ /\ Len(From(host, k)) > 1 /\ From(host, k) \in DOMAIN reg
                 /\ OwnerInZone(reg, host) = From(host, k)
           /\ \A j \in 1 .. k - 1 : From(host, j) \notin DOMAIN reg
<1> DEFINE h(n) == SubSeq(host, n, Len(host))
           K == {n \in Nat : Len(h(n)) =< 1 \/ h(n) \in DOMAIN reg}
           v == [n \in Nat |-> IF Len(h(n)) =< 1 THEN NoHost ELSE h(n)]
           w == CHOOSE walk : walk = [n \in Nat |->
                     IF Len(h(n)) =< 1 THEN NoHost ELSE IF h(n) \in DOMAIN reg THEN h(n) ELSE walk[n + 1]]
<1>1. OwnerInZone(reg, host) = w[1]
  BY DEF OwnerInZone
<1>2. \A n \in Nat : \E k \in K : n =< k
  <2> SUFFICES ASSUME NEW n \in Nat
               PROVE  \E k \in K : n =< k
    OBVIOUS
  <2>1. Len(host) \in Nat
    OBVIOUS
  <2>2. Len(h(n + Len(host) + 1)) = 0
    BY <2>1
  <2>3. QED
    BY <2>1, <2>2
<1>3. \A n \in Nat : w[n] = IF n \in K THEN v[n] ELSE w[n + 1]
  <2>1. PICK first \in [Nat -> K] : \A n \in Nat : first[n] = IF n \in K THEN n ELSE first[n + 1]
    <3>1. K \subseteq Nat
      OBVIOUS
    <3> HIDE DEF K
    <3>2. QED
      BY <1>2, <3>1, FirstStop
  <2> DEFINE f == [n \in Nat |-> v[first[n]]]
  <2>2. f = [n \in Nat |-> IF Len(h(n)) =< 1 THEN NoHost
                           ELSE IF h(n) \in DOMAIN reg THEN h(n) ELSE f[n + 1]]
    <3>1. \A n \in Nat : v[first[n]] = IF Len(h(n)) =< 1 THEN NoHost
                           ELSE IF h(n) \in DOMAIN reg THEN h(n) ELSE f[n + 1]
      <4> SUFFICES ASSUME NEW n \in Nat
                   PROVE  v[first[n]] = IF Len(h(n)) =< 1 THEN NoHost
                           ELSE IF h(n) \in DOMAIN reg THEN h(n) ELSE f[n + 1]
        OBVIOUS
      <4>1. CASE n \in K
        BY <2>1, <4>1
      <4>2. CASE n \notin K
        <5>1. first[n] = first[n + 1] /\ n + 1 \in Nat
          BY <2>1, <4>2
        <5>2. ~(Len(h(n)) =< 1) /\ h(n) \notin DOMAIN reg
          BY <4>2
        <5>3. f[n + 1] = v[first[n + 1]]
          BY <5>1
        <5> HIDE DEF v, f, h, K
        <5>4. QED
          BY <5>1, <5>2, <5>3
      <4>3. QED
        BY <4>1, <4>2
    <3>2. QED
      BY <3>1
  <2>3. w = [n \in Nat |-> IF Len(h(n)) =< 1 THEN NoHost
                              ELSE IF h(n) \in DOMAIN reg THEN h(n) ELSE w[n + 1]]
    <3> HIDE DEF f, h
    <3>1. QED
      BY <2>2
  <2> HIDE DEF w
  <2>4. QED
    BY <2>3
<1>4. PICK k \in K : 1 =< k /\ w[1] = v[k] /\ \A j \in K : 1 =< j => k =< j
  <2> DEFINE a == 1
  <2>1. K \subseteq Nat /\ a \in Nat /\ \E k \in K : a =< k
    BY <1>2
  <2> HIDE DEF K, v, w, a
  <2>2. \E k \in K : a =< k /\ w[a] = v[k] /\ \A j \in K : a =< j => k =< j
    BY <1>3, <2>1, WalkStops, ZenonT(40)
  <2>3. QED
    BY <2>2 DEF a
<1> HIDE DEF w
<1>5. k \in Nat \ {0} /\ (Len(h(k)) =< 1 \/ h(k) \in DOMAIN reg)
  BY <1>4
<1>6. \A j \in 1 .. k - 1 : h(j) \notin DOMAIN reg
  BY <1>4, <1>5
<1>7. OwnerInZone(reg, host) = IF Len(h(k)) =< 1 THEN NoHost ELSE h(k)
  BY <1>1, <1>4, <1>5
<1>8. Len(h(k)) \in Nat
  BY <1>5
<1>9. QED
  BY <1>5, <1>6, <1>7, <1>8 DEF From

\* The walk outside the zone stops first where a wildcard is over the rest, or where
\* less than two labels are left.
LEMMA DomainWalk ==
  ASSUME NEW reg, NEW host \in Seq(Label), ~IsDomain(reg, host)
  PROVE  \E k \in Nat \ {0} :
           /\ \/ k > 1 /\ Len(From(host, k)) < 2 /\ DomainOwner(reg, host) = NoHost
              \/ /\ IsDomain(reg, Over(From(host, k)))
                 /\ DomainOwner(reg, host) = Over(From(host, k))
           /\ \A j \in 1 .. k - 1 : ~IsDomain(reg, Over(From(host, j)))
<1> DEFINE h(n) == SubSeq(host, n, Len(host))
           K == {n \in Nat : (n > 1 /\ Len(h(n)) < 2) \/ IsDomain(reg, Over(h(n)))}
           v == [n \in Nat |-> IF n > 1 /\ Len(h(n)) < 2 THEN NoHost ELSE Over(h(n))]
           w == CHOOSE walk : walk = [n \in Nat |->
                     IF n > 1 /\ Len(h(n)) < 2 THEN NoHost ELSE IF IsDomain(reg, Over(h(n))) THEN Over(h(n)) ELSE walk[n + 1]]
<1>1. DomainOwner(reg, host) = w[1]
  BY DEF DomainOwner
<1>2. \A n \in Nat : \E k \in K : n =< k
  <2> SUFFICES ASSUME NEW n \in Nat
               PROVE  \E k \in K : n =< k
    OBVIOUS
  <2>1. Len(host) \in Nat
    OBVIOUS
  <2>2. Len(h(n + Len(host) + 1)) = 0
    BY <2>1
  <2>3. QED
    BY <2>1, <2>2
<1>3. \A n \in Nat : w[n] = IF n \in K THEN v[n] ELSE w[n + 1]
  <2>1. PICK first \in [Nat -> K] : \A n \in Nat : first[n] = IF n \in K THEN n ELSE first[n + 1]
    <3>1. K \subseteq Nat
      OBVIOUS
    <3> HIDE DEF K
    <3>2. QED
      BY <1>2, <3>1, FirstStop
  <2> DEFINE f == [n \in Nat |-> v[first[n]]]
  <2>2. f = [n \in Nat |-> IF n > 1 /\ Len(h(n)) < 2 THEN NoHost
                           ELSE IF IsDomain(reg, Over(h(n))) THEN Over(h(n)) ELSE f[n + 1]]
    <3>1. \A n \in Nat : v[first[n]] = IF n > 1 /\ Len(h(n)) < 2 THEN NoHost
                           ELSE IF IsDomain(reg, Over(h(n))) THEN Over(h(n)) ELSE f[n + 1]
      <4> SUFFICES ASSUME NEW n \in Nat
                   PROVE  v[first[n]] = IF n > 1 /\ Len(h(n)) < 2 THEN NoHost
                           ELSE IF IsDomain(reg, Over(h(n))) THEN Over(h(n)) ELSE f[n + 1]
        OBVIOUS
      <4>1. CASE n \in K
        BY <2>1, <4>1
      <4>2. CASE n \notin K
        <5>1. first[n] = first[n + 1] /\ n + 1 \in Nat
          BY <2>1, <4>2
        <5>2. ~(n > 1 /\ Len(h(n)) < 2) /\ ~IsDomain(reg, Over(h(n)))
          BY <4>2
        <5>3. f[n + 1] = v[first[n + 1]]
          BY <5>1
        <5> HIDE DEF v, f, h, K
        <5>4. QED
          BY <5>1, <5>2, <5>3
      <4>3. QED
        BY <4>1, <4>2
    <3>2. QED
      BY <3>1
  <2>3. w = [n \in Nat |-> IF n > 1 /\ Len(h(n)) < 2 THEN NoHost
                              ELSE IF IsDomain(reg, Over(h(n))) THEN Over(h(n)) ELSE w[n + 1]]
    <3> HIDE DEF f, h
    <3>1. QED
      BY <2>2
  <2> HIDE DEF w
  <2>4. QED
    BY <2>3
<1>4. PICK k \in K : 1 =< k /\ w[1] = v[k] /\ \A j \in K : 1 =< j => k =< j
  <2> DEFINE a == 1
  <2>1. K \subseteq Nat /\ a \in Nat /\ \E k \in K : a =< k
    BY <1>2
  <2> HIDE DEF K, v, w, a
  <2>2. \E k \in K : a =< k /\ w[a] = v[k] /\ \A j \in K : a =< j => k =< j
    BY <1>3, <2>1, WalkStops, ZenonT(40)
  <2>3. QED
    BY <2>2 DEF a
<1> HIDE DEF w
<1>5. k \in Nat \ {0} /\ ((k > 1 /\ Len(h(k)) < 2) \/ IsDomain(reg, Over(h(k))))
  BY <1>4
<1>6. \A j \in 1 .. k - 1 : ~IsDomain(reg, Over(h(j)))
  BY <1>4, <1>5
<1>7. DomainOwner(reg, host) = IF k > 1 /\ Len(h(k)) < 2 THEN NoHost ELSE Over(h(k))
  BY <1>1, <1>4, <1>5
<1>8. Len(h(k)) \in Nat
  BY <1>5
<1>9. QED
  BY <1>5, <1>6, <1>7, <1>8 DEF From

-----------------------------------------------------------------------------
LEMMA UnderIsFrom ==
  ASSUME NEW host \in Seq(Label), NEW name \in Seq(Label), Len(name) > 0, Under(host, name)
  PROVE  \E k \in 1 .. Len(host) : name = From(host, k) /\ Len(name) = Len(host) - k + 1
<1> DEFINE k == Len(host) - Len(name) + 1
<1>1. k \in 1 .. Len(host) /\ name = From(host, k)
  BY DEF Under, From
<1>2. QED
  BY <1>1

LEMMA NotEmpty ==
  ASSUME NEW s, Len(s) # 0
  PROVE  s # <<>>
OBVIOUS

LEMMA FromIsUnder ==
  ASSUME NEW host \in Seq(Label), NEW k \in 1 .. Len(host)
  PROVE  Under(host, From(host, k)) /\ (InZone(From(host, k)) <=> InZone(host))
<1>1. Len(From(host, k)) = Len(host) - k + 1 /\ From(host, k)[Len(host) - k + 1] = host[Len(host)]
  BY DEF From
<1>2. host # <<>> /\ From(host, k) # <<>> /\ From(host, k) \in Seq(Label)
  <2>1. From(host, k) \in Seq(Label) /\ Len(host) # 0 /\ Len(From(host, k)) # 0
    BY <1>1 DEF From
  <2>2. QED
    BY <2>1, NotEmpty
<1>3. Len(host) - Len(From(host, k)) + 1 = k /\ Len(From(host, k)) =< Len(host)
  BY <1>1
<1>4. Under(host, From(host, k))
  <2> HIDE DEF From
  <2>1. SubSeq(host, Len(host) - Len(From(host, k)) + 1, Len(host)) = SubSeq(host, k, Len(host))
    BY <1>3
  <2>2. QED
    BY <1>3, <2>1 DEF Under, From
<1>5. Len(From(host, k)) = Len(host) - k + 1
  BY <1>1
<1>6. QED
  BY <1>1, <1>2, <1>4, <1>5 DEF InZone

LEMMA OverIs ==
  ASSUME NEW h \in Seq(Label), Star \in Label
  PROVE  /\ Over(h) \in Seq(Label) /\ Len(Over(h)) = Len(h) + 1
         /\ Over(h)[1] = Star /\ Tail(Over(h)) = h
BY DEF Over

\* A wildcard is over its tail, with which it is in the zone or not.
LEMMA WildcardIsOver ==
  ASSUME NEW name \in Seq(Label), Len(name) > 1, name[1] = Star
  PROVE  /\ Tail(name) \in Seq(Label) /\ Len(Tail(name)) = Len(name) - 1
         /\ name = Over(Tail(name)) /\ (InZone(name) <=> InZone(Tail(name)))
<1>1. /\ Tail(name) \in Seq(Label) /\ Len(Tail(name)) = Len(name) - 1
      /\ Tail(name)[Len(name) - 1] = name[Len(name)]
  OBVIOUS
<1>2. name = Over(Tail(name))
  BY DEF Over
<1>3. name # <<>> /\ Tail(name) # <<>>
  BY <1>1, NotEmpty
<1>4. InZone(name) <=> InZone(Tail(name))
  <2> DEFINE t == Tail(name)
  <2>1. Len(t) = Len(name) - 1 /\ t[Len(name) - 1] = name[Len(name)] /\ t # <<>>
    BY <1>1, <1>3
  <2> HIDE DEF t
  <2>2. InZone(name) <=> InZone(t)
    BY <1>3, <2>1 DEF InZone
  <2>3. QED
    BY <2>2 DEF t
<1>5. QED
  BY <1>1, <1>2, <1>4

-----------------------------------------------------------------------------
Domains(reg) ==
  /\ DOMAIN reg \subseteq Seq(Label) /\ Star \in Label
  /\ \A name \in DOMAIN reg : reg[name].tier = "domain" => ValidDomain(name)

LEMMA ZoneMostSpecific ==
  ASSUME NEW reg, Domains(reg), NEW host \in Seq(Label), InZone(host)
  PROVE  MostSpecific(reg, host)
<1> DEFINE able == {name \in DOMAIN reg : SpeaksFor(reg, name, host)}
           own == OwnerInZone(reg, host)
<1>1. ASSUME NEW name \in able
      PROVE  /\ Len(name) > 1
             /\ \E j \in 1 .. Len(host) : name = From(host, j) /\ Len(name) = Len(host) - j + 1
  <2>1. name \in Seq(Label) /\ name \in DOMAIN reg /\ SpeaksFor(reg, name, host)
    BY <1>1 DEF Domains
  <2>2. CASE reg[name].tier # "domain"
    <3>1. Len(name) > 1 /\ Under(host, name)
      BY <2>1, <2>2 DEF SpeaksFor
    <3>2. QED
      BY <2>1, <3>1, UnderIsFrom
  <2>3. CASE reg[name].tier = "domain"
    <3>1. ~InZone(name) /\ Len(name) > 1 /\ (name[1] = Star => Len(name) >= 3)
      BY <2>1, <2>3 DEF Domains, ValidDomain
    <3>2. name[1] = Star /\ Under(host, Tail(name))
      BY <2>1, <2>3, <3>1 DEF SpeaksFor
    <3>3. Tail(name) \in Seq(Label) /\ Len(Tail(name)) > 0 /\ ~InZone(Tail(name))
      BY <2>1, <3>1, <3>2, WildcardIsOver
    <3>4. PICK j \in 1 .. Len(host) : Tail(name) = From(host, j)
      BY <3>2, <3>3, UnderIsFrom
    <3>5. QED
      BY <3>3, <3>4, FromIsUnder
  <2>4. QED
    BY <2>2, <2>3
<1>2. PICK k \in Nat \ {0} :
        /\ \/ Len(From(host, k)) =< 1 /\ own = NoHost
           \/ Len(From(host, k)) > 1 /\ From(host, k) \in DOMAIN reg /\ own = From(host, k)
        /\ \A j \in 1 .. k - 1 : From(host, j) \notin DOMAIN reg
  BY ZoneWalk
<1>3. Owner(reg, host) = own
  BY DEF Owner
<1>4. Len(From(host, k)) = IF k =< Len(host) THEN Len(host) - k + 1 ELSE 0
  BY FromIs
<1>5. ASSUME NEW name \in able
      PROVE  \E j \in 1 .. Len(host) : j >= k /\ name = From(host, j) /\ Len(name) = Len(host) - j + 1
  <2>1. PICK j \in 1 .. Len(host) : name = From(host, j) /\ Len(name) = Len(host) - j + 1
    BY <1>1
  <2>2. ~(j < k)
    BY <1>2, <2>1
  <2>3. QED
    BY <2>1, <2>2
<1>6. CASE Len(From(host, k)) =< 1 /\ own = NoHost
  <2>1. able = {}
    <3> SUFFICES ASSUME NEW name \in able
                 PROVE  FALSE
      OBVIOUS
    <3>1. PICK j \in 1 .. Len(host) : j >= k /\ name = From(host, j) /\ Len(name) = Len(host) - j + 1
      BY <1>5
    <3>2. Len(name) > 1
      BY <1>1
    <3>3. QED
      BY <1>4, <1>6, <3>1, <3>2
  <2>2. QED
    BY <1>3, <1>6, <2>1 DEF MostSpecific
<1>7. CASE Len(From(host, k)) > 1 /\ From(host, k) \in DOMAIN reg /\ own = From(host, k)
  <2>1. k \in 1 .. Len(host)
    BY <1>4, <1>7
  <2>2. own \in able
    <3>1. Under(host, own) /\ InZone(own)
      BY <1>7, <2>1, FromIsUnder
    <3>2. reg[own].tier # "domain"
      BY <1>7, <3>1 DEF Domains, ValidDomain
    <3>3. QED
      BY <1>7, <3>1, <3>2 DEF SpeaksFor
  <2>3. ASSUME NEW name \in able \ {own}
        PROVE  Len(own) > Len(name)
    <3>1. PICK j \in 1 .. Len(host) : j >= k /\ name = From(host, j) /\ Len(name) = Len(host) - j + 1
      BY <1>5
    <3>2. j # k
      BY <1>7, <2>3, <3>1
    <3>3. QED
      BY <1>4, <1>7, <2>1, <3>1, <3>2
  <2> HIDE DEF own
  <2>4. QED
    BY <1>3, <2>2, <2>3 DEF MostSpecific
<1>8. QED
  BY <1>2, <1>6, <1>7

LEMMA DomainMostSpecific ==
  ASSUME NEW reg, Domains(reg), NEW host \in Seq(Label), ~InZone(host)
  PROVE  MostSpecific(reg, host)
<1> DEFINE able == {name \in DOMAIN reg : SpeaksFor(reg, name, host)}
           own == DomainOwner(reg, host)
<1>1. Owner(reg, host) = own
  BY DEF Owner
<1>2. ASSUME NEW name \in able
      PROVE  /\ IsDomain(reg, name) /\ name \in Seq(Label) /\ Len(name) > 1
             /\ name[1] = Star => Len(name) > 2 /\ Under(host, Tail(name))
             /\ name[1] # Star => name = host
  <2>1. reg[name].tier = "domain" /\ name \in DOMAIN reg /\ name \in Seq(Label)
    BY <1>2 DEF SpeaksFor, Domains
  <2>2. Len(name) > 1 /\ (name[1] = Star => Len(name) > 2)
    BY <2>1 DEF Domains, ValidDomain
  <2>3. QED
    BY <1>2, <2>1, <2>2 DEF SpeaksFor, IsDomain
<1>3. CASE IsDomain(reg, host)
  <2>1. own = host /\ host \in DOMAIN reg /\ reg[host].tier = "domain" /\ Len(host) > 1
    BY <1>3 DEF DomainOwner, IsDomain, Domains, ValidDomain
  <2>2. Under(host, Tail(host))
    <3>1. Tail(host) = SubSeq(host, 2, Len(host)) /\ Len(Tail(host)) = Len(host) - 1
      BY <2>1
    <3>2. Len(host) - Len(Tail(host)) + 1 = 2 /\ Len(Tail(host)) =< Len(host)
      BY <2>1, <3>1
    <3>3. QED
      BY <3>1, <3>2 DEF Under
  <2>3. own \in able
    BY <2>1, <2>2 DEF SpeaksFor
  <2> HIDE DEF own
  <2>4. QED
    BY <1>1, <2>1, <2>3 DEF MostSpecific
<1>4. CASE ~IsDomain(reg, host)
  <2>1. PICK k \in Nat \ {0} :
          /\ \/ k > 1 /\ Len(From(host, k)) < 2 /\ own = NoHost
             \/ IsDomain(reg, Over(From(host, k))) /\ own = Over(From(host, k))
          /\ \A j \in 1 .. k - 1 : ~IsDomain(reg, Over(From(host, j)))
    BY <1>4, DomainWalk
  <2>2. From(host, k) \in Seq(Label)
        /\ Len(From(host, k)) = IF k =< Len(host) THEN Len(host) - k + 1 ELSE 0
    BY FromIs
  <2>3. ASSUME NEW name \in able
        PROVE  \E j \in 1 .. Len(host) : /\ j >= k /\ name = Over(From(host, j))
                                         /\ Len(name) = Len(host) - j + 2 /\ Len(name) > 2
    <3>1. name[1] = Star /\ name \in Seq(Label) /\ Len(name) > 2 /\ IsDomain(reg, name)
      BY <1>2, <1>4
    <3>2. /\ Tail(name) \in Seq(Label) /\ Len(Tail(name)) = Len(name) - 1
          /\ name = Over(Tail(name))
      BY <3>1, WildcardIsOver
    <3>3. Under(host, Tail(name)) /\ Len(Tail(name)) > 0
      BY <1>2, <3>1, <3>2
    <3>4. PICK j \in 1 .. Len(host) : Tail(name) = From(host, j)
                                      /\ Len(Tail(name)) = Len(host) - j + 1
      BY <3>2, <3>3, UnderIsFrom
    <3>5. name = Over(From(host, j))
      <4>1. Over(Tail(name)) = Over(From(host, j))
        BY <3>4
      <4> HIDE DEF Over, From
      <4>2. QED
        BY <3>2, <4>1
    <3>6. ~(j < k)
      BY <2>1, <3>1, <3>5
    <3>7. Len(name) = Len(host) - j + 2
      BY <3>1, <3>2, <3>4
    <3>8. j >= k
      BY <3>6
    <3>9. QED
      BY <3>1, <3>5, <3>7, <3>8
  <2>4. CASE k > 1 /\ Len(From(host, k)) < 2 /\ own = NoHost
    <3>1. able = {}
      <4> SUFFICES ASSUME NEW name \in able
                   PROVE  FALSE
        OBVIOUS
      <4>1. PICK j \in 1 .. Len(host) : /\ j >= k /\ name = Over(From(host, j))
                                        /\ Len(name) = Len(host) - j + 2 /\ Len(name) > 2
        BY <2>3
      <4>2. QED
        BY <2>2, <2>4, <4>1
    <3>2. QED
      BY <1>1, <2>4, <3>1 DEF MostSpecific
  <2>5. CASE IsDomain(reg, Over(From(host, k))) /\ own = Over(From(host, k))
    <3> DEFINE o == Over(From(host, k))
    <3>1. /\ o \in Seq(Label) /\ Len(o) = Len(From(host, k)) + 1
          /\ o[1] = Star /\ Tail(o) = From(host, k)
      BY <2>2, OverIs DEF Domains
    <3>2. o \in DOMAIN reg /\ reg[o].tier = "domain"
      BY <2>5 DEF IsDomain
    <3>3. Len(o) > 2
      BY <3>1, <3>2 DEF Domains, ValidDomain
    <3>4. k \in 1 .. Len(host) /\ Len(o) = Len(host) - k + 2
      BY <2>2, <3>1, <3>3
    <3>5. Under(host, From(host, k))
      BY <3>4, FromIsUnder
    <3>6. o \in able
      BY <3>1, <3>2, <3>5 DEF SpeaksFor
    <3>7. ASSUME NEW name \in able \ {o}
          PROVE  Len(o) > Len(name)
      <4>1. PICK j \in 1 .. Len(host) : /\ j >= k /\ name = Over(From(host, j))
                                        /\ Len(name) = Len(host) - j + 2 /\ Len(name) > 2
        BY <2>3
      <4>2. j # k
        BY <3>7, <4>1
      <4>3. QED
        BY <3>4, <4>1, <4>2
    <3>8. Owner(reg, host) = o
      BY <1>1, <2>5
    <3> HIDE DEF o
    <3>9. QED
      BY <3>6, <3>7, <3>8 DEF MostSpecific
  <2>6. QED
    BY <2>1, <2>4, <2>5
<1>5. QED
  BY <1>3, <1>4

\* Whatever is registered, if its domains are such as ValidDomain lets through: lookup
\* and lookupDomain find for any host the most specific name that speaks for it, and
\* nobody when there is none.
THEOREM MostSpecificHolds ==
  ASSUME NEW reg, Domains(reg), NEW host \in Seq(Label)
  PROVE  MostSpecific(reg, host)
BY ZoneMostSpecific, DomainMostSpecific

-----------------------------------------------------------------------------
\* What is registered has the tier that its name was claimed with.
Registered == DOMAIN m \subseteq Name /\ \A n \in DOMAIN m : m[n].tier = Tier[n]

LEMMA StepRegistered == Registered /\ [Next]_vars => Registered'
<1> SUFFICES ASSUME Registered, [Next]_vars
             PROVE  Registered'
  OBVIOUS
<1>1. ASSUME m' = m
      PROVE  Registered'
  BY <1>1 DEF Registered
<1>2. ASSUME NEW n \in Name, Claim(n)
      PROVE  Registered'
  BY <1>2 DEF Claim, Registered
<1>3. ASSUME NEW n \in Name, Release(n)
      PROVE  Registered'
  BY <1>3 DEF Release, Registered
<1>4. ASSUME NEW c \in Client, NEW a \in BOOLEAN, Ask(c, a)
      PROVE  m' = m
  BY <1>4 DEF Ask
<1>5. ASSUME NEW c \in Client, Serves(c) \/ Expire(c) \/ Visit(c)
      PROVE  m' = m
  BY <1>5 DEF Serves, Answer, Find, Upstream, NoUpstream, Proxy, Expire, Visit
<1>6. ASSUME Age \/ Reconfigure \/ Switch
      PROVE  m' = m
  BY <1>6 DEF Age, Reconfigure, Switch
<1>7. QED
  BY <1>1, <1>2, <1>3, <1>4, <1>5, <1>6 DEF Next, vars

\* Every host has the owner that speaks for it most closely, whatever names come and go
\* between the resolver's look and the front door's.
THEOREM OwnsMostSpecificHolds == Spec => []OwnsMostSpecific
<1>1. Init => Registered
  BY DEF Init, Registered
<1>2. Registered => Domains(m)
  BY QueryAssumption DEF Registered, Domains
<1>3. Registered => OwnsMostSpecific
  BY <1>2, QueryAssumption, MostSpecificHolds DEF OwnsMostSpecific
<1>4. QED
  BY <1>1, <1>3, StepRegistered, PTL DEF Spec

-----------------------------------------------------------------------------
\* The loop that reads the machine's resolvers leaves none of the stubs.
LEMMA UsableHasNoStub ==
  ASSUME NEW list \in Seq(Server)
  PROVE  Usable(list) \in Seq(Server \ Stub)
<1> DEFINE N == Len(list)
           S == Seq(Server \ Stub)
           Turn(i, s) == IF list[i] \in Stub THEN s ELSE Append(s, list[i])
           step == [i \in 1 .. N |-> [s \in S |-> Turn(i, s)]]
           w == CHOOSE servers : servers = [i \in 0 .. Len(list) |-> IF i = 0 THEN <<>>
                  ELSE IF list[i] \in Stub THEN servers[i - 1] ELSE Append(servers[i - 1], list[i])]
<1>1. N \in Nat /\ <<>> \in S /\ \A i \in 1 .. N : list[i] \in Server
  OBVIOUS
<1>2. \A i \in 1 .. N, s \in S : step[i][s] = Turn(i, s) /\ Turn(i, s) \in S
  BY <1>1
<1>3. step \in [1 .. N -> [S -> S]]
  BY <1>2
<1>4. PICK f \in [0 .. N -> S] : f[0] = <<>> /\ \A i \in 1 .. N : f[i] = step[i][f[i - 1]]
  <2> DEFINE base == <<>>
  <2>1. base \in S
    BY <1>1
  <2> HIDE DEF N, S, step, base
  <2>2. Recurs(S, N, base, step)
    BY <1>3, <2>1 DEF Recurs
  <2>3. PICK f : Built(S, N, base, step, f)
    BY <1>1, <2>2, Recursion
  <2>4. QED
    BY <2>3 DEF base, Built
<1>5. \A i \in 1 .. N : f[i] = Turn(i, f[i - 1])
  <2> HIDE DEF step, S, Turn
  <2>1. \A i \in 1 .. N : f[i - 1] \in S
    BY <1>1, <1>4
  <2>2. QED
    BY <1>2, <1>4, <2>1
<1> HIDE DEF step, S
<1>6. f = [i \in 0 .. N |-> IF i = 0 THEN <<>>
             ELSE IF list[i] \in Stub THEN f[i - 1] ELSE Append(f[i - 1], list[i])]
  <2>1. ASSUME NEW i \in 0 .. N
        PROVE  f[i] = IF i = 0 THEN <<>>
                 ELSE IF list[i] \in Stub THEN f[i - 1] ELSE Append(f[i - 1], list[i])
    <3>1. CASE i = 0
      BY <1>4, <3>1
    <3>2. CASE i # 0
      <4>1. i \in 1 .. N
        BY <1>1, <2>1, <3>2
      <4>2. QED
        BY <1>5, <3>2, <4>1
    <3>3. QED
      BY <3>1, <3>2
  <2>2. QED
    BY <1>4, <2>1
<1>7. w = [i \in 0 .. N |-> IF i = 0 THEN <<>>
             ELSE IF list[i] \in Stub THEN w[i - 1] ELSE Append(w[i - 1], list[i])]
  BY <1>6
<1>8. Usable(list) = w[N]
  BY DEF Usable
<1> HIDE DEF w
<1>9. w[0] = f[0]
  <2>1. 0 \in 0 .. N
    BY <1>1
  <2>2. QED
    BY <1>4, <1>7, <2>1
<1>10. ASSUME NEW i \in 1 .. N, w[i - 1] = f[i - 1]
       PROVE  w[i] = f[i]
  <2>1. i \in 0 .. N /\ i # 0
    BY <1>1, <1>10
  <2>2. w[i] = Turn(i, w[i - 1])
    BY <1>7, <2>1
  <2> HIDE DEF Turn
  <2>3. QED
    BY <1>5, <1>10, <2>2
<1>11. w[N] = f[N] /\ f[N] \in S
  <2> HIDE DEF N
  <2>1. StepAlike(N, w, f)
    BY <1>9, <1>10 DEF StepAlike
  <2>2. \A i \in 0 .. N : w[i] = f[i]
    BY <1>1, <2>1, Alike
  <2>3. N \in 0 .. N
    BY <1>1
  <2>4. QED
    BY <1>4, <2>2, <2>3
<1>12. QED
  BY <1>8, <1>11 DEF S

-----------------------------------------------------------------------------
\* What has been seen to be somebody else's is carried in the query's place: the host does
\* not change under a query, and what the loop found is what the queries walk down.
Place == {"idle", "sent", "find", "forward", "proxy"}
Asked == [at : Place, a : BOOLEAN, list : Seq(Server \ Stub)]

Leave ==
  /\ sys \in Config /\ cache \in Seq(Server \ Stub)
  /\ query \in [Client -> Asked]
  /\ \A c \in Client : query[c].at \in {"find", "forward"} => ~InZone(wish[c]) /\ c \in Here

\* Every query starts with the list empty, whatever it is for.
LEMMA IdleIs == Idle \in Asked /\ Idle.at = "idle"
<1>1. <<>> \in Seq(Server \ Stub)
  OBVIOUS
<1>2. QED
  BY <1>1 DEF Idle, Asked, Place

LEMMA EmptyList ==
  ASSUME NEW at \in Place, NEW a \in BOOLEAN
  PROVE  /\ [Idle EXCEPT !.at = at] \in Asked /\ [Idle EXCEPT !.at = at].at = at
         /\ [Idle EXCEPT !.at = at, !.a = a] \in Asked
         /\ [Idle EXCEPT !.at = at, !.a = a].at = at
<1> HIDE DEF Idle
<1>1. QED
  BY IdleIs DEF Asked

LEMMA InitLeave == Init => Leave
<1>1. <<>> \in Seq(Server \ Stub)
  OBVIOUS
<1>2. QED
  BY <1>1, IdleIs DEF Init, Leave

\* A step that gives one client a query that leaves for no upstream, or that is about to
\* for a reason, keeps the invariant.
LEMMA OneQuery ==
  ASSUME Leave, wish' = wish, sys' = sys, cache' = cache,
         NEW c \in Client, NEW q \in Asked, query' = [query EXCEPT ![c] = q],
         q.at \in {"find", "forward"} => ~InZone(wish[c]) /\ c \in Here
  PROVE  Leave'
<1> HIDE DEF Asked
<1>1. query' \in [Client -> Asked]
  BY DEF Leave
<1>2. ASSUME NEW d \in Client, query'[d].at \in {"find", "forward"}
      PROVE  ~InZone(wish'[d]) /\ d \in Here
  BY <1>2 DEF Leave
<1>3. QED
  BY <1>1, <1>2 DEF Leave, InZone

LEMMA StepLeave == Leave /\ [Next]_vars => Leave'
<1> SUFFICES ASSUME Leave, [Next]_vars
             PROVE  Leave'
  OBVIOUS
<1>0. Idle \in Asked /\ Idle.at = "idle"
  BY IdleIs
<1>1. CASE UNCHANGED vars
  BY <1>1 DEF vars, Leave, InZone
<1>2. ASSUME NEW n \in Name, Claim(n) \/ Release(n)
      PROVE  Leave'
  BY <1>2 DEF Claim, Release, Leave, InZone
<1>3. ASSUME NEW c \in Client, NEW a \in BOOLEAN, Ask(c, a)
      PROVE  Leave'
  <2> DEFINE q == [Idle EXCEPT !.at = "sent", !.a = a]
  <2>1. q \in Asked /\ q.at = "sent"
    BY EmptyList DEF Place
  <2>2. query' = [query EXCEPT ![c] = q] /\ wish' = wish /\ sys' = sys /\ cache' = cache
    BY <1>3 DEF Ask
  <2> HIDE DEF q
  <2>3. QED
    BY <2>1, <2>2, OneQuery
<1>4. ASSUME NEW c \in Client, Answer(c)
      PROVE  Leave'
  <2> DEFINE q == [Idle EXCEPT !.at = "find"]
  <2>1. wish' = wish /\ sys' = sys /\ cache' = cache
    BY <1>4 DEF Answer
  <2>2. CASE Forwards(c, Owner(m, wish[c]))
    <3>1. q \in Asked /\ q.at = "find"
      BY EmptyList DEF Place
    <3>2. query' = [query EXCEPT ![c] = q]
      BY <1>4, <2>2 DEF Answer
    <3>3. ~InZone(wish[c]) /\ c \in Here
      BY <2>2 DEF Forwards
    <3> HIDE DEF q
    <3>4. QED
      BY <2>1, <3>1, <3>2, <3>3, OneQuery
  <2>3. CASE ~Forwards(c, Owner(m, wish[c]))
    <3>1. query' = [query EXCEPT ![c] = Idle]
      BY <1>4, <2>3 DEF Answer, Tell
    <3>2. QED
      BY <1>0, <2>1, <3>1, OneQuery
  <2>4. QED
    BY <2>2, <2>3
<1>5. ASSUME NEW c \in Client, Find(c)
      PROVE  Leave'
  <2>1. cache' \in Seq(Server \ Stub)
    <3>1. sys \in Seq(Server)
      BY QueryAssumption DEF Leave
    <3>2. Usable(sys) \in Seq(Server \ Stub)
      BY <3>1, UsableHasNoStub
    <3>3. QED
      BY <1>5, <3>2 DEF Find, Leave
  <2>2. query' = [query EXCEPT ![c] = [query[c] EXCEPT !.at = "forward", !.list = cache']]
    BY <1>5 DEF Find, Leave
  <2>3. query' \in [Client -> Asked]
    <3>1. query[c] \in Asked
      BY DEF Leave
    <3>2. [query[c] EXCEPT !.at = "forward", !.list = cache'] \in Asked
      BY <2>1, <3>1 DEF Asked, Place
    <3>3. QED
      BY <2>2, <3>2 DEF Leave
  <2>4. ~InZone(wish[c]) /\ c \in Here
    BY <1>5 DEF Find, Leave
  <2>5. ASSUME NEW d \in Client, query'[d].at \in {"find", "forward"}
        PROVE  ~InZone(wish[d]) /\ d \in Here
    <3>1. CASE d = c
      BY <2>4, <3>1
    <3>2. CASE d # c
      BY <2>2, <2>5, <3>2 DEF Leave
    <3>3. QED
      BY <3>1, <3>2
  <2>6. wish' = wish /\ sys' = sys
    BY <1>5 DEF Find
  <2>7. QED
    BY <2>1, <2>3, <2>5, <2>6 DEF Leave, InZone
<1>6. ASSUME NEW c \in Client, Upstream(c)
      PROVE  Leave'
  <2>1. wish' = wish /\ sys' = sys /\ cache' = cache
    BY <1>6 DEF Upstream
  <2>2. CASE query' = [query EXCEPT ![c] = Idle]
    BY <1>0, <2>1, <2>2, OneQuery
  <2>3. CASE query' = [query EXCEPT ![c].list = Tail(@)]
    <3> DEFINE q == [query[c] EXCEPT !.list = Tail(query[c].list)]
    <3>1. query[c] \in Asked /\ query[c].list # <<>> /\ query[c].at = "forward"
      BY <1>6 DEF Upstream, Leave
    <3>2. Tail(query[c].list) \in Seq(Server \ Stub)
      BY <3>1 DEF Asked
    <3>3. q \in Asked /\ q.at = "forward"
      BY <3>1, <3>2 DEF Asked
    <3>4. query' = [query EXCEPT ![c] = q]
      BY <2>3
    <3>5. ~InZone(wish[c]) /\ c \in Here
      BY <3>1 DEF Leave
    <3> HIDE DEF q
    <3>6. QED
      BY <2>1, <3>3, <3>4, <3>5, OneQuery
  <2>4. QED
    BY <1>6, <2>2, <2>3 DEF Upstream, Relay, Tell
<1>7. ASSUME NEW c \in Client, NoUpstream(c) \/ Proxy(c)
      PROVE  Leave'
  BY <1>0, <1>7, OneQuery DEF NoUpstream, GiveUp, Tell, Proxy
<1>8. ASSUME NEW c \in Client, Visit(c)
      PROVE  Leave'
  <2> DEFINE q == [Idle EXCEPT !.at = "proxy"]
  <2>1. q \in Asked /\ q.at = "proxy"
    BY EmptyList DEF Place
  <2>2. query' = [query EXCEPT ![c] = q] /\ wish' = wish /\ sys' = sys /\ cache' = cache
    BY <1>8 DEF Visit
  <2> HIDE DEF q
  <2>3. QED
    BY <2>1, <2>2, OneQuery
<1>9. ASSUME NEW c \in Client, Expire(c)
      PROVE  Leave'
  BY <1>9 DEF Expire, Leave, InZone
<1>10. CASE Age
  BY <1>10 DEF Age, Leave, InZone
<1>11. CASE Reconfigure
  BY <1>11 DEF Reconfigure, Leave, InZone
<1>12. CASE Switch
  <2> DEFINE q == [Idle EXCEPT !.at = "sent"]
  <2>1. q \in Asked /\ q.at = "sent"
    BY EmptyList DEF Place
  <2>2. query' = [c \in Client |->
          IF query[c].at \in {"find", "forward"} THEN q ELSE query[c]]
    BY <1>12 DEF Switch
  <2> HIDE DEF q
  <2>3. query' \in [Client -> Asked]
    BY <2>1, <2>2 DEF Leave
  <2>4. \A c \in Client : query'[c].at \notin {"find", "forward"}
    BY <2>1, <2>2
  <2>5. QED
    BY <1>12, <2>3, <2>4 DEF Switch, Leave
<1>13. QED
  BY <1>1, <1>2, <1>3, <1>4, <1>5, <1>6, <1>7, <1>8, <1>9, <1>10, <1>11, <1>12 DEF Next, Serves

\* A query leaves the machine only for a host outside the zone that a program of this
\* machine asked for, and never to a stub that would send it back here.
THEOREM OnlyOthersLeaveHolds == Spec => []OnlyOthersLeave
<1>1. Leave => OnlyOthersLeave
  <2> SUFFICES ASSUME Leave, NEW c \in Client, query[c].at = "forward"
               PROVE  /\ ~InZone(wish[c]) /\ c \in Here
                      /\ \A i \in 1 .. Len(query[c].list) : query[c].list[i] \notin Stub
    BY DEF OnlyOthersLeave
  <2>1. query[c].list \in Seq(Server \ Stub)
    BY DEF Leave, Asked
  <2>2. \A i \in 1 .. Len(query[c].list) : query[c].list[i] \in Server \ Stub
    BY <2>1
  <2>3. QED
    BY <2>2 DEF Leave
<1>2. QED
  BY <1>1, InitLeave, StepLeave, PTL DEF Spec

-----------------------------------------------------------------------------
(* The walk over a message (capTTL).                                         *)

\* What skipName does at one place, given what it does further on.
Skips(body, o, f) ==
  IF o > Len(body) THEN 0
  ELSE IF body[o] = 0 THEN o + 1
  ELSE IF body[o] >= Pointer THEN (IF o < Len(body) THEN o + 2 ELSE 0)
  ELSE f[o + 1 + body[o]]

\* The loop of skipName ends, so it is a function: each turn is further on in the body.
LEMMA SkipNameIs ==
  ASSUME NEW body \in Seq(Nat), NEW o \in Nat \ {0}
  PROVE  SkipName(body, o) =
           IF o > Len(body) THEN 0
           ELSE IF body[o] = 0 THEN o + 1
           ELSE IF body[o] >= Pointer THEN (IF o < Len(body) THEN o + 2 ELSE 0)
           ELSE SkipName(body, o + 1 + body[o])
<1> DEFINE P == Nat \ {0}
           N == Len(body)
           Solves(n, f) == \A p \in P : p > N - n => f[p] = Skips(body, p, f)
           T == {n \in 0 .. N : \E f \in [P -> Nat] : Solves(n, f)}
           w == CHOOSE from : from = [p \in Nat \ {0} |->
                  IF p > Len(body) THEN 0
                  ELSE IF body[p] = 0 THEN p + 1
                  ELSE IF body[p] >= Pointer THEN (IF p < Len(body) THEN p + 2 ELSE 0)
                  ELSE from[p + 1 + body[p]]]
<1>1. N \in Nat /\ \A p \in 1 .. N : body[p] \in Nat
  OBVIOUS
<1>2. \A p \in P : p =< N => p + 1 + body[p] \in P /\ p + 1 + body[p] > p
  BY <1>1
<1>3. ASSUME NEW f \in [P -> Nat], NEW p \in P
      PROVE  Skips(body, p, f) \in Nat
  BY <1>1, <1>2, <1>3 DEF Skips
<1>4. 0 \in T
  <2> DEFINE f == [p \in P |-> 0]
  <2>1. f \in [P -> Nat] /\ \A p \in P : f[p] = 0
    OBVIOUS
  <2> HIDE DEF f
  <2>2. Solves(0, f)
    BY <1>1, <2>1 DEF Skips
  <2>3. 0 \in 0 .. N
    BY <1>1
  <2> HIDE DEF Solves
  <2>4. QED
    BY <2>1, <2>2, <2>3
<1>5. ASSUME NEW n \in 1 .. N, n - 1 \in T
      PROVE  n \in T
  <2>1. PICK f \in [P -> Nat] : Solves(n - 1, f)
    BY <1>5
  <2> DEFINE q == N - n + 1
             g == [p \in P |-> IF p = q THEN Skips(body, q, f) ELSE f[p]]
  <2>2. q \in P
    BY <1>1, <1>5
  <2>3. g \in [P -> Nat]
    BY <1>3, <2>1, <2>2
  <2>4. ASSUME NEW p \in P, p > N - n
        PROVE  g[p] = Skips(body, p, g)
    <3>1. Skips(body, p, g) = Skips(body, p, f)
      <4>1. CASE p > N
        BY <4>1 DEF Skips
      <4>2. CASE p =< N
        <5>1. p + 1 + body[p] \in P /\ p + 1 + body[p] # q
          BY <1>1, <1>2, <1>5, <2>4, <4>2
        <5>2. g[p + 1 + body[p]] = f[p + 1 + body[p]]
          BY <5>1
        <5> HIDE DEF g
        <5>3. QED
          BY <5>2 DEF Skips
      <4>3. QED
        BY <1>1, <4>1, <4>2
    <3>2. CASE p = q
      <4>1. g[p] = Skips(body, q, f)
        BY <3>2
      <4>2. QED
        BY <3>1, <3>2, <4>1
    <3>3. CASE p # q
      <4>1. g[p] = f[p]
        BY <3>3
      <4>2. p > N - (n - 1)
        <5>1. N \in Nat /\ n \in Nat /\ p \in Nat /\ p > N - n /\ p # N - n + 1
          BY <1>1, <1>5, <2>4, <3>3
        <5> HIDE DEF N
        <5>2. QED
          BY <5>1
      <4>3. f[p] = Skips(body, p, f)
        BY <2>1, <4>2
      <4>4. QED
        BY <3>1, <4>1, <4>3
    <3>4. QED
      BY <3>2, <3>3
  <2> HIDE DEF g
  <2>5. Solves(n, g)
    BY <2>4
  <2>6. n \in 0 .. N
    BY <1>1, <1>5
  <2> HIDE DEF Solves
  <2>7. QED
    BY <2>3, <2>5, <2>6
<1>6. N \in T
  <2> HIDE DEF T
  <2>1. \A n \in 0 .. N : n \in T
    BY <1>1, <1>4, <1>5, UpTo
  <2>2. QED
    BY <1>1, <2>1
<1>7. PICK f \in [P -> Nat] : \A p \in P : f[p] = Skips(body, p, f)
  <2>1. PICK f \in [P -> Nat] : Solves(N, f)
    BY <1>6
  <2>2. \A p \in P : f[p] = Skips(body, p, f)
    BY <1>1, <2>1
  <2>3. QED
    BY <2>2
<1> HIDE DEF T, Solves
<1>8. f = [p \in Nat \ {0} |->
             IF p > Len(body) THEN 0
             ELSE IF body[p] = 0 THEN p + 1
             ELSE IF body[p] >= Pointer THEN (IF p < Len(body) THEN p + 2 ELSE 0)
             ELSE f[p + 1 + body[p]]]
  BY <1>7 DEF Skips
<1>9. w = [p \in Nat \ {0} |->
             IF p > Len(body) THEN 0
             ELSE IF body[p] = 0 THEN p + 1
             ELSE IF body[p] >= Pointer THEN (IF p < Len(body) THEN p + 2 ELSE 0)
             ELSE w[p + 1 + body[p]]]
  BY <1>8
<1>10. \A p : SkipName(body, p) = w[p]
  BY DEF SkipName
<1> HIDE DEF w
<1>11. w[o] = IF o > Len(body) THEN 0
              ELSE IF body[o] = 0 THEN o + 1
              ELSE IF body[o] >= Pointer THEN (IF o < Len(body) THEN o + 2 ELSE 0)
              ELSE w[o + 1 + body[o]]
  BY <1>9
<1>12. QED
  BY <1>10, <1>11

\* What stands in a body behind its first p cells, as far as the body goes.
Stands(cells, body, p) ==
  \A j \in 1 .. Len(cells) : p + j =< Len(body) => body[p + j] = cells[j]

\* A whole name is stepped over, unless the body ends before it does: the walk is at its
\* end, or at a label behind which it gets there.
LEMMA SkipsWhole ==
  ASSUME NEW body \in Seq(Nat), NEW p \in Nat, NEW name \in Seq(Nat), WholeName(name),
         Stands(name, body, p)
  PROVE  SkipName(body, p + 1) = IF p + Len(name) =< Len(body) THEN p + Len(name) + 1 ELSE 0
<1> DEFINE L == Len(body)
           M == Len(name)
           E == IF p + M =< L THEN p + M + 1 ELSE 0
<1>1. PICK n \in 1 .. M : \E at \in [1 .. n -> 1 .. M] :
        /\ at[1] = 1
        /\ \A i \in 1 .. n - 1 :
             name[at[i]] \in 1 .. Pointer - 1 /\ at[i + 1] = at[i] + 1 + name[at[i]]
        /\ \/ name[at[n]] = 0 /\ at[n] = M
           \/ name[at[n]] >= Pointer /\ at[n] = M - 1
  BY DEF WholeName
<1>2. PICK at \in [1 .. n -> 1 .. M] :
        /\ at[1] = 1
        /\ \A i \in 1 .. n - 1 :
             name[at[i]] \in 1 .. Pointer - 1 /\ at[i + 1] = at[i] + 1 + name[at[i]]
        /\ \/ name[at[n]] = 0 /\ at[n] = M
           \/ name[at[n]] >= Pointer /\ at[n] = M - 1
  BY <1>1
<1>3. L \in Nat /\ M \in Nat /\ n \in Nat
  BY <1>1
<1>4. ASSUME NEW i \in 1 .. n
      PROVE  /\ at[i] \in 1 .. M /\ p + at[i] \in Nat \ {0}
             /\ p + at[i] =< L => body[p + at[i]] = name[at[i]] /\ name[at[i]] \in Nat
  <2>1. at[i] \in 1 .. M
    BY <1>2
  <2>2. name[at[i]] \in Nat
    BY <2>1
  <2>3. p + at[i] =< L => body[p + at[i]] = name[at[i]]
    BY <2>1 DEF Stands
  <2> HIDE DEF L, M
  <2>4. p + at[i] \in Nat \ {0}
    BY <1>3, <2>1
  <2>5. QED
    BY <2>1, <2>2, <2>3, <2>4
<1>0. \A q \in Nat \ {0} :
        /\ q > L => SkipName(body, q) = 0
        /\ ~(q > L) /\ body[q] = 0 => SkipName(body, q) = q + 1
        /\ ~(q > L) /\ body[q] >= Pointer /\ body[q] # 0 =>
             SkipName(body, q) = IF q < L THEN q + 2 ELSE 0
        /\ ~(q > L) /\ ~(body[q] >= Pointer) /\ body[q] # 0 =>
             SkipName(body, q) = SkipName(body, q + 1 + body[q])
  BY SkipNameIs
<1> HIDE DEF L, M
<1> DEFINE T == {k \in 0 .. n - 1 : SkipName(body, p + at[n - k]) = E}
<1>5. SkipName(body, p + at[n]) = E
  <2>1. n \in 1 .. n
    BY <1>1
  <2>2. /\ at[n] \in 1 .. M /\ p + at[n] \in Nat \ {0}
        /\ p + at[n] =< L => body[p + at[n]] = name[at[n]] /\ name[at[n]] \in Nat
    BY <1>4, <2>1
  <2>3. CASE p + at[n] > L
    <3>1. SkipName(body, p + at[n]) = 0
      BY <2>2, <2>3, <1>0
    <3>2. p + M > L
      BY <1>3, <2>2, <2>3
    <3>3. QED
      BY <1>3, <3>1, <3>2
  <2>4. CASE p + at[n] =< L /\ name[at[n]] = 0 /\ at[n] = M
    <3>1. SkipName(body, p + at[n]) = p + M + 1
      <4>1. body[p + at[n]] = 0 /\ ~(p + at[n] > L)
        BY <1>3, <2>2, <2>4
      <4>2. SkipName(body, p + at[n]) = p + at[n] + 1
        BY <2>2, <4>1, <1>0
      <4>3. QED
        BY <2>4, <4>2
    <3>2. QED
      BY <2>4, <3>1
  <2>5. CASE p + at[n] =< L /\ name[at[n]] >= Pointer /\ at[n] = M - 1
    <3>1. body[p + at[n]] >= Pointer /\ body[p + at[n]] # 0 /\ ~(p + at[n] > L)
      <4>1. body[p + at[n]] = name[at[n]] /\ name[at[n]] \in Nat
        BY <2>2, <2>5
      <4>2. body[p + at[n]] >= Pointer /\ body[p + at[n]] # 0
        BY <2>5, <4>1 DEF Pointer
      <4>3. QED
        BY <1>3, <2>2, <2>5, <4>2
    <3>2. SkipName(body, p + at[n]) = IF p + at[n] < L THEN p + at[n] + 2 ELSE 0
      BY <2>2, <3>1, <1>0
    <3>3. p + at[n] = p + M - 1
      BY <1>3, <2>5
    <3>4. QED
      BY <1>3, <2>5, <3>2, <3>3
  <2>6. QED
    BY <1>2, <1>3, <2>2, <2>3, <2>4, <2>5
<1>6. 0 \in T
  <2>1. n - 0 = n /\ 0 \in 0 .. n - 1
    BY <1>1
  <2>2. QED
    BY <1>5, <2>1
<1>7. ASSUME NEW k \in 1 .. n - 1, k - 1 \in T
      PROVE  k \in T
  <2> DEFINE i == n - k
  <2>1. i \in 1 .. n - 1 /\ i \in 1 .. n /\ n - (k - 1) = i + 1 /\ k \in 0 .. n - 1
    BY <1>1, <1>7
  <2>2. SkipName(body, p + at[i + 1]) = E
    BY <1>7, <2>1
  <2> HIDE DEF i
  <2>3. /\ at[i] \in 1 .. M /\ p + at[i] \in Nat \ {0}
        /\ p + at[i] =< L => body[p + at[i]] = name[at[i]] /\ name[at[i]] \in Nat
    BY <1>4, <2>1
  <2>4. CASE p + at[i] > L
    <3>1. SkipName(body, p + at[i]) = 0
      BY <2>3, <2>4, <1>0
    <3>2. p + M > L
      BY <1>3, <2>3, <2>4
    <3>3. SkipName(body, p + at[i]) = E
      BY <1>3, <3>1, <3>2
    <3>4. QED
      BY <2>1, <3>3 DEF i
  <2>5. CASE p + at[i] =< L
    <3>1. name[at[i]] \in 1 .. Pointer - 1 /\ at[i + 1] = at[i] + 1 + name[at[i]]
      BY <1>2, <2>1
    <3>2. /\ ~(p + at[i] > L) /\ body[p + at[i]] # 0 /\ ~(body[p + at[i]] >= Pointer)
          /\ p + at[i] + 1 + body[p + at[i]] = p + at[i + 1]
      <4>1. body[p + at[i]] = name[at[i]] /\ name[at[i]] \in Nat
        BY <2>3, <2>5
      <4>2. body[p + at[i]] # 0 /\ ~(body[p + at[i]] >= Pointer)
        <5>1. name[at[i]] \in 1 .. Pointer - 1
          BY <3>1
        <5>2. \A v \in 1 .. Pointer - 1 : v # 0 /\ ~(v >= Pointer)
          BY DEF Pointer
        <5>3. QED
          BY <4>1, <5>1, <5>2
      <4>3. p + at[i + 1] = p + at[i] + 1 + name[at[i]]
        <5>1. at[i] \in Nat /\ name[at[i]] \in Nat /\ at[i + 1] = at[i] + 1 + name[at[i]]
          BY <1>3, <2>3, <3>1, <4>1
        <5>2. \A x, y \in Nat : p + (x + 1 + y) = p + x + 1 + y
          OBVIOUS
        <5>3. QED
          BY <5>1, <5>2
      <4>4. QED
        BY <1>3, <2>3, <2>5, <4>1, <4>2, <4>3
    <3>3. SkipName(body, p + at[i]) = SkipName(body, p + at[i] + 1 + body[p + at[i]])
      BY <2>3, <3>2, <1>0
    <3>4. SkipName(body, p + at[i]) = E
      BY <2>2, <3>2, <3>3
    <3>5. QED
      BY <2>1, <3>4 DEF i
  <2>6. p + at[i] > L \/ p + at[i] =< L
    <3>1. L \in Nat /\ p + at[i] \in Nat
      BY <1>3, <2>3
    <3>2. QED
      BY <3>1
  <2>7. QED
    BY <2>4, <2>5, <2>6, Zenon
<1>8. n - 1 \in T
  <2>1. n - 1 \in Nat /\ n - 1 \in 0 .. n - 1
    BY <1>1
  <2> HIDE DEF T
  <2>2. \A k \in 0 .. n - 1 : k \in T
    BY <1>6, <1>7, <2>1, UpTo
  <2>3. QED
    BY <2>1, <2>2
<1>9. SkipName(body, p + at[1]) = E
  <2>1. n - (n - 1) = 1
    BY <1>1
  <2>2. QED
    BY <1>8, <2>1
<1>10. QED
  BY <1>2, <1>9 DEF L, M

LEMMA NumbersCat ==
  ASSUME NEW a \in Seq(Nat), NEW b \in Seq(Nat)
  PROVE  /\ a \o b \in Seq(Nat) /\ Len(a \o b) = Len(a) + Len(b)
         /\ Len(a) \in Nat /\ Len(b) \in Nat
         /\ \A i \in 1 .. Len(a) : (a \o b)[i] = a[i]
         /\ \A i \in 1 .. Len(b) : (a \o b)[Len(a) + i] = b[i]
OBVIOUS

\* What a record is cell for cell.
LEMMA CellsAre ==
  ASSUME NEW r \in Record
  PROVE  /\ r.name \in Seq(Nat) /\ WholeName(r.name) /\ Len(r.data) \in Nat
         /\ Cells(r) \in Seq(Nat) /\ Len(Cells(r)) = Len(r.name) + 4 + Len(r.data)
         /\ \A j \in 1 .. Len(r.name) : Cells(r)[j] = r.name[j]
         /\ Cells(r)[Len(r.name) + 1] = r.type
         /\ Cells(r)[Len(r.name) + 2] = 1
         /\ Cells(r)[Len(r.name) + 3] = r.ttl
         /\ Cells(r)[Len(r.name) + 4] = Len(r.data)
         /\ \A j \in 1 .. Len(r.data) : Cells(r)[Len(r.name) + 4 + j] = r.data[j]
<1> DEFINE four == <<r.type, 1, r.ttl, Len(r.data)>>
           front == r.name \o four
<1>1. r.name \in Seq(Nat) /\ WholeName(r.name) /\ r.data \in Seq(Nat)
  BY DEF Record
<1>2. Len(r.data) \in Nat /\ Len(r.name) \in Nat
  BY <1>1
<1>3. four \in Seq(Nat) /\ Len(four) = 4
  BY <1>2 DEF Record
<1>4. four[1] = r.type /\ four[2] = 1 /\ four[3] = r.ttl /\ four[4] = Len(r.data)
  OBVIOUS
<1> HIDE DEF four
<1>5. /\ front \in Seq(Nat) /\ Len(front) = Len(r.name) + 4
      /\ \A j \in 1 .. Len(r.name) : front[j] = r.name[j]
      /\ \A j \in 1 .. 4 : front[Len(r.name) + j] = four[j]
  <2>1. front = r.name \o four
    OBVIOUS
  <2> HIDE DEF front
  <2>2. /\ front \in Seq(Nat) /\ Len(front) = Len(r.name) + Len(four)
        /\ \A j \in 1 .. Len(r.name) : front[j] = r.name[j]
        /\ \A j \in 1 .. Len(four) : front[Len(r.name) + j] = four[j]
    <3> DEFINE name == r.name
    <3>1. name \in Seq(Nat) /\ four \in Seq(Nat) /\ front = name \o four
      BY <1>1, <1>3, <2>1
    <3> HIDE DEF name
    <3>2. /\ front \in Seq(Nat) /\ Len(front) = Len(name) + Len(four)
          /\ \A j \in 1 .. Len(name) : front[j] = name[j]
          /\ \A j \in 1 .. Len(four) : front[Len(name) + j] = four[j]
      BY <3>1, NumbersCat, Zenon
    <3>3. QED
      BY <3>2 DEF name
  <2>3. QED
    BY <1>3, <2>2
<1> HIDE DEF front
<1>6. Cells(r) = front \o r.data
  BY DEF Cells, front, four
<1>7. /\ Cells(r) \in Seq(Nat) /\ Len(Cells(r)) = Len(front) + Len(r.data)
      /\ \A j \in 1 .. Len(front) : Cells(r)[j] = front[j]
      /\ \A j \in 1 .. Len(r.data) : Cells(r)[Len(front) + j] = r.data[j]
  <2> DEFINE all == front \o r.data
  <2>1. Cells(r) = all
    BY <1>6
  <2>2. /\ all \in Seq(Nat) /\ Len(all) = Len(front) + Len(r.data)
        /\ \A j \in 1 .. Len(front) : all[j] = front[j]
        /\ \A j \in 1 .. Len(r.data) : all[Len(front) + j] = r.data[j]
    BY <1>1, <1>5, NumbersCat, Zenon
  <2> HIDE DEF all
  <2>3. QED
    BY <2>1, <2>2
<1>8. /\ \A j \in 1 .. Len(r.name) : Cells(r)[j] = r.name[j]
      /\ \A j \in 1 .. 4 : Cells(r)[Len(r.name) + j] = four[j]
  <2>1. \A j \in 1 .. Len(r.name) : j \in 1 .. Len(front)
    BY <1>2, <1>5
  <2>2. \A j \in 1 .. 4 : Len(r.name) + j \in 1 .. Len(front)
    BY <1>2, <1>5
  <2>3. QED
    BY <1>5, <1>7, <2>1, <2>2
<1>9. 1 \in 1 .. 4 /\ 2 \in 1 .. 4 /\ 3 \in 1 .. 4 /\ 4 \in 1 .. 4
  OBVIOUS
<1>10. /\ Cells(r)[Len(r.name) + 1] = r.type /\ Cells(r)[Len(r.name) + 2] = 1
       /\ Cells(r)[Len(r.name) + 3] = r.ttl /\ Cells(r)[Len(r.name) + 4] = Len(r.data)
  BY <1>4, <1>8, <1>9
<1>11. QED
  BY <1>1, <1>2, <1>5, <1>7, <1>8, <1>10

\* A record with its time to live capped differs in that cell.
AtMost(t, max) == IF t > max THEN max ELSE t
CapOf(r, max) == [r EXCEPT !.ttl = IF @ > max THEN max ELSE @]

LEMMA CapCells ==
  ASSUME NEW r \in Record, NEW max \in Nat
  PROVE  /\ CapOf(r, max) \in Record
         /\ Len(Cells(CapOf(r, max))) = Len(Cells(r))
         /\ \A j \in 1 .. Len(Cells(r)) : Cells(CapOf(r, max))[j] =
              IF j = Len(r.name) + 3 THEN AtMost(r.ttl, max) ELSE Cells(r)[j]
<1> DEFINE c == CapOf(r, max)
           N == Len(r.name)
           D == Len(r.data)
<1>1. c \in Record
  BY DEF CapOf, Record
<1>2. /\ c.name = r.name /\ c.type = r.type /\ c.data = r.data
      /\ c.ttl = AtMost(r.ttl, max)
  BY DEF CapOf, Record, AtMost
<1> HIDE DEF c
<1>3. N \in Nat /\ D \in Nat
  BY CellsAre
<1>4. /\ Len(Cells(r)) = N + 4 + D
      /\ \A j \in 1 .. N : Cells(r)[j] = r.name[j]
      /\ Cells(r)[N + 1] = r.type /\ Cells(r)[N + 2] = 1
      /\ Cells(r)[N + 3] = r.ttl /\ Cells(r)[N + 4] = D
      /\ \A j \in 1 .. D : Cells(r)[N + 4 + j] = r.data[j]
  BY CellsAre
<1>5. /\ Len(Cells(c)) = N + 4 + D
      /\ \A j \in 1 .. N : Cells(c)[j] = r.name[j]
      /\ Cells(c)[N + 1] = r.type /\ Cells(c)[N + 2] = 1
      /\ Cells(c)[N + 3] = AtMost(r.ttl, max) /\ Cells(c)[N + 4] = D
      /\ \A j \in 1 .. D : Cells(c)[N + 4 + j] = r.data[j]
  <2>1. /\ Len(Cells(c)) = Len(c.name) + 4 + Len(c.data)
        /\ \A j \in 1 .. Len(c.name) : Cells(c)[j] = c.name[j]
        /\ Cells(c)[Len(c.name) + 1] = c.type /\ Cells(c)[Len(c.name) + 2] = 1
        /\ Cells(c)[Len(c.name) + 3] = c.ttl /\ Cells(c)[Len(c.name) + 4] = Len(c.data)
        /\ \A j \in 1 .. Len(c.data) : Cells(c)[Len(c.name) + 4 + j] = c.data[j]
    BY <1>1, CellsAre
  <2>2. QED
    BY <1>2, <2>1
<1> HIDE DEF N, D
<1>6. ASSUME NEW j \in 1 .. Len(Cells(r))
      PROVE  Cells(c)[j] = IF j = N + 3 THEN AtMost(r.ttl, max) ELSE Cells(r)[j]
  <2>1. CASE j \in 1 .. N
    BY <1>3, <1>4, <1>5, <2>1
  <2>2. CASE j \in {N + 1, N + 2, N + 3, N + 4}
    BY <1>3, <1>4, <1>5, <2>2
  <2>3. CASE j > N + 4
    <3>1. j - (N + 4) \in 1 .. D /\ N + 4 + (j - (N + 4)) = j /\ j # N + 3
      BY <1>3, <1>4, <1>6, <2>3
    <3>2. Cells(r)[j] = r.data[j - (N + 4)] /\ Cells(c)[j] = r.data[j - (N + 4)]
      BY <1>4, <1>5, <3>1
    <3>3. QED
      BY <3>1, <3>2
  <2>4. j \in Nat /\ j >= 1
    BY <1>3, <1>4, <1>6
  <2>5. QED
    BY <1>3, <2>1, <2>2, <2>3, <2>4
<1>7. QED
  BY <1>1, <1>4, <1>5, <1>6 DEF c, N

\* The walk over one record: it is stepped over whole and its time capped, or it is where
\* the walk is lost.
LEMMA CapsOne ==
  ASSUME NEW body \in Seq(Nat), NEW p \in Nat, NEW r \in Record, NEW max \in Nat,
         NEW out \in Seq(Nat), Stands(Cells(r), body, p),
         Len(out) = Len(body), Stands(Cells(r), out, p)
  PROVE  CapRecord(body, max, [off |-> p + 1, out |-> out]) =
           IF p + Len(Cells(r)) > Len(body) THEN Lost
           ELSE [off |-> p + Len(Cells(r)) + 1,
                 out |-> [out EXCEPT ![p + Len(r.name) + 3] = AtMost(r.ttl, max)]]
<1> DEFINE N == Len(r.name)
           D == Len(r.data)
           L == Len(body)
           st == [off |-> p + 1, out |-> out]
           n == IF st.off = 0 THEN 0 ELSE SkipName(body, st.off)
<1>1. N \in Nat /\ D \in Nat /\ L \in Nat /\ Len(out) = L
  BY CellsAre
<1>2. /\ Len(Cells(r)) = N + 4 + D
      /\ \A j \in 1 .. N : Cells(r)[j] = r.name[j]
      /\ Cells(r)[N + 3] = r.ttl /\ Cells(r)[N + 4] = D
  BY CellsAre
<1>3. /\ \A j \in 1 .. Len(Cells(r)) : p + j =< L => body[p + j] = Cells(r)[j]
      /\ \A j \in 1 .. Len(Cells(r)) : p + j =< L => out[p + j] = Cells(r)[j]
  BY <1>1 DEF Stands
<1>4. SkipName(body, p + 1) = IF p + N =< L THEN p + N + 1 ELSE 0
  <2>1. r.name \in Seq(Nat) /\ WholeName(r.name)
    BY CellsAre
  <2>2. ASSUME NEW j \in 1 .. N, p + j =< L
        PROVE  body[p + j] = r.name[j]
    <3>1. j \in 1 .. Len(Cells(r))
      <4> HIDE DEF N, D
      <4>1. QED
        BY <1>1, <1>2
    <3>2. QED
      BY <1>2, <1>3, <2>2, <3>1
  <2>3. Stands(r.name, body, p)
    BY <2>2 DEF Stands
  <2>4. QED
    BY <2>1, <2>3, SkipsWhole
<1>5. st.off = p + 1 /\ st.out = out
  OBVIOUS
<1>6. n = IF p + N =< L THEN p + N + 1 ELSE 0
  BY <1>4, <1>5
<1>7. CapRecord(body, max, st) =
        IF n = 0 \/ n + 3 > L \/ n + 3 + body[n + 3] > L THEN Lost
        ELSE [off |-> n + 4 + body[n + 3],
              out |-> [out EXCEPT ![n + 2] = IF @ > max THEN max ELSE @]]
  BY <1>5 DEF CapRecord
<1> DEFINE M == Len(Cells(r))
<1>0. N \in Nat /\ D \in Nat /\ L \in Nat /\ M = N + 4 + D
  BY <1>1, <1>2
<1> HIDE DEF n, st, N, D, L, M
<1>8. CASE p + N + 4 > L
  <2>1. n = 0 \/ n + 3 > L
    BY <1>0, <1>6, <1>8
  <2>2. p + M > L
    BY <1>0, <1>8
  <2>3. QED
    BY <1>7, <2>1, <2>2 DEF st, L, M
<1>9. CASE p + N + 4 =< L
  <2>1. n = p + N + 1 /\ n # 0 /\ ~(n + 3 > L)
    BY <1>0, <1>6, <1>9
  <2>2. body[n + 3] = D
    <3>1. N + 4 \in 1 .. M /\ p + (N + 4) =< L /\ n + 3 = p + (N + 4)
      BY <1>0, <1>9, <2>1
    <3>2. QED
      BY <1>2, <1>3, <3>1 DEF M
  <2>3. out[n + 2] = r.ttl /\ n + 2 = p + N + 3
    <3>1. /\ N + 3 \in 1 .. M /\ p + (N + 3) =< L
          /\ n + 2 = p + (N + 3) /\ n + 2 = p + N + 3
      BY <1>0, <1>9, <2>1
    <3>2. QED
      BY <1>1, <1>2, <1>3, <3>1 DEF M
  <2>4. [out EXCEPT ![n + 2] = IF @ > max THEN max ELSE @]
          = [out EXCEPT ![p + N + 3] = AtMost(r.ttl, max)]
    BY <2>3 DEF AtMost
  <2>5. n + 3 + D = p + M /\ n + 4 + D = p + M + 1
    BY <1>0, <2>1
  <2>6. QED
    BY <1>7, <2>1, <2>2, <2>4, <2>5 DEF st, L, N, M
<1>10. QED
  BY <1>1, <1>8, <1>9

Question == <<1, 1, 0, 1, 1>>

\* What the question and the first records of a message are.
UpToRecord(records, c) ==
  /\ c \in [0 .. Len(records) -> Seq(Nat)] /\ c[0] = Question
  /\ \A i \in 1 .. Len(records) : c[i] = c[i - 1] \o Cells(records[i])

LEMMA WholeIs ==
  ASSUME NEW records \in Seq(Record)
  PROVE  \E c : UpToRecord(records, c) /\ Whole(records) = c[Len(records)]
<1> DEFINE N == Len(records)
           S == Seq(Nat)
           step == [i \in 1 .. N |-> [t \in S |-> t \o Cells(records[i])]]
           w == CHOOSE upTo : upTo = [i \in 0 .. Len(records) |->
                  IF i = 0 THEN <<1, 1, 0, 1, 1>> ELSE upTo[i - 1] \o Cells(records[i])]
<1>1. N \in Nat /\ Question \in S /\ \A i \in 1 .. N : records[i] \in Record
  BY DEF Question
<1>2. \A i \in 1 .. N, t \in S :
        step[i][t] = t \o Cells(records[i]) /\ t \o Cells(records[i]) \in S
  <2>1. ASSUME NEW i \in 1 .. N, NEW t \in S
        PROVE  t \o Cells(records[i]) \in S
    <3>1. Cells(records[i]) \in Seq(Nat)
      BY <1>1, CellsAre
    <3>2. QED
      BY <3>1, NumbersCat
  <2>2. QED
    BY <2>1
<1>3. step \in [1 .. N -> [S -> S]]
  BY <1>2
<1>4. PICK f \in [0 .. N -> S] : f[0] = Question /\ \A i \in 1 .. N : f[i] = step[i][f[i - 1]]
  <2> DEFINE base == Question
  <2> HIDE DEF N, S, step, base
  <2>1. Recurs(S, N, base, step)
    BY <1>1, <1>3 DEF Recurs, base
  <2>2. PICK f : Built(S, N, base, step, f)
    BY <1>1, <2>1, Recursion
  <2>3. QED
    BY <2>2 DEF base, Built
<1>5. \A i \in 1 .. N : f[i] = f[i - 1] \o Cells(records[i])
  <2> HIDE DEF step, S
  <2>1. \A i \in 1 .. N : f[i - 1] \in S
    BY <1>1, <1>4
  <2>2. QED
    BY <1>2, <1>4, <2>1
<1> HIDE DEF step, S
<1>6. f = [i \in 0 .. N |-> IF i = 0 THEN <<1, 1, 0, 1, 1>> ELSE f[i - 1] \o Cells(records[i])]
  <2>1. ASSUME NEW i \in 0 .. N
        PROVE  f[i] = IF i = 0 THEN <<1, 1, 0, 1, 1>> ELSE f[i - 1] \o Cells(records[i])
    <3>1. CASE i = 0
      BY <1>4, <3>1 DEF Question
    <3>2. CASE i # 0
      <4>1. i \in 1 .. N
        BY <1>1, <2>1, <3>2
      <4>2. QED
        BY <1>5, <3>2, <4>1
    <3>3. QED
      BY <3>1, <3>2
  <2>2. QED
    BY <1>4, <2>1
<1>7. w = [i \in 0 .. N |-> IF i = 0 THEN <<1, 1, 0, 1, 1>> ELSE w[i - 1] \o Cells(records[i])]
  BY <1>6
<1>8. Whole(records) = w[N]
  BY DEF Whole
<1> HIDE DEF w
<1>9. w[0] = f[0]
  <2>1. 0 \in 0 .. N
    BY <1>1
  <2>2. QED
    BY <1>4, <1>7, <2>1 DEF Question
<1>10. ASSUME NEW i \in 1 .. N, w[i - 1] = f[i - 1]
       PROVE  w[i] = f[i]
  <2>1. i \in 0 .. N /\ i # 0
    BY <1>1, <1>10
  <2>2. w[i] = w[i - 1] \o Cells(records[i])
    BY <1>7, <2>1
  <2>3. QED
    BY <1>5, <1>10, <2>2
<1>11. w[N] = f[N]
  <2> HIDE DEF N
  <2>1. StepAlike(N, w, f)
    BY <1>9, <1>10 DEF StepAlike
  <2>2. \A i \in 0 .. N : w[i] = f[i]
    BY <1>1, <2>1, Alike
  <2>3. N \in 0 .. N
    BY <1>1
  <2>4. QED
    BY <2>2, <2>3
<1>12. UpToRecord(records, f)
  <2>1. f \in [0 .. Len(records) -> Seq(Nat)]
    BY <1>4 DEF S
  <2>2. QED
    BY <1>4, <1>5, <2>1 DEF UpToRecord
<1>13. QED
  BY <1>8, <1>11, <1>12

\* Each part begins with the one before, and so does the whole.
Lies(records, c) ==
  /\ \A i \in 0 .. Len(records) : c[i] \in Seq(Nat) /\ Len(c[i]) \in Nat
  /\ \A i \in 1 .. Len(records) :
       /\ Cells(records[i]) \in Seq(Nat) /\ Len(Cells(records[i])) \in Nat
       /\ Len(c[i]) = Len(c[i - 1]) + Len(Cells(records[i]))
  /\ \A k \in 0 .. Len(records) : \A i \in 0 .. k :
       /\ Len(c[i]) =< Len(c[k])
       /\ \A x \in 1 .. Len(c[i]) : c[k][x] = c[i][x]
  /\ \A k \in 0 .. Len(records) : \A i \in 1 .. k :
       \A j \in 1 .. Len(Cells(records[i])) :
         c[k][Len(c[i - 1]) + j] = Cells(records[i])[j]

LEMMA PartsBegin ==
  ASSUME NEW records \in Seq(Record), NEW c, UpToRecord(records, c)
  PROVE  Lies(records, c)
<1> DEFINE N == Len(records)
           Begins(i, k) == /\ Len(c[i]) =< Len(c[k])
                           /\ \A x \in 1 .. Len(c[i]) : c[k][x] = c[i][x]
           T == {k \in 0 .. N : \A i \in 0 .. k : Begins(i, k)}
<1>1. N \in Nat /\ \A i \in 1 .. N : records[i] \in Record
  OBVIOUS
<1>2. \A i \in 0 .. N : c[i] \in Seq(Nat) /\ Len(c[i]) \in Nat
  <2>1. \A i \in 0 .. N : c[i] \in Seq(Nat)
    BY DEF UpToRecord
  <2>2. QED
    BY <2>1
<1>3. ASSUME NEW i \in 1 .. N
      PROVE  /\ Cells(records[i]) \in Seq(Nat) /\ Len(Cells(records[i])) \in Nat
             /\ i - 1 \in 0 .. N /\ i \in 0 .. N
             /\ Len(c[i]) = Len(c[i - 1]) + Len(Cells(records[i]))
             /\ \A x \in 1 .. Len(c[i - 1]) : c[i][x] = c[i - 1][x]
             /\ \A j \in 1 .. Len(Cells(records[i])) :
                  c[i][Len(c[i - 1]) + j] = Cells(records[i])[j]
  <2> DEFINE a == c[i - 1]
             b == Cells(records[i])
             all == a \o b
  <2>1. i - 1 \in 0 .. N /\ i \in 0 .. N
    BY <1>1, <1>3
  <2>2. a \in Seq(Nat) /\ b \in Seq(Nat)
    BY <1>1, <1>2, <2>1, CellsAre
  <2>3. c[i] = all
    BY DEF UpToRecord
  <2> HIDE DEF a, b
  <2>4. /\ Len(all) = Len(a) + Len(b) /\ Len(b) \in Nat
        /\ \A x \in 1 .. Len(a) : all[x] = a[x]
        /\ \A j \in 1 .. Len(b) : all[Len(a) + j] = b[j]
    BY <2>2, NumbersCat
  <2> HIDE DEF all
  <2>5. QED
    BY <2>1, <2>2, <2>3, <2>4 DEF a, b
<1>4. 0 \in T
  <2>1. Begins(0, 0) /\ 0 \in 0 .. N
    BY <1>1, <1>2
  <2> HIDE DEF Begins
  <2>2. QED
    BY <2>1
<1>5. ASSUME NEW k \in 1 .. N, k - 1 \in T
      PROVE  k \in T
  <2>1. k - 1 \in 0 .. N /\ k \in 0 .. N
    BY <1>1, <1>5
  <2>2. ASSUME NEW i \in 0 .. k
        PROVE  Begins(i, k)
    <3>1. i \in 0 .. N
      BY <1>1, <1>5, <2>2
    <3>2. CASE i = k
      BY <1>2, <3>1, <3>2
    <3>3. CASE i # k
      <4>1. i \in 0 .. k - 1
        BY <1>1, <1>5, <2>2, <3>3
      <4>2. Begins(i, k - 1)
        BY <1>5, <4>1
      <4>3. Begins(k - 1, k)
        <5>1. /\ Len(c[k]) = Len(c[k - 1]) + Len(Cells(records[k]))
              /\ Len(Cells(records[k])) \in Nat
              /\ \A x \in 1 .. Len(c[k - 1]) : c[k][x] = c[k - 1][x]
          BY <1>3
        <5>2. Len(c[k - 1]) \in Nat
          BY <1>2, <2>1
        <5>3. Len(c[k - 1]) =< Len(c[k])
          <6>1. \A x, y \in Nat : x =< x + y
            OBVIOUS
          <6>2. QED
            BY <5>1, <5>2, <6>1
        <5>4. QED
          BY <5>1, <5>3
      <4>4. Len(c[i]) \in Nat /\ Len(c[k - 1]) \in Nat /\ Len(c[k]) \in Nat
        BY <1>2, <2>1, <3>1
      <4>5. QED
        BY <4>2, <4>3, <4>4
    <3>4. QED
      BY <3>2, <3>3
  <2> HIDE DEF Begins
  <2>3. QED
    BY <2>1, <2>2
<1>6. \A k \in 0 .. N : \A i \in 0 .. k : Begins(i, k)
  <2> HIDE DEF T
  <2>1. \A k \in 0 .. N : k \in T
    BY <1>1, <1>4, <1>5, UpTo
  <2>2. QED
    BY <2>1 DEF T
<1>7. ASSUME NEW k \in 0 .. N, NEW i \in 1 .. k, NEW j \in 1 .. Len(Cells(records[i]))
      PROVE  c[k][Len(c[i - 1]) + j] = Cells(records[i])[j]
  <2>1. i \in 1 .. N /\ i \in 0 .. k /\ i - 1 \in 0 .. N
    BY <1>1, <1>7
  <2>2. Begins(i, k)
    BY <1>6, <2>1
  <2>3. Len(c[i - 1]) + j \in 1 .. Len(c[i])
    <3>1. /\ Len(c[i]) = Len(c[i - 1]) + Len(Cells(records[i]))
          /\ Len(c[i - 1]) \in Nat /\ Len(Cells(records[i])) \in Nat
      BY <1>2, <1>3, <2>1
    <3>2. \A x, y \in Nat : \A z \in 1 .. y : x + z \in 1 .. x + y
      OBVIOUS
    <3>3. QED
      BY <3>1, <3>2
  <2>4. QED
    BY <1>3, <2>1, <2>2, <2>3
<1>8. QED
  BY <1>2, <1>3, <1>6, <1>7 DEF Lies

\* A walk that is lost stays lost.
LEMMA StaysLost ==
  ASSUME NEW body, NEW max
  PROVE  CapRecord(body, max, Lost) = Lost
BY DEF CapRecord, Lost

\* The question is stepped over, unless the body ends in it.
LEMMA QuestionSkipped ==
  ASSUME NEW body \in Seq(Nat), Stands(Question, body, 0)
  PROVE  SkipQuestion(body, [off |-> 1, out |-> body]) =
           IF 5 =< Len(body) THEN [off |-> 6, out |-> body] ELSE Lost
<1> DEFINE name == <<1, 1, 0>>
           L == Len(body)
           st == [off |-> 1, out |-> body]
<1>1. name \in Seq(Nat) /\ Len(name) = 3 /\ name[1] = 1 /\ name[2] = 1 /\ name[3] = 0
  OBVIOUS
<1>2. Len(Question) = 5 /\ Question[1] = 1 /\ Question[2] = 1 /\ Question[3] = 0
  BY DEF Question
<1>3. L \in Nat
  OBVIOUS
<1> HIDE DEF name
<1>4. WholeName(name)
  <2> DEFINE at == [i \in 1 .. 2 |-> IF i = 1 THEN 1 ELSE 3]
  <2>1. at \in [1 .. 2 -> 1 .. 3] /\ at[1] = 1 /\ at[2] = 3
    OBVIOUS
  <2> HIDE DEF at
  <2>2. \A i \in 1 .. 2 - 1 :
          name[at[i]] \in 1 .. Pointer - 1 /\ at[i + 1] = at[i] + 1 + name[at[i]]
    <3>1. \A i \in 1 .. 2 - 1 : i = 1
      OBVIOUS
    <3>2. name[at[1]] \in 1 .. Pointer - 1 /\ at[1 + 1] = at[1] + 1 + name[at[1]]
      BY <1>1, <2>1 DEF Pointer
    <3>3. QED
      BY <3>1, <3>2
  <2>3. name[at[2]] = 0 /\ at[2] = Len(name)
    BY <1>1, <2>1
  <2>4. 2 \in 1 .. Len(name) /\ at \in [1 .. 2 -> 1 .. Len(name)]
    BY <1>1, <2>1
  <2>5. \E at2 \in [1 .. 2 -> 1 .. Len(name)] :
          /\ at2[1] = 1
          /\ \A i \in 1 .. 2 - 1 :
               name[at2[i]] \in 1 .. Pointer - 1 /\ at2[i + 1] = at2[i] + 1 + name[at2[i]]
          /\ \/ name[at2[2]] = 0 /\ at2[2] = Len(name)
             \/ name[at2[2]] >= Pointer /\ at2[2] = Len(name) - 1
    BY <2>1, <2>2, <2>3, <2>4
  <2>6. QED
    BY <2>4, <2>5 DEF WholeName
<1>5. Stands(name, body, 0)
  <2>1. \A j \in 1 .. 3 : name[j] = Question[j] /\ j \in 1 .. Len(Question)
    <3>1. \A j \in 1 .. 3 : j = 1 \/ j = 2 \/ j = 3
      OBVIOUS
    <3>2. QED
      BY <1>1, <1>2, <3>1
  <2>2. QED
    BY <1>1, <2>1 DEF Stands
<1>6. SkipName(body, 0 + 1) = IF 0 + Len(name) =< L THEN 0 + Len(name) + 1 ELSE 0
  BY <1>1, <1>4, <1>5, SkipsWhole
<1>7. SkipName(body, 1) = IF 3 =< L THEN 4 ELSE 0
  BY <1>1, <1>3, <1>6
<1>8. st.off = 1 /\ [st EXCEPT !.off = 4 + 2] = [off |-> 6, out |-> body]
  OBVIOUS
<1> DEFINE n == IF st.off = 0 THEN 0 ELSE SkipName(body, st.off)
<1>9. SkipQuestion(body, st) = IF n = 0 \/ n + 1 > L THEN Lost ELSE [st EXCEPT !.off = n + 2]
  BY DEF SkipQuestion
<1>10. n = IF 3 =< L THEN 4 ELSE 0
  BY <1>7, <1>8
<1> HIDE DEF n, st, L
<1>11. CASE 5 =< L
  <2>1. n = 4 /\ ~(n = 0 \/ n + 1 > L)
    BY <1>3, <1>10, <1>11
  <2>2. QED
    BY <1>8, <1>9, <1>11, <2>1 DEF st, L
<1>12. CASE ~(5 =< L)
  <2>1. n = 0 \/ n + 1 > L
    BY <1>3, <1>10, <1>12
  <2>2. QED
    BY <1>9, <1>12, <2>1 DEF st, L
<1>13. QED
  BY <1>11, <1>12

LEMMA CappedIs ==
  ASSUME NEW records \in Seq(Record), NEW max \in Nat
  PROVE  /\ Capped(records, max) \in Seq(Record)
         /\ Len(Capped(records, max)) = Len(records)
         /\ \A i \in 1 .. Len(records) : Capped(records, max)[i] = CapOf(records[i], max)
<1> DEFINE N == Len(records)
           capped == [i \in 1 .. N |-> CapOf(records[i], max)]
<1>1. N \in Nat /\ \A i \in 1 .. N : records[i] \in Record
  OBVIOUS
<1>2. \A i \in 1 .. N : CapOf(records[i], max) \in Record
  BY <1>1, CapCells
<1>3. Capped(records, max) = capped
  BY DEF Capped, CapOf
<1> HIDE DEF N
<1>4. capped \in Seq(Record) /\ Len(capped) = N
  BY <1>1, <1>2
<1>5. \A i \in 1 .. N : capped[i] = CapOf(records[i], max)
  OBVIOUS
<1> HIDE DEF capped
<1>6. QED
  BY <1>3, <1>4, <1>5 DEF N

\* The same records with their times capped lie in the same places, and differ from the
\* others in the cells of the times only.
LEMMA CappedLies ==
  ASSUME NEW records \in Seq(Record), NEW max \in Nat, NEW c, UpToRecord(records, c),
         NEW d, UpToRecord(Capped(records, max), d)
  PROVE  /\ d \in [0 .. Len(records) -> Seq(Nat)]
         /\ \A i \in 0 .. Len(records) : Len(d[i]) = Len(c[i])
         /\ \A i \in 1 .. Len(records) : \A j \in 1 .. Len(Cells(records[i])) :
              d[Len(records)][Len(c[i - 1]) + j] =
                IF j = Len(records[i].name) + 3 THEN AtMost(records[i].ttl, max)
                ELSE Cells(records[i])[j]
         /\ \A j \in 1 .. 5 : d[Len(records)][j] = Question[j]
<1> DEFINE N == Len(records)
           capped == Capped(records, max)
           T == {i \in 0 .. N : Len(d[i]) = Len(c[i])}
<1>1. N \in Nat /\ \A i \in 1 .. N : records[i] \in Record
  OBVIOUS
<1>2. /\ capped \in Seq(Record) /\ Len(capped) = N
      /\ \A i \in 1 .. N : capped[i] = CapOf(records[i], max)
  BY CappedIs
<1>3. /\ \A i \in 0 .. N : c[i] \in Seq(Nat) /\ Len(c[i]) \in Nat
      /\ \A i \in 1 .. N : Len(c[i]) = Len(c[i - 1]) + Len(Cells(records[i]))
  BY PartsBegin DEF Lies
<1> HIDE DEF capped
<1>4. /\ d \in [0 .. N -> Seq(Nat)] /\ d[0] = Question /\ c[0] = Question
  BY <1>2 DEF UpToRecord, capped
<1>5. /\ \A i \in 0 .. N : d[i] \in Seq(Nat) /\ Len(d[i]) \in Nat
      /\ \A i \in 1 .. N : Len(d[i]) = Len(d[i - 1]) + Len(Cells(capped[i]))
      /\ \A k \in 0 .. N : \A i \in 0 .. k :
           \A x \in 1 .. Len(d[i]) : d[k][x] = d[i][x]
      /\ \A k \in 0 .. N : \A i \in 1 .. k : \A j \in 1 .. Len(Cells(capped[i])) :
           d[k][Len(d[i - 1]) + j] = Cells(capped[i])[j]
  <2>1. capped \in Seq(Record) /\ UpToRecord(capped, d)
    BY <1>2 DEF capped
  <2>2. /\ \A i \in 0 .. Len(capped) : d[i] \in Seq(Nat) /\ Len(d[i]) \in Nat
        /\ \A i \in 1 .. Len(capped) : Len(d[i]) = Len(d[i - 1]) + Len(Cells(capped[i]))
        /\ \A k \in 0 .. Len(capped) : \A i \in 0 .. k :
             \A x \in 1 .. Len(d[i]) : d[k][x] = d[i][x]
        /\ \A k \in 0 .. Len(capped) : \A i \in 1 .. k : \A j \in 1 .. Len(Cells(capped[i])) :
             d[k][Len(d[i - 1]) + j] = Cells(capped[i])[j]
    <3>1. Lies(capped, d)
      BY <2>1, PartsBegin
    <3>2. QED
      BY <3>1 DEF Lies
  <2>3. QED
    BY <1>2, <2>2
<1>6. \A i \in 1 .. N :
        /\ Len(Cells(capped[i])) = Len(Cells(records[i]))
        /\ \A j \in 1 .. Len(Cells(records[i])) : Cells(capped[i])[j] =
             IF j = Len(records[i].name) + 3 THEN AtMost(records[i].ttl, max)
             ELSE Cells(records[i])[j]
  BY <1>1, <1>2, CapCells
<1>7. \A i \in 0 .. N : Len(d[i]) = Len(c[i])
  <2>1. 0 \in T
    BY <1>1, <1>4
  <2>2. ASSUME NEW k \in 1 .. N, k - 1 \in T
        PROVE  k \in T
    <3>1. k \in 0 .. N /\ Len(d[k - 1]) = Len(c[k - 1])
      BY <1>1, <2>2
    <3>2. Len(c[k]) = Len(c[k - 1]) + Len(Cells(records[k]))
      BY <1>3
    <3>3. Len(d[k]) = Len(d[k - 1]) + Len(Cells(capped[k]))
      BY <1>5
    <3>4. Len(Cells(capped[k])) = Len(Cells(records[k]))
      BY <1>6
    <3>5. QED
      BY <3>1, <3>2, <3>3, <3>4
  <2> HIDE DEF T
  <2>3. \A k \in 0 .. N : k \in T
    BY <1>1, <2>1, <2>2, UpTo
  <2>4. QED
    BY <2>3 DEF T
<1>8. ASSUME NEW i \in 1 .. N, NEW j \in 1 .. Len(Cells(records[i]))
      PROVE  d[N][Len(c[i - 1]) + j] =
               IF j = Len(records[i].name) + 3 THEN AtMost(records[i].ttl, max)
               ELSE Cells(records[i])[j]
  <2>1. N \in 0 .. N /\ i \in 1 .. N /\ i - 1 \in 0 .. N
    BY <1>1, <1>8
  <2>2. d[N][Len(d[i - 1]) + j] = Cells(capped[i])[j]
    <3>1. j \in 1 .. Len(Cells(capped[i]))
      BY <1>6
    <3>2. QED
      BY <1>5, <2>1, <3>1
  <2>3. QED
    BY <1>6, <1>7, <2>1, <2>2
<1>9. \A j \in 1 .. 5 : d[N][j] = Question[j]
  <2>1. N \in 0 .. N /\ 0 \in 0 .. N /\ Len(d[0]) = 5
    BY <1>1, <1>4 DEF Question
  <2>2. \A x \in 1 .. Len(d[0]) : d[N][x] = d[0][x]
    BY <1>5, <2>1
  <2>3. QED
    BY <1>4, <2>1, <2>2
<1>10. QED
  BY <1>4, <1>7, <1>8, <1>9

\* Where the walk over a body of L cells is when it has the question and the first i
\* records behind it, and what it has written by then: the times of these are capped.
Written(C, D, L, at) == [x \in 1 .. L |-> IF x =< at THEN D[x] ELSE C[x]]
Behind(C, D, L, at) ==
  IF at =< L THEN [off |-> at + 1, out |-> Written(C, D, L, at)] ELSE Lost

\* The body that is left of a message is its first cells.
Left(body, C) ==
  /\ body \in Seq(Nat) /\ Len(body) =< Len(C)
  /\ \A x \in 1 .. Len(body) : body[x] = C[x]

LEMMA WalksOne ==
  ASSUME NEW records \in Seq(Record), NEW max \in Nat, NEW c, UpToRecord(records, c),
         NEW d, UpToRecord(Capped(records, max), d),
         NEW body, Left(body, c[Len(records)]), NEW i \in 1 .. Len(records)
  PROVE  CapRecord(body, max,
                   Behind(c[Len(records)], d[Len(records)], Len(body), Len(c[i - 1])))
           = Behind(c[Len(records)], d[Len(records)], Len(body), Len(c[i]))
<1> DEFINE N == Len(records)
           C == c[N]
           D == d[N]
           L == Len(body)
           p == Len(c[i - 1])
           r == records[i]
           M == Len(Cells(r))
           W == Len(r.name)
           out == Written(C, D, L, p)
<1>1. N \in Nat /\ i \in 0 .. N /\ i - 1 \in 0 .. N /\ N \in 0 .. N /\ r \in Record
  OBVIOUS
<1>2. /\ C \in Seq(Nat) /\ p \in Nat /\ M \in Nat /\ Len(c[i]) = p + M
      /\ p + M =< Len(C) /\ \A j \in 1 .. M : C[p + j] = Cells(r)[j]
  <2>1. Lies(records, c)
    BY PartsBegin
  <2>2. C \in Seq(Nat) /\ p \in Nat /\ M \in Nat /\ Len(c[i]) = p + M
    BY <1>1, <2>1 DEF Lies
  <2>3. Len(c[i]) =< Len(C)
    BY <1>1, <2>1 DEF Lies
  <2>4. \A j \in 1 .. M : C[p + j] = Cells(r)[j]
    BY <1>1, <2>1 DEF Lies
  <2>5. QED
    BY <2>2, <2>3, <2>4
<1>3. /\ D \in Seq(Nat) /\ Len(D) = Len(C)
      /\ \A j \in 1 .. M : D[p + j] =
           IF j = W + 3 THEN AtMost(r.ttl, max) ELSE Cells(r)[j]
  BY <1>1, CappedLies
<1>4. /\ body \in Seq(Nat) /\ L \in Nat /\ L =< Len(C) /\ \A x \in 1 .. L : body[x] = C[x]
  BY DEF Left
<1>5. Len(C) \in Nat /\ \A x \in 1 .. Len(C) : C[x] \in Nat /\ D[x] \in Nat
  <2>1. C \in Seq(Nat) /\ D \in Seq(Nat) /\ Len(D) = Len(C)
    BY <1>2, <1>3
  <2> HIDE DEF C, D
  <2>2. \A x \in 1 .. Len(C) : C[x] \in Nat
    BY <2>1
  <2>3. \A x \in 1 .. Len(D) : D[x] \in Nat
    BY <2>1
  <2>4. Len(C) \in Nat
    BY <2>1
  <2>5. QED
    BY <2>1, <2>2, <2>3, <2>4
<1>6. W \in Nat /\ M > W + 3
  <2> HIDE DEF r
  <2>1. W \in Nat /\ Len(r.data) \in Nat
    BY <1>1, CellsAre
  <2>2. M = W + 4 + Len(r.data)
    BY <1>1, CellsAre
  <2>3. \A a, b \in Nat : a + 4 + b > a + 3
    OBVIOUS
  <2> HIDE DEF M, W
  <2>4. QED
    BY <2>1, <2>2, <2>3
<1> HIDE DEF N, C, D, L, p, r, M, W
<1>7. CASE p =< L
  <2>1. \A x \in 1 .. L : x \in 1 .. Len(C)
    BY <1>4, <1>5
  <2>2. out = [x \in 1 .. L |-> IF x =< p THEN D[x] ELSE C[x]]
    BY DEF Written
  <2>3. \A x \in 1 .. L : (IF x =< p THEN D[x] ELSE C[x]) \in Nat
    BY <1>5, <2>1
  <2> HIDE DEF out
  <2>4. out \in Seq(Nat) /\ Len(out) = L
    BY <1>4, <2>2, <2>3
  <2>5. \A x \in 1 .. L : out[x] = IF x =< p THEN D[x] ELSE C[x]
    BY <2>2
  <2>6. \A j \in 1 .. M : p + j =< L => p + j \in 1 .. L /\ ~(p + j =< p)
    BY <1>2, <1>4
  <2>7. Stands(Cells(r), body, p) /\ Stands(Cells(r), out, p)
    <3>1. ASSUME NEW j \in 1 .. M, p + j =< L
          PROVE  body[p + j] = Cells(r)[j] /\ out[p + j] = Cells(r)[j]
      <4>1. p + j \in 1 .. L /\ ~(p + j =< p)
        BY <2>6, <3>1
      <4>2. C[p + j] = Cells(r)[j]
        BY <1>2
      <4>3. QED
        BY <1>4, <2>5, <4>1, <4>2
    <3>2. QED
      BY <2>4, <3>1 DEF Stands, L, M
  <2>8. CapRecord(body, max, [off |-> p + 1, out |-> out]) =
          IF p + M > L THEN Lost
          ELSE [off |-> p + M + 1,
                out |-> [out EXCEPT ![p + W + 3] = AtMost(r.ttl, max)]]
    BY <1>1, <1>2, <1>4, <2>4, <2>7, CapsOne DEF L, M, W
  <2>9. Behind(C, D, L, p) = [off |-> p + 1, out |-> out]
    BY <1>7 DEF Behind, out
  <2>10. CASE p + M > L
    BY <1>2, <1>4, <2>8, <2>9, <2>10 DEF Behind, N, C, D, L, p
  <2>11. CASE p + M =< L
    <3>0. p \in Nat /\ M \in Nat /\ W \in Nat /\ M > W + 3 /\ L \in Nat
      BY <1>2, <1>4, <1>6
    <3> DEFINE q == p + W + 3
               next == [out EXCEPT ![q] = AtMost(r.ttl, max)]
    <3>1. next = [x \in 1 .. L |-> IF x = q THEN AtMost(r.ttl, max) ELSE out[x]]
      BY <2>2
    <3>2. ASSUME NEW x \in 1 .. L
          PROVE  (IF x = q THEN AtMost(r.ttl, max) ELSE out[x])
                   = IF x =< p + M THEN D[x] ELSE C[x]
      <4>1. CASE x =< p
        <5>1. x # q /\ x =< p + M
          BY <3>0, <3>2, <4>1
        <5>2. QED
          BY <2>5, <4>1, <5>1
      <4>2. CASE x > p /\ x =< p + M
        <5>1. x - p \in 1 .. M /\ p + (x - p) = x /\ ~(x =< p)
          BY <3>0, <3>2, <4>2
        <5>2. x = q <=> x - p = W + 3
          BY <3>0, <3>2
        <5>3. /\ D[x] = IF x - p = W + 3 THEN AtMost(r.ttl, max) ELSE Cells(r)[x - p]
              /\ C[x] = Cells(r)[x - p]
          BY <1>2, <1>3, <5>1
        <5>4. QED
          BY <2>5, <4>2, <5>1, <5>2, <5>3
      <4>3. CASE x > p + M
        <5>1. x # q /\ ~(x =< p) /\ ~(x =< p + M)
          BY <3>0, <3>2, <4>3
        <5>2. QED
          BY <2>5, <5>1
      <4>4. QED
        BY <3>0, <3>2, <4>1, <4>2, <4>3
    <3>3. next = Written(C, D, L, p + M)
      BY <3>1, <3>2 DEF Written
    <3> HIDE DEF next
    <3>4. Behind(C, D, L, p + M) = [off |-> p + M + 1, out |-> next]
      BY <2>11, <3>3 DEF Behind
    <3>5. ~(p + M > L)
      BY <1>2, <1>4, <2>11
    <3>6. CapRecord(body, max, Behind(C, D, L, p)) = Behind(C, D, L, p + M)
      BY <2>8, <2>9, <3>4, <3>5 DEF next, q
    <3>7. QED
      BY <1>2, <3>6 DEF N, C, D, L, p
  <2>12. QED
    BY <1>2, <1>4, <2>10, <2>11
<1>8. CASE p > L
  <2>1. ~(p =< L) /\ ~(p + M =< L)
    BY <1>2, <1>4, <1>8
  <2>2. Behind(C, D, L, p) = Lost /\ Behind(C, D, L, p + M) = Lost
    BY <2>1 DEF Behind
  <2>3. CapRecord(body, max, Behind(C, D, L, p)) = Behind(C, D, L, p + M)
    BY <2>2, StaysLost
  <2>4. QED
    BY <1>2, <2>3 DEF N, C, D, L, p
<1>9. QED
  BY <1>2, <1>4, <1>7, <1>8

\* What the loops of capTTL come to.
Walks(msg, max, N, f) ==
  /\ msg.qd = 1 /\ msg.rrs = N
  /\ f[0] = SkipQuestion(msg.body, [off |-> 1, out |-> msg.body])
  /\ \A i \in 1 .. N : f[i] = CapRecord(msg.body, max, f[i - 1])

LEMMA CapTTLIs ==
  ASSUME NEW msg, NEW max, NEW N \in Nat, NEW f, Walks(msg, max, N, f)
  PROVE  CapTTL(msg, max) = IF f[N].off = 0 THEN msg ELSE [msg EXCEPT !.body = f[N].out]
<1> DEFINE st == [off |-> 1, out |-> msg.body]
           asked == CHOOSE asked : asked = [i \in 0 .. msg.qd |->
             IF i = 0 THEN [off |-> 1, out |-> msg.body]
             ELSE SkipQuestion(msg.body, asked[i - 1])]
           walk == CHOOSE walk : walk = [i \in 0 .. msg.rrs |->
             IF i = 0 THEN asked[msg.qd] ELSE CapRecord(msg.body, max, walk[i - 1])]
<1>0. /\ msg.qd = 1 /\ msg.rrs = N
      /\ f[0] = SkipQuestion(msg.body, [off |-> 1, out |-> msg.body])
      /\ \A i \in 1 .. N : f[i] = CapRecord(msg.body, max, f[i - 1])
  BY DEF Walks
<1>1. asked = [i \in 0 .. msg.qd |->
        IF i = 0 THEN [off |-> 1, out |-> msg.body] ELSE SkipQuestion(msg.body, asked[i - 1])]
  <2> DEFINE g == [i \in 0 .. 1 |-> IF i = 0 THEN st ELSE SkipQuestion(msg.body, st)]
  <2>1. g[0] = st
    OBVIOUS
  <2>2. g = [i \in 0 .. msg.qd |->
          IF i = 0 THEN [off |-> 1, out |-> msg.body] ELSE SkipQuestion(msg.body, g[i - 1])]
    <3>1. ASSUME NEW i \in 0 .. 1
          PROVE  (IF i = 0 THEN st ELSE SkipQuestion(msg.body, st))
                   = IF i = 0 THEN st ELSE SkipQuestion(msg.body, g[i - 1])
      <4>1. CASE i = 0
        BY <4>1
      <4>2. CASE i # 0
        <5>1. i - 1 = 0
          BY <3>1, <4>2
        <5> HIDE DEF g
        <5>2. QED
          BY <2>1, <5>1
      <4>3. QED
        BY <4>1, <4>2
    <3>2. g = [i \in 0 .. 1 |-> IF i = 0 THEN st ELSE SkipQuestion(msg.body, g[i - 1])]
      BY <3>1
    <3> HIDE DEF g
    <3>3. QED
      BY <1>0, <3>2
  <2> HIDE DEF g
  <2>3. QED
    BY <2>2
<1>2. asked[msg.qd] = f[0]
  <2> HIDE DEF asked
  <2>1. asked[0] = st /\ asked[1] = SkipQuestion(msg.body, asked[0])
    <3>1. 0 \in 0 .. msg.qd /\ 1 \in 0 .. msg.qd /\ 1 - 1 = 0
      BY <1>0
    <3>2. QED
      BY <1>1, <3>1
  <2>2. QED
    BY <1>0, <2>1
<1>3. walk = [i \in 0 .. msg.rrs |->
        IF i = 0 THEN asked[msg.qd] ELSE CapRecord(msg.body, max, walk[i - 1])]
  <2> HIDE DEF asked
  <2> DEFINE g == [i \in 0 .. N |-> f[i]]
  <2>1. \A i \in 0 .. N : g[i] = f[i]
    OBVIOUS
  <2>2. ASSUME NEW i \in 0 .. N
        PROVE  f[i] = IF i = 0 THEN asked[msg.qd] ELSE CapRecord(msg.body, max, g[i - 1])
    <3>1. CASE i = 0
      BY <1>2, <3>1
    <3>2. CASE i # 0
      <4>1. i \in 1 .. N /\ i - 1 \in 0 .. N
        BY <2>2, <3>2
      <4> HIDE DEF g
      <4>2. QED
        BY <1>0, <2>1, <3>2, <4>1
    <3>3. QED
      BY <3>1, <3>2
  <2>3. g = [i \in 0 .. N |->
          IF i = 0 THEN asked[msg.qd] ELSE CapRecord(msg.body, max, g[i - 1])]
    BY <2>2
  <2> HIDE DEF g
  <2>4. g = [i \in 0 .. msg.rrs |->
          IF i = 0 THEN asked[msg.qd] ELSE CapRecord(msg.body, max, g[i - 1])]
    BY <1>0, <2>3
  <2>5. QED
    BY <2>4
<1>4. CapTTL(msg, max) = IF walk[msg.rrs].off = 0 THEN msg
                         ELSE [msg EXCEPT !.body = walk[msg.rrs].out]
  BY DEF CapTTL
<1> HIDE DEF asked, walk
<1>5. walk[N] = f[N]
  <2>1. walk = [i \in 0 .. N |->
          IF i = 0 THEN asked[msg.qd] ELSE CapRecord(msg.body, max, walk[i - 1])]
    BY <1>0, <1>3
  <2>2. walk[0] = f[0]
    <3>1. 0 \in 0 .. N
      OBVIOUS
    <3>2. QED
      BY <1>2, <2>1, <3>1
  <2>3. ASSUME NEW i \in 1 .. N, walk[i - 1] = f[i - 1]
        PROVE  walk[i] = f[i]
    <3>1. i \in 0 .. N /\ i # 0
      BY <2>3
    <3>2. walk[i] = CapRecord(msg.body, max, walk[i - 1])
      BY <2>1, <3>1
    <3>3. QED
      BY <1>0, <2>3, <3>2
  <2>4. StepAlike(N, walk, f)
    BY <2>2, <2>3 DEF StepAlike
  <2>5. \A i \in 0 .. N : walk[i] = f[i]
    BY <2>4, Alike
  <2>6. QED
    BY <2>5
<1>6. QED
  BY <1>0, <1>4, <1>5

\* What a message is passed on as, however much of its end it has lost.
THEOREM CapsRightHolds ==
  ASSUME NEW records \in Seq(Record), NEW max \in Nat, NEW cut \in 0 .. Len(Whole(records))
  PROVE  CapsRight(records, cut, max)
<1> DEFINE N == Len(records)
           capped == Capped(records, max)
<1>1. N \in Nat
  OBVIOUS
<1>2. capped \in Seq(Record) /\ Len(capped) = N
  BY CappedIs
<1>3. PICK c : UpToRecord(records, c) /\ Whole(records) = c[N]
  BY WholeIs
<1>4. PICK d : UpToRecord(capped, d) /\ Whole(capped) = d[N]
  <2> HIDE DEF capped
  <2>1. \E d : UpToRecord(capped, d) /\ Whole(capped) = d[Len(capped)]
    BY <1>2, WholeIs
  <2>2. QED
    BY <1>2, <2>1
<1> DEFINE C == c[N]
           D == d[N]
           msg == Packed(records, cut)
           L == Len(C) - cut
           body == SubSeq(C, 1, L)
           f == [i \in 0 .. N |-> Behind(C, D, L, Len(c[i]))]
<1>5. /\ Lies(records, c) /\ N \in 0 .. N /\ 0 \in 0 .. N
      /\ c[0] = Question /\ \A i \in 0 .. N : Len(c[i]) \in Nat
  <2>1. Lies(records, c)
    BY <1>3, PartsBegin
  <2>2. c[0] = Question
    BY <1>3 DEF UpToRecord
  <2>3. \A i \in 0 .. N : Len(c[i]) \in Nat
    BY <2>1 DEF Lies
  <2>4. QED
    BY <1>1, <2>1, <2>2, <2>3
<1>6. C \in Seq(Nat) /\ Len(C) \in Nat /\ D \in Seq(Nat) /\ Len(D) = Len(C)
  <2>1. C \in Seq(Nat) /\ Len(C) \in Nat
    BY <1>5 DEF Lies
  <2>2. /\ d \in [0 .. N -> Seq(Nat)]
        /\ \A i \in 0 .. N : Len(d[i]) = Len(c[i])
    BY <1>3, <1>4, CappedLies
  <2>3. QED
    BY <1>5, <2>1, <2>2
<1>7. \A j \in 1 .. 5 : D[j] = Question[j]
  BY <1>3, <1>4, CappedLies
<1>8. 5 =< Len(C) /\ \A j \in 1 .. 5 : C[j] = Question[j]
  <2>1. Len(c[0]) =< Len(C) /\ \A x \in 1 .. Len(c[0]) : C[x] = c[0][x]
    BY <1>5 DEF Lies
  <2>2. Len(c[0]) = 5
    BY <1>5 DEF Question
  <2>3. QED
    BY <1>5, <2>1, <2>2
<1>9. cut \in 0 .. Len(C) /\ cut \in Nat /\ L \in Nat /\ L =< Len(C)
  <2>1. cut \in 0 .. Len(C)
    BY <1>3
  <2> HIDE DEF C
  <2>2. QED
    BY <1>6, <2>1
<1>10. msg.qd = 1 /\ msg.rrs = N /\ msg.body = body /\ msg = [qd |-> 1, rrs |-> N, body |-> body]
  BY <1>3 DEF Packed
<1> HIDE DEF msg, C, D
<1>11. body \in Seq(Nat) /\ Len(body) = L /\ \A x \in 1 .. L : body[x] = C[x]
  <2> HIDE DEF L
  <2>1. \A x \in 1 .. L : C[x] \in Nat
    BY <1>6, <1>9
  <2>2. body = [x \in 1 .. L |-> C[x]]
    BY <1>6, <1>9
  <2> HIDE DEF body
  <2>3. QED
    BY <1>9, <2>1, <2>2
<1> HIDE DEF body, L
<1>12. \A i \in 0 .. N : f[i] = Behind(C, D, L, Len(c[i]))
  OBVIOUS
<1> HIDE DEF f
<1>13. f[0] = SkipQuestion(msg.body, [off |-> 1, out |-> msg.body])
  <2>1. Len(c[0]) = 5 /\ Len(Question) = 5
    BY <1>5 DEF Question
  <2>2. Stands(Question, body, 0)
    <3>1. ASSUME NEW j \in 1 .. 5, 0 + j =< L
          PROVE  body[0 + j] = Question[j]
      <4>1. 0 + j = j /\ j \in 1 .. L
        BY <1>9, <3>1
      <4>2. QED
        BY <1>8, <1>11, <4>1
    <3>2. QED
      BY <1>11, <2>1, <3>1 DEF Stands
  <2>3. SkipQuestion(body, [off |-> 1, out |-> body]) =
          IF 5 =< L THEN [off |-> 6, out |-> body] ELSE Lost
    BY <1>11, <2>2, QuestionSkipped
  <2>4. Written(C, D, L, 5) = body
    <3>1. body = [x \in 1 .. L |-> body[x]]
      BY <1>11
    <3>2. ASSUME NEW x \in 1 .. L
          PROVE  (IF x =< 5 THEN D[x] ELSE C[x]) = body[x]
      <4>1. CASE x =< 5
        <5>1. x \in 1 .. 5
          BY <1>9, <3>2, <4>1
        <5>2. QED
          BY <1>7, <1>8, <1>11, <4>1, <5>1
      <4>2. CASE ~(x =< 5)
        BY <1>11, <4>2
      <4>3. QED
        BY <4>1, <4>2
    <3>3. QED
      BY <3>1, <3>2 DEF Written
  <2>5. f[0] = IF 5 =< L THEN [off |-> 6, out |-> body] ELSE Lost
    <3>1. f[0] = Behind(C, D, L, 5)
      BY <1>5, <1>12, <2>1
    <3>2. QED
      BY <2>4, <3>1 DEF Behind
  <2>6. QED
    BY <1>10, <2>3, <2>5
<1>14. ASSUME NEW i \in 1 .. N
       PROVE  f[i] = CapRecord(msg.body, max, f[i - 1])
  <2>1. i \in 0 .. N /\ i - 1 \in 0 .. N
    BY <1>1, <1>14
  <2>2. Left(body, C)
    BY <1>9, <1>11 DEF Left
  <2>3. CapRecord(body, max, Behind(C, D, Len(body), Len(c[i - 1])))
          = Behind(C, D, Len(body), Len(c[i]))
    BY <1>3, <1>4, <2>2, WalksOne DEF C, D
  <2>4. QED
    BY <1>10, <1>11, <1>12, <2>1, <2>3
<1>15. CapTTL(msg, max) = IF f[N].off = 0 THEN msg ELSE [msg EXCEPT !.body = f[N].out]
  <2> HIDE DEF N
  <2>1. QED
    <3>1. msg.qd = 1 /\ msg.rrs = N
      BY <1>10
    <3>2. \A i \in 1 .. N : f[i] = CapRecord(msg.body, max, f[i - 1])
      BY <1>14
    <3>3. Walks(msg, max, N, f)
      BY <1>13, <3>1, <3>2 DEF Walks
    <3>4. QED
      BY <1>1, <3>3, CapTTLIs
<1>16. f[N] = IF cut = 0 THEN [off |-> Len(C) + 1, out |-> Written(C, D, L, Len(C))] ELSE Lost
  <2>1. f[N] = Behind(C, D, L, Len(C))
    BY <1>5, <1>12 DEF C
  <2>2. Len(C) =< L <=> cut = 0
    BY <1>6, <1>9 DEF L
  <2>3. QED
    BY <2>1, <2>2 DEF Behind
<1>17. CASE cut = 0
  <2>1. L = Len(C)
    BY <1>6, <1>17 DEF L
  <2>2. Written(C, D, L, Len(C)) = D
    <3>1. D = [x \in 1 .. L |-> D[x]]
      BY <1>6, <2>1
    <3>2. \A x \in 1 .. L : x =< Len(C)
      BY <1>6, <2>1
    <3>3. QED
      BY <3>1, <3>2 DEF Written
  <2>3. f[N].off # 0 /\ f[N].out = D
    BY <1>6, <1>16, <1>17, <2>2
  <2>4. CapTTL(msg, max) = [qd |-> 1, rrs |-> N, body |-> D]
    BY <1>10, <1>15, <2>3
  <2>5. Packed(capped, 0) = [qd |-> 1, rrs |-> N, body |-> D]
    <3>1. Packed(capped, 0) = [qd |-> 1, rrs |-> Len(capped), body |-> SubSeq(D, 1, Len(D) - 0)]
      BY <1>4 DEF Packed, D
    <3>2. SubSeq(D, 1, Len(D) - 0) = D
      BY <1>6
    <3>3. QED
      BY <1>2, <3>1, <3>2
  <2>6. QED
    BY <1>17, <2>4, <2>5 DEF CapsRight, msg
<1>18. CASE cut # 0
  <2>1. f[N].off = 0
    BY <1>16, <1>18 DEF Lost
  <2>2. CapTTL(msg, max) = msg
    BY <1>15, <2>1
  <2>3. QED
    BY <1>18, <2>2 DEF CapsRight, msg
<1>19. QED
  BY <1>17, <1>18

\* Whatever is said to a query that has left the machine is passed on as it should be:
\* the resolver it is said by is one of those it may ask.
THEOREM RelayedCappedHolds == Spec => []RelayedCapped
<1>1. Leave => RelayedCapped
  <2> SUFFICES ASSUME Leave, NEW c \in Client, query[c].list # <<>>
               PROVE  Right[Head(query[c].list)]
    BY DEF RelayedCapped
  <2>1. query[c].list \in Seq(Server \ Stub)
    BY DEF Leave, Asked
  <2>2. Head(query[c].list) \in Server
    <3> DEFINE list == query[c].list
    <3>1. list \in Seq(Server \ Stub) /\ list # <<>>
      BY <2>1
    <3> HIDE DEF list
    <3>2. Head(list) \in Server \ Stub
      BY <3>1
    <3>3. QED
      BY <3>2 DEF list
  <2>3. ASSUME NEW s \in Server, NEW says \in Says[s]
        PROVE  CapsRight(says.records, says.cut, RelayTTL)
    <3>1. says.records \in Seq(Record) /\ says.cut \in 0 .. Len(Whole(says.records))
      BY QueryAssumption
    <3>2. RelayTTL \in Nat
      BY QueryAssumption
    <3>3. QED
      BY <3>1, <3>2, CapsRightHolds
  <2>4. QED
    BY <2>2, <2>3 DEF Right
<1>2. QED
  BY <1>1, InitLeave, StepLeave, PTL DEF Spec

=============================================================================
