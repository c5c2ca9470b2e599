---------------------------- MODULE SetupProofs ----------------------------
(***************************************************************************)
(* Theorems about module Setup, for every hosts file, every set of users'  *)
(* lines and any number of edits, failed scripts and other changes.        *)
(***************************************************************************)
EXTENDS Setup, TLAPS, WellFoundedInduction

\* What a hosts file is made of.
Token == UserLine \cup {Begin, End, Nl, Apex}

LEMMA Marks ==
  /\ UserLine \subseteq Token /\ {Begin, End, Nl, Apex} \subseteq Token
  /\ UserLine \cap {Begin, End, Nl, Apex} = {}
  /\ Begin # End /\ Begin # Nl /\ Begin # Apex /\ End # Nl /\ End # Apex /\ Nl # Apex
BY SetupAssumption DEF Token, Begin, End, Nl, Apex

LEMMA BlockIs ==
  /\ Block \in Seq(Token) /\ Len(Block) = 6
  /\ Block[1] = Begin /\ Block[2] = Nl /\ Block[3] = Apex
  /\ Block[4] = Nl /\ Block[5] = End /\ Block[6] = Nl
<1> DEFINE b == Begin
           e == End
           n == Nl
           a == Apex
<1>1. b \in Token /\ e \in Token /\ n \in Token /\ a \in Token
  BY Marks
<1>2. Block = <<b, n, a, n, e, n>>
  BY DEF Block
<1> HIDE DEF b, e, n, a
<1>3. /\ Block \in Seq(Token) /\ Len(Block) = 6
      /\ Block[1] = b /\ Block[2] = n /\ Block[3] = a
      /\ Block[4] = n /\ Block[5] = e /\ Block[6] = n
  BY <1>1, <1>2
<1>4. QED
  BY <1>3 DEF b, e, n, a

-----------------------------------------------------------------------------
(* Numbers and recursive functions.                                          *)

\* A set of natural numbers that is not empty has a least member.
LEMMA LeastNumber ==
  ASSUME NEW T, T \subseteq Nat, T # {}
  PROVE  \E x \in T : \A y \in T : x =< y
<1> DEFINE R == OpToRel(<, Nat)
<1>1. PICK x \in T : \A y \in T : ~(<<y, x>> \in R)
  <2> HIDE DEF R
  <2>1. IsWellFoundedOn(R, Nat)
    BY NatLessThanWellFounded DEF R
  <2>2. QED
    BY <2>1, WFMin
<1>2. \A y \in T : ~(y < x)
  BY <1>1 DEF OpToRel
<1>3. QED
  BY <1>2

LEMMA LeastIs ==
  ASSUME NEW T, T \subseteq Nat, T # {}
  PROVE  Least(T) \in T /\ \A y \in T : Least(T) <= y
<1>1. \E x \in T : \A y \in T : x <= y
  BY LeastNumber
<1>2. QED
  BY <1>1 DEF Least

\* What holds first and goes on from each number to the next holds up to the last: an
\* induction, said with a set.
LEMMA UpTo ==
  ASSUME NEW N \in Nat, NEW T, 0 \in T, \A n \in 1 .. N : n - 1 \in T => n \in T
  PROVE  \A n \in 0 .. N : n \in T
<1> DEFINE B == (0 .. N) \ T
<1> SUFFICES ASSUME B # {}
             PROVE  FALSE
  OBVIOUS
<1>1. PICK n \in B : \A j \in B : n =< j
  <2>1. B \subseteq Nat
    OBVIOUS
  <2> HIDE DEF B
  <2>2. QED
    BY <2>1, LeastNumber
<1>2. n \in 1 .. N
  BY <1>1
<1>3. n - 1 \in T
  BY <1>1, <1>2
<1>4. QED
  BY <1>1, <1>2, <1>3

\* A function may be defined from one number to the next.
Recurs(S, N, base, step) == base \in S /\ step \in [1 .. N -> [S -> S]]
Built(S, N, base, step, f) ==
  f \in [0 .. N -> S] /\ f[0] = base /\ \A i \in 1 .. N : f[i] = step[i][f[i - 1]]

LEMMA Recursion ==
  ASSUME NEW S, NEW N \in Nat, NEW base, NEW step, Recurs(S, N, base, step)
  PROVE  \E f : Built(S, N, base, step, f)
<1> USE DEF Recurs
<1> DEFINE Part(n, f) == f[0] = base /\ \A i \in 1 .. n : f[i] = step[i][f[i - 1]]
           T == {n \in 0 .. N : \E f \in [0 .. N -> S] : Part(n, f)}
<1>1. 0 \in T
  <2> DEFINE f == [i \in 0 .. N |-> base]
  <2>1. f \in [0 .. N -> S] /\ f[0] = base
    OBVIOUS
  <2> HIDE DEF f
  <2>2. Part(0, f)
    BY <2>1
  <2> HIDE DEF Part
  <2>3. 0 \in 0 .. N
    OBVIOUS
  <2>4. QED
    BY <2>1, <2>2, <2>3
<1>2. ASSUME NEW n \in 1 .. N, n - 1 \in T
      PROVE  n \in T
  <2>1. PICK f \in [0 .. N -> S] : Part(n - 1, f)
    BY <1>2
  <2> DEFINE g == [i \in 0 .. N |-> IF i = n THEN step[n][f[n - 1]] ELSE f[i]]
  <2>2. n - 1 \in 0 .. N /\ n \in 0 .. N
    BY <1>2
  <2>3. step[n][f[n - 1]] \in S
    BY <2>2
  <2>4. g \in [0 .. N -> S]
    BY <2>3
  <2>5. g[0] = base
    BY <2>1, <1>2
  <2>6. ASSUME NEW i \in 1 .. n
        PROVE  g[i] = step[i][g[i - 1]]
    <3>1. i \in 0 .. N /\ i - 1 \in 0 .. N /\ i - 1 # n
      BY <1>2, <2>6
    <3>2. g[i - 1] = f[i - 1]
      BY <3>1
    <3>3. CASE i = n
      BY <3>1, <3>2, <3>3
    <3>4. CASE i # n
      <4>1. i \in 1 .. n - 1 /\ g[i] = f[i]
        BY <1>2, <2>6, <3>1, <3>4
      <4>2. QED
        BY <2>1, <3>2, <4>1
    <3>5. QED
      BY <3>3, <3>4
  <2> HIDE DEF g
  <2>7. Part(n, g)
    BY <2>5, <2>6
  <2> HIDE DEF Part
  <2>8. QED
    BY <2>2, <2>4, <2>7
<1>3. N \in T
  <2> HIDE DEF T
  <2>1. \A n \in 0 .. N : n \in T
    BY <1>1, <1>2, UpTo
  <2>2. QED
    BY <2>1
<1>4. QED
  BY <1>3 DEF Built

\* Two functions that start alike and go on alike are alike.
StepAlike(N, f, g) ==
  f[0] = g[0] /\ \A i \in 1 .. N : f[i - 1] = g[i - 1] => f[i] = g[i]

LEMMA Alike ==
  ASSUME NEW N \in Nat, NEW f, NEW g, StepAlike(N, f, g)
  PROVE  \A i \in 0 .. N : f[i] = g[i]
<1> DEFINE T == {i \in 0 .. N : f[i] = g[i]}
<1>1. 0 \in T
  BY DEF StepAlike
<1>2. \A n \in 1 .. N : n - 1 \in T => n \in T
  BY DEF StepAlike
<1>3. \A n \in 0 .. N : n \in T
  <2> HIDE DEF T
  <2>1. QED
    BY <1>1, <1>2, UpTo
<1>4. QED
  BY <1>3

-----------------------------------------------------------------------------
(* What users see of a hosts file.                                           *)

Line(h, i, seen) == IF h[i] \in UserLine THEN Append(seen, h[i]) ELSE seen

LEMMA UsersIs ==
  ASSUME NEW h \in Seq(Token)
  PROVE  \E f \in [0 .. Len(h) -> Seq(UserLine)] :
           /\ f[0] = <<>> /\ \A i \in 1 .. Len(h) : f[i] = Line(h, i, f[i - 1])
           /\ Users(h) = f[Len(h)]
<1> DEFINE N == Len(h)
           S == Seq(UserLine)
           step == [i \in 1 .. N |-> [t \in S |-> Line(h, i, t)]]
           w == CHOOSE lines : lines = [i \in 0 .. Len(h) |-> IF i = 0 THEN <<>>
                  ELSE IF h[i] \in UserLine THEN Append(lines[i - 1], h[i]) ELSE lines[i - 1]]
<1>1. N \in Nat /\ <<>> \in S
  OBVIOUS
<1>2. \A i \in 1 .. N, t \in S : step[i][t] = Line(h, i, t) /\ Line(h, i, t) \in S
  BY DEF Line
<1>3. step \in [1 .. N -> [S -> S]]
  BY <1>2
<1>4. PICK f \in [0 .. N -> S] : f[0] = <<>> /\ \A i \in 1 .. N : f[i] = step[i][f[i - 1]]
  <2> DEFINE base == <<>>
  <2>1. base \in S
    BY <1>1
  <2>2. N \in Nat
    BY <1>1
  <2> HIDE DEF N, S, step, base
  <2>3. Recurs(S, N, base, step)
    BY <1>3, <2>1 DEF Recurs
  <2>4. PICK f : Built(S, N, base, step, f)
    BY <2>2, <2>3, Recursion
  <2>5. QED
    BY <2>4 DEF base, Built
<1>5. \A i \in 1 .. N : f[i] = Line(h, i, f[i - 1])
  <2> HIDE DEF step, S
  <2>1. \A i \in 1 .. N : f[i - 1] \in S
    BY <1>1, <1>4
  <2>2. QED
    BY <1>2, <1>4, <2>1
<1> HIDE DEF step
<1>6. f = [i \in 0 .. N |-> IF i = 0 THEN <<>>
             ELSE IF h[i] \in UserLine THEN Append(f[i - 1], h[i]) ELSE f[i - 1]]
  <2>1. ASSUME NEW i \in 0 .. N
        PROVE  f[i] = IF i = 0 THEN <<>>
                 ELSE IF h[i] \in UserLine THEN Append(f[i - 1], h[i]) ELSE f[i - 1]
    <3>1. CASE i = 0
      BY <1>4, <3>1
    <3>2. CASE i # 0
      <4>1. i \in 1 .. N
        BY <1>1, <2>1, <3>2
      <4>2. QED
        BY <1>5, <3>2, <4>1 DEF Line
    <3>3. QED
      BY <3>1, <3>2
  <2>2. QED
    BY <2>1
<1>7. w = [i \in 0 .. N |-> IF i = 0 THEN <<>>
             ELSE IF h[i] \in UserLine THEN Append(w[i - 1], h[i]) ELSE w[i - 1]]
  BY <1>6
<1>8. Users(h) = w[N]
  BY DEF Users
<1> HIDE DEF w
<1>9. w[0] = f[0]
  <2>1. 0 \in 0 .. N
    BY <1>1
  <2>2. w[0] = <<>>
    BY <1>7, <2>1
  <2>3. QED
    BY <1>4, <2>2
<1>10. ASSUME NEW i \in 1 .. N, w[i - 1] = f[i - 1]
       PROVE  w[i] = f[i]
  <2>1. i \in 0 .. N /\ i # 0
    BY <1>1, <1>10
  <2>2. w[i] = Line(h, i, w[i - 1])
    BY <1>7, <2>1 DEF Line
  <2>3. QED
    BY <1>5, <1>10, <2>2
<1>11. \A i \in 0 .. N : w[i] = f[i]
  <2> HIDE DEF N
  <2>1. StepAlike(N, w, f)
    BY <1>9, <1>10 DEF StepAlike
  <2>2. QED
    BY <1>1, <2>1, Alike
<1>12. w[N] = f[N]
  BY <1>1, <1>11
<1>13. QED
  BY <1>4, <1>5, <1>8, <1>12

LEMMA AppendConcat ==
  ASSUME NEW s \in Seq(UserLine), NEW t \in Seq(UserLine), NEW x \in UserLine
  PROVE  Append(s \o t, x) = s \o Append(t, x)
<1> DEFINE p == Append(s \o t, x)
           q == s \o Append(t, x)
<1>1. p \in Seq(UserLine) /\ q \in Seq(UserLine) /\ Len(p) = Len(s) + Len(t) + 1 /\ Len(q) = Len(p)
  OBVIOUS
<1>2. \A i \in 1 .. Len(p) : p[i] = q[i]
  OBVIOUS
<1> HIDE DEF p, q
<1>3. p = q
  BY <1>1, <1>2
<1>4. QED
  BY <1>3 DEF p, q

\* Only users' lines count, in their order.
LEMMA UsersNone ==
  ASSUME NEW h \in Seq(Token), \A i \in 1 .. Len(h) : h[i] \notin UserLine
  PROVE  Users(h) = <<>>
<1> DEFINE N == Len(h)
<1>1. PICK f \in [0 .. N -> Seq(UserLine)] :
        /\ f[0] = <<>> /\ \A i \in 1 .. N : f[i] = Line(h, i, f[i - 1])
        /\ Users(h) = f[N]
  BY UsersIs
<1> DEFINE g == [i \in 0 .. N |-> <<>>]
<1>2. N \in Nat
  OBVIOUS
<1>3. f[0] = g[0] /\ g[N] = <<>>
  BY <1>1, <1>2
<1>4. \A i \in 1 .. N : f[i - 1] = g[i - 1] => f[i] = g[i]
  BY <1>1, <1>2 DEF Line
<1>5. \A i \in 0 .. N : f[i] = g[i]
  <2> HIDE DEF N, g
  <2>1. StepAlike(N, f, g)
    BY <1>3, <1>4 DEF StepAlike
  <2>2. QED
    BY <1>2, <2>1, Alike
<1>6. f[N] = g[N]
  BY <1>2, <1>5
<1>7. QED
  BY <1>1, <1>3, <1>6

LEMMA UsersConcat ==
  ASSUME NEW a \in Seq(Token), NEW b \in Seq(Token)
  PROVE  Users(a \o b) = Users(a) \o Users(b)
<1> DEFINE N == Len(a)
           M == Len(b)
           c == a \o b
<1>1. N \in Nat /\ M \in Nat /\ c \in Seq(Token) /\ Len(c) = N + M
  OBVIOUS
<1>2. PICK f \in [0 .. N -> Seq(UserLine)] :
        /\ f[0] = <<>> /\ \A i \in 1 .. N : f[i] = Line(a, i, f[i - 1])
        /\ Users(a) = f[N]
  BY UsersIs
<1>3. PICK g \in [0 .. M -> Seq(UserLine)] :
        /\ g[0] = <<>> /\ \A i \in 1 .. M : g[i] = Line(b, i, g[i - 1])
        /\ Users(b) = g[M]
  BY UsersIs
<1>4. PICK e \in [0 .. N + M -> Seq(UserLine)] :
        /\ e[0] = <<>> /\ \A i \in 1 .. N + M : e[i] = Line(c, i, e[i - 1])
        /\ Users(c) = e[N + M]
  <2> HIDE DEF c
  <2>1. QED
    BY <1>1, UsersIs
<1>5. /\ \A i \in 1 .. N : c[i] = a[i]
      /\ \A i \in 1 .. M : c[N + i] = b[i]
  OBVIOUS
<1> HIDE DEF c
<1>6. e[N] = f[N]
  <2>1. ASSUME NEW i \in 1 .. N, e[i - 1] = f[i - 1]
        PROVE  e[i] = f[i]
    <3>1. i \in 1 .. N + M
      BY <1>1
    <3>2. e[i] = Line(c, i, f[i - 1]) /\ f[i] = Line(a, i, f[i - 1])
      BY <1>2, <1>4, <2>1, <3>1
    <3>3. QED
      BY <1>5, <3>2 DEF Line
  <2>2. \A i \in 0 .. N : e[i] = f[i]
    <3> DEFINE x == e
               y == f
    <3>1. StepAlike(N, x, y)
      BY <1>2, <1>4, <2>1 DEF StepAlike
    <3>2. N \in Nat
      BY <1>1
    <3> HIDE DEF N, M, x, y
    <3>3. \A i \in 0 .. N : x[i] = y[i]
      BY <3>1, <3>2, Alike
    <3>4. QED
      BY <3>3 DEF x, y
  <2>3. QED
    BY <1>1, <2>2
<1> DEFINE u == [i \in 0 .. M |-> e[N + i]]
           v == [i \in 0 .. M |-> f[N] \o g[i]]
<1>7. f[N] \in Seq(UserLine)
  <2>1. N \in 0 .. N
    BY <1>1
  <2>2. QED
    BY <1>2, <2>1
<1>8. u[0] = v[0]
  BY <1>1, <1>3, <1>6, <1>7
<1>9. ASSUME NEW i \in 1 .. M, u[i - 1] = v[i - 1]
      PROVE  u[i] = v[i]
  <2>1. i \in 0 .. M /\ i - 1 \in 0 .. M /\ N + i \in 1 .. N + M /\ (N + i) - 1 = N + (i - 1)
    BY <1>1, <1>9
  <2>2. u[i] = Line(c, N + i, e[N + (i - 1)])
    BY <1>4, <2>1
  <2>3. e[N + (i - 1)] = f[N] \o g[i - 1]
    BY <1>9, <2>1
  <2>4. g[i] = Line(b, i, g[i - 1]) /\ c[N + i] = b[i]
    BY <1>3, <1>5
  <2>5. g[i - 1] \in Seq(UserLine)
    BY <1>3, <2>1
  <2>6. CASE b[i] \in UserLine
    <3> DEFINE p == f[N]
               q == g[i - 1]
               x == b[i]
    <3>0. p \in Seq(UserLine) /\ q \in Seq(UserLine) /\ x \in UserLine
      BY <1>7, <2>5, <2>6
    <3> HIDE DEF p, q, x
    <3>1. Append(p \o q, x) = p \o Append(q, x)
      BY <3>0, AppendConcat
    <3> USE DEF p, q, x
    <3>2. QED
      BY <2>1, <2>2, <2>3, <2>4, <2>6, <3>1 DEF Line
  <2>7. CASE b[i] \notin UserLine
    BY <2>1, <2>2, <2>3, <2>4, <2>7 DEF Line
  <2>8. QED
    BY <2>6, <2>7
<1>10. \A i \in 0 .. M : u[i] = v[i]
  <2> HIDE DEF M, u, v
  <2>1. StepAlike(M, u, v)
    BY <1>8, <1>9 DEF StepAlike
  <2>2. QED
    BY <1>1, <2>1, Alike
<1>11. e[N + M] = f[N] \o g[M]
  <2>1. M \in 0 .. M
    BY <1>1
  <2>2. QED
    BY <1>10, <2>1
<1>12. QED
  BY <1>2, <1>3, <1>4, <1>11 DEF c

LEMMA Cat ==
  ASSUME NEW a \in Seq(Token), NEW b \in Seq(Token)
  PROVE  /\ a \o b \in Seq(Token) /\ Len(a \o b) = Len(a) + Len(b)
         /\ Len(a) \in Nat /\ Len(b) \in Nat
         /\ \A i \in 1 .. Len(a) : (a \o b)[i] = a[i]
         /\ \A i \in 1 .. Len(b) : (a \o b)[Len(a) + i] = b[i]
         /\ \A i \in Len(a) + 1 .. Len(a) + Len(b) : (a \o b)[i] = b[i - Len(a)]
OBVIOUS

LEMMA SeqEqual ==
  ASSUME NEW a \in Seq(Token), NEW b \in Seq(Token),
         Len(a) = Len(b), \A i \in 1 .. Len(a) : a[i] = b[i]
  PROVE  a = b
OBVIOUS

LEMMA UsersType ==
  ASSUME NEW h \in Seq(Token)
  PROVE  Users(h) \in Seq(UserLine)
<1>1. PICK f \in [0 .. Len(h) -> Seq(UserLine)] : Users(h) = f[Len(h)]
  BY UsersIs
<1>2. Len(h) \in 0 .. Len(h)
  OBVIOUS
<1>3. QED
  BY <1>1, <1>2

\* A newline is no line of a user's.
LEMMA UsersNl ==
  ASSUME NEW h \in Seq(Token)
  PROVE  Append(h, Nl) \in Seq(Token) /\ Users(Append(h, Nl)) = Users(h)
<1> DEFINE x == Nl
           nl == <<x>>
<1>1. x \in Token /\ x \notin UserLine
  BY Marks
<1> HIDE DEF x
<1>2. nl \in Seq(Token) /\ Len(nl) = 1 /\ nl[1] = x
  BY <1>1
<1>3. Append(h, x) \in Seq(Token)
  BY <1>1
<1>4. Append(h, x) = h \o nl
  BY <1>1
<1> HIDE DEF nl
<1>5. Users(nl) = <<>>
  <2>1. \A i \in 1 .. Len(nl) : nl[i] \notin UserLine
    BY <1>1, <1>2
  <2>2. QED
    BY <1>2, <2>1, UsersNone
<1>6. Users(h \o nl) = Users(h) \o Users(nl)
  BY <1>2, UsersConcat
<1>7. Users(h) \o <<>> = Users(h)
  <2>1. Users(h) \in Seq(UserLine)
    BY UsersType
  <2> DEFINE u == Users(h)
  <2> HIDE DEF u
  <2>2. u \in Seq(UserLine) => u \o <<>> = u
    OBVIOUS
  <2>3. QED
    BY <2>1, <2>2 DEF u
<1>8. Users(Append(h, x)) = Users(h)
  BY <1>4, <1>5, <1>6, <1>7
<1>9. QED
  BY <1>3, <1>8 DEF x

\* Lines of doze's may be cut out of a file.
LEMMA UsersCut ==
  ASSUME NEW h \in Seq(Token), NEW s \in 1 .. Len(h), NEW e \in s .. Len(h),
         \A k \in s .. e : h[k] \notin UserLine
  PROVE  Users(h) = Users(SubSeq(h, 1, s - 1)) \o Users(SubSeq(h, e + 1, Len(h)))
<1> DEFINE p == SubSeq(h, 1, s - 1)
           m == SubSeq(h, s, e)
           q == SubSeq(h, e + 1, Len(h))
<1>1. p \in Seq(Token) /\ m \in Seq(Token) /\ q \in Seq(Token)
  OBVIOUS
<1>2. h = p \o m \o q
  <2>1. /\ Len(p) = s - 1 /\ Len(m) = e - s + 1 /\ Len(q) = Len(h) - e
        /\ \A i \in 1 .. s - 1 : p[i] = h[i]
        /\ \A i \in 1 .. e - s + 1 : m[i] = h[s - 1 + i]
        /\ \A i \in 1 .. Len(h) - e : q[i] = h[e + i]
        /\ s \in Nat /\ e \in Nat /\ Len(h) \in Nat /\ s <= e /\ e <= Len(h) /\ 1 <= s
    OBVIOUS
  <2> DEFINE N == Len(h)
             g == p \o m
             r == g \o q
  <2> HIDE DEF p, m, q, g, N
  <2>2. g \in Seq(Token) /\ Len(g) = e
    <3>1. g \in Seq(Token) /\ Len(g) = Len(p) + Len(m)
      BY <1>1, Cat DEF g
    <3>2. QED
      BY <2>1, <3>1
  <2>3. \A i \in 1 .. e : g[i] = h[i]
    <3>1. ASSUME NEW i \in 1 .. e
          PROVE  g[i] = h[i]
      <4>1. i \in 1 .. s - 1 => g[i] = p[i] /\ p[i] = h[i]
        BY <1>1, <2>1, Cat DEF g
      <4>2. i \notin 1 .. s - 1 => i \in Len(p) + 1 .. Len(p) + Len(m)
        BY <2>1, <3>1
      <4>3. i \in Len(p) + 1 .. Len(p) + Len(m) => g[i] = m[i - Len(p)]
        BY <1>1, Cat DEF g
      <4>4. i \notin 1 .. s - 1 => m[i - Len(p)] = h[i]
        BY <2>1, <3>1
      <4>5. QED
        BY <4>1, <4>2, <4>3, <4>4
    <3>2. QED
      BY <3>1
  <2>4. r \in Seq(Token) /\ Len(r) = N
    <3>1. r \in Seq(Token) /\ Len(r) = Len(g) + Len(q)
      BY <1>1, <2>2, Cat
    <3> HIDE DEF r
    <3>2. QED
      BY <2>1, <2>2, <3>1 DEF N
  <2> HIDE DEF r
  <2>5. \A i \in 1 .. N : r[i] = h[i]
    <3>1. ASSUME NEW i \in 1 .. N
          PROVE  r[i] = h[i]
      <4>1. i \in 1 .. e => r[i] = h[i]
        BY <1>1, <2>1, <2>2, <2>3, Cat DEF r
      <4>2. i \notin 1 .. e => i \in Len(g) + 1 .. Len(g) + Len(q)
        BY <2>1, <2>2, <3>1 DEF N
      <4>3. i \in Len(g) + 1 .. Len(g) + Len(q) => r[i] = q[i - Len(g)]
        BY <1>1, <2>2, Cat DEF r
      <4>4. i \notin 1 .. e => q[i - Len(g)] = h[i]
        BY <2>1, <2>2, <3>1 DEF N
      <4>5. QED
        BY <4>1, <4>2, <4>3, <4>4
    <3>2. QED
      BY <3>1
  <2>6. r = h
    BY <2>4, <2>5 DEF N
  <2>7. QED
    BY <2>6 DEF r, g
<1>3. \A i \in 1 .. Len(m) : m[i] \notin UserLine
  OBVIOUS
<1> HIDE DEF p, m, q
<1>4. p \o m \in Seq(Token)
  BY <1>1
<1>5. Users(p \o m \o q) = Users(p \o m) \o Users(q)
  BY <1>1, <1>4, UsersConcat
<1>6. Users(p \o m) = Users(p) \o Users(m) /\ Users(m) = <<>>
  BY <1>1, <1>3, UsersConcat, UsersNone
<1>7. Users(p) \o <<>> = Users(p)
  <2> DEFINE u == Users(p)
  <2>1. u \in Seq(UserLine)
    BY <1>1, UsersType
  <2> HIDE DEF u
  <2>2. u \o <<>> = u
    BY <2>1
  <2>3. QED
    BY <2>2 DEF u
<1>8. Users(h) = Users(p) \o Users(q)
  BY <1>2, <1>5, <1>6, <1>7
<1>9. QED
  BY <1>8 DEF p, q

-----------------------------------------------------------------------------
(* Files with a block, and files without.                                    *)

Closed(h) == Len(h) > 0 => h[Len(h)] = Nl
NoBegin(h) == \A i \in 1 .. Len(h) : h[i] # Begin

\* Before an end marker is no line of a user's.
Clear(h) == \A e \in 1 .. Len(h) : h[e] = End => \A k \in 1 .. e : h[k] \notin UserLine

\* One block at most, and none of it a user's.
Whole(h) ==
  \A s \in 1 .. Len(h) : h[s] = Begin =>
    /\ \A i \in 1 .. Len(h) : h[i] = Begin => i = s
    /\ \A e \in s .. Len(h) : h[e] = End => \A k \in s .. e : h[k] \notin UserLine

Good(h) == h \in Seq(Token) /\ Separated(h) /\ Whole(h)

LEMMA SeparatedCat ==
  ASSUME NEW a \in Seq(Token), NEW b \in Seq(Token), Separated(a), Separated(b),
         Closed(a) \/ (Len(b) > 0 => b[1] = Nl)
  PROVE  Separated(a \o b)
<1> DEFINE c == a \o b
           M == Len(a)
           N == Len(b)
<1>1. /\ c \in Seq(Token) /\ Len(c) = M + N /\ M \in Nat /\ N \in Nat
      /\ \A i \in 1 .. M : c[i] = a[i]
      /\ \A i \in 1 .. N : c[M + i] = b[i]
  BY Cat
<1> HIDE DEF c
<1>2. ASSUME NEW i \in 1 .. Len(c) - 1
      PROVE  c[i] = Nl \/ c[i + 1] = Nl
  <2>1. CASE i < M
    <3>1. i \in 1 .. Len(a) - 1 /\ c[i] = a[i] /\ c[i + 1] = a[i + 1]
      BY <1>1, <2>1
    <3>2. QED
      BY <3>1 DEF Separated
  <2>2. CASE i = M
    <3>1. M > 0 /\ N > 0 /\ M \in 1 .. M /\ 1 \in 1 .. N /\ i + 1 = M + 1
      BY <1>1, <2>2
    <3>2. c[i] = a[M] /\ c[i + 1] = b[1]
      BY <1>1, <2>2, <3>1
    <3>3. QED
      BY <3>1, <3>2 DEF Closed
  <2>3. CASE i > M
    <3> DEFINE j == i - M
    <3>1. j \in 1 .. N - 1 /\ i = M + j /\ i + 1 = M + (j + 1)
      BY <1>1, <2>3
    <3>2. c[i] = b[j] /\ c[i + 1] = b[j + 1]
      <4> HIDE DEF j
      <4>1. j \in 1 .. N /\ j + 1 \in 1 .. N
        BY <1>1, <3>1
      <4>2. QED
        BY <1>1, <3>1, <4>1
    <3> HIDE DEF j
    <3>3. QED
      BY <3>1, <3>2 DEF Separated
  <2>4. QED
    BY <1>1, <2>1, <2>2, <2>3
<1>3. Separated(c)
  BY <1>2 DEF Separated
<1>4. QED
  BY <1>3 DEF c

LEMMA SeparatedSub ==
  ASSUME NEW h \in Seq(Token), Separated(h), NEW i \in 1 .. Len(h) + 1, NEW j \in i - 1 .. Len(h)
  PROVE  Separated(SubSeq(h, i, j))
<1> DEFINE c == SubSeq(h, i, j)
<1>1. Len(c) = j - i + 1 /\ \A k \in 1 .. Len(c) : c[k] = h[i - 1 + k]
  OBVIOUS
<1>2. i \in Nat /\ j \in Int /\ Len(h) \in Nat
  OBVIOUS
<1> HIDE DEF c
<1>3. ASSUME NEW k \in 1 .. Len(c) - 1
      PROVE  c[k] = Nl \/ c[k + 1] = Nl
  <2> DEFINE l == i - 1 + k
  <2>1. l \in 1 .. Len(h) - 1 /\ i - 1 + (k + 1) = l + 1
    BY <1>1, <1>2
  <2>2. c[k] = h[l] /\ c[k + 1] = h[l + 1]
    BY <1>1, <1>2, <2>1
  <2> HIDE DEF l
  <2>3. QED
    BY <2>1, <2>2 DEF Separated
<1>4. Separated(c)
  BY <1>3 DEF Separated
<1>5. QED
  BY <1>4 DEF c

LEMMA BlockSeparated == Separated(Block) /\ Closed(Block)
<1> DEFINE b == Block
<1>1. Len(b) = 6 /\ b[2] = Nl /\ b[4] = Nl /\ b[6] = Nl
  BY BlockIs
<1> HIDE DEF b
<1>2. ASSUME NEW i \in 1 .. Len(b) - 1
      PROVE  b[i] = Nl \/ b[i + 1] = Nl
  <2>1. i = 1 \/ i = 2 \/ i = 3 \/ i = 4 \/ i = 5
    BY <1>1
  <2>2. QED
    BY <1>1, <2>1
<1>3. Separated(b) /\ Closed(b)
  BY <1>1, <1>2 DEF Separated, Closed
<1>4. QED
  BY <1>3 DEF b

LEMMA Around ==
  ASSUME NEW p \in Seq(Token), NEW q \in Seq(Token)
  PROVE  /\ p \o Block \in Seq(Token) /\ p \o Block \o q \in Seq(Token)
         /\ Len(p \o Block \o q) = Len(p) + 6 + Len(q) /\ Len(p) \in Nat /\ Len(q) \in Nat
         /\ \A i \in 1 .. Len(p) : (p \o Block \o q)[i] = p[i]
         /\ \A i \in 1 .. 6 : (p \o Block \o q)[Len(p) + i] = Block[i]
         /\ \A i \in 1 .. Len(q) : (p \o Block \o q)[Len(p) + 6 + i] = q[i]
<1> DEFINE b == Block
           a == p \o b
           r == a \o q
           P == Len(p)
           Q == Len(q)
<1>1. b \in Seq(Token) /\ Len(b) = 6
  BY BlockIs
<1> HIDE DEF b
<1>2. /\ a \in Seq(Token) /\ Len(a) = Len(p) + Len(b) /\ P \in Nat
      /\ \A i \in 1 .. P : a[i] = p[i]
      /\ \A i \in 1 .. Len(b) : a[P + i] = b[i]
  BY <1>1, Cat
<1> HIDE DEF a
<1>3. /\ r \in Seq(Token) /\ Len(r) = Len(a) + Q /\ Q \in Nat
      /\ \A i \in 1 .. Len(a) : r[i] = a[i]
      /\ \A i \in 1 .. Q : r[Len(a) + i] = q[i]
  BY <1>2, Cat
<1> HIDE DEF r, P, Q
<1>4. Len(a) = P + 6
  BY <1>1, <1>2 DEF P
<1>5. Len(r) = P + 6 + Q
  BY <1>3, <1>4
<1>6. \A i \in 1 .. P : r[i] = p[i]
  BY <1>2, <1>3, <1>4
<1>7. ASSUME NEW i \in 1 .. 6
      PROVE  r[P + i] = b[i]
  <2>1. P + i \in 1 .. Len(a) /\ i \in 1 .. Len(b)
    BY <1>1, <1>2, <1>4 DEF P
  <2>2. a[P + i] = b[i]
    BY <1>2, <2>1
  <2>3. r[P + i] = a[P + i]
    BY <1>3, <2>1
  <2>4. QED
    BY <2>2, <2>3
<1>8. \A i \in 1 .. Q : r[P + 6 + i] = q[i]
  BY <1>3, <1>4
<1>9. QED
  BY <1>2, <1>3, <1>5, <1>6, <1>7, <1>8 DEF r, a, b, P, Q

\* The only begin marker of a file that has a block put in.
LEMMA Placed ==
  ASSUME NEW p \in Seq(Token), NEW q \in Seq(Token),
         NoBegin(p), NoBegin(q), Clear(q), Closed(p), Separated(p), Separated(q)
  PROVE  /\ Good(p \o Block \o q)
         /\ Users(p \o Block \o q) = Users(p) \o Users(q)
         /\ Replaced(p \o Block \o q, Block) = p \o Block \o q
         /\ Len(p) + 1 \in 1 .. Len(p \o Block \o q)
         /\ SubSeq(p \o Block \o q, Len(p) + 1, Len(p) + Len(Block)) = Block
<1> DEFINE b == Block
           r == p \o Block \o q
           s == Len(p) + 1
           P == Len(p)
           Q == Len(q)
<1>1. /\ r \in Seq(Token) /\ p \o Block \in Seq(Token) /\ Len(r) = P + 6 + Q /\ P \in Nat /\ Q \in Nat
      /\ \A i \in 1 .. P : r[i] = p[i]
      /\ \A i \in 1 .. 6 : r[P + i] = b[i]
      /\ \A i \in 1 .. Q : r[P + 6 + i] = q[i]
  BY Around
<1>2. /\ b \in Seq(Token) /\ Len(b) = 6
      /\ b[1] = Begin /\ b[2] = Nl /\ b[3] = Apex /\ b[4] = Nl /\ b[5] = End /\ b[6] = Nl
  BY BlockIs
<1>3. Separated(r)
  <2>1. Separated(p \o Block)
    BY <1>2, BlockSeparated, SeparatedCat
  <2>2. Closed(p \o Block)
    <3> DEFINE a == p \o b
    <3> HIDE DEF b
    <3>1. Len(a) = P + 6 /\ a[P + 6] = b[6]
      <4>1. Len(b) \in 1 .. Len(b)
        BY <1>2
      <4>2. b \in Seq(Token)
        BY <1>2
      <4>3. Len(a) = P + Len(b) /\ \A i \in 1 .. Len(b) : a[P + i] = b[i]
        BY <4>2, Cat
      <4> HIDE DEF a
      <4>4. a[P + Len(b)] = b[Len(b)]
        BY <4>1, <4>3
      <4>5. QED
        BY <1>2, <4>3, <4>4
    <3> HIDE DEF a
    <3>2. Closed(a)
      BY <1>2, <3>1 DEF Closed
    <3>3. QED
      BY <3>2 DEF a, b
  <2> DEFINE a == p \o Block
  <2>3. a \in Seq(Token)
    BY <1>1
  <2> HIDE DEF a
  <2>4. Separated(a \o q)
    BY <2>1, <2>2, <2>3, SeparatedCat DEF a
  <2>5. QED
    BY <2>4 DEF a
<1> HIDE DEF r, b, P, Q, s
<1>4. s = P + 1 /\ s \in Nat /\ Len(r) \in Nat
  BY <1>1 DEF s, P
<1>5. r[s] = Begin /\ r[s + 4] = End /\ r[s + 5] = Nl
  <2>1. s = P + 1 /\ s + 4 = P + 5 /\ s + 5 = P + 6
    BY <1>1, <1>4
  <2>2. r[P + 1] = b[1] /\ r[P + 5] = b[5] /\ r[P + 6] = b[6]
    BY <1>1
  <2>3. QED
    BY <1>2, <2>1, <2>2
<1>6. \A k \in s .. s + 5 : r[k] \notin UserLine /\ (k # s => r[k] # Begin)
  <2>1. ASSUME NEW k \in s .. s + 5
        PROVE  r[k] \notin UserLine /\ (k # s => r[k] # Begin)
    <3> DEFINE j == k - P
    <3>1. j \in 1 .. 6 /\ k = P + j /\ (k # s => j # 1)
      BY <1>1, <1>4
    <3> HIDE DEF j
    <3>2. r[k] = b[j]
      BY <1>1, <3>1
    <3>3. j = 1 \/ j = 2 \/ j = 3 \/ j = 4 \/ j = 5 \/ j = 6
      BY <3>1
    <3>4. b[j] \in {Begin, Nl, Apex, End} /\ (j # 1 => b[j] \in {Nl, Apex, End})
      BY <1>2, <3>3
    <3>5. QED
      BY <3>1, <3>2, <3>4, Marks
  <2>2. QED
    BY <2>1
<1>7. \A k \in 1 .. Len(r) : k < s => r[k] # Begin
  <2>1. \A k \in 1 .. Len(r) : k < s => k \in 1 .. P
    BY <1>1, <1>4
  <2>2. QED
    BY <1>1, <2>1 DEF NoBegin, P
<1>8. ASSUME NEW k \in s + 6 .. Len(r)
      PROVE  k - (s + 5) \in 1 .. Q /\ r[k] = q[k - (s + 5)]
  <2>1. k - (s + 5) \in 1 .. Q /\ k = P + 6 + (k - (s + 5))
    BY <1>1, <1>4
  <2>2. QED
    BY <1>1, <2>1
<1>9. \A k \in 1 .. Len(r) : r[k] = Begin => k = s
  <2>1. ASSUME NEW k \in 1 .. Len(r), k # s
        PROVE  r[k] # Begin
    <3>1. CASE k < s
      BY <1>7, <3>1
    <3>2. CASE k \in s .. s + 5
      BY <1>6, <2>1, <3>2
    <3>3. CASE k \in s + 6 .. Len(r)
      BY <1>8, <3>3 DEF NoBegin, Q
    <3>4. QED
      BY <1>4, <3>1, <3>2, <3>3
  <2>2. QED
    BY <2>1
<1>10. s \in 1 .. Len(r) /\ s + 5 \in 1 .. Len(r)
  BY <1>1, <1>4
<1>11. ASSUME NEW e \in s .. Len(r), r[e] = End, NEW k \in s .. e
       PROVE  r[k] \notin UserLine
  <2>1. CASE k \in s .. s + 5
    BY <1>6, <2>1
  <2>2. CASE k \in s + 6 .. Len(r)
    <3>1. e \in s + 6 .. Len(r)
      BY <1>4, <1>11, <2>2
    <3>2. /\ e - (s + 5) \in 1 .. Q /\ q[e - (s + 5)] = End
          /\ k - (s + 5) \in 1 .. Q /\ r[k] = q[k - (s + 5)]
      BY <1>8, <1>11, <2>2, <3>1
    <3>3. k - (s + 5) \in 1 .. e - (s + 5)
      BY <1>4, <1>11, <2>2, <3>2
    <3>4. QED
      BY <3>2, <3>3 DEF Clear, Q
  <2>3. QED
    BY <1>4, <1>11, <2>1, <2>2
<1>12. Whole(r)
  <2>1. ASSUME NEW t \in 1 .. Len(r), r[t] = Begin
        PROVE  /\ \A i \in 1 .. Len(r) : r[i] = Begin => i = t
               /\ \A e \in t .. Len(r) : r[e] = End => \A k \in t .. e : r[k] \notin UserLine
    <3>1. t = s
      BY <1>9, <2>1
    <3>2. QED
      BY <1>9, <1>11, <3>1
  <2>2. QED
    BY <2>1 DEF Whole
<1>13. Least(At(r, 1, Begin)) = s
  <2>1. At(r, 1, Begin) = {s}
    BY <1>5, <1>9, <1>10 DEF At
  <2>2. QED
    BY <2>1 DEF Least
<1>14. BlockEnd(r, s) = s + 5
  <2> DEFINE T == At(r, s, End)
  <2>1. T \subseteq Nat /\ s + 4 \in T
    BY <1>1, <1>4, <1>5, <1>10 DEF At
  <2>2. \A e \in T : e >= s + 4
    <3>1. ASSUME NEW e \in s .. Len(r), r[e] = End, e < s + 4
          PROVE  FALSE
      <4>1. e = P + 1 \/ e = P + 2 \/ e = P + 3 \/ e = P + 4
        BY <1>1, <1>4, <3>1
      <4>2. r[P + 1] = b[1] /\ r[P + 2] = b[2] /\ r[P + 3] = b[3] /\ r[P + 4] = b[4]
        BY <1>1
      <4>3. QED
        BY <1>2, <3>1, <4>1, <4>2, Marks
    <3>2. QED
      BY <1>4, <3>1 DEF At
  <2> HIDE DEF T
  <2> DEFINE m == Least(T)
  <2>3. m \in T /\ m <= s + 4
    BY <2>1, LeastIs
  <2> HIDE DEF m
  <2>4. m = s + 4
    <3>1. m \in Nat /\ m >= s + 4
      BY <2>1, <2>2, <2>3
    <3>2. QED
      BY <1>4, <2>3, <3>1
  <2>5. s + 4 < Len(r) /\ (s + 4) + 1 = s + 5
    BY <1>1, <1>4
  <2>6. T # {}
    BY <2>1
  <2>7. QED
    BY <1>5, <2>4, <2>5, <2>6 DEF BlockEnd, T, m
<1>15. p = SubSeq(r, 1, s - 1) /\ q = SubSeq(r, s + 6, Len(r)) /\ b = SubSeq(r, s, s + 5)
  <2> DEFINE x == SubSeq(r, 1, s - 1)
             y == SubSeq(r, s + 6, Len(r))
             z == SubSeq(r, s, s + 5)
             R == Len(r)
  <2>1. /\ x \in Seq(Token) /\ Len(x) = P /\ \A i \in 1 .. P : x[i] = r[i]
        /\ y \in Seq(Token) /\ Len(y) = Q /\ \A i \in 1 .. Q : y[i] = r[s + 5 + i]
        /\ z \in Seq(Token) /\ Len(z) = 6 /\ \A i \in 1 .. 6 : z[i] = r[s - 1 + i]
    BY <1>1, <1>4
  <2> HIDE DEF x, y, z
  <2>2. x = p
    <3>1. Len(x) = Len(p) /\ \A i \in 1 .. Len(x) : x[i] = p[i]
      BY <1>1, <2>1 DEF P
    <3>2. QED
      BY <2>1, <3>1, SeqEqual
  <2>3. y = q
    <3>1. ASSUME NEW i \in 1 .. Q
          PROVE  y[i] = q[i]
      <4>1. s + 5 + i = P + 6 + i
        BY <1>1, <1>4
      <4>2. y[i] = r[s + 5 + i]
        BY <2>1
      <4>3. r[P + 6 + i] = q[i]
        BY <1>1
      <4>4. QED
        BY <4>1, <4>2, <4>3
    <3>2. Len(y) = Len(q) /\ \A i \in 1 .. Len(y) : y[i] = q[i]
      BY <2>1, <3>1 DEF Q
    <3>3. QED
      BY <2>1, <3>2, SeqEqual
  <2>4. z = b
    <3>1. ASSUME NEW i \in 1 .. 6
          PROVE  z[i] = b[i]
      <4>1. s - 1 + i = P + i
        BY <1>1, <1>4
      <4>2. z[i] = r[s - 1 + i]
        BY <2>1
      <4>3. r[P + i] = b[i]
        BY <1>1
      <4>4. QED
        BY <4>1, <4>2, <4>3
    <3>2. \A i \in 1 .. 6 : z[i] = b[i]
      BY <3>1
    <3>3. QED
      BY <1>2, <2>1, <3>2, SeqEqual
  <2>5. QED
    BY <2>2, <2>3, <2>4 DEF x, y, z
<1>16. Replaced(r, Block) = r
  <2>1. At(r, 1, Begin) # {}
    BY <1>5, <1>10 DEF At
  <2>2. Block # <<>>
    BY DEF Block
  <2>3. BlockEnd(r, s) + 1 = s + 6
    BY <1>4, <1>14
  <2>4. Replaced(r, Block) = SubSeq(r, 1, s - 1) \o Block \o SubSeq(r, BlockEnd(r, s) + 1, Len(r))
    BY <1>13, <2>1, <2>2 DEF Replaced
  <2>5. QED
    BY <1>15, <2>3, <2>4 DEF r
<1>17. Users(r) = Users(p) \o Users(q)
  <2> DEFINE e == s + 5
  <2>1. e \in s .. Len(r) /\ e + 1 = s + 6
    BY <1>4, <1>10
  <2>2. \A k \in s .. e : r[k] \notin UserLine
    BY <1>6
  <2> HIDE DEF e
  <2>3. Users(r) = Users(SubSeq(r, 1, s - 1)) \o Users(SubSeq(r, e + 1, Len(r)))
    BY <1>1, <1>10, <2>1, <2>2, UsersCut
  <2>4. QED
    BY <1>15, <2>1, <2>3
<1>18. SubSeq(r, s, P + Len(Block)) = Block
  <2>1. P + Len(Block) = s + 5
    BY <1>1, <1>2, <1>4 DEF b
  <2>2. QED
    BY <1>15, <2>1 DEF b
<1>19. QED
  BY <1>1, <1>3, <1>10, <1>12, <1>16, <1>17, <1>18 DEF Good, r, s, P

-----------------------------------------------------------------------------
(* What replaceHostsBlock makes of a good file.                              *)

LEMMA WithNlIs ==
  ASSUME NEW h \in Seq(Token), Separated(h)
  PROVE  /\ WithNl(h) \in Seq(Token) /\ Separated(WithNl(h)) /\ Closed(WithNl(h))
         /\ Users(WithNl(h)) = Users(h)
         /\ NoBegin(h) => NoBegin(WithNl(h))
<1>1. CASE h # <<>> /\ ~Ends(h)
  <2> DEFINE x == Nl
             r == Append(h, x)
             N == Len(h)
  <2>1. WithNl(h) = r
    BY <1>1 DEF WithNl
  <2>2. r \in Seq(Token) /\ Users(r) = Users(h)
    BY UsersNl
  <2>3. x # Begin
    BY Marks
  <2> HIDE DEF x
  <2>4. Len(r) = N + 1 /\ N \in Nat /\ r[N + 1] = x /\ \A i \in 1 .. N : r[i] = h[i]
    OBVIOUS
  <2> HIDE DEF r
  <2>5. ASSUME NEW i \in 1 .. Len(r) - 1
        PROVE  r[i] = Nl \/ r[i + 1] = Nl
    <3>1. CASE i = N
      BY <2>4, <3>1 DEF x
    <3>2. CASE i # N
      <4>1. i \in 1 .. Len(h) - 1 /\ i \in 1 .. N /\ i + 1 \in 1 .. N
        BY <2>4, <3>2
      <4>2. QED
        BY <2>4, <4>1 DEF Separated
    <3>3. QED
      BY <3>1, <3>2
  <2>6. Separated(r)
    BY <2>5 DEF Separated
  <2>7. Closed(r)
    BY <2>4 DEF Closed, x
  <2>8. ASSUME NoBegin(h)
        PROVE  NoBegin(r)
    <3>1. ASSUME NEW i \in 1 .. Len(r)
          PROVE  r[i] # Begin
      <4>1. CASE i = N + 1
        BY <2>3, <2>4, <4>1
      <4>2. CASE i \in 1 .. N
        BY <2>4, <2>8, <4>2 DEF NoBegin
      <4>3. QED
        BY <2>4, <4>1, <4>2
    <3>2. QED
      BY <3>1 DEF NoBegin
  <2>9. QED
    BY <2>1, <2>2, <2>6, <2>7, <2>8
<1>2. CASE ~(h # <<>> /\ ~Ends(h))
  <2>1. WithNl(h) = h
    BY <1>2 DEF WithNl
  <2>2. Closed(h)
    <3>1. h # <<>> => Last(h) = Nl
      BY <1>2 DEF Ends
    <3>2. Len(h) > 0 => h # <<>>
      OBVIOUS
    <3>3. QED
      BY <3>1, <3>2 DEF Closed, Last
  <2>3. QED
    BY <2>1, <2>2
<1>3. QED
  BY <1>1, <1>2

\* What is before the block, and what is after it.
CutBy(h, s, e, p, q) ==
  /\ s \in 1 .. Len(h) /\ h[s] = Begin /\ e = BlockEnd(h, s)
  /\ p = SubSeq(h, 1, s - 1) /\ q = SubSeq(h, e + 1, Len(h))

LEMMA CutAt ==
  ASSUME NEW h, NEW s, NEW e, NEW p, NEW q, Good(h), CutBy(h, s, e, p, q)
  PROVE  /\ Least(At(h, 1, Begin)) = s
         /\ p \in Seq(Token) /\ NoBegin(p) /\ Closed(p) /\ Separated(p)
         /\ q \in Seq(Token) /\ NoBegin(q) /\ Clear(q) /\ Separated(q)
         /\ Users(h) = Users(p) \o Users(q)
<1> USE DEF CutBy
<1> DEFINE N == Len(h)
<1>1. h \in Seq(Token) /\ N \in Nat /\ s \in Nat /\ 1 <= s /\ s <= N /\ Separated(h)
  BY DEF Good
<1>2. /\ \A i \in 1 .. N : h[i] = Begin => i = s
      /\ \A j \in s .. N : h[j] = End => \A k \in s .. j : h[k] \notin UserLine
  BY DEF Good, Whole
<1>3. Least(At(h, 1, Begin)) = s
  <2>1. At(h, 1, Begin) = {s}
    BY <1>2 DEF At
  <2>2. QED
    BY <2>1 DEF Least
<1>4. e \in s .. N /\ \A k \in s .. e : h[k] \notin UserLine
  <2> DEFINE T == At(h, s, End)
  <2>1. CASE T = {}
    <3>1. e = s
      BY <2>1 DEF BlockEnd
    <3>2. QED
      BY <1>1, <3>1, Marks
  <2>2. CASE T # {}
    <3> DEFINE m == Least(T)
    <3>1. T \subseteq Nat
      BY <1>1 DEF At
    <3>2. m \in T
      BY <2>2, <3>1, LeastIs
    <3>3. m \in s .. N /\ h[m] = End
      BY <3>2 DEF At
    <3>4. e = IF m < N /\ h[m + 1] = Nl THEN m + 1 ELSE m
      BY <2>2 DEF BlockEnd
    <3> HIDE DEF m, T
    <3>5. \A k \in s .. m : h[k] \notin UserLine
      BY <1>2, <3>3
    <3>6. CASE m < N /\ h[m + 1] = Nl
      <4>1. e = m + 1
        BY <3>4, <3>6
      <4>2. \A k \in s .. e : k \in s .. m \/ k = m + 1
        BY <1>1, <3>3, <4>1
      <4>3. QED
        BY <1>1, <3>3, <3>5, <3>6, <4>1, <4>2, Marks
    <3>7. CASE ~(m < N /\ h[m + 1] = Nl)
      BY <3>3, <3>4, <3>5, <3>7
    <3>8. QED
      BY <3>6, <3>7
  <2>3. QED
    BY <2>1, <2>2
<1>5. /\ p \in Seq(Token) /\ Len(p) = s - 1 /\ \A i \in 1 .. s - 1 : p[i] = h[i]
      /\ q \in Seq(Token) /\ Len(q) = N - e /\ \A i \in 1 .. N - e : q[i] = h[e + i]
  BY <1>1, <1>4
<1>6. Separated(p) /\ Separated(q)
  <2>1. 1 \in 1 .. Len(h) + 1 /\ s - 1 \in 1 - 1 .. Len(h) /\ e + 1 \in 1 .. Len(h) + 1
        /\ Len(h) \in (e + 1) - 1 .. Len(h)
    BY <1>1, <1>4
  <2> DEFINE one == 1
             a == s - 1
             b == e + 1
             z == Len(h)
  <2>2. /\ one \in 1 .. Len(h) + 1 /\ a \in one - 1 .. Len(h)
        /\ b \in 1 .. Len(h) + 1 /\ z \in b - 1 .. Len(h)
    BY <2>1
  <2>3. p = SubSeq(h, one, a) /\ q = SubSeq(h, b, z)
    OBVIOUS
  <2> HIDE DEF one, a, b, z
  <2>4. Separated(SubSeq(h, one, a))
    BY <1>1, <2>2, SeparatedSub
  <2>5. Separated(SubSeq(h, b, z))
    BY <1>1, <2>2, SeparatedSub
  <2>6. QED
    BY <2>3, <2>4, <2>5
<1>7. NoBegin(p) /\ NoBegin(q)
  <2>1. ASSUME NEW i \in 1 .. s - 1
        PROVE  p[i] # Begin
    <3>1. i \in 1 .. N /\ i # s
      BY <1>1
    <3>2. QED
      BY <1>2, <1>5, <3>1
  <2>2. ASSUME NEW i \in 1 .. N - e
        PROVE  q[i] # Begin
    <3>1. e + i \in 1 .. N /\ e + i # s
      BY <1>1, <1>4
    <3>2. QED
      BY <1>2, <1>5, <3>1
  <2>3. QED
    BY <1>5, <2>1, <2>2 DEF NoBegin
<1>8. Closed(p)
  <2>1. ASSUME s - 1 > 0
        PROVE  h[s - 1] = Nl
    <3>1. s - 1 \in 1 .. Len(h) - 1 /\ (s - 1) + 1 = s
      BY <1>1, <2>1
    <3>2. QED
      BY <1>1, <3>1, Marks DEF Separated
  <2>2. s - 1 > 0 => s - 1 \in 1 .. s - 1
    BY <1>1
  <2>3. QED
    BY <1>5, <2>1, <2>2 DEF Closed
<1>9. Clear(q)
  <2>1. ASSUME NEW j \in 1 .. N - e, q[j] = End, NEW k \in 1 .. j
        PROVE  q[k] \notin UserLine
    <3>1. e + j \in s .. N /\ e + k \in s .. e + j /\ k \in 1 .. N - e
      BY <1>1, <1>4
    <3>2. h[e + j] = End
      BY <1>5, <2>1
    <3>3. h[e + k] \notin UserLine
      BY <1>2, <3>1, <3>2
    <3>4. QED
      BY <1>5, <3>1, <3>3
  <2>2. QED
    BY <1>5, <2>1 DEF Clear
<1>10. Users(h) = Users(p) \o Users(q)
  BY <1>1, <1>4, UsersCut
<1>11. QED
  BY <1>3, <1>5, <1>6, <1>7, <1>8, <1>9, <1>10

LEMMA CollapsedIs ==
  ASSUME NEW p \in Seq(Token), Separated(p), NoBegin(p)
  PROVE  /\ Collapsed(p) \in Seq(Token) /\ Separated(Collapsed(p)) /\ Closed(Collapsed(p))
         /\ NoBegin(Collapsed(p)) /\ Users(Collapsed(p)) = Users(p)
<1>1. CASE ~Ends(p)
  BY <1>1, WithNlIs DEF Collapsed
<1>2. CASE Ends(p)
  <2> DEFINE f == Front(p)
             N == Len(p)
  <2>1. N \in Nat /\ N > 0 /\ p[N] = Nl
    BY <1>2 DEF Ends, Last
  <2>2. f \in Seq(Token) /\ Len(f) = N - 1 /\ \A i \in 1 .. N - 1 : f[i] = p[i]
    <3> DEFINE n == N - 1
    <3>1. n \in 0 .. Len(p)
      BY <2>1
    <3> HIDE DEF n
    <3>2. /\ SubSeq(p, 1, n) \in Seq(Token) /\ Len(SubSeq(p, 1, n)) = n
          /\ \A i \in 1 .. n : SubSeq(p, 1, n)[i] = p[i]
      BY <3>1
    <3>3. QED
      BY <3>2 DEF Front, n
  <2>3. Collapsed(p) = WithNl(f)
    BY <1>2 DEF Collapsed
  <2> HIDE DEF f
  <2>4. Append(f, Nl) \in Seq(Token) /\ Users(Append(f, Nl)) = Users(f)
    BY <2>2, UsersNl
  <2>5. p = Append(f, Nl)
    <3> DEFINE x == Nl
               r == Append(f, x)
    <3>1. Len(r) = N /\ r[N] = x /\ \A i \in 1 .. N - 1 : r[i] = f[i]
      <4> HIDE DEF x
      <4>1. Len(r) = Len(f) + 1 /\ r[Len(f) + 1] = x /\ \A i \in 1 .. Len(f) : r[i] = f[i]
        BY <2>2
      <4> HIDE DEF r
      <4>2. Len(f) = N - 1 /\ Len(f) + 1 = N
        BY <2>1, <2>2
      <4>3. QED
        BY <4>1, <4>2
    <3>2. r \in Seq(Token)
      BY <2>4
    <3> HIDE DEF r
    <3>3. \A i \in 1 .. Len(p) : p[i] = r[i]
      <4>1. \A i \in 1 .. N : i = N \/ i \in 1 .. N - 1
        BY <2>1
      <4>2. QED
        BY <2>1, <2>2, <3>1, <4>1
    <3>4. p = r
      BY <3>1, <3>2, <3>3, SeqEqual
    <3>5. QED
      BY <3>4 DEF r
  <2>6. Separated(f)
    <3>1. ASSUME NEW i \in 1 .. Len(f) - 1
          PROVE  f[i] = Nl \/ f[i + 1] = Nl
      <4>1. i \in 1 .. Len(p) - 1 /\ i \in 1 .. N - 1 /\ i + 1 \in 1 .. N - 1
        BY <2>1, <2>2
      <4>2. QED
        BY <2>2, <4>1 DEF Separated
    <3>2. QED
      BY <3>1 DEF Separated
  <2>7. NoBegin(f)
    <3>1. \A i \in 1 .. Len(f) : i \in 1 .. Len(p) /\ i \in 1 .. N - 1
      BY <2>1, <2>2
    <3>2. QED
      BY <2>2, <3>1 DEF NoBegin
  <2>8. QED
    BY <2>2, <2>3, <2>4, <2>5, <2>6, <2>7, WithNlIs
<1>3. QED
  BY <1>1, <1>2

\* An install's text has the block once, and nothing else is changed.
LEMMA ReplacedBlock ==
  ASSUME NEW h, Good(h)
  PROVE  /\ Good(Replaced(h, Block)) /\ Users(Replaced(h, Block)) = Users(h)
         /\ Replaced(Replaced(h, Block), Block) = Replaced(h, Block)
         /\ \E i \in 1 .. Len(Replaced(h, Block)) :
              SubSeq(Replaced(h, Block), i, i + Len(Block) - 1) = Block
<1>1. h \in Seq(Token) /\ Separated(h) /\ Block # <<>>
  BY DEF Good, Block
<1>2. \E p \in Seq(Token), q \in Seq(Token) :
        /\ NoBegin(p) /\ NoBegin(q) /\ Clear(q) /\ Closed(p) /\ Separated(p) /\ Separated(q)
        /\ Replaced(h, Block) = p \o Block \o q /\ Users(h) = Users(p) \o Users(q)
  <2>1. CASE At(h, 1, Begin) = {}
    <3> DEFINE x == Nl
               w == WithNl(h)
               p == Append(w, x)
               e == <<>>
    <3>1. NoBegin(h)
      BY <2>1 DEF NoBegin, At
    <3>2. w \in Seq(Token) /\ Separated(w) /\ Closed(w) /\ Users(w) = Users(h) /\ NoBegin(w)
      BY <1>1, <3>1, WithNlIs
    <3>3. p \in Seq(Token) /\ Users(p) = Users(w)
      <4> HIDE DEF w
      <4>1. QED
        BY <3>2, UsersNl
    <3>4. e \in Seq(Token) /\ Len(e) = 0
      OBVIOUS
    <3>5. x # Begin /\ x = Nl
      BY Marks
    <3> HIDE DEF w
    <3>6. w \o <<x>> = p
      BY <3>2
    <3> HIDE DEF x
    <3>7. /\ Len(p) = Len(w) + 1 /\ Len(w) \in Nat /\ p[Len(w) + 1] = x
          /\ \A i \in 1 .. Len(w) : p[i] = w[i]
      BY <3>2
    <3>8. Replaced(h, Block) = p \o Block
      BY <1>1, <2>1, <3>6 DEF Replaced, w, x
    <3> HIDE DEF p, e
    <3>9. p \o Block \o e = p \o Block
      <4> DEFINE r == p \o Block
      <4>1. r \in Seq(Token)
        BY <3>3, Around
      <4> HIDE DEF r
      <4>2. r \o <<>> = r
        BY <4>1
      <4>3. QED
        BY <4>2 DEF r, e
    <3>10. Users(e) = <<>>
      <4>1. \A i \in 1 .. Len(e) : e[i] \notin UserLine
        BY <3>4
      <4>2. QED
        BY <3>4, <4>1, UsersNone
    <3>11. Users(h) = Users(p) \o Users(e)
      <4> DEFINE u == Users(h)
      <4>1. u \in Seq(UserLine)
        BY <1>1, UsersType
      <4>2. u = Users(p)
        BY <3>2, <3>3
      <4> HIDE DEF u
      <4>3. u \o <<>> = u
        BY <4>1
      <4>4. QED
        BY <3>10, <4>2, <4>3 DEF u
    <3>12. NoBegin(e) /\ Clear(e) /\ Separated(e)
      BY <3>4 DEF NoBegin, Clear, Separated
    <3>13. NoBegin(p)
      <4>1. \A i \in 1 .. Len(p) : i = Len(w) + 1 \/ i \in 1 .. Len(w)
        BY <3>7
      <4>2. QED
        BY <3>2, <3>5, <3>7, <4>1 DEF NoBegin
    <3>14. Closed(p)
      BY <3>5, <3>7 DEF Closed
    <3>15. Separated(p)
      <4>1. ASSUME NEW i \in 1 .. Len(p) - 1
            PROVE  p[i] = Nl \/ p[i + 1] = Nl
        <5>1. CASE i = Len(w)
          BY <3>5, <3>7, <5>1
        <5>2. CASE i # Len(w)
          <6>1. i \in 1 .. Len(w) - 1 /\ i \in 1 .. Len(w) /\ i + 1 \in 1 .. Len(w)
            BY <3>7, <5>2
          <6>2. QED
            BY <3>2, <3>7, <6>1 DEF Separated
        <5>3. QED
          BY <5>1, <5>2
      <4>2. QED
        BY <4>1 DEF Separated
    <3>16. QED
      BY <3>3, <3>4, <3>8, <3>9, <3>11, <3>12, <3>13, <3>14, <3>15
  <2>2. CASE At(h, 1, Begin) # {}
    <3>1. PICK s \in 1 .. Len(h) : h[s] = Begin
      BY <2>2 DEF At
    <3> DEFINE e == BlockEnd(h, s)
               p == SubSeq(h, 1, s - 1)
               q == SubSeq(h, e + 1, Len(h))
    <3>2. /\ Least(At(h, 1, Begin)) = s
          /\ p \in Seq(Token) /\ NoBegin(p) /\ Closed(p) /\ Separated(p)
          /\ q \in Seq(Token) /\ NoBegin(q) /\ Clear(q) /\ Separated(q)
          /\ Users(h) = Users(p) \o Users(q)
      <4>1. CutBy(h, s, e, p, q)
        BY <3>1 DEF CutBy
      <4> HIDE DEF e, p, q
      <4>2. QED
        BY <4>1, CutAt
    <3>3. Replaced(h, Block) = p \o Block \o q
      BY <1>1, <2>2, <3>2 DEF Replaced
    <3> HIDE DEF p, q
    <3>4. QED
      BY <3>2, <3>3
  <2>3. QED
    BY <2>1, <2>2
<1>3. PICK p \in Seq(Token), q \in Seq(Token) :
        /\ NoBegin(p) /\ NoBegin(q) /\ Clear(q) /\ Closed(p) /\ Separated(p) /\ Separated(q)
        /\ Replaced(h, Block) = p \o Block \o q /\ Users(h) = Users(p) \o Users(q)
  BY <1>2
<1> DEFINE r == p \o Block \o q
           i == Len(p) + 1
<1>4. /\ Good(r) /\ Users(r) = Users(p) \o Users(q) /\ Replaced(r, Block) = r
      /\ i \in 1 .. Len(r) /\ SubSeq(r, i, Len(p) + Len(Block)) = Block
  BY <1>3, Placed
<1>5. i + Len(Block) - 1 = Len(p) + Len(Block)
  <2>1. Len(p) \in Nat /\ Len(Block) \in Nat
    BY BlockIs
  <2>2. QED
    BY <2>1
<1> HIDE DEF r, i
<1>6. Replaced(h, Block) = r
  BY <1>3 DEF r
<1>7. QED
  BY <1>3, <1>4, <1>5, <1>6

\* A removal's text has no block, and nothing else is changed.
LEMMA ReplacedNothing ==
  ASSUME NEW h, Good(h)
  PROVE  /\ Good(Replaced(h, <<>>)) /\ Users(Replaced(h, <<>>)) = Users(h)
         /\ NoBegin(Replaced(h, <<>>))
<1>1. h \in Seq(Token) /\ Separated(h)
  BY DEF Good
<1>2. CASE At(h, 1, Begin) = {}
  <2>1. Replaced(h, <<>>) = h
    BY <1>2 DEF Replaced
  <2>2. NoBegin(h)
    BY <1>2 DEF NoBegin, At
  <2>3. QED
    BY <2>1, <2>2
<1>3. CASE At(h, 1, Begin) # {}
  <2>1. PICK s \in 1 .. Len(h) : h[s] = Begin
    BY <1>3 DEF At
  <2> DEFINE e == BlockEnd(h, s)
             p == SubSeq(h, 1, s - 1)
             q == SubSeq(h, e + 1, Len(h))
             c == Collapsed(p)
             r == c \o q
  <2>2. /\ Least(At(h, 1, Begin)) = s
        /\ p \in Seq(Token) /\ NoBegin(p) /\ Closed(p) /\ Separated(p)
        /\ q \in Seq(Token) /\ NoBegin(q) /\ Clear(q) /\ Separated(q)
        /\ Users(h) = Users(p) \o Users(q)
    <3>1. CutBy(h, s, e, p, q)
      BY <2>1 DEF CutBy
    <3> HIDE DEF e, p, q
    <3>2. QED
      BY <3>1, CutAt
  <2>3. Replaced(h, <<>>) = r
    BY <1>3, <2>2 DEF Replaced
  <2> HIDE DEF p, q
  <2>4. c \in Seq(Token) /\ Separated(c) /\ Closed(c) /\ NoBegin(c) /\ Users(c) = Users(p)
    BY <2>2, CollapsedIs
  <2> HIDE DEF c
  <2>5. r \in Seq(Token) /\ Separated(r) /\ Users(r) = Users(h)
    BY <2>2, <2>4, Cat, SeparatedCat, UsersConcat
  <2>6. NoBegin(r)
    <3>1. /\ Len(r) = Len(c) + Len(q) /\ Len(c) \in Nat /\ Len(q) \in Nat
          /\ \A i \in 1 .. Len(c) : r[i] = c[i]
          /\ \A i \in Len(c) + 1 .. Len(c) + Len(q) : r[i] = q[i - Len(c)]
      BY <2>2, <2>4, Cat
    <3> HIDE DEF r
    <3>2. ASSUME NEW i \in 1 .. Len(r)
          PROVE  r[i] # Begin
      <4>1. CASE i \in 1 .. Len(c)
        BY <2>4, <3>1, <4>1 DEF NoBegin
      <4>2. CASE i \notin 1 .. Len(c)
        <5>1. i \in Len(c) + 1 .. Len(c) + Len(q) /\ i - Len(c) \in 1 .. Len(q)
          BY <3>1, <4>2
        <5>2. QED
          BY <2>2, <3>1, <5>1 DEF NoBegin
      <4>3. QED
        BY <4>1, <4>2
    <3>3. QED
      BY <3>2 DEF NoBegin
  <2> HIDE DEF r
  <2>7. Whole(r)
    BY <2>6 DEF NoBegin, Whole
  <2>8. QED
    BY <2>3, <2>5, <2>6, <2>7 DEF Good
<1>4. QED
  BY <1>2, <1>3

-----------------------------------------------------------------------------
(* What users and other tools do to a good file.                             *)

\* r has, from lo to hi, parts of h in their order, and no marker elsewhere.
Kept(h, r, lo, hi, m) ==
  /\ h \in Seq(Token) /\ r \in Seq(Token) /\ lo \in Nat /\ hi \in Int
  /\ \A i \in lo .. hi : m[i] \in 1 .. Len(h) /\ i \in 1 .. Len(r) /\ r[i] = h[m[i]]
  /\ \A i \in lo .. hi : \A j \in lo .. hi : i < j => m[i] < m[j]
  /\ \A i \in 1 .. Len(r) : r[i] \in {Begin, End} => i \in lo .. hi

LEMMA WholeKept ==
  ASSUME NEW h, NEW r, NEW lo, NEW hi, NEW m, Kept(h, r, lo, hi, m), Whole(h)
  PROVE  Whole(r)
<1> USE DEF Kept
<1>1. ASSUME NEW s \in 1 .. Len(r), r[s] = Begin
      PROVE  /\ \A i \in 1 .. Len(r) : r[i] = Begin => i = s
             /\ \A e \in s .. Len(r) : r[e] = End => \A k \in s .. e : r[k] \notin UserLine
  <2>1. s \in lo .. hi /\ m[s] \in 1 .. Len(h) /\ h[m[s]] = Begin
    BY <1>1
  <2>2. ASSUME NEW i \in 1 .. Len(r), r[i] = Begin
        PROVE  i = s
    <3>1. i \in lo .. hi /\ m[i] \in 1 .. Len(h) /\ h[m[i]] = Begin
      BY <2>2
    <3>2. m[i] = m[s]
      BY <2>1, <3>1 DEF Whole
    <3>3. ~(i < s) /\ ~(s < i)
      BY <2>1, <3>1, <3>2
    <3>4. QED
      BY <2>1, <3>1, <3>3
  <2>3. ASSUME NEW e \in s .. Len(r), r[e] = End, NEW k \in s .. e
        PROVE  r[k] \notin UserLine
    <3>1. e \in lo .. hi /\ m[e] \in 1 .. Len(h) /\ h[m[e]] = End
      BY <2>1, <2>3
    <3>2. k \in lo .. hi
      BY <2>1, <2>3, <3>1
    <3>3. m[k] \in 1 .. Len(h) /\ r[k] = h[m[k]]
      BY <3>2
    <3>4. m[s] <= m[k] /\ m[k] <= m[e]
      BY <2>1, <2>3, <3>1, <3>2, <3>3
    <3>5. m[e] \in m[s] .. Len(h) /\ m[k] \in m[s] .. m[e]
      BY <2>1, <3>1, <3>3, <3>4
    <3>6. h[m[k]] \notin UserLine
      BY <2>1, <3>1, <3>5 DEF Whole
    <3>7. QED
      BY <3>3, <3>6
  <2>4. QED
    BY <2>2, <2>3
<1>2. QED
  BY <1>1 DEF Whole

LEMMA LineInFront ==
  ASSUME NEW h, Good(h), NEW t \in UserLine
  PROVE  Good(<<t, Nl>> \o h)
<1> DEFINE x == Nl
           b == <<t, x>>
           r == b \o h
           N == Len(h)
<1>1. t \in Token /\ x \in Token /\ x = Nl /\ t \notin {Begin, End} /\ x \notin {Begin, End}
  BY Marks
<1>2. h \in Seq(Token) /\ Separated(h) /\ Whole(h) /\ N \in Nat
  BY DEF Good
<1> HIDE DEF x
<1>3. b \in Seq(Token) /\ Len(b) = 2 /\ b[1] = t /\ b[2] = x
  BY <1>1
<1> HIDE DEF b
<1>4. Separated(b) /\ Closed(b)
  BY <1>1, <1>3 DEF Separated, Closed
<1>5. r \in Seq(Token) /\ Separated(r)
  BY <1>2, <1>3, <1>4, Cat, SeparatedCat
<1>6. /\ Len(r) = Len(b) + Len(h) /\ \A i \in 1 .. Len(b) : r[i] = b[i]
      /\ \A i \in Len(b) + 1 .. Len(b) + Len(h) : r[i] = h[i - Len(b)]
  BY <1>2, <1>3, Cat
<1> HIDE DEF r
<1> DEFINE lo == 3
           m == [i \in lo .. N + 2 |-> i - 2]
           hi == N + 2
<1>7. Kept(h, r, lo, hi, m)
  <2>1. \A i \in lo .. hi : m[i] = i - 2 /\ i - 2 \in 1 .. Len(h) /\ i \in 1 .. Len(r) /\ r[i] = h[i - 2]
    BY <1>2, <1>3, <1>6
  <2>2. \A i \in 1 .. Len(r) : i = 1 \/ i = 2 \/ i \in lo .. hi
    BY <1>2, <1>3, <1>6
  <2>3. r[1] = t /\ r[2] = x
    BY <1>3, <1>6
  <2>4. lo \in Nat /\ hi \in Int
    BY <1>2
  <2> HIDE DEF m, lo, hi
  <2>5. \A i \in lo .. hi : \A j \in lo .. hi : i < j => m[i] < m[j]
    BY <2>1, <2>4
  <2>6. \A i \in 1 .. Len(r) : r[i] \in {Begin, End} => i \in lo .. hi
    BY <1>1, <2>2, <2>3
  <2>7. QED
    BY <1>2, <1>5, <2>1, <2>4, <2>5, <2>6 DEF Kept
<1> HIDE DEF m, lo, hi
<1>8. Whole(r)
  BY <1>2, <1>7, WholeKept
<1>9. QED
  BY <1>5, <1>8 DEF Good, r, b, x

LEMMA WithNlPrefix ==
  ASSUME NEW h \in Seq(Token)
  PROVE  /\ WithNl(h) \in Seq(Token) /\ Len(WithNl(h)) >= Len(h) /\ Len(WithNl(h)) \in Nat
         /\ \A i \in 1 .. Len(h) : WithNl(h)[i] = h[i]
         /\ \A i \in Len(h) + 1 .. Len(WithNl(h)) : WithNl(h)[i] = Nl
<1>1. CASE WithNl(h) = h
  BY <1>1
<1>2. CASE WithNl(h) # h
  <2> DEFINE x == Nl
             r == Append(h, x)
  <2>1. WithNl(h) = r
    BY <1>2 DEF WithNl
  <2>2. x \in Token
    BY Marks
  <2> HIDE DEF x
  <2>3. /\ r \in Seq(Token) /\ Len(r) = Len(h) + 1 /\ Len(h) \in Nat /\ r[Len(h) + 1] = x
        /\ \A i \in 1 .. Len(h) : r[i] = h[i]
    BY <2>2
  <2> HIDE DEF r
  <2>4. Len(r) >= Len(h) /\ Len(r) \in Nat /\ \A i \in Len(h) + 1 .. Len(r) : i = Len(h) + 1
    BY <2>3
  <2>5. \A i \in Len(h) + 1 .. Len(r) : r[i] = x
    BY <2>3, <2>4
  <2>6. QED
    BY <2>1, <2>3, <2>4, <2>5 DEF x
<1>3. QED
  BY <1>1, <1>2

LEMMA LineAtEnd ==
  ASSUME NEW h, Good(h), NEW t \in UserLine, NEW nl \in {<<>>, <<Nl>>}
  PROVE  Good(WithNl(h) \o <<t>> \o nl)
<1> DEFINE x == Nl
           w == WithNl(h)
           b == <<t>>
           v == w \o b
           r == v \o nl
           N == Len(h)
<1>1. t \in Token /\ x \in Token /\ x = Nl /\ t \notin {Begin, End} /\ x \notin {Begin, End}
  BY Marks
<1>2. h \in Seq(Token) /\ Separated(h) /\ Whole(h) /\ N \in Nat
  BY DEF Good
<1>3. nl \in {<<>>, <<x>>}
  OBVIOUS
<1> HIDE DEF x
<1>4. b \in Seq(Token) /\ Len(b) = 1 /\ b[1] = t
  BY <1>1
<1>5. nl \in Seq(Token) /\ Len(nl) \in {0, 1} /\ (Len(nl) > 0 => nl[1] = x)
  <2>1. CASE nl = <<>>
    BY <2>1
  <2>2. CASE nl = <<x>>
    BY <1>1, <2>2
  <2>3. QED
    BY <1>3, <2>1, <2>2
<1>6. w \in Seq(Token) /\ Separated(w) /\ Closed(w)
  BY <1>2, WithNlIs
<1>7. /\ Len(w) >= N /\ Len(w) \in Nat /\ \A i \in 1 .. N : w[i] = h[i]
      /\ \A i \in N + 1 .. Len(w) : w[i] = Nl
  BY <1>2, WithNlPrefix
<1> HIDE DEF b, w
<1>8. Separated(b) /\ Separated(nl)
  BY <1>4, <1>5 DEF Separated
<1>9. v \in Seq(Token) /\ Separated(v)
  BY <1>4, <1>6, <1>8, Cat, SeparatedCat
<1>10. /\ Len(v) = Len(w) + Len(b) /\ \A i \in 1 .. Len(w) : v[i] = w[i]
       /\ \A i \in Len(w) + 1 .. Len(w) + Len(b) : v[i] = b[i - Len(w)]
  BY <1>4, <1>6, Cat
<1> HIDE DEF v
<1>11. r \in Seq(Token) /\ Separated(r)
  BY <1>1, <1>5, <1>8, <1>9, Cat, SeparatedCat
<1>12. /\ Len(r) = Len(v) + Len(nl) /\ \A i \in 1 .. Len(v) : r[i] = v[i]
       /\ \A i \in Len(v) + 1 .. Len(v) + Len(nl) : r[i] = nl[i - Len(v)]
  BY <1>5, <1>9, Cat
<1> HIDE DEF r
<1>13. ASSUME NEW i \in 1 .. N
       PROVE  i \in 1 .. Len(r) /\ r[i] = h[i]
  <2>1. i \in 1 .. Len(w) /\ i \in 1 .. Len(v) /\ i \in 1 .. Len(r)
    BY <1>2, <1>4, <1>5, <1>7, <1>10, <1>12
  <2>2. QED
    BY <1>7, <1>10, <1>12, <2>1
<1>14. ASSUME NEW i \in N + 1 .. Len(r)
       PROVE  r[i] \notin {Begin, End}
  <2>1. CASE i \in N + 1 .. Len(w)
    <3>1. i \in 1 .. Len(w) /\ i \in 1 .. Len(v)
      BY <1>2, <1>4, <1>7, <1>10, <2>1
    <3>2. r[i] = Nl
      BY <1>7, <1>10, <1>12, <2>1, <3>1
    <3>3. QED
      BY <1>1, <3>2
  <2>2. CASE i = Len(w) + 1
    <3>1. i \in Len(w) + 1 .. Len(w) + Len(b) /\ i - Len(w) = 1 /\ i \in 1 .. Len(v)
      BY <1>4, <1>7, <1>10, <2>2
    <3>2. r[i] = b[1]
      BY <1>10, <1>12, <3>1
    <3>3. QED
      BY <1>1, <1>4, <3>2
  <2>3. CASE i = Len(w) + 2
    <3>1. i \in Len(v) + 1 .. Len(v) + Len(nl) /\ i - Len(v) = 1 /\ Len(nl) > 0
      BY <1>4, <1>5, <1>7, <1>10, <1>12, <2>3
    <3>2. r[i] = nl[1]
      BY <1>12, <3>1
    <3>3. QED
      BY <1>1, <1>5, <3>1, <3>2
  <2>4. Len(r) <= Len(w) + 2
    BY <1>4, <1>5, <1>7, <1>10, <1>12
  <2>5. QED
    BY <1>2, <1>7, <2>1, <2>2, <2>3, <2>4
<1> DEFINE lo == 1
           m == [i \in 1 .. N |-> i]
<1>15. Kept(h, r, lo, N, m)
  <2>1. \A i \in lo .. N : m[i] = i
    OBVIOUS
  <2>2. lo \in Nat /\ lo = 1
    OBVIOUS
  <2> HIDE DEF m, lo
  <2>3. \A i \in lo .. N : m[i] \in 1 .. Len(h) /\ i \in 1 .. Len(r) /\ r[i] = h[m[i]]
    BY <1>13, <2>1, <2>2
  <2>4. \A i \in lo .. N : \A j \in lo .. N : i < j => m[i] < m[j]
    BY <2>1
  <2>5. \A i \in 1 .. Len(r) : i \in lo .. N \/ i \in N + 1 .. Len(r)
    BY <1>2, <2>2
  <2>6. \A i \in 1 .. Len(r) : r[i] \in {Begin, End} => i \in lo .. N
    BY <1>14, <2>5
  <2>7. QED
    BY <1>2, <1>11, <2>2, <2>3, <2>4, <2>6 DEF Kept
<1> HIDE DEF m, lo, N
<1>16. Whole(r)
  BY <1>2, <1>15, WholeKept
<1>17. QED
  BY <1>11, <1>16 DEF Good, r, v, b, w

LEMMA MarkerGone ==
  ASSUME NEW h, Good(h), NEW i \in 1 .. Len(h), h[i] \in {Begin, End}
  PROVE  Good(RemoveAt(h, i))
<1> DEFINE N == Len(h)
           p == SubSeq(h, 1, i - 1)
           q == SubSeq(h, i + 1, N)
           r == p \o q
<1>1. h \in Seq(Token) /\ Separated(h) /\ Whole(h) /\ N \in Nat /\ i \in Nat /\ 1 <= i /\ i <= N
  BY DEF Good
<1>2. RemoveAt(h, i) = r
  BY DEF RemoveAt
<1>3. /\ p \in Seq(Token) /\ Len(p) = i - 1 /\ \A k \in 1 .. i - 1 : p[k] = h[k]
      /\ q \in Seq(Token) /\ Len(q) = N - i /\ \A k \in 1 .. N - i : q[k] = h[i + k]
  BY <1>1
<1>4. Separated(p) /\ Separated(q)
  <2> DEFINE one == 1
             a == i - 1
             b == i + 1
  <2>1. /\ one \in 1 .. Len(h) + 1 /\ a \in one - 1 .. Len(h)
        /\ b \in 1 .. Len(h) + 1 /\ N \in b - 1 .. Len(h)
    BY <1>1
  <2>2. p = SubSeq(h, one, a) /\ q = SubSeq(h, b, N)
    OBVIOUS
  <2> HIDE DEF one, a, b, N, p, q
  <2>3. Separated(SubSeq(h, one, a))
    BY <1>1, <2>1, SeparatedSub
  <2>4. Separated(SubSeq(h, b, N))
    BY <1>1, <2>1, SeparatedSub
  <2>5. QED
    BY <2>2, <2>3, <2>4
<1> HIDE DEF p, q
<1>5. Closed(p)
  <2>1. ASSUME i - 1 > 0
        PROVE  h[i - 1] = Nl
    <3>1. i - 1 \in 1 .. Len(h) - 1 /\ (i - 1) + 1 = i
      BY <1>1, <2>1
    <3>2. QED
      BY <1>1, <3>1, Marks DEF Separated
  <2>2. i - 1 > 0 => i - 1 \in 1 .. i - 1
    BY <1>1
  <2>3. QED
    BY <1>3, <2>1, <2>2 DEF Closed
<1>6. r \in Seq(Token) /\ Separated(r)
  BY <1>3, <1>4, <1>5, Cat, SeparatedCat
<1>7. /\ Len(r) = Len(p) + Len(q) /\ \A k \in 1 .. Len(p) : r[k] = p[k]
      /\ \A k \in Len(p) + 1 .. Len(p) + Len(q) : r[k] = q[k - Len(p)]
  BY <1>3, Cat
<1> HIDE DEF r
<1> DEFINE lo == 1
           hi == N - 1
           m == [k \in 1 .. N - 1 |-> IF k < i THEN k ELSE k + 1]
<1>8. Kept(h, r, lo, hi, m)
  <2>1. \A k \in lo .. hi : m[k] = IF k < i THEN k ELSE k + 1
    OBVIOUS
  <2>2. lo = 1 /\ hi = N - 1 /\ lo \in Nat /\ hi \in Int
    BY <1>1
  <2> HIDE DEF m, lo, hi
  <2>3. Len(r) = N - 1
    BY <1>1, <1>3, <1>7
  <2>4. ASSUME NEW k \in lo .. hi
        PROVE  m[k] \in 1 .. Len(h) /\ k \in 1 .. Len(r) /\ r[k] = h[m[k]]
    <3>1. m[k] \in 1 .. Len(h) /\ k \in 1 .. Len(r)
      BY <1>1, <2>1, <2>2, <2>3
    <3>2. CASE k < i
      <4>1. k \in 1 .. i - 1
        BY <1>1, <2>2, <3>2
      <4>2. m[k] = k
        BY <2>1, <3>2
      <4>3. r[k] = p[k] /\ p[k] = h[k]
        BY <1>3, <1>7, <4>1
      <4>4. QED
        BY <3>1, <4>2, <4>3
    <3>3. CASE ~(k < i)
      <4>1. k \in Len(p) + 1 .. Len(p) + Len(q) /\ k - Len(p) \in 1 .. N - i /\ i + (k - Len(p)) = k + 1
        BY <1>1, <1>3, <2>2, <3>3
      <4>2. r[k] = h[k + 1]
        BY <1>3, <1>7, <4>1
      <4>3. QED
        BY <2>1, <3>1, <3>3, <4>2
    <3>4. QED
      BY <3>1, <3>2, <3>3
  <2>5. \A k \in lo .. hi : \A j \in lo .. hi : k < j => m[k] < m[j]
    BY <1>1, <2>1, <2>2
  <2>6. \A k \in 1 .. Len(r) : k \in lo .. hi
    BY <2>2, <2>3
  <2>7. QED
    BY <1>1, <1>6, <2>2, <2>4, <2>5, <2>6 DEF Kept
<1> HIDE DEF m, lo, hi
<1>9. Whole(r)
  BY <1>1, <1>8, WholeKept
<1>10. QED
  BY <1>2, <1>6, <1>9 DEF Good

-----------------------------------------------------------------------------
(* The inductive invariant.                                                  *)

Files == {"sysctl", "zone", "route", "drop", "netd", "old netd", "copy", "old copy",
          "routes", "authority"}
StepType ==
  [add : SUBSET Files, del : SUBSET Files, start : SUBSET {"link", "netd"},
   stop : SUBSET {"link", "netd"}, optional : BOOLEAN, hosts : BOOLEAN]

\* A step the script does not go on without does what is asked of it.
Must(steps, i) == ~steps[i].optional

Adds(steps, f) == \E i \in 1 .. Len(steps) : Must(steps, i) /\ f \in steps[i].add
Deletes(steps, f) == \E i \in 1 .. Len(steps) : Must(steps, i) /\ f \in steps[i].del
Writes(steps) == \E i \in 1 .. Len(steps) : Must(steps, i) /\ steps[i].hosts
Keeps(steps, f) == \A i \in 1 .. Len(steps) : f \notin steps[i].del
Avoids(steps, f) == \A i \in 1 .. Len(steps) : f \notin steps[i].add

\* File f is there once the steps have run through, or is not.
Comes(steps, f) == (f \in have \/ Adds(steps, f)) /\ Keeps(steps, f)
Goes(steps, f) == (f \notin have \/ Deletes(steps, f)) /\ Avoids(steps, f)

\* The last step starts the daemon, or has.
StartsNetd(s) == "netd" \in s.start /\ s.add = {} /\ s.del = {} /\ ~s.optional
Started(steps) ==
  IF Len(steps) = 0 THEN HasProgram => "netd" \in up ELSE StartsNetd(steps[Len(steps)])

HasBlock(h) ==
  /\ Replaced(h, Block) = h
  /\ \E i \in 1 .. Len(h) : SubSeq(h, i, i + Len(Block) - 1) = Block

Script(what, steps, text, seen, fresh) ==
  [what |-> what, steps |-> steps, text |-> text, users |-> seen, fresh |-> fresh]

TypeOK ==
  /\ have \subseteq Files /\ excused \in BOOLEAN
  /\ last \in {"nothing", "install", "uninstall"}
  /\ script = Script(script.what, script.steps, script.text, script.users, script.fresh)
  /\ script.what \in {"nothing", "install", "uninstall"}
  /\ script.steps \in Seq(StepType) /\ script.fresh \in BOOLEAN
  /\ script.what = "nothing" => script.steps = <<>>
  /\ script.what = "nothing" <=> script = None
  /\ last # "nothing" => script = None

\* The hosts file, while printf has written what it was given.
FileOK == ~excused => Good(hosts) /\ Users(hosts) = users

\* A script nobody has meddled with.
Fresh(what) == script.what = what /\ script.fresh

\* What a script writes has the users' lines of the file that was read for it, an edit
\* or not.
ReadOK ==
  ~excused /\ script.what # "nothing" => Good(script.text) /\ Users(script.text) = script.users

\* What one writes that nobody has meddled with, and what it does to the machine.
TextOK ==
  ~excused => \A what \in {"install", "uninstall"} : Fresh(what) =>
    /\ script.users = users
    /\ hosts = script.text \/ Writes(script.steps)
    /\ what = "install" => HasBlock(script.text)
    /\ what = "uninstall" => NoBegin(script.text)

Route == IF env.resolved THEN "route" ELSE "drop"

InstallOK ==
  Fresh("install") /\ CanRoute =>
    /\ \A f \in {"zone", Route, "netd"} : Comes(script.steps, f)
    /\ Started(script.steps)

UninstallOK == Fresh("uninstall") => \A f \in Files \ {"authority"} : Goes(script.steps, f)

Inv == TypeOK /\ FileOK /\ ReadOK /\ TextOK /\ InstallOK /\ UninstallOK /\ DoneIsSeen /\ UndoneIsGone

-----------------------------------------------------------------------------
(* The scripts.                                                              *)

LEMMA CatSteps ==
  ASSUME NEW a \in Seq(StepType), NEW b \in Seq(StepType)
  PROVE  /\ a \o b \in Seq(StepType) /\ Len(a \o b) = Len(a) + Len(b)
         /\ Len(a) \in Nat /\ Len(b) \in Nat
         /\ \A i \in 1 .. Len(a) : (a \o b)[i] = a[i]
         /\ \A i \in 1 .. Len(b) : (a \o b)[Len(a) + i] = b[i]
         /\ \A i \in Len(a) + 1 .. Len(a) + Len(b) : (a \o b)[i] = b[i - Len(a)]
<1> DEFINE S == StepType
<1>1. a \in Seq(S) /\ b \in Seq(S)
  OBVIOUS
<1> HIDE DEF S
<1>2. /\ a \o b \in Seq(S) /\ Len(a \o b) = Len(a) + Len(b)
      /\ Len(a) \in Nat /\ Len(b) \in Nat
      /\ \A i \in 1 .. Len(a) : (a \o b)[i] = a[i]
      /\ \A i \in 1 .. Len(b) : (a \o b)[Len(a) + i] = b[i]
      /\ \A i \in Len(a) + 1 .. Len(a) + Len(b) : (a \o b)[i] = b[i - Len(a)]
  BY <1>1
<1>3. QED
  BY <1>2 DEF S

\* What two parts of a script do, the script does.
LEMMA Parts ==
  ASSUME NEW a \in Seq(StepType), NEW b \in Seq(StepType), NEW f
  PROVE  /\ a \o b \in Seq(StepType)
         /\ Adds(a, f) \/ Adds(b, f) => Adds(a \o b, f)
         /\ Keeps(a, f) /\ Keeps(b, f) => Keeps(a \o b, f)
         /\ Writes(a) => Writes(a \o b)
<1> DEFINE r == a \o b
           M == Len(a)
           N == Len(b)
<1>1. /\ r \in Seq(StepType) /\ Len(r) = M + N /\ M \in Nat /\ N \in Nat
      /\ \A i \in 1 .. M : r[i] = a[i]
      /\ \A i \in 1 .. N : r[M + i] = b[i]
      /\ \A i \in M + 1 .. M + N : r[i] = b[i - M]
  BY CatSteps
<1> HIDE DEF r
<1>2. \A i \in 1 .. M : i \in 1 .. Len(r)
  BY <1>1
<1>3. \A i \in 1 .. N : M + i \in 1 .. Len(r)
  BY <1>1
<1>4. Adds(a, f) => Adds(r, f)
  BY <1>1, <1>2 DEF Adds, Must
<1>5. Adds(b, f) => Adds(r, f)
  <2>1. ASSUME NEW i \in 1 .. N, Must(b, i), f \in b[i].add
        PROVE  Adds(r, f)
    <3>1. M + i \in 1 .. Len(r) /\ r[M + i] = b[i]
      BY <1>1, <1>3
    <3>2. QED
      BY <2>1, <3>1 DEF Adds, Must
  <2>2. QED
    BY <2>1 DEF Adds
<1>6. ASSUME Keeps(a, f), Keeps(b, f)
      PROVE  Keeps(r, f)
  <2>1. ASSUME NEW i \in 1 .. Len(r)
        PROVE  f \notin r[i].del
    <3>1. CASE i \in 1 .. M
      BY <1>1, <1>6, <3>1 DEF Keeps
    <3>2. CASE i \notin 1 .. M
      <4>1. i \in M + 1 .. M + N /\ i - M \in 1 .. N
        BY <1>1, <3>2
      <4>2. QED
        BY <1>1, <1>6, <4>1 DEF Keeps
    <3>3. QED
      BY <3>1, <3>2
  <2>2. QED
    BY <2>1 DEF Keeps
<1>7. Writes(a) => Writes(r)
  BY <1>1, <1>2 DEF Writes, Must
<1>8. QED
  BY <1>1, <1>4, <1>5, <1>6, <1>7 DEF r

LEMMA InstallIs ==
  /\ InstallSteps \in Seq(StepType) /\ Writes(InstallSteps)
  /\ CanRoute =>
       /\ \A f \in {"zone", Route, "netd"} : Adds(InstallSteps, f) /\ Keeps(InstallSteps, f)
       /\ Len(InstallSteps) > 0 /\ StartsNetd(InstallSteps[Len(InstallSteps)])
<1> DEFINE sy == Step({"sysctl"}, {}, {}, {}, TRUE)
           wh == WriteHosts
           zo == IF env.resolved THEN Make({"zone", "route"}, {}) ELSE Make({"zone"}, {"route"})
           li == Start("link")
           dr == Make({"drop"}, {})
           re == Step({}, {}, {}, {}, TRUE)
           cp == Step({"copy"}, {"old copy"}, {}, {}, TRUE)
           nd == Make({"netd"}, {"old netd"})
           st == Start("netd")
           a == <<sy, wh>>
           b == <<zo, li>>
           c == IF env.resolved THEN <<>> ELSE <<dr, re>>
           d == <<cp, nd, st>>
           z == <<>>
<1>1. InstallSteps = a \o (IF ~CanRoute THEN z ELSE b \o c \o d)
  BY DEF InstallSteps
<1>2. /\ sy \in StepType /\ wh \in StepType /\ zo \in StepType /\ li \in StepType
      /\ dr \in StepType /\ re \in StepType /\ cp \in StepType /\ nd \in StepType /\ st \in StepType
  BY DEF StepType, Step, Make, Start, WriteHosts, Files
<1>3. /\ sy.del = {} /\ wh.del = {} /\ ~wh.optional /\ wh.hosts
      /\ "zone" \in zo.add /\ (env.resolved => "route" \in zo.add) /\ ~zo.optional
      /\ (env.resolved => zo.del = {}) /\ (~env.resolved => zo.del = {"route"})
      /\ li.del = {} /\ "drop" \in dr.add /\ dr.del = {} /\ ~dr.optional /\ re.del = {}
      /\ cp.del = {"old copy"} /\ nd.del = {"old netd"} /\ "netd" \in nd.add /\ ~nd.optional
      /\ st.del = {} /\ StartsNetd(st)
  BY DEF Step, Make, Start, WriteHosts, StartsNetd
<1> HIDE DEF sy, wh, zo, li, dr, re, cp, nd, st
<1> DEFINE S == StepType
<1>4. /\ a \in Seq(S) /\ Len(a) = 2 /\ a[1] = sy /\ a[2] = wh
      /\ b \in Seq(S) /\ Len(b) = 2 /\ b[1] = zo /\ b[2] = li
      /\ d \in Seq(S) /\ Len(d) = 3 /\ d[1] = cp /\ d[2] = nd /\ d[3] = st
      /\ z \in Seq(S) /\ Len(z) = 0
  <2> HIDE DEF S
  <2>1. QED
    BY <1>2 DEF S
<1>5. /\ c \in Seq(S) /\ (env.resolved => Len(c) = 0)
      /\ (~env.resolved => Len(c) = 2 /\ c[1] = dr /\ c[2] = re)
  <2>1. dr \in S /\ re \in S
    BY <1>2
  <2> HIDE DEF S
  <2>2. QED
    BY <2>1
<1> HIDE DEF a, b, c, d, z
<1>6. Writes(a) /\ \A f : Keeps(a, f)
  <2>1. \A i \in 1 .. Len(a) : i = 1 \/ i = 2
    BY <1>4
  <2>2. 2 \in 1 .. Len(a)
    BY <1>4
  <2>3. QED
    BY <1>3, <1>4, <2>1, <2>2 DEF Writes, Must, Keeps
<1>7. CASE ~CanRoute
  <2>1. InstallSteps = a \o z
    BY <1>1, <1>7
  <2>2. QED
    BY <1>4, <1>6, <1>7, <2>1, Parts
<1>8. CASE CanRoute
  <2> DEFINE bc == b \o c
             bcd == bc \o d
  <2>1. InstallSteps = a \o bcd
    BY <1>1, <1>8
  <2>2. Adds(b, "zone") /\ (env.resolved => Adds(b, "route"))
    <3>1. 1 \in 1 .. Len(b)
      BY <1>4
    <3>2. QED
      BY <1>3, <1>4, <3>1 DEF Adds, Must
  <2>3. ~env.resolved => Adds(c, "drop")
    <3>1. ~env.resolved => 1 \in 1 .. Len(c)
      BY <1>5
    <3>2. QED
      BY <1>3, <1>5, <3>1 DEF Adds, Must
  <2>4. Adds(d, "netd")
    <3>1. 2 \in 1 .. Len(d)
      BY <1>4
    <3>2. QED
      BY <1>3, <1>4, <3>1 DEF Adds, Must
  <2>5. \A f \in {"zone", Route, "netd"} : Keeps(b, f)
    <3>1. \A i \in 1 .. Len(b) : i = 1 \/ i = 2
      BY <1>4
    <3>2. ASSUME NEW f \in {"zone", Route, "netd"}
          PROVE  f \notin zo.del /\ f \notin li.del
      BY <1>3 DEF Route
    <3>3. b[1] = zo /\ b[2] = li
      BY <1>4
    <3>4. QED
      BY <3>1, <3>2, <3>3 DEF Keeps
  <2>6. \A f : Keeps(c, f)
    <3>1. CASE env.resolved
      <4>1. \A i \in 1 .. Len(c) : FALSE
        BY <1>5, <3>1
      <4>2. QED
        BY <4>1 DEF Keeps
    <3>2. CASE ~env.resolved
      <4>1. Len(c) = 2 /\ c[1] = dr /\ c[2] = re
        BY <1>5, <3>2
      <4>2. \A i \in 1 .. Len(c) : i = 1 \/ i = 2
        BY <4>1
      <4>3. QED
        BY <1>3, <4>1, <4>2 DEF Keeps
    <3>3. QED
      BY <3>1, <3>2
  <2>7. \A f \in {"zone", Route, "netd"} : Keeps(d, f)
    <3>1. \A i \in 1 .. Len(d) : i = 1 \/ i = 2 \/ i = 3
      BY <1>4
    <3>2. ASSUME NEW f \in {"zone", Route, "netd"}
          PROVE  f \notin cp.del /\ f \notin nd.del /\ f \notin st.del
      BY <1>3 DEF Route
    <3>3. d[1] = cp /\ d[2] = nd /\ d[3] = st
      BY <1>4
    <3>4. QED
      BY <3>1, <3>2, <3>3 DEF Keeps
  <2>8. bc \in Seq(StepType)
    BY <1>4, <1>5, CatSteps
  <2>9. bcd \in Seq(StepType)
    <3> HIDE DEF bc
    <3>1. QED
      BY <1>4, <2>8, CatSteps
  <2>10. a \o bcd \in Seq(StepType) /\ Writes(a \o bcd)
    <3> HIDE DEF bcd
    <3>1. QED
      BY <1>4, <1>6, <2>9, Parts
  <2>11. ASSUME NEW f \in {"zone", Route, "netd"}
         PROVE  Adds(a \o bcd, f) /\ Keeps(a \o bcd, f)
    <3>1. Adds(b, f) \/ Adds(c, f) \/ Adds(d, f)
      BY <2>2, <2>3, <2>4 DEF Route
    <3>2. Keeps(a, f) /\ Keeps(b, f) /\ Keeps(c, f) /\ Keeps(d, f)
      BY <1>6, <2>5, <2>6, <2>7
    <3> HIDE DEF Route
    <3>3. Keeps(bc, f) /\ (Adds(b, f) \/ Adds(c, f) => Adds(bc, f))
      BY <1>4, <1>5, <3>2, Parts
    <3> HIDE DEF bc
    <3>4. Keeps(bcd, f) /\ (Adds(bc, f) \/ Adds(d, f) => Adds(bcd, f))
      BY <1>4, <2>8, <3>2, <3>3, Parts
    <3> HIDE DEF bcd
    <3>5. Keeps(a \o bcd, f) /\ (Adds(bcd, f) => Adds(a \o bcd, f))
      BY <1>4, <2>9, <3>2, <3>4, Parts
    <3>6. QED
      BY <3>1, <3>3, <3>4, <3>5
  <2>12. Len(a \o bcd) > 0 /\ StartsNetd((a \o bcd)[Len(a \o bcd)])
    <3> HIDE DEF bc
    <3>1. /\ Len(bcd) = Len(bc) + 3 /\ Len(bc) \in Nat /\ bcd[Len(bc) + 3] = d[3]
      <4>1. 3 \in 1 .. Len(d)
        BY <1>4
      <4>2. d \in Seq(StepType)
        BY <1>4
      <4>3. /\ Len(bcd) = Len(bc) + Len(d) /\ Len(bc) \in Nat
            /\ \A i \in 1 .. Len(d) : bcd[Len(bc) + i] = d[i]
        BY <4>2, <2>8, CatSteps
      <4> HIDE DEF bcd
      <4>4. QED
        BY <1>4, <4>1, <4>3
    <3> HIDE DEF bcd
    <3>2. /\ Len(a \o bcd) = Len(a) + Len(bcd) /\ Len(a) \in Nat
          /\ (a \o bcd)[Len(a) + Len(bcd)] = bcd[Len(bcd)]
      <4>1. Len(bcd) \in 1 .. Len(bcd)
        BY <3>1
      <4>2. a \in Seq(StepType)
        BY <1>4
      <4>3. /\ Len(a \o bcd) = Len(a) + Len(bcd) /\ Len(a) \in Nat
            /\ \A i \in 1 .. Len(bcd) : (a \o bcd)[Len(a) + i] = bcd[i]
        BY <4>2, <2>9, CatSteps
      <4> DEFINE r == a \o bcd
      <4> HIDE DEF r
      <4>4. Len(r) = Len(a) + Len(bcd) /\ Len(a) \in Nat /\ r[Len(a) + Len(bcd)] = bcd[Len(bcd)]
        BY <4>1, <4>3 DEF r
      <4>5. QED
        BY <4>4 DEF r
    <3> DEFINE r == a \o bcd
    <3> HIDE DEF r
    <3>3. r[Len(r)] = st /\ Len(r) > 0
      BY <1>4, <3>1, <3>2 DEF r
    <3>4. QED
      BY <1>3, <3>3 DEF r
  <2>13. QED
    BY <2>1, <2>10, <2>11, <2>12
<1>9. QED
  BY <1>7, <1>8

LEMMA UninstallIs ==
  /\ UninstallSteps \in Seq(StepType) /\ Writes(UninstallSteps)
  /\ \A f : Avoids(UninstallSteps, f)
  /\ \A f \in Files \ {"authority"} : Deletes(UninstallSteps, f)
<1> DEFINE s1 == Step({}, {}, {}, {"netd"}, TRUE)
           s2 == Step({}, {}, {}, {"link"}, TRUE)
           s3 == Make({}, {"sysctl", "zone", "route", "drop"} \cup Daemon)
           s4 == WriteHosts
           s5 == Step({}, {}, {}, {}, TRUE)
           s6 == Make({}, {"routes"})
           S == StepType
           r == UninstallSteps
<1>1. /\ s1 \in S /\ s2 \in S /\ s3 \in S /\ s4 \in S /\ s5 \in S /\ s6 \in S
  BY DEF StepType, Step, Make, WriteHosts, Files, Daemon
<1>2. /\ s1.add = {} /\ s2.add = {} /\ s3.add = {} /\ s4.add = {} /\ s5.add = {} /\ s6.add = {}
      /\ ~s3.optional /\ ~s4.optional /\ s4.hosts /\ ~s6.optional
      /\ \A f \in Files \ {"authority"} : f \in s3.del \/ f \in s6.del
  BY DEF Step, Make, WriteHosts, Files, Daemon
<1>3. r = <<s1, s2, s3, s4, s5, s6>>
  BY DEF UninstallSteps
<1> HIDE DEF s1, s2, s3, s4, s5, s6, S, r
<1>4. /\ r \in Seq(S) /\ Len(r) = 6
      /\ r[1] = s1 /\ r[2] = s2 /\ r[3] = s3 /\ r[4] = s4 /\ r[5] = s5 /\ r[6] = s6
  BY <1>1, <1>3
<1>5. \A i \in 1 .. Len(r) : i = 1 \/ i = 2 \/ i = 3 \/ i = 4 \/ i = 5 \/ i = 6
  BY <1>4
<1>6. 3 \in 1 .. Len(r) /\ 4 \in 1 .. Len(r) /\ 6 \in 1 .. Len(r)
  BY <1>4
<1>7. Writes(r)
  BY <1>2, <1>4, <1>6 DEF Writes, Must
<1>8. \A f : Avoids(r, f)
  BY <1>2, <1>4, <1>5 DEF Avoids
<1>9. \A f \in Files \ {"authority"} : Deletes(r, f)
  <2> HIDE DEF Files
  <2>1. QED
    BY <1>2, <1>4, <1>6 DEF Deletes, Must
<1>10. QED
  BY <1>4, <1>7, <1>8, <1>9 DEF r, S

LEMMA TailIs ==
  ASSUME NEW steps \in Seq(StepType), steps # <<>>, NEW s, s = Head(steps), NEW t, t = Tail(steps)
  PROVE  /\ t \in Seq(StepType) /\ s \in StepType /\ Len(t) \in Nat /\ Len(steps) > 0
         /\ \A f : /\ Adds(steps, f) => (~s.optional /\ f \in s.add) \/ Adds(t, f)
                   /\ Deletes(steps, f) => (~s.optional /\ f \in s.del) \/ Deletes(t, f)
                   /\ Keeps(steps, f) => f \notin s.del /\ Keeps(t, f)
                   /\ Avoids(steps, f) => f \notin s.add /\ Avoids(t, f)
         /\ Writes(steps) => (~s.optional /\ s.hosts) \/ Writes(t)
         /\ Len(t) = 0 => steps[Len(steps)] = s
         /\ Len(t) # 0 => t[Len(t)] = steps[Len(steps)]
<1> DEFINE S == StepType
           N == Len(steps)
<1>1. /\ t \in Seq(S) /\ Len(t) = N - 1 /\ N \in Nat /\ N > 0 /\ s = steps[1] /\ s \in S
      /\ \A i \in 1 .. N - 1 : t[i] = steps[i + 1]
  <2>1. steps \in Seq(S)
    OBVIOUS
  <2> HIDE DEF S
  <2>2. QED
    BY <2>1
<1> HIDE DEF S, N
<1>2. \A i \in 1 .. Len(t) : i + 1 \in 1 .. N /\ t[i] = steps[i + 1]
  BY <1>1
<1>3. \A i \in 1 .. N : i = 1 \/ (i - 1 \in 1 .. Len(t) /\ t[i - 1] = steps[i])
  BY <1>1
<1>4. 1 \in 1 .. N
  BY <1>1
<1>5. ASSUME NEW f
      PROVE  /\ Adds(steps, f) => (~s.optional /\ f \in s.add) \/ Adds(t, f)
             /\ Deletes(steps, f) => (~s.optional /\ f \in s.del) \/ Deletes(t, f)
             /\ Keeps(steps, f) => f \notin s.del /\ Keeps(t, f)
             /\ Avoids(steps, f) => f \notin s.add /\ Avoids(t, f)
  <2>1. Adds(steps, f) => (~s.optional /\ f \in s.add) \/ Adds(t, f)
    BY <1>1, <1>3 DEF Adds, Must, N
  <2>2. Deletes(steps, f) => (~s.optional /\ f \in s.del) \/ Deletes(t, f)
    BY <1>1, <1>3 DEF Deletes, Must, N
  <2>3. Keeps(steps, f) => f \notin s.del /\ Keeps(t, f)
    BY <1>1, <1>2, <1>4 DEF Keeps, N
  <2>4. Avoids(steps, f) => f \notin s.add /\ Avoids(t, f)
    BY <1>1, <1>2, <1>4 DEF Avoids, N
  <2>5. QED
    BY <2>1, <2>2, <2>3, <2>4
<1>6. Writes(steps) => (~s.optional /\ s.hosts) \/ Writes(t)
  BY <1>1, <1>3 DEF Writes, Must, N
<1>7. Len(t) = 0 => steps[N] = s
  BY <1>1
<1>8. Len(t) # 0 => t[Len(t)] = steps[N]
  BY <1>1
<1>9. QED
  BY <1>1, <1>5, <1>6, <1>7, <1>8 DEF S, N

-----------------------------------------------------------------------------
(* Each step keeps the invariant.                                            *)

LEMMA Lines ==
  ASSUME NEW h \in Seq(UserLine \cup {Nl})
  PROVE  h \in Seq(Token) /\ \A i \in 1 .. Len(h) : h[i] \in UserLine \cup {Nl}
<1> DEFINE S == UserLine \cup {Nl}
<1>1. \A x \in S : x \in Token
  BY DEF Token
<1>2. h \in Seq(S)
  OBVIOUS
<1> HIDE DEF S
<1>3. \A i \in 1 .. Len(h) : h[i] \in S
  BY <1>2
<1> DEFINE T == Token
<1>4. \A x \in S : x \in T
  BY <1>1
<1> HIDE DEF T
<1>5. h \in Seq(T)
  BY <1>2, <1>4
<1>6. QED
  BY <1>3, <1>5 DEF S, T

LEMMA NoSteps == <<>> \in Seq(StepType)
<1> DEFINE S == StepType
           e == <<>>
<1> HIDE DEF S
<1>1. e \in Seq(S)
  OBVIOUS
<1>2. QED
  BY <1>1 DEF S

LEMMA InitInv == Init => Inv
<1> SUFFICES ASSUME Init
             PROVE  Inv
  OBVIOUS
<1> USE DEF Init
<1>1. TypeOK
  <2>1. have \subseteq Files
    BY DEF Files
  <2>2. script = Script("nothing", <<>>, <<>>, <<>>, TRUE)
    BY DEF None, Script
  <2>3. <<>> \in Seq(StepType)
    BY NoSteps
  <2> HIDE DEF Init
  <2>4. /\ script.what = "nothing" /\ script.steps = <<>> /\ script.text = <<>>
        /\ script.users = <<>> /\ script.fresh = TRUE
    BY <2>2 DEF Script
  <2>5. excused = FALSE /\ last = "nothing" /\ script = None
    BY DEF Init
  <2>6. script = Script(script.what, script.steps, script.text, script.users, script.fresh)
    BY <2>2, <2>4
  <2>7. QED
    BY <2>1, <2>3, <2>4, <2>5, <2>6 DEF TypeOK
<1>2. FileOK
  <2>1. hosts \in Seq(UserLine \cup {Nl}) /\ Separated(hosts)
    BY SetupAssumption
  <2>2. hosts \in Seq(Token) /\ \A i \in 1 .. Len(hosts) : hosts[i] \in UserLine \cup {Nl}
    BY <2>1, Lines
  <2>3. \A i \in 1 .. Len(hosts) : hosts[i] # Begin
    BY <2>2, Marks
  <2>4. QED
    BY <2>1, <2>2, <2>3 DEF FileOK, Good, Whole
<1>3. script.what = "nothing" /\ last = "nothing"
  BY DEF None
<1>4. ReadOK /\ TextOK /\ InstallOK /\ UninstallOK /\ DoneIsSeen /\ UndoneIsGone
  BY <1>3 DEF ReadOK, TextOK, InstallOK, UninstallOK, DoneIsSeen, UndoneIsGone, Fresh
<1>5. QED
  BY <1>1, <1>2, <1>4 DEF Inv

\* With nothing that ran through, there is nothing to see.
LEMMA NothingRan ==
  ASSUME last' = "nothing"
  PROVE  DoneIsSeen' /\ UndoneIsGone'
BY DEF DoneIsSeen, UndoneIsGone

LEMMA TypePrompt ==
  ASSUME TypeOK, NEW what \in {"install", "uninstall"}, NEW steps \in Seq(StepType), NEW want,
         Prompt(what, steps, want)
  PROVE  TypeOK'
<1> DEFINE text == Replaced(hosts, want)
<1>1. script' = Script(what, steps, text, users, TRUE)
  BY DEF Prompt, Script
<1> HIDE DEF text
<1>2. /\ script'.what = what /\ script'.steps = steps /\ script'.text = text
      /\ script'.users = users /\ script'.fresh = TRUE
  BY <1>1 DEF Script
<1>3. script' # None
  BY <1>2 DEF None
<1>4. have' = have /\ excused' = excused /\ last' = "nothing"
  BY DEF Prompt
<1>5. QED
  BY <1>1, <1>2, <1>3, <1>4 DEF TypeOK

LEMMA InstallNext == Inv /\ Install => Inv'
<1> SUFFICES ASSUME Inv, Install
             PROVE  Inv'
  OBVIOUS
<1>1. /\ TypeOK /\ FileOK
      /\ script' = Script("install", InstallSteps, Replaced(hosts, Block), users, TRUE)
      /\ last' = "nothing"
      /\ hosts' = hosts /\ env' = env /\ have' = have /\ up' = up /\ users' = users /\ excused' = excused
  BY DEF Inv, Install, Prompt, Script
<1>2. /\ script'.what = "install" /\ script'.steps = InstallSteps
      /\ script'.text = Replaced(hosts, Block) /\ script'.users = users /\ script'.fresh = TRUE
  BY <1>1 DEF Script
<1>3. TypeOK'
  BY <1>1, InstallIs, TypePrompt DEF Install
<1>4. FileOK'
  BY <1>1 DEF FileOK
<1>5. ReadOK' /\ TextOK'
  <2>1. ASSUME ~excused
        PROVE  /\ Good(Replaced(hosts, Block)) /\ Users(Replaced(hosts, Block)) = users
               /\ HasBlock(Replaced(hosts, Block))
    BY <1>1, <2>1, ReplacedBlock DEF FileOK, HasBlock
  <2>2. Writes(InstallSteps)
    BY InstallIs
  <2>3. QED
    BY <1>1, <1>2, <2>1, <2>2 DEF ReadOK, TextOK, Fresh
<1>6. InstallOK'
  <2>1. CanRoute' = CanRoute /\ Route' = Route /\ HasProgram' = HasProgram
    BY <1>1 DEF CanRoute, Route, HasProgram
  <2>2. ASSUME CanRoute
        PROVE  (\A f \in {"zone", Route, "netd"} : Comes(InstallSteps, f)) /\ Started(InstallSteps)
    BY <2>2, InstallIs DEF Comes, Started
  <2>3. ASSUME CanRoute
        PROVE  (\A f \in {"zone", Route', "netd"} : Comes(script.steps, f)') /\ Started(script.steps)'
    BY <1>1, <1>2, <2>1, <2>2, <2>3 DEF Comes, Started
  <2>4. QED
    BY <2>1, <2>3 DEF InstallOK
<1>7. UninstallOK'
  BY <1>2 DEF UninstallOK, Fresh
<1>8. DoneIsSeen' /\ UndoneIsGone'
  BY <1>1, NothingRan
<1>9. QED
  BY <1>3, <1>4, <1>5, <1>6, <1>7, <1>8 DEF Inv

LEMMA UninstallNext == Inv /\ Uninstall => Inv'
<1> SUFFICES ASSUME Inv, Uninstall
             PROVE  Inv'
  OBVIOUS
<1>1. /\ TypeOK /\ FileOK
      /\ script' = Script("uninstall", UninstallSteps, Replaced(hosts, <<>>), users, TRUE)
      /\ last' = "nothing"
      /\ hosts' = hosts /\ have' = have /\ users' = users /\ excused' = excused
  BY DEF Inv, Uninstall, Prompt, Script
<1>2. /\ script'.what = "uninstall" /\ script'.steps = UninstallSteps
      /\ script'.text = Replaced(hosts, <<>>) /\ script'.users = users /\ script'.fresh = TRUE
  BY <1>1 DEF Script
<1>3. TypeOK'
  BY <1>1, UninstallIs, TypePrompt DEF Uninstall
<1>4. FileOK'
  BY <1>1 DEF FileOK
<1>5. ReadOK' /\ TextOK'
  <2>1. ASSUME ~excused
        PROVE  /\ Good(Replaced(hosts, <<>>)) /\ Users(Replaced(hosts, <<>>)) = users
               /\ NoBegin(Replaced(hosts, <<>>))
    BY <1>1, <2>1, ReplacedNothing DEF FileOK
  <2>2. Writes(UninstallSteps)
    BY UninstallIs
  <2>3. QED
    BY <1>1, <1>2, <2>1, <2>2 DEF ReadOK, TextOK, Fresh
<1>6. InstallOK'
  BY <1>2 DEF InstallOK, Fresh
<1>7. UninstallOK'
  <2>1. \A f \in Files \ {"authority"} : Goes(UninstallSteps, f)
    BY UninstallIs DEF Goes
  <2>2. \A f \in Files \ {"authority"} : Goes(script.steps, f)'
    BY <1>1, <1>2, <2>1 DEF Goes
  <2>3. QED
    BY <2>2 DEF UninstallOK
<1>8. DoneIsSeen' /\ UndoneIsGone'
  BY <1>1, NothingRan
<1>9. QED
  BY <1>3, <1>4, <1>5, <1>6, <1>7, <1>8 DEF Inv

\* What is left of a script after a step of it, done or passed over.
Went(s, t) == script.steps # <<>> /\ s = Head(script.steps) /\ t = Tail(script.steps)

LEMMA TypeGoesOn ==
  ASSUME TypeOK, NEW s, NEW t, Went(s, t), have' \subseteq Files, excused' \in BOOLEAN, last' = last,
         script' = [script EXCEPT !.steps = t] \/ script' = None
  PROVE  /\ TypeOK'
         /\ script.what \in {"install", "uninstall"} /\ last = "nothing"
         /\ \/ /\ script'.what = "nothing"
            \/ /\ script'.what = script.what /\ script'.steps = t
               /\ script'.text = script.text /\ script'.users = script.users
               /\ script'.fresh = script.fresh
<1>1. t \in Seq(StepType)
  BY TailIs DEF TypeOK, Went
<1>2. script.what \in {"install", "uninstall"} /\ script # None /\ last = "nothing"
  BY DEF TypeOK, Went
<1>3. CASE script' = None
  <2>1. script'.what = "nothing"
    BY <1>3 DEF None
  <2>2. /\ script' = Script(script'.what, script'.steps, script'.text, script'.users, script'.fresh)
        /\ script'.steps = <<>> /\ script'.fresh = TRUE
    BY <1>3 DEF None, Script
  <2>3. QED
    BY <1>2, <1>3, <2>1, <2>2, NoSteps DEF TypeOK
<1>4. CASE script' = [script EXCEPT !.steps = t]
  <2>1. /\ script = Script(script.what, script.steps, script.text, script.users, script.fresh)
        /\ script.fresh \in BOOLEAN
    BY DEF TypeOK
  <2>2. script' = Script(script.what, t, script.text, script.users, script.fresh)
    BY <1>4, <2>1 DEF Script
  <2>3. /\ script'.what = script.what /\ script'.steps = t
        /\ script'.text = script.text /\ script'.users = script.users
        /\ script'.fresh = script.fresh
    BY <2>2 DEF Script
  <2>4. script' # None
    BY <1>2, <2>3 DEF None
  <2>5. QED
    BY <1>1, <1>2, <2>1, <2>2, <2>3, <2>4 DEF TypeOK
<1>5. QED
  BY <1>3, <1>4

LEMMA DoNext == Inv /\ Do => Inv'
<1> SUFFICES ASSUME Inv, Do
             PROVE  Inv'
  OBVIOUS
<1> DEFINE s == Head(script.steps)
           t == Tail(script.steps)
<1>1. TypeOK /\ FileOK /\ ReadOK /\ TextOK /\ InstallOK /\ UninstallOK
  BY DEF Inv
<1>2. /\ Went(s, t)
      /\ have' = (have \ s.del) \cup s.add
      /\ up' = (up \ s.stop) \cup (IF HasProgram THEN s.start ELSE s.start \ {"netd"})
      /\ ~s.hosts => hosts' = hosts
      /\ script' = [script EXCEPT !.steps = t] \/ script' = None
      /\ users' = IF s.hosts THEN script.users ELSE users
      /\ excused' = (excused \/ (s.hosts /\ hosts' # script.text))
      /\ env' = env /\ last' = last
  BY DEF Do, Went
<1>3. /\ t \in Seq(StepType) /\ s \in StepType /\ Len(t) \in Nat /\ Len(script.steps) > 0
      /\ \A f : /\ Adds(script.steps, f) => (~s.optional /\ f \in s.add) \/ Adds(t, f)
                /\ Deletes(script.steps, f) => (~s.optional /\ f \in s.del) \/ Deletes(t, f)
                /\ Keeps(script.steps, f) => f \notin s.del /\ Keeps(t, f)
                /\ Avoids(script.steps, f) => f \notin s.add /\ Avoids(t, f)
      /\ Writes(script.steps) => (~s.optional /\ s.hosts) \/ Writes(t)
      /\ Len(t) = 0 => script.steps[Len(script.steps)] = s
      /\ Len(t) # 0 => t[Len(t)] = script.steps[Len(script.steps)]
  BY <1>1, <1>2, TailIs DEF TypeOK, Went
<1> HIDE DEF s, t
<1>4. have' \subseteq Files /\ excused' \in BOOLEAN /\ s.hosts \in BOOLEAN
  BY <1>1, <1>2, <1>3 DEF TypeOK, StepType
<1>5. /\ TypeOK' /\ script.what \in {"install", "uninstall"} /\ last = "nothing"
      /\ \/ /\ script'.what = "nothing"
         \/ /\ script'.what = script.what /\ script'.steps = t
            /\ script'.text = script.text /\ script'.users = script.users
            /\ script'.fresh = script.fresh
  BY <1>1, <1>2, <1>4, TypeGoesOn
<1>6. ASSUME ~excused'
      PROVE  /\ ~excused /\ (s.hosts => hosts' = script.text /\ users' = script.users)
             /\ (~s.hosts => hosts' = hosts /\ users' = users)
  BY <1>2, <1>6
<1>7. FileOK'
  <2>1. ASSUME ~excused'
        PROVE  Good(hosts') /\ Users(hosts') = users'
    <3>1. CASE s.hosts
      <4>1. hosts' = script.text /\ users' = script.users /\ ~excused
        BY <1>6, <2>1, <3>1
      <4>2. Good(script.text) /\ Users(script.text) = script.users
        BY <1>1, <1>5, <4>1 DEF ReadOK
      <4>3. QED
        BY <4>1, <4>2
    <3>2. CASE ~s.hosts
      <4>1. hosts' = hosts /\ users' = users /\ ~excused
        BY <1>6, <2>1, <3>2
      <4>2. QED
        BY <1>1, <4>1 DEF FileOK
    <3>3. QED
      BY <3>1, <3>2
  <2>2. QED
    BY <2>1 DEF FileOK
<1>8. ReadOK' /\ TextOK'
  <2>0. ReadOK'
    BY <1>1, <1>5, <1>6 DEF ReadOK
  <2>1. ASSUME ~excused', NEW what \in {"install", "uninstall"}, Fresh(what)'
        PROVE  /\ script'.users = users'
               /\ hosts' = script'.text \/ Writes(script'.steps)
               /\ what = "install" => HasBlock(script'.text)
               /\ what = "uninstall" => NoBegin(script'.text)
    <3>1. /\ script'.what = what /\ script.what = what /\ script'.steps = t
          /\ script'.text = script.text /\ script'.users = script.users /\ script.fresh
      BY <1>5, <2>1 DEF Fresh
    <3>2. /\ script.users = users
          /\ hosts = script.text \/ Writes(script.steps)
          /\ what = "install" => HasBlock(script.text)
          /\ what = "uninstall" => NoBegin(script.text)
      BY <1>1, <1>6, <2>1, <3>1 DEF TextOK, Fresh
    <3>3. hosts' = script.text \/ Writes(t)
      BY <1>3, <1>6, <2>1, <3>2
    <3>4. users' = users
      BY <1>2, <3>2
    <3>5. QED
      BY <3>1, <3>2, <3>3, <3>4
  <2>2. QED
    BY <2>0, <2>1 DEF TextOK
<1>9. InstallOK'
  <2>1. CanRoute' = CanRoute /\ Route' = Route
    BY <1>2 DEF CanRoute, Route
  <2>2. ASSUME Fresh("install")', CanRoute
        PROVE  (\A f \in {"zone", Route', "netd"} : Comes(script.steps, f)') /\ Started(script.steps)'
    <3>1. script'.steps = t /\ Fresh("install")
      BY <1>5, <2>2 DEF Fresh
    <3>2. (\A f \in {"zone", Route, "netd"} : Comes(script.steps, f)) /\ Started(script.steps)
      BY <1>1, <2>2, <3>1 DEF InstallOK
    <3>3. ASSUME NEW f \in {"zone", Route, "netd"}
          PROVE  (f \in have' \/ Adds(t, f)) /\ Keeps(t, f)
      <4>1. (f \in have \/ Adds(script.steps, f)) /\ Keeps(script.steps, f)
        BY <3>2 DEF Comes
      <4>2. QED
        BY <1>2, <1>3, <4>1
    <3>4. \A f \in {"zone", Route', "netd"} : Comes(script.steps, f)'
      BY <2>1, <3>1, <3>3 DEF Comes
    <3>5. StartsNetd(script.steps[Len(script.steps)])
      BY <1>3, <3>2 DEF Started
    <3>6. CASE Len(t) = 0
      <4>1. StartsNetd(s)
        BY <1>3, <3>5, <3>6
      <4>2. have' = have /\ "netd" \in s.start
        BY <1>2, <4>1 DEF StartsNetd
      <4>3. HasProgram' => "netd" \in up'
        BY <1>2, <4>2 DEF HasProgram
      <4>4. QED
        BY <3>1, <3>4, <3>6, <4>3 DEF Started
    <3>7. CASE Len(t) # 0
      <4>1. StartsNetd(t[Len(t)])
        BY <1>3, <3>5, <3>7
      <4>2. QED
        BY <3>1, <3>4, <3>7, <4>1 DEF Started
    <3>8. QED
      BY <3>6, <3>7
  <2>3. QED
    BY <2>1, <2>2 DEF InstallOK
<1>10. UninstallOK'
  <2>1. ASSUME Fresh("uninstall")', NEW f \in Files \ {"authority"}
        PROVE  Goes(script.steps, f)'
    <3>1. script'.steps = t /\ Fresh("uninstall")
      BY <1>5, <2>1 DEF Fresh
    <3>2. (f \notin have \/ Deletes(script.steps, f)) /\ Avoids(script.steps, f)
      BY <1>1, <3>1 DEF UninstallOK, Goes
    <3>3. (f \notin have' \/ Deletes(t, f)) /\ Avoids(t, f)
      BY <1>2, <1>3, <3>2
    <3>4. QED
      BY <3>1, <3>3 DEF Goes
  <2>2. QED
    BY <2>1 DEF UninstallOK
<1>11. DoneIsSeen' /\ UndoneIsGone'
  BY <1>2, <1>5, NothingRan
<1>12. QED
  BY <1>5, <1>7, <1>8, <1>9, <1>10, <1>11 DEF Inv

LEMMA FailNext == Inv /\ Fail => Inv'
<1> SUFFICES ASSUME Inv, Fail
             PROVE  Inv'
  OBVIOUS
<1> DEFINE s == Head(script.steps)
           t == Tail(script.steps)
<1>1. TypeOK /\ FileOK /\ ReadOK /\ TextOK /\ InstallOK /\ UninstallOK
  BY DEF Inv
<1>2. /\ Went(s, t)
      /\ script' = [script EXCEPT !.steps = t] \/ script' = None
      /\ ~s.optional => script' = None
      /\ hosts' = hosts /\ env' = env /\ have' = have /\ up' = up /\ users' = users
      /\ excused' = excused /\ last' = last
  BY DEF Fail, Went
<1>3. /\ t \in Seq(StepType) /\ s \in StepType /\ Len(t) \in Nat /\ Len(script.steps) > 0
      /\ \A f : /\ Adds(script.steps, f) => (~s.optional /\ f \in s.add) \/ Adds(t, f)
                /\ Deletes(script.steps, f) => (~s.optional /\ f \in s.del) \/ Deletes(t, f)
                /\ Keeps(script.steps, f) => f \notin s.del /\ Keeps(t, f)
                /\ Avoids(script.steps, f) => f \notin s.add /\ Avoids(t, f)
      /\ Writes(script.steps) => (~s.optional /\ s.hosts) \/ Writes(t)
      /\ Len(t) = 0 => script.steps[Len(script.steps)] = s
      /\ Len(t) # 0 => t[Len(t)] = script.steps[Len(script.steps)]
  BY <1>1, <1>2, TailIs DEF TypeOK, Went
<1> HIDE DEF s, t
<1>4. have' \subseteq Files /\ excused' \in BOOLEAN
  BY <1>1, <1>2 DEF TypeOK
<1>5. /\ TypeOK' /\ script.what \in {"install", "uninstall"} /\ last = "nothing"
      /\ \/ /\ script'.what = "nothing"
         \/ /\ script'.what = script.what /\ script'.steps = t
            /\ script'.text = script.text /\ script'.users = script.users
            /\ script'.fresh = script.fresh
  BY <1>1, <1>2, <1>4, TypeGoesOn
<1>6. ASSUME NEW what \in {"install", "uninstall"}, Fresh(what)'
      PROVE  /\ script'.steps = t /\ script'.text = script.text /\ script'.users = script.users
             /\ Fresh(what) /\ s.optional
  <2>1. script'.what # "nothing"
    BY <1>6 DEF Fresh
  <2>2. script' # None
    BY <2>1 DEF None
  <2>3. QED
    BY <1>2, <1>5, <1>6, <2>1, <2>2 DEF Fresh
<1>7. FileOK'
  BY <1>1, <1>2 DEF FileOK
<1>8. ReadOK' /\ TextOK'
  <2>0. ReadOK'
    BY <1>1, <1>2, <1>5 DEF ReadOK
  <2>1. ASSUME ~excused', NEW what \in {"install", "uninstall"}, Fresh(what)'
        PROVE  /\ script'.users = users'
               /\ hosts' = script'.text \/ Writes(script'.steps)
               /\ what = "install" => HasBlock(script'.text)
               /\ what = "uninstall" => NoBegin(script'.text)
    <3>1. /\ script'.steps = t /\ script'.text = script.text /\ script'.users = script.users
          /\ Fresh(what) /\ s.optional
      BY <1>6, <2>1
    <3>2. /\ script.users = users
          /\ hosts = script.text \/ Writes(script.steps)
          /\ what = "install" => HasBlock(script.text)
          /\ what = "uninstall" => NoBegin(script.text)
      BY <1>1, <1>2, <2>1, <3>1 DEF TextOK
    <3>3. QED
      BY <1>2, <1>3, <3>1, <3>2
  <2>2. QED
    BY <2>0, <2>1 DEF TextOK
<1>9. InstallOK'
  <2>1. CanRoute' = CanRoute /\ Route' = Route /\ HasProgram' = HasProgram
    BY <1>2 DEF CanRoute, Route, HasProgram
  <2>2. ASSUME Fresh("install")', CanRoute
        PROVE  (\A f \in {"zone", Route', "netd"} : Comes(script.steps, f)') /\ Started(script.steps)'
    <3>1. script'.steps = t /\ Fresh("install") /\ s.optional
      BY <1>6, <2>2
    <3>2. (\A f \in {"zone", Route, "netd"} : Comes(script.steps, f)) /\ Started(script.steps)
      BY <1>1, <2>2, <3>1 DEF InstallOK
    <3>3. ASSUME NEW f \in {"zone", Route, "netd"}
          PROVE  (f \in have' \/ Adds(t, f)) /\ Keeps(t, f)
      <4>1. (f \in have \/ Adds(script.steps, f)) /\ Keeps(script.steps, f)
        BY <3>2 DEF Comes
      <4>2. QED
        BY <1>2, <1>3, <3>1, <4>1
    <3>4. \A f \in {"zone", Route', "netd"} : Comes(script.steps, f)'
      BY <2>1, <3>1, <3>3 DEF Comes
    <3>5. StartsNetd(script.steps[Len(script.steps)])
      BY <1>3, <3>2 DEF Started
    <3>6. Len(t) # 0
      BY <1>3, <3>1, <3>5 DEF StartsNetd
    <3>7. StartsNetd(t[Len(t)])
      BY <1>3, <3>5, <3>6
    <3>8. QED
      BY <3>1, <3>4, <3>6, <3>7 DEF Started
  <2>3. QED
    BY <2>1, <2>2 DEF InstallOK
<1>10. UninstallOK'
  <2>1. ASSUME Fresh("uninstall")', NEW f \in Files \ {"authority"}
        PROVE  Goes(script.steps, f)'
    <3>1. script'.steps = t /\ Fresh("uninstall") /\ s.optional
      BY <1>6, <2>1
    <3>2. (f \notin have \/ Deletes(script.steps, f)) /\ Avoids(script.steps, f)
      BY <1>1, <3>1 DEF UninstallOK, Goes
    <3>3. (f \notin have' \/ Deletes(t, f)) /\ Avoids(t, f)
      BY <1>2, <1>3, <3>1, <3>2
    <3>4. QED
      BY <3>1, <3>3 DEF Goes
  <2>2. QED
    BY <2>1 DEF UninstallOK
<1>11. DoneIsSeen' /\ UndoneIsGone'
  BY <1>2, <1>5, NothingRan
<1>12. QED
  BY <1>5, <1>7, <1>8, <1>9, <1>10, <1>11 DEF Inv

LEMMA FinishNext == Inv /\ Finish => Inv'
<1> SUFFICES ASSUME Inv, Finish
             PROVE  Inv'
  OBVIOUS
<1>1. TypeOK /\ FileOK /\ ReadOK /\ TextOK /\ InstallOK /\ UninstallOK
  BY DEF Inv
<1>2. /\ script # None /\ script.steps = <<>>
      /\ have' = IF script.what = "uninstall" THEN have \ {"authority"} ELSE have
      /\ last' = IF script.fresh THEN script.what ELSE "nothing"
      /\ script' = None
      /\ hosts' = hosts /\ env' = env /\ up' = up /\ users' = users /\ excused' = excused
  BY DEF Finish
<1>3. script.what \in {"install", "uninstall"} /\ have \subseteq Files /\ script.fresh \in BOOLEAN
  BY <1>1, <1>2 DEF TypeOK
<1>4. /\ script'.what = "nothing" /\ script'.steps = <<>> /\ script'.fresh = TRUE
      /\ script' = Script(script'.what, script'.steps, script'.text, script'.users, script'.fresh)
  BY <1>2 DEF None, Script
<1>5. TypeOK'
  <2>1. have' \subseteq Files /\ excused' \in BOOLEAN /\ last' \in {"nothing", "install", "uninstall"}
    BY <1>1, <1>2, <1>3 DEF TypeOK
  <2>2. QED
    BY <1>2, <1>4, <2>1, NoSteps DEF TypeOK
<1>6. FileOK'
  BY <1>1, <1>2 DEF FileOK
<1>7. ReadOK' /\ TextOK' /\ InstallOK' /\ UninstallOK'
  BY <1>4 DEF ReadOK, TextOK, InstallOK, UninstallOK, Fresh
<1>8. \A i \in 1 .. Len(script.steps) : FALSE
  BY <1>2
<1>9. ASSUME ~excused, NEW what \in {"install", "uninstall"}, Fresh(what)
      PROVE  hosts = script.text
  BY <1>1, <1>8, <1>9 DEF TextOK, Writes
<1>10. DoneIsSeen'
  <2>1. ASSUME last' = "install", ~excused
        PROVE  Checked(HasProgram)' /\ Replaced(hosts, Block) = hosts
    <3>1. Fresh("install")
      BY <1>2, <2>1 DEF Fresh
    <3>2. HasBlock(hosts)
      BY <1>1, <1>9, <2>1, <3>1 DEF TextOK
    <3>3. have' = have
      BY <1>2, <3>1 DEF Fresh
    <3>4. CanRoute' = CanRoute /\ BlockInstalled' = BlockInstalled /\ HasProgram' = HasProgram
          /\ RouteInstalled' = RouteInstalled /\ NetdInPlace' = NetdInPlace
      BY <1>2, <3>3 DEF CanRoute, BlockInstalled, HasProgram, RouteInstalled, NetdInPlace
    <3>5. ASSUME CanRoute
          PROVE  RouteInstalled /\ (HasProgram => NetdInPlace)
      <4>1. (\A f \in {"zone", Route, "netd"} : Comes(script.steps, f)) /\ Started(script.steps)
        BY <1>1, <3>1, <3>5 DEF InstallOK
      <4>2. \A f \in {"zone", Route, "netd"} : f \in have
        BY <1>8, <4>1 DEF Comes, Adds
      <4>3. Len(script.steps) = 0
        BY <1>2
      <4>4. HasProgram => "netd" \in up
        BY <4>1, <4>3 DEF Started
      <4>5. QED
        BY <4>2, <4>4 DEF RouteInstalled, NetdInPlace, Route
    <3>6. BlockInstalled
      BY <3>2 DEF HasBlock, BlockInstalled
    <3>7. QED
      BY <3>2, <3>4, <3>5, <3>6 DEF Checked, HasBlock
  <2>2. QED
    BY <1>2, <2>1 DEF DoneIsSeen
<1>11. UndoneIsGone'
  <2>1. ASSUME last' = "uninstall"
        PROVE  have' = {} /\ (excused \/ At(hosts, 1, Begin) = {})
    <3>1. Fresh("uninstall")
      BY <1>2, <2>1 DEF Fresh
    <3>2. \A f \in Files \ {"authority"} : f \notin have
      BY <1>1, <1>8, <3>1 DEF UninstallOK, Goes, Deletes
    <3>3. have' = {}
      <4> HIDE DEF Files
      <4>1. have' = have \ {"authority"}
        BY <1>2, <3>1 DEF Fresh
      <4>2. QED
        BY <1>3, <3>2, <4>1
    <3>4. ASSUME ~excused
          PROVE  At(hosts, 1, Begin) = {}
      <4>1. NoBegin(hosts)
        BY <1>1, <1>9, <3>1, <3>4 DEF TextOK
      <4>2. QED
        BY <4>1 DEF NoBegin, At
    <3>5. QED
      BY <3>3, <3>4
  <2>2. QED
    BY <1>2, <2>1 DEF UndoneIsGone
<1>12. QED
  BY <1>5, <1>6, <1>7, <1>10, <1>11 DEF Inv

\* Beside a script, and after one, whatever changes is no longer the script's doing.
LEMMA DisturbIs ==
  ASSUME TypeOK, ReadOK, Disturb, have' \subseteq Files, excused' = excused
  PROVE  TypeOK' /\ ReadOK' /\ TextOK' /\ InstallOK' /\ UninstallOK' /\ DoneIsSeen' /\ UndoneIsGone'
<1>1. last' = "nothing" /\ script' = IF script = None THEN None ELSE [script EXCEPT !.fresh = FALSE]
  BY DEF Disturb
<1>2. /\ TypeOK' /\ (script'.what = "nothing" \/ script'.fresh = FALSE)
      /\ script'.what = script.what /\ script'.text = script.text /\ script'.users = script.users
  <2>1. CASE script = None
    <3>1. script' = script
      BY <1>1, <2>1
    <3>2. QED
      BY <1>1, <2>1, <3>1 DEF TypeOK
  <2>2. CASE script # None
    <3>1. /\ script = Script(script.what, script.steps, script.text, script.users, script.fresh)
          /\ script' = [script EXCEPT !.fresh = FALSE]
      BY <1>1, <2>2 DEF TypeOK
    <3>2. script' = Script(script.what, script.steps, script.text, script.users, FALSE)
      BY <3>1 DEF Script
    <3>3. /\ script'.what = script.what /\ script'.steps = script.steps
          /\ script'.text = script.text /\ script'.users = script.users /\ script'.fresh = FALSE
      BY <3>2 DEF Script
    <3>4. script' # None
      BY <2>2, <3>3 DEF TypeOK, None
    <3>5. QED
      BY <1>1, <2>2, <3>2, <3>3, <3>4 DEF TypeOK
  <2>3. QED
    BY <2>1, <2>2
<1>3. \A what \in {"install", "uninstall"} : ~Fresh(what)'
  BY <1>2 DEF Fresh
<1>4. TextOK' /\ InstallOK' /\ UninstallOK'
  BY <1>3 DEF TextOK, InstallOK, UninstallOK
<1>5. ReadOK'
  BY <1>2 DEF ReadOK
<1>6. QED
  BY <1>1, <1>2, <1>4, <1>5, NothingRan

LEMMA EditNext == Inv /\ Edit => Inv'
<1> SUFFICES ASSUME Inv, Edit
             PROVE  Inv'
  OBVIOUS
<1>1. TypeOK /\ FileOK /\ ReadOK /\ Disturb /\ have' = have /\ excused' = excused /\ users' = Users(hosts')
  BY DEF Inv, Edit
<1>2. ASSUME ~excused
      PROVE  Good(hosts')
  <2>1. Good(hosts)
    BY <1>1, <1>2 DEF FileOK
  <2>2. CASE \E t \in UserLine : hosts' = <<t, Nl>> \o hosts
    BY <2>1, <2>2, LineInFront
  <2>3. CASE \E t \in UserLine, nl \in {<<>>, <<Nl>>} : hosts' = WithNl(hosts) \o <<t>> \o nl
    BY <2>1, <2>3, LineAtEnd
  <2>4. CASE \E i \in 1 .. Len(hosts) : hosts[i] \in {Begin, End} /\ hosts' = RemoveAt(hosts, i)
    BY <2>1, <2>4, MarkerGone
  <2>5. QED
    BY <2>2, <2>3, <2>4 DEF Edit
<1>3. FileOK'
  BY <1>1, <1>2 DEF FileOK
<1>4. have' \subseteq Files
  BY <1>1 DEF TypeOK
<1>5. QED
  BY <1>1, <1>3, <1>4, DisturbIs DEF Inv

LEMMA OthersNext == Inv /\ (Reconfigure \/ Trust) => Inv'
<1> SUFFICES ASSUME Inv, Reconfigure \/ Trust
             PROVE  Inv'
  OBVIOUS
<1>1. TypeOK /\ FileOK /\ ReadOK /\ Disturb /\ excused' = excused /\ users' = users /\ hosts' = hosts
  BY DEF Inv, Reconfigure, Trust
<1>2. have' \subseteq Files
  BY <1>1 DEF Reconfigure, Trust, TypeOK, Files
<1>3. FileOK'
  BY <1>1 DEF FileOK
<1>4. QED
  BY <1>1, <1>2, <1>3, DisturbIs DEF Inv

LEMMA StutterNext == Inv /\ UNCHANGED vars => Inv'
<1> SUFFICES ASSUME Inv, UNCHANGED vars
             PROVE  Inv'
  OBVIOUS
<1>1. /\ hosts' = hosts /\ env' = env /\ have' = have /\ up' = up /\ script' = script
      /\ users' = users /\ excused' = excused /\ last' = last
  BY DEF vars
<1>2. TypeOK' /\ FileOK' /\ ReadOK' /\ TextOK' /\ UninstallOK'
  BY <1>1 DEF Inv, TypeOK, FileOK, ReadOK, TextOK, UninstallOK, Goes, Fresh
<1>3. InstallOK'
  BY <1>1 DEF Inv, InstallOK, Comes, Started, Fresh, CanRoute, Route, HasProgram
<1>4. DoneIsSeen' /\ UndoneIsGone'
  BY <1>1 DEF Inv, DoneIsSeen, UndoneIsGone, Checked, HasProgram, CanRoute, RouteInstalled,
              NetdInPlace, BlockInstalled
<1>5. QED
  BY <1>2, <1>3, <1>4 DEF Inv

LEMMA Always == Spec => []Inv
<1>1. Inv /\ [Next]_vars => Inv'
  BY InstallNext, UninstallNext, DoNext, FailNext, FinishNext, EditNext, OthersNext, StutterNext
     DEF Next
<1>2. QED
  BY InitInv, <1>1, PTL DEF Spec

-----------------------------------------------------------------------------
\* No line of a user's in the hosts file is lost, moved past another or joined to one,
\* however many installs and removals ran, failed at any step or began again, and
\* whatever became of the block's markers meanwhile (replaceHostsBlock).  A script that
\* runs after an edit it has not read loses that edit and nothing before it; after a text
\* that printf made something else of, nothing is said.
THEOREM UsersKeptHolds == Spec => []UsersKept
<1>1. Inv => UsersKept
  BY DEF Inv, FileOK, UsersKept, Good
<1>2. QED
  BY Always, <1>1, PTL

\* An install that has run through leaves what check looks for, on a machine in any
\* state, and a second one would write the same file.
THEOREM DoneIsSeenHolds == Spec => []DoneIsSeen
<1>1. Inv => DoneIsSeen
  BY DEF Inv
<1>2. QED
  BY Always, <1>1, PTL

\* A removal that has run through leaves no file of any install's or stack's, and no
\* block, though the resolver has changed since the install.
THEOREM UndoneIsGoneHolds == Spec => []UndoneIsGone
<1>1. Inv => UndoneIsGone
  BY DEF Inv
<1>2. QED
  BY Always, <1>1, PTL

=============================================================================
