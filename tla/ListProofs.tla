----------------------------- MODULE ListProofs -----------------------------
(***************************************************************************)
(* Lemmas about the operators of Lists, by induction on the length of      *)
(* what they have read.  Induction is taken as the fact that a set of      *)
(* naturals that is not empty has a least element, which involves no       *)
(* operator as a parameter.                                                *)
(***************************************************************************)
EXTENDS Lists, WellFoundedInduction, TLAPS

\* A set of naturals that is not empty has a least element.
LEMMA LeastElement ==
  ASSUME NEW T \in SUBSET Nat, T # {}
  PROVE  \E x \in T : \A y \in T : x <= y
<1>1. \E x \in T : \A y \in T : ~ (<<y, x>> \in OpToRel(<, Nat))
  BY NatLessThanWellFounded, WFMin
<1>2. \A x, y \in Nat : ~ (<<y, x>> \in OpToRel(<, Nat)) => x <= y
  BY DEF OpToRel
<1> QED
  BY <1>1, <1>2

\* Induction up to m over a set.
LEMMA UpTo ==
  ASSUME NEW m \in Nat, NEW T, 0 \in T, \A n \in 0..(m - 1) : n \in T => n + 1 \in T
  PROVE  \A n \in 0..m : n \in T
<1> DEFINE Rest == (0..m) \ T
<1> SUFFICES ASSUME Rest # {} PROVE FALSE
  OBVIOUS
<1>1. PICK x \in Rest : \A y \in Rest : x <= y
  <2>1. Rest \in SUBSET Nat
    OBVIOUS
  <2> HIDE DEF Rest
  <2> QED
    BY <2>1, LeastElement
<1>2. x - 1 \in 0..(m - 1) /\ x - 1 \in T
  BY <1>1
<1> QED
  BY <1>1, <1>2

\* The step of the loop in Without.
Loop(s, gone, kept, m) ==
  kept = [n \in 0..m |->
            IF n = 0 THEN <<>>
            ELSE IF s[n] \in gone THEN kept[n - 1] ELSE Append(kept[n - 1], s[n])]

\* There is a function that satisfies the equation Without is defined by.
LEMMA LoopExists ==
  ASSUME NEW s, NEW gone, NEW m \in Nat
  PROVE  \E kept : Loop(s, gone, kept, m)
<1> DEFINE T == {n \in Nat : \E kept : Loop(s, gone, kept, n)}
<1>1. 0 \in T
  <2>1. Loop(s, gone, [n \in 0..0 |-> <<>>], 0)
    BY DEF Loop
  <2> QED
    BY <2>1
<1>2. ASSUME NEW n \in 0..(m - 1), n \in T PROVE n + 1 \in T
  <2>1. PICK kept : Loop(s, gone, kept, n)
    BY <1>2
  <2> DEFINE more == [k \in 0..(n + 1) |->
        IF k <= n THEN kept[k]
        ELSE IF s[k] \in gone THEN kept[n] ELSE Append(kept[n], s[k])]
  <2>2. \A k \in 0..n : more[k] = kept[k]
    OBVIOUS
  <2>3. \A k \in 0..n : kept[k] = IF k = 0 THEN <<>>
            ELSE IF s[k] \in gone THEN kept[k - 1] ELSE Append(kept[k - 1], s[k])
    BY <2>1 DEF Loop
  <2>4. \A k \in 0..(n + 1) : more[k] = IF k = 0 THEN <<>>
            ELSE IF s[k] \in gone THEN more[k - 1] ELSE Append(more[k - 1], s[k])
    <3> SUFFICES ASSUME NEW k \in 0..(n + 1)
                 PROVE  more[k] = IF k = 0 THEN <<>>
                          ELSE IF s[k] \in gone THEN more[k - 1] ELSE Append(more[k - 1], s[k])
      OBVIOUS
    <3>1. CASE k = n + 1
      BY <3>1, <2>2
    <3>2. CASE k \in 1..n
      <4>1. k - 1 \in 0..n /\ k # 0 /\ k \in 0..n
        BY <3>2
      <4> HIDE DEF more
      <4> QED
        BY <4>1, <2>2, <2>3
    <3>3. CASE k = 0
      BY <3>3, <2>2, <2>3
    <3> QED
      BY <3>1, <3>2, <3>3
  <2>5. more = [k \in 0..(n + 1) |-> more[k]]
    OBVIOUS
  <2> HIDE DEF more
  <2>6. Loop(s, gone, more, n + 1)
    BY <2>4, <2>5 DEF Loop
  <2> QED
    BY <2>6
<1> HIDE DEF T
<1>3. m \in T
  BY <1>1, <1>2, UpTo
<1> QED
  BY <1>3 DEF T

\* What the loop has kept after n lines: the lines read that are not gone, in the
\* order they were in.
Subsequence(t, s, gone, n) ==
  /\ \A i \in 1..Len(t) : \E k \in 1..n : t[i] = s[k] /\ s[k] \notin gone
  /\ \A k \in 1..n : s[k] \notin gone => \E i \in 1..Len(t) : t[i] = s[k]
  /\ \A i, j \in 1..Len(t) : i < j => \E k, l \in 1..n : k < l /\ t[i] = s[k] /\ t[j] = s[l]

\* One more line read.
LEMMA SubsequenceGrows ==
  ASSUME NEW S, NEW s \in Seq(S), NEW gone, NEW n \in 0..(Len(s) - 1), NEW t \in Seq(S),
         Len(t) <= n, Subsequence(t, s, gone, n)
  PROVE  LET u == IF s[n + 1] \in gone THEN t ELSE Append(t, s[n + 1])
         IN  u \in Seq(S) /\ Len(u) <= n + 1 /\ Subsequence(u, s, gone, n + 1)
<1>0. n + 1 \in 1..Len(s) /\ s[n + 1] \in S /\ n \in Nat /\ Len(t) \in Nat
  OBVIOUS
<1>1. CASE s[n + 1] \in gone
  BY <1>0, <1>1 DEF Subsequence
<1>2. CASE s[n + 1] \notin gone
  <2> DEFINE u == Append(t, s[n + 1])
  <2>1. u \in Seq(S) /\ Len(u) = Len(t) + 1 /\ u[Len(t) + 1] = s[n + 1]
    BY <1>0
  <2>2. \A i \in 1..Len(t) : u[i] = t[i]
    BY <1>0
  <2> HIDE DEF u
  <2>3. \A i \in 1..Len(u) : \E k \in 1..(n + 1) : u[i] = s[k] /\ s[k] \notin gone
    <3> SUFFICES ASSUME NEW i \in 1..Len(u)
                 PROVE  \E k \in 1..(n + 1) : u[i] = s[k] /\ s[k] \notin gone
      OBVIOUS
    <3>1. CASE i = Len(t) + 1
      BY <1>0, <1>2, <2>1, <3>1
    <3>2. CASE i \in 1..Len(t)
      <4>1. PICK k \in 1..n : t[i] = s[k] /\ s[k] \notin gone
        BY <3>2 DEF Subsequence
      <4> QED
        BY <1>0, <2>2, <3>2, <4>1
    <3> QED
      BY <1>0, <2>1, <3>1, <3>2
  <2>4. \A k \in 1..(n + 1) : s[k] \notin gone => \E i \in 1..Len(u) : u[i] = s[k]
    <3> SUFFICES ASSUME NEW k \in 1..(n + 1), s[k] \notin gone
                 PROVE  \E i \in 1..Len(u) : u[i] = s[k]
      OBVIOUS
    <3>1. CASE k = n + 1
      BY <1>0, <2>1, <3>1
    <3>2. CASE k \in 1..n
      <4>1. PICK i \in 1..Len(t) : t[i] = s[k]
        BY <3>2 DEF Subsequence
      <4> QED
        BY <1>0, <2>1, <2>2, <4>1
    <3> QED
      BY <1>0, <3>1, <3>2
  <2>5. \A i, j \in 1..Len(u) : i < j =>
          \E k, l \in 1..(n + 1) : k < l /\ u[i] = s[k] /\ u[j] = s[l]
    <3> SUFFICES ASSUME NEW i \in 1..Len(u), NEW j \in 1..Len(u), i < j
                 PROVE  \E k, l \in 1..(n + 1) : k < l /\ u[i] = s[k] /\ u[j] = s[l]
      OBVIOUS
    <3>0. i \in 1..Len(t)
      BY <1>0, <2>1
    <3>1. CASE j = Len(t) + 1
      <4>1. PICK k \in 1..n : t[i] = s[k]
        BY <3>0 DEF Subsequence
      <4> QED
        BY <1>0, <2>1, <2>2, <3>0, <3>1, <4>1
    <3>2. CASE j \in 1..Len(t)
      <4>1. PICK k \in 1..n, l \in 1..n : k < l /\ t[i] = s[k] /\ t[j] = s[l]
        BY <3>0, <3>2 DEF Subsequence
      <4> QED
        BY <1>0, <2>2, <3>0, <3>2, <4>1, SMTT(30)
    <3>3. j = Len(t) + 1 \/ j \in 1..Len(t)
      BY <1>0, <2>1, SMTT(30)
    <3> QED
      BY <3>1, <3>2, <3>3
  <2>6. Subsequence(u, s, gone, n + 1)
    BY <2>3, <2>4, <2>5 DEF Subsequence
  <2> QED
    BY <1>0, <1>2, <2>1, <2>6 DEF u
<1> QED
  BY <1>1, <1>2

\* Without keeps the lines that are not gone, each where it was among the others.
THEOREM WithoutKeepsTheRest ==
  ASSUME NEW S, NEW s \in Seq(S), NEW gone
  PROVE  /\ Without(s, gone) \in Seq(S)
         /\ Len(Without(s, gone)) <= Len(s)
         /\ Subsequence(Without(s, gone), s, gone, Len(s))
<1> DEFINE kept == CHOOSE f : Loop(s, gone, f, Len(s))
<1>0. Len(s) \in Nat
  OBVIOUS
<1>1. Loop(s, gone, kept, Len(s))
  BY <1>0, LoopExists
<1>2. Without(s, gone) = kept[Len(s)]
  BY DEF Without, Loop
<1> HIDE DEF kept
<1>3. \A n \in 0..Len(s) : kept[n] = IF n = 0 THEN <<>>
        ELSE IF s[n] \in gone THEN kept[n - 1] ELSE Append(kept[n - 1], s[n])
  BY <1>1 DEF Loop
<1> DEFINE T == {n \in Nat : kept[n] \in Seq(S) /\ Len(kept[n]) <= n /\ Subsequence(kept[n], s, gone, n)}
<1>4. 0 \in T
  <2>1. kept[0] = <<>>
    BY <1>0, <1>3
  <2>2. Subsequence(<<>>, s, gone, 0)
    BY DEF Subsequence
  <2>3. kept[0] \in Seq(S) /\ Len(kept[0]) <= 0
    BY <2>1
  <2> HIDE DEF T
  <2> QED
    BY <2>1, <2>2, <2>3 DEF T
<1>5. ASSUME NEW n \in 0..(Len(s) - 1), n \in T PROVE n + 1 \in T
  <2>1. kept[n + 1] = IF s[n + 1] \in gone THEN kept[n] ELSE Append(kept[n], s[n + 1])
    <3>1. n + 1 \in 0..Len(s) /\ n + 1 # 0 /\ n + 1 - 1 = n
      BY <1>0
    <3> QED
      BY <1>3, <3>1
  <2>2. n \in Nat /\ kept[n] \in Seq(S) /\ Len(kept[n]) <= n /\ Subsequence(kept[n], s, gone, n)
    BY <1>5
  <2> HIDE DEF T
  <2>3. kept[n + 1] \in Seq(S) /\ Len(kept[n + 1]) <= n + 1 /\ Subsequence(kept[n + 1], s, gone, n + 1)
    BY <2>1, <2>2, SubsequenceGrows
  <2> QED
    BY <2>2, <2>3 DEF T
<1> HIDE DEF T
<1>6. \A n \in 0..(Len(s) - 1) : n \in T => n + 1 \in T
  BY <1>5
<1>7. \A n \in 0..Len(s) : n \in T
  BY <1>0, <1>4, <1>6, UpTo
<1>8. Len(s) \in T
  BY <1>0, <1>7
<1> QED
  BY <1>2, <1>8 DEF T

\* Nothing is kept of nothing.
LEMMA WithoutEmpty ==
  ASSUME NEW gone
  PROVE  Without(<<>>, gone) = <<>>
<1> DEFINE t == Without(<<>>, gone)
<1>1. <<>> \in Seq({}) /\ Len(<<>>) = 0
  OBVIOUS
<1>2. t \in Seq({}) /\ Len(t) <= 0
  BY <1>1, WithoutKeepsTheRest
<1> HIDE DEF t
<1>3. Len(t) = 0
  BY <1>2
<1>4. t = <<>>
  BY <1>2, <1>3
<1> QED
  BY <1>4 DEF t

\* Two loops over lists that agree so far, on what is gone too, have kept the same.
LEMMA LoopsAgree ==
  ASSUME NEW s, NEW t, NEW gone, NEW lost, NEW m \in Nat, NEW l \in Nat, NEW f, NEW g,
         Loop(s, gone, f, m), Loop(t, lost, g, l), NEW n \in Nat, n <= m, n <= l,
         \A i \in 1..n : s[i] = t[i] /\ (s[i] \in gone <=> t[i] \in lost)
  PROVE  f[n] = g[n]
<1> DEFINE T == {k \in Nat : f[k] = g[k]}
<1>1. \A k \in 0..n :
        /\ f[k] = IF k = 0 THEN <<>>
                  ELSE IF s[k] \in gone THEN f[k - 1] ELSE Append(f[k - 1], s[k])
        /\ g[k] = IF k = 0 THEN <<>>
                  ELSE IF t[k] \in lost THEN g[k - 1] ELSE Append(g[k - 1], t[k])
  <2>1. \A k \in 0..n : k \in 0..m /\ k \in 0..l
    OBVIOUS
  <2> QED
    BY <2>1 DEF Loop
<1>2. 0 \in T
  BY <1>1
<1>3. ASSUME NEW k \in 0..(n - 1), k \in T PROVE k + 1 \in T
  <2>1. k + 1 \in 1..n /\ k + 1 \in 0..n /\ (k + 1) - 1 = k /\ k + 1 # 0 /\ k + 1 \in Nat
    OBVIOUS
  <2>2. f[k] = g[k]
    BY <1>3
  <2> HIDE DEF T
  <2>3. f[k + 1] = g[k + 1]
    BY <1>1, <2>1, <2>2
  <2> QED
    BY <2>1, <2>3 DEF T
<1> HIDE DEF T
<1>4. n \in T
  BY <1>2, <1>3, UpTo
<1> QED
  BY <1>4 DEF T

\* Without is what some loop has kept in the end.
LEMMA WithoutIsLoop ==
  ASSUME NEW S, NEW s \in Seq(S), NEW gone
  PROVE  \E f : Loop(s, gone, f, Len(s)) /\ Without(s, gone) = f[Len(s)]
<1> DEFINE kept == CHOOSE f : Loop(s, gone, f, Len(s))
<1>1. Len(s) \in Nat
  OBVIOUS
<1>2. Loop(s, gone, kept, Len(s))
  BY <1>1, LoopExists
<1>3. Without(s, gone) = kept[Len(s)]
  BY DEF Without, Loop
<1> QED
  BY <1>2, <1>3

\* Only what is in the list matters.
LEMMA WithoutTheSame ==
  ASSUME NEW S, NEW s \in Seq(S), NEW gone, NEW lost,
         \A i \in 1..Len(s) : s[i] \in gone <=> s[i] \in lost
  PROVE  Without(s, gone) = Without(s, lost)
<1>1. Len(s) \in Nat
  OBVIOUS
<1>2. PICK f : Loop(s, gone, f, Len(s)) /\ Without(s, gone) = f[Len(s)]
  BY WithoutIsLoop
<1>3. PICK g : Loop(s, lost, g, Len(s)) /\ Without(s, lost) = g[Len(s)]
  BY WithoutIsLoop
<1>4. f[Len(s)] = g[Len(s)]
  BY <1>1, <1>2, <1>3, LoopsAgree
<1> QED
  BY <1>2, <1>3, <1>4

\* One more item is kept at the end, or it is gone.
LEMMA WithoutAppend ==
  ASSUME NEW S, NEW s \in Seq(S), NEW x \in S, NEW gone
  PROVE  Without(Append(s, x), gone) =
           IF x \in gone THEN Without(s, gone) ELSE Append(Without(s, gone), x)
<1> DEFINE t == Append(s, x)
<1>1. /\ Len(s) \in Nat /\ t \in Seq(S) /\ Len(t) = Len(s) + 1 /\ t[Len(s) + 1] = x
      /\ \A i \in 1..Len(s) : t[i] = s[i]
  OBVIOUS
<1> HIDE DEF t
<1>2. PICK f : Loop(s, gone, f, Len(s)) /\ Without(s, gone) = f[Len(s)]
  BY WithoutIsLoop
<1>3. PICK g : Loop(t, gone, g, Len(t)) /\ Without(t, gone) = g[Len(t)]
  BY <1>1, WithoutIsLoop
<1>4. f[Len(s)] = g[Len(s)]
  <2>1. Len(s) <= Len(t) /\ Len(t) \in Nat
    BY <1>1
  <2>2. \A i \in 1..Len(s) : s[i] = t[i] /\ (s[i] \in gone <=> t[i] \in gone)
    BY <1>1
  <2>3. Loop(s, gone, f, Len(s)) /\ Loop(t, gone, g, Len(t))
    BY <1>2, <1>3
  <2>4. Len(s) \in Nat /\ Len(s) <= Len(s)
    BY <1>1
  <2> QED
    BY ONLY <2>1, <2>2, <2>3, <2>4, LoopsAgree
<1>5. g[Len(s) + 1] = IF x \in gone THEN g[Len(s)] ELSE Append(g[Len(s)], x)
  <2>1. Len(s) + 1 \in 0..Len(t) /\ Len(s) + 1 # 0 /\ (Len(s) + 1) - 1 = Len(s)
    BY <1>1
  <2> QED
    BY <1>1, <1>3, <2>1 DEF Loop
<1> QED
  BY <1>1, <1>2, <1>3, <1>4, <1>5 DEF t

\* Newest drops the first lines, as many as there are over the limit, and keeps the
\* rest as it is.
Dropped(s, n) == IF n > 0 /\ Len(s) > n THEN Len(s) - n ELSE 0

\* What AppendRun writes under a limit is a suffix of what it has.
LEMMA NewestIsSuffix ==
  ASSUME NEW S, NEW s \in Seq(S), NEW n \in Int
  PROVE  /\ Dropped(s, n) \in 0..Len(s)
         /\ Newest(s, n) \in Seq(S)
         /\ Len(Newest(s, n)) = Len(s) - Dropped(s, n)
         /\ \A i \in 1..Len(Newest(s, n)) : Newest(s, n)[i] = s[i + Dropped(s, n)]
<1>1. CASE n > 0 /\ Len(s) > n
  <2> DEFINE d == Len(s) - n
  <2>1. d \in 0..Len(s) /\ Len(s) \in Nat
    BY <1>1
  <2>2. Newest(s, n) = SubSeq(s, d + 1, Len(s)) /\ Dropped(s, n) = d
    BY <1>1 DEF Newest, Dropped
  <2>3. /\ SubSeq(s, d + 1, Len(s)) \in Seq(S)
        /\ Len(SubSeq(s, d + 1, Len(s))) = Len(s) - d
        /\ \A i \in 1..(Len(s) - d) : SubSeq(s, d + 1, Len(s))[i] = s[i + d]
    BY <2>1
  <2> QED
    BY <2>1, <2>2, <2>3
<1>2. CASE ~(n > 0 /\ Len(s) > n)
  BY <1>2 DEF Newest, Dropped
<1> QED
  BY <1>1, <1>2
=============================================================================
