----------------------------- MODULE FilterProofs -----------------------------
(***************************************************************************)
(* Lemmas about Filters, by induction on the length of a sequence.  The    *)
(* library's induction theorems take a predicate, which the provers cannot *)
(* instantiate; here induction is stated with a set, SetInduction and      *)
(* SeqInduction, and proved from the least element of a set of naturals.   *)
(***************************************************************************)
EXTENDS Filters, WellFoundedInduction, TLAPS

LEMMA LeastElement ==
  ASSUME NEW T, T \subseteq Nat, T # {}
  PROVE  \E x \in T : \A y \in T : ~(y < x)
<1>1. PICK x \in T : \A y \in T : ~(<<y, x>> \in OpToRel(<, Nat))
  BY NatLessThanWellFounded, WFMin
<1>2. \A y \in T : y < x => <<y, x>> \in OpToRel(<, Nat)
  BY DEF OpToRel
<1>3. \A y \in T : ~(y < x)
  BY <1>1, <1>2
<1> QED BY <1>3

\* Induction on the naturals.
LEMMA SetInduction ==
  ASSUME NEW S, 0 \in S, \A n \in Nat : n \in S => n + 1 \in S
  PROVE  Nat \subseteq S
<1> SUFFICES ASSUME Nat \ S # {} PROVE FALSE
  OBVIOUS
<1>1. PICK x \in Nat \ S : \A y \in Nat \ S : ~(y < x)
  BY LeastElement
<1>2. x # 0
  OBVIOUS
<1>3. x - 1 \in Nat /\ x - 1 \notin S
  BY <1>1, <1>2
<1> QED BY <1>1, <1>3

\* Induction on the sequences over T: from the empty one, by appending.
LEMMA SeqInduction ==
  ASSUME NEW T, NEW Q, <<>> \in Q,
         \A s \in Seq(T), x \in T : s \in Q => Append(s, x) \in Q
  PROVE  Seq(T) \subseteq Q
<1> DEFINE S == {n \in Nat : \A s \in Seq(T) : Len(s) = n => s \in Q}
<1>1. 0 \in S
  <2>1. \A s \in Seq(T) : Len(s) = 0 => s = <<>>
    OBVIOUS
  <2> QED BY <2>1
<1>2. ASSUME NEW n \in Nat, n \in S
      PROVE  n + 1 \in S
  <2> SUFFICES ASSUME NEW s \in Seq(T), Len(s) = n + 1
               PROVE  s \in Q
    BY <1>2
  <2> DEFINE f == [m \in 1..n |-> s[m]]
  <2>1. f \in Seq(T) /\ Len(f) = n /\ s[n + 1] \in T
    OBVIOUS
  <2>2. s = Append(f, s[n + 1])
    OBVIOUS
  <2>3. f \in Q
    BY <1>2, <2>1
  <2> QED BY <2>1, <2>2, <2>3
<1> HIDE DEF S
<1>3. Nat \subseteq S
  BY <1>1, <1>2, SetInduction
<1> QED BY <1>3 DEF S
LEMMA ConcatAppend ==
  ASSUME NEW T
  PROVE  \A a, b \in Seq(T) : \A x \in T : a \o Append(b, x) = Append(a \o b, x)
OBVIOUS

\* Sequences with the same members are the same.
LEMMA SameSeq ==
  ASSUME NEW T, NEW a \in Seq(T), NEW b \in Seq(T), Len(a) = Len(b),
         \A n \in 1..Len(a) : a[n] = b[n]
  PROVE  a = b
OBVIOUS
-----------------------------------------------------------------------------
(* Only *)

\* What one prefix is filtered to, from the one before.
LEMMA OnlyUpToDef ==
  ASSUME NEW s, Len(s) \in Nat, NEW S
  PROVE  \A n \in 0..Len(s) : OnlyUpTo(s, S)[n] =
           IF n = 0 THEN <<>>
           ELSE IF s[n] \in S THEN Append(OnlyUpTo(s, S)[n-1], s[n]) ELSE OnlyUpTo(s, S)[n-1]
<1> DEFINE Is(g, N) ==
             g = [n \in 0..N |-> IF n = 0 THEN <<>>
                                 ELSE IF s[n] \in S THEN Append(g[n-1], s[n]) ELSE g[n-1]]
           Q == {N \in Nat : \E g : Is(g, N)}
<1>1. 0 \in Q
  <2>1. Is([n \in 0..0 |-> <<>>], 0)
    OBVIOUS
  <2> QED BY <2>1
<1>2. ASSUME NEW N \in Nat, N \in Q
      PROVE  N + 1 \in Q
  <2>1. PICK g : Is(g, N)
    BY <1>2
  <2> DEFINE h == [n \in 0..(N+1) |-> IF n <= N THEN g[n]
                                      ELSE IF s[n] \in S THEN Append(g[n-1], s[n]) ELSE g[n-1]]
  <2>2. \A n \in 0..N : g[n] = IF n = 0 THEN <<>>
                               ELSE IF s[n] \in S THEN Append(g[n-1], s[n]) ELSE g[n-1]
    BY <2>1
  <2>3. ASSUME NEW n \in 0..(N+1)
        PROVE  h[n] = IF n = 0 THEN <<>>
                      ELSE IF s[n] \in S THEN Append(h[n-1], s[n]) ELSE h[n-1]
    BY <2>2
  <2>4. Is(h, N+1)
    BY <2>3
  <2>5. \E g1 : Is(g1, N+1)
    <3> HIDE DEF h, Is
    <3> QED BY <2>4
  <2> QED BY <2>5
<1>3. Len(s) \in Q
  <2> HIDE DEF Q
  <2>1. Nat \subseteq Q
    BY <1>1, <1>2, SetInduction
  <2> QED BY <2>1
<1>4. \E g : Is(g, Len(s))
  BY <1>3
<1>5. Is(CHOOSE g : Is(g, Len(s)), Len(s))
  BY <1>4
<1>6. Is(OnlyUpTo(s, S), Len(s))
  BY <1>5 DEF OnlyUpTo
<1> DEFINE u == OnlyUpTo(s, S)
<1>7. Is(u, Len(s))
  BY <1>6
<1> HIDE DEF u
<1>8. \A n \in 0..Len(s) : u[n] = IF n = 0 THEN <<>>
                               ELSE IF s[n] \in S THEN Append(u[n-1], s[n]) ELSE u[n-1]
  BY <1>7
<1> QED BY <1>8 DEF u

LEMMA OnlyEmpty ==
  ASSUME NEW S
  PROVE  Only(<<>>, S) = <<>>
<1>1. Len(<<>>) = 0
  OBVIOUS
<1>2. OnlyUpTo(<<>>, S)[0] = <<>>
  BY <1>1, OnlyUpToDef
<1> QED BY <1>1, <1>2 DEF Only

\* The filter of an appended member is the filter, and the member if it passes.
LEMMA OnlyAppend ==
  ASSUME NEW T, NEW s \in Seq(T), NEW x \in T, NEW S
  PROVE  Only(Append(s, x), S) = IF x \in S THEN Append(Only(s, S), x) ELSE Only(s, S)
<1> DEFINE a == Append(s, x)
           L == Len(s)
<1>1. a \in Seq(T) /\ Len(a) = L + 1 /\ a[L + 1] = x /\ L \in Nat
  OBVIOUS
<1>2. \A n \in 1..L : a[n] = s[n]
  OBVIOUS
<1>3. \A n \in 0..(L+1) : OnlyUpTo(a, S)[n] =
          IF n = 0 THEN <<>>
          ELSE IF a[n] \in S THEN Append(OnlyUpTo(a, S)[n-1], a[n]) ELSE OnlyUpTo(a, S)[n-1]
  <2> HIDE DEF a
  <2>1. Len(a) \in Nat /\ 0..(L+1) = 0..Len(a)
    BY <1>1
  <2>2. \A n \in 0..Len(a) : OnlyUpTo(a, S)[n] =
          IF n = 0 THEN <<>>
          ELSE IF a[n] \in S THEN Append(OnlyUpTo(a, S)[n-1], a[n]) ELSE OnlyUpTo(a, S)[n-1]
    BY <2>1, OnlyUpToDef
  <2> QED BY <2>1, <2>2
<1>4. \A n \in 0..L : OnlyUpTo(s, S)[n] =
          IF n = 0 THEN <<>>
          ELSE IF s[n] \in S THEN Append(OnlyUpTo(s, S)[n-1], s[n]) ELSE OnlyUpTo(s, S)[n-1]
  BY OnlyUpToDef
<1> DEFINE Q == {n \in Nat : n <= L => OnlyUpTo(a, S)[n] = OnlyUpTo(s, S)[n]}
<1>5. L \in Q
  <2> HIDE DEF a
  <2>1. 0 \in Q
    BY <1>1, <1>3, <1>4
  <2>2. ASSUME NEW n \in Nat, n \in Q
        PROVE  n + 1 \in Q
    <3> SUFFICES ASSUME n + 1 <= L
                 PROVE  OnlyUpTo(a, S)[n + 1] = OnlyUpTo(s, S)[n + 1]
      OBVIOUS
    <3>1. n + 1 \in 1..L /\ n + 1 \in 0..L /\ n + 1 \in 0..(L+1) /\ (n + 1) - 1 = n /\ n + 1 # 0
      BY <1>1
    <3>2. OnlyUpTo(a, S)[n] = OnlyUpTo(s, S)[n]
      BY <2>2, <3>1, <1>1
    <3> QED BY <3>1, <3>2, <1>2, <1>3, <1>4
  <2> HIDE DEF Q
  <2>3. Nat \subseteq Q
    BY <2>1, <2>2, SetInduction
  <2> QED BY <2>3, <1>1
<1>6. OnlyUpTo(a, S)[L + 1] = IF x \in S THEN Append(OnlyUpTo(s, S)[L], x) ELSE OnlyUpTo(s, S)[L]
  <2>1. OnlyUpTo(a, S)[L] = OnlyUpTo(s, S)[L]
    BY <1>5, <1>1
  <2>2. L + 1 \in 0..(L+1) /\ L + 1 # 0 /\ (L + 1) - 1 = L
    BY <1>1
  <2> HIDE DEF a, L
  <2> QED BY <1>1, <1>3, <2>1, <2>2
<1> QED
  <2> HIDE DEF a, L
  <2>1. Only(a, S) = OnlyUpTo(a, S)[L + 1] /\ Only(s, S) = OnlyUpTo(s, S)[L]
    BY <1>1 DEF Only, L
  <2> QED BY <2>1, <1>6 DEF a

\* The filter keeps members of the sequence that pass, and no more of them.
LEMMA OnlyType ==
  ASSUME NEW T, NEW s \in Seq(T), NEW S
  PROVE  Only(s, S) \in Seq(T \cap S) /\ Only(s, S) \in Seq(T) /\ Len(Only(s, S)) <= Len(s)
<1> DEFINE Q == {q \in Seq(T) : Only(q, S) \in Seq(T \cap S) /\ Len(Only(q, S)) <= Len(q)}
<1>1. <<>> \in Q
  <2>1. <<>> \in Seq(T) /\ <<>> \in Seq(T \cap S) /\ Len(<<>>) <= Len(<<>>)
    OBVIOUS
  <2>2. Only(<<>>, S) = <<>>
    BY OnlyEmpty
  <2> QED BY <2>1, <2>2
<1>2. ASSUME NEW q \in Seq(T), NEW x \in T, q \in Q
      PROVE  Append(q, x) \in Q
  <2>1. Append(q, x) \in Seq(T) /\ Len(Append(q, x)) = Len(q) + 1
    OBVIOUS
  <2>2. Only(Append(q, x), S) = IF x \in S THEN Append(Only(q, S), x) ELSE Only(q, S)
    BY OnlyAppend
  <2>3. Only(q, S) \in Seq(T \cap S) /\ Len(Only(q, S)) <= Len(q) /\ Len(q) \in Nat
    BY <1>2
  <2>4. Only(Append(q, x), S) \in Seq(T \cap S) /\ Len(Only(Append(q, x), S)) <= Len(q) + 1
    <3>1. ASSUME NEW o \in Seq(T \cap S), Len(o) <= Len(q), x \in S
          PROVE  Append(o, x) \in Seq(T \cap S) /\ Len(Append(o, x)) <= Len(q) + 1
      BY <2>3, <3>1
    <3>2. ASSUME NEW o \in Seq(T \cap S), Len(o) <= Len(q) PROVE Len(o) <= Len(q) + 1
      BY <2>3, <3>2
    <3> QED BY <2>2, <2>3, <3>1, <3>2
  <2> QED BY <2>1, <2>4
<1> HIDE DEF Q
<1>3. s \in Q
  BY <1>1, <1>2, SeqInduction
<1>4. Only(s, S) \in Seq(T \cap S) /\ Len(Only(s, S)) <= Len(s)
  BY <1>3 DEF Q
<1>5. Only(s, S) \in Seq(T)
  BY <1>4
<1> QED BY <1>4, <1>5

\* A filter takes a sequence piece by piece.
LEMMA OnlyConcat ==
  ASSUME NEW T, NEW a \in Seq(T), NEW b \in Seq(T), NEW S
  PROVE  Only(a \o b, S) = Only(a, S) \o Only(b, S)
<1> DEFINE Q == {q \in Seq(T) : Only(a \o q, S) = Only(a, S) \o Only(q, S)}
<1>1. <<>> \in Q
  <2>1. <<>> \in Seq(T) /\ a \o <<>> = a
    OBVIOUS
  <2>2. Only(<<>>, S) = <<>> /\ Only(a, S) \in Seq(T)
    BY OnlyEmpty, OnlyType
  <2>3. Only(a, S) \o <<>> = Only(a, S)
    BY <2>2
  <2> QED BY <2>1, <2>2, <2>3
<1>2. ASSUME NEW q \in Seq(T), NEW x \in T, q \in Q
      PROVE  Append(q, x) \in Q
  <2>1. Append(q, x) \in Seq(T) /\ a \o Append(q, x) = Append(a \o q, x) /\ a \o q \in Seq(T)
    OBVIOUS
  <2>2. Only(Append(q, x), S) = IF x \in S THEN Append(Only(q, S), x) ELSE Only(q, S)
    BY OnlyAppend
  <2>3. Only(Append(a \o q, x), S) = IF x \in S THEN Append(Only(a \o q, S), x) ELSE Only(a \o q, S)
    BY <2>1, OnlyAppend
  <2>4. Only(a, S) \in Seq(T) /\ Only(q, S) \in Seq(T)
    BY OnlyType
  <2>5. Only(a, S) \o Append(Only(q, S), x) = Append(Only(a, S) \o Only(q, S), x)
    BY <2>4, ConcatAppend
  <2>6. Only(a \o q, S) = Only(a, S) \o Only(q, S)
    BY <1>2
  <2>7. Only(a \o Append(q, x), S) = Only(a, S) \o Only(Append(q, x), S)
    BY <2>1, <2>2, <2>3, <2>5, <2>6
  <2> QED BY <2>1, <2>7
<1> HIDE DEF Q
<1>3. b \in Q
  BY <1>1, <1>2, SeqInduction
<1> QED BY <1>3 DEF Q

\* What passes as a whole is kept as it is.
LEMMA OnlyAll ==
  ASSUME NEW T, NEW s \in Seq(T), NEW S, T \subseteq S
  PROVE  Only(s, S) = s
<1> DEFINE Q == {q \in Seq(T) : Only(q, S) = q}
<1>1. <<>> \in Q
  <2>1. <<>> \in Seq(T)
    OBVIOUS
  <2> QED BY <2>1, OnlyEmpty
<1>2. ASSUME NEW q \in Seq(T), NEW x \in T, q \in Q
      PROVE  Append(q, x) \in Q
  <2>1. Only(Append(q, x), S) = IF x \in S THEN Append(Only(q, S), x) ELSE Only(q, S)
    BY OnlyAppend
  <2>2. Append(q, x) \in Seq(T)
    OBVIOUS
  <2> QED BY <1>2, <2>1, <2>2
<1> HIDE DEF Q
<1>3. s \in Q
  BY <1>1, <1>2, SeqInduction
<1> QED BY <1>3 DEF Q

\* Nothing is left of what fails as a whole.
LEMMA OnlyNone ==
  ASSUME NEW T, NEW s \in Seq(T), NEW S, T \cap S = {}
  PROVE  Only(s, S) = <<>>
<1>1. Only(s, S) \in Seq({})
  BY OnlyType
<1> QED BY <1>1
-----------------------------------------------------------------------------
(* Shifted *)

LEMMA ShiftedType ==
  ASSUME NEW ts \in Seq(Int), NEW d \in Int
  PROVE  Shifted(ts, d) \in Seq(Int) /\ Len(Shifted(ts, d)) = Len(ts)
BY DEF Shifted

LEMMA ShiftedEmpty ==
  ASSUME NEW d
  PROVE  Shifted(<<>>, d) = <<>>
BY DEF Shifted

LEMMA ShiftedConcat ==
  ASSUME NEW a \in Seq(Int), NEW b \in Seq(Int), NEW d \in Int
  PROVE  Shifted(a \o b, d) = Shifted(a, d) \o Shifted(b, d)
<1> DEFINE ab == Shifted(a \o b, d)
           sa == Shifted(a, d)
           sb == Shifted(b, d)
<1>1. a \o b \in Seq(Int) /\ Len(a \o b) = Len(a) + Len(b)
  OBVIOUS
<1>2. /\ ab \in Seq(Int) /\ sa \in Seq(Int) /\ sb \in Seq(Int)
      /\ Len(ab) = Len(a) + Len(b) /\ Len(sa) = Len(a) /\ Len(sb) = Len(b)
  BY <1>1, ShiftedType
<1>3. /\ \A n \in 1..Len(a) : sa[n] = a[n] + d
      /\ \A n \in 1..Len(b) : sb[n] = b[n] + d
  BY DEF Shifted
<1>4. \A n \in 1..(Len(a) + Len(b)) : ab[n] = (a \o b)[n] + d
  BY <1>1 DEF Shifted
<1> HIDE DEF ab, sa, sb
<1>5. sa \o sb \in Seq(Int) /\ Len(sa \o sb) = Len(a) + Len(b)
  BY <1>2
<1>6. ASSUME NEW n \in 1..(Len(a) + Len(b))
      PROVE  ab[n] = (sa \o sb)[n]
  <2>1. CASE n \in 1..Len(a)
    <3>1. (a \o b)[n] = a[n] /\ (sa \o sb)[n] = sa[n]
      BY <1>2, <2>1
    <3> QED BY <3>1, <1>3, <1>4, <2>1
  <2>2. CASE n \notin 1..Len(a)
    <3>1. n - Len(a) \in 1..Len(b)
      BY <2>2
    <3>2. (a \o b)[n] = b[n - Len(a)] /\ (sa \o sb)[n] = sb[n - Len(a)]
      BY <1>2, <2>2
    <3> QED BY <3>1, <3>2, <1>3, <1>4
  <2> QED BY <2>1, <2>2
<1>7. ab = sa \o sb
  BY <1>2, <1>5, <1>6, SameSeq
<1> QED BY <1>7 DEF ab, sa, sb

LEMMA JoinLen ==
  ASSUME NEW T, NEW a \in Seq(T), NEW b \in Seq(T)
  PROVE  /\ a \o b \in Seq(T) /\ Len(a \o b) = Len(a) + Len(b)
         /\ Len(a) \in Nat /\ Len(b) \in Nat
OBVIOUS

\* The times of two sequences joined are the times of the one, then of the other.
LEMMA TimesInEmpty == TimesIn(<<>>) = <<>>
BY DEF TimesIn

LEMMA TimesInType ==
  ASSUME NEW T, NEW V, \A x \in T : x.t \in V, NEW s \in Seq(T)
  PROVE  TimesIn(s) \in Seq(V) /\ Len(TimesIn(s)) = Len(s)
BY DEF TimesIn

LEMMA TimesInConcat ==
  ASSUME NEW T, NEW V, \A x \in T : x.t \in V, NEW a \in Seq(T), NEW b \in Seq(T)
  PROVE  TimesIn(a \o b) = TimesIn(a) \o TimesIn(b)
<1>1. a \o b \in Seq(T) /\ Len(a \o b) = Len(a) + Len(b) /\ Len(a) \in Nat /\ Len(b) \in Nat
  OBVIOUS
<1>2. /\ TimesIn(a) \in Seq(V) /\ Len(TimesIn(a)) = Len(a)
      /\ TimesIn(b) \in Seq(V) /\ Len(TimesIn(b)) = Len(b)
      /\ TimesIn(a \o b) \in Seq(V) /\ Len(TimesIn(a \o b)) = Len(a \o b)
  BY <1>1, TimesInType
<1>3. TimesIn(a) \o TimesIn(b) \in Seq(V) /\ Len(TimesIn(a) \o TimesIn(b)) = Len(a) + Len(b)
  <2>1. \A p, q \in Seq(V) : p \o q \in Seq(V) /\ Len(p \o q) = Len(p) + Len(q)
    BY JoinLen
  <2>2. PICK p, q : p = TimesIn(a) /\ q = TimesIn(b)
    OBVIOUS
  <2>3. p \in Seq(V) /\ q \in Seq(V) /\ Len(p) = Len(a) /\ Len(q) = Len(b)
    BY <1>2, <2>2
  <2>4. p \o q \in Seq(V) /\ Len(p \o q) = Len(a) + Len(b)
    BY <2>1, <2>3
  <2> QED BY <2>2, <2>4
<1>4. ASSUME NEW n \in 1..Len(a \o b)
      PROVE  TimesIn(a \o b)[n] = (TimesIn(a) \o TimesIn(b))[n]
  <2>1. TimesIn(a \o b)[n] = (a \o b)[n].t
    BY <1>1 DEF TimesIn
  <2>2. CASE n <= Len(a)
    <3>1. (a \o b)[n] = a[n]
      BY <1>1, <2>2
    <3>2. TimesIn(a)[n] = a[n].t
      BY <1>1, <2>2 DEF TimesIn
    <3>3. (TimesIn(a) \o TimesIn(b))[n] = TimesIn(a)[n]
      BY <1>1, <1>2, <2>2
    <3> QED BY <2>1, <3>1, <3>2, <3>3
  <2>3. CASE ~(n <= Len(a))
    <3>0. n - Len(a) \in 1..Len(b)
      BY <1>1, <2>3
    <3>1. (a \o b)[n] = b[n - Len(a)]
      BY <1>1, <2>3
    <3>2. TimesIn(b)[n - Len(a)] = b[n - Len(a)].t
      BY <1>1, <3>0 DEF TimesIn
    <3>3. (TimesIn(a) \o TimesIn(b))[n] = TimesIn(b)[n - Len(a)]
      BY <1>1, <1>2, <2>3
    <3> QED BY <2>1, <3>1, <3>2, <3>3
  <2> QED BY <2>2, <2>3
<1> QED BY <1>1, <1>2, <1>3, <1>4, SameSeq

\* Among finitely many numbers there is a largest.
LEMMA Largest ==
  ASSUME NEW n \in Nat \ {0}, NEW f, \A j \in 1..n : f[j] \in Int
  PROVE  \E j \in 1..n : \A l \in 1..n : f[l] <= f[j]
<1> DEFINE S == {m \in Nat : m \in 1..n => \E j \in 1..m : \A l \in 1..m : f[l] <= f[j]}
<1>1. 0 \in S
  OBVIOUS
<1>2. ASSUME NEW m \in Nat, m \in S PROVE m + 1 \in S
  <2>1. SUFFICES ASSUME m + 1 \in 1..n
                 PROVE  \E j \in 1..(m + 1) : \A l \in 1..(m + 1) : f[l] <= f[j]
    OBVIOUS
  <2>2. CASE m = 0
    <3>1. \A l \in 1..(m + 1) : l = 1
      BY <2>2
    <3>2. f[1] <= f[1] /\ 1 \in 1..(m + 1)
      BY <2>1
    <3> QED BY <3>1, <3>2
  <2>3. CASE m # 0
    <3>1. PICK j \in 1..m : \A l \in 1..m : f[l] <= f[j]
      BY <1>2, <2>1, <2>3
    <3>2. f[j] \in Int /\ f[m + 1] \in Int /\ \A l \in 1..m : f[l] \in Int
      BY <2>1
    <3>3. \A l \in 1..(m + 1) : l \in 1..m \/ l = m + 1
      OBVIOUS
    <3>4. CASE f[m + 1] <= f[j]
      BY <3>1, <3>3, <3>4
    <3>5. CASE ~(f[m + 1] <= f[j])
      <4>1. \A l \in 1..m : f[l] <= f[m + 1]
        BY <3>1, <3>2, <3>5
      <4>2. f[m + 1] <= f[m + 1] /\ m + 1 \in 1..(m + 1)
        BY <3>2
      <4> QED BY <3>3, <4>1, <4>2
    <3> QED BY <3>4, <3>5
  <2> QED BY <2>2, <2>3
<1> HIDE DEF S
<1>3. n \in S
  BY <1>1, <1>2, SetInduction
<1> QED BY <1>3 DEF S

\* A set of numbers below a bound has a greatest.
LEMMA Greatest ==
  ASSUME NEW n \in Nat, NEW S, S \subseteq 1..n, S # {}
  PROVE  \E k \in S : \A m \in S : m <= k
<1> DEFINE T == {n - k : k \in S}
<1>1. T \subseteq Nat /\ T # {}
  <2>1. \A k \in S : n - k \in Nat
    OBVIOUS
  <2> QED BY <2>1
<1>2. PICK x \in T : \A y \in T : ~(y < x)
  BY <1>1, LeastElement
<1>3. PICK k \in S : x = n - k
  BY <1>2
<1>4. ASSUME NEW m \in S PROVE m <= k
  <2>1. n - m \in T /\ k \in Int /\ m \in Int
    OBVIOUS
  <2>2. ~(n - m < n - k)
    BY <1>2, <1>3, <2>1
  <2> QED BY <2>1, <2>2
<1> QED BY <1>4

\* A sequence that goes on for one place is the sequence, and what is in that place.
LEMMA OneMore ==
  ASSUME NEW N \in Nat, NEW T, NEW w \in [1..N -> T], NEW v \in [1..(N + 1) -> T],
         \A k \in 1..N : v[k] = w[k]
  PROVE  v = Append(w, v[N + 1])
<1>1. /\ \A k \in 1..(N + 1) : k = N + 1 \/ k \in 1..N
      /\ N + 1 \in 1..(N + 1)
  OBVIOUS
<1>2. w \in Seq(T) /\ Len(w) = N
  OBVIOUS
<1>3. v \in Seq(T) /\ Len(v) = N + 1 /\ v[N + 1] \in T
  BY <1>1
<1>4. Append(w, v[N + 1]) \in Seq(T) /\ Len(Append(w, v[N + 1])) = N + 1
  BY <1>2, <1>3
<1>5. \A k \in 1..(N + 1) : v[k] = Append(w, v[N + 1])[k]
  BY <1>1, <1>2, <1>3
<1> QED BY <1>3, <1>4, <1>5, SameSeq
=============================================================================
