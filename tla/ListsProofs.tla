----------------------------- MODULE ListsProofs -----------------------------
(***************************************************************************)
(* What Chosen returns, for every sequence and every set: its elements in  *)
(* the set, all of them, in their order. It is a recursive function, so    *)
(* first that there is a function so defined (ChosenHas) and then what its *)
(* values are (ChosenIs), each by the least number for which it would fail *)
(* (LeastOf), as the numbers below it are well-founded.                    *)
(***************************************************************************)
EXTENDS Lists, FiniteSetTheorems, WellFoundedInduction, TLAPS

\* A set of numbers has a least one.
LEMMA LeastOf ==
    ASSUME NEW T \in SUBSET Nat, T # {}
    PROVE  \E m \in T : \A n \in T : m <= n
  <1> DEFINE U == {1 .. n : n \in T}
  <1>1. \A n \in T : 1 .. n \in FiniteSubsetsOf(Nat)
    <2> TAKE n \in T
    <2>1. IsFiniteSet(1 .. n)
      BY FS_Interval
    <2> QED
      BY <2>1 DEF FiniteSubsetsOf
  <1>2. U \subseteq FiniteSubsetsOf(Nat) /\ U # {}
    BY <1>1
  <1> HIDE DEF U
  <1>3. PICK V \in U : \A W \in U : ~ (<<W, V>> \in StrictSubsetOrdering(Nat))
    BY <1>2, FS_StrictSubsetOrderingWellFounded, WFMin
  <1>4. PICK m \in T : V = 1 .. m
    BY DEF U
  <1>5. ASSUME NEW n \in T, n < m PROVE FALSE
    <2>1. 1 .. n \subseteq V /\ m \in V /\ m \notin 1 .. n /\ 1 .. n \in U
      BY <1>4, <1>5 DEF U
    <2>2. <<1 .. n, V>> \in StrictSubsetOrdering(Nat)
      BY <2>1, <1>4 DEF StrictSubsetOrdering
    <2> QED
      BY <1>3, <2>1, <2>2
  <1> QED
    BY <1>5

\* The definition that Chosen is by.
Upto(f, s, S, n) ==
    f = [i \in 0 .. n |->
            IF i = 0 THEN <<>>
            ELSE IF s[i] \in S THEN Append(f[i - 1], s[i]) ELSE f[i - 1]]

\* There is such a function, so that Chosen is its last value.
LEMMA ChosenHas ==
    ASSUME NEW T, NEW s \in Seq(T), NEW S
    PROVE  \E f : Upto(f, s, S, Len(s)) /\ Chosen(s, S) = f[Len(s)]
  <1> DEFINE Have == {n \in Nat : \E f : Upto(f, s, S, n)}
             Not  == Nat \ Have
  <1>1. \A n \in Nat : n \in Have
    <2> SUFFICES ASSUME Not # {} PROVE FALSE
      OBVIOUS
    <2>1. PICK m \in Not : \A n \in Not : m <= n
      <3> HIDE DEF Not
      <3>1. Not \in SUBSET Nat
        BY DEF Not
      <3> QED
        BY <3>1, LeastOf
    <2>2. m # 0
      <3>1. Upto([i \in 0 .. 0 |-> <<>>], s, S, 0)
        BY DEF Upto
      <3> QED
        BY <2>1, <3>1
    <2>3. PICK f : Upto(f, s, S, m - 1)
      BY <2>1, <2>2
    <2> DEFINE g == [i \in 0 .. m |-> 
                IF i = 0 THEN <<>>
                ELSE IF s[i] \in S THEN Append(f[i - 1], s[i]) ELSE f[i - 1]]
    <2>4. \A i \in 0 .. m - 1 : g[i] = f[i]
      <3>1. TAKE i \in 0 .. m - 1
      <3>2. m - 1 \in Nat /\ i \in 0 .. m
        BY <2>1, <2>2
      <3>3. f[i] = IF i = 0 THEN <<>>
                   ELSE IF s[i] \in S THEN Append(f[i - 1], s[i]) ELSE f[i - 1]
        BY <2>3, Zenon DEF Upto
      <3>4. g[i] = IF i = 0 THEN <<>>
                   ELSE IF s[i] \in S THEN Append(f[i - 1], s[i]) ELSE f[i - 1]
        BY <3>2, Zenon
      <3> QED
        BY <3>3, <3>4
    <2>5. \A i \in 1 .. m : i - 1 \in 0 .. m - 1
      BY <2>1
    <2>6. Upto(g, s, S, m)
      <3>1. \A i \in 1 .. m : g[i - 1] = f[i - 1]
        BY <2>4, <2>5
      <3>2. \A i \in 0 .. m : i = 0 \/ i \in 1 .. m
        BY <2>1
      <3> HIDE DEF g
      <3>3. g = [i \in 0 .. m |-> 
                IF i = 0 THEN <<>>
                ELSE IF s[i] \in S THEN Append(f[i - 1], s[i]) ELSE f[i - 1]]
        BY DEF g
      <3> QED
        BY <3>1, <3>2, <3>3, Zenon DEF Upto
    <2> QED
      BY <2>1, <2>6
  <1> DEFINE h == CHOOSE f : Upto(f, s, S, Len(s))
  <1>2. Upto(h, s, S, Len(s))
    <2>1. Len(s) \in Nat
      OBVIOUS
    <2> QED
      BY <1>1, <2>1
  <1>3. Chosen(s, S) = h[Len(s)]
    BY DEF Chosen, Upto
  <1> QED
    BY <1>2, <1>3

\* What r is of s: its elements in S, all of them, in their order.
IsChosen(r, s, S, n) ==
    /\ Len(r) <= n
    /\ \A i \in 1 .. Len(r) : \E a \in 1 .. n : s[a] = r[i] /\ s[a] \in S
    /\ \A a \in 1 .. n : s[a] \in S => \E i \in 1 .. Len(r) : r[i] = s[a]
    /\ \A i, j \in 1 .. Len(r) :
          i < j => \E a, b \in 1 .. n : a < b /\ s[a] = r[i] /\ s[b] = r[j]

\* One more element is the last of what is chosen, or is not chosen.
LEMMA ChosenGrows ==
    ASSUME NEW T, NEW s \in Seq(T), NEW S, NEW m \in 1 .. Len(s),
           NEW r \in Seq(T), IsChosen(r, s, S, m - 1),
           NEW q, q = IF s[m] \in S THEN Append(r, s[m]) ELSE r
    PROVE  q \in Seq(T) /\ IsChosen(q, s, S, m)
  <1>1. \A a \in 1 .. m : a = m \/ a \in 1 .. m - 1
    OBVIOUS
  <1>2. \A a \in 1 .. m - 1 : a \in 1 .. m /\ a < m
    OBVIOUS
  <1>3. CASE s[m] \notin S
    BY <1>1, <1>2, <1>3 DEF IsChosen
  <1>4. CASE s[m] \in S
    <2>1. /\ q \in Seq(T) /\ Len(q) = Len(r) + 1 /\ q[Len(q)] = s[m]
          /\ \A i \in 1 .. Len(r) : q[i] = r[i]
      BY <1>4
    <2>2. \A i \in 1 .. Len(q) : i = Len(q) \/ i \in 1 .. Len(r)
      BY <2>1
    <2>3. \A i \in 1 .. Len(r) : i \in 1 .. Len(q)
      BY <2>1
    <2>4. ASSUME NEW i \in 1 .. Len(q) PROVE \E a \in 1 .. m : s[a] = q[i] /\ s[a] \in S
      BY <1>2, <1>4, <2>1, <2>2 DEF IsChosen
    <2>5. ASSUME NEW a \in 1 .. m, s[a] \in S PROVE \E i \in 1 .. Len(q) : q[i] = s[a]
      <3>1. CASE a = m
        BY <3>1, <2>1
      <3>2. CASE a \in 1 .. m - 1
        BY <3>2, <2>1, <2>3, <2>5 DEF IsChosen
      <3> QED
        BY <1>1, <3>1, <3>2
    <2>6. ASSUME NEW i \in 1 .. Len(q), NEW j \in 1 .. Len(q), i < j
          PROVE  \E a, b \in 1 .. m : a < b /\ s[a] = q[i] /\ s[b] = q[j]
      <3>1. i \in 1 .. Len(r) /\ q[i] = r[i]
        BY <2>1, <2>6
      <3>2. CASE j = Len(q)
        <4>1. PICK a \in 1 .. m - 1 : s[a] = r[i]
          BY <3>1 DEF IsChosen
        <4> QED
          BY <1>2, <2>1, <3>1, <3>2, <4>1
      <3>3. CASE j \in 1 .. Len(r)
        <4>1. PICK a, b \in 1 .. m - 1 : a < b /\ s[a] = r[i] /\ s[b] = r[j]
          BY <2>6, <3>1, <3>3 DEF IsChosen
        <4> QED
          BY <1>2, <2>1, <3>1, <3>3, <4>1
      <3> QED
        BY <2>2, <3>2, <3>3
    <2>7. Len(q) <= m
      BY <2>1 DEF IsChosen
    <2> QED
      BY <2>1, <2>4, <2>5, <2>6, <2>7 DEF IsChosen
  <1> QED
    BY <1>3, <1>4

LEMMA ChosenIs ==
    ASSUME NEW T, NEW s \in Seq(T), NEW S
    PROVE  /\ Chosen(s, S) \in Seq(T)
           /\ IsChosen(Chosen(s, S), s, S, Len(s))
  <1>1. PICK f : Upto(f, s, S, Len(s)) /\ Chosen(s, S) = f[Len(s)]
    BY ChosenHas
  <1> DEFINE Not == {n \in 0 .. Len(s) : ~(f[n] \in Seq(T) /\ IsChosen(f[n], s, S, n))}
  <1>2. ASSUME Not # {} PROVE FALSE
    <2>1. PICK m \in Not : \A n \in Not : m <= n
      <3>1. Not \in SUBSET Nat
        OBVIOUS
      <3> HIDE DEF Not
      <3> QED
        BY <1>2, <3>1, LeastOf
    <2>2. m # 0
      <3>1. 0 \in 0 .. Len(s)
        OBVIOUS
      <3>2. f[0] = <<>>
        BY <1>1, <3>1, Zenon DEF Upto
      <3>3. <<>> \in Seq(T) /\ IsChosen(<<>>, s, S, 0)
        BY DEF IsChosen
      <3> QED
        BY <2>1, <3>2, <3>3, Zenon
    <2>3. m \in 1 .. Len(s) /\ m - 1 \in 0 .. Len(s) /\ m - 1 \notin Not
      BY <2>1, <2>2
    <2>4. f[m - 1] \in Seq(T) /\ IsChosen(f[m - 1], s, S, m - 1)
      BY <2>3
    <2>5. f[m] = IF s[m] \in S THEN Append(f[m - 1], s[m]) ELSE f[m - 1]
      <3>1. m \in 0 .. Len(s) /\ m # 0
        BY <2>3
      <3> QED
        BY <1>1, <3>1, Zenon DEF Upto
    <2> QED
      BY <2>1, <2>3, <2>4, <2>5, ChosenGrows
  <1>3. Len(s) \in 0 .. Len(s)
    OBVIOUS
  <1> QED
    BY <1>1, <1>2, <1>3
=============================================================================
