---------------------------- MODULE Mca66dProofs ----------------------------
(***************************************************************************)
(* Theorems about Mca66d, for any number of clients and any lines.         *)
(***************************************************************************)
EXTENDS Mca66d, WellFoundedInduction, TLAPS

(***************************************************************************)
(* Induction over the numbers, for sets of them.                           *)
(***************************************************************************)
LEMMA NatSet ==
  ASSUME NEW S \in SUBSET Nat, 0 \in S, \A n \in S : n + 1 \in S
  PROVE  S = Nat
<1>1. SUFFICES ASSUME Nat \ S # {} PROVE FALSE
  OBVIOUS
<1>2. PICK x \in Nat \ S : \A y \in Nat \ S : <<y, x>> \notin OpToRel(<, Nat)
  BY <1>1, NatLessThanWellFounded, WFMin
<1>3. x - 1 \in Nat /\ x - 1 < x
  <2>1. x \in Nat /\ x # 0
    BY <1>2
  <2> QED
    BY <2>1
<1>4. x - 1 \in S
  BY <1>2, <1>3 DEF OpToRel
<1>5. (x - 1) + 1 = x
  <2>1. x \in Nat
    BY <1>2
  <2> QED
    BY <2>1
<1> QED
  BY <1>2, <1>4, <1>5

(***************************************************************************)
(* FlattenSeq                                                              *)
(***************************************************************************)

\* The function FlattenSeq() computes with, and what it is up to n.
Flattens(f, s, n) == f = [i \in 1..n |-> IF i = 1 THEN s[i] ELSE f[i - 1] \o s[i]]
Flat(s) == CHOOSE f : f = [i \in 1..Len(s) |-> IF i = 1 THEN s[i] ELSE f[i - 1] \o s[i]]

\* There is such a function, and two of them agree.
LEMMA FlatExists ==
  ASSUME NEW s, Len(s) \in Nat
  PROVE  Flat(s) = [i \in 1..Len(s) |-> IF i = 1 THEN s[i] ELSE Flat(s)[i - 1] \o s[i]]
<1> DEFINE S == {n \in Nat : \E f : Flattens(f, s, n)}
<1>1. 0 \in S
  <2>1. Flattens([i \in {} |-> 0], s, 0)
    BY DEF Flattens
  <2> QED
    BY <2>1
<1>2. ASSUME NEW n \in S PROVE n + 1 \in S
  <2>1. PICK f : Flattens(f, s, n)
    OBVIOUS
  <2> DEFINE g == [i \in 1..(n + 1) |->
                     IF i = n + 1 THEN (IF i = 1 THEN s[i] ELSE f[i - 1] \o s[i]) ELSE f[i]]
  <2>2. n \in Nat
    OBVIOUS
  <2>3. \A i \in 1..(n + 1) : i # 1 => g[i - 1] = f[i - 1]
    BY <2>2
  <2>4. \A i \in 1..n : f[i] = IF i = 1 THEN s[i] ELSE f[i - 1] \o s[i]
    BY <2>1 DEF Flattens
  <2>5. \A i \in 1..(n + 1) : g[i] = IF i = 1 THEN s[i] ELSE g[i - 1] \o s[i]
    BY <2>2, <2>3, <2>4
  <2>6. Flattens(g, s, n + 1)
    BY <2>5 DEF Flattens
  <2> QED
    BY <2>2, <2>6
<1>3. S = Nat
  <2> HIDE DEF S
  <2>1. S \in SUBSET Nat
    BY DEF S
  <2> QED
    BY <1>1, <1>2, <2>1, NatSet
<1>4. \E f : Flattens(f, s, Len(s))
  BY <1>3
<1> QED
  BY <1>4 DEF Flat, Flattens

LEMMA FlattenIsFlat ==
  ASSUME NEW s
  PROVE  FlattenSeq(s) = IF Len(s) = 0 THEN s ELSE Flat(s)[Len(s)]
BY DEF FlattenSeq, Flat

\* FlattenSeq() of one sequence more.
LEMMA FlattenFacts ==
  ASSUME NEW T, NEW s \in Seq(Seq(T)), NEW e \in Seq(T)
  PROVE  /\ FlattenSeq(s) \in Seq(T)
         /\ FlattenSeq(Append(s, e)) = FlattenSeq(s) \o e
<1> DEFINE t == Append(s, e)
<1>0. /\ Len(s) \in Nat /\ Len(t) = Len(s) + 1 /\ t \in Seq(Seq(T)) /\ t[Len(s) + 1] = e
      /\ \A k \in 1..Len(s) : t[k] = s[k] /\ s[k] \in Seq(T)
  OBVIOUS
<1> HIDE DEF t
<1>1. /\ Flat(s) = [i \in 1..Len(s) |-> IF i = 1 THEN s[i] ELSE Flat(s)[i - 1] \o s[i]]
      /\ Flat(t) = [i \in 1..Len(t) |-> IF i = 1 THEN t[i] ELSE Flat(t)[i - 1] \o t[i]]
  <2>1. Len(s) \in Nat /\ Len(t) \in Nat
    BY <1>0
  <2> HIDE <1>0
  <2> QED
    BY <2>1, FlatExists
<1>a. /\ \A i \in 1..Len(s) : Flat(s)[i] = IF i = 1 THEN s[i] ELSE Flat(s)[i - 1] \o s[i]
      /\ \A i \in 1..Len(t) : Flat(t)[i] = IF i = 1 THEN t[i] ELSE Flat(t)[i - 1] \o t[i]
  BY <1>1, Zenon
<1> DEFINE S == {n \in Nat : n \in 1..Len(s) => Flat(s)[n] \in Seq(T) /\ Flat(t)[n] = Flat(s)[n]}
<1>2. S = Nat
  <2>1. 0 \in S
    OBVIOUS
  <2>2. ASSUME NEW n \in S PROVE n + 1 \in S
    <3>0. n \in Nat /\ n + 1 \in Nat /\ (n + 1) - 1 = n
      OBVIOUS
    <3>1. SUFFICES ASSUME n + 1 \in 1..Len(s)
                   PROVE  Flat(s)[n + 1] \in Seq(T) /\ Flat(t)[n + 1] = Flat(s)[n + 1]
      BY <3>0
    <3>2. /\ Flat(s)[n + 1] = IF n + 1 = 1 THEN s[n + 1] ELSE Flat(s)[n] \o s[n + 1]
          /\ Flat(t)[n + 1] = IF n + 1 = 1 THEN s[n + 1] ELSE Flat(t)[n] \o s[n + 1]
      <4>1. n + 1 \in 1..Len(t) /\ t[n + 1] = s[n + 1]
        BY <1>0, <3>0, <3>1
      <4> QED
        BY <1>a, <3>0, <3>1, <4>1
    <3>3. CASE n = 0
      BY <1>0, <3>1, <3>2, <3>3
    <3>4. CASE n # 0
      <4>1. n \in 1..Len(s) /\ n + 1 # 1
        BY <1>0, <3>0, <3>1, <3>4
      <4>2. Flat(s)[n] \in Seq(T) /\ Flat(t)[n] = Flat(s)[n]
        BY <4>1
      <4> QED
        BY <1>0, <3>1, <3>2, <4>1, <4>2
    <3> QED
      BY <3>3, <3>4
  <2>3. S \in SUBSET Nat
    OBVIOUS
  <2> HIDE DEF S
  <2> QED
    BY <2>1, <2>2, <2>3, NatSet
<1>3. /\ FlattenSeq(s) = IF Len(s) = 0 THEN s ELSE Flat(s)[Len(s)]
      /\ FlattenSeq(t) = Flat(t)[Len(s) + 1]
  BY <1>0, FlattenIsFlat
<1>4. Flat(t)[Len(s) + 1] = IF Len(s) = 0 THEN e ELSE Flat(t)[Len(s)] \o e
  <2>1. Len(s) + 1 \in 1..Len(t) /\ (Len(s) + 1) - 1 = Len(s) /\ (Len(s) + 1 = 1 <=> Len(s) = 0)
    BY <1>0
  <2> QED
    BY <1>0, <1>a, <2>1
<1>5. CASE Len(s) = 0
  <2>1. s = <<>> /\ s \o e = e
    BY <1>5
  <2> QED
    BY <1>3, <1>4, <1>5, <2>1 DEF t
<1>6. CASE Len(s) # 0
  <2>1. Len(s) \in S /\ Len(s) \in 1..Len(s)
    BY <1>0, <1>2, <1>6
  <2>2. Flat(s)[Len(s)] \in Seq(T) /\ Flat(t)[Len(s)] = Flat(s)[Len(s)]
    BY <2>1
  <2> QED
    BY <1>3, <1>4, <1>6, <2>2 DEF t
<1> QED
  BY <1>5, <1>6

LEMMA FlattenEmpty == FlattenSeq(<<>>) = <<>>
BY FlattenIsFlat

(***************************************************************************)
(* strings.Fields()                                                        *)
(***************************************************************************)

\* The words among the first n tokens of s, and where they are.
SpelledUpto(s, n) ==
  FlattenSeq([k \in 1..n |-> IF s[k] \in Separator THEN <<>> ELSE <<s[k]>>])

Places(at, s, n, w) ==
  /\ at \in [1..Len(w) -> 1..n]
  /\ \A k \in 1..Len(w) : s[at[k]] \notin Separator /\ w[k] = s[at[k]]
  /\ \A k, l \in 1..Len(w) : k < l => at[k] < at[l]
  /\ \A i \in 1..n : s[i] \notin Separator => \E k \in 1..Len(w) : at[k] = i

LEMMA AppendFacts ==
  ASSUME NEW T, NEW s \in Seq(T), NEW e \in T
  PROVE  /\ Append(s, e) \in Seq(T)
         /\ Len(s) \in Nat /\ Len(Append(s, e)) = Len(s) + 1 /\ Append(s, e)[Len(s) + 1] = e
         /\ \A k \in 1..Len(s) : Append(s, e)[k] = s[k] /\ s[k] \in T
OBVIOUS

LEMMA PrefixFacts ==
  ASSUME NEW T, NEW s \in Seq(T), NEW n \in Nat, n <= Len(s)
  PROVE  /\ SubSeq(s, 1, n) \in Seq(T) /\ Len(SubSeq(s, 1, n)) = n
         /\ \A k \in 1..n : SubSeq(s, 1, n)[k] = s[k]
OBVIOUS

LEMMA SpelledStep ==
  ASSUME NEW T, NEW s \in Seq(T), NEW n \in Nat, n + 1 <= Len(s)
  PROVE  /\ SpelledUpto(s, n) \in Seq(T)
         /\ SpelledUpto(s, n + 1) = IF s[n + 1] \in Separator THEN SpelledUpto(s, n)
                                    ELSE Append(SpelledUpto(s, n), s[n + 1])
<1> DEFINE G(k) == IF s[k] \in Separator THEN <<>> ELSE <<s[k]>>
           g == [k \in 1..n |-> G(k)]
<1>1. \A k \in 1..(n + 1) : G(k) \in Seq(T) /\ s[k] \in T
  BY n + 1 <= Len(s)
<1>2. g \in Seq(Seq(T)) /\ Len(g) = n
  <2>1. \A k \in 1..n : G(k) \in Seq(T)
    BY <1>1
  <2> HIDE DEF G
  <2> QED
    BY <2>1
<1>3. [k \in 1..(n + 1) |-> G(k)] = Append(g, G(n + 1))
  <2> HIDE DEF G
  <2> QED
    OBVIOUS
<1>4. G(n + 1) \in Seq(T)
  BY <1>1
<1>5. /\ FlattenSeq(g) \in Seq(T)
      /\ FlattenSeq([k \in 1..(n + 1) |-> G(k)]) = FlattenSeq(g) \o G(n + 1)
  <2> HIDE DEF g, G
  <2> QED
    BY <1>2, <1>3, <1>4, FlattenFacts
<1>6. SpelledUpto(s, n) = FlattenSeq(g) /\ SpelledUpto(s, n + 1) = FlattenSeq(g) \o G(n + 1)
  BY <1>5 DEF SpelledUpto
<1> HIDE DEF g
<1>7. CASE s[n + 1] \in Separator
  <2>1. FlattenSeq(g) \o <<>> = FlattenSeq(g)
    BY <1>5
  <2> QED
    BY <1>5, <1>6, <1>7, <2>1
<1>8. CASE s[n + 1] \notin Separator
  <2>1. FlattenSeq(g) \o <<s[n + 1]>> = Append(FlattenSeq(g), s[n + 1])
    BY <1>5, <1>1
  <2> QED
    BY <1>5, <1>6, <1>8, <2>1
<1> QED
  BY <1>7, <1>8

SpelledSoFar(T, s, n) ==
  n <= Len(s) => /\ SpelledUpto(s, n) \in Seq(T)
                 /\ \E at : Places(at, s, n, SpelledUpto(s, n))

\* Every word is there, once and in its order.
LEMMA SpelledFacts ==
  ASSUME NEW T, NEW s \in Seq(T)
  PROVE  Spelled(s) \in Seq(T) /\ \E at : Places(at, s, Len(s), Spelled(s))
<1> DEFINE S == {n \in Nat : SpelledSoFar(T, s, n)}
<1>1. 0 \in S
  <2>1. SpelledUpto(s, 0) = <<>>
    <3>1. [k \in 1..0 |-> IF s[k] \in Separator THEN <<>> ELSE <<s[k]>>] = <<>>
      OBVIOUS
    <3> QED
      BY <3>1, FlattenEmpty DEF SpelledUpto
  <2>2. Places(<<>>, s, 0, <<>>)
    BY DEF Places
  <2>3. SpelledSoFar(T, s, 0)
    <3>1. \E at : Places(at, s, 0, SpelledUpto(s, 0))
      BY <2>1, <2>2
    <3>2. SpelledUpto(s, 0) \in Seq(T)
      <4>1. <<>> \in Seq(T)
        OBVIOUS
      <4> QED
        BY <2>1, <4>1, Zenon
    <3> QED
      BY <3>1, <3>2 DEF SpelledSoFar
  <2> QED
    BY <2>3
<1>2. ASSUME NEW n \in S PROVE n + 1 \in S
  <2> DEFINE w == SpelledUpto(s, n)
             v == SpelledUpto(s, n + 1)
             e == s[n + 1]
  <2>0. n \in Nat
    OBVIOUS
  <2>1. SUFFICES ASSUME n + 1 <= Len(s)
                 PROVE  v \in Seq(T) /\ \E at : Places(at, s, n + 1, v)
    BY <2>0 DEF SpelledSoFar
  <2>2. w \in Seq(T) /\ v = (IF e \in Separator THEN w ELSE Append(w, e)) /\ e \in T
    BY <2>0, <2>1, SpelledStep
  <2>3. PICK at : Places(at, s, n, w)
    BY <2>0, <2>1 DEF SpelledSoFar
  <2> HIDE DEF w, v, S
  <2>4. CASE e \in Separator
    <3>1. Places(at, s, n + 1, w)
      BY <2>0, <2>2, <2>3, <2>4 DEF Places
    <3> QED
      BY <2>2, <2>4, <3>1
  <2>5. CASE e \notin Separator
    <3> DEFINE to == [k \in 1..Len(v) |-> IF k = Len(v) THEN n + 1 ELSE at[k]]
    <3>1. /\ v \in Seq(T) /\ Len(w) \in Nat /\ Len(v) = Len(w) + 1 /\ v[Len(v)] = e
          /\ \A k \in 1..Len(w) : v[k] = w[k]
      BY <2>2, <2>5, AppendFacts
    <3> HIDE DEF e
    <3>2. /\ to \in [1..Len(v) -> 1..(n + 1)] /\ to[Len(v)] = n + 1
          /\ \A k \in 1..Len(w) : to[k] = at[k] /\ at[k] \in 1..n
      <4>1. Len(v) \in 1..Len(v) /\ \A k \in 1..Len(v) : k = Len(v) \/ k \in 1..Len(w)
        BY <3>1
      <4>2. at \in [1..Len(w) -> 1..n]
        BY <2>3 DEF Places
      <4>3. n + 1 \in 1..(n + 1) /\ \A k \in 1..Len(w) : at[k] \in 1..n /\ at[k] \in 1..(n + 1)
        BY <2>0, <4>2
      <4>4. \A k \in 1..Len(w) : k \in 1..Len(v) /\ k # Len(v)
        BY <3>1
      <4> QED
        BY <4>1, <4>3, <4>4
    <3> HIDE DEF to
    <3>3. Places(to, s, n + 1, v)
      <4>1. \A k \in 1..Len(v) : s[to[k]] \notin Separator /\ v[k] = s[to[k]]
        BY <2>0, <2>3, <2>5, <3>1, <3>2 DEF Places, e
      <4>2. ASSUME NEW k \in 1..Len(v), NEW l \in 1..Len(v), k < l PROVE to[k] < to[l]
        <5>1. k \in 1..Len(w) /\ to[k] = at[k] /\ at[k] \in 1..n
          BY <3>1, <3>2, <4>2
        <5>2. CASE l = Len(v)
          BY <2>0, <3>2, <5>1, <5>2
        <5>3. CASE l # Len(v)
          <6>1. l \in 1..Len(w)
            BY <3>1, <5>3
          <6> QED
            BY <2>3, <3>2, <4>2, <5>1, <6>1 DEF Places
        <5> QED
          BY <5>2, <5>3
      <4>3. \A i \in 1..(n + 1) : s[i] \notin Separator => \E k \in 1..Len(v) : to[k] = i
        BY <2>0, <2>3, <3>1, <3>2 DEF Places
      <4> QED
        BY <3>2, <4>1, <4>2, <4>3 DEF Places
    <3> QED
      BY <3>1, <3>3
  <2> QED
    BY <2>4, <2>5
<1>3. S = Nat
  <2>1. S \in SUBSET Nat
    OBVIOUS
  <2> HIDE DEF S
  <2> QED
    BY <1>1, <1>2, <2>1, NatSet
<1>4. SpelledSoFar(T, s, Len(s))
  BY <1>3
<1>5. Spelled(s) = SpelledUpto(s, Len(s))
  BY DEF Spelled, SpelledUpto
<1> QED
  BY <1>4, <1>5 DEF SpelledSoFar


LEMMA TokenStrings == "NUL" \in Token /\ "NL" \in Token /\ "SP" \in Token
BY DEF Token, Separator

\* The words of a line, and where they and the end of the line are.
LEMMA TokensFacts ==
  ASSUME NEW l \in Lines
  PROVE  /\ l \in Seq(Token) /\ Len(l) \in Nat \ {0} /\ l \in Seq(LineWord)
         /\ Tokens(l) \in Seq(Token) /\ Len(Tokens(l)) = 2 * Len(l)
         /\ \A k \in 1..Len(l) : /\ l[k] \notin Separator /\ l[k] # "NUL"
                                 /\ Tokens(l)[2 * k - 1] = l[k]
                                 /\ Tokens(l)[2 * k] \in Separator
         /\ \A m \in 1..(2 * Len(l)) : Tokens(l)[m] = "NL" <=> m = 2 * Len(l)
         /\ \A m \in 1..(2 * Len(l)) : Tokens(l)[m] \notin Separator =>
              \E k \in 1..Len(l) : m = 2 * k - 1
<1>1. l \in Seq(LineWord) /\ l # <<>>
  BY LinesAssumption
<1>2. Len(l) \in Nat \ {0} /\ \A k \in 1..Len(l) : l[k] \in LineWord
  BY <1>1
<1>3. \A k \in 1..Len(l) : l[k] \in Token /\ l[k] \notin Separator /\ l[k] # "NUL" /\ l[k] # "NL"
  BY <1>2 DEF LineWord, Separator, Token
<1>4. \A m \in 1..(2 * Len(l)) :
        \/ \E k \in 1..Len(l) : m = 2 * k - 1 /\ m % 2 = 1 /\ (m + 1) \div 2 = k
        \/ \E k \in 1..Len(l) : m = 2 * k /\ m % 2 = 0
  <2> TAKE m \in 1..(2 * Len(l))
  <2>1. m = 2 * (m \div 2) + (m % 2) /\ m % 2 \in 0..1 /\ m \div 2 \in Int
    BY <1>2
  <2>2. CASE m % 2 = 1
    <3>1. m = 2 * (m \div 2 + 1) - 1 /\ m \div 2 + 1 \in 1..Len(l)
      BY <1>2, <2>1, <2>2
    <3>2. (m + 1) \div 2 = m \div 2 + 1
      BY <1>2, <2>2
    <3> QED
      BY <2>2, <3>1, <3>2
  <2>3. CASE m % 2 = 0
    <3>1. m = 2 * (m \div 2) /\ m \div 2 \in 1..Len(l)
      BY <1>2, <2>1, <2>3
    <3> QED
      BY <2>3, <3>1
  <2> QED
    BY <2>1, <2>2, <2>3
<1>5. \A k \in 1..Len(l) : /\ 2 * k - 1 \in 1..(2 * Len(l)) /\ 2 * k \in 1..(2 * Len(l))
                           /\ (2 * k - 1) % 2 = 1 /\ (2 * k) % 2 = 0
                           /\ ((2 * k - 1) + 1) \div 2 = k
  BY <1>2
<1> DEFINE t == Tokens(l)
<1>6. /\ \A k \in 1..Len(l) : t[2 * k - 1] = l[k] /\ t[2 * k] = IF k = Len(l) THEN "NL" ELSE "SP"
      /\ DOMAIN t = 1..(2 * Len(l))
  BY <1>2, <1>5 DEF Tokens
<1>7. t = [m \in 1..(2 * Len(l)) |-> t[m]]
  BY DEF Tokens
<1> HIDE DEF t
<1>a. \A m \in 1..(2 * Len(l)) : t[m] \in Token
  <2> TAKE m \in 1..(2 * Len(l))
  <2>1. CASE \E k \in 1..Len(l) : m = 2 * k - 1
    BY <1>3, <1>6, <2>1
  <2>2. CASE \E k \in 1..Len(l) : m = 2 * k
    <3>1. PICK k \in 1..Len(l) : m = 2 * k
      BY <2>2
    <3>2. t[2 * k] = "NL" \/ t[2 * k] = "SP"
      BY <1>6
    <3>3. t[m] = t[2 * k]
      BY <3>1
    <3> QED
      BY <3>2, <3>3, TokenStrings
  <2> QED
    BY <1>4, <2>1, <2>2
<1>8. t \in Seq(Token) /\ Len(t) = 2 * Len(l)
  <2>1. 2 * Len(l) \in Nat
    BY <1>2
  <2> QED
    BY <1>7, <1>a, <2>1
<1>9. \A m \in 1..(2 * Len(l)) : t[m] = "NL" <=> m = 2 * Len(l)
  <2> TAKE m \in 1..(2 * Len(l))
  <2>1. CASE \E k \in 1..Len(l) : m = 2 * k - 1
    BY <1>2, <1>3, <1>6, <2>1
  <2>2. CASE \E k \in 1..Len(l) : m = 2 * k
    <3>1. PICK k \in 1..Len(l) : m = 2 * k
      BY <2>2
    <3>2. t[2 * k] = IF k = Len(l) THEN "NL" ELSE "SP"
      BY <1>6
    <3>3. m = 2 * Len(l) <=> k = Len(l)
      BY <1>2, <3>1
    <3> QED
      BY <3>1, <3>2, <3>3
  <2> QED
    BY <1>4, <2>1, <2>2
<1>10. \A m \in 1..(2 * Len(l)) : t[m] \notin Separator => \E k \in 1..Len(l) : m = 2 * k - 1
  <2> TAKE m \in 1..(2 * Len(l))
  <2>1. CASE \E k \in 1..Len(l) : m = 2 * k
    BY <1>2, <1>6, <2>1 DEF Separator
  <2> QED
    BY <1>4, <2>1
<1>11. l \in Seq(Token)
  BY <1>2, <1>3, <1>1
<1> QED
  BY <1>1, <1>2, <1>3, <1>6, <1>8, <1>9, <1>10, <1>11 DEF t, Separator

\* The line l lies whole in s from p on, with nothing but separators before it.
LineAt(s, p, l) ==
  /\ p \in 1..Len(s) /\ p + 2 * Len(l) - 1 <= Len(s)
  /\ \A m \in 1..(2 * Len(l)) : s[p + m - 1] = Tokens(l)[m]
  /\ \A i \in 1..(p - 1) : s[i] \in Separator

\* Its words are then the first ones of s, and the only ones if s ends with it.
LEMMA SpelledLine ==
  ASSUME NEW s \in Seq(Token), NEW l \in Lines, NEW p, LineAt(s, p, l)
  PROVE  /\ Len(Spelled(s)) \in Nat /\ Len(l) <= Len(Spelled(s))
         /\ \A k \in 1..Len(l) : Spelled(s)[k] = l[k]
         /\ Len(s) = p + 2 * Len(l) - 1 => Len(Spelled(s)) = Len(l)
<1> DEFINE w == Spelled(s)
<1>0. w \in Seq(Token) /\ Len(w) \in Nat
  <2>1. w \in Seq(Token)
    BY SpelledFacts
  <2> HIDE DEF w
  <2> QED
    BY <2>1
<1>1. PICK at : Places(at, s, Len(s), w)
  BY SpelledFacts
<1> HIDE DEF w
<1>2. /\ Len(s) \in Nat /\ Len(l) \in Nat \ {0} /\ p \in 1..Len(s) /\ p + 2 * Len(l) - 1 <= Len(s)
      /\ \A k \in 1..Len(l) : /\ s[p + 2 * k - 2] = l[k] /\ l[k] \notin Separator
                              /\ s[p + 2 * k - 1] \in Separator
      /\ \A i \in 1..(p - 1) : s[i] \in Separator
  <2>1. \A k \in 1..Len(l) : /\ 2 * k - 1 \in 1..(2 * Len(l)) /\ 2 * k \in 1..(2 * Len(l))
                             /\ p + (2 * k - 1) - 1 = p + 2 * k - 2
                             /\ p + (2 * k) - 1 = p + 2 * k - 1
    BY TokensFacts DEF LineAt
  <2>2. Len(s) \in Nat /\ Len(l) \in Nat \ {0}
    BY TokensFacts
  <2>3. \A k \in 1..Len(l) : /\ l[k] \notin Separator
                             /\ Tokens(l)[2 * k - 1] = l[k] /\ Tokens(l)[2 * k] \in Separator
    BY TokensFacts
  <2>4. /\ p \in 1..Len(s) /\ p + 2 * Len(l) - 1 <= Len(s)
        /\ \A m \in 1..(2 * Len(l)) : s[p + m - 1] = Tokens(l)[m]
        /\ \A i \in 1..(p - 1) : s[i] \in Separator
    BY DEF LineAt
  <2>5. ASSUME NEW k \in 1..Len(l)
        PROVE  s[p + 2 * k - 2] = l[k] /\ s[p + 2 * k - 1] \in Separator
    BY <2>1, <2>3, <2>4
  <2> QED
    BY <2>2, <2>3, <2>4, <2>5
<1>3. /\ \A k \in 1..Len(w) : at[k] \in 1..Len(s) /\ s[at[k]] \notin Separator /\ w[k] = s[at[k]]
      /\ \A j, k \in 1..Len(w) : j < k => at[j] < at[k]
      /\ \A i \in 1..Len(s) : s[i] \notin Separator => \E k \in 1..Len(w) : at[k] = i
  BY <1>1 DEF Places
<1> DEFINE S == {k \in Nat : k + 1 <= Len(l) => k + 1 <= Len(w) /\ at[k + 1] = p + 2 * k}
<1>4. 0 \in S
  <2>1. s[p] \notin Separator
    <3>1. 1 \in 1..Len(l) /\ p + 2 * 1 - 2 = p
      BY <1>2
    <3> QED
      BY <1>2, <3>1
  <2>2. PICK k \in 1..Len(w) : at[k] = p
    BY <1>2, <1>3, <2>1
  <2>3. 1 \in 1..Len(w) /\ (k = 1 \/ at[1] < p)
    BY <1>0, <1>3, <2>2
  <2>4. at[1] = p
    BY <1>2, <1>3, <2>2, <2>3
  <2> QED
    BY <1>0, <1>2, <2>3, <2>4
<1>5. ASSUME NEW k \in S PROVE k + 1 \in S
  <2>0. k \in Nat /\ (k + 1) + 1 = k + 2
    OBVIOUS
  <2>1. SUFFICES ASSUME k + 2 <= Len(l) PROVE k + 2 <= Len(w) /\ at[k + 2] = p + 2 * (k + 1)
    BY <2>0
  <2>2. k + 1 \in 1..Len(w) /\ at[k + 1] = p + 2 * k
    BY <1>0, <1>2, <2>0, <2>1
  <2> HIDE DEF S
  <2>3. s[p + 2 * k + 2] \notin Separator /\ s[p + 2 * k + 1] \in Separator
    <3>1. /\ k + 2 \in 1..Len(l) /\ p + 2 * (k + 2) - 2 = p + 2 * k + 2
          /\ k + 1 \in 1..Len(l) /\ p + 2 * (k + 1) - 1 = p + 2 * k + 1
      BY <1>2, <2>0, <2>1
    <3> QED
      BY <1>2, <3>1
  <2>4. PICK j \in 1..Len(w) : at[j] = p + 2 * k + 2
    <3>1. p + 2 * k + 2 \in 1..Len(s)
      BY <1>2, <2>0, <2>1
    <3> QED
      BY <1>3, <2>3, <3>1
  <2>5. k + 1 < j
    <3>1. ~(j = k + 1) /\ ~(j < k + 1)
      BY <1>2, <1>3, <2>0, <2>2, <2>4
    <3> QED
      BY <2>0, <2>4, <3>1
  <2>6. k + 2 \in 1..Len(w) /\ (j = k + 2 \/ at[k + 2] < p + 2 * k + 2)
    <3>1. k + 2 \in 1..Len(w)
      BY <1>0, <2>0, <2>4, <2>5
    <3>2. j = k + 2 \/ k + 2 < j
      BY <2>0, <2>4, <2>5
    <3> QED
      BY <1>3, <2>4, <3>1, <3>2
  <2>7. p + 2 * k < at[k + 2] /\ at[k + 2] # p + 2 * k + 1 /\ at[k + 2] \in Int
    <3>1. k + 1 < k + 2
      BY <2>0
    <3> QED
      BY <1>3, <2>2, <2>3, <2>6, <3>1
  <2>8. p \in Int /\ p + 2 * (k + 1) = p + 2 * k + 2
    BY <1>2, <2>0
  <2>9. at[k + 2] = p + 2 * k + 2
    BY <2>0, <2>4, <2>6, <2>7, <2>8
  <2> QED
    BY <1>0, <2>6, <2>8, <2>9
<1>6. S = Nat
  <2>1. S \in SUBSET Nat
    OBVIOUS
  <2> HIDE DEF S
  <2> QED
    BY <1>4, <1>5, <2>1, NatSet
<1>7. \A k \in 1..Len(l) : k \in 1..Len(w) /\ at[k] = p + 2 * k - 2
  <2> TAKE k \in 1..Len(l)
  <2>0. k - 1 \in Nat
    BY <1>2
  <2>1. k - 1 \in S
    BY <1>6, <2>0
  <2>2. (k - 1) + 1 = k /\ k <= Len(l) /\ p + 2 * (k - 1) = p + 2 * k - 2
    BY <1>2
  <2>3. k <= Len(w) /\ at[k] = p + 2 * k - 2
    BY <2>0, <2>1, <2>2
  <2> QED
    BY <1>0, <2>3
<1>8. ASSUME NEW k \in 1..Len(l) PROVE w[k] = l[k]
  <2>1. w[k] = s[at[k]] /\ at[k] = p + 2 * k - 2
    BY <1>3, <1>7
  <2> QED
    BY <1>2, <2>1
<1>9. Len(l) <= Len(w)
  BY <1>0, <1>2, <1>7
<1>10. ASSUME Len(s) = p + 2 * Len(l) - 1, Len(l) < Len(w) PROVE FALSE
  <2>1. Len(l) + 1 \in 1..Len(w) /\ Len(l) \in 1..Len(l) /\ Len(l) < Len(l) + 1
    BY <1>0, <1>2, <1>10
  <2>2. p + 2 * Len(l) - 2 < at[Len(l) + 1] /\ at[Len(l) + 1] \in 1..Len(s)
    BY <1>3, <1>7, <2>1
  <2>3. at[Len(l) + 1] = p + 2 * Len(l) - 1
    BY <1>2, <1>10, <2>2
  <2> QED
    BY <1>2, <1>3, <2>1, <2>3
<1> QED
  BY <1>0, <1>2, <1>8, <1>9, <1>10 DEF w

\* The first word of s.
LEMMA SpelledFirst ==
  ASSUME NEW s \in Seq(Token), Spelled(s) # <<>>
  PROVE  /\ Spelled(s) \in Seq(Token) /\ Len(Spelled(s)) \in Nat \ {0}
         /\ \E p \in 1..Len(s) :
              /\ s[p] = Spelled(s)[1] /\ s[p] \notin Separator
              /\ \A i \in 1..(p - 1) : s[i] \in Separator
              /\ p = Len(s) => Len(Spelled(s)) = 1
<1> DEFINE w == Spelled(s)
<1>1. w \in Seq(Token) /\ \E at : Places(at, s, Len(s), w)
  BY SpelledFacts
<1> HIDE DEF w
<1>2. PICK at : Places(at, s, Len(s), w)
  BY <1>1
<1>3. Len(w) \in Nat \ {0} /\ Len(s) \in Nat
  <2>1. w # <<>>
    BY DEF w
  <2> QED
    BY <1>1, <2>1
<1>4. at[1] \in 1..Len(s) /\ s[at[1]] \notin Separator /\ w[1] = s[at[1]]
  BY <1>2, <1>3 DEF Places
<1>5. ASSUME NEW i \in 1..(at[1] - 1), s[i] \notin Separator PROVE FALSE
  <2>1. i \in 1..Len(s) /\ i < at[1]
    BY <1>3, <1>4
  <2>2. PICK k \in 1..Len(w) : at[k] = i
    BY <1>2, <1>5, <2>1 DEF Places
  <2>3. k # 1 /\ 1 \in 1..Len(w) /\ 1 < k
    BY <1>3, <2>1, <2>2
  <2>4. at[1] < at[k]
    BY <1>2, <2>3 DEF Places
  <2> QED
    BY <1>4, <2>1, <2>2, <2>4
<1>6. ASSUME at[1] = Len(s) PROVE Len(w) = 1
  <2>1. SUFFICES ASSUME ~(Len(w) = 1) PROVE FALSE
    OBVIOUS
  <2>2. 1 \in 1..Len(w) /\ 2 \in 1..Len(w)
    <3>1. \A n \in Nat \ {0} : n # 1 => 1 \in 1..n /\ 2 \in 1..n
      OBVIOUS
    <3> QED
      BY <1>3, <2>1, <3>1
  <2>3. at[1] < at[2] /\ at[2] \in 1..Len(s)
    BY <1>2, <2>2 DEF Places
  <2> QED
    BY <1>3, <1>6, <2>3
<1> QED
  BY <1>1, <1>3, <1>4, <1>5, <1>6 DEF w

\* What docmd() is given is never empty, and it begins with a command only if
\* that is a word of s before its last token.
LEMMA FieldsFirst ==
  ASSUME NEW s \in Seq(Token), s # <<>>
  PROVE  /\ Fields(s) \in Seq(Token) /\ Len(Fields(s)) \in Nat \ {0}
         /\ Fields(s)[1] # "NUL" =>
              \E p \in 1..Len(s) :
                /\ p < Len(s) /\ s[p] = Fields(s)[1] /\ s[p] \notin Separator
                /\ \A i \in 1..(p - 1) : s[i] \in Separator
<1> DEFINE w == Spelled(s)
<1>0. Len(s) \in Nat \ {0} /\ w \in Seq(Token) /\ "NUL" \in Token
  <2>1. w \in Seq(Token)
    BY SpelledFacts
  <2> HIDE DEF w
  <2> QED
    BY <2>1, TokenStrings
<1>1. Last(s) = s[Len(s)]
  BY DEF Last
<1>2. CASE Last(s) \in Separator
  <2>1. Fields(s) = Append(w, "NUL")
    BY <1>2 DEF Fields
  <2> HIDE DEF w
  <2>2. /\ Fields(s) \in Seq(Token) /\ Len(Fields(s)) = Len(w) + 1 /\ Len(w) \in Nat
        /\ Fields(s)[Len(w) + 1] = "NUL" /\ \A k \in 1..Len(w) : Fields(s)[k] = w[k]
    BY <1>0, <2>1, AppendFacts
  <2>3. CASE w = <<>>
    BY <2>2, <2>3
  <2>4. CASE w # <<>>
    <3>1. PICK p \in 1..Len(s) :
            /\ s[p] = w[1] /\ s[p] \notin Separator
            /\ \A i \in 1..(p - 1) : s[i] \in Separator
      BY <2>4, SpelledFirst DEF w
    <3>2. p # Len(s)
      BY <1>1, <1>2, <3>1
    <3>3. p < Len(s)
      BY <1>0, <3>2
    <3>4. Fields(s)[1] = w[1]
      <4>1. Len(w) \in Nat \ {0}
        BY <1>0, <2>4
      <4> QED
        BY <2>2, <4>1
    <3> QED
      BY <2>2, <3>1, <3>3, <3>4
  <2> QED
    BY <2>3, <2>4
<1>3. CASE Last(s) \notin Separator
  <2>0. w # <<>>
    <3>1. PICK at : Places(at, s, Len(s), w)
      BY SpelledFacts
    <3>2. \E k \in 1..Len(w) : at[k] = Len(s)
      BY <1>0, <1>1, <1>3, <3>1 DEF Places
    <3> QED
      BY <3>2
  <2>a. PICK p \in 1..Len(s) :
          /\ s[p] = w[1] /\ s[p] \notin Separator
          /\ \A i \in 1..(p - 1) : s[i] \in Separator
          /\ p = Len(s) => Len(w) = 1
    BY <2>0, SpelledFirst
  <2>1. Fields(s) = Append(Front(w), "NUL")
    BY <1>3 DEF Fields
  <2> HIDE DEF w
  <2> DEFINE f == Front(w)
  <2>2. Len(w) \in Nat \ {0} /\ \A k \in 1..Len(w) : w[k] \in Token
    BY <1>0, <2>0
  <2>3. f \in Seq(Token) /\ Len(f) = Len(w) - 1 /\ \A k \in 1..Len(f) : f[k] = w[k]
    <3>1. f = SubSeq(w, 1, Len(w) - 1)
      BY DEF Front
    <3> HIDE DEF f
    <3>2. Len(w) - 1 \in Nat /\ Len(w) - 1 <= Len(w)
      BY <2>2
    <3> QED
      BY <1>0, <3>1, <3>2, PrefixFacts
  <2> HIDE DEF f
  <2>4. /\ Fields(s) \in Seq(Token) /\ Len(Fields(s)) = Len(w)
        /\ Fields(s)[Len(w)] = "NUL" /\ \A k \in 1..(Len(w) - 1) : Fields(s)[k] = w[k]
    <3>1. Fields(s) = Append(f, "NUL")
      BY <2>1 DEF f
    <3>2. /\ Fields(s) \in Seq(Token) /\ Len(Fields(s)) = Len(f) + 1
          /\ Fields(s)[Len(f) + 1] = "NUL" /\ \A k \in 1..Len(f) : Fields(s)[k] = f[k]
      BY <1>0, <2>3, <3>1, AppendFacts
    <3>3. Len(f) + 1 = Len(w)
      BY <2>2, <2>3
    <3> QED
      BY <2>3, <3>2, <3>3
  <2>5. CASE Len(w) = 1
    BY <2>2, <2>4, <2>5
  <2>6. CASE Len(w) # 1
    <3>1. Fields(s)[1] = w[1]
      BY <2>2, <2>4, <2>6
    <3>2. p < Len(s)
      BY <1>0, <2>a, <2>6
    <3> QED
      BY <2>2, <2>4, <2>a, <3>1, <3>2
  <2> QED
    BY <2>5, <2>6
<1> QED
  BY <1>2, <1>3

\* Of a line that lies whole in s, every word is given to docmd(), and something
\* after them.
LEMMA FieldsLine ==
  ASSUME NEW s \in Seq(Token), NEW l \in Lines, NEW p, LineAt(s, p, l), Last(s) \in Separator
  PROVE  /\ Len(Fields(s)) \in Nat /\ Len(l) < Len(Fields(s))
         /\ \A k \in 1..Len(l) : Fields(s)[k] = l[k]
         /\ Len(s) = p + 2 * Len(l) - 1 =>
              Len(Fields(s)) = Len(l) + 1 /\ Fields(s)[Len(l) + 1] = "NUL"
<1> DEFINE w == Spelled(s)
<1>1. /\ w \in Seq(Token) /\ Len(w) \in Nat /\ Len(l) <= Len(w) /\ Len(l) \in Nat
      /\ \A k \in 1..Len(l) : w[k] = l[k]
      /\ Len(s) = p + 2 * Len(l) - 1 => Len(w) = Len(l)
  BY SpelledFacts, SpelledLine, TokensFacts
<1>2. Fields(s) = Append(w, "NUL") /\ "NUL" \in Token
  BY TokenStrings, Zenon DEF Fields
<1> HIDE DEF w
<1>3. /\ Len(Fields(s)) = Len(w) + 1 /\ Fields(s)[Len(w) + 1] = "NUL"
      /\ \A k \in 1..Len(w) : Fields(s)[k] = w[k]
  BY <1>1, <1>2, AppendFacts
<1>4. \A k \in 1..Len(l) : k \in 1..Len(w)
  BY <1>1
<1> QED
  BY <1>1, <1>3, <1>4

(***************************************************************************)
(* docmd()                                                                 *)
(***************************************************************************)
LEMMA AtoiFacts == \A w : Atoi(w) \in -1..9
<1>1. DOMAIN Numeral = -1..9
  BY DEF Numeral
<1> QED
  BY <1>1 DEF Atoi

\* What docmd() runs is a request main() can be given.
LEMMA InvocationType ==
  ASSUME NEW parts, Docmd(parts) = "run"
  PROVE  Invocation(parts) \in RequestType /\ Invocation(parts).cmd = parts[1]
<1>1. parts[1] \in CommandWord
  BY DEF Docmd
<1>2. parts[1] \in FirstWord /\ Arity(parts[1]) \in 0..4
  BY <1>1 DEF CommandWord, ZoneWord, FirstWord, Arity
<1> DEFINE n    == Arity(parts[1])
           zone == IF n > 1 THEN Atoi(parts[2]) ELSE 0
           arg  == IF n > 2 THEN parts[3] ELSE "none"
           opt  == IF \E k \in 2..n : Atoi(parts[k]) < 0 THEN "bad" ELSE "none"
           word == IF arg \in ThirdWord THEN arg ELSE "none"
           ch   == IF parts[1] = "INPUT" /\ Atoi(arg) >= 0 THEN Atoi(arg) ELSE 0
<1>3. zone \in Int
  BY AtoiFacts
<1>4. word \in ThirdWord
  BY DEF ThirdWord
<1>5. ch \in Int
  <2> HIDE DEF arg
  <2>1. Atoi(arg) \in -1..9
    BY AtoiFacts
  <2> QED
    BY <2>1
<1>6. opt \in {"none", "h", "D", "bad"}
  OBVIOUS
<1>7. Invocation(parts) =
        [opt |-> opt, argc |-> n, cmd |-> parts[1], zone |-> zone, arg |-> word, ch |-> ch]
  BY Zenon DEF Invocation
<1> HIDE DEF n, zone, arg, opt, word, ch
<1> QED
  BY <1>2, <1>3, <1>4, <1>5, <1>6, <1>7 DEF RequestType, n

(***************************************************************************)
(* Types                                                                   *)
(***************************************************************************)
LEMMA NoRequestType == NoRequest \in RequestType
BY DEF NoRequest, RequestType, Command, FirstWord, ThirdWord

LEMMA Element ==
  ASSUME NEW T, NEW s \in Seq(T), NEW i \in 1..Len(s)
  PROVE  s[i] \in T
OBVIOUS

\* The beginning of the wire, and what a read leaves of it.
LEMMA WireFacts ==
  ASSUME TypeOK, NEW c \in Clients, NEW n \in 1..Len(wire[c])
  PROVE  LET s == SubSeq(wire[c], 1, n)
             r == SubSeq(wire[c], n + 1, Len(wire[c])) IN
         /\ wire[c] \in Seq(Token) /\ Len(wire[c]) \in Nat
         /\ s \in Seq(Token) /\ Len(s) = n /\ s # <<>>
         /\ \A k \in 1..n : s[k] = wire[c][k]
         /\ r \in Seq(Token) /\ Len(r) = Len(wire[c]) - n
         /\ \A k \in 1..Len(r) : r[k] = wire[c][n + k]
<1> DEFINE w == wire[c]
<1>1. w \in Seq(Token)
  BY DEF TypeOK
<1> HIDE DEF w
<1>2. Len(w) \in Nat /\ n \in Nat \ {0} /\ n <= Len(w)
  BY <1>1 DEF w
<1>3. /\ SubSeq(w, 1, n) \in Seq(Token) /\ Len(SubSeq(w, 1, n)) = n
      /\ \A k \in 1..n : SubSeq(w, 1, n)[k] = w[k]
  BY <1>1, <1>2, PrefixFacts
<1>4. SubSeq(w, n + 1, Len(w)) \in Seq(Token)
  BY <1>1, <1>2
<1>5. Len(SubSeq(w, n + 1, Len(w))) = Len(w) - n
  BY <1>1, <1>2
<1>6. \A k \in 1..(Len(w) - n) : SubSeq(w, n + 1, Len(w))[k] = w[n + k]
  BY <1>1, <1>2
<1>7. SubSeq(w, 1, n) # <<>>
  BY <1>2, <1>3
<1> QED
  BY <1>1, <1>2, <1>3, <1>4, <1>5, <1>6, <1>7 DEF w

LEMMA ConcFacts ==
  ASSUME NEW s \in Seq(Token), NEW t \in Seq(Token)
  PROVE  /\ s \o t \in Seq(Token) /\ Len(s) \in Nat /\ Len(t) \in Nat /\ Len(s \o t) = Len(s) + Len(t)
         /\ \A k \in 1..Len(s) : (s \o t)[k] = s[k]
         /\ \A k \in 1..Len(t) : (s \o t)[Len(s) + k] = t[k]
OBVIOUS

LEMMA TypeInit == Init => TypeOK
<1>1. <<>> \in Seq(Lines) /\ <<>> \in Seq(Token) /\ <<>> \in Seq(RequestType) /\ <<>> \in Seq(Reply)
  OBVIOUS
<1> QED
  BY <1>1, NoRequestType DEF Init, TypeOK

LEMMA AnsweredType ==
  ASSUME TypeOK, NEW c \in Clients, NEW r \in Reply, Answered(c, r)
  PROVE  replies' \in [Clients -> Seq(Reply)]
<1>1. replies \in [Clients -> Seq(Reply)]
  BY DEF TypeOK
<1>2. Append(replies[c], r) \in Seq(Reply)
  BY <1>1
<1> QED
  BY <1>1, <1>2 DEF Answered

LEMMA ExecType ==
  ASSUME TypeOK, NEW c \in Clients, NEW r \in RequestType, Exec(c, r)
  PROVE  /\ hand' \in [Clients -> {"none", "read", "cntl"}]
         /\ request' \in [Clients -> RequestType]
         /\ jostled' \in [Clients -> BOOLEAN]
         /\ ran' \in [Clients -> Seq(RequestType)]
         /\ \A d \in Clients : hand'[d] = "cntl" => Last(ran'[d]) = request'[d]
<1>0. /\ hand \in [Clients -> {"none", "read", "cntl"}]
      /\ request \in [Clients -> RequestType] /\ ran \in [Clients -> Seq(RequestType)]
      /\ jostled \in [Clients -> BOOLEAN]
      /\ \A d \in Clients : hand[d] = "cntl" => Last(ran[d]) = request[d]
  BY DEF TypeOK
<1> DEFINE e == Append(ran[c], r)
<1>1. e \in Seq(RequestType) /\ Last(e) = r
  <2>1. ran[c] \in Seq(RequestType)
    BY <1>0
  <2>2. e \in Seq(RequestType) /\ Len(e) = Len(ran[c]) + 1 /\ e[Len(ran[c]) + 1] = r
    BY <2>1, AppendFacts
  <2> HIDE DEF e
  <2> QED
    BY <2>2 DEF Last
<1>2. /\ hand' = [hand EXCEPT ![c] = "cntl"] /\ request' = [request EXCEPT ![c] = r]
      /\ ran' = [ran EXCEPT ![c] = e]
      /\ jostled' \in [Clients -> BOOLEAN]
  <2>1. ran' = [ran EXCEPT ![c] = e] /\ hand' = [hand EXCEPT ![c] = "cntl"]
        /\ request' = [request EXCEPT ![c] = r]
    BY DEF Exec
  <2> DEFINE others == {q \in Clients \ {c} : hand[q] = "cntl"}
  <2>2. jostled' = [q \in Clients |-> IF q = c THEN others # {} ELSE jostled[q] \/ q \in others]
    BY DEF Exec
  <2> HIDE DEF others
  <2>3. \A q \in Clients : (IF q = c THEN others # {} ELSE jostled[q] \/ q \in others) \in BOOLEAN
    OBVIOUS
  <2> QED
    BY <2>1, <2>2, <2>3
<1> HIDE DEF e
<1> QED
  BY <1>0, <1>1, <1>2

LEMMA TypeStep ==
  ASSUME TypeOK, [Next]_vars
  PROVE  TypeOK'
<1> USE DEF TypeOK
<1>1. ASSUME NEW c \in Clients, NEW l \in Lines, WriteLine(c, l) PROVE TypeOK'
  <2> DEFINE w == wire[c] \o Tokens(l)
             a == Append(asked[c], l)
  <2>1. w \in Seq(Token) /\ a \in Seq(Lines)
    BY TokensFacts, ConcFacts
  <2>2. wire' = [wire EXCEPT ![c] = w] /\ asked' = [asked EXCEPT ![c] = a]
    BY <1>1 DEF WriteLine
  <2> HIDE DEF w, a
  <2>3. wire' \in [Clients -> Seq(Token)] /\ asked' \in [Clients -> Seq(Lines)]
    BY <2>1, <2>2
  <2> QED
    BY <1>1, <2>3 DEF WriteLine
<1>2. ASSUME NEW c \in Clients, Leave(c) PROVE TypeOK'
  BY <1>2 DEF Leave
<1>3. ASSUME NEW c \in Clients, Accept(c) PROVE TypeOK'
  BY <1>3 DEF Accept
<1>4. ASSUME NEW c \in Clients, ReadEnd(c) PROVE TypeOK'
  BY <1>4 DEF ReadEnd
<1>5. ASSUME NEW c \in Clients, CntlEnds(c) PROVE TypeOK'
  <2>1. replies' \in [Clients -> Seq(Reply)]
    <3>1. PICK r \in Reply : Answered(c, r)
      BY <1>5 DEF CntlEnds, Reply
    <3> QED
      BY <3>1, AnsweredType
  <2> QED
    BY <1>5, <2>1 DEF CntlEnds
<1>6. ASSUME NEW c \in Clients, NEW n \in 1..Len(wire[c]), Read(c, n) PROVE TypeOK'
  <2> DEFINE r == SubSeq(wire[c], n + 1, Len(wire[c]))
  <2>1. r \in Seq(Token)
    BY WireFacts
  <2>2. wire' = [wire EXCEPT ![c] = r]
    BY <1>6 DEF Read
  <2> HIDE DEF r
  <2>3. wire' \in [Clients -> Seq(Token)]
    BY <2>1, <2>2
  <2>4. up /\ UNCHANGED <<up, conn, asked>> /\ Turn(c, Parts(c, n))
    BY <1>6 DEF Read, Readable
  <2>5. CASE /\ Answered(c, "format") \/ Answered(c, "error")
             /\ UNCHANGED <<hand, request, jostled, ran>>
    <3>1. replies' \in [Clients -> Seq(Reply)]
      BY <2>5, AnsweredType DEF Reply
    <3> QED
      BY <2>3, <2>4, <2>5, <3>1
  <2>6. CASE /\ Docmd(Parts(c, n)) = "run" /\ Exec(c, Invocation(Parts(c, n)))
             /\ UNCHANGED replies
    <3>1. Invocation(Parts(c, n)) \in RequestType
      BY <2>6, InvocationType
    <3>2. /\ hand' \in [Clients -> {"none", "read", "cntl"}]
          /\ request' \in [Clients -> RequestType]
          /\ jostled' \in [Clients -> BOOLEAN]
          /\ ran' \in [Clients -> Seq(RequestType)]
          /\ \A d \in Clients : hand'[d] = "cntl" => Last(ran'[d]) = request'[d]
      BY <2>6, <3>1, ExecType
    <3> QED
      BY <2>3, <2>4, <2>6, <3>2
  <2> QED
    BY <2>4, <2>5, <2>6 DEF Turn
<1>7. ASSUME GoDown PROVE TypeOK'
  <2>1. <<>> \in Seq(Token)
    OBVIOUS
  <2> QED
    BY <1>7, <2>1 DEF GoDown
<1>8. ASSUME Restart PROVE TypeOK'
  BY <1>8 DEF Restart
<1>9. CASE UNCHANGED vars
  BY <1>9 DEF vars
<1> QED
  BY <1>1, <1>2, <1>3, <1>4, <1>5, <1>6, <1>7, <1>8, <1>9 DEF Next, Panic, Terminate

\* TypeOK, of the state of tcp_handler()'s connections: whatever is written and
\* however it is cut, what is run is an invocation cntl can be given, a handler
\* waits for the last of them, and none outlives the process.
THEOREM DaemonTypeCorrectness == Spec => []TypeOK
<1>1. Init => TypeOK
  BY TypeInit
<1>2. TypeOK /\ [Next]_vars => TypeOK'
  BY TypeStep
<1> QED
  BY <1>1, <1>2, PTL DEF Spec

(***************************************************************************)
(* Lines that are cut and run together                                     *)
(***************************************************************************)

\* The commands of the language come first in their lines, and with all their
\* words.
NoLateCommand == \A l \in Lines : \A k \in 2..Len(l) : l[k] \notin CommandWord
NoneShort == \A l \in Lines : l[1] \in CommandWord => Arity(l[1]) <= Len(l)

\* Each token of the wire w is that of a line of a, at a place in it; the line
\* goes on with the next token or a later line begins; the last line is whole.
Placed(w, a, line, pos) ==
  /\ line \in [1..Len(w) -> 1..Len(a)]
  /\ pos \in [1..Len(w) -> Nat]
  /\ \A j \in 1..Len(w) : /\ pos[j] \in 1..(2 * Len(a[line[j]]))
                          /\ w[j] = Tokens(a[line[j]])[pos[j]]
  /\ \A i, j \in 1..Len(w) : i < j =>
       IF pos[i] + (j - i) <= 2 * Len(a[line[i]])
       THEN line[j] = line[i] /\ pos[j] = pos[i] + (j - i)
       ELSE line[i] < line[j]
  /\ w # <<>> => pos[Len(w)] = 2 * Len(a[line[Len(w)]])

\* The first n tokens of w, and the others.
HeadOf(s, w, n) == Len(s) = n /\ \A k \in 1..n : s[k] = w[k]
TailOf(r, w, n) == Len(r) = Len(w) - n /\ \A k \in 1..Len(r) : r[k] = w[n + k]

After(f, n, m) == [k \in 1..m |-> f[n + k]]

LEMMA PlacedEmpty == \A a : Placed(<<>>, a, <<>>, <<>>)
BY DEF Placed

\* A line more.
LEMMA PlacedWrite ==
  ASSUME NEW w \in Seq(Token), NEW a \in Seq(Lines), NEW line, NEW pos, Placed(w, a, line, pos),
         NEW l \in Lines
  PROVE  \E on, at :
           /\ Placed(w \o Tokens(l), Append(a, l), on, at)
           /\ w # <<>> => on[1] = line[1] /\ at[1] = pos[1]
           /\ w = <<>> => on[1] = Len(a) + 1
<1> DEFINE t == Tokens(l)
           v == w \o t
           b == Append(a, l)
           on == [j \in 1..Len(v) |-> IF j \in 1..Len(w) THEN line[j] ELSE Len(a) + 1]
           at == [j \in 1..Len(v) |-> IF j \in 1..Len(w) THEN pos[j] ELSE j - Len(w)]
<1>1. /\ t \in Seq(Token) /\ Len(t) = 2 * Len(l) /\ Len(l) \in Nat \ {0}
  BY TokensFacts
<1> HIDE DEF t
<1>2. /\ Len(w) \in Nat /\ Len(v) = Len(w) + 2 * Len(l) /\ v \in Seq(Token)
      /\ \A j \in 1..Len(w) : v[j] = w[j]
      /\ \A j \in 1..(2 * Len(l)) : v[Len(w) + j] = t[j]
  <2>1. /\ v \in Seq(Token) /\ Len(w) \in Nat /\ Len(v) = Len(w) + Len(t)
        /\ \A j \in 1..Len(w) : v[j] = w[j]
        /\ \A j \in 1..Len(t) : v[Len(w) + j] = t[j]
    BY <1>1, ConcFacts
  <2> HIDE DEF v
  <2> QED
    BY <1>1, <2>1
<1>3. /\ Len(a) \in Nat /\ Len(b) = Len(a) + 1 /\ b[Len(a) + 1] = l
      /\ \A j \in 1..Len(a) : b[j] = a[j]
  BY AppendFacts
<1> HIDE DEF v, b
<1>4. /\ \A j \in 1..Len(w) : /\ j \in 1..Len(v) /\ line[j] \in 1..Len(a) /\ pos[j] \in Nat
                              /\ pos[j] \in 1..(2 * Len(a[line[j]]))
                              /\ w[j] = Tokens(a[line[j]])[pos[j]]
                              /\ Len(a[line[j]]) \in Nat
      /\ \A i, j \in 1..Len(w) : i < j =>
           IF pos[i] + (j - i) <= 2 * Len(a[line[i]])
           THEN line[j] = line[i] /\ pos[j] = pos[i] + (j - i)
           ELSE line[i] < line[j]
      /\ w # <<>> => Len(w) \in 1..Len(w) /\ pos[Len(w)] = 2 * Len(a[line[Len(w)]])
  <2>1. \A j \in 1..Len(a) : Len(a[j]) \in Nat
    BY TokensFacts
  <2>2. w # <<>> => Len(w) \in 1..Len(w)
    BY <1>2
  <2>3. \A j \in 1..Len(w) : j \in 1..Len(v)
    BY <1>1, <1>2
  <2> QED
    BY <2>1, <2>2, <2>3 DEF Placed
<1>5. \A j \in 1..Len(v) : j \in 1..Len(w) \/ (j - Len(w) \in 1..(2 * Len(l)) /\ Len(w) < j)
  BY <1>1, <1>2
<1>6. /\ \A j \in 1..Len(w) : on[j] = line[j] /\ at[j] = pos[j] /\ b[on[j]] = a[line[j]]
      /\ \A j \in 1..Len(v) : j \notin 1..Len(w) =>
           on[j] = Len(a) + 1 /\ at[j] = j - Len(w) /\ b[on[j]] = l
  BY <1>3, <1>4
<1>7. on \in [1..Len(v) -> 1..Len(b)] /\ at \in [1..Len(v) -> Nat]
  <2>1. ASSUME NEW j \in 1..Len(v)
        PROVE  /\ (IF j \in 1..Len(w) THEN line[j] ELSE Len(a) + 1) \in 1..Len(b)
               /\ (IF j \in 1..Len(w) THEN pos[j] ELSE j - Len(w)) \in Nat
    BY <1>2, <1>3, <1>4, <1>5
  <2> QED
    BY <2>1
<1> HIDE DEF on, at
<1>8. ASSUME NEW j \in 1..Len(v)
      PROVE  at[j] \in 1..(2 * Len(b[on[j]])) /\ v[j] = Tokens(b[on[j]])[at[j]]
  <2>1. CASE j \in 1..Len(w)
    BY <1>2, <1>4, <1>6, <2>1
  <2>2. CASE j \notin 1..Len(w)
    <3>1. v[Len(w) + (j - Len(w))] = t[j - Len(w)] /\ Len(w) + (j - Len(w)) = j
      BY <1>2, <1>5, <2>2
    <3> QED
      BY <1>5, <1>6, <2>2, <3>1 DEF t
  <2> QED
    BY <2>1, <2>2
<1>9. ASSUME NEW i \in 1..Len(v), NEW j \in 1..Len(v), i < j
      PROVE  IF at[i] + (j - i) <= 2 * Len(b[on[i]])
             THEN on[j] = on[i] /\ at[j] = at[i] + (j - i)
             ELSE on[i] < on[j]
  <2>1. CASE j \in 1..Len(w)
    <3>1. i \in 1..Len(w)
      BY <1>9, <2>1
    <3> QED
      BY <1>4, <1>6, <1>9, <2>1, <3>1
  <2>2. CASE j \notin 1..Len(w) /\ i \in 1..Len(w)
    <3>1. on[i] < on[j]
      BY <1>3, <1>4, <1>6, <2>2
    <3>2. w # <<>> /\ Len(w) \in 1..Len(w) /\ Len(w) < j
      BY <1>2, <1>5, <2>2
    <3>3. pos[i] + (Len(w) - i) >= 2 * Len(a[line[i]])
      <4>1. CASE i = Len(w)
        BY <1>2, <1>4, <3>2, <4>1
      <4>2. CASE i # Len(w)
        <5>1. i < Len(w)
          BY <1>2, <2>2, <4>2
        <5>2. IF pos[i] + (Len(w) - i) <= 2 * Len(a[line[i]])
              THEN line[Len(w)] = line[i] /\ pos[Len(w)] = pos[i] + (Len(w) - i)
              ELSE line[i] < line[Len(w)]
          BY <1>4, <2>2, <3>2, <5>1
        <5>3. pos[Len(w)] = 2 * Len(a[line[Len(w)]]) /\ pos[i] \in Nat /\ Len(a[line[i]]) \in Nat
          BY <1>4, <2>2, <3>2
        <5>4. CASE pos[i] + (Len(w) - i) <= 2 * Len(a[line[i]])
          BY <5>2, <5>3, <5>4
        <5>5. CASE ~(pos[i] + (Len(w) - i) <= 2 * Len(a[line[i]]))
          <6>1. Len(w) \in Nat /\ i \in Int
            BY <1>2, <2>2
          <6> QED
            BY <5>3, <5>5, <6>1
        <5> QED
          BY <5>4, <5>5
      <4> QED
        BY <4>1, <4>2
    <3>4. pos[i] + (j - i) > 2 * Len(a[line[i]])
      <4>1. pos[i] \in Nat /\ Len(a[line[i]]) \in Nat /\ i \in Nat /\ j \in Nat
        BY <1>4, <2>2
      <4> QED
        BY <1>2, <3>2, <3>3, <4>1
    <3>5. ~(at[i] + (j - i) <= 2 * Len(b[on[i]]))
      <4>1. pos[i] \in Nat /\ Len(a[line[i]]) \in Nat /\ i \in Nat /\ j \in Nat
        BY <1>4, <2>2
      <4>2. at[i] = pos[i] /\ b[on[i]] = a[line[i]]
        BY <1>6, <2>2
      <4>3. ~(pos[i] + (j - i) <= 2 * Len(a[line[i]]))
        BY <3>4, <4>1
      <4> QED
        BY <4>2, <4>3
    <3> QED
      BY <3>1, <3>5
  <2>3. CASE j \notin 1..Len(w) /\ i \notin 1..Len(w)
    <3>1. j - Len(w) = (i - Len(w)) + (j - i) /\ j - Len(w) <= 2 * Len(l)
      BY <1>1, <1>2, <1>5, <2>3
    <3> QED
      BY <1>6, <2>3, <3>1
  <2>4. i \notin 1..Len(w) => j \notin 1..Len(w)
    BY <1>2, <1>9
  <2> QED
    BY <2>1, <2>2, <2>3, <2>4
<1>10. at[Len(v)] = 2 * Len(b[on[Len(v)]])
  <2>1. Len(v) \in 1..Len(v) /\ Len(v) \notin 1..Len(w) /\ Len(v) - Len(w) = 2 * Len(l)
    BY <1>1, <1>2
  <2> QED
    BY <1>6, <2>1
<1>11. w = <<>> => on[1] = Len(a) + 1
  <2>1. w = <<>> => 1 \in 1..Len(v) /\ 1 \notin 1..Len(w)
    BY <1>1, <1>2
  <2> QED
    BY <1>6, <2>1
<1>12. w # <<>> => on[1] = line[1] /\ at[1] = pos[1]
  <2>1. w # <<>> => 1 \in 1..Len(w)
    BY <1>2
  <2> QED
    BY <1>6, <2>1
<1>13. Placed(v, b, on, at)
  BY <1>7, <1>8, <1>9, <1>10 DEF Placed
<1> QED
  BY <1>11, <1>12, <1>13 DEF v, b, t

\* A read.
LEMMA PlacedRead ==
  ASSUME NEW w \in Seq(Token), NEW a, NEW line, NEW pos, Placed(w, a, line, pos),
         NEW n \in 1..Len(w), NEW r \in Seq(Token), TailOf(r, w, n)
  PROVE  Placed(r, a, After(line, n, Len(r)), After(pos, n, Len(r)))
<1> DEFINE on == After(line, n, Len(r))
           at == After(pos, n, Len(r))
<1>1. /\ Len(w) \in Nat /\ Len(r) \in Nat /\ Len(r) = Len(w) - n
      /\ \A k \in 1..Len(r) : r[k] = w[n + k]
  BY DEF TailOf
<1>2. \A k \in 1..Len(r) : n + k \in 1..Len(w)
  BY <1>1
<1>3. \A k \in 1..Len(r) : on[k] = line[n + k] /\ at[k] = pos[n + k]
  BY DEF After
<1>4. on \in [1..Len(r) -> 1..Len(a)] /\ at \in [1..Len(r) -> Nat]
  BY <1>2 DEF Placed, After
<1> HIDE DEF on, at
<1>5. \A j \in 1..Len(r) : /\ at[j] \in 1..(2 * Len(a[on[j]]))
                           /\ r[j] = Tokens(a[on[j]])[at[j]]
  BY <1>1, <1>2, <1>3 DEF Placed
<1>6. ASSUME NEW i \in 1..Len(r), NEW j \in 1..Len(r), i < j
      PROVE  IF at[i] + (j - i) <= 2 * Len(a[on[i]])
             THEN on[j] = on[i] /\ at[j] = at[i] + (j - i)
             ELSE on[i] < on[j]
  <2>1. n + i \in 1..Len(w) /\ n + j \in 1..Len(w) /\ n + i < n + j /\ (n + j) - (n + i) = j - i
    BY <1>1, <1>2, <1>6
  <2>2. IF pos[n + i] + ((n + j) - (n + i)) <= 2 * Len(a[line[n + i]])
        THEN line[n + j] = line[n + i] /\ pos[n + j] = pos[n + i] + ((n + j) - (n + i))
        ELSE line[n + i] < line[n + j]
    BY <2>1 DEF Placed
  <2> QED
    BY <1>3, <2>1, <2>2
<1>7. r # <<>> => at[Len(r)] = 2 * Len(a[on[Len(r)]])
  <2>1. r # <<>> => Len(r) \in 1..Len(r) /\ n + Len(r) = Len(w) /\ w # <<>>
    BY <1>1
  <2> QED
    BY <1>3, <2>1 DEF Placed
<1>8. Placed(r, a, on, at)
  BY <1>4, <1>5, <1>6, <1>7 DEF Placed
<1> QED
  BY <1>8 DEF on, at

\* Where a read finds a command, a line of the client's begins with it.
LEMMA FirstCommand ==
  ASSUME NoLateCommand, NEW w \in Seq(Token), NEW a \in Seq(Lines), NEW line, NEW pos,
         Placed(w, a, line, pos), NEW n \in 1..Len(w), NEW s \in Seq(Token), HeadOf(s, w, n),
         Fields(s)[1] \in CommandWord
  PROVE  \E p \in 1..n :
           /\ p < n /\ pos[p] = 1 /\ line[p] \in 1..Len(a) /\ a[line[p]] \in Lines
           /\ a[line[p]][1] = Fields(s)[1]
           /\ \A i \in 1..(p - 1) : s[i] \in Separator
<1>0. /\ n \in Nat \ {0} /\ n <= Len(w) /\ s # <<>> /\ Len(w) \in Nat
      /\ Len(s) = n /\ \A k \in 1..n : s[k] = w[k]
  BY DEF HeadOf
<1>1. Fields(s)[1] # "NUL"
  BY DEF CommandWord, ZoneWord
<1>2. PICK p \in 1..n : /\ p < n /\ s[p] = Fields(s)[1] /\ s[p] \notin Separator
                        /\ \A i \in 1..(p - 1) : s[i] \in Separator
  BY <1>0, <1>1, FieldsFirst
<1> DEFINE l == a[line[p]]
<1>3. /\ p \in 1..Len(w) /\ line[p] \in 1..Len(a) /\ l \in Lines
      /\ pos[p] \in 1..(2 * Len(l)) /\ w[p] = Tokens(l)[pos[p]]
  <2>1. p \in 1..Len(w)
    BY <1>0
  <2>2. line[p] \in 1..Len(a) /\ pos[p] \in 1..(2 * Len(l)) /\ w[p] = Tokens(l)[pos[p]]
    BY <2>1 DEF Placed
  <2>3. l \in Lines
    BY <2>2, Element
  <2> QED
    BY <2>1, <2>2, <2>3
<1>4. PICK k \in 1..Len(l) : pos[p] = 2 * k - 1
  <2>1. Tokens(l)[pos[p]] \notin Separator
    BY <1>0, <1>2, <1>3
  <2>2. l \in Lines /\ pos[p] \in 1..(2 * Len(l))
    BY <1>3
  <2> HIDE DEF l
  <2>3. \A m \in 1..(2 * Len(l)) : Tokens(l)[m] \notin Separator =>
          \E k \in 1..Len(l) : m = 2 * k - 1
    BY <2>2, TokensFacts
  <2> QED
    BY <2>1, <2>2, <2>3
<1> HIDE DEF l
<1>5. w[p] = l[k] /\ Len(l) \in Nat
  BY <1>3, <1>4, TokensFacts
<1>6. k = 1
  <2>1. l[k] \in CommandWord
    BY <1>0, <1>2, <1>5
  <2>2. k \notin 2..Len(l)
    BY <1>3, <2>1 DEF NoLateCommand
  <2> QED
    BY <1>5, <2>2
<1>7. pos[p] = 1 /\ l[1] = Fields(s)[1]
  BY <1>0, <1>2, <1>4, <1>5, <1>6
<1> QED
  BY <1>2, <1>3, <1>7 DEF l

\* If the read ends with a line, it has the whole of the one that begins there.
LEMMA FirstLine ==
  ASSUME NEW w \in Seq(Token), NEW a \in Seq(Lines), NEW line, NEW pos,
         Placed(w, a, line, pos), NEW n \in 1..Len(w), NEW s \in Seq(Token), HeadOf(s, w, n),
         w[n] = "NL",
         NEW p \in 1..n, p < n, pos[p] = 1, \A i \in 1..(p - 1) : s[i] \in Separator
  PROVE  LineAt(s, p, a[line[p]])
<1> DEFINE l == a[line[p]]
<1>0. /\ n \in Nat \ {0} /\ Len(w) \in Nat /\ p \in 1..Len(w) /\ p \in Nat
      /\ \A j \in 1..n : j \in 1..Len(w)
      /\ Len(s) = n /\ \A k \in 1..n : s[k] = w[k]
  BY DEF HeadOf
<1>1. /\ line[p] \in 1..Len(a) /\ l \in Lines /\ w[p] = Tokens(l)[1]
      /\ \A j \in 1..Len(w) : p < j =>
           IF 1 + (j - p) <= 2 * Len(l) THEN line[j] = line[p] /\ pos[j] = 1 + (j - p)
           ELSE line[p] < line[j]
      /\ \A j \in 1..Len(w) : /\ a[line[j]] \in Lines
                              /\ pos[j] \in 1..(2 * Len(a[line[j]]))
                              /\ w[j] = Tokens(a[line[j]])[pos[j]]
  <2>1. /\ line \in [1..Len(w) -> 1..Len(a)]
        /\ \A j \in 1..Len(w) : /\ pos[j] \in 1..(2 * Len(a[line[j]]))
                                /\ w[j] = Tokens(a[line[j]])[pos[j]]
        /\ \A i, j \in 1..Len(w) : i < j =>
             IF pos[i] + (j - i) <= 2 * Len(a[line[i]])
             THEN line[j] = line[i] /\ pos[j] = pos[i] + (j - i)
             ELSE line[i] < line[j]
    BY DEF Placed
  <2>2. ASSUME NEW j \in 1..Len(w) PROVE line[j] \in 1..Len(a) /\ a[line[j]] \in Lines
    <3>1. line[j] \in 1..Len(a)
      BY <2>1
    <3> QED
      BY <3>1, Element
  <2>3. \A j \in 1..Len(w) : p < j =>
          IF pos[p] + (j - p) <= 2 * Len(a[line[p]])
          THEN line[j] = line[p] /\ pos[j] = pos[p] + (j - p)
          ELSE line[p] < line[j]
    BY <1>0, <2>1
  <2> QED
    BY <1>0, <2>1, <2>2, <2>3
<1>2. Len(l) \in Nat \ {0} /\ \A m \in 1..(2 * Len(l)) : Tokens(l)[m] = "NL" <=> m = 2 * Len(l)
  BY <1>1, TokensFacts
<1>3. p + 2 * Len(l) - 1 <= n
  <2>1. SUFFICES ASSUME n < p + 2 * Len(l) - 1 PROVE FALSE
    BY <1>0, <1>2
  <2>2. 1 + (n - p) < 2 * Len(l) /\ 1 + (n - p) \in 1..(2 * Len(l))
    BY <1>0, <1>2, <2>1
  <2>3. n \in 1..Len(w) /\ line[n] = line[p] /\ pos[n] = 1 + (n - p)
    BY <1>0, <1>1, <1>2, <2>2
  <2>4. Tokens(l)[1 + (n - p)] = "NL"
    BY <1>1, <2>3
  <2>5. 1 + (n - p) = 2 * Len(l)
    BY <1>2, <2>2, <2>4
  <2> HIDE DEF l
  <2> QED
    BY <1>0, <1>2, <2>2, <2>5
<1>4. ASSUME NEW m \in 1..(2 * Len(l)) PROVE s[p + m - 1] = Tokens(l)[m]
  <2>1. p + m - 1 \in 1..n /\ p + m - 1 \in 1..Len(w) /\ m \in Nat
    BY <1>0, <1>2, <1>3
  <2>2. s[p + m - 1] = w[p + m - 1]
    BY <1>0, <2>1
  <2>3. CASE m = 1
    <3>1. p + m - 1 = p
      BY <1>0, <2>3
    <3> QED
      BY <1>1, <2>2, <2>3, <3>1
  <2>4. CASE m # 1
    <3>1. p < p + m - 1 /\ 1 + ((p + m - 1) - p) = m /\ m <= 2 * Len(l)
      BY <1>0, <1>2, <2>1, <2>4
    <3>2. line[p + m - 1] = line[p] /\ pos[p + m - 1] = m
      BY <1>1, <2>1, <3>1
    <3> QED
      BY <1>1, <2>1, <2>2, <3>2
  <2> QED
    BY <2>3, <2>4
<1> QED
  BY <1>0, <1>3, <1>4 DEF LineAt

\* Where a command comes first and the read ends with a line, docmd() is given
\* the words of that line.
LEMMA WholeLine ==
  ASSUME NoLateCommand, NoneShort,
         NEW w \in Seq(Token), NEW a \in Seq(Lines), NEW line, NEW pos,
         Placed(w, a, line, pos), NEW n \in 1..Len(w), NEW s \in Seq(Token), HeadOf(s, w, n),
         w[n] = "NL", Fields(s)[1] \in CommandWord
  PROVE  \E m \in 1..Len(a) :
           /\ a[m][1] = Fields(s)[1] /\ Arity(Fields(s)[1]) \in 1..4
           /\ Arity(Fields(s)[1]) <= Len(Fields(s))
           /\ \A k \in 1..Arity(Fields(s)[1]) : a[m][k] = Fields(s)[k]
<1>1. PICK p \in 1..n :
        /\ p < n /\ pos[p] = 1 /\ line[p] \in 1..Len(a) /\ a[line[p]] \in Lines
        /\ a[line[p]][1] = Fields(s)[1]
        /\ \A i \in 1..(p - 1) : s[i] \in Separator
  BY FirstCommand
<1>2. LineAt(s, p, a[line[p]])
  BY <1>1, FirstLine
<1> DEFINE l == a[line[p]]
<1>3. Last(s) \in Separator
  <2>1. n \in 1..n /\ s[n] = "NL" /\ Len(s) = n
    BY DEF HeadOf
  <2> QED
    BY <2>1 DEF Last, Separator
<1>4. /\ l \in Lines /\ Len(Fields(s)) \in Nat /\ Len(l) < Len(Fields(s)) /\ Len(l) \in Nat
      /\ \A k \in 1..Len(l) : Fields(s)[k] = l[k]
  <2>1. l \in Lines /\ LineAt(s, p, l)
    BY <1>1, <1>2
  <2> HIDE DEF l
  <2>2. Len(l) \in Nat
    BY <2>1, TokensFacts
  <2> QED
    BY <1>3, <2>1, <2>2, FieldsLine
<1>5. l[1] = Fields(s)[1] /\ Arity(l[1]) <= Len(l)
  BY <1>1 DEF NoneShort
<1> HIDE DEF l
<1>6. Arity(l[1]) \in 1..4
  BY DEF Arity
<1>7. Arity(l[1]) <= Len(Fields(s)) /\ \A k \in 1..Arity(l[1]) : l[k] = Fields(s)[k]
  BY <1>4, <1>5, <1>6
<1> QED
  BY <1>1, <1>5, <1>6, <1>7 DEF l

LEMMA SameInvocation ==
  ASSUME NEW l, NEW parts, l[1] = parts[1], Arity(parts[1]) \in 1..4,
         \A k \in 1..Arity(parts[1]) : l[k] = parts[k]
  PROVE  Invocation(l) = Invocation(parts)
<1> DEFINE n == Arity(parts[1])
<1>1. n > 1 => l[2] = parts[2]
  <2>1. n > 1 => 2 \in 1..n
    OBVIOUS
  <2> QED
    BY <2>1
<1>2. n > 2 => l[3] = parts[3]
  <2>1. n > 2 => 3 \in 1..n
    OBVIOUS
  <2> QED
    BY <2>1
<1>3. \A k \in 2..n : l[k] = parts[k]
  <2>1. \A k \in 2..n : k \in 1..n
    OBVIOUS
  <2> QED
    BY <2>1
<1>4. (\E k \in 2..n : Atoi(l[k]) < 0) <=> (\E k \in 2..n : Atoi(parts[k]) < 0)
  BY <1>3
<1>5. /\ (IF n > 1 THEN Atoi(l[2]) ELSE 0) = (IF n > 1 THEN Atoi(parts[2]) ELSE 0)
      /\ (IF n > 2 THEN l[3] ELSE "none") = (IF n > 2 THEN parts[3] ELSE "none")
      /\ (IF \E k \in 2..n : Atoi(l[k]) < 0 THEN "bad" ELSE "none")
           = (IF \E k \in 2..n : Atoi(parts[k]) < 0 THEN "bad" ELSE "none")
  BY <1>1, <1>2, <1>4
<1> QED
  BY <1>5, Zenon DEF Invocation

\* Each command of r is that of a line of a, in their order, and of a line that
\* has begun before the wire does.
Taken(r, w, a, line, pos, ln) ==
  /\ ln \in [1..Len(r) -> 1..Len(a)]
  /\ \A k \in 1..Len(r) : r[k].cmd = a[ln[k]][1]
  /\ \A j, k \in 1..Len(r) : j < k => ln[j] < ln[k]
  /\ w # <<>> => \A k \in 1..Len(r) : ln[k] < line[1] \/ (ln[k] = line[1] /\ pos[1] > 1)

Ordered(w, a, r) ==
  \E line, pos, ln : Placed(w, a, line, pos) /\ Taken(r, w, a, line, pos, ln)

LEMMA OrderedEmpty ==
  ASSUME NEW w, NEW a, NEW r, Ordered(w, a, r)
  PROVE  Ordered(<<>>, a, r)
<1>1. PICK line, pos, ln : Placed(w, a, line, pos) /\ Taken(r, w, a, line, pos, ln)
  BY DEF Ordered
<1>2. Taken(r, <<>>, a, <<>>, <<>>, ln)
  BY <1>1 DEF Taken
<1> QED
  BY <1>2, PlacedEmpty DEF Ordered

LEMMA OrderedWrite ==
  ASSUME NEW w \in Seq(Token), NEW a \in Seq(Lines), NEW r, Len(r) \in Nat, Ordered(w, a, r),
         NEW l \in Lines
  PROVE  Ordered(w \o Tokens(l), Append(a, l), r)
<1> DEFINE v == w \o Tokens(l)
           b == Append(a, l)
<1>1. PICK line, pos, ln : Placed(w, a, line, pos) /\ Taken(r, w, a, line, pos, ln)
  BY DEF Ordered
<1>2. PICK on, at : /\ Placed(v, b, on, at)
                    /\ w # <<>> => on[1] = line[1] /\ at[1] = pos[1]
                    /\ w = <<>> => on[1] = Len(a) + 1
  BY <1>1, PlacedWrite
<1>3. /\ Len(a) \in Nat /\ Len(b) = Len(a) + 1 /\ \A j \in 1..Len(a) : b[j] = a[j]
  BY AppendFacts
<1> HIDE DEF v, b
<1>4. /\ \A k \in 1..Len(r) : ln[k] \in 1..Len(a) /\ r[k].cmd = a[ln[k]][1]
      /\ \A j, k \in 1..Len(r) : j < k => ln[j] < ln[k]
      /\ w # <<>> => \A k \in 1..Len(r) : ln[k] < line[1] \/ (ln[k] = line[1] /\ pos[1] > 1)
      /\ ln \in [1..Len(r) -> 1..Len(a)]
  BY <1>1 DEF Taken
<1>5. ln \in [1..Len(r) -> 1..Len(b)] /\ \A k \in 1..Len(r) : r[k].cmd = b[ln[k]][1]
  BY <1>3, <1>4
<1>6. \A k \in 1..Len(r) : ln[k] < on[1] \/ (ln[k] = on[1] /\ at[1] > 1)
  <2>1. CASE w = <<>>
    BY <1>2, <1>3, <1>4, <2>1
  <2>2. CASE w # <<>>
    BY <1>2, <1>4, <2>2
  <2> QED
    BY <2>1, <2>2
<1>7. Taken(r, v, b, on, at, ln)
  BY <1>4, <1>5, <1>6 DEF Taken
<1> QED
  BY <1>2, <1>7 DEF Ordered, v, b

\* Of two tokens the later one is of a later line, or later in the line.
LEMMA LaterToken ==
  ASSUME NEW w \in Seq(Token), NEW a \in Seq(Lines), NEW line, NEW pos, Placed(w, a, line, pos),
         NEW i \in 1..Len(w), NEW j \in 1..Len(w), i < j
  PROVE  /\ line[i] \in Nat /\ line[j] \in Nat /\ pos[i] \in Nat \ {0} /\ pos[j] \in Nat \ {0}
         /\ line[i] < line[j] \/ (line[i] = line[j] /\ pos[i] < pos[j])
<1>1. /\ line[i] \in 1..Len(a) /\ line[j] \in 1..Len(a) /\ pos[i] \in Nat /\ pos[j] \in Nat
      /\ pos[i] >= 1 /\ pos[j] >= 1
  <2>1. /\ line \in [1..Len(w) -> 1..Len(a)] /\ pos \in [1..Len(w) -> Nat]
        /\ pos[i] \in 1..(2 * Len(a[line[i]])) /\ pos[j] \in 1..(2 * Len(a[line[j]]))
    BY DEF Placed
  <2>2. line[i] \in 1..Len(a) /\ line[j] \in 1..Len(a) /\ pos[i] \in Nat /\ pos[j] \in Nat
    BY <2>1
  <2>3. pos[i] >= 1 /\ pos[j] >= 1
    BY <2>1, <2>2
  <2> QED
    BY <2>2, <2>3
<1>2. \/ line[j] = line[i] /\ pos[j] = pos[i] + (j - i)
      \/ line[i] < line[j]
  BY DEF Placed
<1> QED
  BY <1>1, <1>2

LEMMA OrderedRead ==
  ASSUME NEW w \in Seq(Token), NEW a \in Seq(Lines), NEW r, Len(r) \in Nat, Ordered(w, a, r),
         NEW n \in 1..Len(w), NEW rest \in Seq(Token), TailOf(rest, w, n)
  PROVE  Ordered(rest, a, r)
<1>1. PICK line, pos, ln : Placed(w, a, line, pos) /\ Taken(r, w, a, line, pos, ln)
  BY DEF Ordered
<1> DEFINE on == After(line, n, Len(rest))
           at == After(pos, n, Len(rest))
<1>2. Placed(rest, a, on, at)
  BY <1>1, PlacedRead
<1>3. Taken(r, rest, a, on, at, ln)
  <2>1. SUFFICES ASSUME rest # <<>>, NEW k \in 1..Len(r)
                 PROVE  ln[k] < on[1] \/ (ln[k] = on[1] /\ at[1] > 1)
    BY <1>1 DEF Taken
  <2>2. /\ Len(rest) \in Nat \ {0} /\ Len(w) \in Nat /\ 1 \in 1..Len(rest)
        /\ 1 \in 1..Len(w) /\ n + 1 \in 1..Len(w) /\ 1 < n + 1
    BY <2>1 DEF TailOf
  <2>3. on[1] = line[n + 1] /\ at[1] = pos[n + 1]
    BY <2>2 DEF After
  <2> HIDE DEF on, at
  <2>4. /\ line[1] \in Nat /\ line[n + 1] \in Nat /\ pos[1] \in Nat \ {0} /\ pos[n + 1] \in Nat \ {0}
        /\ line[1] < line[n + 1] \/ (line[1] = line[n + 1] /\ pos[1] < pos[n + 1])
    BY <1>1, <2>2, LaterToken
  <2>5. ln[k] \in Nat /\ (ln[k] < line[1] \/ (ln[k] = line[1] /\ pos[1] > 1))
    <3>1. w # <<>>
      BY <2>2
    <3> QED
      BY <1>1, <3>1 DEF Taken
  <2> QED
    BY <2>3, <2>4, <2>5
<1> QED
  BY <1>2, <1>3 DEF Ordered

LEMMA OrderedRun ==
  ASSUME NoLateCommand,
         NEW w \in Seq(Token), NEW a \in Seq(Lines), NEW r \in Seq(RequestType), Ordered(w, a, r),
         NEW n \in 1..Len(w), NEW rest \in Seq(Token), TailOf(rest, w, n),
         NEW s \in Seq(Token), HeadOf(s, w, n),
         Fields(s)[1] \in CommandWord, NEW e \in RequestType, e.cmd = Fields(s)[1]
  PROVE  Ordered(rest, a, Append(r, e))
<1>1. PICK line, pos, ln : Placed(w, a, line, pos) /\ Taken(r, w, a, line, pos, ln)
  BY DEF Ordered
<1>2. PICK p \in 1..n :
        /\ p < n /\ pos[p] = 1 /\ line[p] \in 1..Len(a)
        /\ a[line[p]][1] = Fields(s)[1]
  BY <1>1, FirstCommand
<1> DEFINE on == After(line, n, Len(rest))
           at == After(pos, n, Len(rest))
           q  == Append(r, e)
           to == [k \in 1..Len(q) |-> IF k = Len(q) THEN line[p] ELSE ln[k]]
<1>3. Placed(rest, a, on, at)
  BY <1>1, PlacedRead
<1>4. /\ Len(r) \in Nat /\ Len(q) = Len(r) + 1 /\ q[Len(r) + 1] = e
      /\ \A k \in 1..Len(r) : q[k] = r[k]
  BY AppendFacts
<1> HIDE DEF q
<1>5. /\ \A k \in 1..Len(r) : ln[k] \in 1..Len(a) /\ r[k].cmd = a[ln[k]][1]
      /\ \A j, k \in 1..Len(r) : j < k => ln[j] < ln[k]
      /\ w # <<>> => \A k \in 1..Len(r) : ln[k] < line[1] \/ (ln[k] = line[1] /\ pos[1] > 1)
  BY <1>1 DEF Taken
<1>6. /\ to \in [1..Len(q) -> 1..Len(a)] /\ to[Len(q)] = line[p]
      /\ \A k \in 1..Len(r) : to[k] = ln[k]
      /\ \A k \in 1..Len(q) : k = Len(q) \/ k \in 1..Len(r)
  <2>1. \A k \in 1..Len(q) : k = Len(q) \/ k \in 1..Len(r)
    BY <1>4
  <2>2. \A k \in 1..Len(r) : k \in 1..Len(q) /\ k # Len(q)
    BY <1>4
  <2>3. Len(q) \in 1..Len(q)
    BY <1>4
  <2>4. \A k \in 1..Len(q) : (IF k = Len(q) THEN line[p] ELSE ln[k]) \in 1..Len(a)
    BY <1>2, <1>5, <2>1
  <2> QED
    BY <2>1, <2>2, <2>3, <2>4
<1>7. \A k \in 1..Len(r) : ln[k] < line[p]
  <2> TAKE k \in 1..Len(r)
  <2>1. w # <<>> /\ 1 \in 1..Len(w) /\ p \in 1..Len(w) /\ Len(w) \in Nat
    OBVIOUS
  <2>2. ln[k] < line[1] \/ (ln[k] = line[1] /\ pos[1] > 1)
    BY <1>5, <2>1
  <2>3. CASE p = 1
    BY <1>2, <2>2, <2>3
  <2>4. CASE p # 1
    <3>1. 1 < p
      BY <2>4
    <3>2. /\ line[1] \in Nat /\ line[p] \in Nat /\ pos[1] \in Nat \ {0}
          /\ line[1] < line[p] \/ (line[1] = line[p] /\ pos[1] < pos[p])
      BY <1>1, <2>1, <3>1, LaterToken
    <3>3. line[1] < line[p]
      BY <1>2, <3>2
    <3>4. ln[k] \in Nat
      BY <1>5
    <3> QED
      BY <2>2, <3>2, <3>3, <3>4
  <2> QED
    BY <2>3, <2>4
<1> HIDE DEF to
<1>8. ASSUME NEW k \in 1..Len(q) PROVE q[k].cmd = a[to[k]][1]
  <2>1. CASE k = Len(q)
    BY <1>2, <1>4, <1>6, <2>1
  <2>2. CASE k # Len(q)
    BY <1>4, <1>5, <1>6, <2>2
  <2> QED
    BY <2>1, <2>2
<1>9. ASSUME NEW j \in 1..Len(q), NEW k \in 1..Len(q), j < k PROVE to[j] < to[k]
  <2>1. j \in 1..Len(r) /\ to[j] = ln[j]
    BY <1>4, <1>6, <1>9
  <2>2. CASE k = Len(q)
    BY <1>6, <1>7, <2>1, <2>2
  <2>3. CASE k # Len(q)
    BY <1>5, <1>6, <1>9, <2>1, <2>3
  <2> QED
    BY <2>2, <2>3
<1>10. ASSUME rest # <<>>, NEW k \in 1..Len(q)
       PROVE  to[k] < on[1] \/ (to[k] = on[1] /\ at[1] > 1)
  <2>1. /\ Len(rest) \in Nat \ {0} /\ Len(w) \in Nat /\ 1 \in 1..Len(rest)
        /\ p \in 1..Len(w) /\ n + 1 \in 1..Len(w) /\ p < n + 1
    BY <1>10 DEF TailOf
  <2>2. on[1] = line[n + 1] /\ at[1] = pos[n + 1]
    BY <2>1 DEF After
  <2> HIDE DEF on, at
  <2>3. /\ line[p] \in Nat /\ line[n + 1] \in Nat /\ pos[n + 1] \in Nat \ {0}
        /\ line[p] < line[n + 1] \/ (line[p] = line[n + 1] /\ pos[p] < pos[n + 1])
    BY <1>1, <2>1, LaterToken
  <2>4. to[k] \in Nat /\ (to[k] = line[p] \/ to[k] < line[p])
    <3>1. CASE k = Len(q)
      BY <1>6, <2>3, <3>1
    <3>2. CASE k # Len(q)
      <4>1. k \in 1..Len(r) /\ to[k] = ln[k]
        BY <1>6, <3>2
      <4> QED
        BY <1>5, <1>7, <4>1
    <3> QED
      BY <3>1, <3>2
  <2> QED
    BY <1>2, <2>2, <2>3, <2>4
<1>11. Taken(q, rest, a, on, at, to)
  <2> HIDE DEF on, at
  <2> QED
    BY <1>6, <1>8, <1>9, <1>10 DEF Taken
<1> QED
  BY <1>3, <1>11 DEF Ordered, q

OrderInv == TypeOK /\ \A c \in Clients : Ordered(wire[c], asked[c], ran[c])

LEMMA OrderInit == Init => OrderInv
<1> SUFFICES ASSUME Init PROVE OrderInv
  OBVIOUS
<1>1. Taken(<<>>, <<>>, <<>>, <<>>, <<>>, <<>>)
  BY DEF Taken
<1>2. Ordered(<<>>, <<>>, <<>>)
  BY <1>1, PlacedEmpty DEF Ordered
<1> QED
  BY <1>2, TypeInit DEF OrderInv, Init

\* What a read takes, what docmd() is given of it, and what it leaves.
LEMMA ReadFacts ==
  ASSUME TypeOK, NEW c \in Clients, NEW n \in 1..Len(wire[c]), Read(c, n)
  PROVE  LET w == wire[c]
             s == SubSeq(w, 1, n) IN
         /\ w \in Seq(Token) /\ asked[c] \in Seq(Lines) /\ ran[c] \in Seq(RequestType)
         /\ wire'[c] \in Seq(Token) /\ TailOf(wire'[c], w, n)
         /\ s \in Seq(Token) /\ HeadOf(s, w, n)
         /\ Parts(c, n) = Fields(s)
         /\ asked' = asked
         /\ \A d \in Clients : d # c => wire'[d] = wire[d]
         /\ \/ ran' = ran
            \/ /\ Docmd(Fields(s)) = "run" /\ Fields(s)[1] \in CommandWord
               /\ Invocation(Fields(s)) \in RequestType
               /\ Invocation(Fields(s)).cmd = Fields(s)[1]
               /\ ran'[c] = Append(ran[c], Invocation(Fields(s)))
               /\ \A d \in Clients : d # c => ran'[d] = ran[d]
<1>1. wire' = [wire EXCEPT ![c] = SubSeq(@, n + 1, Len(@))] /\ asked' = asked
  BY DEF Read
<1>2. wire'[c] = SubSeq(wire[c], n + 1, Len(wire[c])) /\ \A d \in Clients : d # c => wire'[d] = wire[d]
  BY <1>1 DEF TypeOK
<1>3. Parts(c, n) = Fields(SubSeq(wire[c], 1, n))
  BY DEF Parts
<1>4. \/ ran' = ran
      \/ Docmd(Parts(c, n)) = "run" /\ Exec(c, Invocation(Parts(c, n)))
  BY DEF Read, Turn
<1>5. ASSUME Docmd(Parts(c, n)) = "run", Exec(c, Invocation(Parts(c, n)))
      PROVE  /\ Parts(c, n)[1] \in CommandWord
             /\ Invocation(Parts(c, n)) \in RequestType
             /\ Invocation(Parts(c, n)).cmd = Parts(c, n)[1]
             /\ ran'[c] = Append(ran[c], Invocation(Parts(c, n)))
             /\ \A d \in Clients : d # c => ran'[d] = ran[d]
  <2>1. Parts(c, n)[1] \in CommandWord
    BY <1>5 DEF Docmd
  <2>2. ran' = [ran EXCEPT ![c] = Append(@, Invocation(Parts(c, n)))]
    BY <1>5 DEF Exec
  <2> QED
    BY <1>5, <2>1, <2>2, InvocationType DEF TypeOK
<1>6. asked[c] \in Seq(Lines) /\ ran[c] \in Seq(RequestType)
  BY DEF TypeOK
<1>7. LET s == SubSeq(wire[c], 1, n)
          r == SubSeq(wire[c], n + 1, Len(wire[c])) IN
      /\ wire[c] \in Seq(Token) /\ s \in Seq(Token) /\ HeadOf(s, wire[c], n)
      /\ r \in Seq(Token) /\ TailOf(r, wire[c], n)
  BY WireFacts DEF HeadOf, TailOf
<1> QED
  BY <1>1, <1>2, <1>3, <1>4, <1>5, <1>6, <1>7

LEMMA OrderStep ==
  ASSUME NoLateCommand, OrderInv, [Next]_vars
  PROVE  OrderInv'
<1>0. TypeOK /\ TypeOK'
  BY TypeStep DEF OrderInv
<1>a. \A c \in Clients : /\ wire[c] \in Seq(Token) /\ asked[c] \in Seq(Lines)
                         /\ ran[c] \in Seq(RequestType) /\ Len(ran[c]) \in Nat
                         /\ Ordered(wire[c], asked[c], ran[c])
  BY DEF OrderInv, TypeOK
<1>1. ASSUME NEW c \in Clients, NEW l \in Lines, WriteLine(c, l) PROVE OrderInv'
  <2>1. /\ wire'[c] = wire[c] \o Tokens(l) /\ asked'[c] = Append(asked[c], l) /\ ran' = ran
        /\ \A d \in Clients : d # c => wire'[d] = wire[d] /\ asked'[d] = asked[d]
    BY <1>0, <1>1 DEF WriteLine, TypeOK
  <2>2. Ordered(wire'[c], asked'[c], ran'[c])
    BY <1>a, <2>1, OrderedWrite
  <2> QED
    BY <1>0, <1>a, <2>1, <2>2 DEF OrderInv
<1>2. ASSUME UNCHANGED <<asked, wire, ran>> PROVE OrderInv'
  BY <1>0, <1>2 DEF OrderInv
<1>3. ASSUME NEW c \in Clients, NEW n \in 1..Len(wire[c]), Read(c, n) PROVE OrderInv'
  <2> DEFINE s == SubSeq(wire[c], 1, n)
  <2>1. /\ wire'[c] \in Seq(Token) /\ TailOf(wire'[c], wire[c], n)
        /\ s \in Seq(Token) /\ HeadOf(s, wire[c], n)
        /\ asked' = asked
        /\ \A d \in Clients : d # c => wire'[d] = wire[d]
        /\ \/ ran' = ran
           \/ /\ Fields(s)[1] \in CommandWord
              /\ Invocation(Fields(s)) \in RequestType
              /\ Invocation(Fields(s)).cmd = Fields(s)[1]
              /\ ran'[c] = Append(ran[c], Invocation(Fields(s)))
              /\ \A d \in Clients : d # c => ran'[d] = ran[d]
    BY <1>0, <1>3, ReadFacts
  <2> HIDE DEF s
  <2>2. Ordered(wire'[c], asked'[c], ran'[c])
    <3>1. CASE ran' = ran
      BY <1>a, <2>1, <3>1, OrderedRead
    <3>2. CASE ran' # ran
      <4> DEFINE e == Invocation(Fields(s))
      <4>1. /\ Fields(s)[1] \in CommandWord /\ e \in RequestType /\ e.cmd = Fields(s)[1]
            /\ ran'[c] = Append(ran[c], e) /\ asked'[c] = asked[c]
        BY <2>1, <3>2
      <4> HIDE DEF e
      <4>2. Ordered(wire'[c], asked[c], Append(ran[c], e))
        <5>1. /\ wire[c] \in Seq(Token) /\ asked[c] \in Seq(Lines)
              /\ ran[c] \in Seq(RequestType) /\ Ordered(wire[c], asked[c], ran[c])
          BY <1>a
        <5> QED
          BY <2>1, <4>1, <5>1, OrderedRun
      <4> QED
        BY <4>1, <4>2
    <3> QED
      BY <3>1, <3>2
  <2> QED
    BY <1>0, <1>a, <2>1, <2>2 DEF OrderInv
<1>4. ASSUME GoDown PROVE OrderInv'
  <2>1. asked' = asked /\ ran' = ran /\ \A c \in Clients : wire'[c] = <<>>
    BY <1>4 DEF GoDown
  <2> QED
    BY <1>0, <1>a, <2>1, OrderedEmpty DEF OrderInv
<1> QED
  BY <1>1, <1>2, <1>3, <1>4
     DEF Next, Leave, Accept, ReadEnd, CntlEnds, Panic, Terminate, Restart, vars

LEMMA OrderInvariant ==
  ASSUME NoLateCommand
  PROVE  Spec => []OrderInv
<1>1. Init => OrderInv
  BY OrderInit
<1>2. OrderInv /\ [Next]_vars => OrderInv'
  BY OrderStep
<1> QED
  BY <1>1, <1>2, PTL DEF Spec

\* CommandsInOrder, of tcp_handler()'s reads: wherever the network cuts the lines
\* of a client and however many it runs together, cntl is run for commands of
\* lines the client wrote, in their order and never twice for one, if a command
\* is the first word of its line.
THEOREM NoCommandOutOfOrder ==
  ASSUME NoLateCommand
  PROVE  Spec => []CommandsInOrder
<1>1. OrderInv => CommandsInOrder
  <2> SUFFICES ASSUME OrderInv, NEW c \in Clients
               PROVE  \E line \in [DOMAIN ran[c] -> DOMAIN asked[c]] :
                        \A k \in DOMAIN ran[c] :
                          /\ ran[c][k].cmd = asked[c][line[k]][1]
                          /\ \A j \in 1..(k - 1) : line[j] < line[k]
    BY DEF CommandsInOrder
  <2>1. PICK line, pos, ln : Taken(ran[c], wire[c], asked[c], line, pos, ln)
    BY DEF OrderInv, Ordered
  <2>2. /\ DOMAIN ran[c] = 1..Len(ran[c]) /\ DOMAIN asked[c] = 1..Len(asked[c])
        /\ Len(ran[c]) \in Nat
    BY DEF OrderInv, TypeOK
  <2>3. \A k \in 1..Len(ran[c]) : \A j \in 1..(k - 1) : j \in 1..Len(ran[c]) /\ j < k
    BY <2>2
  <2> QED
    BY <2>1, <2>2, <2>3 DEF Taken
<1> QED
  BY <1>1, OrderInvariant, PTL

\* OnlyCutReadsPanic, of docmd()'s indexing of its words: when no line is short
\* of a word, only a read that ends inside a line makes it panic.
THEOREM WholeLinesDoNotPanic ==
  ASSUME NoLateCommand, NoneShort
  PROVE  Spec => []OnlyCutReadsPanic
<1>1. OrderInv => OnlyCutReadsPanic
  <2> SUFFICES ASSUME OrderInv, NEW c \in Clients, NEW n \in 1..Len(wire[c]),
                      Panics(Parts(c, n)), wire[c][n] = "NL"
               PROVE  FALSE
    BY DEF OnlyCutReadsPanic
  <2> DEFINE s == SubSeq(wire[c], 1, n)
  <2>1. /\ wire[c] \in Seq(Token) /\ asked[c] \in Seq(Lines)
        /\ s \in Seq(Token) /\ s # <<>> /\ HeadOf(s, wire[c], n)
    BY WireFacts DEF OrderInv, TypeOK, HeadOf
  <2>2. PICK line, pos : Placed(wire[c], asked[c], line, pos)
    BY DEF OrderInv, Ordered
  <2>3. Docmd(Fields(s)) = "panic"
    BY DEF Panics, Parts
  <2> HIDE DEF s
  <2>4. Len(Fields(s)) \in Nat \ {0}
    BY <2>1, FieldsFirst
  <2>5. Fields(s)[1] \in CommandWord /\ Len(Fields(s)) < Arity(Fields(s)[1])
    BY <2>3, <2>4 DEF Docmd
  <2>6. Arity(Fields(s)[1]) \in 1..4 /\ Arity(Fields(s)[1]) <= Len(Fields(s))
    BY <2>1, <2>2, <2>5, WholeLine
  <2> QED
    BY <2>4, <2>5, <2>6
<1> QED
  BY <1>1, OrderInvariant, PTL

\* NothingInvented, of the words tcp_handler() hands to docmd(): when no line is
\* short of a word, a read that ends with a line runs cntl as one of the lines
\* asks for.
THEOREM WholeLinesAreObeyed ==
  ASSUME NoLateCommand, NoneShort
  PROVE  Spec => NothingInvented
<1>1. OrderInv /\ [Next]_vars =>
        [\A c \in Clients : ReadLines(c) /\ ran'[c] # ran[c] =>
           \E m \in DOMAIN asked[c] : Last(ran'[c]) = Invocation(asked[c][m])]_vars
  <2> SUFFICES ASSUME OrderInv, Next, NEW c \in Clients, ReadLines(c), ran'[c] # ran[c]
               PROVE  \E m \in DOMAIN asked[c] : Last(ran'[c]) = Invocation(asked[c][m])
    OBVIOUS
  <2>1. PICK n \in 1..Len(wire[c]) : Read(c, n)
    <3>1. ASSUME NEW d \in Clients, NEW n \in 1..Len(wire[d]), Read(d, n) PROVE d = c
      BY <3>1, ReadFacts DEF OrderInv
    <3>2. up'
      BY DEF ReadLines
    <3> QED
      BY <3>1, <3>2
         DEF Next, WriteLine, Leave, Accept, ReadEnd, CntlEnds, Panic, Terminate, GoDown, Restart
  <2> DEFINE s == SubSeq(wire[c], 1, n)
  <2>2. /\ wire[c] \in Seq(Token) /\ asked[c] \in Seq(Lines) /\ ran[c] \in Seq(RequestType)
        /\ TailOf(wire'[c], wire[c], n)
        /\ s \in Seq(Token) /\ HeadOf(s, wire[c], n)
        /\ Fields(s)[1] \in CommandWord
        /\ Invocation(Fields(s)) \in RequestType
        /\ ran'[c] = Append(ran[c], Invocation(Fields(s)))
    BY <2>1, ReadFacts DEF OrderInv
  <2> HIDE DEF s
  <2>3. wire[c][n] = "NL"
    <3>1. Len(wire[c]) - Len(wire'[c]) = n
      BY <2>2 DEF TailOf
    <3> QED
      BY <3>1 DEF ReadLines
  <2>4. PICK line, pos : Placed(wire[c], asked[c], line, pos)
    BY DEF OrderInv, Ordered
  <2>5. PICK m \in 1..Len(asked[c]) :
          /\ asked[c][m][1] = Fields(s)[1] /\ Arity(Fields(s)[1]) \in 1..4
          /\ \A k \in 1..Arity(Fields(s)[1]) : asked[c][m][k] = Fields(s)[k]
    BY <2>2, <2>3, <2>4, WholeLine
  <2>6. Invocation(asked[c][m]) = Invocation(Fields(s))
    BY <2>5, SameInvocation
  <2>7. Last(ran'[c]) = Invocation(Fields(s))
    <3> DEFINE e == Invocation(Fields(s))
    <3> HIDE DEF e
    <3>1. /\ ran'[c] = Append(ran[c], e) /\ e \in RequestType
      BY <2>2 DEF e
    <3>2. Len(ran'[c]) = Len(ran[c]) + 1 /\ ran'[c][Len(ran[c]) + 1] = e
      BY <2>2, <3>1, AppendFacts
    <3> QED
      BY <3>2 DEF Last, e
  <2>8. m \in DOMAIN asked[c]
    BY <2>2
  <2> QED
    BY <2>6, <2>7, <2>8
<1> QED
  BY <1>1, OrderInvariant, PTL DEF Spec, NothingInvented

(***************************************************************************)
(* The conversation of a client that waits for its answers                 *)
(***************************************************************************)

\* What is assumed of clients, network and lines: no line is written before the
\* last one is answered, a read returns all there is, and nobody queries no zone,
\* a line that the padding with zeros completes.
OneAtATime == Window = 1 /\ Whole = TRUE /\ <<"QUERY">> \notin Lines

\* The commands of the first n lines of a.
Commands(a, n) == FlattenSeq([k \in 1..n |-> Meaning(a[k])])

LEMMA CommandsOfIs == \A c, n : CS!CommandsOf(c, n) = Commands(asked[c], n)
BY DEF CS!CommandsOf, CS!FlattenSeq, Commands, FlattenSeq

LEMMA MeaningType == \A l : Meaning(l) \in Seq(RequestType)
<1> TAKE l
<1>1. CASE Runs(l)
  <2>1. Invocation(l) \in RequestType
    BY <1>1, InvocationType DEF Runs
  <2> DEFINE i == Invocation(l)
  <2> HIDE DEF i
  <2>2. <<i>> \in Seq(RequestType)
    BY <2>1 DEF i
  <2> QED
    BY <1>1, <2>2 DEF Meaning, i
<1>2. CASE ~Runs(l)
  <2>1. <<>> \in Seq(RequestType)
    OBVIOUS
  <2> QED
    BY <1>2, <2>1 DEF Meaning
<1> QED
  BY <1>1, <1>2

LEMMA CommandsStep ==
  ASSUME NEW a \in Seq(Lines), NEW n \in Nat
  PROVE  /\ Commands(a, n) \in Seq(RequestType)
         /\ Commands(a, n + 1) = Commands(a, n) \o Meaning(a[n + 1])
<1> DEFINE G(k) == Meaning(a[k])
           g == [k \in 1..n |-> G(k)]
<1>1. \A k : G(k) \in Seq(RequestType)
  BY MeaningType
<1> HIDE DEF G
<1>2. g \in Seq(Seq(RequestType)) /\ Len(g) = n
  BY <1>1
<1>3. [k \in 1..(n + 1) |-> G(k)] = Append(g, G(n + 1))
  OBVIOUS
<1> HIDE DEF g
<1>4. /\ FlattenSeq(g) \in Seq(RequestType)
      /\ FlattenSeq([k \in 1..(n + 1) |-> G(k)]) = FlattenSeq(g) \o G(n + 1)
  BY <1>1, <1>2, <1>3, FlattenFacts
<1> QED
  BY <1>4 DEF Commands, g, G

LEMMA CommandsNone == \A a : Commands(a, 0) = <<>>
<1> TAKE a
<1>1. [k \in 1..0 |-> Meaning(a[k])] = <<>>
  OBVIOUS
<1> QED
  BY <1>1, FlattenEmpty DEF Commands

LEMMA CommandsSame ==
  ASSUME NEW a \in Seq(Lines), NEW l \in Lines, NEW n \in Nat, n <= Len(a)
  PROVE  Commands(Append(a, l), n) = Commands(a, n)
<1>1. \A k \in 1..n : Append(a, l)[k] = a[k]
  BY AppendFacts
<1>2. [k \in 1..n |-> Meaning(Append(a, l)[k])] = [k \in 1..n |-> Meaning(a[k])]
  BY <1>1, Zenon
<1> QED
  BY <1>2 DEF Commands

\* What docmd() makes of a line and a word of zeros is what it makes of the line.
LEMMA PaddedLine ==
  ASSUME OneAtATime, NEW l \in Lines, NEW parts, Len(parts) = Len(l) + 1,
         \A k \in 1..Len(l) : parts[k] = l[k], parts[Len(l) + 1] = "NUL", Len(parts) <= 4
  PROVE  /\ Len(l) < 4
         /\ Docmd(parts) = "run" => Runs(l) /\ Invocation(parts) = Invocation(l)
         /\ Docmd(parts) \in {"unknown", "refused"} => ~Runs(l)
<1>0. /\ Len(l) \in Nat \ {0} /\ \A k \in 1..Len(l) : l[k] # "NUL"
      /\ l[1] = parts[1] /\ Len(l) < 4 /\ l # <<>> /\ l \in Seq(Token)
  BY TokensFacts
<1> DEFINE n == Arity(parts[1])
<1>1. n \in 1..4
  BY DEF Arity
<1>2. CASE parts[1] \notin CommandWord
  <2>1. Docmd(l) = "unknown"
    BY <1>0, <1>2 DEF Docmd
  <2>2. Docmd(parts) # "run"
    BY <1>2 DEF Docmd
  <2> QED
    BY <1>0, <2>1, <2>2 DEF Runs
<1>3. CASE parts[1] \in CommandWord /\ n <= Len(l)
  <2>1. \A k \in 1..n : l[k] = parts[k]
    BY <1>0, <1>1, <1>3
  <2>2. Invocation(l) = Invocation(parts)
    BY <1>0, <1>1, <2>1, SameInvocation
  <2>3. \A k \in 3..n : l[k] # "NUL" /\ parts[k] # "NUL"
    BY <1>0, <1>1, <1>3
  <2>4. Docmd(l) = "run"
    BY <1>0, <1>1, <1>3, <2>3 DEF Docmd
  <2>5. Docmd(parts) \notin {"unknown", "refused"}
    BY <1>0, <1>3, <2>3 DEF Docmd
  <2> QED
    BY <1>0, <2>2, <2>4, <2>5 DEF Runs
<1>4. CASE parts[1] \in CommandWord /\ Len(l) < n
  <2>1. Docmd(l) = "panic"
    BY <1>0, <1>1, <1>4 DEF Docmd
  <2>2. Docmd(parts) # "run"
    <3>1. SUFFICES ASSUME Docmd(parts) = "run" PROVE FALSE
      OBVIOUS
    <3>2. n <= Len(parts) /\ \A k \in 3..n : parts[k] # "NUL"
      BY <1>0, <3>1, <1>1 DEF Docmd
    <3>3. Len(l) + 1 = n /\ n \notin 3..n
      BY <1>0, <1>1, <1>4, <3>2
    <3>4. n = 2 /\ Len(l) = 1
      <4> HIDE DEF n
      <4>1. n < 3
        BY <1>1, <3>3
      <4>2. Len(l) \in Nat \ {0}
        BY <1>0
      <4>3. \A i \in Nat \ {0}, j \in 1..4 : i + 1 = j /\ j < 3 => j = 2 /\ i = 1
        OBVIOUS
      <4>4. Len(l) + 1 = n /\ n \in 1..4
        BY <1>1, <3>3
      <4> QED
        BY <4>1, <4>2, <4>3, <4>4
    <3>5. parts[1] = "QUERY"
      BY <1>4, <3>4 DEF Arity, CommandWord, ZoneWord
    <3>6. l = <<"QUERY">>
      BY <1>0, <3>4, <3>5
    <3> QED
      BY <3>6 DEF OneAtATime
  <2> QED
    BY <1>0, <2>1, <2>2 DEF Runs
<1> QED
  BY <1>0, <1>1, <1>2, <1>3, <1>4

\* A line alone on the wire is read whole.
LEMMA LineAlone ==
  ASSUME NEW l \in Lines, NEW s \in Seq(Token), HeadOf(s, Tokens(l), 2 * Len(l))
  PROVE  /\ Len(Fields(s)) = Len(l) + 1 /\ Len(l) \in Nat
         /\ \A k \in 1..Len(l) : Fields(s)[k] = l[k]
         /\ Fields(s)[Len(l) + 1] = "NUL"
<1>1. /\ Len(l) \in Nat \ {0} /\ Len(s) = 2 * Len(l)
      /\ \A k \in 1..(2 * Len(l)) : s[k] = Tokens(l)[k]
  BY TokensFacts DEF HeadOf
<1>2. LineAt(s, 1, l)
  <2>1. 1 \in 1..Len(s) /\ 1 + 2 * Len(l) - 1 <= Len(s)
    BY <1>1
  <2>2. \A m \in 1..(2 * Len(l)) : 1 + m - 1 = m
    BY <1>1
  <2>3. \A m \in 1..(2 * Len(l)) : s[1 + m - 1] = Tokens(l)[m]
    BY <1>1, <2>2
  <2> QED
    BY <2>1, <2>3 DEF LineAt
<1>3. Last(s) \in Separator
  <2>1. Len(s) \in 1..(2 * Len(l)) /\ Tokens(l)[2 * Len(l)] = "NL"
    BY <1>1, TokensFacts
  <2> QED
    BY <1>1, <2>1 DEF Last, Separator
<1>4. Len(s) = 1 + 2 * Len(l) - 1
  BY <1>1
<1> QED
  BY <1>1, <1>2, <1>3, <1>4, FieldsLine

\* The conversation of c: how far its lines, their commands and their answers are.
Talk(c) ==
  LET m == Len(replies[c])
      n == Len(asked[c])
      l == asked[c][n] IN
  /\ n = m \/ n = m + 1
  /\ conn[c] = "none" => n = 0 /\ hand[c] = "none"
  /\ conn[c] = "open" => hand[c] # "none"
  /\ wire[c] # <<>> => /\ n = m + 1 /\ hand[c] = "read"
                       /\ wire[c] = Tokens(l)
                       /\ ran[c] = Commands(asked[c], m)
  /\ hand[c] = "cntl" => /\ n = m + 1 /\ wire[c] = <<>>
                         /\ Runs(l) /\ request[c] = Invocation(l)
                         /\ ran[c] = Commands(asked[c], n)
  /\ hand[c] # "cntl" /\ conn[c] # "closed" /\ wire[c] = <<>> =>
       n = m /\ ran[c] = Commands(asked[c], n)

TalkInv == TypeOK /\ \A c \in Clients : Talk(c)

LEMMA TalkInit == Init => TalkInv
<1> SUFFICES ASSUME Init PROVE TalkInv
  OBVIOUS
<1>1. Len(<<>>) = 0 /\ Commands(<<>>, 0) = <<>>
  BY CommandsNone
<1>2. \A c \in Clients : Talk(c)
  BY <1>1 DEF Init, Talk
<1> QED
  BY <1>2, TypeInit DEF TalkInv

LEMMA TalkFacts ==
  ASSUME TalkInv, NEW c \in Clients
  PROVE  /\ Len(replies[c]) \in Nat /\ Len(asked[c]) \in Nat
         /\ asked[c] \in Seq(Lines) /\ replies[c] \in Seq(Reply) /\ ran[c] \in Seq(RequestType)
         /\ wire[c] \in Seq(Token)
         /\ Len(asked[c]) = Len(replies[c]) + 1 => asked[c][Len(asked[c])] \in Lines
<1>1. /\ asked[c] \in Seq(Lines) /\ replies[c] \in Seq(Reply) /\ ran[c] \in Seq(RequestType)
      /\ wire[c] \in Seq(Token)
  BY DEF TalkInv, TypeOK
<1>2. Len(replies[c]) \in Nat /\ Len(asked[c]) \in Nat
  BY <1>1
<1>3. Len(asked[c]) = Len(replies[c]) + 1 => Len(asked[c]) \in 1..Len(asked[c])
  BY <1>2
<1> QED
  BY <1>1, <1>2, <1>3, Element

\* Each action for a client is a step of its conversation with the abstract
\* server, or none of it.
LEMMA TalkWrite ==
  ASSUME OneAtATime, TalkInv, NEW c \in Clients, NEW l \in Lines, WriteLine(c, l)
  PROVE  Talk(c)' /\ CS!WriteLine(c, l)
<1> DEFINE m == Len(replies[c])
           n == Len(asked[c])
           a == Append(asked[c], l)
<1>1. /\ m \in Nat /\ n \in Nat /\ asked[c] \in Seq(Lines) /\ wire[c] \in Seq(Token)
      /\ Talk(c) /\ conn[c] = "open" /\ n < m + 1
  BY TalkFacts DEF TalkInv, WriteLine, OneAtATime
<1>2. n = m /\ wire[c] = <<>> /\ hand[c] = "read" /\ ran[c] = Commands(asked[c], n)
  <2>1. n # m + 1
    BY <1>1
  <2>2. hand[c] # "none" /\ hand[c] # "cntl" /\ wire[c] = <<>>
    BY <1>1, <2>1 DEF Talk
  <2> QED
    BY <1>1, <2>1, <2>2 DEF Talk, TalkInv, TypeOK
<1>3. /\ Len(a) = n + 1 /\ a[n + 1] = l /\ Commands(a, n) = Commands(asked[c], n)
  BY <1>1, AppendFacts, CommandsSame
<1>4. /\ asked' = [asked EXCEPT ![c] = a] /\ asked'[c] = a
      /\ wire'[c] = <<>> \o Tokens(l) /\ UNCHANGED <<conn, hand, request, ran, replies>>
  BY <1>2 DEF WriteLine, TalkInv, TypeOK
<1>5. wire'[c] = Tokens(l) /\ Tokens(l) # <<>>
  <2>1. Tokens(l) \in Seq(Token) /\ Len(Tokens(l)) # 0
    BY TokensFacts
  <2> QED
    BY <1>4, <2>1
<1> HIDE DEF a
<1>6. Talk(c)'
  BY <1>1, <1>2, <1>3, <1>4, <1>5 DEF Talk
<1>7. CS!WriteLine(c, l)
  BY <1>1, <1>4 DEF CS!WriteLine, a
<1> QED
  BY <1>6, <1>7

LEMMA AppendIsConcat ==
  ASSUME NEW T, NEW s \in Seq(T), NEW x \in T
  PROVE  Append(s, x) = s \o <<x>>
OBVIOUS

LEMMA AnsweredTalk ==
  ASSUME TalkInv, NEW c \in Clients, NEW r \in Reply, Answered(c, r), UNCHANGED <<conn, asked>>,
         Len(asked[c]) = Len(replies[c]) + 1, Honest(asked[c][Len(asked[c])], r),
         wire'[c] = <<>>, hand'[c] = "read", conn[c] # "none",
         ran' = ran, ran[c] = Commands(asked[c], Len(asked[c]))
  PROVE  Talk(c)' /\ (CS!Answer(c, r) \/ UNCHANGED CS!csVars)
<1> DEFINE m == Len(replies[c])
           n == Len(asked[c])
<1>1. m \in Nat /\ n \in Nat /\ n = m + 1 /\ replies[c] \in Seq(Reply)
  BY TalkFacts
<1>2. CASE conn[c] = "open"
  <2>1. replies' = [replies EXCEPT ![c] = Append(@, r)]
    BY <1>2 DEF Answered
  <2>2. Len(replies'[c]) = m + 1
    <3>1. Len(Append(replies[c], r)) = m + 1
      BY <1>1, AppendFacts
    <3> QED
      BY <2>1, <3>1 DEF TalkInv, TypeOK
  <2>3. Talk(c)'
    BY <1>1, <1>2, <2>2 DEF Talk
  <2>4. CS!Answer(c, r)
    <3>1. ran[c] = CS!CommandsOf(c, m + 1)
      BY <1>1, CommandsOfIs
    <3>2. ~[d \in Clients |-> conn[d] = "closed"][c]
      BY <1>2
    <3>3. m + 1 <= n /\ Honest(asked[c][m + 1], r)
      BY <1>1
    <3>4. UNCHANGED <<asked, ran, [d \in Clients |-> conn[d] = "closed"]>>
      OBVIOUS
    <3> QED
      BY <2>1, <3>1, <3>2, <3>3, <3>4 DEF CS!Answer
  <2> QED
    BY <2>3, <2>4
<1>3. CASE conn[c] # "open"
  <2>1. replies' = replies
    BY <1>3 DEF Answered
  <2>2. conn[c] = "closed"
    BY <1>3 DEF TalkInv, TypeOK
  <2>3. Talk(c)'
    BY <1>1, <2>1, <2>2 DEF Talk
  <2>4. UNCHANGED CS!csVars
    BY <2>1 DEF CS!csVars
  <2> QED
    BY <2>3, <2>4
<1> QED
  BY <1>2, <1>3

LEMMA TalkRead ==
  ASSUME OneAtATime, TalkInv, NEW c \in Clients, NEW n \in 1..Len(wire[c]), Read(c, n)
  PROVE  Talk(c)' /\ ((\E r \in Reply : CS!Answer(c, r)) \/ CS!Obey(c) \/ UNCHANGED CS!csVars)
<1> DEFINE m == Len(replies[c])
           l == asked[c][Len(asked[c])]
           s == SubSeq(wire[c], 1, n)
           parts == Fields(s)
<1>1. /\ m \in Nat /\ asked[c] \in Seq(Lines) /\ ran[c] \in Seq(RequestType) /\ Talk(c)
      /\ wire[c] # <<>> /\ n = Len(wire[c])
  <2>1. wire[c] # <<>>
    BY TalkFacts
  <2> QED
    BY <2>1, TalkFacts DEF TalkInv, Read, Readable, OneAtATime
<1>2. /\ Len(asked[c]) = m + 1 /\ wire[c] = Tokens(l) /\ ran[c] = Commands(asked[c], m)
      /\ hand[c] = "read" /\ l \in Lines /\ conn[c] # "none"
  <2>1. Len(asked[c]) = m + 1
    BY <1>1 DEF Talk
  <2>2. Len(asked[c]) # 0
    BY <1>1, <2>1
  <2> QED
    BY <1>1, <2>1, <2>2, TalkFacts DEF Talk
<1>3. /\ s \in Seq(Token) /\ HeadOf(s, wire[c], n) /\ Parts(c, n) = parts
      /\ TailOf(wire'[c], wire[c], n) /\ wire'[c] \in Seq(Token)
      /\ asked' = asked /\ conn' = conn
  <2>1. conn' = conn
    BY DEF Read
  <2> QED
    BY <2>1, ReadFacts DEF TalkInv
<1>4. wire'[c] = <<>>
  <2>1. Len(wire'[c]) = 0
    <3>1. Len(wire[c]) \in Nat /\ Len(wire'[c]) = Len(wire[c]) - Len(wire[c])
      BY <1>1, <1>3 DEF TailOf
    <3> QED
      BY <3>1
  <2> QED
    BY <1>3, <2>1
<1>5. /\ Len(parts) = Len(l) + 1 /\ \A k \in 1..Len(l) : parts[k] = l[k]
      /\ parts[Len(l) + 1] = "NUL" /\ Len(l) \in Nat
  <2>1. n = 2 * Len(l)
    BY <1>1, <1>2, TokensFacts
  <2>2. HeadOf(s, Tokens(l), 2 * Len(l))
    BY <1>2, <1>3, <2>1
  <2> HIDE DEF s, l
  <2> QED
    BY <1>2, <1>3, <2>2, LineAlone
<1> HIDE DEF s, parts
<1>6. /\ Commands(asked[c], m + 1) = Commands(asked[c], m) \o Meaning(l)
      /\ Commands(asked[c], m) \in Seq(RequestType)
  BY <1>1, <1>2, CommandsStep
<1>7. ASSUME NEW r \in Reply, Answered(c, r), UNCHANGED <<hand, request, jostled, ran>>,
             ~Runs(l), Honest(l, r)
      PROVE  Talk(c)' /\ (CS!Answer(c, r) \/ UNCHANGED CS!csVars)
  <2>1. ran[c] = Commands(asked[c], Len(asked[c]))
    <3>1. Meaning(l) = <<>>
      BY <1>7 DEF Meaning
    <3> QED
      BY <1>2, <1>6, <3>1
  <2> QED
    BY <1>2, <1>3, <1>4, <1>7, <2>1, AnsweredTalk
<1>8. CASE Len(parts) > 4
  <2>1. Answered(c, "format") /\ UNCHANGED <<hand, request, jostled, ran>>
    BY <1>3, <1>5, <1>8 DEF Read, Turn
  <2>2. ~Runs(l) /\ Honest(l, "format")
    BY <1>5, <1>8 DEF Runs, Honest
  <2>3. "format" \in Reply
    BY DEF Reply
  <2> QED
    BY <1>7, <2>1, <2>2, <2>3
<1>9. CASE Len(parts) <= 4 /\ Docmd(parts) \in {"unknown", "refused"}
  <2>1. Answered(c, "error") /\ UNCHANGED <<hand, request, jostled, ran>>
    BY <1>3, <1>5, <1>9 DEF Read, Turn
  <2>2. ~Runs(l) /\ Honest(l, "error")
    <3>1. Len(l) < 4 /\ ~Runs(l)
      BY <1>2, <1>5, <1>9, PaddedLine
    <3> QED
      BY <1>5, <3>1 DEF Honest
  <2>3. "error" \in Reply
    BY DEF Reply
  <2> QED
    BY <1>7, <2>1, <2>2, <2>3
<1>10. CASE Len(parts) <= 4 /\ Docmd(parts) = "run"
  <2> DEFINE e == Invocation(l)
  <2>1. Runs(l) /\ Invocation(parts) = e
    BY <1>2, <1>5, <1>10, PaddedLine
  <2>2. Exec(c, e) /\ UNCHANGED replies
    BY <1>3, <1>5, <1>10, <2>1 DEF Read, Turn
  <2>3. e \in RequestType
    BY <2>1, InvocationType DEF Runs
  <2>4. /\ hand'[c] = "cntl" /\ request'[c] = e /\ ran' = [ran EXCEPT ![c] = Append(@, e)]
    BY <2>2 DEF Exec, TalkInv, TypeOK
  <2> HIDE DEF e
  <2>5. Append(ran[c], e) = Commands(asked[c], m + 1)
    <3>1. Meaning(l) = <<e>>
      BY <2>1 DEF Meaning, e
    <3>2. Append(ran[c], e) = ran[c] \o <<e>>
      BY <1>1, <2>3, AppendIsConcat
    <3> QED
      BY <1>2, <1>6, <3>1, <3>2
  <2>6. ran' = [ran EXCEPT ![c] = Commands(asked[c], m + 1)] /\ ran'[c] = Commands(asked[c], m + 1)
    BY <2>4, <2>5 DEF TalkInv, TypeOK
  <2>7. Talk(c)'
    BY <1>1, <1>2, <1>3, <1>4, <2>1, <2>2, <2>4, <2>6 DEF Talk, e
  <2>8. CS!Obey(c)
    <3>1. (m + 1) - 1 = m /\ m + 1 <= Len(asked[c])
      BY <1>1, <1>2
    <3> QED
      BY <1>2, <1>3, <2>2, <2>6, <3>1, CommandsOfIs DEF CS!Obey
  <2> QED
    BY <2>7, <2>8
<1>11. Len(parts) > 4 \/ (Len(parts) <= 4 /\ Docmd(parts) \in {"unknown", "refused", "run"})
  BY <1>3 DEF Read, Turn
<1> QED
  BY <1>7, <1>8, <1>9, <1>10, <1>11 DEF Reply

LEMMA TalkCntlEnds ==
  ASSUME TalkInv, NEW c \in Clients, CntlEnds(c)
  PROVE  Talk(c)' /\ ((\E r \in Reply : CS!Answer(c, r)) \/ UNCHANGED CS!csVars)
<1> DEFINE l == asked[c][Len(asked[c])]
           r == IF Succeeds(request[c]) THEN "ok" ELSE "error"
<1>1. /\ Len(asked[c]) = Len(replies[c]) + 1 /\ wire[c] = <<>> /\ Runs(l)
      /\ request[c] = Invocation(l) /\ ran[c] = Commands(asked[c], Len(asked[c]))
      /\ conn[c] # "none"
  <2>1. hand[c] = "cntl" /\ Talk(c)
    BY DEF CntlEnds, TalkInv
  <2> QED
    BY <2>1 DEF Talk
<1>2. /\ Answered(c, r) /\ UNCHANGED <<conn, asked, wire, ran>> /\ hand'[c] = "read"
  BY DEF CntlEnds, TalkInv, TypeOK
<1>3. r \in Reply /\ Honest(l, r)
  BY <1>1 DEF Reply, Honest, Runs
<1> HIDE DEF r
<1>4. wire'[c] = <<>>
  BY <1>1, <1>2
<1>5. Talk(c)' /\ (CS!Answer(c, r) \/ UNCHANGED CS!csVars)
  BY <1>1, <1>2, <1>3, <1>4, AnsweredTalk
<1> QED
  BY <1>3, <1>5

\* What happens to one client leaves the conversations of the others alone.
LEMMA TalkKept ==
  ASSUME NEW d \in Clients, Talk(d),
         conn'[d] = conn[d], asked'[d] = asked[d], wire'[d] = wire[d], hand'[d] = hand[d],
         request'[d] = request[d], ran'[d] = ran[d], replies'[d] = replies[d]
  PROVE  Talk(d)'
BY DEF Talk

LEMMA TalkStep ==
  ASSUME OneAtATime, TalkInv, [Next]_vars
  PROVE  TalkInv' /\ [CS!CSNext]_(CS!csVars)
<1>0. TypeOK /\ TypeOK'
  BY TypeStep DEF TalkInv
<1>a. \A d \in Clients : Talk(d)
  BY DEF TalkInv
<1>1. ASSUME NEW c \in Clients, NEW l \in Lines, WriteLine(c, l)
      PROVE  TalkInv' /\ [CS!CSNext]_(CS!csVars)
  <2>1. Talk(c)' /\ CS!WriteLine(c, l)
    BY <1>1, TalkWrite
  <2>2. ASSUME NEW d \in Clients, d # c PROVE Talk(d)'
    BY <1>0, <1>1, <1>a, <2>2, TalkKept DEF WriteLine, TypeOK
  <2> QED
    BY <1>0, <2>1, <2>2 DEF TalkInv, CS!CSNext
<1>2. ASSUME NEW c \in Clients, Leave(c) PROVE TalkInv' /\ [CS!CSNext]_(CS!csVars)
  <2>1. conn[c] = "open" /\ conn' = [conn EXCEPT ![c] = "closed"]
        /\ UNCHANGED <<asked, wire, hand, request, ran, replies>>
    BY <1>2 DEF Leave
  <2>2. CS!HangUp({c})
    <3>1. [d \in Clients |-> conn'[d] = "closed"]
            = [d \in Clients |-> (conn[d] = "closed") \/ d \in {c}]
      BY <1>0, <2>1 DEF TypeOK
    <3> QED
      BY <2>1, <3>1 DEF CS!HangUp
  <2>3. Talk(c)'
    <3>1. conn'[c] = "closed"
      BY <1>0, <2>1 DEF TypeOK
    <3> QED
      BY <1>a, <2>1, <3>1 DEF Talk
  <2>4. ASSUME NEW d \in Clients, d # c PROVE Talk(d)'
    BY <1>0, <2>1, <1>a, <2>4, TalkKept DEF TypeOK
  <2> QED
    BY <1>0, <2>2, <2>3, <2>4 DEF TalkInv, CS!CSNext
<1>3. ASSUME NEW c \in Clients, Accept(c) PROVE TalkInv' /\ [CS!CSNext]_(CS!csVars)
  <2>1. /\ conn[c] = "none" /\ conn' = [conn EXCEPT ![c] = "open"]
        /\ hand' = [hand EXCEPT ![c] = "read"]
        /\ UNCHANGED <<asked, wire, request, ran, replies>>
    BY <1>3 DEF Accept
  <2>2. UNCHANGED CS!csVars
    <3>1. [d \in Clients |-> conn'[d] = "closed"] = [d \in Clients |-> conn[d] = "closed"]
      BY <1>0, <2>1 DEF TypeOK
    <3> QED
      BY <2>1, <3>1 DEF CS!csVars
  <2>3. Talk(c)'
    <3>1. conn'[c] = "open" /\ hand'[c] = "read"
      BY <1>0, <2>1 DEF TypeOK
    <3>2. /\ Talk(c) /\ hand[c] = "none" /\ Len(asked[c]) = 0
          /\ wire[c] = <<>>
      BY <1>a, <2>1 DEF Talk
    <3> QED
      BY <2>1, <3>1, <3>2 DEF Talk
  <2>4. ASSUME NEW d \in Clients, d # c PROVE Talk(d)'
    BY <1>0, <2>1, <1>a, <2>4, TalkKept DEF TypeOK
  <2> QED
    BY <1>0, <2>2, <2>3, <2>4 DEF TalkInv
<1>4. ASSUME NEW c \in Clients, ReadEnd(c) PROVE TalkInv' /\ [CS!CSNext]_(CS!csVars)
  <2>1. /\ hand[c] = "read" /\ conn[c] = "closed" /\ wire[c] = <<>>
        /\ hand' = [hand EXCEPT ![c] = "none"]
        /\ UNCHANGED <<conn, asked, wire, request, ran, replies>>
    BY <1>4 DEF ReadEnd
  <2>2. UNCHANGED CS!csVars
    BY <2>1 DEF CS!csVars
  <2>3. Talk(c)'
    <3>1. hand'[c] = "none"
      BY <1>0, <2>1 DEF TypeOK
    <3> QED
      BY <1>a, <2>1, <3>1 DEF Talk
  <2>4. ASSUME NEW d \in Clients, d # c PROVE Talk(d)'
    BY <1>0, <2>1, <1>a, <2>4, TalkKept DEF TypeOK
  <2> QED
    BY <1>0, <2>2, <2>3, <2>4 DEF TalkInv
<1>5. ASSUME NEW c \in Clients, CntlEnds(c) PROVE TalkInv' /\ [CS!CSNext]_(CS!csVars)
  <2>1. Talk(c)' /\ ((\E r \in Reply : CS!Answer(c, r)) \/ UNCHANGED CS!csVars)
    BY <1>5, TalkCntlEnds
  <2>2. ASSUME NEW d \in Clients, d # c PROVE Talk(d)'
    <3>1. \A r : Answered(c, r) => replies'[d] = replies[d]
      BY <1>0, <2>2 DEF Answered, TypeOK
    <3> QED
      BY <1>0, <1>5, <1>a, <2>2, <3>1, TalkKept DEF CntlEnds, TypeOK
  <2> QED
    BY <1>0, <2>1, <2>2 DEF TalkInv, CS!CSNext
<1>6. ASSUME NEW c \in Clients, NEW n \in 1..Len(wire[c]), Read(c, n)
      PROVE  TalkInv' /\ [CS!CSNext]_(CS!csVars)
  <2>1. /\ Talk(c)'
        /\ (\E r \in Reply : CS!Answer(c, r)) \/ CS!Obey(c) \/ UNCHANGED CS!csVars
    BY <1>6, TalkRead
  <2>2. ASSUME NEW d \in Clients, d # c PROVE Talk(d)'
    <3>1. \A r : Answered(c, r) => replies'[d] = replies[d]
      BY <1>0, <2>2 DEF Answered, TypeOK
    <3>2. \A r : Exec(c, r) => /\ hand'[d] = hand[d] /\ request'[d] = request[d]
                               /\ ran'[d] = ran[d]
      BY <1>0, <2>2 DEF Exec, TypeOK
    <3>3. conn' = conn /\ asked' = asked /\ wire'[d] = wire[d]
      BY <1>0, <1>6, <2>2 DEF Read, TypeOK
    <3>4. /\ hand'[d] = hand[d] /\ request'[d] = request[d]
          /\ ran'[d] = ran[d] /\ replies'[d] = replies[d]
      BY <1>6, <3>1, <3>2 DEF Read, Turn
    <3> QED
      BY <1>a, <3>3, <3>4, TalkKept
  <2> QED
    BY <1>0, <2>1, <2>2 DEF TalkInv, CS!CSNext
<1>7. ASSUME GoDown PROVE TalkInv' /\ [CS!CSNext]_(CS!csVars)
  <2>1. /\ conn' = [c \in Clients |-> IF conn[c] = "none" THEN "none" ELSE "closed"]
        /\ hand' = [c \in Clients |-> "none"] /\ wire' = [c \in Clients |-> <<>>]
        /\ UNCHANGED <<asked, request, ran, replies>>
    BY <1>7 DEF GoDown
  <2>2. CS!HangUp({c \in Clients : conn[c] = "open"})
    <3>1. [d \in Clients |-> conn'[d] = "closed"]
            = [d \in Clients |-> (conn[d] = "closed") \/ d \in {c \in Clients : conn[c] = "open"}]
      BY <1>0, <2>1 DEF TypeOK
    <3> QED
      BY <2>1, <3>1 DEF CS!HangUp
  <2>3. ASSUME NEW d \in Clients PROVE Talk(d)'
    <3>1. /\ hand'[d] = "none" /\ wire'[d] = <<>>
          /\ conn'[d] = IF conn[d] = "none" THEN "none" ELSE "closed"
      BY <2>1
    <3>2. conn[d] = "none" => wire[d] = <<>>
      BY <1>a DEF Talk
    <3> QED
      BY <1>a, <2>1, <3>1, <3>2 DEF Talk
  <2>4. \E U \in SUBSET Clients : CS!HangUp(U)
    <3> DEFINE U == {c \in Clients : conn[c] = "open"}
    <3>1. U \in SUBSET Clients
      OBVIOUS
    <3>2. CS!HangUp(U)
      BY <2>2
    <3> HIDE DEF U
    <3> QED
      BY <3>1, <3>2 DEF CS!HangUp
  <2>5. CS!CSNext
    BY <2>4 DEF CS!CSNext
  <2>6. TalkInv'
    BY <1>0, <2>3 DEF TalkInv
  <2> QED
    BY <2>5, <2>6
<1>8. ASSUME UNCHANGED <<conn, asked, wire, hand, request, ran, replies>>
      PROVE  TalkInv' /\ [CS!CSNext]_(CS!csVars)
  <2>1. UNCHANGED CS!csVars
    BY <1>8 DEF CS!csVars
  <2> QED
    BY <1>0, <1>8, <1>a, <2>1, TalkKept DEF TalkInv
<1> QED
  BY <1>1, <1>2, <1>3, <1>4, <1>5, <1>6, <1>7, <1>8 DEF Next, Panic, Terminate, Restart, vars

\* ImplementsCommandServer, of the daemon as a client sees it that waits for its
\* answers: with any number of clients and any lines but a QUERY of no zone, each
\* line is run as it was written, once and in order, and is answered by what became
\* of it, whatever the other clients write, whoever leaves and whenever the daemon
\* goes down.
THEOREM ConversationsAreServed ==
  ASSUME OneAtATime
  PROVE  Spec => ImplementsCommandServer
<1>1. Init => TalkInv /\ CS!CSInit
  <2>1. Init => CS!CSInit
    BY DEF Init, CS!CSInit
  <2> QED
    BY <2>1, TalkInit
<1>2. TalkInv /\ [Next]_vars => TalkInv' /\ [CS!CSNext]_(CS!csVars)
  BY TalkStep
<1> QED
  BY <1>1, <1>2, PTL DEF Spec, ImplementsCommandServer, CS!CSSpec
=============================================================================
