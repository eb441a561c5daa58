------------------------------ MODULE FoldLemmas ------------------------------
(* Induction over numbers and recursive functions on sequences, in a form    *)
(* that needs no operator as a parameter: what holds is a set of numbers, and *)
(* a step of a fold is a function.                                           *)
EXTENDS Naturals, Sequences, TLAPS, SequenceTheorems, WellFoundedInduction, NaturalsInduction

(* Numbers are reached from 0 by adding 1.                                   *)
LEMMA SetInduction ==
    ASSUME NEW T, 0 \in T, \A n \in Nat : n \in T => n + 1 \in T
    PROVE  Nat \subseteq T
<1> DEFINE R == {pair \in Nat \X Nat : pair[1] < pair[2]}
           rest == Nat \ T
<1>1. IsWellFoundedOn(R, Nat)
  BY NatLessThanWellFounded, Zenon DEF OpToRel
<1>2. SUFFICES ASSUME rest # {} PROVE FALSE
  OBVIOUS
<1>3. PICK x \in rest : \A y \in rest : ~(<<y, x>> \in R)
  BY <1>1, <1>2, WFMin, Zenon
<1>4. x # 0 /\ x - 1 \in Nat /\ x - 1 < x /\ x = (x - 1) + 1
  BY <1>3
<1>5. x - 1 \notin T
  BY <1>4, <1>3
<1> QED BY <1>5, <1>4, <1>3

(* The same up to a bound.                                                   *)
LEMMA BoundedInduction ==
    ASSUME NEW T, NEW n \in Nat, 0 \in T, \A i \in 1 .. n : i - 1 \in T => i \in T
    PROVE  0 .. n \subseteq T
<1> DEFINE S == {i \in Nat : i <= n => i \in T}
<1>1. 0 \in S
  OBVIOUS
<1>2. ASSUME NEW i \in Nat, i \in S PROVE i + 1 \in S
  <2>1. CASE i + 1 <= n
    <3>1. i \in T /\ i + 1 \in 1 .. n /\ (i + 1) - 1 = i
      BY <2>1, <1>2
    <3> QED BY <3>1
  <2>2. CASE ~(i + 1 <= n)
    BY <2>2
  <2> QED BY <2>1, <2>2
<1> HIDE DEF S
<1>3. Nat \subseteq S
  BY <1>1, <1>2, SetInduction
<1> QED BY <1>3 DEF S

(* A function on 1 .. n is a sequence.                                       *)
LEMMA FunctionIsSequence ==
    ASSUME NEW n \in Nat, NEW S, NEW s \in [1 .. n -> S]
    PROVE  s \in Seq(S) /\ Len(s) = n
OBVIOUS

(* Sequences are reached from the empty one by appending.                    *)
LEMMA SequenceInduction ==
    ASSUME NEW S, NEW T, <<>> \in T, \A s \in Seq(S), e \in S : s \in T => Append(s, e) \in T
    PROVE  Seq(S) \subseteq T
<1> DEFINE N == {n \in Nat : \A s \in Seq(S) : Len(s) = n => s \in T}
<1>1. 0 \in N
  <2>1. \A s \in Seq(S) : Len(s) = 0 => s = <<>>
    BY EmptySeq
  <2> QED BY <2>1
<1>2. ASSUME NEW n \in Nat, n \in N PROVE n + 1 \in N
  <2> SUFFICES ASSUME NEW s \in Seq(S), Len(s) = n + 1 PROVE s \in T
    OBVIOUS
  <2>1. s # <<>>
    BY EmptySeq
  <2>2. PICK front \in Seq(S), e \in S : s = Append(front, e)
    BY <2>1, SequenceEmptyOrAppend
  <2>3. Len(s) = Len(front) + 1 /\ Len(front) \in Nat
    BY <2>2, AppendProperties
  <2>4. front \in T
    BY <1>2, <2>3
  <2> QED BY <2>2, <2>4
<1> HIDE DEF N
<1>3. Nat \subseteq N
  BY <1>1, <1>2, SetInduction
<1>4. \A s \in Seq(S) : Len(s) \in Nat
  OBVIOUS
<1> QED BY <1>3, <1>4 DEF N

-----------------------------------------------------------------------------
(* What the functions steps make of base, one after the other.               *)
After(base, steps) ==
    LET upTo[i \in 0 .. Len(steps)] == IF i = 0 THEN base ELSE steps[i][upTo[i - 1]]
    IN upTo[Len(steps)]

(* The values in between are h: after i steps, h[i].                         *)
Passes(h, base, steps) ==
    h = [i \in 0 .. Len(steps) |-> IF i = 0 THEN base ELSE steps[i][h[i - 1]]]

(* However h is written down, as long as values are in S.                    *)
Yields(h, base, steps, S) ==
    h[0] = base /\ \A i \in 1 .. Len(steps) : h[i - 1] \in S => h[i] = steps[i][h[i - 1]]

(* There is such a function.                                                 *)
LEMMA PassesExists ==
    ASSUME NEW S, NEW base \in S, NEW steps \in Seq([S -> S])
    PROVE  \E h \in [0 .. Len(steps) -> S] : Passes(h, base, steps)
<1> DEFINE n == Len(steps)
           Upto(m) == \E h \in [0 .. m -> S] :
                          h = [i \in 0 .. m |-> IF i = 0 THEN base ELSE steps[i][h[i - 1]]]
           T == {m \in 0 .. n : Upto(m)}
<1>0. n \in Nat /\ \A i \in 1 .. n : steps[i] \in [S -> S]
  OBVIOUS
<1>1. 0 \in T
  <2> DEFINE h == [i \in 0 .. 0 |-> base]
  <2>1. h \in [0 .. 0 -> S] /\ h = [i \in 0 .. 0 |-> IF i = 0 THEN base ELSE steps[i][h[i - 1]]]
    OBVIOUS
  <2>2. Upto(0)
    BY <2>1, Zenon
  <2> HIDE DEF Upto
  <2> QED BY <2>2, <1>0
<1>2. ASSUME NEW m \in 1 .. n, m - 1 \in T PROVE m \in T
  <2>1. PICK g \in [0 .. m - 1 -> S] :
           g = [i \in 0 .. m - 1 |-> IF i = 0 THEN base ELSE steps[i][g[i - 1]]]
    BY <1>2
  <2> DEFINE h == [i \in 0 .. m |-> IF i = m THEN steps[m][g[m - 1]] ELSE g[i]]
  <2>2. steps[m] \in [S -> S] /\ m - 1 \in 0 .. m - 1 /\ g[m - 1] \in S
    BY <1>0, <1>2, <2>1
  <2>3. h \in [0 .. m -> S]
    <3>1. steps[m][g[m - 1]] \in S
      BY <2>2
    <3>2. \A i \in 0 .. m : i # m => i \in 0 .. m - 1
      BY <1>0
    <3> QED BY <3>1, <3>2, <2>1
  <2>4. \A i \in 0 .. m : h[i] = IF i = 0 THEN base ELSE steps[i][h[i - 1]]
    <3> SUFFICES ASSUME NEW i \in 0 .. m PROVE h[i] = IF i = 0 THEN base ELSE steps[i][h[i - 1]]
      OBVIOUS
    <3>1. CASE i = m
      BY <3>1, <1>0, <1>2
    <3>2. CASE i # m
      <4>1. i \in 0 .. m - 1 /\ (i # 0 => i - 1 \in 0 .. m /\ i - 1 # m)
        BY <3>2, <1>0
      <4>2. h[i] = g[i] /\ (i # 0 => h[i - 1] = g[i - 1])
        BY <4>1, <3>2
      <4>3. g[i] = IF i = 0 THEN base ELSE steps[i][g[i - 1]]
        BY <4>1, <2>1
      <4> QED BY <4>2, <4>3
    <3> QED BY <3>1, <3>2
  <2>5. h = [i \in 0 .. m |-> IF i = 0 THEN base ELSE steps[i][h[i - 1]]]
    BY <2>4, <2>3
  <2> HIDE DEF h
  <2>6. Upto(m)
    BY <2>3, <2>5, Zenon
  <2> HIDE DEF Upto
  <2> QED BY <2>6, <1>0
<1> HIDE DEF T
<1>3. 0 .. n \subseteq T
  BY <1>0, <1>1, <1>2, BoundedInduction
<1>4. n \in T
  BY <1>3, <1>0
<1> QED BY <1>4 DEF T, Passes

(* Its values are what the steps make, each of the one before.              *)
LEMMA PassesAre ==
    ASSUME NEW S, NEW base \in S, NEW steps \in Seq([S -> S]), NEW h \in [0 .. Len(steps) -> S],
           Passes(h, base, steps)
    PROVE  Yields(h, base, steps, S)
<1> DEFINE n == Len(steps)
<1>0. n \in Nat /\ n \in 0 .. n /\ 0 \in 0 .. n /\ \A i \in 1 .. n : i \in 0 .. n /\ i # 0
  OBVIOUS
<1>1. \A i \in 0 .. n : h[i] = IF i = 0 THEN base ELSE steps[i][h[i - 1]]
  <2>1. h = [i \in 0 .. n |-> IF i = 0 THEN base ELSE steps[i][h[i - 1]]]
    BY Zenon DEF Passes
  <2> QED BY <2>1, Zenon
<1> QED BY <1>0, <1>1, Zenon DEF Yields

(* And only one: each way of writing it down gives the same.                 *)
LEMMA YieldsOnce ==
    ASSUME NEW S, NEW base \in S, NEW steps \in Seq([S -> S]), NEW g, NEW h,
           Yields(g, base, steps, S), Yields(h, base, steps, S)
    PROVE  g[Len(steps)] = h[Len(steps)] /\ g[Len(steps)] \in S
<1> DEFINE T == {i \in 0 .. Len(steps) : g[i] = h[i] /\ g[i] \in S}
<1>0. Len(steps) \in Nat /\ \A i \in 1 .. Len(steps) : steps[i] \in [S -> S]
  OBVIOUS
<1>1. 0 \in T
  BY <1>0 DEF Yields
<1>2. ASSUME NEW i \in 1 .. Len(steps), i - 1 \in T PROVE i \in T
  BY <1>2, <1>0 DEF Yields
<1> HIDE DEF T
<1>3. 0 .. Len(steps) \subseteq T
  BY <1>0, <1>1, <1>2, BoundedInduction
<1>4. Len(steps) \in T
  BY <1>3, <1>0
<1> QED BY <1>4 DEF T

(* After is the last of them.                                                *)
LEMMA AfterIs ==
    ASSUME NEW S, NEW base \in S, NEW steps \in Seq([S -> S]), NEW h, Yields(h, base, steps, S)
    PROVE  After(base, steps) = h[Len(steps)] /\ h[Len(steps)] \in S
<1> DEFINE g == CHOOSE g : Passes(g, base, steps)
<1>1. PICK f \in [0 .. Len(steps) -> S] : Passes(f, base, steps)
  BY PassesExists, Zenon
<1>2. Passes(g, base, steps)
  BY <1>1, Zenon
<1>3. After(base, steps) = g[Len(steps)]
  BY Zenon DEF After, Passes
<1> HIDE DEF g
<1>4. Yields(g, base, steps, S)
  <2> DEFINE n == Len(steps)
  <2>0. n \in Nat /\ 0 \in 0 .. n /\ \A i \in 1 .. n : i \in 0 .. n /\ i # 0
    OBVIOUS
  <2>1. \A i \in 0 .. n : g[i] = IF i = 0 THEN base ELSE steps[i][g[i - 1]]
    <3>1. g = [i \in 0 .. n |-> IF i = 0 THEN base ELSE steps[i][g[i - 1]]]
      BY <1>2, Zenon DEF Passes
    <3> QED BY <3>1, Zenon
  <2> QED BY <2>0, <2>1, Zenon DEF Yields
<1>5. g[Len(steps)] = h[Len(steps)] /\ g[Len(steps)] \in S
  BY <1>4, YieldsOnce, Zenon
<1> QED BY <1>3, <1>5

(* Nothing is done to base by no step.                                       *)
LEMMA AfterNone == ASSUME NEW S, NEW base \in S PROVE After(base, <<>>) = base
<1> DEFINE h == [i \in 0 .. 0 |-> base]
           none == <<>>
<1>1. none \in Seq([S -> S]) /\ Len(none) = 0 /\ h[0] = base
  OBVIOUS
<1> HIDE DEF h, none
<1>2. Yields(h, base, none, S)
  BY <1>1 DEF Yields
<1>3. After(base, none) = h[Len(none)]
  BY <1>1, <1>2, AfterIs, Zenon
<1> QED BY <1>1, <1>3 DEF none

(* What comes of the steps is a value of the same kind.                      *)
LEMMA AfterTyped ==
    ASSUME NEW S, NEW base \in S, NEW steps \in Seq([S -> S])
    PROVE  After(base, steps) \in S
<1>1. PICK f \in [0 .. Len(steps) -> S] : Passes(f, base, steps)
  BY PassesExists, Zenon
<1>2. Yields(f, base, steps, S)
  BY <1>1, PassesAre, Zenon
<1>3. After(base, steps) = f[Len(steps)] /\ f[Len(steps)] \in S
  BY <1>2, AfterIs, Zenon
<1> QED BY <1>3

(* What the two sequences make, one after the other, is what they make.      *)
Joins(base, first, second) == After(base, first \o second) = After(After(base, first), second)

(* The steps of a sequence, then those of another.                           *)
LEMMA AfterBoth ==
    ASSUME NEW S, NEW base \in S, NEW first \in Seq([S -> S]), NEW second \in Seq([S -> S])
    PROVE  Joins(base, first, second)
<1> DEFINE m == Len(first)
           n == Len(second)
           both == first \o second
<1>0. /\ m \in Nat /\ n \in Nat /\ both \in Seq([S -> S]) /\ Len(both) = m + n
      /\ \A i \in 1 .. m : both[i] = first[i] /\ first[i] \in [S -> S]
      /\ \A i \in 1 .. n : both[m + i] = second[i] /\ second[i] \in [S -> S]
  OBVIOUS
<1>1. PICK f \in [0 .. m -> S] : Passes(f, base, first)
  BY PassesExists, Zenon
<1>2. Yields(f, base, first, S)
  BY <1>1, PassesAre, Zenon
<1>3. After(base, first) = f[m] /\ f[m] \in S
  BY <1>2, AfterIs, Zenon
<1>4. PICK g \in [0 .. n -> S] : Passes(g, f[m], second)
  BY <1>3, PassesExists, Zenon
<1>5. Yields(g, f[m], second, S)
  BY <1>3, <1>4, PassesAre, Zenon
<1>6. After(f[m], second) = g[n]
  BY <1>3, <1>5, AfterIs, Zenon
<1> DEFINE h == [i \in 0 .. m + n |-> IF i <= m THEN f[i] ELSE g[i - m]]
<1>7. h[0] = base /\ h[m + n] = g[n]
  <2>1. 0 \in 0 .. m + n /\ m + n \in 0 .. m + n /\ (m + n <= m => n = 0)
    BY <1>0
  <2>2. f[0] = base /\ g[0] = f[m]
    BY <1>2, <1>5 DEF Yields
  <2> QED BY <2>1, <2>2, <1>0
<1>8. ASSUME NEW i \in 1 .. m + n PROVE h[i] = both[i][h[i - 1]]
  <2>1. CASE i <= m
    <3>1. i \in 1 .. m /\ i \in 0 .. m + n /\ i - 1 \in 0 .. m + n /\ i - 1 <= m /\ i - 1 \in 0 .. m
      BY <2>1, <1>0
    <3>2. h[i] = f[i] /\ h[i - 1] = f[i - 1] /\ both[i] = first[i]
      BY <2>1, <3>1, <1>0
    <3>3. f[i] = first[i][f[i - 1]]
      BY <1>2, <3>1 DEF Yields
    <3> QED BY <3>2, <3>3
  <2>2. CASE ~(i <= m)
    <3>1. i - m \in 1 .. n /\ i = m + (i - m) /\ i \in 0 .. m + n /\ i - 1 \in 0 .. m + n
          /\ (i - m) - 1 = (i - 1) - m /\ (i - 1 <= m => (i - m) - 1 = 0 /\ i - 1 = m)
          /\ (i - m) - 1 \in 0 .. n
      BY <2>2, <1>0
    <3>2. h[i] = g[i - m] /\ both[i] = second[i - m]
      BY <2>2, <3>1, <1>0
    <3>3. h[i - 1] = g[(i - m) - 1]
      <4>1. g[0] = f[m]
        BY <1>5 DEF Yields
      <4> QED BY <3>1, <4>1
    <3>4. g[i - m] = second[i - m][g[(i - m) - 1]]
      BY <1>5, <3>1 DEF Yields
    <3> QED BY <3>2, <3>3, <3>4
  <2> QED BY <2>1, <2>2
<1> HIDE DEF h, both
<1>9. Yields(h, base, both, S)
  BY <1>0, <1>7, <1>8 DEF Yields
<1>10. After(base, both) = h[Len(both)]
  <2>1. both \in Seq([S -> S])
    BY <1>0
  <2> QED BY <2>1, <1>9, AfterIs, Zenon
<1> QED BY <1>0, <1>3, <1>6, <1>7, <1>10 DEF both, Joins

(* One step.                                                                 *)
LEMMA AfterOne ==
    ASSUME NEW S, NEW base \in S, NEW step \in [S -> S]
    PROVE  After(base, <<step>>) = step[base]
<1> DEFINE h == [i \in 0 .. 1 |-> IF i = 0 THEN base ELSE step[base]]
           one == <<step>>
<1>1. one \in Seq([S -> S]) /\ Len(one) = 1 /\ one[1] = step /\ h[0] = base /\ h[1] = step[base]
  OBVIOUS
<1> HIDE DEF h, one
<1>2. Yields(h, base, one, S)
  BY <1>1 DEF Yields
<1>3. After(base, one) = h[Len(one)]
  BY <1>1, <1>2, AfterIs, Zenon
<1> QED BY <1>1, <1>3 DEF one

(* One step more.                                                            *)
LEMMA AfterMore ==
    ASSUME NEW S, NEW base \in S, NEW steps \in Seq([S -> S]), NEW step \in [S -> S]
    PROVE  After(base, Append(steps, step)) = step[After(base, steps)]
<1> DEFINE one == <<step>>
           made == After(base, steps)
<1>1. one \in Seq([S -> S])
  OBVIOUS
<1>2. Append(steps, step) = steps \o one
  BY AppendIsConcat
<1>3. made \in S
  BY AfterTyped, Zenon
<1>4. After(made, one) = step[made]
  BY <1>3, AfterOne
<1> HIDE DEF one
<1>5. Joins(base, steps, one)
  BY <1>1, AfterBoth, Zenon
<1> QED BY <1>2, <1>4, <1>5 DEF Joins

-----------------------------------------------------------------------------
(* A recursion that jumps ahead: its value at a place is what step makes of  *)
(* the value at next, or here.                                               *)
Jumps(f, N, done, here, step, next) ==
    f = [c \in 1 .. N |-> IF c \in done THEN here[c] ELSE step[c][f[next[c]]]]

(* There is one when the jumps stay inside.                                  *)
LEMMA JumpsExist ==
    ASSUME NEW N \in Nat, NEW S, NEW done, NEW here \in [1 .. N -> S],
           NEW step \in [1 .. N -> [S -> S]], NEW next,
           \A c \in 1 .. N : c \notin done => next[c] \in c + 1 .. N
    PROVE  \E f \in [1 .. N -> S] : Jumps(f, N, done, here, step, next)
<1> DEFINE Back(m) == \E f \in [N - m + 1 .. N -> S] :
                         f = [c \in N - m + 1 .. N |-> IF c \in done THEN here[c] ELSE step[c][f[next[c]]]]
           T == {m \in 0 .. N : Back(m)}
<1>1. 0 \in T
  <2> DEFINE f == [c \in N - 0 + 1 .. N |-> here[c]]
  <2>0. \A c : ~(c \in N - 0 + 1 .. N)
    OBVIOUS
  <2>1. f \in [N - 0 + 1 .. N -> S]
    BY <2>0
  <2>2. f = [c \in N - 0 + 1 .. N |-> IF c \in done THEN here[c] ELSE step[c][f[next[c]]]]
    BY <2>0
  <2> HIDE DEF f
  <2>3. Back(0)
    BY <2>1, <2>2, Zenon
  <2> HIDE DEF Back
  <2> QED BY <2>3
<1>2. ASSUME NEW m \in 1 .. N, m - 1 \in T PROVE m \in T
  <2> DEFINE a == N - m + 1
             D == N - (m - 1) + 1 .. N
  <2>0. a \in 1 .. N /\ D = a + 1 .. N
    OBVIOUS
  <2>1. PICK g \in [D -> S] : g = [c \in D |-> IF c \in done THEN here[c] ELSE step[c][g[next[c]]]]
    BY <1>2
  <2> HIDE DEF a, D
  <2> DEFINE v == IF a \in done THEN here[a] ELSE step[a][g[next[a]]]
             h == [c \in a .. N |-> IF c = a THEN v ELSE g[c]]
  <2>2. \A c \in a .. N : c = a \/ c \in D
    BY <2>0
  <2>3. \A c \in a .. N : c \notin done => next[c] \in D /\ next[c] \in a .. N /\ next[c] # a
    <3> SUFFICES ASSUME NEW c \in a .. N, c \notin done
                 PROVE  next[c] \in D /\ next[c] \in a .. N /\ next[c] # a
      OBVIOUS
    <3>1. c \in 1 .. N
      BY <2>0
    <3>2. next[c] \in c + 1 .. N
      BY <3>1
    <3> QED BY <2>0, <3>1, <3>2
  <2>4. v \in S
    <3>1. a \in a .. N
      BY <2>0
    <3>2. CASE a \in done
      BY <3>2, <2>0
    <3>3. CASE a \notin done
      <4>1. g[next[a]] \in S
        BY <2>1, <2>3, <3>1, <3>3
      <4>2. step[a] \in [S -> S]
        BY <2>0
      <4> QED BY <3>3, <4>1, <4>2
    <3> QED BY <3>2, <3>3
  <2> HIDE DEF v
  <2>5. h \in [a .. N -> S]
    BY <2>1, <2>2, <2>4
  <2>6. \A c \in a .. N : h[c] = IF c \in done THEN here[c] ELSE step[c][h[next[c]]]
    <3> SUFFICES ASSUME NEW c \in a .. N
                 PROVE  h[c] = IF c \in done THEN here[c] ELSE step[c][h[next[c]]]
      OBVIOUS
    <3>1. c \notin done => h[next[c]] = g[next[c]]
      BY <2>3
    <3>2. CASE c = a
      BY <3>1, <3>2 DEF v
    <3>3. CASE c # a
      <4>1. c \in D
        BY <2>2, <3>3
      <4>2. g[c] = IF c \in done THEN here[c] ELSE step[c][g[next[c]]]
        BY <2>1, <4>1
      <4> QED BY <3>1, <3>3, <4>2
    <3> QED BY <3>2, <3>3
  <2>7. h = [c \in a .. N |-> IF c \in done THEN here[c] ELSE step[c][h[next[c]]]]
    <3> HIDE DEF h
    <3> DEFINE k == [c \in a .. N |-> IF c \in done THEN here[c] ELSE step[c][h[next[c]]]]
    <3>1. DOMAIN h = a .. N /\ h = [c \in a .. N |-> h[c]]
      BY <2>5
    <3> QED BY <3>1, <2>6
  <2> HIDE DEF h
  <2>8. Back(m)
    BY <2>5, <2>7, Zenon DEF a
  <2> HIDE DEF Back
  <2> QED BY <2>8
<1> HIDE DEF T
<1>3. 0 .. N \subseteq T
  BY <1>1, <1>2, BoundedInduction
<1>4. N \in T
  BY <1>3
<1>5. N - N + 1 = 1
  OBVIOUS
<1> QED BY <1>4, <1>5 DEF T, Jumps

(* The sequence that begins with each element of s, then goes on as g says.  *)
Unrolls(g, s) == g[Len(s)] = <<>> /\ \A j \in 1 .. Len(s) : g[j - 1] = <<s[j]>> \o g[j]

(* From its first place that is s.                                           *)
LEMMA Unrolled ==
    ASSUME NEW S, NEW s \in Seq(S), NEW g, Unrolls(g, s)
    PROVE  g[0] = s
<1> DEFINE n == Len(s)
           Is(q, j) == q \in Seq(S) /\ Len(q) = n - j /\ \A k \in 1 .. n - j : q[k] = s[j + k]
           T == {m \in 0 .. n : Is(g[n - m], n - m)}
<1>0. n \in Nat /\ n - 0 = n /\ \A k \in 1 .. n : s[k] \in S
  OBVIOUS
<1>1. 0 \in T
  <2> DEFINE none == <<>>
  <2>1. none \in Seq(S) /\ Len(none) = 0
    OBVIOUS
  <2>2. g[n] = none
    BY DEF Unrolls
  <2> HIDE DEF none, n
  <2>3. Is(g[n], n)
    BY <2>1, <2>2, <1>0
  <2> HIDE DEF Is
  <2> QED BY <2>3, <1>0
<1>2. ASSUME NEW m \in 1 .. n, m - 1 \in T PROVE m \in T
  <2> DEFINE j == n - m + 1
             q == g[j]
             one == <<s[j]>>
  <2>1. j \in 1 .. n /\ n - (m - 1) = j /\ n - m = j - 1 /\ j \in Nat
    BY <1>0
  <2> HIDE DEF j
  <2>2. Is(q, j)
    <3> HIDE DEF Is
    <3> QED BY <2>1, <1>2
  <2>3. g[j - 1] = one \o q
    BY <2>1 DEF Unrolls
  <2>4. one \in Seq(S) /\ Len(one) = 1 /\ one[1] = s[j]
    BY <2>1, <1>0
  <2> HIDE DEF one, q, n
  <2>5. q \in Seq(S) /\ Len(q) = n - j /\ \A k \in 1 .. n - j : q[k] = s[j + k]
    BY <2>2
  <2> DEFINE r == one \o q
  <2>6. /\ r \in Seq(S) /\ Len(r) = 1 + (n - j)
        /\ \A k \in 1 .. 1 + (n - j) : r[k] = IF k <= 1 THEN one[k] ELSE q[k - 1]
    <3>1. one \in Seq(S)
      BY <2>4
    <3>2. q \in Seq(S)
      BY <2>5
    <3>3. /\ r \in Seq(S) /\ Len(r) = Len(one) + Len(q)
          /\ \A k \in 1 .. Len(one) + Len(q) : r[k] = IF k <= Len(one) THEN one[k] ELSE q[k - Len(one)]
      BY <3>1, <3>2, ConcatProperties
    <3> QED BY <3>3, <2>4, <2>5
  <2> HIDE DEF r
  <2>7. Len(r) = n - (j - 1)
    BY <2>1, <2>6, <1>0
  <2>8. ASSUME NEW k \in 1 .. n - (j - 1) PROVE r[k] = s[(j - 1) + k]
    <3>1. k \in 1 .. 1 + (n - j)
      BY <2>1, <1>0
    <3>2. CASE k = 1
      <4>1. (j - 1) + 1 = j
        BY <2>1
      <4> QED BY <4>1, <3>1, <3>2, <2>4, <2>6
    <3>3. CASE k # 1
      <4>1. ~(k <= 1) /\ k - 1 \in 1 .. n - j /\ j + (k - 1) = (j - 1) + k
        BY <3>1, <3>3, <2>1, <1>0
      <4> QED BY <4>1, <3>1, <2>5, <2>6
    <3> QED BY <3>2, <3>3
  <2>9. Is(r, j - 1)
    BY <2>6, <2>7, <2>8
  <2> HIDE DEF Is
  <2>10. m \in 0 .. n
    BY <1>0
  <2> QED BY <2>1, <2>3, <2>9, <2>10 DEF r
<1> HIDE DEF T
<1>3. 0 .. n \subseteq T
  BY <1>0, <1>1, <1>2, BoundedInduction
<1>4. n \in T /\ n - n = 0
  BY <1>0, <1>3
<1>5. Is(g[0], 0)
  BY <1>4 DEF T
<1> DEFINE q == g[0]
<1>6. q \in Seq(S) /\ Len(q) = n /\ \A k \in 1 .. n : q[k] = s[k]
  <2>1. n - 0 = n /\ \A k \in 1 .. n : 0 + k = k
    BY <1>0
  <2> QED BY <1>5, <2>1
<1> HIDE DEF q
<1>7. q = s
  BY <1>6, SeqEqual
<1> QED BY <1>7 DEF q
===============================================================================
