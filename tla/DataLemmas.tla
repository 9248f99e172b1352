------------------------------ MODULE DataLemmas ------------------------------
(***************************************************************************)
(* What the proofs need to know of data.                                   *)
(*                                                                         *)
(* Queues: what taking the head and appending do to the elements and to    *)
(* their order; the commands that await their reply on a connection are    *)
(* such a queue.                                                           *)
(*                                                                         *)
(* Finite sets: induction, for a set of sets in the place of a predicate   *)
(* (which no prover at hand instantiates), from the theorem that in a      *)
(* family of finite sets one has no smaller one.                           *)
(*                                                                         *)
(* Sums over a finite set: what the recursive function that computes one   *)
(* comes to, whichever element it takes first.                             *)
(***************************************************************************)
EXTENDS Sequences, Integers, FiniteSets, Functions, SequenceTheorems,
        FiniteSetTheorems, WellFoundedInduction, TLAPS

-----------------------------------------------------------------------------
(* Queues.                                                                 *)

Elements(s) == {s[i] : i \in 1..Len(s)}

\* Nothing is in the queue twice.
Once(s) == \A i, j \in 1..Len(s) : s[i] = s[j] => i = j

\* The head of a queue is one of its elements; the tail has the others.
LEMMA TakeHead ==
    ASSUME NEW S, NEW s \in Seq(S), s # <<>>
    PROVE  /\ Head(s) \in Elements(s) /\ Head(s) \in S
           /\ Tail(s) \in Seq(S)
           /\ Elements(Tail(s)) \subseteq Elements(s)
           /\ Elements(s) \subseteq Elements(Tail(s)) \cup {Head(s)}
           /\ Once(s) => Once(Tail(s)) /\ Head(s) \notin Elements(Tail(s))
<1>1. Len(s) \in Nat /\ Len(s) # 0 BY EmptySeq, HeadTailProperties
<1>2. Head(s) = s[1] /\ s[1] \in S BY <1>1, HeadTailProperties, ElementOfSeq
<1>3. /\ Tail(s) \in Seq(S) /\ Len(Tail(s)) = Len(s) - 1
      /\ \A i \in 1..Len(Tail(s)) : Tail(s)[i] = s[i+1]
  BY HeadTailProperties
<1>4. Elements(s) \subseteq Elements(Tail(s)) \cup {Head(s)}
  <2> SUFFICES ASSUME NEW i \in 1..Len(s), i # 1
               PROVE  s[i] \in Elements(Tail(s))
    BY <1>1, <1>2 DEF Elements
  <2>1. i - 1 \in 1..Len(Tail(s)) /\ (i - 1) + 1 = i BY <1>1, <1>3
  <2>2. Tail(s)[i - 1] = s[i] BY <1>3, <2>1
  <2> QED BY <2>1, <2>2 DEF Elements
<1>5. ASSUME Once(s) PROVE Once(Tail(s)) /\ Head(s) \notin Elements(Tail(s))
  BY <1>1, <1>2, <1>3, <1>5 DEF Elements, Once
<1>6. Head(s) \in Elements(s) /\ Elements(Tail(s)) \subseteq Elements(s)
  BY <1>1, <1>2, <1>3 DEF Elements
<1> QED BY <1>2, <1>3, <1>4, <1>5, <1>6

\* Appending adds one element.
LEMMA AppendTail ==
    ASSUME NEW S, NEW s \in Seq(S), NEW e \in S
    PROVE  /\ Append(s, e) \in Seq(S)
           /\ Elements(Append(s, e)) = Elements(s) \cup {e}
           /\ Once(s) /\ e \notin Elements(s) => Once(Append(s, e))
<1>1. /\ Append(s, e) \in Seq(S) /\ Len(Append(s, e)) = Len(s) + 1
      /\ \A i \in 1..Len(s) : Append(s, e)[i] = s[i]
      /\ Append(s, e)[Len(s) + 1] = e
      /\ Len(s) \in Nat
  BY AppendProperties
<1>2. Elements(Append(s, e)) = Elements(s) \cup {e} BY <1>1 DEF Elements
<1>3. ASSUME Once(s), e \notin Elements(s) PROVE Once(Append(s, e))
  <2> SUFFICES ASSUME NEW i \in 1..Len(Append(s, e)),
                      NEW j \in 1..Len(Append(s, e)),
                      Append(s, e)[i] = Append(s, e)[j]
               PROVE  i = j
    BY DEF Once
  <2>1. CASE i \in 1..Len(s) /\ j \in 1..Len(s) BY <1>1, <1>3, <2>1 DEF Once
  <2>2. CASE i = Len(s) + 1 /\ j \in 1..Len(s)
    BY <1>1, <1>3, <2>2 DEF Elements
  <2>3. CASE j = Len(s) + 1 /\ i \in 1..Len(s)
    BY <1>1, <1>3, <2>3 DEF Elements
  <2>4. CASE i = Len(s) + 1 /\ j = Len(s) + 1 BY <2>4
  <2> QED BY <1>1, <2>1, <2>2, <2>3, <2>4
<1> QED BY <1>1, <1>2, <1>3

\* The empty queue has none.
LEMMA NoElements == Elements(<<>>) = {} /\ Once(<<>>)
BY DEF Elements, Once

\* One element is ahead of another.
Before(s, t, u) == \E i, j \in 1..Len(s) : i < j /\ s[i] = t /\ s[j] = u

\* Taking the head leaves the others in their order, and appending puts the
\* new element behind all others.
LEMMA OrderOfTail ==
    ASSUME NEW S, NEW s \in Seq(S), s # <<>>, NEW t, NEW u
    PROVE  /\ Before(Tail(s), t, u) => Before(s, t, u)
           /\ Before(s, t, u) /\ t # Head(s) => Before(Tail(s), t, u)
<1>1. /\ Len(s) \in Nat /\ Len(s) # 0 /\ Head(s) = s[1]
      /\ Len(Tail(s)) = Len(s) - 1
      /\ \A i \in 1..Len(Tail(s)) : Tail(s)[i] = s[i + 1]
  BY EmptySeq, HeadTailProperties
<1>2. ASSUME NEW i \in 1..Len(Tail(s)), NEW j \in 1..Len(Tail(s)), i < j,
             Tail(s)[i] = t, Tail(s)[j] = u
      PROVE  Before(s, t, u)
  <2>1. i + 1 \in 1..Len(s) /\ j + 1 \in 1..Len(s) /\ i + 1 < j + 1
    BY <1>1, <1>2
  <2>2. s[i + 1] = t /\ s[j + 1] = u BY <1>1, <1>2
  <2> QED BY <2>1, <2>2 DEF Before
<1>3. ASSUME NEW i \in 1..Len(s), NEW j \in 1..Len(s), i < j, i # 1,
             s[i] = t, s[j] = u
      PROVE  Before(Tail(s), t, u)
  <2>1. /\ i - 1 \in 1..Len(Tail(s)) /\ j - 1 \in 1..Len(Tail(s))
        /\ i - 1 < j - 1 /\ (i - 1) + 1 = i /\ (j - 1) + 1 = j
    BY <1>1, <1>3
  <2>2. Tail(s)[i - 1] = t /\ Tail(s)[j - 1] = u BY <1>1, <1>3, <2>1
  <2> QED BY <2>1, <2>2 DEF Before
<1> QED BY <1>1, <1>2, <1>3 DEF Before

\* What is appended comes after all the rest.
LEMMA OrderOfAppend ==
    ASSUME NEW S, NEW s \in Seq(S), NEW e \in S, NEW t, NEW u
    PROVE  /\ Before(Append(s, e), t, u)
                => Before(s, t, u) \/ (t \in Elements(s) /\ u = e)
           /\ Before(s, t, u) => Before(Append(s, e), t, u)
           /\ t \in Elements(s) => Before(Append(s, e), t, e)
<1>1. /\ Len(Append(s, e)) = Len(s) + 1 /\ Len(s) \in Nat
      /\ \A i \in 1..Len(s) : Append(s, e)[i] = s[i]
      /\ Append(s, e)[Len(s) + 1] = e
  BY AppendProperties
<1>2. \A i \in 1..Len(Append(s, e)) : i \in 1..Len(s) \/ i = Len(s) + 1
  BY <1>1
<1>3. ASSUME NEW i \in 1..Len(Append(s, e)), NEW j \in 1..Len(Append(s, e)),
             i < j
      PROVE  i \in 1..Len(s)
  BY <1>1, <1>3
<1> QED BY <1>1, <1>2, <1>3 DEF Before, Elements

\* What is ahead of another is in the queue, and so is the other.
LEMMA OrderIsOfElements ==
    ASSUME NEW s, NEW t, NEW u, Before(s, t, u)
    PROVE  t \in Elements(s) /\ u \in Elements(s)
BY DEF Before, Elements

-----------------------------------------------------------------------------
(* Finite sets.                                                            *)

\* Induction on finite sets, for a set of sets instead of a predicate.
LEMMA SetInduction ==
    ASSUME NEW S, IsFiniteSet(S), NEW F, {} \in F,
           \A T \in SUBSET S : \A x \in S \ T : T \in F => T \cup {x} \in F
    PROVE  S \in F
<1> DEFINE B == {T \in SUBSET S : T \notin F}
<1> SUFFICES ASSUME S \notin F PROVE FALSE OBVIOUS
<1>1. B \subseteq SUBSET S /\ B # {} BY DEF B
<1>2. IsWellFoundedOn(StrictSubsetOrdering(S), SUBSET S)
  BY FS_StrictSubsetOrderingWellFounded, FS_FiniteSubsetsOfFinite
<1>3. PICK T \in B : \A U \in B : ~(<<U, T>> \in StrictSubsetOrdering(S))
  <2> HIDE DEF B
  <2> QED BY <1>1, <1>2, WFMin
<1>4. T \in SUBSET S /\ T \notin F /\ T # {} BY DEF B
<1>5. PICK x \in T : TRUE BY <1>4
<1>6. (T \ {x}) \in SUBSET S /\ x \in S \ (T \ {x}) /\ (T \ {x}) \cup {x} = T
  BY <1>4, <1>5
<1>7. (T \ {x}) \in F
  <2>1. <<T \ {x}, T>> \in StrictSubsetOrdering(S)
    BY <1>4, <1>5, <1>6 DEF StrictSubsetOrdering
  <2>2. (T \ {x}) \notin B BY <1>3, <2>1
  <2> QED BY <1>6, <2>2 DEF B
<1> QED BY <1>4, <1>6, <1>7

\* The same, when all smaller sets may be used.
LEMMA SmallerSetsFirst ==
    ASSUME NEW S, IsFiniteSet(S), NEW F,
           \A T \in SUBSET S : (\A U \in (SUBSET T) \ {T} : U \in F) => T \in F
    PROVE  S \in F
<1> DEFINE G == {T \in SUBSET S : \A U \in SUBSET T : U \in F}
<1>1. {} \in G
  <2>1. \A U \in SUBSET {} : U = {} OBVIOUS
  <2>2. {} \in F BY <2>1
  <2> QED BY <2>1, <2>2
<1>2. ASSUME NEW T \in SUBSET S, NEW x \in S \ T, T \in G
      PROVE  T \cup {x} \in G
  <2> DEFINE B == {U \in SUBSET (T \cup {x}) : U \notin F}
  <2> SUFFICES ASSUME B # {} PROVE FALSE OBVIOUS
  <2>1. IsFiniteSet(T \cup {x}) BY FS_Subset
  <2>2. IsWellFoundedOn(StrictSubsetOrdering(T \cup {x}), SUBSET (T \cup {x}))
    BY ZenonT(30), <2>1, FS_StrictSubsetOrderingWellFounded, FS_FiniteSubsetsOfFinite
  <2>3. B \subseteq SUBSET (T \cup {x}) BY DEF B
  <2>4. PICK U \in B :
          \A V \in B : ~(<<V, U>> \in StrictSubsetOrdering(T \cup {x}))
    <3> HIDE DEF B
    <3> QED BY <2>2, <2>3, WFMin
  <2>5. \A V \in (SUBSET U) \ {U} : V \in F
    <3> SUFFICES ASSUME NEW V \in (SUBSET U) \ {U} PROVE V \in F OBVIOUS
    <3>1. V \in SUBSET (T \cup {x}) BY <2>3
    <3>2. <<V, U>> \in StrictSubsetOrdering(T \cup {x})
      BY <2>3, <3>1 DEF StrictSubsetOrdering
    <3> QED BY <2>4, <3>1, <3>2 DEF B
  <2>6. U \in SUBSET S BY <2>3, <1>2
  <2> QED BY <2>4, <2>5, <2>6 DEF B
<1>3. S \in G
  <2> HIDE DEF G
  <2> QED BY <1>1, <1>2, SetInduction
<1> QED BY <1>3

-----------------------------------------------------------------------------
(* The function that computes a sum.                                       *)

\* What the sums of f over the subsets of S satisfy.
Adds(sum, f, S) ==
    sum = [T \in SUBSET S |->
             IF T = {} THEN 0
             ELSE LET x == CHOOSE x \in T : TRUE IN f[x] + sum[T \ {x}]]

\* It is the choice of a function that adds up as Adds says.
LEMMA SumIs ==
    ASSUME NEW f, NEW S
    PROVE  SumFunctionOnSet(f, S) = (CHOOSE sum : Adds(sum, f, S))[S]
BY DEF SumFunctionOnSet, FoldFunctionOnSet, MapThenFoldSet, Adds


\* There is at most one such function,
LEMMA AddsOnce ==
    ASSUME NEW f, NEW S, IsFiniteSet(S), NEW s, NEW t, Adds(s, f, S), Adds(t, f, S)
    PROVE  s = t
<1> DEFINE F == {T \in SUBSET S : s[T] = t[T]}
<1>1. ASSUME NEW T \in SUBSET S PROVE T \in F
  <2>1. ASSUME NEW V \in SUBSET T, \A U \in (SUBSET V) \ {V} : U \in F
        PROVE  V \in F
    <3>1. CASE V = {} BY <3>1 DEF Adds
    <3>2. CASE V # {}
      <4> DEFINE x == CHOOSE x \in V : TRUE
      <4>1. x \in V BY <3>2
      <4>2. s[V] = f[x] + s[V \ {x}] /\ t[V] = f[x] + t[V \ {x}]
        BY <3>2 DEF Adds
      <4>3. s[V \ {x}] = t[V \ {x}]
        <5>1. V \ {x} \in (SUBSET V) \ {V} BY <4>1
        <5> QED BY <5>1, <2>1
      <4> QED BY <4>2, <4>3
    <3> QED BY <3>1, <3>2
  <2>2. IsFiniteSet(T) BY FS_Subset
  <2> HIDE DEF F
  <2> QED BY <2>1, <2>2, SmallerSetsFirst
<1>2. \A T \in SUBSET S : s[T] = t[T] BY <1>1
<1>3. /\ s = [T \in SUBSET S |-> s[T]] /\ t = [T \in SUBSET S |-> t[T]]
  BY DEF Adds
<1> QED BY <1>2, <1>3

\* which a smaller set has too,
LEMMA AddsLess ==
    ASSUME NEW f, NEW S, NEW s, Adds(s, f, S), NEW U \in SUBSET S
    PROVE  Adds([T \in SUBSET U |-> s[T]], f, U)
<1> DEFINE r == [T \in SUBSET U |-> s[T]]
<1>1. ASSUME NEW T \in SUBSET U
      PROVE  r[T] = IF T = {} THEN 0
                    ELSE LET x == CHOOSE x \in T : TRUE IN f[x] + r[T \ {x}]
  <2>1. \A x : T \ {x} \in SUBSET U /\ r[T \ {x}] = s[T \ {x}] OBVIOUS
  <2>2. T \in SUBSET S /\ r[T] = s[T] OBVIOUS
  <2>3. s[T] = IF T = {} THEN 0
               ELSE LET x == CHOOSE x \in T : TRUE IN f[x] + s[T \ {x}]
    BY <2>2 DEF Adds
  <2> QED BY <2>1, <2>2, <2>3
<1>2. r = [T \in SUBSET U |-> r[T]] OBVIOUS
<1> HIDE DEF r
<1>3. r = [T \in SUBSET U |->
             IF T = {} THEN 0
             ELSE LET x == CHOOSE x \in T : TRUE IN f[x] + r[T \ {x}]]
  BY <1>1, <1>2
<1>4. Adds(r, f, U) BY <1>3 DEF Adds
<1> QED BY <1>4 DEF r

\* and so every finite set has one.
LEMMA AddsExists ==
    ASSUME NEW f, NEW S, IsFiniteSet(S)
    PROVE  \E s : Adds(s, f, S)
<1> DEFINE F == {T \in SUBSET S : \E s : Adds(s, f, T)}
<1> DEFINE v(U) == (CHOOSE s : Adds(s, f, U))[U]
<1>1. ASSUME NEW T \in SUBSET S, \A U \in (SUBSET T) \ {T} : U \in F
      PROVE  T \in F
  <2> DEFINE last == IF T = {} THEN 0
                     ELSE LET x == CHOOSE x \in T : TRUE IN f[x] + v(T \ {x})
  <2> DEFINE s == [U \in SUBSET T |-> IF U = T THEN last ELSE v(U)]
  <2>1. \A U \in (SUBSET T) \ {T} : s[U] = v(U) OBVIOUS
  <2>2. s[T] = last OBVIOUS
  <2>3. ASSUME NEW U \in SUBSET T
        PROVE  s[U] = IF U = {} THEN 0
                      ELSE LET x == CHOOSE x \in U : TRUE IN f[x] + s[U \ {x}]
    <3>1. \A x \in U : U \ {x} \in (SUBSET T) \ {T} OBVIOUS
    <3>2. \A x \in U : s[U \ {x}] = v(U \ {x}) BY <2>1, <3>1
    <3>3. U # {} => (CHOOSE x \in U : TRUE) \in U OBVIOUS
    <3>4. CASE U = T
      <4> HIDE DEF v, s
      <4> QED BY <2>2, <3>2, <3>3, <3>4
    <3>5. CASE U # T
      <4>1. \E r : Adds(r, f, U) BY <1>1, <3>5
      <4> DEFINE r == CHOOSE r : Adds(r, f, U)
      <4>2. Adds(r, f, U) BY <4>1
      <4>3. s[U] = r[U] BY <2>1, <3>5
      <4>4. r[U] = IF U = {} THEN 0
                   ELSE LET x == CHOOSE x \in U : TRUE IN f[x] + r[U \ {x}]
        <5> HIDE DEF r
        <5> QED BY <4>2 DEF Adds
      <4>5. ASSUME NEW x \in U PROVE r[U \ {x}] = s[U \ {x}]
        <5> DEFINE W == U \ {x}
        <5> DEFINE q == CHOOSE q : Adds(q, f, W)
        <5> DEFINE z == [V \in SUBSET W |-> r[V]]
        <5>1. IsFiniteSet(W) BY FS_Subset
        <5>2. Adds(z, f, W)
          <6>1. W \in SUBSET U OBVIOUS
          <6> HIDE DEF r, W
          <6> QED BY <4>2, <6>1, AddsLess
        <5>3. Adds(q, f, W)
          <6> HIDE DEF z, W
          <6> QED BY <5>2
        <5>4. z = q
          <6> HIDE DEF z, q, W
          <6> QED BY <5>1, <5>2, <5>3, AddsOnce
        <5>5. z[W] = r[W] OBVIOUS
        <5>6. s[W] = q[W] BY <3>2
        <5> HIDE DEF z, q, r, s
        <5> QED BY <5>4, <5>5, <5>6
      <4> HIDE DEF r, s
      <4> QED BY <3>3, <4>3, <4>4, <4>5
    <3> QED BY <3>4, <3>5
  <2>4. s = [U \in SUBSET T |-> s[U]] OBVIOUS
  <2> HIDE DEF s
  <2>5. s = [U \in SUBSET T |->
               IF U = {} THEN 0
               ELSE LET x == CHOOSE x \in U : TRUE IN f[x] + s[U \ {x}]]
    BY <2>3, <2>4
  <2>6. Adds(s, f, T) BY <2>5 DEF Adds
  <2> QED BY <2>6
<1>2. S \in F
  <2> HIDE DEF F
  <2> QED BY <1>1, SmallerSetsFirst
<1> QED BY <1>2

-----------------------------------------------------------------------------
(* Sums.                                                                   *)

\* A sum takes off one element, the one that is chosen.
LEMMA SumOfChosen ==
    ASSUME NEW f, NEW S, IsFiniteSet(S)
    PROVE  /\ SumFunctionOnSet(f, {}) = 0
           /\ S # {} => LET x == CHOOSE x \in S : TRUE IN
                SumFunctionOnSet(f, S) = f[x] + SumFunctionOnSet(f, S \ {x})
<1>1. ASSUME NEW T, IsFiniteSet(T)
      PROVE  \E s : Adds(s, f, T) /\ s[T] = SumFunctionOnSet(f, T)
  <2> DEFINE s == CHOOSE s : Adds(s, f, T)
  <2>1. Adds(s, f, T) BY <1>1, AddsExists
  <2>2. s[T] = SumFunctionOnSet(f, T) BY SumIs
  <2> HIDE DEF s
  <2> QED BY <2>1, <2>2
<1>2. SumFunctionOnSet(f, {}) = 0
  <2>1. PICK s : Adds(s, f, {}) /\ s[{}] = SumFunctionOnSet(f, {})
    BY <1>1, FS_EmptySet
  <2>2. s[{}] = 0 BY <2>1 DEF Adds
  <2> QED BY <2>1, <2>2
<1>3. ASSUME S # {}
      PROVE  LET x == CHOOSE x \in S : TRUE IN
               SumFunctionOnSet(f, S) = f[x] + SumFunctionOnSet(f, S \ {x})
  <2> DEFINE x == CHOOSE x \in S : TRUE
  <2> DEFINE W == S \ {x}
  <2>1. x \in S /\ IsFiniteSet(W) BY <1>3, FS_Subset
  <2>2. PICK s : Adds(s, f, S) /\ s[S] = SumFunctionOnSet(f, S) BY <1>1
  <2>3. PICK t : Adds(t, f, W) /\ t[W] = SumFunctionOnSet(f, W) BY <1>1, <2>1
  <2>4. s[S] = f[x] + s[W] BY <1>3, <2>2 DEF Adds
  <2> DEFINE r == [V \in SUBSET W |-> s[V]]
  <2>5. r = t
    <3>1. W \in SUBSET S OBVIOUS
    <3>2. Adds(r, f, W)
      <4> HIDE DEF W, x
      <4> QED BY <2>2, <3>1, AddsLess
    <3> HIDE DEF r, W, x
    <3> QED BY <2>1, <2>3, <3>2, AddsOnce
  <2>6. r[W] = s[W] OBVIOUS
  <2> HIDE DEF x, W, r
  <2>7. SumFunctionOnSet(f, S) = f[x] + SumFunctionOnSet(f, W)
    BY <2>2, <2>3, <2>4, <2>5, <2>6
  <2> QED BY <2>7 DEF x, W
<1> QED BY <1>2, <1>3

\* A sum of integers is an integer, and any element may be taken off.
LEMMA SumOfOne ==
    ASSUME NEW S, IsFiniteSet(S), NEW f, \A x \in S : f[x] \in Int
    PROVE  /\ SumFunctionOnSet(f, S) \in Int
           /\ \A y \in S : /\ SumFunctionOnSet(f, S \ {y}) \in Int
                           /\ SumFunctionOnSet(f, S)
                                = f[y] + SumFunctionOnSet(f, S \ {y})
<1> DEFINE sum(T) == SumFunctionOnSet(f, T)
<1> DEFINE F == {T \in SUBSET S :
                   /\ sum(T) \in Int
                   /\ \A y \in T : sum(T) = f[y] + sum(T \ {y})}
<1>0. sum({}) = 0 BY FS_EmptySet, SumOfChosen
<1>1. ASSUME NEW T \in SUBSET S
      PROVE  /\ IsFiniteSet(T)
             /\ T # {} => LET x == CHOOSE x \in T : TRUE
                          IN  sum(T) = f[x] + sum(T \ {x})
  <2>1. IsFiniteSet(T) BY FS_Subset
  <2> QED BY <2>1, SumOfChosen
<1> HIDE DEF sum
<1>2. ASSUME NEW T \in SUBSET S, \A U \in (SUBSET T) \ {T} : U \in F
      PROVE  T \in F
  <2>1. CASE T = {} BY <1>0, <2>1
  <2>2. CASE T # {}
    <3> DEFINE x == CHOOSE x \in T : TRUE
    <3>1. x \in T /\ sum(T) = f[x] + sum(T \ {x}) BY <1>1, <2>2
    <3> HIDE DEF x
    <3>2. f[x] \in Int /\ sum(T \ {x}) \in Int
      <4>1. (T \ {x}) \in (SUBSET T) \ {T} BY <3>1
      <4> QED BY <1>2, <3>1, <4>1
    <3>3. ASSUME NEW y \in T, y # x
          PROVE  sum(T) = f[y] + sum(T \ {y})
      <4>1. (T \ {x}) \in F /\ (T \ {y}) \in F /\ (T \ {x, y}) \in F
        <5>1. /\ (T \ {x}) \in (SUBSET T) \ {T} /\ (T \ {y}) \in (SUBSET T) \ {T}
              /\ (T \ {x, y}) \in (SUBSET T) \ {T}
          BY <3>1
        <5> QED BY <1>2, <5>1
      <4>2. /\ (T \ {x}) \ {y} = T \ {x, y} /\ (T \ {y}) \ {x} = T \ {x, y}
            /\ y \in T \ {x} /\ x \in T \ {y}
        BY <3>1, <3>3
      <4>3. sum(T \ {x}) = f[y] + sum(T \ {x, y}) BY <4>1, <4>2
      <4>4. sum(T \ {y}) = f[x] + sum(T \ {x, y}) BY <4>1, <4>2
      <4>5. f[y] \in Int /\ sum(T \ {x, y}) \in Int BY <4>1
      <4> QED BY <3>1, <3>2, <4>3, <4>4, <4>5
    <3>4. sum(T) \in Int BY <3>1, <3>2
    <3> QED BY <3>1, <3>3, <3>4
  <2> QED BY <2>1, <2>2
<1>3. ASSUME NEW T \in SUBSET S PROVE T \in F
  <2>1. IsFiniteSet(T) BY <1>1
  <2>2. \A U \in SUBSET T : (\A V \in (SUBSET U) \ {U} : V \in F) => U \in F
    BY <1>2
  <2> HIDE DEF F
  <2> QED BY <2>1, <2>2, SmallerSetsFirst
<1>4. S \in F /\ \A y \in S : (S \ {y}) \in F BY <1>3
<1> QED BY <1>4 DEF sum

\* The sum over no element.
LEMMA SumOfNone == ASSUME NEW f PROVE SumFunctionOnSet(f, {}) = 0
BY FS_EmptySet, SumOfChosen

\* One element more.
LEMMA SumOneMore ==
    ASSUME NEW S, IsFiniteSet(S), NEW f, NEW y, y \notin S,
           \A x \in S \cup {y} : f[x] \in Int
    PROVE  SumFunctionOnSet(f, S \cup {y}) = SumFunctionOnSet(f, S) + f[y]
<1>1. IsFiniteSet(S \cup {y}) BY FS_AddElement
<1>2. (S \cup {y}) \ {y} = S OBVIOUS
<1>3. /\ SumFunctionOnSet(f, S) \in Int /\ f[y] \in Int
      /\ SumFunctionOnSet(f, S \cup {y}) = f[y] + SumFunctionOnSet(f, S)
  <2> DEFINE W == S \cup {y}
  <2>1. y \in W /\ W \ {y} = S BY <1>2
  <2>2. IsFiniteSet(W) /\ \A x \in W : f[x] \in Int BY <1>1
  <2> HIDE DEF W
  <2>3. /\ SumFunctionOnSet(f, W \ {y}) \in Int
        /\ SumFunctionOnSet(f, W) = f[y] + SumFunctionOnSet(f, W \ {y})
    BY <2>1, <2>2, SumOfOne
  <2> QED BY <2>1, <2>2, <2>3 DEF W
<1> QED BY <1>3

\* A sum depends on the values of its elements only.
LEMMA SumOfSame ==
    ASSUME NEW S, IsFiniteSet(S), NEW f, NEW g,
           \A x \in S : f[x] \in Int /\ f[x] = g[x]
    PROVE  SumFunctionOnSet(f, S) = SumFunctionOnSet(g, S)
<1> DEFINE F == {T \in SUBSET S : SumFunctionOnSet(f, T) = SumFunctionOnSet(g, T)}
<1>1. {} \in F BY SumOfNone
<1>2. ASSUME NEW T \in SUBSET S, NEW x \in S \ T, T \in F
      PROVE  T \cup {x} \in F
  <2>1. IsFiniteSet(T) /\ x \notin T BY FS_Subset
  <2>2. SumFunctionOnSet(f, T \cup {x}) = SumFunctionOnSet(f, T) + f[x]
    <3>1. \A y \in T \cup {x} : f[y] \in Int OBVIOUS
    <3> HIDE DEF F
    <3> QED BY ZenonT(30), <2>1, <3>1, SumOneMore
  <2>3. SumFunctionOnSet(g, T \cup {x}) = SumFunctionOnSet(g, T) + g[x]
    <3>1. \A y \in T \cup {x} : g[y] \in Int OBVIOUS
    <3> HIDE DEF F
    <3> QED BY <2>1, <3>1, SumOneMore
  <2>4. f[x] = g[x] OBVIOUS
  <2> QED BY <1>2, <2>2, <2>3, <2>4
<1>3. S \in F
  <2> HIDE DEF F
  <2> QED BY <1>1, <1>2, SetInduction
<1> QED BY <1>3

\* Two sets without a common element.
LEMMA SumOfBoth ==
    ASSUME NEW S, IsFiniteSet(S), NEW T, IsFiniteSet(T), S \cap T = {}, NEW f,
           \A x \in S \cup T : f[x] \in Int
    PROVE  SumFunctionOnSet(f, S \cup T)
             = SumFunctionOnSet(f, S) + SumFunctionOnSet(f, T)
<1> DEFINE sum(U) == SumFunctionOnSet(f, U)
<1> DEFINE F == {U \in SUBSET T : sum(S \cup U) = sum(S) + sum(U)}
<1>0. sum(S) \in Int BY SumOfOne
<1>1. {} \in F
  <2>1. S \cup {} = S OBVIOUS
  <2> QED BY <1>0, <2>1, SumOfNone
<1>2. ASSUME NEW U \in SUBSET T, NEW x \in T \ U, U \in F
      PROVE  U \cup {x} \in F
  <2>1. IsFiniteSet(U) /\ IsFiniteSet(S \cup U) BY FS_Subset, FS_Union
  <2>2. S \cup (U \cup {x}) = (S \cup U) \cup {x} /\ x \notin S \cup U OBVIOUS
  <2>3. sum(U \cup {x}) = sum(U) + f[x] BY <2>1, SumOneMore
  <2> DEFINE W == S \cup U
  <2>4. sum(W \cup {x}) = sum(W) + f[x]
    <3>1. IsFiniteSet(W) /\ x \notin W /\ \A y \in W \cup {x} : f[y] \in Int
      BY <2>1
    <3> HIDE DEF W
    <3> QED BY <3>1, SumOneMore
  <2>5. sum(U) \in Int /\ f[x] \in Int BY <2>1, SumOfOne
  <2>6. sum(W) = sum(S) + sum(U) BY <1>2
  <2>7. sum(W \cup {x}) = sum(S) + sum(U \cup {x})
    <3> HIDE DEF sum, W
    <3> QED BY <1>0, <2>3, <2>4, <2>5, <2>6
  <2> QED BY <2>2, <2>7
<1>3. T \in F
  <2> HIDE DEF F
  <2> QED BY <1>1, <1>2, SetInduction
<1> QED BY <1>3

\* A sum of natural numbers is one, and is at least that over fewer elements.
LEMMA SumOfNaturals ==
    ASSUME NEW S, IsFiniteSet(S), NEW f, \A x \in S : f[x] \in Nat,
           NEW T \in SUBSET S
    PROVE  /\ SumFunctionOnSet(f, S) \in Nat /\ SumFunctionOnSet(f, T) \in Nat
           /\ SumFunctionOnSet(f, T) <= SumFunctionOnSet(f, S)
<1> DEFINE F == {U \in SUBSET S : SumFunctionOnSet(f, U) \in Nat}
<1>1. ASSUME NEW U \in SUBSET S PROVE SumFunctionOnSet(f, U) \in Nat
  <2>1. {} \in F BY SumOfNone
  <2>2. ASSUME NEW V \in SUBSET U, NEW x \in U \ V, V \in F
        PROVE  V \cup {x} \in F
    <3>1. /\ IsFiniteSet(V) /\ x \notin V
          /\ \A y \in V \cup {x} : f[y] \in Nat /\ f[y] \in Int
      BY FS_Subset
    <3>2. SumFunctionOnSet(f, V \cup {x}) = SumFunctionOnSet(f, V) + f[x]
      BY <3>1, SumOneMore
    <3> QED BY <2>2, <3>2
  <2>3. U \in F
    <3>1. IsFiniteSet(U) BY FS_Subset
    <3> HIDE DEF F
    <3> QED BY <2>1, <2>2, <3>1, SetInduction
  <2> QED BY <2>3
<1>2. /\ T \cup (S \ T) = S /\ T \cap (S \ T) = {}
      /\ IsFiniteSet(T) /\ IsFiniteSet(S \ T)
  BY FS_Subset
<1>3. SumFunctionOnSet(f, S) = SumFunctionOnSet(f, T) + SumFunctionOnSet(f, S \ T)
  <2>1. \A x \in T \cup (S \ T) : f[x] \in Int OBVIOUS
  <2>2. SumFunctionOnSet(f, T \cup (S \ T))
          = SumFunctionOnSet(f, T) + SumFunctionOnSet(f, S \ T)
    BY <1>2, <2>1, SumOfBoth
  <2> QED BY <1>2, <2>2
<1>4. /\ SumFunctionOnSet(f, T) \in Nat /\ SumFunctionOnSet(f, S) \in Nat
      /\ SumFunctionOnSet(f, S \ T) \in Nat
  BY <1>1
<1> QED BY <1>3, <1>4

\* The sum of zeros.
LEMMA SumOfZeros ==
    ASSUME NEW S, IsFiniteSet(S), NEW f, \A x \in S : f[x] = 0
    PROVE  SumFunctionOnSet(f, S) = 0
<1> DEFINE F == {T \in SUBSET S : SumFunctionOnSet(f, T) = 0}
<1>1. {} \in F BY SumOfNone
<1>2. ASSUME NEW T \in SUBSET S, NEW x \in S \ T, T \in F
      PROVE  T \cup {x} \in F
  <2>1. /\ IsFiniteSet(T) /\ x \notin T
        /\ \A y \in T \cup {x} : f[y] \in Int
    BY FS_Subset
  <2>2. SumFunctionOnSet(f, T \cup {x}) = SumFunctionOnSet(f, T) + f[x]
    <3> HIDE DEF F
    <3> QED BY <2>1, SumOneMore
  <2> QED BY <1>2, <2>2
<1>3. S \in F
  <2> HIDE DEF F
  <2> QED BY <1>1, <1>2, SetInduction
<1> QED BY <1>3

=============================================================================
