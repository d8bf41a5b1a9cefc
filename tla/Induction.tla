----------------------------- MODULE Induction -----------------------------
(***************************************************************************)
(* Induction up to a number, functions that are defined by recursion,      *)
(* finite sets as sequences, and sequences put together from others.       *)
(***************************************************************************)
EXTENDS Integers, FiniteSets, SequencesExt, FiniteSetTheorems, SequenceTheorems,
        WellFoundedInduction, TLAPS

(* A set of natural numbers with an element has a smallest one.            *)
LEMMA Smallest ==
    ASSUME NEW S \in SUBSET Nat, S # {}
    PROVE  \E x \in S : \A y \in S : x <= y
  <1>1. PICK x \in S : \A y \in S : ~(<<y, x>> \in OpToRel(<, Nat))
    BY NatLessThanWellFounded, WFMin
  <1>2. \A y \in S : <<y, x>> \in Nat \X Nat /\ <<y, x>>[1] = y /\ <<y, x>>[2] = x
    OBVIOUS
  <1>3. \A y \in S : ~(y < x)
    BY <1>1, <1>2, Zenon DEF OpToRel
  <1> QED
    BY <1>3

(* Induction up to a number *)
LEMMA UpTo ==
    ASSUME NEW n \in Nat, NEW S, 0 \in S, \A i \in 1 .. n : i - 1 \in S => i \in S
    PROVE  0 .. n \subseteq S
  <1>1. PICK Bad : Bad = {i \in 0 .. n : i \notin S}
    OBVIOUS
  <1>2. ASSUME Bad # {} PROVE FALSE
    <2>1. Bad \in SUBSET Nat
      BY <1>1
    <2>2. PICK m \in Bad : \A y \in Bad : m <= y
      BY <1>2, <2>1, Smallest
    <2>3. m \in 1 .. n /\ m - 1 \in 0 .. n /\ m - 1 \notin Bad
      BY <1>1, <2>2
    <2> QED
      BY <1>1, <2>2, <2>3
  <1> QED
    BY <1>1, <1>2

(* f is computed from what it has for a smaller number: for the number     *)
(* that `before` names.                                                    *)
Computes(f, n, S, first, before, step) ==
    /\ f \in [0 .. n -> S] /\ f[0] = first
    /\ \A i \in 1 .. n : f[i] = step[<<f[before[i]], i>>]

LEMMA Recursion ==
    ASSUME NEW n \in Nat, NEW S, NEW first \in S, NEW step \in [S \X (1 .. n) -> S],
           NEW before \in [1 .. n -> Nat], \A i \in 1 .. n : before[i] < i
    PROVE  \E f : Computes(f, n, S, first, before, step)
  <1>1. PICK Good : Good = {m \in 0 .. n : \E f : Computes(f, m, S, first, before, step)}
    OBVIOUS
  <1>2. 0 \in Good
    <2>1. PICK f : f = [i \in 0 .. 0 |-> first]
      OBVIOUS
    <2>2. Computes(f, 0, S, first, before, step)
      BY <2>1 DEF Computes
    <2> QED
      BY <1>1, <2>2
  <1>3. ASSUME NEW m \in 1 .. n, m - 1 \in Good PROVE m \in Good
    <2>1. PICK f : Computes(f, m - 1, S, first, before, step)
      BY <1>1, <1>3
    <2>2. PICK k \in 0 .. m - 1 : k = before[m]
      OBVIOUS
    <2>3. PICK g : g = [i \in 0 .. m |-> IF i = m THEN step[<<f[k], m>>] ELSE f[i]]
      OBVIOUS
    <2>4. f[k] \in S /\ step[<<f[k], m>>] \in S
      BY <2>1 DEF Computes
    <2>5. g \in [0 .. m -> S] /\ g[0] = first
      BY <2>1, <2>3, <2>4 DEF Computes
    <2>6. ASSUME NEW i \in 1 .. m PROVE g[i] = step[<<g[before[i]], i>>]
      <3>1. before[i] \in 0 .. m /\ before[i] # m /\ g[before[i]] = f[before[i]]
        <4>1. before[i] \in Nat /\ before[i] < i
          OBVIOUS
        <4> QED
          BY <2>3, <4>1
      <3>2. CASE i = m
        BY <2>2, <2>3, <3>1, <3>2
      <3>3. CASE i # m
        <4>1. i \in 1 .. m - 1 /\ g[i] = f[i]
          BY <2>3, <3>3
        <4> QED
          BY <2>1, <3>1, <4>1 DEF Computes
      <3> QED
        BY <3>2, <3>3
    <2>7. Computes(g, m, S, first, before, step)
      BY <2>5, <2>6 DEF Computes
    <2> QED
      BY <1>1, <2>7
  <1>4. 0 .. n \subseteq Good
    BY <1>2, <1>3, UpTo
  <1> QED
    BY <1>1, <1>4

(* f has the results of a step that is repeated n times.                   *)
Iterates(f, n, S, first, step) ==
    /\ f \in [0 .. n -> S] /\ f[0] = first
    /\ \A i \in 1 .. n : f[i] = step[<<f[i - 1], i>>]

LEMMA Iteration ==
    ASSUME NEW n \in Nat, NEW S, NEW first \in S, NEW step \in [S \X (1 .. n) -> S]
    PROVE  \E f : Iterates(f, n, S, first, step)
  <1>1. PICK before : before = [i \in 1 .. n |-> i - 1]
    OBVIOUS
  <1>2. before \in [1 .. n -> Nat] /\ \A i \in 1 .. n : before[i] < i
    BY <1>1
  <1>3. PICK f : Computes(f, n, S, first, before, step)
    BY <1>2, Recursion
  <1>4. Iterates(f, n, S, first, step)
    BY <1>1, <1>3 DEF Computes, Iterates
  <1> QED
    BY <1>4

(* What the steps of a sequence keep, its last element has.                *)
LEMMA KeptUpTo ==
    ASSUME NEW n \in Nat, NEW g, NEW S, g[0] \in S,
           \A i \in 1 .. n : g[i - 1] \in S => g[i] \in S
    PROVE  \A i \in 0 .. n : g[i] \in S
  <1>1. PICK T : T = {i \in 0 .. n : g[i] \in S}
    OBVIOUS
  <1>2. 0 \in T /\ \A i \in 1 .. n : i - 1 \in T => i \in T
    BY <1>1
  <1>3. 0 .. n \subseteq T
    BY <1>2, UpTo
  <1> QED
    BY <1>1, <1>3

(* A finite set as a sequence: every element, and each once.               *)
LEMMA SetAsSequence ==
    ASSUME NEW S, IsFiniteSet(S)
    PROVE  /\ Cardinality(S) \in Nat
           /\ SetToSeq(S) \in [1..Cardinality(S) -> S]
           /\ \A i, j \in 1..Cardinality(S) : SetToSeq(S)[i] = SetToSeq(S)[j] => i = j
           /\ \A x \in S : \E i \in 1..Cardinality(S) : SetToSeq(S)[i] = x
  <1>1. Cardinality(S) \in Nat /\ ExistsBijection(1..Cardinality(S), S)
    BY FS_CardinalityType
  <1>2. PICK f \in [1..Cardinality(S) -> S] : IsInjective(f)
    BY <1>1 DEF ExistsBijection, Bijection, Injection
  <1>3. PICK g : g = SetToSeq(S)
    OBVIOUS
  <1>4. g \in [1..Cardinality(S) -> S] /\ IsInjective(g)
    BY <1>2, <1>3 DEF SetToSeq
  <1>5. g \in Injection(1..Cardinality(S), S)
    BY <1>4 DEF Injection
  <1>6. IsFiniteSet(1..Cardinality(S)) /\ Cardinality(1..Cardinality(S)) = Cardinality(S)
    BY <1>1, FS_Interval
  <1>7. g \in Surjection(1..Cardinality(S), S)
    BY <1>5, <1>6, FS_Injection
  <1>8. \A x \in S : \E i \in 1..Cardinality(S) : g[i] = x
    BY <1>7 DEF Surjection
  <1>9. \A i, j \in 1..Cardinality(S) : g[i] = g[j] => i = j
    BY <1>4 DEF IsInjective
  <1> QED BY <1>1, <1>3, <1>4, <1>8, <1>9

(* One sequence after the other                                          *)
IsJoin(w, x, y) ==
    /\ Len(w) = Len(x) + Len(y)
    /\ \A i \in 1..Len(x) : w[i] = x[i]
    /\ \A i \in 1..Len(y) : w[Len(x) + i] = y[i]

LEMMA Joined ==
    ASSUME NEW V, NEW x \in Seq(V), NEW y \in Seq(V)
    PROVE  x \o y \in Seq(V) /\ IsJoin(x \o y, x, y)
  <1>1. PICK w, m, n : w = x \o y /\ m = Len(x) /\ n = Len(y)
    OBVIOUS
  <1>2. /\ w \in Seq(V) /\ Len(w) = m + n
        /\ \A j \in 1..m + n : w[j] = IF j <= m THEN x[j] ELSE y[j - m]
    BY <1>1, ConcatProperties, Zenon
  <1>3. m \in Nat /\ n \in Nat
    BY <1>1
  <1>4. \A i \in 1..m : w[i] = x[i]
    BY <1>2, <1>3
  <1>5. ASSUME NEW i \in 1..n PROVE w[m + i] = y[i]
    <2>1. m + i \in 1..m + n /\ ~(m + i <= m) /\ (m + i) - m = i
      BY <1>3
    <2> QED BY <1>2, <2>1
  <1> QED BY <1>1, <1>2, <1>4, <1>5 DEF IsJoin

(* All of a sequence of sequences, one part after the other                *)
Joins(joined, parts) ==
    /\ joined[0] = <<>>
    /\ \A i \in 1 .. Len(parts) : joined[i] = joined[i - 1] \o parts[i]

LEMMA FlattenJoins ==
    ASSUME NEW C, NEW parts \in Seq(Seq(C))
    PROVE  \E joined : /\ joined \in [0 .. Len(parts) -> Seq(C)] /\ Joins(joined, parts)
                       /\ FlattenSeq(parts) = joined[Len(parts)]
  <1>1. PICK n \in Nat : n = Len(parts)
    OBVIOUS
  <1>2. PICK S : S = Seq(C)
    OBVIOUS
  <1>3. PICK step : step = [x \in S \X (1 .. n) |-> x[1] \o parts[x[2]]]
    OBVIOUS
  <1>4. step \in [S \X (1 .. n) -> S]
    <2>1. ASSUME NEW v \in S, NEW i \in 1 .. n PROVE v \o parts[i] \in S
      <3>1. parts[i] \in Seq(C)
        BY <1>1
      <3> QED
        BY <1>2, <3>1, ConcatProperties
    <2> QED
      BY <1>3, <2>1
  <1>5. PICK f : Iterates(f, n, S, <<>>, step)
    <2>1. <<>> \in S
      BY <1>2, EmptySeq
    <2> QED
      BY <1>4, <2>1, Iteration
  <1>6. ASSUME NEW i \in 1 .. n PROVE f[i] = f[i - 1] \o parts[i] /\ f[i - 1] \in S /\ f[i] \in S
    <2>1. f[i - 1] \in S /\ f[i] \in S /\ <<f[i - 1], i>> \in S \X (1 .. n)
      BY <1>5 DEF Iterates
    <2>2. step[<<f[i - 1], i>>] = f[i - 1] \o parts[i]
      BY <1>3, <2>1
    <2> QED
      BY <1>5, <2>1, <2>2 DEF Iterates
  <1>7. f[0] = <<>> /\ f \in [0 .. n -> S]
    BY <1>5 DEF Iterates
  <1>8. CASE n = 0
    <2>1. FlattenSeq(parts) = <<>>
      BY <1>1, <1>8, EmptySeq DEF FlattenSeq
    <2> QED
      BY <1>1, <1>2, <1>6, <1>7, <1>8, <2>1 DEF Joins
  <1>9. CASE n # 0
    <2> DEFINE Recurs(g) == g = [i \in 1 .. Len(parts) |->
                  IF i = 1 THEN parts[i] ELSE g[i - 1] \o parts[i]]
    <2>1. PICK h : h = [i \in 1 .. n |-> f[i]]
      OBVIOUS
    <2>2. Recurs(h)
      <3>1. \A i \in 1 .. n : i # 1 => i - 1 \in 1 .. n /\ h[i - 1] = f[i - 1] /\ h[i] = f[i]
        BY <2>1
      <3>2. 1 \in 1 .. n /\ f[1] = parts[1]
        <4>1. 1 \in 1 .. n /\ parts[1] \in Seq(C)
          BY <1>1, <1>9
        <4>2. f[1] = f[0] \o parts[1]
          <5>1. f[1] = f[1 - 1] \o parts[1]
            BY <1>6, <4>1
          <5> QED
            BY <5>1
        <4> QED
          BY <1>7, <4>1, <4>2, ConcatEmptySeq
      <3>3. \A i \in 1 .. n : h[i] = IF i = 1 THEN parts[i] ELSE h[i - 1] \o parts[i]
        BY <1>6, <2>1, <3>1, <3>2
      <3> QED
        BY <1>1, <2>1, <3>3
    <2>3. PICK g : g = CHOOSE x : Recurs(x)
      OBVIOUS
    <2>4. Recurs(g)
      <3> HIDE DEF Recurs
      <3> QED
        BY <2>2, <2>3
    <2>5. FlattenSeq(parts) = g[n]
      BY <1>1, <1>9, <2>3 DEF FlattenSeq
    <2>6. \A i \in 1 .. n : g[i] = f[i]
      <3>1. PICK T : T = {i \in 0 .. n : i = 0 \/ g[i] = f[i]}
        OBVIOUS
      <3>2. ASSUME NEW i \in 1 .. n, i - 1 \in T PROVE i \in T
        <4>1. g[i] = IF i = 1 THEN parts[i] ELSE g[i - 1] \o parts[i]
          BY <1>1, <2>4
        <4>2. h[i] = IF i = 1 THEN parts[i] ELSE h[i - 1] \o parts[i]
          BY <1>1, <2>2
        <4>3. i # 1 => g[i - 1] = h[i - 1]
          BY <2>1, <3>1, <3>2
        <4> QED
          BY <2>1, <3>1, <4>1, <4>2, <4>3
      <3>3. 0 \in T
        BY <3>1
      <3>4. 0 .. n \subseteq T
        BY <3>2, <3>3, UpTo
      <3> QED
        BY <3>1, <3>4
    <2>7. FlattenSeq(parts) = f[n]
      BY <1>9, <2>5, <2>6
    <2> QED
      BY <1>1, <1>2, <1>6, <1>7, <2>7 DEF Joins
  <1> QED
    BY <1>8, <1>9
=============================================================================
