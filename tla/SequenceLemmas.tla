---------------------------- MODULE SequenceLemmas ----------------------------
(***************************************************************************)
(* Facts about natural numbers, sequences and iterations that the proofs   *)
(* of several components need.                                             *)
(***************************************************************************)
EXTENDS Naturals, Sequences, FiniteSets, SequencesExt, SequenceTheorems, FiniteSetTheorems,
        WellFoundedInduction, TLAPS

-----------------------------------------------------------------------------
(* Induction *)

LEMMA NatLeast ==
    ASSUME NEW T \in SUBSET Nat, T # {}
    PROVE  \E n \in T : \A m \in T : n <= m
  <1> DEFINE R == {p \in Nat \X Nat : p[1] < p[2]}
  <1>1. IsWellFoundedOn(R, Nat)
    BY NatLessThanWellFounded DEF OpToRel
  <1> HIDE DEF R
  <1>2. PICK n \in T : \A m \in T : <<m, n>> \notin R
    BY <1>1, WFMin
  <1>3. ASSUME NEW m \in T PROVE n <= m
    <2>1. ~(m < n)
      BY <1>2 DEF R
    <2> QED BY <2>1
  <1> QED BY <1>3

-----------------------------------------------------------------------------
(* Sequences *)

LEMMA ToSetProperties ==
    ASSUME NEW S, NEW s \in Seq(S)
    PROVE  /\ ToSet(s) = {s[i] : i \in 1..Len(s)}
           /\ ToSet(s) \subseteq S
           /\ Len(s) \in Nat
           /\ s = <<>> <=> ToSet(s) = {}
  <1>1. DOMAIN s = 1..Len(s) /\ Len(s) \in Nat
    BY LenProperties
  <1>2. ToSet(s) = {s[i] : i \in 1..Len(s)}
    BY <1>1 DEF ToSet
  <1>3. \A i \in 1..Len(s) : s[i] \in S
    BY ElementOfSeq
  <1>4. s = <<>> <=> Len(s) = 0
    BY EmptySeq
  <1> QED BY <1>1, <1>2, <1>3, <1>4

LEMMA ToSetOfEmpty == ToSet(<<>>) = {}
  BY DEF ToSet

LEMMA ToSetOfAppend ==
    ASSUME NEW S, NEW s \in Seq(S), NEW x \in S
    PROVE  ToSet(Append(s, x)) = ToSet(s) \cup {x}
  <1> DEFINE t == Append(s, x)
  <1>1. /\ t \in Seq(S) /\ Len(t) = Len(s) + 1 /\ t[Len(s) + 1] = x
        /\ \A i \in 1..Len(s) : t[i] = s[i]
    BY AppendProperties
  <1>2. ToSet(t) = {t[i] : i \in 1..Len(t)} /\ ToSet(s) = {s[i] : i \in 1..Len(s)}
        /\ Len(s) \in Nat
    BY <1>1, ToSetProperties
  <1> HIDE DEF t
  <1>3. 1..Len(t) = (1..Len(s)) \cup {Len(s) + 1}
    BY <1>1, <1>2
  <1>4. ToSet(t) = ToSet(s) \cup {x}
    BY <1>1, <1>2, <1>3
  <1> QED BY <1>4 DEF t

LEMMA ToSetOfTail ==
    ASSUME NEW S, NEW s \in Seq(S), s # <<>>
    PROVE  /\ ToSet(s) = ToSet(Tail(s)) \cup {Head(s)}
           /\ (\A i, j \in 1..Len(s) : s[i] = s[j] => i = j) =>
                /\ Head(s) \notin ToSet(Tail(s))
                /\ \A i, j \in 1..Len(Tail(s)) : Tail(s)[i] = Tail(s)[j] => i = j
           /\ Head(s) \in S /\ Tail(s) \in Seq(S) /\ (Tail(s) = <<>> <=> ~ Len(s) > 1)
  <1> DEFINE t == Tail(s)
  <1>1. /\ Head(s) \in S /\ t \in Seq(S) /\ Len(t) = Len(s) - 1 /\ Head(s) = s[1]
        /\ \A i \in 1..Len(t) : t[i] = s[i + 1]
    BY HeadTailProperties
  <1>2. /\ ToSet(t) = {t[i] : i \in 1..Len(t)} /\ ToSet(s) = {s[i] : i \in 1..Len(s)}
        /\ Len(s) \in Nat /\ Len(s) # 0 /\ Len(t) \in Nat
    BY <1>1, ToSetProperties, EmptySeq
  <1>3. t = <<>> <=> Len(t) = 0
    BY <1>1, EmptySeq
  <1> HIDE DEF t
  <1>4. ToSet(s) = ToSet(t) \cup {Head(s)}
    <2>1. ASSUME NEW i \in 1..Len(s) PROVE s[i] \in ToSet(t) \cup {Head(s)}
      <3>1. CASE i = 1
        BY <1>1, <3>1
      <3>2. CASE i # 1
        <4>1. i - 1 \in 1..Len(t) /\ t[i - 1] = s[i]
          BY <1>1, <1>2, <3>2
        <4> QED BY <1>2, <4>1
      <3> QED BY <3>1, <3>2
    <2>2. ASSUME NEW i \in 1..Len(t) PROVE t[i] \in ToSet(s)
      <3>1. i + 1 \in 1..Len(s) /\ t[i] = s[i + 1]
        BY <1>1, <1>2
      <3> QED BY <1>2, <3>1
    <2>3. Head(s) \in ToSet(s)
      BY <1>1, <1>2
    <2> QED BY <1>2, <2>1, <2>2, <2>3
  <1>5. ASSUME \A i, j \in 1..Len(s) : s[i] = s[j] => i = j
        PROVE  /\ Head(s) \notin ToSet(t)
               /\ \A i, j \in 1..Len(t) : t[i] = t[j] => i = j
    <2>1. ASSUME NEW i \in 1..Len(t) PROVE t[i] # Head(s)
      <3>1. i + 1 \in 1..Len(s) /\ 1 \in 1..Len(s) /\ i + 1 # 1 /\ t[i] = s[i + 1]
        BY <1>1, <1>2
      <3> QED BY <1>1, <1>5, <3>1
    <2>2. ASSUME NEW i \in 1..Len(t), NEW j \in 1..Len(t), t[i] = t[j] PROVE i = j
      <3>1. i + 1 \in 1..Len(s) /\ j + 1 \in 1..Len(s) /\ s[i + 1] = s[j + 1]
        BY <1>1, <1>2, <2>2
      <3>2. i + 1 = j + 1
        BY <1>5, <3>1
      <3> QED BY <3>2
    <2> QED BY <1>2, <2>1, <2>2
  <1>6. t = <<>> <=> ~ Len(s) > 1
    BY <1>1, <1>2, <1>3
  <1> QED BY <1>1, <1>4, <1>5, <1>6 DEF t

LEMMA SetToSeqProperties ==
    ASSUME NEW S, IsFiniteSet(S)
    PROVE  SetToSeq(S) \in Seq(S) /\ ToSet(SetToSeq(S)) = S /\ IsInjective(SetToSeq(S))
  <1> DEFINE n == Cardinality(S)
             q == SetToSeq(S)
  <1>1. n \in Nat /\ ExistsBijection(1..n, S)
    BY FS_CardinalityType
  <1>2. \E f \in [1..n -> S] : IsInjective(f)
    BY <1>1 DEF ExistsBijection, Bijection, Injection, IsInjective
  <1>3. q \in [1..n -> S] /\ IsInjective(q)
    BY <1>2 DEF SetToSeq
  <1>4. q \in Injection(1..n, S)
    BY <1>3 DEF Injection, IsInjective
  <1>5. IsFiniteSet(1..n) /\ Cardinality(1..n) = n
    BY <1>1, FS_Interval
  <1>6. q \in Surjection(1..n, S)
    BY <1>4, <1>5, FS_Injection
  <1> HIDE DEF q, n
  <1>7. q \in Seq(S)
    BY <1>1, <1>3, SeqDef
  <1>8. ToSet(q) = S
    BY <1>3, <1>6 DEF ToSet, Surjection
  <1> QED BY <1>3, <1>7, <1>8 DEF q

LEMMA ToSetOfConcat ==
    ASSUME NEW S, NEW s \in Seq(S), NEW t \in Seq(S)
    PROVE  s \o t \in Seq(S) /\ ToSet(s \o t) = ToSet(s) \cup ToSet(t)
  <1> DEFINE u == s \o t
  <1>1. /\ u \in Seq(S) /\ Len(u) = Len(s) + Len(t)
        /\ \A i \in 1..Len(s) + Len(t) : u[i] = IF i <= Len(s) THEN s[i] ELSE t[i - Len(s)]
    BY ConcatProperties
  <1> HIDE DEF u
  <1>2. /\ ToSet(u) = {u[i] : i \in 1..Len(u)} /\ ToSet(s) = {s[i] : i \in 1..Len(s)}
        /\ ToSet(t) = {t[i] : i \in 1..Len(t)} /\ Len(s) \in Nat /\ Len(t) \in Nat
    BY <1>1, ToSetProperties
  <1>3. ASSUME NEW i \in 1..Len(s) PROVE s[i] \in ToSet(u)
    <2>1. i \in 1..Len(u) /\ u[i] = s[i]
      BY <1>1, <1>2
    <2> QED BY <1>2, <2>1
  <1>4. ASSUME NEW i \in 1..Len(t) PROVE t[i] \in ToSet(u)
    <2>1. i + Len(s) \in 1..Len(u) /\ ~ i + Len(s) <= Len(s) /\ i + Len(s) - Len(s) = i
      BY <1>1, <1>2
    <2>2. u[i + Len(s)] = t[i]
      BY <1>1, <2>1
    <2> QED BY <1>2, <2>1, <2>2
  <1>5. ASSUME NEW i \in 1..Len(u) PROVE u[i] \in ToSet(s) \cup ToSet(t)
    <2>1. CASE i <= Len(s)
      BY <1>1, <1>2, <2>1
    <2>2. CASE ~ i <= Len(s)
      <3>1. i - Len(s) \in 1..Len(t) /\ u[i] = t[i - Len(s)]
        BY <1>1, <1>2, <2>2
      <3> QED BY <1>2, <3>1
    <2> QED BY <2>1, <2>2
  <1>6. ToSet(u) = ToSet(s) \cup ToSet(t)
    BY <1>2, <1>3, <1>4, <1>5
  <1> QED BY <1>1, <1>6 DEF u

LEMMA ToSetOfConcats ==
    ASSUME NEW S, NEW s \in Seq(S), NEW t \in Seq(S), NEW u \in Seq(S)
    PROVE  /\ (s \o t) \o u \in Seq(S)
           /\ ToSet((s \o t) \o u) = ToSet(s) \cup ToSet(t) \cup ToSet(u)
  <1> DEFINE st == s \o t
  <1>1. st \in Seq(S) /\ ToSet(st) = ToSet(s) \cup ToSet(t)
    BY ToSetOfConcat
  <1> HIDE DEF st
  <1>2. st \o u \in Seq(S) /\ ToSet(st \o u) = ToSet(st) \cup ToSet(u)
    BY <1>1, ToSetOfConcat
  <1> QED BY <1>1, <1>2 DEF st

LEMMA ToSetOfOne ==
    ASSUME NEW S, NEW x \in S
    PROVE  <<x>> \in Seq(S) /\ ToSet(<<x>>) = {x}
  <1>1. <<x>> \in Seq(S) /\ Len(<<x>>) = 1 /\ <<x>>[1] = x
    OBVIOUS
  <1>2. ToSet(<<x>>) = {<<x>>[i] : i \in 1..1}
    BY <1>1, ToSetProperties
  <1> QED BY <1>1, <1>2

LEMMA RemoveAtProperties ==
    ASSUME NEW S, NEW s \in Seq(S), NEW i \in 1..Len(s)
    PROVE  /\ RemoveAt(s, i) \in Seq(S)
           /\ Len(RemoveAt(s, i)) = Len(s) - 1
           /\ \A j \in 1..Len(s) - 1 : RemoveAt(s, i)[j] = IF j < i THEN s[j] ELSE s[j + 1]
  <1>1. Len(s) \in Nat /\ i \in Nat /\ i - 1 \in 0..Len(s) /\ i + 1 \in 1..Len(s) + 1
    BY LenProperties
  <1>2. PICK t : t = SubSeq(s, 1, i - 1)
    OBVIOUS
  <1>3. PICK u : u = SubSeq(s, i + 1, Len(s))
    OBVIOUS
  <1>4. /\ t \in Seq(S) /\ Len(t) = i - 1
        /\ \A j \in 1..i - 1 : t[j] = s[j]
    <2>1. \A j \in 1..i - 1 : s[j] \in S
      BY <1>1, ElementOfSeq
    <2> QED BY <1>1, <1>2, <2>1, SubSeqProperties
  <1>5. /\ u \in Seq(S) /\ Len(u) = Len(s) - i
        /\ \A j \in 1..Len(s) - i : u[j] = s[i + j]
    <2>1. \A j \in i + 1..Len(s) : s[j] \in S
      BY <1>1, ElementOfSeq
    <2> QED BY <1>1, <1>3, <2>1, SubSeqProperties
  <1>6. RemoveAt(s, i) = t \o u
    BY <1>2, <1>3 DEF RemoveAt
  <1>7. /\ t \o u \in Seq(S) /\ Len(t \o u) = Len(t) + Len(u)
        /\ \A j \in 1..Len(t) + Len(u) :
              (t \o u)[j] = IF j <= Len(t) THEN t[j] ELSE u[j - Len(t)]
    BY <1>4, <1>5, ConcatProperties
  <1>8. Len(t) + Len(u) = Len(s) - 1
    BY <1>1, <1>4, <1>5
  <1>9. ASSUME NEW j \in 1..Len(s) - 1
        PROVE  (t \o u)[j] = IF j < i THEN s[j] ELSE s[j + 1]
    <2>1. CASE j < i
      <3>1. j <= Len(t) /\ j \in 1..i - 1 /\ j \in 1..Len(t) + Len(u)
        BY <1>1, <1>4, <1>8, <2>1
      <3> QED BY <1>4, <1>7, <2>1, <3>1
    <2>2. CASE ~ j < i
      <3>1. /\ ~ j <= Len(t) /\ j \in 1..Len(t) + Len(u)
            /\ j - Len(t) \in 1..Len(s) - i /\ i + (j - Len(t)) = j + 1
        BY <1>1, <1>4, <1>8, <2>2
      <3> QED BY <1>5, <1>7, <2>2, <3>1
    <2> QED BY <2>1, <2>2
  <1> QED BY <1>6, <1>7, <1>8, <1>9

\* Without its i-th element a sequence without repetitions holds the others.
LEMMA RemoveAtInjective ==
    ASSUME NEW S, NEW s \in Seq(S), IsInjective(s), NEW i \in 1..Len(s)
    PROVE  IsInjective(RemoveAt(s, i)) /\ ToSet(RemoveAt(s, i)) = ToSet(s) \ {s[i]}
  <1>1. PICK t : t = RemoveAt(s, i)
    OBVIOUS
  <1>2. /\ t \in Seq(S) /\ Len(t) = Len(s) - 1
        /\ \A j \in 1..Len(s) - 1 : t[j] = IF j < i THEN s[j] ELSE s[j + 1]
    BY <1>1, RemoveAtProperties
  <1>3. /\ DOMAIN s = 1..Len(s) /\ DOMAIN t = 1..Len(t) /\ Len(s) \in Nat
        /\ ToSet(s) = {s[j] : j \in 1..Len(s)} /\ ToSet(t) = {t[j] : j \in 1..Len(t)}
    BY <1>2, LenProperties, ToSetProperties
  <1>4. \A j, h \in 1..Len(s) : s[j] = s[h] => j = h
    BY <1>3 DEF IsInjective
  <1>5. PICK from : from = [j \in 1..Len(t) |-> IF j < i THEN j ELSE j + 1]
    OBVIOUS
  <1>6. ASSUME NEW j \in 1..Len(t)
        PROVE  from[j] \in 1..Len(s) /\ from[j] # i /\ t[j] = s[from[j]]
    <2>1. from[j] = IF j < i THEN j ELSE j + 1
      BY <1>5
    <2> QED BY <1>2, <1>3, <2>1
  <1>7. IsInjective(t)
    <2>1. ASSUME NEW j \in 1..Len(t), NEW h \in 1..Len(t), t[j] = t[h] PROVE j = h
      <3>1. from[j] = from[h]
        BY <1>4, <1>6, <2>1
      <3> QED BY <1>2, <1>3, <1>5, <3>1
    <2> QED BY <1>3, <2>1 DEF IsInjective
  <1>8. \A x \in ToSet(t) : x \in ToSet(s) /\ x # s[i]
    BY <1>3, <1>4, <1>6
  <1>9. ASSUME NEW x \in ToSet(s), x # s[i] PROVE x \in ToSet(t)
    <2>1. PICK j \in 1..Len(s) : x = s[j]
      BY <1>3
    <2>2. j # i
      BY <1>9, <2>1
    <2>3. PICK h : h = IF j < i THEN j ELSE j - 1
      OBVIOUS
    <2>4. h \in 1..Len(t) /\ h \in 1..Len(s) - 1 /\ (IF h < i THEN h ELSE h + 1) = j
      BY <1>2, <1>3, <2>2, <2>3
    <2>5. t[h] = s[j]
      BY <1>2, <2>4
    <2> QED BY <1>3, <2>1, <2>4, <2>5
  <1> QED BY <1>1, <1>7, <1>8, <1>9

LEMMA AppendInjectively ==
    ASSUME NEW S, NEW s \in Seq(S), IsInjective(s), NEW x \in S, x \notin ToSet(s)
    PROVE  IsInjective(Append(s, x))
  <1>1. PICK t : t = Append(s, x)
    OBVIOUS
  <1>2. /\ t \in Seq(S) /\ Len(t) = Len(s) + 1 /\ t[Len(s) + 1] = x
        /\ \A j \in 1..Len(s) : t[j] = s[j]
    BY <1>1, AppendProperties
  <1>3. /\ DOMAIN s = 1..Len(s) /\ DOMAIN t = 1..Len(t) /\ Len(s) \in Nat
        /\ ToSet(s) = {s[j] : j \in 1..Len(s)}
    BY <1>2, LenProperties, ToSetProperties
  <1>4. \A j, h \in 1..Len(s) : s[j] = s[h] => j = h
    BY <1>3 DEF IsInjective
  <1>5. ASSUME NEW j \in 1..Len(t), NEW h \in 1..Len(t), t[j] = t[h] PROVE j = h
    <2>1. j \in 1..Len(s) \/ j = Len(s) + 1
      BY <1>2, <1>3
    <2>2. h \in 1..Len(s) \/ h = Len(s) + 1
      BY <1>2, <1>3
    <2>3. \A m \in 1..Len(s) : t[m] # x
      BY <1>2, <1>3
    <2> QED BY <1>2, <1>4, <1>5, <2>1, <2>2, <2>3
  <1> QED BY <1>1, <1>3, <1>5 DEF IsInjective

\* An element is put before a sequence.
LEMMA PushProperties ==
    ASSUME NEW S, NEW s \in Seq(S), NEW x \in S
    PROVE  /\ <<x>> \o s \in Seq(S) /\ <<x>> \o s # <<>>
           /\ Len(<<x>> \o s) = Len(s) + 1
           /\ Head(<<x>> \o s) = x /\ Tail(<<x>> \o s) = s
           /\ (<<x>> \o s)[1] = x /\ \A i \in 1..Len(s) : (<<x>> \o s)[i + 1] = s[i]
           /\ ToSet(<<x>> \o s) = {x} \cup ToSet(s)
  <1>1. <<x>> \in Seq(S) /\ Len(<<x>>) = 1 /\ <<x>>[1] = x
    OBVIOUS
  <1>2. PICK t : t = <<x>> \o s
    OBVIOUS
  <1>3. Len(s) \in Nat
    BY LenProperties
  <1>4. /\ t \in Seq(S) /\ Len(t) = Len(s) + 1
        /\ \A i \in 1..Len(s) + 1 : t[i] = IF i <= 1 THEN x ELSE s[i - 1]
    BY <1>1, <1>2, <1>3, ConcatProperties
  <1>5. t[1] = x /\ \A i \in 1..Len(s) : t[i + 1] = s[i]
    <2>1. t[1] = x
      BY <1>3, <1>4
    <2>2. ASSUME NEW i \in 1..Len(s) PROVE t[i + 1] = s[i]
      <3>1. i + 1 \in 1..Len(s) + 1 /\ ~(i + 1 <= 1) /\ i + 1 - 1 = i
        BY <1>3
      <3> QED BY <1>4, <3>1
    <2> QED BY <2>1, <2>2
  <1>6. t # <<>>
    BY <1>3, <1>4, EmptySeq
  <1>7. /\ Head(t) = t[1] /\ Tail(t) \in Seq(S) /\ Len(Tail(t)) = Len(t) - 1
        /\ \A i \in 1..Len(Tail(t)) : Tail(t)[i] = t[i + 1]
    BY <1>4, <1>6, HeadTailProperties
  <1>8. Tail(t) = s
    <2>1. PICK u : u = Tail(t)
      OBVIOUS
    <2>2. u \in Seq(S) /\ Len(u) = Len(s) /\ \A i \in 1..Len(u) : u[i] = s[i]
      BY <1>3, <1>4, <1>5, <1>7, <2>1
    <2> QED BY <2>1, <2>2, SeqEqual
  <1>9. ToSet(t) = {x} \cup ToSet(s)
    <2>1. PICK one : one = <<x>>
      OBVIOUS
    <2>2. one \in Seq(S) /\ ToSet(one) = {x}
      BY <2>1, ToSetOfOne
    <2>3. ToSet(one \o s) = ToSet(one) \cup ToSet(s)
      BY <2>2, ToSetOfConcat
    <2> QED BY <1>2, <2>1, <2>2, <2>3
  <1> QED BY <1>2, <1>4, <1>5, <1>6, <1>7, <1>8, <1>9

LEMMA PopProperties ==
    ASSUME NEW S, NEW s \in Seq(S), s # <<>>
    PROVE  /\ Head(s) \in S /\ Tail(s) \in Seq(S)
           /\ s = <<Head(s)>> \o Tail(s)
  <1>1. PICK x, t : x = Head(s) /\ t = Tail(s)
    OBVIOUS
  <1>2. /\ x \in S /\ t \in Seq(S) /\ Len(t) = Len(s) - 1 /\ x = s[1]
        /\ \A i \in 1..Len(t) : t[i] = s[i + 1]
    BY <1>1, HeadTailProperties
  <1>3. PICK u : u = <<x>> \o t
    OBVIOUS
  <1>4. /\ u \in Seq(S) /\ Len(u) = Len(t) + 1
        /\ u[1] = x /\ \A i \in 1..Len(t) : u[i + 1] = t[i]
    BY <1>2, <1>3, PushProperties
  <1>5. Len(s) \in Nat /\ Len(s) # 0
    BY EmptySeq, LenProperties
  <1>6. ASSUME NEW i \in 1..Len(s) PROVE s[i] = u[i]
    <2>1. CASE i = 1
      BY <1>2, <1>4, <2>1
    <2>2. CASE i # 1
      <3>1. i - 1 \in 1..Len(t) /\ i - 1 + 1 = i
        BY <1>2, <1>5, <2>2
      <3>2. t[i - 1] = s[i] /\ u[i] = t[i - 1]
        BY <1>2, <1>4, <3>1
      <3> QED BY <3>2
    <2> QED BY <2>1, <2>2
  <1>7. Len(u) = Len(s)
    BY <1>2, <1>4, <1>5
  <1>8. s = u
    BY <1>4, <1>6, <1>7, SeqEqual
  <1> QED BY <1>1, <1>2, <1>3, <1>8

\* A sequence is what comes before one of its places and what comes after it.
LEMMA SplitProperties ==
    ASSUME NEW S, NEW s \in Seq(S), NEW c \in 0..Len(s)
    PROVE  /\ SubSeq(s, 1, c) \in Seq(S) /\ Len(SubSeq(s, 1, c)) = c
           /\ SubSeq(s, c + 1, Len(s)) \in Seq(S)
           /\ SubSeq(s, 1, c) \o SubSeq(s, c + 1, Len(s)) = s
  <1>1. PICK len, t, u : len = Len(s) /\ t = SubSeq(s, 1, c) /\ u = SubSeq(s, c + 1, len)
    OBVIOUS
  <1>2. len \in Nat /\ c \in Nat /\ c <= len
    BY <1>1, LenProperties
  <1>3. t \in Seq(S) /\ Len(t) = c /\ \A j \in 1..c : t[j] = s[j]
    <2>1. \A j \in 1..c : s[j] \in S
      BY <1>1, <1>2, ElementOfSeq
    <2> QED BY <1>1, <1>2, <2>1, SubSeqProperties
  <1>4. u \in Seq(S) /\ Len(u) = len - c /\ \A j \in 1..len - c : u[j] = s[c + j]
    <2>1. \A j \in c + 1..len : s[j] \in S
      BY <1>1, <1>2, ElementOfSeq
    <2> QED BY <1>1, <1>2, <2>1, SubSeqProperties
  <1>5. /\ t \o u \in Seq(S) /\ Len(t \o u) = Len(t) + Len(u)
        /\ \A j \in 1..Len(t) + Len(u) :
              (t \o u)[j] = IF j <= Len(t) THEN t[j] ELSE u[j - Len(t)]
    BY <1>3, <1>4, ConcatProperties
  <1>6. Len(t \o u) = len
    BY <1>2, <1>3, <1>4, <1>5
  <1>7. ASSUME NEW j \in 1..len PROVE (t \o u)[j] = s[j]
    <2>1. CASE j <= c
      BY <1>2, <1>3, <1>5, <1>6, <2>1
    <2>2. CASE ~ j <= c
      <3>1. j - c \in 1..len - c /\ c + (j - c) = j
        BY <1>2, <2>2
      <3> QED BY <1>3, <1>4, <1>5, <1>6, <2>2, <3>1
    <2> QED BY <2>1, <2>2
  <1>8. PICK v : v = t \o u
    OBVIOUS
  <1>9. v = s
    BY <1>1, <1>5, <1>6, <1>7, <1>8, SeqEqual
  <1> QED BY <1>1, <1>3, <1>4, <1>8, <1>9

\* What is iterated n times from a first value, the n-th time with step[n].
LEMMA Iterates ==
    ASSUME NEW V, NEW first \in V, NEW len \in Nat, NEW step \in [1..len -> [V -> V]]
    PROVE  \E f \in [0..len -> V] :
              f[0] = first /\ \A n \in 1..len : f[n] = step[n][f[n - 1]]
  <1> DEFINE Upto(m) == \E f \in [0..m -> V] :
                f[0] = first /\ \A n \in 1..m : f[n] = step[n][f[n - 1]]
             Failing == {m \in 0..len : ~Upto(m)}
  <1>1. Failing = {}
    <2>1. SUFFICES ASSUME Failing # {} PROVE FALSE
      OBVIOUS
    <2>2. PICK m \in Failing : \A n \in Failing : m <= n
      <3>1. Failing \in SUBSET Nat
        OBVIOUS
      <3> HIDE DEF Failing
      <3> QED BY <2>1, <3>1, NatLeast
    <2>3. m # 0
      <3>1. PICK f : f = [n \in 0..0 |-> first]
        OBVIOUS
      <3>2. f \in [0..0 -> V] /\ f[0] = first /\ 1..0 = {}
        BY <3>1
      <3>3. Upto(0)
        BY <3>2
      <3> QED BY <3>3
    <2>4. m - 1 \in 0..len /\ m \in 1..len /\ Upto(m - 1)
      BY <2>2, <2>3
    <2>5. PICK f \in [0..m - 1 -> V] :
                f[0] = first /\ \A n \in 1..m - 1 : f[n] = step[n][f[n - 1]]
      BY <2>4
    <2>6. PICK g : g = [n \in 0..m |-> IF n = m THEN step[m][f[m - 1]] ELSE f[n]]
      OBVIOUS
    <2>7. f[m - 1] \in V /\ step[m][f[m - 1]] \in V
      BY <2>4, <2>5
    <2>8. g \in [0..m -> V]
      BY <2>4, <2>5, <2>6, <2>7
    <2>9. g[0] = first
      BY <2>4, <2>5, <2>6
    <2>10. ASSUME NEW n \in 1..m PROVE g[n] = step[n][g[n - 1]]
      <3>1. n - 1 \in 0..m /\ n - 1 # m /\ n \in 0..m
        BY <2>4
      <3>2. g[n - 1] = f[n - 1]
        BY <2>6, <3>1
      <3>3. CASE n = m
        BY <2>6, <3>1, <3>2, <3>3
      <3>4. CASE n # m
        <4>1. n \in 1..m - 1
          BY <2>4, <3>4
        <4> QED BY <2>5, <2>6, <3>1, <3>2, <3>4, <4>1
      <3> QED BY <3>3, <3>4
    <2>11. Upto(m)
      BY <2>8, <2>9, <2>10
    <2> QED BY <2>2, <2>11
  <1>2. Upto(len)
    BY <1>1
  <1> QED BY <1>2

===============================================================================
