------------------------------ MODULE PacketProofs ------------------------------
(***************************************************************************)
(* Theorems about the packets on their way through the dispatcher: each    *)
(* one that came back from a relay is written or given up once (module     *)
(* ReturnPath), each one read from the device is sent or given up once,    *)
(* and the reader gives no more of them up to sessions that are over than  *)
(* are left of a chunk (module PacketPath).  What the reassembler counts   *)
(* as held is what it holds, its frames come out in order, and the newest  *)
(* of a flow is never dropped (module FlowFrame).                          *)
(*                                                                         *)
(* Each proof counts the places where a packet is, a sum over the paths or *)
(* the sessions, and the counts of the sequences it can be in; the order   *)
(* of frames comes from how far each is from the first of its flow.        *)
(***************************************************************************)
EXTENDS PacketPath, ReturnPath, FlowFrame, FiniteSetTheorems, SequenceTheorems,
        WellFoundedInduction, TLAPS

(* The principle of induction, for sets. *)
LEMMA SetInduction ==
  ASSUME NEW T, T \subseteq Nat, 0 \in T, \A n \in T : n + 1 \in T
  PROVE  T = Nat
<1> DEFINE R == OpToRel(<, Nat)
<1> SUFFICES ASSUME Nat \ T # {} PROVE FALSE
  OBVIOUS
<1>1. IsWellFoundedOn(R, Nat)
  BY NatLessThanWellFounded
<1>2. PICK x \in Nat \ T : \A y \in Nat \ T : <<y, x>> \notin R
  BY <1>1, WFMin
<1>3. x - 1 \in Nat /\ x - 1 \notin T /\ x - 1 < x
  BY x # 0
<1>4. <<x - 1, x>> \in R
  BY <1>3 DEF OpToRel
<1> QED
  BY <1>2, <1>3, <1>4

-----------------------------------------------------------------------------
(* Sums.  SumFunction: the sum over s, given the sums over smaller sets.   *)
One(s) == CHOOSE x \in s : TRUE
Body(F, g, s) == IF s = {} THEN 0 ELSE F[One(s)] + g[s \ {One(s)}]
Sums(F, g) == g = [s \in SUBSET DOMAIN F |-> Body(F, g, s)]

(* Taking one element out of a set makes it smaller. *)
LEMMA Smaller ==
  ASSUME NEW S, NEW s \in SUBSET S, IsFiniteSet(S), s # {}
  PROVE  /\ One(s) \in s /\ s \ {One(s)} \in SUBSET S
         /\ IsFiniteSet(s) /\ Cardinality(s) \in Nat \ {0}
         /\ Cardinality(s \ {One(s)}) = Cardinality(s) - 1
<1>1. One(s) \in s
  BY DEF One
<1>2. IsFiniteSet(s)
  BY FS_Subset
<1>3. Cardinality(s) \in Nat \ {0}
  BY <1>2, FS_CardinalityType, FS_EmptySet
<1>4. Cardinality(s \ {One(s)}) = Cardinality(s) - 1
  BY <1>1, <1>2, FS_RemoveElement
<1> QED
  BY <1>1, <1>2, <1>3, <1>4

(* A set without elements is empty. *)
LEMMA NoneIsEmpty ==
  ASSUME NEW S, NEW s \in SUBSET S, IsFiniteSet(S), Cardinality(s) <= 0
  PROVE  s = {}
<1>1. IsFiniteSet(s) /\ Cardinality(s) \in Nat
  BY FS_Subset, FS_CardinalityType
<1> QED
  BY <1>1, FS_EmptySet

(* There is such a function, built up set size by set size. *)
LEMMA SumsExist ==
  ASSUME NEW S, NEW F \in [S -> Nat], IsFiniteSet(S)
  PROVE  \E g \in [SUBSET S -> Nat] : Sums(F, g)
<1> DEFINE UpTo(g, n) == \A s \in SUBSET S : Cardinality(s) <= n => g[s] = Body(F, g, s)
           T == {n \in Nat : \E g \in [SUBSET S -> Nat] : UpTo(g, n)}
<1> USE Smaller
<1>0. ASSUME NEW s \in SUBSET S, Cardinality(s) <= 0 PROVE s = {}
  BY <1>0, NoneIsEmpty
<1>1. ASSUME NEW g \in [SUBSET S -> Nat], NEW s \in SUBSET S
      PROVE  Body(F, g, s) \in Nat
  <2>1. CASE s = {}
    BY <2>1 DEF Body
  <2>2. CASE s # {}
    <3>1. One(s) \in S /\ s \ {One(s)} \in SUBSET S
      BY <2>2
    <3>2. F[One(s)] \in Nat /\ g[s \ {One(s)}] \in Nat
      BY <3>1
    <3> QED
      BY <2>2, <3>2 DEF Body
  <2> QED
    BY <2>1, <2>2
<1>2. 0 \in T
  <2> DEFINE g == [s \in SUBSET S |-> 0]
  <2>1. ASSUME NEW s \in SUBSET S, Cardinality(s) <= 0 PROVE g[s] = Body(F, g, s)
    <3>1. s = {}
      BY <1>0, <2>1
    <3> QED
      BY <3>1 DEF Body
  <2>2. g \in [SUBSET S -> Nat] /\ UpTo(g, 0)
    BY <2>1
  <2> QED
    BY <2>2
<1>3. ASSUME NEW n \in T PROVE n + 1 \in T
  <2>1. n \in Nat /\ \E g \in [SUBSET S -> Nat] : UpTo(g, n)
    OBVIOUS
  <2>2. PICK g \in [SUBSET S -> Nat] : UpTo(g, n)
    BY <2>1
  <2> DEFINE h == [s \in SUBSET S |-> Body(F, g, s)]
  <2>3. h \in [SUBSET S -> Nat]
    BY <1>1
  <2>4. ASSUME NEW s \in SUBSET S, Cardinality(s) <= n + 1 PROVE h[s] = Body(F, h, s)
    <3>1. CASE s = {}
      BY <3>1 DEF Body
    <3>2. CASE s # {}
      <4>1. /\ s \ {One(s)} \in SUBSET S
            /\ Cardinality(s \ {One(s)}) = Cardinality(s) - 1 /\ Cardinality(s) \in Nat
        BY <3>2
      <4>2. Cardinality(s \ {One(s)}) <= n
        BY <2>1, <2>4, <4>1
      <4>3. h[s \ {One(s)}] = g[s \ {One(s)}]
        BY <2>2, <4>1, <4>2
      <4> QED
        BY <4>3, <3>2 DEF Body
    <3> QED
      BY <3>1, <3>2
  <2>5. UpTo(h, n + 1)
    BY <2>4
  <2> HIDE DEF UpTo, h
  <2> QED
    BY <2>1, <2>3, <2>5
<1>4. T = Nat
  <2> HIDE DEF T
  <2> T \subseteq Nat
    BY DEF T
  <2> QED
    BY <1>2, <1>3, SetInduction
<1>5. Cardinality(S) \in T
  BY <1>4, FS_CardinalityType
<1>6. PICK g \in [SUBSET S -> Nat] : UpTo(g, Cardinality(S))
  BY <1>5
<1>7. ASSUME NEW s \in SUBSET S PROVE g[s] = Body(F, g, s)
  BY <1>6, FS_Subset
<1>8. DOMAIN F = S
  OBVIOUS
<1> HIDE DEF UpTo, T
<1>9. Sums(F, g)
  BY <1>6, <1>7, <1>8 DEF Sums
<1> QED
  BY <1>6, <1>9

(* Two functions that agree on a set have the same sum over it. *)
LEMMA SumsAgree ==
  ASSUME NEW S, NEW F, NEW g, NEW U, NEW G, NEW h, NEW R,
         DOMAIN F = S, Sums(F, g), DOMAIN G = U, Sums(G, h),
         IsFiniteSet(S), R \subseteq S, R \subseteq U, \A x \in R : F[x] = G[x]
  PROVE  g[R] = h[R]
<1> DEFINE T == {n \in Nat : \A s \in SUBSET R : Cardinality(s) <= n => g[s] = h[s]}
<1>1. ASSUME NEW s \in SUBSET R
      PROVE  g[s] = Body(F, g, s) /\ h[s] = Body(G, h, s)
  BY DEF Sums
<1>2. IsFiniteSet(R)
  BY FS_Subset
<1>3. g[{}] = h[{}]
  BY <1>1 DEF Body
<1>4. 0 \in T
  BY <1>2, <1>3, NoneIsEmpty
<1>5. ASSUME NEW n \in T PROVE n + 1 \in T
  <2> n \in Nat
    OBVIOUS
  <2> SUFFICES ASSUME NEW s \in SUBSET R, Cardinality(s) <= n + 1, s # {}
               PROVE  g[s] = h[s]
    BY <1>3
  <2>1. One(s) \in s /\ s \ {One(s)} \in SUBSET R /\ Cardinality(s \ {One(s)}) <= n
    BY <1>2, Smaller
  <2>2. g[s \ {One(s)}] = h[s \ {One(s)}] /\ F[One(s)] = G[One(s)]
    BY <2>1
  <2> QED
    BY <1>1, <2>2 DEF Body
<1>6. T = Nat
  <2> HIDE DEF T
  <2> T \subseteq Nat
    BY DEF T
  <2> QED
    BY <1>4, <1>5, SetInduction
<1> QED
  BY <1>2, <1>6, FS_CardinalityType

(* The sum that SumFunction chooses is one of those that exist. *)
LEMMA SumIsOne ==
  ASSUME NEW S, NEW F \in [S -> Nat], IsFiniteSet(S)
  PROVE  \E g \in [SUBSET S -> Nat] : Sums(F, g) /\ SumFunction(F) = g[S]
<1> DEFINE g == CHOOSE g : Sums(F, g)
<1>1. PICK h \in [SUBSET S -> Nat] : Sums(F, h)
  BY SumsExist
<1>2. Sums(F, g)
  BY <1>1
<1>3. SumFunction(F) = g[S]
  BY DEF SumFunction, SumFunctionOnSet, FoldFunctionOnSet, MapThenFoldSet, Sums, Body, One
<1> HIDE DEF g
<1>4. ASSUME NEW s \in SUBSET S PROVE g[s] = h[s]
  BY <1>1, <1>2, SumsAgree
<1>5. g \in [SUBSET S -> Nat]
  BY <1>2, <1>4 DEF Sums
<1> QED
  BY <1>2, <1>3, <1>5

(* Any element can be taken out of a sum first. *)
LEMMA SumsTakeOut ==
  ASSUME NEW S, NEW F \in [S -> Nat], NEW g \in [SUBSET S -> Nat], NEW r \in S,
         IsFiniteSet(S), Sums(F, g)
  PROVE  g[S] = F[r] + g[S \ {r}]
<1> DEFINE Splits(s) == \A x \in s : g[s] = F[x] + g[s \ {x}]
           T == {n \in Nat : \A s \in SUBSET S : Cardinality(s) <= n => Splits(s)}
<1>1. ASSUME NEW s \in SUBSET S, s # {} PROVE g[s] = F[One(s)] + g[s \ {One(s)}]
  BY <1>1 DEF Sums, Body
<1>2. 0 \in T
  BY NoneIsEmpty
<1>3. ASSUME NEW n \in T PROVE n + 1 \in T
  <2> n \in Nat
    OBVIOUS
  <2> SUFFICES ASSUME NEW s \in SUBSET S, Cardinality(s) <= n + 1, NEW x \in s
               PROVE  g[s] = F[x] + g[s \ {x}]
    OBVIOUS
  <2> DEFINE y == One(s)
  <2>1. y \in s
    BY Smaller
  <2> HIDE DEF y
  <2>2. g[s] = F[y] + g[s \ {y}]
    BY <1>1 DEF y
  <2>3. CASE x = y
    BY <2>2, <2>3
  <2>4. CASE x # y
    <3>1. /\ s \ {x} \in SUBSET S /\ s \ {y} \in SUBSET S
          /\ Cardinality(s \ {x}) <= n /\ Cardinality(s \ {y}) <= n
      BY <2>1, FS_Subset, FS_RemoveElement, FS_CardinalityType
    <3>2. g[s \ {y}] = F[x] + g[(s \ {y}) \ {x}]
      BY <2>4, <3>1
    <3>3. g[s \ {x}] = F[y] + g[(s \ {x}) \ {y}]
      BY <2>1, <2>4, <3>1
    <3>4. (s \ {y}) \ {x} = (s \ {x}) \ {y} /\ (s \ {x}) \ {y} \in SUBSET S
      OBVIOUS
    <3>5. F[x] \in Nat /\ F[y] \in Nat /\ g[(s \ {x}) \ {y}] \in Nat
      BY <2>1, <3>4
    <3> DEFINE a == F[x]
               b == F[y]
               c == g[(s \ {x}) \ {y}]
    <3>6. g[s] = b + (a + c) /\ g[s \ {x}] = b + c
      BY <2>2, <3>2, <3>3, <3>4
    <3>7. a \in Nat /\ b \in Nat /\ c \in Nat
      BY <3>5
    <3> HIDE DEF a, b, c
    <3>8. g[s] = a + g[s \ {x}]
      BY <3>6, <3>7
    <3> QED
      BY <3>8 DEF a
  <2> QED
    BY <2>3, <2>4
<1>4. T = Nat
  <2> HIDE DEF T
  <2> T \subseteq Nat
    BY DEF T
  <2> QED
    BY <1>2, <1>3, SetInduction
<1> QED
  BY <1>4, FS_CardinalityType

(* A sum is a number, and no less than what is summed at one place. *)
LEMMA SumType ==
  ASSUME NEW S, NEW F \in [S -> Nat], IsFiniteSet(S)
  PROVE  /\ SumFunction(F) \in Nat
         /\ \A r \in S : F[r] <= SumFunction(F)
<1>1. PICK g \in [SUBSET S -> Nat] : Sums(F, g) /\ SumFunction(F) = g[S]
  BY SumIsOne
<1>2. ASSUME NEW r \in S PROVE F[r] <= SumFunction(F)
  <2>1. g[S] = F[r] + g[S \ {r}]
    BY <1>1, SumsTakeOut
  <2>2. F[r] \in Nat /\ g[S \ {r}] \in Nat
    OBVIOUS
  <2> QED
    BY <1>1, <2>1, <2>2
<1> QED
  BY <1>1, <1>2

(* Where two functions differ in one place, their sums differ by as much. *)
LEMMA SumChanges ==
  ASSUME NEW S, NEW F \in [S -> Nat], NEW G \in [S -> Nat], NEW r \in S,
         IsFiniteSet(S), \A o \in S \ {r} : G[o] = F[o]
  PROVE  SumFunction(G) = SumFunction(F) + (G[r] - F[r])
<1>1. PICK g \in [SUBSET S -> Nat] : Sums(F, g) /\ SumFunction(F) = g[S]
  BY SumIsOne
<1>2. PICK h \in [SUBSET S -> Nat] : Sums(G, h) /\ SumFunction(G) = h[S]
  BY SumIsOne
<1>3. g[S] = F[r] + g[S \ {r}]
  BY <1>1, SumsTakeOut
<1>4. h[S] = G[r] + h[S \ {r}]
  BY <1>2, SumsTakeOut
<1>5. DOMAIN F = S /\ DOMAIN G = S
  OBVIOUS
<1>6. g[S \ {r}] = h[S \ {r}]
  BY <1>1, <1>2, <1>5, SumsAgree
<1>7. F[r] \in Nat /\ G[r] \in Nat /\ g[S \ {r}] \in Nat
  OBVIOUS
<1> QED
  BY <1>1, <1>2, <1>3, <1>4, <1>6, <1>7

(* A place more adds what is there. *)
LEMMA SumExtends ==
  ASSUME NEW U, NEW r \in U, NEW F \in [U \ {r} -> Nat], NEW G \in [U -> Nat],
         IsFiniteSet(U), \A o \in U \ {r} : G[o] = F[o]
  PROVE  SumFunction(G) = SumFunction(F) + G[r]
<1> DEFINE S == U \ {r}
<1>0. IsFiniteSet(S) /\ F \in [S -> Nat] /\ S \subseteq U
  BY FS_RemoveElement
<1>1. PICK h \in [SUBSET U -> Nat] : Sums(G, h) /\ SumFunction(G) = h[U]
  BY SumIsOne
<1>2. h[U] = G[r] + h[S]
  BY <1>1, SumsTakeOut
<1> HIDE DEF S
<1>3. PICK g \in [SUBSET S -> Nat] : Sums(F, g) /\ SumFunction(F) = g[S]
  BY <1>0, SumIsOne
<1>4. DOMAIN F = S /\ DOMAIN G = U /\ \A o \in S : F[o] = G[o]
  BY <1>0 DEF S
<1>5. g[S] = h[S]
  BY <1>0, <1>1, <1>3, <1>4, SumsAgree
<1>6. G[r] \in Nat /\ g[S] \in Nat
  OBVIOUS
<1> QED
  BY <1>1, <1>2, <1>3, <1>5, <1>6

(* Nothing anywhere sums to nothing. *)
LEMMA SumOfNone ==
  ASSUME NEW S, NEW F \in [S -> Nat], IsFiniteSet(S), \A o \in S : F[o] = 0
  PROVE  SumFunction(F) = 0
<1>1. PICK g \in [SUBSET S -> Nat] : Sums(F, g) /\ SumFunction(F) = g[S]
  BY SumIsOne
<1> DEFINE T == {n \in Nat : \A s \in SUBSET S : Cardinality(s) <= n => g[s] = 0}
<1>2. g[{}] = 0
  BY <1>1 DEF Sums, Body
<1>3. 0 \in T
  BY <1>2, NoneIsEmpty
<1>4. ASSUME NEW n \in T PROVE n + 1 \in T
  <2> n \in Nat
    OBVIOUS
  <2> SUFFICES ASSUME NEW s \in SUBSET S, Cardinality(s) <= n + 1
               PROVE  g[s] = 0
    OBVIOUS
  <2> SUFFICES ASSUME s # {}
               PROVE  g[s] = 0
    BY <1>2
  <2>1. One(s) \in s /\ s \ {One(s)} \in SUBSET S /\ Cardinality(s \ {One(s)}) <= n
    BY Smaller
  <2>2. g[s \ {One(s)}] = 0 /\ F[One(s)] = 0
    BY <2>1
  <2>3. g[s] = F[One(s)] + g[s \ {One(s)}]
    BY <1>1 DEF Body, Sums
  <2> QED
    BY <2>2, <2>3
<1>5. T = Nat
  <2> HIDE DEF T
  <2> T \subseteq Nat
    BY DEF T
  <2> QED
    BY <1>3, <1>4, SetInduction
<1> QED
  BY <1>1, <1>5, FS_CardinalityType

-----------------------------------------------------------------------------
(* Counting in sequences.                                                  *)
Count(s, x) == Cardinality({i \in DOMAIN s : s[i] = x})

(* How often x is in a sequence is a number, and zero where it is not. *)
LEMMA CountType ==
  ASSUME NEW S, NEW s \in Seq(S), NEW x
  PROVE  /\ Count(s, x) \in Nat
         /\ IsFiniteSet({i \in DOMAIN s : s[i] = x})
         /\ Count(s, x) = 0 <=> \A i \in DOMAIN s : s[i] # x
<1>1. Len(s) \in Nat /\ DOMAIN s = 1 .. Len(s)
  OBVIOUS
<1>2. IsFiniteSet(1 .. Len(s))
  BY <1>1, FS_Interval
<1>3. IsFiniteSet({i \in DOMAIN s : s[i] = x})
  BY <1>1, <1>2, FS_Subset
<1> QED
  BY <1>3, FS_CardinalityType, FS_EmptySet DEF Count

(* What two sequences hold together is what each of them holds. *)
LEMMA CountConcat ==
  ASSUME NEW S, NEW s \in Seq(S), NEW t \in Seq(S), NEW x
  PROVE  Count(s \o t, x) = Count(s, x) + Count(t, x)
<1> DEFINE m == Len(s)
           n == Len(t)
           A == {i \in 1 .. m : s[i] = x}
           B == {i \in m + 1 .. m + n : t[i - m] = x}
           C == {i \in 1 .. n : t[i] = x}
           f == [i \in C |-> i + m]
<1>1. m \in Nat /\ n \in Nat /\ DOMAIN s = 1 .. m /\ DOMAIN t = 1 .. n
  OBVIOUS
<1>2. /\ s \o t \in Seq(S) /\ DOMAIN (s \o t) = 1 .. m + n
      /\ \A i \in 1 .. m + n : (s \o t)[i] = IF i <= m THEN s[i] ELSE t[i - m]
  BY ConcatProperties, <1>1
<1> HIDE DEF m, n
<1>3. {i \in DOMAIN (s \o t) : (s \o t)[i] = x} = A \cup B /\ A \cap B = {}
  <2>1. ASSUME NEW i \in DOMAIN (s \o t), (s \o t)[i] = x PROVE i \in A \cup B
    BY <1>1, <1>2, <2>1
  <2>2. ASSUME NEW i \in A PROVE i \in DOMAIN (s \o t) /\ (s \o t)[i] = x
    BY <1>1, <1>2
  <2>3. ASSUME NEW i \in B PROVE i \in DOMAIN (s \o t) /\ (s \o t)[i] = x
    BY <1>1, <1>2
  <2>4. A \cap B = {}
    BY <1>1
  <2> HIDE DEF A, B
  <2> QED
    BY <2>1, <2>2, <2>3, <2>4
<1>4. f \in Bijection(C, B)
  <2>1. f \in [C -> B]
    BY <1>1
  <2>2. IsInjective(f)
    BY <1>1 DEF IsInjective
  <2>3. ASSUME NEW b \in B PROVE \E c \in C : f[c] = b
    <3>1. b - m \in C /\ f[b - m] = b
      BY <1>1
    <3> QED
      BY <3>1
  <2> HIDE DEF f, C, B
  <2> QED
    BY <2>1, <2>2, <2>3 DEF Bijection, Injection, Surjection
<1>5. IsFiniteSet(A) /\ IsFiniteSet(C)
  BY <1>1, FS_Interval, FS_Subset
<1> HIDE DEF f
<1>6. IsFiniteSet(B) /\ Cardinality(B) = Cardinality(C)
  BY <1>4, <1>5, FS_Bijection DEF ExistsBijection
<1> HIDE DEF A, B, C
<1>7. Cardinality(A \cup B) = Cardinality(A) + Cardinality(C)
  <2>1. Cardinality(A \cap B) = 0
    BY <1>3, FS_EmptySet
  <2> QED
    <3>1. Cardinality(A \cup B) = Cardinality(A) + Cardinality(B) - Cardinality(A \cap B)
      BY <1>5, <1>6, FS_Union
    <3>2. Cardinality(A) \in Nat /\ Cardinality(C) \in Nat
      BY <1>5, FS_CardinalityType
    <3> QED
      BY <1>6, <2>1, <3>1, <3>2
<1>8. Count(s, x) = Cardinality(A) /\ Count(t, x) = Cardinality(C)
  BY <1>1 DEF Count, A, C
<1> QED
  BY <1>3, <1>7, <1>8 DEF Count

(* Nothing is in the empty sequence. *)
LEMMA CountEmpty == \A x : Count(<<>>, x) = 0
BY FS_EmptySet DEF Count

(* A sequence of one element holds that. *)
LEMMA CountOne ==
  ASSUME NEW e, NEW x
  PROVE  Count(<<e>>, x) = IF e = x THEN 1 ELSE 0
<1>1. CASE e = x
  <2>1. {i \in DOMAIN <<e>> : <<e>>[i] = x} = {1}
    BY <1>1
  <2> QED
    BY <1>1, <2>1, FS_Singleton DEF Count
<1>2. CASE e # x
  <2>1. {i \in DOMAIN <<e>> : <<e>>[i] = x} = {}
    BY <1>2
  <2> QED
    BY <1>2, <2>1, FS_EmptySet DEF Count
<1> QED
  BY <1>1, <1>2

(* An append adds one to the count of what it appends. *)
LEMMA CountAppend ==
  ASSUME NEW S, NEW s \in Seq(S), NEW e \in S, NEW x
  PROVE  Count(Append(s, e), x) = Count(s, x) + IF e = x THEN 1 ELSE 0
<1>1. Append(s, e) = s \o <<e>> /\ <<e>> \in Seq(S)
  BY AppendIsConcat
<1>2. Count(s \o <<e>>, x) = Count(s, x) + Count(<<e>>, x)
  BY <1>1, CountConcat
<1>3. Count(<<e>>, x) = IF e = x THEN 1 ELSE 0
  BY CountOne
<1> QED
  BY <1>1, <1>2, <1>3

(* Taking the head takes one from the count of what was there. *)
LEMMA CountTail ==
  ASSUME NEW S, NEW s \in Seq(S), NEW x, s # <<>>
  PROVE  Count(s, x) = Count(Tail(s), x) + IF Head(s) = x THEN 1 ELSE 0
<1>1. /\ Head(s) \in S /\ Tail(s) \in Seq(S) /\ <<Head(s)>> \in Seq(S)
      /\ Len(Tail(s)) = Len(s) - 1 /\ Len(s) \in Nat \ {0}
      /\ \A i \in 1 .. Len(Tail(s)) : Tail(s)[i] = s[i + 1]
      /\ Head(s) = s[1]
  BY HeadTailProperties, EmptySeq
<1> DEFINE h == <<Head(s)>>
           t == Tail(s)
<1>2. h \in Seq(S) /\ t \in Seq(S) /\ Len(h) = 1 /\ h[1] = s[1]
  BY <1>1
<1>3. /\ h \o t \in Seq(S) /\ Len(h \o t) = 1 + Len(t)
      /\ \A i \in 1 .. 1 + Len(t) : (h \o t)[i] = IF i <= 1 THEN h[i] ELSE t[i - 1]
  BY <1>2, ConcatProperties
<1>4. ASSUME NEW i \in 1 .. Len(s) PROVE s[i] = (h \o t)[i]
  BY <1>1, <1>2, <1>3
<1> HIDE DEF h, t
<1>5. s = h \o t
  BY <1>1, <1>3, <1>4, SeqEqual DEF t
<1>6. Count(s, x) = Count(h, x) + Count(t, x)
  BY <1>2, <1>5, CountConcat
<1>7. Count(h, x) = IF Head(s) = x THEN 1 ELSE 0
  BY CountOne DEF h
<1>8. Count(t, x) \in Nat
  BY <1>2, CountType
<1> QED
  BY <1>6, <1>7, <1>8 DEF t

-----------------------------------------------------------------------------
(* A sequence over S holds nothing else. *)
LEMMA CountOutside ==
  ASSUME NEW S, NEW s \in Seq(S), NEW x, x \notin S
  PROVE  Count(s, x) = 0
<1>1. \A i \in DOMAIN s : s[i] \in S
  BY LenProperties
<1>2. \A i \in DOMAIN s : s[i] # x
  BY <1>1
<1> QED
  BY <1>2, CountType

-----------------------------------------------------------------------------
(* ReturnPath.                                                             *)
Of(c) == {n \in Numbers : Class[n] = c}

Shared == [incoming : Seq(Numbers), protected : Seq(Numbers), permit : BOOLEAN,
           open : BOOLEAN, terminal : BOOLEAN, present : BOOLEAN, changed : BOOLEAN,
           closing : BOOLEAN]
Reader == [step : {"look", "registered", "asleep", "holding", "over"},
           held : Numbers \cup {0}]
Writer == [step : {"take", "peek", "write", "asleep", "none", "lost"}, look : 0 .. 4,
           batch : Seq(Numbers), ready : Seq(Numbers), tun : BOOLEAN]

(* What the types of the records leave open. *)
ReturnTyped ==
    /\ relayed \in 0 .. Len(Class)
    /\ shared \in [Paths -> Shared]
    /\ driver \in [Paths -> {"running", "failing", "gone"}]
    /\ reader \in [Paths -> Reader]
    /\ returns \in [Classes -> [items : Seq(Numbers), permit : BOOLEAN, active : BOOLEAN]]
    /\ writer \in Writer
    /\ finished \in [Numbers -> Nat]

Bounded ==
    /\ \A p \in Paths : /\ Len(shared[p].incoming) <= IncomingCapacity
                        /\ Len(shared[p].protected) <= ProtectedCapacity
    /\ \A c \in Classes : Len(returns[c].items) <= ReturnCapacity

(* A return queue holds packets of its class only. *)
Sorted == \A c \in Classes : returns[c].items \in Seq(Of(c))

(* Only a reader that has a packet holds one. *)
Holding ==
    \A p \in Paths :
      reader[p].held \in IF reader[p].step = "holding" THEN Numbers ELSE {0}

OnePlace == \A n \in Numbers : Located(n) = (IF n <= relayed THEN 1 ELSE 0)

ReturnInv == ReturnTyped /\ Bounded /\ Sorted /\ Holding /\ OnePlace

(* What packet n counts on a path, and away from the paths. *)
Carried(sh, rd, n) ==
    Count(sh.incoming, n) + Count(sh.protected, n) + (IF rd.held = n THEN 1 ELSE 0)
Away(f, w, r, n) ==
    f[n] + Count(w.batch, n) + Count(w.ready, n) + Count(r[Class[n]].items, n)
OnPaths(sh, rd, n) == SumFunction([p \in Paths |-> Carried(sh[p], rd[p], n)])
Arrived(k, n) == IF n <= k THEN 1 ELSE 0

(* What the assumption says of the packets, their classes and the          *)
(* capacities.                                                             *)
LEMMA ReturnConstants ==
  /\ Len(Class) \in Nat /\ Numbers = 1 .. Len(Class)
  /\ \A n \in Numbers : Class[n] \in Classes /\ n \in Of(Class[n])
  /\ \A c : Of(c) \subseteq Numbers
  /\ IncomingCapacity \in Nat \ {0} /\ ProtectedCapacity \in Nat \ {0}
  /\ ReturnCapacity \in Nat \ {0}
  /\ IsFiniteSet(Paths)
BY ReturnPathAssumption, LenProperties DEF Numbers, Of

(* The places of a packet, as a function of the variables, before a step   *)
(* and after.                                                              *)
LEMMA OnePlaceIs ==
  /\ OnePlace <=> \A n \in Numbers :
       Away(finished, writer, returns, n) + OnPaths(shared, reader, n) = Arrived(relayed, n)
  /\ OnePlace' <=> \A n \in Numbers :
       Away(finished', writer', returns', n) + OnPaths(shared', reader', n)
         = Arrived(relayed', n)
BY DEF OnePlace, Located, Away, OnPaths, Carried, OnPath, Times, Count, Arrived, Numbers

(* What a path holds of a packet is a number. *)
LEMMA CarriedType ==
  ASSUME NEW sh \in Shared, NEW rd, NEW n
  PROVE  /\ Carried(sh, rd, n) \in Nat
         /\ Count(sh.incoming, n) \in Nat /\ Count(sh.protected, n) \in Nat
<1>1. sh.incoming \in Seq(Numbers) /\ sh.protected \in Seq(Numbers)
  BY DEF Shared
<1>2. Count(sh.incoming, n) \in Nat /\ Count(sh.protected, n) \in Nat
  BY <1>1, CountType
<1> QED
  BY <1>2 DEF Carried

(* What is behind the paths of a packet is a number. *)
LEMMA AwayType ==
  ASSUME NEW f \in [Numbers -> Nat], NEW w \in Writer,
         NEW r \in [Classes -> [items : Seq(Numbers), permit : BOOLEAN, active : BOOLEAN]], NEW n \in Numbers
  PROVE  /\ Away(f, w, r, n) \in Nat /\ f[n] <= Away(f, w, r, n)
         /\ f[n] \in Nat
         /\ Count(w.batch, n) \in Nat /\ Count(w.ready, n) \in Nat
         /\ Count(r[Class[n]].items, n) \in Nat
<1>1. /\ w.batch \in Seq(Numbers) /\ w.ready \in Seq(Numbers)
      /\ r[Class[n]].items \in Seq(Numbers)
      /\ f[n] \in Nat
  BY ReturnConstants DEF Writer
<1>2. /\ Count(w.batch, n) \in Nat /\ Count(w.ready, n) \in Nat
      /\ Count(r[Class[n]].items, n) \in Nat
  BY <1>1, CountType
<1> QED
  BY <1>1, <1>2 DEF Away

(* What all paths hold of a packet is a number. *)
LEMMA OnPathsType ==
  ASSUME NEW sh \in [Paths -> Shared], NEW rd \in [Paths -> Reader], NEW n
  PROVE  OnPaths(sh, rd, n) \in Nat
<1> DEFINE F == [q \in Paths |-> Carried(sh[q], rd[q], n)]
<1>1. F \in [Paths -> Nat]
  BY CarriedType
<1> HIDE DEF F
<1>2. SumFunction(F) \in Nat
  BY <1>1, SumType, ReturnConstants
<1> QED
  BY <1>2 DEF OnPaths, F

(* A step of one path changes the sum by what it changes there. *)
LEMMA OnPathsChange ==
  ASSUME NEW n, NEW p \in Paths,
         NEW sh \in [Paths -> Shared], NEW rd \in [Paths -> Reader],
         NEW th \in [Paths -> Shared], NEW td \in [Paths -> Reader],
         \A q \in Paths \ {p} : th[q] = sh[q] /\ td[q] = rd[q]
  PROVE  OnPaths(th, td, n)
           = OnPaths(sh, rd, n) + (Carried(th[p], td[p], n) - Carried(sh[p], rd[p], n))
<1> DEFINE F == [q \in Paths |-> Carried(sh[q], rd[q], n)]
           G == [q \in Paths |-> Carried(th[q], td[q], n)]
<1>1. F \in [Paths -> Nat] /\ G \in [Paths -> Nat]
  BY CarriedType
<1>2. \A q \in Paths \ {p} : G[q] = F[q]
  OBVIOUS
<1>3. F[p] = Carried(sh[p], rd[p], n) /\ G[p] = Carried(th[p], td[p], n)
  OBVIOUS
<1> HIDE DEF F, G
<1> IsFiniteSet(Paths)
  BY ReturnConstants
<1>4. SumFunction(G) = SumFunction(F) + (G[p] - F[p])
  BY <1>1, <1>2, SumChanges
<1>5. OnPaths(sh, rd, n) = SumFunction(F) /\ OnPaths(th, td, n) = SumFunction(G)
  BY DEF OnPaths, F, G
<1> QED
  BY <1>3, <1>4, <1>5

Same(p) == \A q \in Paths \ {p} : shared'[q] = shared[q] /\ reader'[q] = reader[q]

(* A step of one path that balances what it takes and gives. *)
LEMMA PathBalance ==
  ASSUME ReturnTyped, ReturnTyped', OnePlace, NEW p \in Paths, Same(p),
         \A n \in Numbers :
           Away(finished', writer', returns', n) + Carried(shared'[p], reader'[p], n)
             + Arrived(relayed, n)
           = Away(finished, writer, returns, n) + Carried(shared[p], reader[p], n)
             + Arrived(relayed', n)
  PROVE  OnePlace'
<1> SUFFICES ASSUME NEW n \in Numbers
             PROVE  Away(finished', writer', returns', n) + OnPaths(shared', reader', n)
                      = Arrived(relayed', n)
  BY OnePlaceIs
<1> DEFINE a == Away(finished, writer, returns, n)
           b == Away(finished', writer', returns', n)
           c == Carried(shared[p], reader[p], n)
           d == Carried(shared'[p], reader'[p], n)
           u == OnPaths(shared, reader, n)
           v == OnPaths(shared', reader', n)
           k == Arrived(relayed, n)
           l == Arrived(relayed', n)
<1>1. /\ shared \in [Paths -> Shared] /\ reader \in [Paths -> Reader]
      /\ shared' \in [Paths -> Shared] /\ reader' \in [Paths -> Reader]
      /\ finished \in [Numbers -> Nat] /\ finished' \in [Numbers -> Nat]
      /\ writer \in Writer /\ writer' \in Writer
      /\ returns \in [Classes -> [items : Seq(Numbers), permit : BOOLEAN, active : BOOLEAN]]
      /\ returns' \in [Classes -> [items : Seq(Numbers), permit : BOOLEAN, active : BOOLEAN]]
  BY DEF ReturnTyped
<1> \A q \in Paths \ {p} : shared'[q] = shared[q] /\ reader'[q] = reader[q]
  BY DEF Same
<1>2. v = u + (d - c)
  BY <1>1, OnPathsChange
<1>3. a \in Nat /\ b \in Nat
  BY <1>1, AwayType
<1>4. c \in Nat /\ d \in Nat
  BY <1>1, CarriedType
<1>5. u \in Nat
  BY <1>1, OnPathsType
<1>6. a + u = k
  BY OnePlaceIs
<1>7. b + d + k = a + c + l
  OBVIOUS
<1>8. k \in Nat /\ l \in Nat
  BY DEF Arrived
<1> HIDE DEF a, b, c, d, u, v, k, l
<1>9. b + v = l
  BY <1>2, <1>3, <1>4, <1>5, <1>6, <1>7, <1>8
<1> QED
  BY <1>9 DEF b, v, l

(* A step that leaves the paths alone. *)
LEMMA AwayBalance ==
  ASSUME OnePlace, shared' = shared, reader' = reader, relayed' = relayed,
         \A n \in Numbers : Away(finished', writer', returns', n)
                              = Away(finished, writer, returns, n)
  PROVE  OnePlace'
BY OnePlaceIs

(* What a queue that makes room has kept, and what it has dropped. *)
LEMMA ForcedFacts ==
  ASSUME NEW S, NEW s \in Seq(S), NEW n \in S, NEW cap \in Nat \ {0}, Len(s) <= cap
  PROVE  /\ Forced(s, n, cap) \in Seq(S) /\ Len(Forced(s, n, cap)) <= cap
         /\ Evicted(s, cap) \in Seq(S)
         /\ \A x : Count(Forced(s, n, cap), x) + Count(Evicted(s, cap), x)
                     = Count(s, x) + (IF n = x THEN 1 ELSE 0)
<1>1. CASE Len(s) = cap
  <2>1. s # <<>>
    BY <1>1
  <2>2. /\ Head(s) \in S /\ Tail(s) \in Seq(S) /\ Len(Tail(s)) = cap - 1
        /\ <<Head(s)>> \in Seq(S)
    BY <1>1, <2>1, HeadTailProperties
  <2>3. Forced(s, n, cap) = Append(Tail(s), n) /\ Evicted(s, cap) = <<Head(s)>>
    BY <1>1 DEF Forced, Evicted
  <2>4. ASSUME NEW x
        PROVE  Count(Append(Tail(s), n), x) + Count(<<Head(s)>>, x)
                     = Count(s, x) + (IF n = x THEN 1 ELSE 0)
    <3> DEFINE t == Tail(s)
    <3> t \in Seq(S)
      BY <2>2
    <3> HIDE DEF t
    <3>0. Count(Append(t, n), x) = Count(t, x) + (IF n = x THEN 1 ELSE 0)
      BY CountAppend
    <3>1. Count(Append(Tail(s), n), x) = Count(Tail(s), x) + (IF n = x THEN 1 ELSE 0)
      BY <3>0 DEF t
    <3>2. Count(s, x) = Count(Tail(s), x) + (IF Head(s) = x THEN 1 ELSE 0)
      BY <2>1, CountTail
    <3>3. Count(<<Head(s)>>, x) = (IF Head(s) = x THEN 1 ELSE 0)
      BY CountOne
    <3>4. Count(Tail(s), x) \in Nat
      BY <2>2, CountType
    <3> QED
      BY <3>1, <3>2, <3>3, <3>4
  <2>5. Append(Tail(s), n) \in Seq(S) /\ Len(Append(Tail(s), n)) = cap
    BY <2>2, AppendProperties
  <2> QED
    BY <2>2, <2>3, <2>4, <2>5
<1>2. CASE Len(s) # cap
  <2>1. Forced(s, n, cap) = Append(s, n) /\ Evicted(s, cap) = <<>>
    BY <1>2 DEF Forced, Evicted
  <2>2. Append(s, n) \in Seq(S) /\ Len(Append(s, n)) = Len(s) + 1 /\ Len(s) \in Nat
    BY AppendProperties
  <2>3. ASSUME NEW x
        PROVE  Count(Append(s, n), x) + Count(<<>>, x)
                     = Count(s, x) + (IF n = x THEN 1 ELSE 0)
    <3>1. Count(Append(s, n), x) = Count(s, x) + (IF n = x THEN 1 ELSE 0)
      BY CountAppend
    <3>2. Count(s, x) \in Nat
      BY CountType
    <3> QED
      BY <3>1, <3>2, CountEmpty
  <2>4. <<>> \in Seq(S)
    BY EmptySeq
  <2> QED
    BY <1>2, <2>1, <2>2, <2>3, <2>4
<1> QED
  BY <1>1, <1>2

(* The history counts each packet of the list once more. *)
LEMMA FinishesIs ==
  ASSUME NEW ns \in Seq(Numbers)
  PROVE  /\ \A n \in Numbers : Finishes(ns)[n] = finished[n] + Count(ns, n)
         /\ finished \in [Numbers -> Nat] => Finishes(ns) \in [Numbers -> Nat]
<1>1. Finishes(ns) = [n \in Numbers |-> finished[n] + Count(ns, n)]
  BY DEF Finishes, Count
<1>2. \A n \in Numbers : Count(ns, n) \in Nat
  BY CountType
<1> QED
  BY <1>1, <1>2

-----------------------------------------------------------------------------
Returns == [Classes -> [items : Seq(Numbers), permit : BOOLEAN, active : BOOLEAN]]

(* A step that moves no packet. *)
LEMMA QuietStep ==
  ASSUME ReturnInv, ReturnTyped', Holding',
         relayed' = relayed, finished' = finished,
         \A p \in Paths : /\ shared'[p].incoming = shared[p].incoming
                          /\ shared'[p].protected = shared[p].protected
                          /\ reader'[p].held = reader[p].held,
         \A c \in Classes : returns'[c].items = returns[c].items,
         writer'.batch = writer.batch, writer'.ready = writer.ready
  PROVE  ReturnInv'
<1>1. Bounded' /\ Sorted'
  BY DEF ReturnInv, Bounded, Sorted, Of, Numbers
<1>2. ASSUME NEW n \in Numbers
      PROVE  Away(finished', writer', returns', n) = Away(finished, writer, returns, n)
  BY ReturnConstants DEF Away
<1>3. ASSUME NEW n \in Numbers
      PROVE  OnPaths(shared', reader', n) = OnPaths(shared, reader, n)
  <2>1. [p \in Paths |-> Carried(shared'[p], reader'[p], n)]
          = [p \in Paths |-> Carried(shared[p], reader[p], n)]
    BY DEF Carried
  <2> QED
    BY <2>1 DEF OnPaths
<1>4. OnePlace'
  BY <1>2, <1>3, OnePlaceIs DEF ReturnInv
<1> QED
  BY <1>1, <1>4 DEF ReturnInv

(* The types of one path's part of the state. *)
LEMMA PathTypes ==
  ASSUME ReturnTyped, NEW p \in Paths
  PROVE  /\ shared[p] \in Shared /\ reader[p] \in Reader
         /\ shared[p].incoming \in Seq(Numbers) /\ shared[p].protected \in Seq(Numbers)
         /\ driver[p] \in {"running", "failing", "gone"}
BY DEF ReturnTyped, Shared, Reader

(* A path's shared part is replaced, by one that holds the same packets. *)
LEMMA SetSharedStep ==
  ASSUME ReturnInv, NEW p \in Paths, NEW s \in Shared, SetShared(p, s),
         driver' \in [Paths -> {"running", "failing", "gone"}], UNCHANGED reader,
         s.incoming = shared[p].incoming, s.protected = shared[p].protected
  PROVE  ReturnInv'
<1>1. /\ shared' = [shared EXCEPT ![p] = s]
      /\ UNCHANGED <<relayed, returns, writer, finished>>
  BY DEF SetShared
<1>2. ReturnTyped'
  BY <1>1 DEF ReturnInv, ReturnTyped, Returns, Numbers
<1>3. Holding'
  BY DEF ReturnInv, Holding, Numbers
<1>4. ASSUME NEW q \in Paths
      PROVE  /\ shared'[q].incoming = shared[q].incoming
             /\ shared'[q].protected = shared[q].protected
  BY <1>1 DEF ReturnInv, ReturnTyped
<1> QED
  BY <1>1, <1>2, <1>3, <1>4, QuietStep

(* The steps of a driver that move no packet. *)
LEMMA DriverSteps ==
  ASSUME ReturnInv, NEW p \in Paths,
         \/ OwnerClosed(p) \/ SnapshotChanges(p) \/ Fails(p) \/ TerminalPresent(p)
         \/ DriverEnds(p)
  PROVE  ReturnInv'
<1> ReturnTyped
  BY DEF ReturnInv
<1>0. shared[p] \in Shared /\ driver \in [Paths -> {"running", "failing", "gone"}]
  BY PathTypes DEF ReturnTyped
<1>1. ASSUME OwnerClosed(p) PROVE ReturnInv'
  <2>1. Closing(shared[p]) \in Shared
    BY <1>0 DEF Closing, Shared
  <2>2. /\ Closing(shared[p]).incoming = shared[p].incoming
        /\ Closing(shared[p]).protected = shared[p].protected
    BY <1>0 DEF Closing, Shared
  <2> QED
    BY <1>0, <1>1, <2>1, <2>2, SetSharedStep DEF OwnerClosed
<1>2. ASSUME SnapshotChanges(p) PROVE ReturnInv'
  <2> DEFINE s == [shared[p] EXCEPT !.changed = TRUE]
  <2>1. s \in Shared /\ s.incoming = shared[p].incoming /\ s.protected = shared[p].protected
    BY <1>0 DEF Shared
  <2>2. SetShared(p, s) /\ UNCHANGED <<driver, reader>>
    BY <1>2 DEF SnapshotChanges
  <2> HIDE DEF s
  <2> QED
    BY <1>0, <2>1, <2>2, SetSharedStep
<1>3. ASSUME Fails(p) PROVE ReturnInv'
  <2> DEFINE s == [shared[p] EXCEPT !.terminal = TRUE, !.changed = TRUE]
  <2>1. s \in Shared /\ s.incoming = shared[p].incoming /\ s.protected = shared[p].protected
    BY <1>0 DEF Shared
  <2>2. SetShared(p, s) /\ UNCHANGED reader
        /\ driver' \in [Paths -> {"running", "failing", "gone"}]
    BY <1>0, <1>3 DEF Fails
  <2> HIDE DEF s
  <2> QED
    BY <2>1, <2>2, SetSharedStep
<1>4. ASSUME TerminalPresent(p) PROVE ReturnInv'
  <2>1. PICK s \in {Closing(shared[p]), [shared[p] EXCEPT !.open = FALSE]} :
           SetShared(p, [s EXCEPT !.present = TRUE])
    BY <1>4 DEF TerminalPresent
  <2> DEFINE t == [s EXCEPT !.present = TRUE]
  <2>2. s \in Shared /\ s.incoming = shared[p].incoming /\ s.protected = shared[p].protected
    BY <1>0 DEF Shared, Closing
  <2>3. t \in Shared /\ t.incoming = shared[p].incoming /\ t.protected = shared[p].protected
    BY <2>2 DEF Shared
  <2>4. SetShared(p, t) /\ UNCHANGED reader
        /\ driver' \in [Paths -> {"running", "failing", "gone"}]
    BY <1>0, <1>4, <2>1 DEF TerminalPresent
  <2> HIDE DEF t
  <2> QED
    BY <2>3, <2>4, SetSharedStep
<1>5. ASSUME DriverEnds(p) PROVE ReturnInv'
  <2>1. /\ driver' \in [Paths -> {"running", "failing", "gone"}]
        /\ UNCHANGED <<relayed, shared, reader, returns, writer, finished>>
    BY <1>0, <1>5 DEF DriverEnds
  <2>2. ReturnTyped' /\ Holding'
    BY <2>1 DEF ReturnInv, ReturnTyped, Holding, Numbers
  <2> QED
    BY <2>1, <2>2, QuietStep
<1> QED
  BY <1>1, <1>2, <1>3, <1>4, <1>5

(* The reader goes on, and nothing moves. *)
LEMMA SetReaderStep ==
  ASSUME ReturnInv, NEW p \in Paths, NEW s \in {"look", "registered", "asleep"},
         NEW t \in Shared, SetReader(p, s), shared' = [shared EXCEPT ![p] = t],
         t.incoming = shared[p].incoming, t.protected = shared[p].protected,
         reader[p].step # "holding"
  PROVE  ReturnInv'
<1> ReturnTyped
  BY DEF ReturnInv
<1>1. /\ reader' = [reader EXCEPT ![p].step = s]
      /\ UNCHANGED <<relayed, driver, returns, writer, finished>>
  BY DEF SetReader
<1>2. reader[p] \in Reader /\ reader \in [Paths -> Reader]
  BY PathTypes DEF ReturnTyped
<1>3. /\ reader' \in [Paths -> Reader] /\ reader'[p].step = s
      /\ \A q \in Paths : reader'[q].held = reader[q].held
      /\ \A q \in Paths \ {p} : reader'[q] = reader[q]
  BY <1>1, <1>2 DEF Reader
<1>4. ReturnTyped'
  BY <1>1, <1>3 DEF ReturnTyped, Numbers
<1>5. Holding'
  BY <1>3 DEF ReturnInv, Holding, Numbers
<1>6. ASSUME NEW q \in Paths
      PROVE  /\ shared'[q].incoming = shared[q].incoming
             /\ shared'[q].protected = shared[q].protected
  BY DEF ReturnTyped
<1> QED
  BY <1>1, <1>3, <1>4, <1>5, <1>6, QuietStep

-----------------------------------------------------------------------------
(* A step of path p that turns its parts into t and u. *)
LEMMA PathStep ==
  ASSUME ReturnInv, NEW p \in Paths, NEW t \in Shared, NEW u \in Reader,
         shared' = [shared EXCEPT ![p] = t], reader' = [reader EXCEPT ![p] = u],
         UNCHANGED <<driver, writer>>,
         relayed' \in 0 .. Len(Class), finished' \in [Numbers -> Nat], returns' \in Returns,
         \A c \in Classes : /\ Len(returns'[c].items) <= ReturnCapacity
                            /\ returns'[c].items \in Seq(Of(c)),
         Len(t.incoming) <= IncomingCapacity, Len(t.protected) <= ProtectedCapacity,
         u.held \in IF u.step = "holding" THEN Numbers ELSE {0},
         \A n \in Numbers :
           Away(finished', writer, returns', n) + Carried(t, u, n) + Arrived(relayed, n)
           = Away(finished, writer, returns, n) + Carried(shared[p], reader[p], n)
             + Arrived(relayed', n)
  PROVE  ReturnInv'
<1> ReturnTyped
  BY DEF ReturnInv
<1>1. shared \in [Paths -> Shared] /\ reader \in [Paths -> Reader]
  BY DEF ReturnTyped
<1>2. /\ shared' \in [Paths -> Shared] /\ reader' \in [Paths -> Reader]
      /\ shared'[p] = t /\ reader'[p] = u
      /\ \A q \in Paths \ {p} : shared'[q] = shared[q] /\ reader'[q] = reader[q]
  BY <1>1
<1>3. ReturnTyped'
  BY <1>2 DEF ReturnTyped, Returns, Numbers
<1>4. Bounded'
  <2>1. \A q \in Paths : /\ Len(shared'[q].incoming) <= IncomingCapacity
                         /\ Len(shared'[q].protected) <= ProtectedCapacity
    BY <1>2 DEF ReturnInv, Bounded
  <2> QED
    BY <2>1 DEF Bounded
<1>5. Sorted'
  BY DEF Sorted, Of, Numbers
<1>6. Holding'
  BY <1>2 DEF ReturnInv, Holding, Numbers
<1>7. Same(p)
  BY <1>2 DEF Same
<1>8. OnePlace'
  BY <1>2, <1>3, <1>7, PathBalance DEF ReturnInv
<1> QED
  BY <1>3, <1>4, <1>5, <1>6, <1>8 DEF ReturnInv

(* What the invariant says of path p and of the return queues. *)
LEMMA PathFacts ==
  ASSUME ReturnInv, NEW p \in Paths
  PROVE  /\ shared[p] \in Shared /\ reader[p] \in Reader
         /\ shared \in [Paths -> Shared] /\ reader \in [Paths -> Reader]
         /\ shared[p].incoming \in Seq(Numbers) /\ shared[p].protected \in Seq(Numbers)
         /\ Len(shared[p].incoming) <= IncomingCapacity
         /\ Len(shared[p].protected) <= ProtectedCapacity
         /\ reader[p].held \in IF reader[p].step = "holding" THEN Numbers ELSE {0}
         /\ relayed \in 0 .. Len(Class) /\ finished \in [Numbers -> Nat]
         /\ returns \in Returns /\ writer \in Writer
         /\ \A c \in Classes : /\ Len(returns[c].items) <= ReturnCapacity
                               /\ returns[c].items \in Seq(Of(c))
BY DEF ReturnInv, ReturnTyped, Shared, Returns, Bounded, Sorted, Holding

(* What is away from the paths grows by what a step writes or loses. *)
LEMMA AwayFinishes ==
  ASSUME NEW e \in Seq(Numbers), NEW w \in Writer, NEW r \in Returns, NEW m \in Numbers,
         finished \in [Numbers -> Nat]
  PROVE  /\ Away(Finishes(e), w, r, m) = Away(finished, w, r, m) + Count(e, m)
         /\ Away(finished, w, r, m) \in Nat /\ Count(e, m) \in Nat
<1>1. /\ finished[m] \in Nat
      /\ Count(w.batch, m) \in Nat /\ Count(w.ready, m) \in Nat
      /\ Count(r[Class[m]].items, m) \in Nat
      /\ Away(finished, w, r, m) \in Nat
  BY AwayType DEF Returns
<1>2. Count(e, m) \in Nat
  BY CountType
<1>3. Finishes(e)[m] = finished[m] + Count(e, m)
  BY FinishesIs
<1> DEFINE a == finished[m]
           b == Count(w.batch, m)
           c == Count(w.ready, m)
           d == Count(r[Class[m]].items, m)
           x == Count(e, m)
<1>4. a \in Nat /\ b \in Nat /\ c \in Nat /\ d \in Nat /\ x \in Nat
  BY <1>1, <1>2
<1>5. Away(Finishes(e), w, r, m) = (a + x) + b + c + d /\ Away(finished, w, r, m) = a + b + c + d
  BY <1>3 DEF Away
<1> HIDE DEF a, b, c, d, x
<1>6. (a + x) + b + c + d = (a + b + c + d) + x
  BY <1>4
<1> QED
  BY <1>1, <1>2, <1>5, <1>6 DEF x

(* An empty list changes nothing in the history. *)
LEMMA FinishesNothing ==
  ASSUME finished \in [Numbers -> Nat]
  PROVE  Finishes(<<>>) = finished
<1>1. <<>> \in Seq(Numbers)
  BY EmptySeq
<1>2. \A n \in Numbers : Finishes(<<>>)[n] = finished[n]
  <2> TAKE n \in Numbers
  <2>1. finished[n] \in Nat
    OBVIOUS
  <2>2. Finishes(<<>>)[n] = finished[n] + Count(<<>>, n) /\ Count(<<>>, n) = 0
    BY <1>1, FinishesIs, CountEmpty
  <2> QED
    BY <2>1, <2>2
<1>3. Finishes(<<>>) \in [Numbers -> Nat]
  BY <1>1, FinishesIs
<1> QED
  BY <1>2, <1>3

Balanced(p, e, t, u) ==
    \A m \in Numbers :
      Count(e, m) + Carried(t, u, m) + Arrived(relayed, m)
        = Carried(shared[p], reader[p], m) + Arrived(relayed', m)
Fits(t, u) ==
    /\ Len(t.incoming) <= IncomingCapacity /\ Len(t.protected) <= ProtectedCapacity
    /\ u.held \in IF u.step = "holding" THEN Numbers ELSE {0}

(* A step of path p by which the packets of e end. *)
LEMMA PathMoves ==
  ASSUME NEW p \in Paths, NEW e \in Seq(Numbers), NEW t \in Shared, NEW u \in Reader,
         ReturnInv,
         shared' = [shared EXCEPT ![p] = t], reader' = [reader EXCEPT ![p] = u],
         UNCHANGED <<driver, returns, writer>>,
         relayed' \in 0 .. Len(Class), finished' = Finishes(e),
         Fits(t, u), Balanced(p, e, t, u)
  PROVE  ReturnInv'
<1>1. /\ finished \in [Numbers -> Nat] /\ returns \in Returns /\ writer \in Writer
      /\ shared[p] \in Shared
      /\ \A c \in Classes : /\ Len(returns[c].items) <= ReturnCapacity
                            /\ returns[c].items \in Seq(Of(c))
  BY PathFacts
<1>2. finished' \in [Numbers -> Nat]
  BY <1>1, FinishesIs
<1>3. ASSUME NEW m \in Numbers
      PROVE  Away(finished', writer, returns', m) + Carried(t, u, m) + Arrived(relayed, m)
             = Away(finished, writer, returns, m) + Carried(shared[p], reader[p], m)
               + Arrived(relayed', m)
  <2> DEFINE a == Away(finished, writer, returns, m)
             b == Away(finished', writer, returns', m)
             c == Carried(shared[p], reader[p], m)
             d == Carried(t, u, m)
             x == Count(e, m)
             k == Arrived(relayed, m)
             l == Arrived(relayed', m)
  <2>1. b = a + x /\ a \in Nat /\ x \in Nat
    BY <1>1, AwayFinishes
  <2>2. c \in Nat /\ d \in Nat
    BY <1>1, CarriedType
  <2>3. k \in Nat /\ l \in Nat
    BY DEF Arrived
  <2>4. x + d + k = c + l
    BY DEF Balanced
  <2> HIDE DEF a, b, c, d, x, k, l
  <2>5. b + d + k = a + c + l
    BY <2>1, <2>2, <2>3, <2>4
  <2> QED
    BY <2>5 DEF a, b, c, d, k, l
<1>4. /\ Len(t.incoming) <= IncomingCapacity /\ Len(t.protected) <= ProtectedCapacity
      /\ u.held \in IF u.step = "holding" THEN Numbers ELSE {0}
  BY DEF Fits
<1> QED
  BY <1>1, <1>2, <1>3, <1>4, PathStep

(* A packet that the relay sends is the next number, and arrives with it. *)
LEMMA ReceivesFacts ==
  ASSUME ReturnInv, NEW p \in Paths, NEW n \in Numbers, Receives(p, n)
  PROVE  /\ relayed' \in 0 .. Len(Class)
         /\ UNCHANGED <<driver, reader, returns, writer>>
         /\ reader' = [reader EXCEPT ![p] = reader[p]]
         /\ \A m \in Numbers :
              Arrived(relayed', m) = Arrived(relayed, m) + (IF n = m THEN 1 ELSE 0)
<1>1. /\ n = relayed + 1 /\ relayed' = n /\ relayed < Len(Class)
      /\ UNCHANGED <<driver, reader, returns, writer>>
  BY DEF Receives
<1>2. Len(Class) \in Nat /\ Numbers = 1 .. Len(Class) /\ relayed \in 0 .. Len(Class)
  BY ReturnConstants, PathFacts
<1>3. reader \in [Paths -> Reader]
  BY PathFacts
<1> QED
  BY <1>1, <1>2, <1>3 DEF Arrived

(* A packet that ends where it arrives. *)
LEMMA DropStep ==
  ASSUME ReturnInv, NEW p \in Paths, NEW n \in Numbers, Receives(p, n), Drops(n)
  PROVE  ReturnInv'
<1>1. shared' = shared /\ finished' = Finishes(<<n>>)
  BY DEF Drops
<1>2. /\ relayed' \in 0 .. Len(Class) /\ UNCHANGED <<driver, reader, returns, writer>>
      /\ reader' = [reader EXCEPT ![p] = reader[p]]
      /\ \A m \in Numbers :
            Arrived(relayed', m) = Arrived(relayed, m) + (IF n = m THEN 1 ELSE 0)
  BY ReceivesFacts
<1>3. /\ shared[p] \in Shared /\ reader[p] \in Reader /\ shared \in [Paths -> Shared]
      /\ Len(shared[p].incoming) <= IncomingCapacity
      /\ Len(shared[p].protected) <= ProtectedCapacity
      /\ reader[p].held \in IF reader[p].step = "holding" THEN Numbers ELSE {0}
  BY PathFacts
<1>4. shared' = [shared EXCEPT ![p] = shared[p]] /\ <<n>> \in Seq(Numbers)
  BY <1>1, <1>3
<1>5. ASSUME NEW m \in Numbers
      PROVE  Count(<<n>>, m) + Carried(shared[p], reader[p], m) + Arrived(relayed, m)
             = Carried(shared[p], reader[p], m) + Arrived(relayed', m)
  <2>1. Count(<<n>>, m) = IF n = m THEN 1 ELSE 0
    BY CountOne
  <2>2. Carried(shared[p], reader[p], m) \in Nat /\ Arrived(relayed, m) \in Nat
    BY <1>3, CarriedType DEF Arrived
  <2>3. Arrived(relayed', m) = Arrived(relayed, m) + (IF n = m THEN 1 ELSE 0)
    BY <1>2
  <2> QED
    BY <2>1, <2>2, <2>3
<1>6. Balanced(p, <<n>>, shared[p], reader[p]) /\ Fits(shared[p], reader[p])
  BY <1>3, <1>5 DEF Balanced, Fits
<1> QED
  BY <1>1, <1>2, <1>3, <1>4, <1>6, PathMoves

(* A packet that is put with those of the path. *)
LEMMA RelaySteps ==
  ASSUME ReturnInv, NEW p \in Paths, Relays(p)
  PROVE  ReturnInv'
<1>0. PICK n \in Numbers :
        PoolDeficit(p, n) \/ TryIncoming(p, n) \/ StashProtected(p, n) \/ QueueFullDrop(p, n)
  BY DEF Relays
<1>1. CASE PoolDeficit(p, n)
  BY <1>1, DropStep DEF PoolDeficit
<1>2. CASE QueueFullDrop(p, n)
  BY <1>2, DropStep DEF QueueFullDrop, Full
<1>3. /\ shared[p] \in Shared /\ reader[p] \in Reader /\ finished \in [Numbers -> Nat]
      /\ shared[p].incoming \in Seq(Numbers) /\ shared[p].protected \in Seq(Numbers)
      /\ Len(shared[p].incoming) <= IncomingCapacity
      /\ Len(shared[p].protected) <= ProtectedCapacity
      /\ reader[p].held \in IF reader[p].step = "holding" THEN Numbers ELSE {0}
  BY PathFacts
<1>6. ProtectedCapacity \in Nat \ {0} /\ IncomingCapacity \in Nat
  BY ReturnConstants
<1>4. CASE TryIncoming(p, n)
  <2> DEFINE s == shared[p].incoming
             t == [shared[p] EXCEPT !.incoming = Append(s, n)]
  <2>1. /\ Receives(p, n) /\ finished' = finished
        /\ shared' = [shared EXCEPT ![p] = t]
        /\ Len(s) < IncomingCapacity
    BY <1>4 DEF TryIncoming
  <2>2. Append(s, n) \in Seq(Numbers) /\ Len(Append(s, n)) = Len(s) + 1
    BY <1>3, AppendProperties
  <2>3. Len(Append(s, n)) <= IncomingCapacity
    <3>1. Len(s) \in Nat
      BY <1>3
    <3> HIDE DEF s
    <3> QED
      BY <3>1, <2>1, <2>2, <1>6
  <2>4. t \in Shared /\ t.incoming = Append(s, n) /\ t.protected = shared[p].protected
    BY <1>3, <2>2 DEF Shared
  <2>5. s \in Seq(Numbers)
    BY <1>3
  <2>6. s = shared[p].incoming
    OBVIOUS
  <2> HIDE DEF t, s
  <2>7. finished' = Finishes(<<>>) /\ <<>> \in Seq(Numbers)
    BY <1>3, <2>1, FinishesNothing, EmptySeq
  <2>8. ASSUME NEW m \in Numbers
        PROVE  Count(<<>>, m) + Carried(t, reader[p], m) + Arrived(relayed, m)
               = Carried(shared[p], reader[p], m) + Arrived(relayed', m)
    <3> DEFINE a == Count(s, m)
               b == Count(shared[p].protected, m)
               c == IF reader[p].held = m THEN 1 ELSE 0
               x == IF n = m THEN 1 ELSE 0
               k == Arrived(relayed, m)
    <3>1. Count(t.incoming, m) = a + x
      BY <2>4, <2>5, CountAppend
    <3>2. a \in Nat /\ b \in Nat /\ c \in Nat /\ x \in Nat /\ k \in Nat
      BY <1>3, <2>5, CountType DEF Arrived
    <3>3. Carried(t, reader[p], m) = (a + x) + b + c /\ Carried(shared[p], reader[p], m) = a + b + c
      BY <2>4, <2>6, <3>1 DEF Carried
    <3>4. Arrived(relayed', m) = k + x
      BY <2>1, ReceivesFacts
    <3>5. Count(<<>>, m) = 0
      BY CountEmpty
    <3> HIDE DEF a, b, c, x, k
    <3>6. 0 + ((a + x) + b + c) + k = (a + b + c) + (k + x)
      BY <3>2
    <3> QED
      BY <3>3, <3>4, <3>5, <3>6 DEF k
  <2>9. /\ relayed' \in 0 .. Len(Class) /\ UNCHANGED <<driver, reader, returns, writer>>
        /\ reader' = [reader EXCEPT ![p] = reader[p]]
    BY <2>1, ReceivesFacts
  <2>10. Fits(t, reader[p]) /\ Balanced(p, <<>>, t, reader[p])
    BY <1>3, <2>3, <2>4, <2>8 DEF Fits, Balanced
  <2> QED
    BY <1>3, <2>1, <2>4, <2>7, <2>9, <2>10, PathMoves
<1>5. CASE StashProtected(p, n)
  <2> DEFINE s == shared[p].protected
             q == Forced(s, n, ProtectedCapacity)
             e == Evicted(s, ProtectedCapacity)
             t == [shared[p] EXCEPT !.protected = q, !.permit = TRUE]
  <2>1. /\ Receives(p, n) /\ finished' = Finishes(e)
        /\ shared' = [shared EXCEPT ![p] = t]
    BY <1>5 DEF StashProtected, Full
  <2>2. /\ q \in Seq(Numbers) /\ Len(q) <= ProtectedCapacity /\ e \in Seq(Numbers)
        /\ \A m : Count(q, m) + Count(e, m)
                    = Count(s, m) + (IF n = m THEN 1 ELSE 0)
    <3>1. s \in Seq(Numbers) /\ Len(s) <= ProtectedCapacity
      BY <1>3
    <3> HIDE DEF s
    <3> QED
      BY <1>6, <3>1, ForcedFacts
  <2> HIDE DEF q, e
  <2>3. /\ t \in Shared /\ t.incoming = shared[p].incoming /\ t.protected = q
    BY <1>3, <2>2 DEF Shared
  <2>4. s = shared[p].protected
    OBVIOUS
  <2> HIDE DEF t, s
  <2>8. ASSUME NEW m \in Numbers
        PROVE  Count(e, m) + Carried(t, reader[p], m) + Arrived(relayed, m)
               = Carried(shared[p], reader[p], m) + Arrived(relayed', m)
    <3> DEFINE a == Count(shared[p].incoming, m)
               b == Count(s, m)
               c == IF reader[p].held = m THEN 1 ELSE 0
               d == Count(q, m)
               f == Count(e, m)
               x == IF n = m THEN 1 ELSE 0
               k == Arrived(relayed, m)
    <3>1. d + f = b + x
      BY <2>2
    <3>2. a \in Nat /\ b \in Nat /\ c \in Nat /\ x \in Nat /\ k \in Nat /\ d \in Nat /\ f \in Nat
      BY <1>3, <2>2, <2>4, CountType DEF Arrived
    <3>3. Carried(t, reader[p], m) = a + d + c /\ Carried(shared[p], reader[p], m) = a + b + c
      BY <2>3, <2>4 DEF Carried
    <3>4. Arrived(relayed', m) = k + x
      BY <2>1, ReceivesFacts
    <3> HIDE DEF a, b, c, d, f, x, k
    <3>6. f + (a + d + c) + k = (a + b + c) + (k + x)
      BY <3>1, <3>2
    <3> QED
      BY <3>3, <3>4, <3>6 DEF k, f
  <2>9. /\ relayed' \in 0 .. Len(Class) /\ UNCHANGED <<driver, reader, returns, writer>>
        /\ reader' = [reader EXCEPT ![p] = reader[p]]
    BY <2>1, ReceivesFacts
  <2>10. Fits(t, reader[p]) /\ Balanced(p, e, t, reader[p])
    BY <1>3, <2>2, <2>3, <2>8 DEF Fits, Balanced
  <2> QED
    BY <1>3, <2>1, <2>2, <2>3, <2>9, <2>10, PathMoves
<1> QED
  BY <1>0, <1>1, <1>2, <1>4, <1>5

-----------------------------------------------------------------------------
NotHolding(p) == reader[p].step # "holding" /\ reader[p].held = 0

(* A reader that is not pushing holds no packet. *)
LEMMA NotHoldingIs ==
  ASSUME ReturnInv, NEW p \in Paths, reader[p].step # "holding"
  PROVE  NotHolding(p) /\ 0 \notin Numbers
<1>1. reader[p].held \in IF reader[p].step = "holding" THEN Numbers ELSE {0}
  BY PathFacts
<1>2. 0 \notin Numbers
  <2>1. Numbers = 1 .. Len(Class)
    BY ReturnConstants
  <2> QED
    BY <2>1
<1> QED
  BY <1>1, <1>2 DEF NotHolding

(* The reader ends, and what its path has queued is gone with it. *)
LEMMA ReaderEndsStep ==
  ASSUME ReturnInv, NEW p \in Paths, reader[p].step # "holding", ReaderEnds(p)
  PROVE  ReturnInv'
<1> DEFINE s == shared[p].incoming
           q == shared[p].protected
           e == s \o q
           t == [shared[p] EXCEPT !.incoming = <<>>, !.protected = <<>>]
           u == [reader[p] EXCEPT !.step = "over"]
<1>1. /\ shared[p] \in Shared /\ reader[p] \in Reader
      /\ s \in Seq(Numbers) /\ q \in Seq(Numbers) /\ relayed \in 0 .. Len(Class)
  BY PathFacts
<1>2. NotHolding(p) /\ 0 \notin Numbers
  BY NotHoldingIs
<1>3. <<>> \in Seq(Numbers) /\ Len(<<>>) = 0
  BY EmptySeq
<1>4. /\ t \in Shared /\ t.incoming = <<>> /\ t.protected = <<>>
      /\ u \in Reader /\ u.held = 0 /\ u.step = "over"
  BY <1>1, <1>2, <1>3 DEF Shared, Reader, NotHolding
<1>5. /\ shared' = [shared EXCEPT ![p] = t] /\ reader' = [reader EXCEPT ![p] = u]
      /\ UNCHANGED <<driver, returns, writer>> /\ relayed' \in 0 .. Len(Class)
      /\ finished' = Finishes(e)
  BY <1>1 DEF ReaderEnds
<1>6. e \in Seq(Numbers)
  BY <1>1, ConcatProperties
<1>7. Fits(t, u)
  BY <1>3, <1>4, ReturnConstants DEF Fits
<1>8. ASSUME NEW m \in Numbers
      PROVE  Count(e, m) + Carried(t, u, m) + Arrived(relayed, m)
               = Carried(shared[p], reader[p], m) + Arrived(relayed', m)
  <2> DEFINE a == Count(s, m)
             b == Count(q, m)
             k == Arrived(relayed, m)
  <2>1. Count(e, m) = a + b /\ a \in Nat /\ b \in Nat
    <3>1. s \in Seq(Numbers) /\ q \in Seq(Numbers)
      BY <1>1
    <3> HIDE DEF s, q
    <3>2. Count(s \o q, m) = Count(s, m) + Count(q, m)
      BY <3>1, CountConcat
    <3>3. Count(s, m) \in Nat /\ Count(q, m) \in Nat
      BY <3>1, CountType
    <3> QED
      BY <3>2, <3>3
  <2>2. Carried(t, u, m) = 0 + 0 + 0
    BY <1>2, <1>4, CountEmpty DEF Carried
  <2>3. Carried(shared[p], reader[p], m) = a + b + 0
    BY <1>2 DEF Carried, NotHolding
  <2>4. Arrived(relayed', m) = k /\ k \in Nat
    BY DEF ReaderEnds, Arrived
  <2> HIDE DEF a, b, k
  <2>5. (a + b) + (0 + 0 + 0) + k = (a + b + 0) + k
    BY <2>1, <2>4
  <2> QED
    BY <2>1, <2>2, <2>3, <2>4, <2>5 DEF k
<1> HIDE DEF t, u, e, s, q
<1>9. Balanced(p, e, t, u)
  BY <1>8 DEF Balanced
<1> QED
  BY <1>4, <1>5, <1>6, <1>7, <1>9, PathMoves

(* The reader takes a packet from one of its queues. *)
LEMMA TakeStep ==
  ASSUME ReturnInv, NEW p \in Paths, reader[p].step # "holding",
         \/ PopProtected(p)
         \/ TakesIncoming(p)
  PROVE  ReturnInv'
<1>1. /\ shared[p] \in Shared /\ reader[p] \in Reader /\ finished \in [Numbers -> Nat]
      /\ shared[p].incoming \in Seq(Numbers) /\ shared[p].protected \in Seq(Numbers)
      /\ relayed \in 0 .. Len(Class)
      /\ Len(shared[p].incoming) <= IncomingCapacity
      /\ Len(shared[p].protected) <= ProtectedCapacity
  BY PathFacts
<1>2. NotHolding(p) /\ 0 \notin Numbers
  BY NotHoldingIs
<1>3. IncomingCapacity \in Nat /\ ProtectedCapacity \in Nat
  BY ReturnConstants
<1>4. finished = Finishes(<<>>) /\ <<>> \in Seq(Numbers)
  BY <1>1, FinishesNothing, EmptySeq
<1>5. CASE PopProtected(p)
  <2> DEFINE q == shared[p].protected
             t == [shared[p] EXCEPT !.protected = Tail(q)]
             u == [step |-> "holding", held |-> Head(q)]
  <2>1. q # <<>> /\ q \in Seq(Numbers) /\ Len(q) <= ProtectedCapacity
    BY <1>1, <1>5 DEF PopProtected
  <2>2. /\ Head(q) \in Numbers /\ Tail(q) \in Seq(Numbers)
        /\ Len(Tail(q)) = Len(q) - 1 /\ Len(q) \in Nat
        /\ \A m : Count(q, m) = Count(Tail(q), m) + (IF Head(q) = m THEN 1 ELSE 0)
    <3> HIDE DEF q
    <3> QED
      BY <2>1, HeadTailProperties, CountTail
  <2>3. Len(Tail(q)) <= ProtectedCapacity
    <3> HIDE DEF q
    <3> QED
      BY <1>3, <2>1, <2>2
  <2>4. /\ t \in Shared /\ t.incoming = shared[p].incoming /\ t.protected = Tail(q)
        /\ u \in Reader /\ u.held = Head(q) /\ u.step = "holding"
    BY <1>1, <2>2 DEF Shared, Reader
  <2>5. /\ shared' = [shared EXCEPT ![p] = t] /\ reader' = [reader EXCEPT ![p] = u]
        /\ UNCHANGED <<driver, returns, writer>> /\ relayed' = relayed /\ finished' = finished
    BY <1>5 DEF PopProtected
  <2>6. Fits(t, u)
    BY <1>1, <2>2, <2>3, <2>4 DEF Fits
  <2> HIDE DEF t, u
  <2>7. ASSUME NEW m \in Numbers
        PROVE  Count(<<>>, m) + Carried(t, u, m) + Arrived(relayed, m)
                 = Carried(shared[p], reader[p], m) + Arrived(relayed', m)
    <3> DEFINE a == Count(shared[p].incoming, m)
               b == Count(Tail(q), m)
               x == IF Head(q) = m THEN 1 ELSE 0
               k == Arrived(relayed, m)
    <3>1. Carried(t, u, m) = a + b + x
      BY <2>4 DEF Carried
    <3>2. Carried(shared[p], reader[p], m) = a + (b + x) + 0
      BY <1>2, <2>2 DEF Carried, NotHolding
    <3>3. a \in Nat /\ b \in Nat /\ x \in Nat /\ k \in Nat
      <4>1. a \in Nat
        BY <1>1, CountType
      <4>2. b \in Nat
        BY <2>2, CountType
      <4> QED
        BY <4>1, <4>2 DEF Arrived
    <3>4. Count(<<>>, m) = 0
      BY CountEmpty
    <3> HIDE DEF a, b, x, k
    <3>5. 0 + (a + b + x) + k = (a + (b + x) + 0) + k
      BY <3>3
    <3> QED
      BY <2>5, <3>1, <3>2, <3>4, <3>5 DEF k
  <2>8. Balanced(p, <<>>, t, u)
    BY <2>7 DEF Balanced
  <2> QED
    BY <1>1, <1>4, <2>4, <2>5, <2>6, <2>8, PathMoves
<1>6. CASE TakesIncoming(p)
  <2> DEFINE q == shared[p].incoming
             t == [shared[p] EXCEPT !.incoming = Tail(q)]
             u == [step |-> "holding", held |-> Head(q)]
  <2>1. q # <<>> /\ q \in Seq(Numbers) /\ Len(q) <= IncomingCapacity
    BY <1>1, <1>6 DEF TakesIncoming
  <2>2. /\ Head(q) \in Numbers /\ Tail(q) \in Seq(Numbers)
        /\ Len(Tail(q)) = Len(q) - 1 /\ Len(q) \in Nat
        /\ \A m : Count(q, m) = Count(Tail(q), m) + (IF Head(q) = m THEN 1 ELSE 0)
    <3> HIDE DEF q
    <3> QED
      BY <2>1, HeadTailProperties, CountTail
  <2>3. Len(Tail(q)) <= IncomingCapacity
    <3> HIDE DEF q
    <3> QED
      BY <1>3, <2>1, <2>2
  <2>4. /\ t \in Shared /\ t.protected = shared[p].protected /\ t.incoming = Tail(q)
        /\ u \in Reader /\ u.held = Head(q) /\ u.step = "holding"
    BY <1>1, <2>2 DEF Shared, Reader
  <2>5. /\ shared' = [shared EXCEPT ![p] = t] /\ reader' = [reader EXCEPT ![p] = u]
        /\ UNCHANGED <<driver, returns, writer>> /\ relayed' = relayed /\ finished' = finished
    BY <1>6 DEF TakesIncoming
  <2>6. Fits(t, u)
    BY <1>1, <2>2, <2>3, <2>4 DEF Fits
  <2> HIDE DEF t, u
  <2>7. ASSUME NEW m \in Numbers
        PROVE  Count(<<>>, m) + Carried(t, u, m) + Arrived(relayed, m)
                 = Carried(shared[p], reader[p], m) + Arrived(relayed', m)
    <3> DEFINE a == Count(shared[p].protected, m)
               b == Count(Tail(q), m)
               x == IF Head(q) = m THEN 1 ELSE 0
               k == Arrived(relayed, m)
    <3>1. Carried(t, u, m) = b + a + x
      BY <2>4 DEF Carried
    <3>2. Carried(shared[p], reader[p], m) = (b + x) + a + 0
      BY <1>2, <2>2 DEF Carried, NotHolding
    <3>3. a \in Nat /\ b \in Nat /\ x \in Nat /\ k \in Nat
      <4>1. a \in Nat
        BY <1>1, CountType
      <4>2. b \in Nat
        BY <2>2, CountType
      <4> QED
        BY <4>1, <4>2 DEF Arrived
    <3>4. Count(<<>>, m) = 0
      BY CountEmpty
    <3> HIDE DEF a, b, x, k
    <3>5. 0 + (b + a + x) + k = ((b + x) + a + 0) + k
      BY <3>3
    <3> QED
      BY <2>5, <3>1, <3>2, <3>4, <3>5 DEF k
  <2>8. Balanced(p, <<>>, t, u)
    BY <2>7 DEF Balanced
  <2> QED
    BY <1>1, <1>4, <2>4, <2>5, <2>6, <2>8, PathMoves
<1> QED
  BY <1>5, <1>6

(* A held packet that the client consumes, and one that is refused. *)
LEMMA ConsumesStep ==
  ASSUME ReturnInv, NEW p \in Paths, Consumes(p)
  PROVE  ReturnInv'
<1> DEFINE n == reader[p].held
<1>1. /\ shared[p] \in Shared /\ shared \in [Paths -> Shared]
      /\ relayed \in 0 .. Len(Class) /\ n \in Numbers
      /\ Len(shared[p].incoming) <= IncomingCapacity
      /\ Len(shared[p].protected) <= ProtectedCapacity
  BY PathFacts DEF Consumes
<1>2. 0 \notin Numbers
  <2>1. Numbers = 1 .. Len(Class)
    BY ReturnConstants
  <2> QED
    BY <2>1
<1>3. Idle \in Reader /\ Idle.held = 0 /\ Idle.step = "look"
  BY DEF Idle, Reader
<1>4. /\ shared' = [shared EXCEPT ![p] = shared[p]] /\ reader' = [reader EXCEPT ![p] = Idle]
      /\ UNCHANGED <<driver, returns, writer>> /\ relayed' = relayed
      /\ finished' = Finishes(<<n>>)
  BY <1>1 DEF Consumes
<1>5. n = reader[p].held
  OBVIOUS
<1> HIDE DEF n
<1>6. <<n>> \in Seq(Numbers)
  BY <1>1
<1>7. ASSUME NEW m \in Numbers
      PROVE  Count(<<n>>, m) + Carried(shared[p], Idle, m) + Arrived(relayed, m)
               = Carried(shared[p], reader[p], m) + Arrived(relayed', m)
  <2> DEFINE a == Count(shared[p].incoming, m)
             b == Count(shared[p].protected, m)
             x == IF n = m THEN 1 ELSE 0
             k == Arrived(relayed, m)
  <2>1. Carried(shared[p], Idle, m) = a + b + 0
    BY <1>2, <1>3 DEF Carried
  <2>2. Carried(shared[p], reader[p], m) = a + b + x
    BY <1>5 DEF Carried
  <2>3. a \in Nat /\ b \in Nat /\ x \in Nat /\ k \in Nat
    BY <1>1, CarriedType DEF Arrived
  <2>4. Count(<<n>>, m) = x
    BY CountOne
  <2> HIDE DEF a, b, x, k
  <2>5. x + (a + b + 0) + k = (a + b + x) + k
    BY <2>3
  <2> QED
    BY <1>4, <2>1, <2>2, <2>4, <2>5 DEF k
<1>8. Balanced(p, <<n>>, shared[p], Idle) /\ Fits(shared[p], Idle)
  BY <1>1, <1>3, <1>7 DEF Balanced, Fits
<1> QED
  BY <1>1, <1>3, <1>4, <1>6, <1>8, PathMoves

-----------------------------------------------------------------------------
(* What a packet counts away from the paths, its queue apart. *)
LEMMA AwayParts ==
  ASSUME NEW f \in [Numbers -> Nat], NEW w \in Writer, NEW r \in Returns, NEW m \in Numbers
  PROVE  /\ f[m] \in Nat /\ Count(w.batch, m) \in Nat /\ Count(w.ready, m) \in Nat
         /\ Count(r[Class[m]].items, m) \in Nat /\ Away(f, w, r, m) \in Nat
         /\ Away(f, w, r, m)
              = f[m] + Count(w.batch, m) + Count(w.ready, m) + Count(r[Class[m]].items, m)
BY AwayType DEF Away, Returns

(* The packet goes into the queue of its class. *)
LEMMA ReturnPacketStep ==
  ASSUME ReturnInv, NEW p \in Paths, ReturnPacket(p)
  PROVE  ReturnInv'
<1> DEFINE n == reader[p].held
           c == Class[n]
           s == returns[c].items
           q == Forced(s, n, ReturnCapacity)
           e == Evicted(s, ReturnCapacity)
<1>1. /\ shared[p] \in Shared /\ shared \in [Paths -> Shared] /\ finished \in [Numbers -> Nat]
      /\ relayed \in 0 .. Len(Class) /\ n \in Numbers
      /\ returns \in Returns /\ writer \in Writer
      /\ Len(shared[p].incoming) <= IncomingCapacity
      /\ Len(shared[p].protected) <= ProtectedCapacity
      /\ \A d \in Classes : /\ Len(returns[d].items) <= ReturnCapacity
                            /\ returns[d].items \in Seq(Of(d))
  BY PathFacts DEF ReturnPacket
<1>2. 0 \notin Numbers
  <2>1. Numbers = 1 .. Len(Class)
    BY ReturnConstants
  <2> QED
    BY <2>1
<1>3. Idle \in Reader /\ Idle.held = 0 /\ Idle.step = "look"
  BY DEF Idle, Reader
<1>4. c \in Classes /\ n \in Of(c) /\ ReturnCapacity \in Nat \ {0} /\ Of(c) \subseteq Numbers
  BY <1>1, ReturnConstants
<1>5. s \in Seq(Of(c)) /\ Len(s) <= ReturnCapacity
  BY <1>1, <1>4
<1>6. /\ shared' = [shared EXCEPT ![p] = shared[p]] /\ reader' = [reader EXCEPT ![p] = Idle]
      /\ UNCHANGED <<driver, writer>> /\ relayed' = relayed /\ finished' = Finishes(e)
      /\ returns' = [returns EXCEPT ![c].items = q, ![c].permit = TRUE]
  BY <1>1 DEF ReturnPacket
<1>7. n = reader[p].held /\ c = Class[n] /\ s = returns[c].items
  OBVIOUS
<1> HIDE DEF n, c, s
<1>8. /\ q \in Seq(Of(c)) /\ Len(q) <= ReturnCapacity /\ e \in Seq(Of(c))
      /\ \A x : Count(q, x) + Count(e, x) = Count(s, x) + (IF n = x THEN 1 ELSE 0)
  BY <1>4, <1>5, ForcedFacts
<1> HIDE DEF q, e
<1>9. q \in Seq(Numbers) /\ e \in Seq(Numbers)
  BY <1>4, <1>8
<1>10. /\ returns' \in Returns /\ returns'[c].items = q
       /\ \A d \in Classes \ {c} : returns'[d] = returns[d]
  BY <1>1, <1>4, <1>6, <1>9 DEF Returns
<1>11. \A d \in Classes : /\ Len(returns'[d].items) <= ReturnCapacity
                          /\ returns'[d].items \in Seq(Of(d))
  BY <1>1, <1>8, <1>10
<1>12. finished' \in [Numbers -> Nat]
  BY <1>1, <1>6, <1>9, FinishesIs
<1>13. ASSUME NEW m \in Numbers
       PROVE  Away(finished', writer, returns', m) + Carried(shared[p], Idle, m)
                + Arrived(relayed, m)
              = Away(finished, writer, returns, m) + Carried(shared[p], reader[p], m)
                + Arrived(relayed', m)
  <2> DEFINE a == Count(shared[p].incoming, m)
             b == Count(shared[p].protected, m)
             x == IF n = m THEN 1 ELSE 0
             k == Arrived(relayed, m)
             f == finished[m]
             g == Count(writer.batch, m)
             h == Count(writer.ready, m)
             u == Count(returns[Class[m]].items, m)
             v == Count(returns'[Class[m]].items, m)
             y == Count(e, m)
  <2>1. Carried(shared[p], Idle, m) = a + b + 0
    BY <1>2, <1>3 DEF Carried
  <2>2. Carried(shared[p], reader[p], m) = a + b + x
    BY <1>7 DEF Carried
  <2>3. a \in Nat /\ b \in Nat /\ x \in Nat /\ k \in Nat
    BY <1>1, CarriedType DEF Arrived
  <2>4. /\ f \in Nat /\ g \in Nat /\ h \in Nat /\ u \in Nat
        /\ Away(finished, writer, returns, m) = f + g + h + u
    BY <1>1, AwayParts
  <2>5. /\ v \in Nat
        /\ Away(finished', writer, returns', m) = finished'[m] + g + h + v
    BY <1>1, <1>10, <1>12, AwayParts
  <2>6. finished'[m] = f + y /\ y \in Nat
    <3>1. finished'[m] = f + y
      BY <1>6, <1>9, FinishesIs
    <3>2. y \in Nat
      BY <1>9, CountType
    <3> QED
      BY <3>1, <3>2
  <2>7. v + y = u + x
    <3>1. CASE Class[m] = c
      BY <1>7, <1>8, <1>10, <3>1
    <3>2. CASE Class[m] # c
      <4>1. m \notin Of(c) /\ n # m
        BY <1>7, <3>2 DEF Of
      <4>2. y = 0
        BY <1>8, <4>1, CountOutside
      <4>3. u = v
        <5>1. Class[m] \in Classes
          BY ReturnConstants
        <5> QED
          BY <1>10, <3>2, <5>1
      <4>4. x = 0
        BY <4>1
      <4> HIDE DEF u, v, x, y
      <4> QED
        BY <2>4, <2>5, <4>2, <4>3, <4>4
    <3> QED
      BY <3>1, <3>2
  <2>8. Arrived(relayed', m) = k
    BY <1>6
  <2> HIDE DEF a, b, x, k, f, g, h, u, v, y
  <2>9. ((f + y) + g + h + v) + (a + b + 0) + k = (f + g + h + u) + (a + b + x) + k
    BY <2>3, <2>4, <2>5, <2>6, <2>7
  <2> QED
    BY <2>1, <2>2, <2>4, <2>5, <2>6, <2>8, <2>9 DEF k
<1> QED
  BY <1>1, <1>3, <1>6, <1>10, <1>11, <1>12, <1>13, PathStep

(* Each step of the reader of a path keeps the invariant. *)
LEMMA ReadSteps ==
  ASSUME ReturnInv, NEW p \in Paths, Reads(p) \/ Cancelled(p)
  PROVE  ReturnInv'
<1>1. shared[p] \in Shared /\ shared \in [Paths -> Shared]
  BY PathFacts
<1>2. ASSUME NEW s \in {"registered", "asleep"}, NoneProtected(p, s), reader[p].step # "holding"
      PROVE  ReturnInv'
  <2>1. SetReader(p, s) /\ shared' = [shared EXCEPT ![p] = shared[p]]
    BY <1>1, <1>2 DEF NoneProtected
  <2> QED
    BY <1>1, <1>2, <2>1, SetReaderStep
<1>3. CASE Looks(p)
  <2>1. reader[p].step # "holding"
    BY <1>3 DEF Looks
  <2>2. ReaderEnds(p) \/ PopProtected(p) \/ NoneProtected(p, "registered")
    BY <1>3 DEF Looks
  <2> QED
    BY <1>2, <2>1, <2>2, ReaderEndsStep, TakeStep
<1>4. CASE LooksAgain(p)
  <2>1. reader[p].step # "holding" /\ (PopProtected(p) \/ NoneProtected(p, "asleep"))
    BY <1>4 DEF LooksAgain
  <2> QED
    BY <1>2, <2>1, TakeStep
<1>5. CASE WokenByProtected(p)
  <2> DEFINE t == [shared[p] EXCEPT !.permit = FALSE]
  <2>1. /\ t \in Shared /\ t.incoming = shared[p].incoming /\ t.protected = shared[p].protected
        /\ shared' = [shared EXCEPT ![p] = t] /\ SetReader(p, "look")
        /\ reader[p].step # "holding"
    BY <1>1, <1>5 DEF Shared, WokenByProtected
  <2> HIDE DEF t
  <2> QED
    BY <2>1, SetReaderStep
<1>6. CASE WokenByState(p)
  <2> DEFINE t == [shared[p] EXCEPT !.changed = FALSE]
  <2>1. /\ t \in Shared /\ t.incoming = shared[p].incoming /\ t.protected = shared[p].protected
        /\ shared' = [shared EXCEPT ![p] = t] /\ SetReader(p, "look")
        /\ reader[p].step # "holding"
    BY <1>1, <1>6 DEF Shared, WokenByState
  <2> HIDE DEF t
  <2> QED
    BY <2>1, SetReaderStep
<1>7. CASE TakesIncoming(p)
  BY <1>7, TakeStep DEF TakesIncoming
<1>8. CASE AllocationClosed(p) \/ Cancelled(p)
  BY <1>8, ReaderEndsStep DEF AllocationClosed, Cancelled
<1>9. CASE Consumes(p) \/ ReturnPaused(p) \/ ReturnPacket(p)
  BY <1>9, ConsumesStep, ReturnPacketStep DEF ReturnPaused
<1> QED
  BY <1>3, <1>4, <1>5, <1>6, <1>7, <1>8, <1>9 DEF Reads

-----------------------------------------------------------------------------
Queues(r) ==
    /\ r \in Returns
    /\ \A c \in Classes : Len(r[c].items) <= ReturnCapacity /\ r[c].items \in Seq(Of(c))

(* What the writer takes it has, until the device has it. *)
LEMMA WriterStep ==
  ASSUME ReturnInv, UNCHANGED <<relayed, shared, driver, reader>>,
         writer' \in Writer, finished' \in [Numbers -> Nat], Queues(returns'),
         \A m \in Numbers : Away(finished', writer', returns', m)
                              = Away(finished, writer, returns, m)
  PROVE  ReturnInv'
<1>1. ReturnTyped'
  BY DEF ReturnInv, ReturnTyped, Queues, Returns, Numbers
<1>2. Bounded'
  BY DEF ReturnInv, Bounded, Queues
<1>3. Sorted'
  BY DEF Sorted, Queues, Of, Numbers
<1>4. Holding'
  BY DEF ReturnInv, Holding, Numbers
<1>5. OnePlace'
  BY AwayBalance DEF ReturnInv
<1> QED
  BY <1>1, <1>2, <1>3, <1>4, <1>5 DEF ReturnInv

(* The writer to the device and the return queues are typed. *)
LEMMA WriterFacts ==
  ASSUME ReturnInv
  PROVE  /\ writer \in Writer /\ finished \in [Numbers -> Nat] /\ Queues(returns)
         /\ returns \in Returns
         /\ writer.batch \in Seq(Numbers) /\ writer.ready \in Seq(Numbers)
         /\ \A c \in Classes : returns[c].items \in Seq(Of(c))
BY DEF ReturnInv, ReturnTyped, Bounded, Sorted, Queues, Returns, Writer

(* The fields of a writer. *)
LEMMA WriterIs ==
  ASSUME NEW w \in Writer
  PROVE  /\ w.step \in {"take", "peek", "write", "asleep", "none", "lost"} /\ w.look \in 0 .. 4
         /\ w.batch \in Seq(Numbers) /\ w.ready \in Seq(Numbers)
         /\ DOMAIN w = {"step", "look", "batch", "ready", "tun"}
         /\ w = [d \in {"step", "look", "batch", "ready", "tun"} |-> w[d]]
BY DEF Writer

IsWriter(w, b, r) == w \in Writer /\ w.batch = b /\ w.ready = r

(* An update of one field of the writer keeps its type. *)
LEMMA Rewritten ==
  ASSUME NEW w \in Writer, NEW s \in {"take", "peek", "write", "asleep", "none", "lost"}, NEW k \in 0 .. 4,
         NEW b \in Seq(Numbers), NEW r \in Seq(Numbers)
  PROVE  /\ IsWriter([w EXCEPT !.look = k], w.batch, w.ready)
         /\ IsWriter([w EXCEPT !.step = s], w.batch, w.ready)
         /\ IsWriter([w EXCEPT !.batch = b], b, w.ready)
         /\ IsWriter([w EXCEPT !.ready = r], w.batch, r)
<1>1. IsWriter([w EXCEPT !.look = k], w.batch, w.ready)
  BY DEF Writer, IsWriter
<1>2. IsWriter([w EXCEPT !.step = s], w.batch, w.ready)
  BY DEF Writer, IsWriter
<1>3. IsWriter([w EXCEPT !.batch = b], b, w.ready)
  BY DEF Writer, IsWriter
<1>4. IsWriter([w EXCEPT !.ready = r], w.batch, r)
  BY DEF Writer, IsWriter
<1> QED
  BY <1>1, <1>2, <1>3, <1>4

(* So do the updates that the actions make together. *)
LEMMA Rewritten2 ==
  ASSUME NEW w \in Writer, NEW s \in {"take", "peek", "write", "asleep", "none", "lost"}, NEW k \in 0 .. 4,
         NEW b \in Seq(Numbers), NEW r \in Seq(Numbers)
  PROVE  /\ IsWriter([w EXCEPT !.batch = b, !.look = k, !.step = s], b, w.ready)
         /\ IsWriter([w EXCEPT !.ready = r, !.look = k, !.step = s], w.batch, r)
         /\ IsWriter([w EXCEPT !.batch = b, !.step = s], b, w.ready)
<1> DEFINE w1 == [w EXCEPT !.batch = b]
           w2 == [w1 EXCEPT !.look = k]
           w3 == [w2 EXCEPT !.step = s]
           v1 == [w EXCEPT !.ready = r]
           v2 == [v1 EXCEPT !.look = k]
           v3 == [v2 EXCEPT !.step = s]
           u2 == [w1 EXCEPT !.step = s]
<1>0. w.batch \in Seq(Numbers) /\ w.ready \in Seq(Numbers)
  BY WriterIs
<1>1. IsWriter(w1, b, w.ready) /\ IsWriter(v1, w.batch, r)
  BY Rewritten
<1>2. IsWriter(w2, b, w.ready) /\ IsWriter(v2, w.batch, r) /\ IsWriter(u2, b, w.ready)
  <2>1. w1 \in Writer /\ w1.batch = b /\ w1.ready = w.ready
        /\ v1 \in Writer /\ v1.batch = w.batch /\ v1.ready = r
    BY <1>1 DEF IsWriter
  <2> HIDE DEF w1, v1
  <2> QED
    BY <1>0, <2>1, Rewritten
<1>3. IsWriter(w3, b, w.ready) /\ IsWriter(v3, w.batch, r)
  <2>1. w2 \in Writer /\ w2.batch = b /\ w2.ready = w.ready
        /\ v2 \in Writer /\ v2.batch = w.batch /\ v2.ready = r
    BY <1>2 DEF IsWriter
  <2> HIDE DEF w2, v2
  <2> QED
    BY <1>0, <2>1, Rewritten
<1> QED
  BY <1>2, <1>3, Zenon

Gathers(w, n, m) ==
    /\ w.batch \in Seq(Numbers) /\ w.ready \in Seq(Numbers)
    /\ Gathered(w, n) \in Writer
    /\ Count(Gathered(w, n).batch, m) + Count(Gathered(w, n).ready, m)
         = Count(w.batch, m) + Count(w.ready, m) + (IF n = m THEN 1 ELSE 0)

(* A packet that is gathered goes to the batch or to the ready packets. *)
LEMMA GatheredIs ==
  ASSUME NEW m, NEW w \in Writer, NEW n \in Numbers
  PROVE  Gathers(w, n, m)
<1> DEFINE b == w.batch
           r == w.ready
           x == IF n = m THEN 1 ELSE 0
           g == Gathered(w, n)
<1>1. b \in Seq(Numbers) /\ r \in Seq(Numbers) /\ w.look \in 0 .. 4
      /\ w.step \in {"take", "peek", "write", "asleep", "none", "lost"}
  BY DEF Writer
<1>2. Count(b, m) \in Nat /\ Count(r, m) \in Nat /\ x \in Nat
  <2> HIDE DEF b, r
  <2> QED
    BY <1>1, CountType
<1>3. CASE w.batch = <<>> \/ Class[n] = Class[w.batch[1]]
  <2>1. Append(b, n) \in Seq(Numbers) /\ Count(Append(b, n), m) = Count(b, m) + x
    <3>1. b \in Seq(Numbers)
      BY <1>1
    <3> HIDE DEF b
    <3>2. Append(b, n) \in Seq(Numbers)
      BY <3>1, AppendProperties
    <3>3. Count(Append(b, n), m) = Count(b, m) + IF n = m THEN 1 ELSE 0
      BY <3>1, CountAppend
    <3> QED
      BY <3>2, <3>3
  <2>2. /\ g \in Writer /\ g.batch = Append(b, n) /\ g.ready = r
    <3> DEFINE a == Append(b, n)
               k == IF Complete(w, a) THEN "write" ELSE "peek"
    <3>1. g = [w EXCEPT !.batch = a, !.look = 0, !.step = k]
      BY <1>3 DEF Gathered
    <3>2. 0 \in 0 .. 4 /\ k \in {"take", "peek", "write", "asleep", "none", "lost"} /\ a \in Seq(Numbers)
      BY <2>1
    <3>3. r = w.ready
      OBVIOUS
    <3> HIDE DEF a, k, g, r
    <3>4. IsWriter(g, a, w.ready)
      BY <1>1, <3>1, <3>2, Rewritten2
    <3> QED
      BY <3>3, <3>4 DEF IsWriter, a
  <2> HIDE DEF b, r, x, g
  <2>3. Count(g.batch, m) + Count(g.ready, m) = Count(b, m) + Count(r, m) + x
    BY <1>2, <2>1, <2>2
  <2> QED
    BY <1>1, <2>2, <2>3 DEF Gathers, b, r, x, g
<1>4. CASE ~(w.batch = <<>> \/ Class[n] = Class[w.batch[1]])
  <2>1. /\ <<n>> \o r \in Seq(Numbers)
        /\ Count(<<n>> \o r, m) = Count(<<n>>, m) + Count(r, m)
    <3>1. r \in Seq(Numbers) /\ <<n>> \in Seq(Numbers)
      BY <1>1
    <3> DEFINE o == <<n>>
    <3>2. o \in Seq(Numbers)
      BY <3>1
    <3> HIDE DEF r, o
    <3>3. o \o r \in Seq(Numbers) /\ Count(o \o r, m) = Count(o, m) + Count(r, m)
      BY <3>1, <3>2, ConcatProperties, CountConcat
    <3> QED
      BY <3>3 DEF o
  <2>2. Count(<<n>>, m) = x
    BY CountOne, Zenon
  <2>3. /\ g \in Writer /\ g.batch = b /\ g.ready = <<n>> \o r
    <3> DEFINE a == <<n>> \o r
    <3>1. g = [w EXCEPT !.ready = a, !.look = 0, !.step = "write"]
      BY <1>4 DEF Gathered
    <3>2. 0 \in 0 .. 4 /\ a \in Seq(Numbers)
      BY <2>1
    <3>3. b = w.batch
      OBVIOUS
    <3> HIDE DEF a, g, b
    <3>4. IsWriter(g, w.batch, a)
      BY <1>1, <3>1, <3>2, Rewritten2
    <3> QED
      BY <3>3, <3>4 DEF IsWriter, a
  <2> HIDE DEF b, r, x, g
  <2>4. Count(g.batch, m) + Count(g.ready, m) = Count(b, m) + Count(r, m) + x
    BY <1>2, <2>1, <2>2, <2>3
  <2> QED
    BY <1>1, <2>3, <2>4 DEF Gathers, b, r, x, g
<1> QED
  BY <1>3, <1>4

(* The writer looks, and moves nothing. *)
LEMMA IdleWriterStep ==
  ASSUME ReturnInv, UNCHANGED <<relayed, shared, driver, reader, finished>>,
         writer' \in Writer, writer'.batch = writer.batch, writer'.ready = writer.ready,
         returns' \in Returns, \A c \in Classes : returns'[c].items = returns[c].items
  PROVE  ReturnInv'
<1>1. /\ finished \in [Numbers -> Nat] /\ Queues(returns)
  BY WriterFacts
<1>2. Queues(returns')
  BY <1>1 DEF Queues
<1>3. \A m \in Numbers : Away(finished', writer', returns', m)
                           = Away(finished, writer, returns, m)
  BY ReturnConstants DEF Away
<1> QED
  BY <1>1, <1>2, <1>3, WriterStep

(* A packet out of the reorder buffer moves into the batch. *)
LEMMA PopReadyStep ==
  ASSUME ReturnInv, PopReady
  PROVE  ReturnInv'
<1>1. /\ writer \in Writer /\ finished \in [Numbers -> Nat] /\ Queues(returns)
      /\ returns \in Returns
      /\ writer.batch \in Seq(Numbers) /\ writer.ready \in Seq(Numbers)
  BY WriterFacts
<1>2. UNCHANGED <<relayed, shared, driver, reader, finished, returns>>
  BY DEF PopReady, SetWriter
<1>3. CASE writer.ready = <<>>
  <2>1. writer' = [writer EXCEPT !.look = 1]
    BY <1>3, Zenon DEF PopReady, SetWriter
  <2>2. /\ writer' \in Writer /\ writer'.batch = writer.batch /\ writer'.ready = writer.ready
    <3>1. 1 \in 0 .. 4 /\ "take" \in {"take", "peek", "write", "asleep", "none", "lost"}
      OBVIOUS
    <3>2. IsWriter([writer EXCEPT !.look = 1], writer.batch, writer.ready)
      BY <1>1, <3>1, Rewritten
    <3> QED
      BY <2>1, <3>2 DEF IsWriter
  <2> QED
    BY <1>1, <1>2, <2>2, IdleWriterStep
<1>4. CASE writer.ready # <<>>
  <2> DEFINE r == writer.ready
             w == [writer EXCEPT !.ready = Tail(r)]
             n == Head(r)
  <2>1. writer' = Gathered(w, n)
    BY <1>4 DEF PopReady, SetWriter
  <2>2. /\ n \in Numbers /\ Tail(r) \in Seq(Numbers)
        /\ \A m : Count(r, m) = Count(Tail(r), m) + (IF n = m THEN 1 ELSE 0)
    <3>1. r \in Seq(Numbers) /\ r # <<>>
      BY <1>1, <1>4
    <3> HIDE DEF r
    <3> QED
      BY <3>1, HeadTailProperties, CountTail
  <2>3. w \in Writer /\ w.batch = writer.batch /\ w.ready = Tail(r)
    BY <1>1, <2>2 DEF Writer
  <2>4. r = writer.ready
    OBVIOUS
  <2> HIDE DEF w, n, r
  <2>5. \A m : Gathers(w, n, m)
    BY <2>2, <2>3, GatheredIs
  <2>6. writer' \in Writer
    BY <2>1, <2>5 DEF Gathers
  <2>7. ASSUME NEW m \in Numbers
        PROVE  Away(finished', writer', returns', m) = Away(finished, writer, returns, m)
    <3> DEFINE f == finished[m]
               b == Count(writer.batch, m)
               t == Count(Tail(r), m)
               x == IF n = m THEN 1 ELSE 0
               u == Count(returns[Class[m]].items, m)
               c == Count(writer'.batch, m)
               d == Count(writer'.ready, m)
    <3>1. /\ f \in Nat /\ b \in Nat /\ u \in Nat
          /\ Away(finished, writer, returns, m) = f + b + Count(r, m) + u
      BY <1>1, <2>4, AwayParts
    <3>2. /\ c \in Nat /\ d \in Nat
          /\ Away(finished', writer', returns', m) = f + c + d + u
      BY <1>1, <1>2, <2>6, AwayParts
    <3>3. Count(r, m) = t + x /\ t \in Nat /\ x \in Nat
      BY <2>2, CountType
    <3>4. c + d = b + t + x
      BY <2>1, <2>3, <2>5 DEF Gathers
    <3> HIDE DEF f, b, t, x, u, c, d
    <3>5. f + c + d + u = f + b + (t + x) + u
      BY <3>1, <3>2, <3>3, <3>4
    <3> QED
      BY <3>1, <3>2, <3>3, <3>5
  <2> QED
    BY <1>1, <1>2, <2>6, <2>7, WriterStep
<1> QED
  BY <1>3, <1>4

(* A packet out of a return queue moves to the writer. *)
LEMMA NextReturnPacketStep ==
  ASSUME ReturnInv, NEW c \in Classes, NextReturnPacket(c)
  PROVE  ReturnInv'
<1>1. /\ writer \in Writer /\ finished \in [Numbers -> Nat] /\ Queues(returns)
      /\ returns \in Returns /\ returns[c].items \in Seq(Of(c)) /\ Of(c) \subseteq Numbers
      /\ Len(returns[c].items) <= ReturnCapacity /\ ReturnCapacity \in Nat
  BY WriterFacts, ReturnConstants DEF Queues
<1>2. UNCHANGED <<relayed, shared, driver, reader, finished>>
  BY DEF NextReturnPacket, SetWriter
<1>3. CASE returns[c].items = <<>>
  <2>1. writer' = [writer EXCEPT !.look = c + 1] /\ returns' = returns
    BY <1>3 DEF NextReturnPacket, SetWriter
  <2>2. c + 1 \in 0 .. 4
    BY DEF Classes
  <2>3. /\ writer' \in Writer /\ writer'.batch = writer.batch /\ writer'.ready = writer.ready
    BY <1>1, <2>1, <2>2 DEF Writer
  <2> QED
    BY <1>1, <1>2, <2>1, <2>3, IdleWriterStep
<1>4. CASE returns[c].items # <<>>
  <2> DEFINE q == returns[c].items
             n == Head(q)
  <2>1. /\ writer' = Gathered(writer, n)
        /\ returns' = [returns EXCEPT ![c].items = Tail(q)]
    BY <1>4 DEF NextReturnPacket, SetWriter
  <2>2. /\ n \in Of(c) /\ Tail(q) \in Seq(Of(c)) /\ Len(Tail(q)) = Len(q) - 1
        /\ Len(q) \in Nat
        /\ \A m : Count(q, m) = Count(Tail(q), m) + (IF n = m THEN 1 ELSE 0)
    <3>1. q \in Seq(Of(c)) /\ q # <<>>
      BY <1>1, <1>4
    <3> HIDE DEF q
    <3> QED
      BY <3>1, HeadTailProperties, CountTail
  <2>3. Len(Tail(q)) <= ReturnCapacity
    <3>1. Len(q) <= ReturnCapacity /\ ReturnCapacity \in Nat
      BY <1>1
    <3> HIDE DEF q
    <3> QED
      BY <2>2, <3>1
  <2>4. n \in Numbers /\ Class[n] = c
    BY <2>2 DEF Of
  <2>5. Tail(q) \in Seq(Numbers)
    <3>1. Tail(q) \in Seq(Of(c))
      BY <2>2
    <3> DEFINE t == Tail(q)
    <3>2. t \in Seq(Of(c))
      BY <3>1
    <3> HIDE DEF t
    <3>3. t \in Seq(Numbers)
      BY <1>1, <3>2
    <3> QED
      BY <3>3 DEF t
  <2>6. /\ returns' \in Returns /\ returns'[c].items = Tail(q)
        /\ \A d \in Classes \ {c} : returns'[d] = returns[d]
    BY <1>1, <2>1, <2>5 DEF Returns
  <2>7. Queues(returns')
    BY <1>1, <2>2, <2>3, <2>6 DEF Queues
  <2>8. q = returns[c].items
    OBVIOUS
  <2> HIDE DEF n, q
  <2>9. \A m : Gathers(writer, n, m)
    BY <1>1, <2>4, GatheredIs
  <2>10. writer' \in Writer
    BY <2>1, <2>9 DEF Gathers
  <2>11. ASSUME NEW m \in Numbers
         PROVE  Away(finished', writer', returns', m) = Away(finished, writer, returns, m)
    <3> DEFINE f == finished[m]
               b == Count(writer.batch, m)
               r == Count(writer.ready, m)
               x == IF n = m THEN 1 ELSE 0
               u == Count(returns[Class[m]].items, m)
               v == Count(returns'[Class[m]].items, m)
               k == Count(writer'.batch, m)
               d == Count(writer'.ready, m)
    <3>1. /\ f \in Nat /\ b \in Nat /\ r \in Nat /\ u \in Nat
          /\ Away(finished, writer, returns, m) = f + b + r + u
      BY <1>1, AwayParts
    <3>2. /\ k \in Nat /\ d \in Nat /\ v \in Nat
          /\ Away(finished', writer', returns', m) = f + k + d + v
      BY <1>1, <1>2, <2>6, <2>10, AwayParts
    <3>3. x \in Nat
      OBVIOUS
    <3>4. k + d = b + r + x
      BY <2>1, <2>9 DEF Gathers
    <3>5. u = v + x
      <4>1. CASE Class[m] = c
        BY <2>2, <2>6, <2>8, <4>1
      <4>2. CASE Class[m] # c
        <5>1. x = 0
          BY <2>4, <4>2
        <5>2. Class[m] \in Classes
          BY ReturnConstants
        <5>3. u = v
          BY <2>6, <4>2, <5>2
        <5> HIDE DEF u, v, x
        <5> QED
          BY <3>1, <3>2, <5>1, <5>3
      <4> QED
        BY <4>1, <4>2
    <3> HIDE DEF f, b, r, x, u, v, k, d
    <3>6. f + k + d + v = f + b + r + u
      BY <3>1, <3>2, <3>3, <3>4, <3>5
    <3> QED
      BY <3>1, <3>2, <3>6
  <2> QED
    BY <1>1, <1>2, <2>7, <2>10, <2>11, WriterStep
<1> QED
  BY <1>3, <1>4

(* A writer that starts has no packet. *)
LEMMA NewWriterIs ==
  ASSUME NEW tun \in BOOLEAN,
         NEW s \in {"take", "peek", "write", "asleep", "none", "lost"}
  PROVE  IsWriter([NewWriter(tun) EXCEPT !.step = s], <<>>, <<>>)
<1>1. <<>> \in Seq(Numbers)
  BY EmptySeq
<1> DEFINE w == NewWriter(tun)
<1>2. w \in Writer /\ w.batch = <<>> /\ w.ready = <<>>
  BY <1>1 DEF NewWriter, Writer
<1> HIDE DEF w
<1>3. IsWriter([w EXCEPT !.step = s], w.batch, w.ready)
  <2>1. 0 \in 0 .. 4
    OBVIOUS
  <2> QED
    BY <1>1, <1>2, <2>1, Rewritten
<1>4. IsWriter([w EXCEPT !.step = s], <<>>, <<>>)
  BY <1>2, <1>3, Zenon DEF IsWriter
<1> QED
  BY <1>4, Zenon DEF w

(* The device takes the batch, or is lost and what the writer had ends. *)
LEMMA EndsStep ==
  ASSUME ReturnInv, WriteBatch \/ LosesDevice
  PROVE  ReturnInv'
<1>1. /\ writer \in Writer /\ finished \in [Numbers -> Nat] /\ Queues(returns)
      /\ returns \in Returns
      /\ writer.batch \in Seq(Numbers) /\ writer.ready \in Seq(Numbers)
  BY WriterFacts
<1>2. UNCHANGED <<relayed, shared, driver, reader, returns>>
  BY DEF WriteBatch, LosesDevice, SetWriter
<1>3. <<>> \in Seq(Numbers) /\ \A m : Count(<<>>, m) = 0
  BY EmptySeq, CountEmpty
<1>4. PICK e \in Seq(Numbers) :
        /\ finished' = Finishes(e)
        /\ writer' \in Writer
        /\ \A m \in Numbers : Count(e, m) + Count(writer'.batch, m) + Count(writer'.ready, m)
                                = Count(writer.batch, m) + Count(writer.ready, m)
  <2>1. CASE WriteBatch
    <3>1. /\ finished' = Finishes(writer.batch)
          /\ writer' = [writer EXCEPT !.batch = <<>>, !.step = "take"]
      BY <2>1 DEF WriteBatch, SetWriter
    <3>2. writer' \in Writer /\ writer'.batch = <<>> /\ writer'.ready = writer.ready
      BY <1>1, <1>3, <3>1 DEF Writer
    <3>3. ASSUME NEW m \in Numbers
          PROVE  Count(writer.batch, m) + Count(writer'.batch, m) + Count(writer'.ready, m)
                   = Count(writer.batch, m) + Count(writer.ready, m)
      <4>1. Count(writer.batch, m) \in Nat /\ Count(writer.ready, m) \in Nat
        BY <1>1, CountType
      <4>2. Count(writer'.batch, m) = 0 /\ Count(writer'.ready, m) = Count(writer.ready, m)
        BY <1>3, <3>2
      <4> QED
        BY <4>1, <4>2
    <3> QED
      BY <1>1, <3>1, <3>2, <3>3
  <2>2. CASE LosesDevice
    <3>1. /\ finished' = Finishes(writer.batch \o writer.ready)
          /\ writer' = [NewWriter(TRUE) EXCEPT !.step = "lost"]
      BY <2>2 DEF LosesDevice, SetWriter
    <3>2. writer' \in Writer /\ writer'.batch = <<>> /\ writer'.ready = <<>>
      BY <3>1, NewWriterIs DEF IsWriter
    <3>3. writer.batch \o writer.ready \in Seq(Numbers)
      BY <1>1, ConcatProperties
    <3>4. ASSUME NEW m \in Numbers
          PROVE  Count(writer.batch \o writer.ready, m) + Count(writer'.batch, m)
                   + Count(writer'.ready, m)
                   = Count(writer.batch, m) + Count(writer.ready, m)
      <4>1. Count(writer.batch, m) \in Nat /\ Count(writer.ready, m) \in Nat
        BY <1>1, CountType
      <4>2. Count(writer'.batch, m) = 0 /\ Count(writer'.ready, m) = 0
        BY <1>3, <3>2
      <4>3. Count(writer.batch \o writer.ready, m)
              = Count(writer.batch, m) + Count(writer.ready, m)
        BY <1>1, CountConcat
      <4> QED
        BY <4>1, <4>2, <4>3
    <3> QED
      BY <3>1, <3>2, <3>3, <3>4
  <2> QED
    BY <2>1, <2>2
<1>5. finished' \in [Numbers -> Nat]
  BY <1>1, <1>4, FinishesIs
<1>6. ASSUME NEW m \in Numbers
      PROVE  Away(finished', writer', returns', m) = Away(finished, writer, returns, m)
  <2> DEFINE f == finished[m]
             b == Count(writer.batch, m)
             r == Count(writer.ready, m)
             u == Count(returns[Class[m]].items, m)
             k == Count(writer'.batch, m)
             d == Count(writer'.ready, m)
             x == Count(e, m)
  <2>1. /\ f \in Nat /\ b \in Nat /\ r \in Nat /\ u \in Nat
        /\ Away(finished, writer, returns, m) = f + b + r + u
    BY <1>1, AwayParts
  <2>2. /\ k \in Nat /\ d \in Nat
        /\ Away(finished', writer', returns', m) = finished'[m] + k + d + u
    BY <1>1, <1>2, <1>4, <1>5, AwayParts
  <2>3. finished'[m] = f + x
    BY <1>4, FinishesIs
  <2>4. x \in Nat
    BY CountType
  <2>5. x + k + d = b + r
    BY <1>4
  <2> HIDE DEF f, b, r, u, k, d, x
  <2>6. (f + x) + k + d + u = f + b + r + u
    BY <2>1, <2>2, <2>4, <2>5
  <2> QED
    BY <2>1, <2>2, <2>3, <2>6
<1> QED
  BY <1>1, <1>2, <1>4, <1>5, <1>6, WriterStep

-----------------------------------------------------------------------------
(* A new descriptor changes the writer's step only. *)
LEMMA AttachesKeeps ==
  ASSUME ReturnInv, Attaches
  PROVE  /\ writer' \in Writer /\ writer'.batch = writer.batch /\ writer'.ready = writer.ready
         /\ writer'.tun = writer.tun
         /\ UNCHANGED <<relayed, shared, driver, reader>>
<1>1. PICK step \in {"take", "lost", "none"} : SetWriter([writer EXCEPT !.step = step])
  BY DEF Attaches
<1>2. writer \in Writer
  BY WriterFacts
<1> QED
  BY <1>1, <1>2 DEF SetWriter, Writer

(* The queues keep what has come while the device was lost. *)
LEMMA DeviceReplacedStep ==
  ASSUME ReturnInv, DeviceReplaced
  PROVE  ReturnInv'
<1>1. returns \in Returns
  BY WriterFacts
<1>2. Attaches /\ UNCHANGED <<returns, finished>>
  BY DEF DeviceReplaced
<1> QED
  BY <1>1, <1>2, AttachesKeeps, IdleWriterStep

(* The first descriptor ends what is in the queues. *)
LEMMA ResumesStep ==
  ASSUME ReturnInv, Resumes
  PROVE  ReturnInv'
<1> DEFINE a == returns[1].items
           b == returns[2].items
           c == returns[3].items
           e == a \o b \o c
<1>1. /\ writer \in Writer /\ finished \in [Numbers -> Nat] /\ Queues(returns)
      /\ returns \in Returns
  BY WriterFacts
<1>2. /\ writer' \in Writer /\ writer'.batch = writer.batch /\ writer'.ready = writer.ready
      /\ UNCHANGED <<relayed, shared, driver, reader>>
  BY AttachesKeeps DEF Resumes
<1>3. /\ finished' = Finishes(e)
      /\ returns' = [d \in Classes |-> [returns[d] EXCEPT !.items = <<>>, !.active = TRUE]]
  BY DEF Resumes
<1>4. /\ a \in Seq(Of(1)) /\ b \in Seq(Of(2)) /\ c \in Seq(Of(3))
  BY <1>1 DEF Queues, Classes
<1>5. /\ a \in Seq(Numbers) /\ b \in Seq(Numbers) /\ c \in Seq(Numbers)
  BY <1>1 DEF Returns, Classes
<1>6. <<>> \in Seq(Numbers) /\ \A S : <<>> \in Seq(S)
  BY EmptySeq
<1>7. \A x : Count(<<>>, x) = 0
  BY CountEmpty
<1>8. a = returns[1].items /\ b = returns[2].items /\ c = returns[3].items
  OBVIOUS
<1> HIDE DEF a, b, c
<1>9. a \o b \in Seq(Numbers)
  BY <1>5, ConcatProperties
<1>10. e \in Seq(Numbers)
  BY <1>5, <1>9, ConcatProperties
<1>11. \A x : Count(e, x) = Count(a, x) + Count(b, x) + Count(c, x)
  <2> SUFFICES ASSUME NEW x PROVE Count(e, x) = Count(a, x) + Count(b, x) + Count(c, x)
    OBVIOUS
  <2>1. Count(a \o b, x) = Count(a, x) + Count(b, x)
    BY <1>5, CountConcat
  <2>2. Count(e, x) = Count(a \o b, x) + Count(c, x)
    BY <1>5, <1>9, CountConcat
  <2> QED
    BY <2>1, <2>2
<1> HIDE DEF e
<1>12. /\ returns' \in Returns
       /\ \A d \in Classes : returns'[d].items = <<>>
  BY <1>1, <1>3, <1>6 DEF Returns
<1>13. Queues(returns')
  <2>1. Len(<<>>) <= ReturnCapacity
    BY ReturnConstants
  <2> QED
    BY <1>6, <1>12, <2>1 DEF Queues
<1>14. finished' \in [Numbers -> Nat]
  BY <1>1, <1>3, <1>10, FinishesIs
<1>15. ASSUME NEW m \in Numbers
       PROVE  Away(finished', writer', returns', m) = Away(finished, writer, returns, m)
  <2> DEFINE f == finished[m]
             k == Count(writer.batch, m)
             r == Count(writer.ready, m)
             u == Count(returns[Class[m]].items, m)
             x == Count(e, m)
  <2>1. /\ f \in Nat /\ k \in Nat /\ r \in Nat /\ u \in Nat
        /\ Away(finished, writer, returns, m) = f + k + r + u
    BY <1>1, AwayParts
  <2>2. Class[m] \in Classes /\ m \in Of(Class[m])
    BY ReturnConstants
  <2>3. Away(finished', writer', returns', m) = finished'[m] + k + r + 0
    <3>1. Count(returns'[Class[m]].items, m) = 0
      BY <1>7, <1>12, <2>2
    <3> QED
      BY <1>2, <1>12, <1>14, <3>1, AwayParts
  <2>4. finished'[m] = f + x
    BY <1>3, <1>10, FinishesIs
  <2>5. x = u
    <3>1. Count(a, m) \in Nat /\ Count(b, m) \in Nat /\ Count(c, m) \in Nat
      BY <1>5, CountType
    <3>2. /\ Class[m] # 1 => Count(a, m) = 0
          /\ Class[m] # 2 => Count(b, m) = 0
          /\ Class[m] # 3 => Count(c, m) = 0
      <4>1. \A d : m \in Of(d) => Class[m] = d
        BY DEF Of
      <4> QED
        BY <1>4, <4>1, CountOutside
    <3>3. Class[m] = 1 \/ Class[m] = 2 \/ Class[m] = 3
      BY <2>2 DEF Classes
    <3>4. /\ Class[m] = 1 => u = Count(a, m)
          /\ Class[m] = 2 => u = Count(b, m)
          /\ Class[m] = 3 => u = Count(c, m)
      BY <1>8
    <3>5. x = Count(a, m) + Count(b, m) + Count(c, m)
      BY <1>11
    <3> HIDE DEF u, x
    <3> QED
      BY <3>1, <3>2, <3>3, <3>4, <3>5
  <2> HIDE DEF f, k, r, u, x
  <2> QED
    BY <2>1, <2>3, <2>4, <2>5
<1> QED
  BY <1>1, <1>2, <1>13, <1>14, <1>15, WriterStep

-----------------------------------------------------------------------------
(* Looking at the queues moves no packet. *)
LEMMA LookSteps ==
  ASSUME ReturnInv, NoneLeft \/ Peeks \/ \E c \in Classes : RecvReturnPacket(c)
  PROVE  ReturnInv'
<1>1. /\ writer \in Writer /\ writer.batch \in Seq(Numbers) /\ writer.ready \in Seq(Numbers)
      /\ returns \in Returns
  BY WriterFacts
<1> DEFINE Steps == {"take", "peek", "write", "asleep", "none", "lost"}
<1>2. ASSUME NEW s \in Steps, NEW k \in 0 .. 4
      PROVE  /\ IsWriter([writer EXCEPT !.look = k, !.step = s], writer.batch, writer.ready)
             /\ IsWriter([writer EXCEPT !.step = s, !.look = k], writer.batch, writer.ready)
             /\ IsWriter([writer EXCEPT !.step = s], writer.batch, writer.ready)
  <2> DEFINE v == [writer EXCEPT !.look = k]
             w == [writer EXCEPT !.step = s]
  <2>1. IsWriter(v, writer.batch, writer.ready) /\ IsWriter(w, writer.batch, writer.ready)
    BY <1>1, Rewritten
  <2>2. /\ v \in Writer /\ v.batch = writer.batch /\ v.ready = writer.ready
        /\ w \in Writer /\ w.batch = writer.batch /\ w.ready = writer.ready
    BY <2>1 DEF IsWriter
  <2>3. /\ IsWriter([v EXCEPT !.step = s], writer.batch, writer.ready)
        /\ IsWriter([w EXCEPT !.look = k], writer.batch, writer.ready)
    <3> HIDE DEF v, w
    <3> QED
      BY <1>1, <2>2, Rewritten
  <2> QED
    BY <2>1, <2>3, Zenon
<1> HIDE DEF Steps
<1>3. {"take", "peek", "write", "asleep", "none", "lost"} = Steps /\ 0 \in 0 .. 4 /\ 1 \in 0 .. 4
  BY DEF Steps
<1>4. /\ UNCHANGED <<relayed, shared, driver, reader, finished>>
      /\ IsWriter(writer', writer.batch, writer.ready)
      /\ returns' \in Returns /\ \A c \in Classes : returns'[c].items = returns[c].items
  <2>1. CASE NoneLeft
    <3> DEFINE s == IF writer.batch = <<>> THEN "asleep" ELSE "write"
    <3>1. s \in Steps
      BY <1>3
    <3>2. writer' = [writer EXCEPT !.look = 0, !.step = s]
      BY <2>1 DEF NoneLeft, SetWriter
    <3>3. UNCHANGED <<relayed, shared, driver, reader, finished, returns>>
      BY <2>1 DEF NoneLeft, SetWriter
    <3> HIDE DEF s
    <3>4. IsWriter(writer', writer.batch, writer.ready)
      BY <1>2, <1>3, <3>1, <3>2
    <3> QED
      BY <1>1, <3>3, <3>4
  <2>2. CASE Peeks
    <3> DEFINE s == IF HigherPriorityWaiting THEN "write" ELSE "take"
    <3>1. s \in Steps
      BY <1>3
    <3>2. writer' = [writer EXCEPT !.step = s]
      BY <2>2 DEF Peeks, SetWriter
    <3>3. UNCHANGED <<relayed, shared, driver, reader, finished, returns>>
      BY <2>2 DEF Peeks, SetWriter
    <3> HIDE DEF s
    <3>4. IsWriter(writer', writer.batch, writer.ready)
      BY <1>2, <1>3, <3>1, <3>2
    <3> QED
      BY <1>1, <3>3, <3>4
  <2>3. CASE \E c \in Classes : RecvReturnPacket(c)
    <3>1. PICK c \in Classes : RecvReturnPacket(c)
      BY <2>3
    <3>2. /\ writer' = [writer EXCEPT !.step = "take", !.look = 1]
          /\ UNCHANGED <<relayed, shared, driver, reader, finished>>
      BY <3>1 DEF RecvReturnPacket, SetWriter
    <3>5. returns' = [returns EXCEPT ![c].permit = FALSE]
      BY <3>1 DEF RecvReturnPacket
    <3>3. "take" \in Steps
      BY <1>3
    <3>4. IsWriter(writer', writer.batch, writer.ready)
      BY <1>2, <1>3, <3>2, <3>3
    <3>6. returns' \in Returns /\ \A d \in Classes : returns'[d].items = returns[d].items
      BY <1>1, <3>5 DEF Returns
    <3> QED
      BY <3>2, <3>4, <3>6
  <2> QED
    BY <2>1, <2>2, <2>3
<1>5. writer' \in Writer /\ writer'.batch = writer.batch /\ writer'.ready = writer.ready
  BY <1>4 DEF IsWriter
<1> QED
  BY <1>4, <1>5, IdleWriterStep

(* No packet has arrived at the start. *)
LEMMA ReturnInitially == ReturnInit => ReturnInv
<1> SUFFICES ASSUME ReturnInit PROVE ReturnInv
  OBVIOUS
<1>1. <<>> \in Seq(Numbers) /\ Len(<<>>) = 0 /\ \A x : Count(<<>>, x) = 0
  BY EmptySeq, CountEmpty
<1>2. /\ Len(Class) \in Nat /\ Numbers = 1 .. Len(Class)
      /\ \A n \in Numbers : Class[n] \in Classes
      /\ IncomingCapacity \in Nat \ {0} /\ ProtectedCapacity \in Nat \ {0}
      /\ ReturnCapacity \in Nat \ {0} /\ IsFiniteSet(Paths)
  BY ReturnConstants
<1>3. ReturnTyped
  <2>1. NewShared \in Shared /\ Idle \in Reader
    BY <1>1 DEF NewShared, Shared, Idle, Reader
  <2>2. PICK tun \in BOOLEAN :
          /\ returns = [c \in Classes |-> [items |-> <<>>, permit |-> FALSE, active |-> ~tun]]
          /\ writer = [NewWriter(tun) EXCEPT !.step = IF tun THEN "none" ELSE @]
    BY DEF ReturnInit
  <2>4. writer \in Writer
    <3>1. CASE tun
      <4>1. writer = [NewWriter(tun) EXCEPT !.step = "none"]
        BY <2>2, <3>1
      <4> QED
        BY <4>1, NewWriterIs DEF IsWriter
    <3>2. CASE ~tun
      <4>1. writer = [NewWriter(tun) EXCEPT !.step = "take"]
        BY <2>2, <3>2 DEF NewWriter
      <4> QED
        BY <4>1, NewWriterIs DEF IsWriter
    <3> QED
      BY <3>1, <3>2
  <2>3. /\ relayed \in 0 .. Len(Class) /\ finished \in [Numbers -> Nat]
        /\ returns \in [Classes -> [items : Seq(Numbers), permit : BOOLEAN, active : BOOLEAN]]
    BY <1>1, <1>2, <2>2 DEF ReturnInit
  <2> QED
    BY <2>1, <2>3, <2>4 DEF ReturnInit, ReturnTyped
<1>4. Bounded
  BY <1>1, <1>2 DEF ReturnInit, Bounded, NewShared
<1>5. Sorted
  <2>1. \A c \in Classes : <<>> \in Seq(Of(c))
    BY EmptySeq
  <2>2. \A c \in Classes : returns[c].items = <<>>
    BY DEF ReturnInit
  <2> QED
    BY <2>1, <2>2 DEF Sorted
<1>6. Holding
  BY DEF ReturnInit, Holding, Idle
<1>7. OnePlace
  <2>1. ASSUME NEW n \in Numbers
        PROVE  Away(finished, writer, returns, n) + OnPaths(shared, reader, n)
                 = Arrived(relayed, n)
    <3>1. n # 0 /\ ~(n <= 0)
      BY <1>2
    <3>2. Away(finished, writer, returns, n) = 0 + 0 + 0 + 0
      <4>1. /\ finished[n] = 0 /\ writer.batch = <<>> /\ writer.ready = <<>>
            /\ returns[Class[n]].items = <<>>
        BY <1>2 DEF ReturnInit, NewWriter
      <4> QED
        BY <1>1, <4>1 DEF Away
    <3>3. OnPaths(shared, reader, n) = 0
      <4>1. [p \in Paths |-> Carried(shared[p], reader[p], n)] = [p \in Paths |-> 0]
        BY <1>1, <3>1 DEF ReturnInit, Carried, NewShared, Idle
      <4>2. SumFunction([p \in Paths |-> 0]) = 0
        BY <1>2, SumOfNone
      <4> QED
        BY <4>1, <4>2 DEF OnPaths
    <3>4. Arrived(relayed, n) = 0
      BY <3>1 DEF ReturnInit, Arrived
    <3> QED
      BY <3>2, <3>3, <3>4
  <2> QED
    BY <2>1, OnePlaceIs
<1> QED
  BY <1>3, <1>4, <1>5, <1>6, <1>7 DEF ReturnInv

(* Every step of the return path keeps the invariant. *)
LEMMA ReturnStays == ReturnInv /\ [ReturnNext]_returnVars => ReturnInv'
<1> SUFFICES ASSUME ReturnInv, [ReturnNext]_returnVars PROVE ReturnInv'
  OBVIOUS
<1>1. CASE \E p \in Paths :
             \/ Relays(p) \/ Reads(p) \/ Cancelled(p)
             \/ OwnerClosed(p) \/ SnapshotChanges(p)
             \/ Fails(p) \/ TerminalPresent(p) \/ DriverEnds(p)
  BY <1>1, RelaySteps, ReadSteps, DriverSteps
<1>2. CASE WritesBack
  BY <1>2, PopReadyStep, LookSteps, EndsStep, NextReturnPacketStep DEF WritesBack
<1>3. CASE LosesDevice
  BY <1>3, EndsStep
<1>5. CASE DeviceReplaced
  BY <1>5, DeviceReplacedStep
<1>6. CASE Resumes
  BY <1>6, ResumesStep
<1>4. CASE UNCHANGED returnVars
  <2>1. UNCHANGED <<relayed, shared, driver, reader, returns, writer, finished>>
    BY <1>4 DEF returnVars
  <2>2. ReturnTyped' /\ Holding'
    BY <2>1 DEF ReturnInv, ReturnTyped, Holding, Numbers
  <2> QED
    BY <2>1, <2>2, QuietStep
<1> QED
  BY <1>1, <1>2, <1>3, <1>4, <1>5, <1>6 DEF ReturnNext

(* So it holds in every state. *)
LEMMA ReturnKept == ReturnSpec => []ReturnInv
BY ReturnInitially, ReturnStays, PTL DEF ReturnSpec

(* Only the TUN device can be lost. *)
DeviceInv == writer.step \in NoDevice => writer.tun

LEMMA DeviceStays == ReturnInv /\ DeviceInv /\ [ReturnNext]_returnVars => DeviceInv'
<1> SUFFICES ASSUME ReturnInv, DeviceInv, [ReturnNext]_returnVars PROVE DeviceInv'
  OBVIOUS
<1>1. writer \in Writer
  BY WriterFacts
<1>2. CASE writer' = writer
  BY <1>2 DEF DeviceInv
<1>3. ASSUME writer' # writer PROVE writer'.step \notin NoDevice \/ writer'.tun
  <2>1. ASSUME NEW p \in Paths,
               \/ Relays(p) \/ Reads(p) \/ Cancelled(p)
               \/ OwnerClosed(p) \/ SnapshotChanges(p)
               \/ Fails(p) \/ TerminalPresent(p) \/ DriverEnds(p)
        PROVE  writer' = writer
    <3>1. CASE Relays(p)
      BY <3>1, Zenon DEF Relays, PoolDeficit, TryIncoming, StashProtected, QueueFullDrop, Full,
                         Receives
    <3>2. CASE Reads(p) \/ Cancelled(p)
      BY <3>2, Zenon DEF Reads, Cancelled, Looks, LooksAgain, WokenByProtected, WokenByState,
                         TakesIncoming, AllocationClosed, Consumes, ReturnPaused, ReturnPacket,
                         ReaderEnds, PopProtected, NoneProtected, SetReader
    <3>3. CASE OwnerClosed(p) \/ SnapshotChanges(p) \/ Fails(p) \/ TerminalPresent(p)
               \/ DriverEnds(p)
      BY <3>3, Zenon DEF OwnerClosed, SnapshotChanges, Fails, TerminalPresent, DriverEnds,
                         SetShared
    <3> QED
      BY <2>1, <3>1, <3>2, <3>3
  <2>2. CASE PopReady
    BY <1>1, <2>2 DEF PopReady, SetWriter, Gathered, NoDevice, Writer
  <2>3. CASE \E c \in Classes : NextReturnPacket(c)
    BY <1>1, <2>3 DEF NextReturnPacket, SetWriter, Gathered, NoDevice, Writer
  <2>4. CASE NoneLeft
    <3> DEFINE k == IF writer.batch = <<>> THEN "asleep" ELSE "write"
    <3>1. writer' = [writer EXCEPT !.look = 0, !.step = k] /\ k \notin NoDevice
      BY <2>4 DEF NoneLeft, SetWriter, NoDevice
    <3> HIDE DEF k
    <3> QED
      BY <1>1, <3>1 DEF Writer
  <2>8. CASE Peeks
    <3> DEFINE k == IF HigherPriorityWaiting THEN "write" ELSE "take"
    <3>1. writer' = [writer EXCEPT !.step = k] /\ k \notin NoDevice
      BY <2>8 DEF Peeks, SetWriter, NoDevice
    <3> HIDE DEF k
    <3> QED
      BY <1>1, <3>1 DEF Writer
  <2>9. CASE WriteBatch
    BY <1>1, <2>9 DEF WriteBatch, SetWriter, NoDevice, Writer
  <2>10. CASE \E c \in Classes : RecvReturnPacket(c)
    BY <1>1, <2>10 DEF RecvReturnPacket, SetWriter, NoDevice, Writer
  <2>5. CASE LosesDevice
    BY <1>1, <2>5 DEF LosesDevice, SetWriter, NewWriter
  <2>6. CASE DeviceReplaced \/ Resumes
    <3>1. writer.step \in NoDevice /\ Attaches
      BY <2>6 DEF DeviceReplaced, Resumes, NoDevice
    <3>2. writer.tun
      BY <3>1 DEF DeviceInv
    <3> QED
      BY <3>1, <3>2, AttachesKeeps
  <2>7. CASE UNCHANGED returnVars
    BY <1>3, <2>7 DEF returnVars
  <2> QED
    BY <1>3, <2>1, <2>2, <2>3, <2>4, <2>5, <2>6, <2>7, <2>8, <2>9, <2>10
       DEF ReturnNext, WritesBack
<1> QED
  BY <1>2, <1>3 DEF DeviceInv

LEMMA DeviceKept == ReturnSpec => []DeviceInv
<1>1. ReturnInit => DeviceInv
  BY DEF ReturnInit, DeviceInv, NewWriter, NoDevice
<1> QED
  BY <1>1, ReturnKept, DeviceStays, PTL DEF ReturnSpec

(* A packet that has one place has been finished once at most. *)
LEMMA ReturnInvMeans == ReturnInv /\ DeviceInv => ReturnedOnce
<1> SUFFICES ASSUME ReturnInv, DeviceInv PROVE ReturnedOnce
  OBVIOUS
<1>1. ASSUME NEW n \in Numbers PROVE finished[n] \in 0 .. 1
  <2>1. Away(finished, writer, returns, n) + OnPaths(shared, reader, n) = Arrived(relayed, n)
    BY OnePlaceIs DEF ReturnInv
  <2>2. /\ finished \in [Numbers -> Nat] /\ writer \in Writer /\ returns \in Returns
        /\ shared \in [Paths -> Shared] /\ reader \in [Paths -> Reader]
    BY DEF ReturnInv, ReturnTyped, Returns
  <2>3. /\ Away(finished, writer, returns, n) \in Nat /\ finished[n] \in Nat
        /\ finished[n] <= Away(finished, writer, returns, n)
    BY <2>2, AwayType DEF Returns
  <2>4. OnPaths(shared, reader, n) \in Nat
    BY <2>2, OnPathsType
  <2>5. Arrived(relayed, n) \in 0 .. 1
    BY DEF Arrived
  <2> QED
    BY <2>1, <2>3, <2>4, <2>5
<1>2. finished \in [Numbers -> 0 .. 1]
  BY <1>1 DEF ReturnInv, ReturnTyped
<1>3. ASSUME NEW p \in Paths
      PROVE  /\ Len(shared[p].incoming) <= IncomingCapacity
             /\ Len(shared[p].protected) <= ProtectedCapacity
             /\ {shared[p].permit, shared[p].open, shared[p].terminal, shared[p].present,
                 shared[p].changed, shared[p].closing} \subseteq BOOLEAN
             /\ driver[p] \in {"running", "failing", "gone"}
             /\ reader[p].step \in {"look", "registered", "asleep", "holding", "over"}
             /\ reader[p].held \in Numbers \cup {0}
  BY DEF ReturnInv, ReturnTyped, Bounded, Shared, Reader
<1>4. /\ writer.step \in {"take", "peek", "write", "asleep"}
                           \cup (IF writer.tun THEN NoDevice ELSE {})
      /\ writer.look \in 0 .. 4
  <2>1. writer.step \in {"take", "peek", "write", "asleep", "none", "lost"} /\ writer.look \in 0 .. 4
    BY WriterFacts, WriterIs
  <2> QED
    BY <2>1 DEF DeviceInv, NoDevice
<1>5. ReturnTypeOK
  BY <1>2, <1>3, <1>4 DEF ReturnTypeOK, ReturnInv, ReturnTyped, Bounded
<1> QED
  BY <1>5 DEF ReturnedOnce, ReturnInv, OnePlace

(* A packet that came back from the relay is in one place until it is      *)
(* written to the device or given up, whichever queue is full and whatever *)
(* ends meanwhile: the reader, the driver or the descriptor.               *)
THEOREM EachReturnedOnce == ReturnSpec => []ReturnedOnce
BY ReturnKept, DeviceKept, ReturnInvMeans, PTL

-----------------------------------------------------------------------------
(* PacketPath.                                                             *)
Task == [step : {"rest", "look", "push", "notify", "replace", "force"}, copy : Copies,
         workers : Seq(Sessions), slot : Nat, search : Nat \ {0}, place : Nat,
         target : Sessions]
Queue == [items : Seq(Copies), permit : BOOLEAN,
          writer : {"running", "asleep", "sending", "gone"}, batch : Seq(Copies)]
Session == [life : Lives, worker : Workers, stolen : Seq(Copies)]
Scheduler == [workers : Seq(Sessions), current : Nat, remaining : 0 .. Chunk]

PacketTyped ==
    /\ injected \in 0 .. MaxPackets
    /\ scheduler \in Scheduler
    /\ table \subseteq Sessions
    /\ session \in [Sessions -> Session]
    /\ queue \in [Sessions -> Queue]
    /\ task \in [Tasks -> Task]
    /\ ended \in [Copies -> Nat]
    /\ missed \in Nat

(* The cursor points into the reader's copy, the places of an enqueue into *)
(* its workers, and a queue keeps its capacity.                            *)
InRange ==
    /\ scheduler.workers # <<>> => scheduler.current < Len(scheduler.workers)
    /\ \A t \in Tasks : task[t].step # "rest" => task[t].workers # <<>>
    /\ \A s \in Sessions : Len(queue[s].items) <= QueueCapacity

(* Only a writer that sends has a batch, and only a session that hands     *)
(* over has stolen packets.                                                *)
Empties ==
    \A s \in Sessions :
      /\ queue[s].writer # "sending" => queue[s].batch = <<>>
      /\ session[s].life # "handing over" => session[s].stolen = <<>>

Born(ss) == {s \in Sessions : ss[s].life # "unborn"}
(* Sessions are opened in order, one of each worker at a time, and stay    *)
(* registered until they have handed over.                                 *)
Registered ==
    /\ Born(session) = 1 .. Cardinality(Born(session))
    /\ \A s \in Sessions : session[s].life \notin {"unborn", "over"} => s \in table
    /\ \A r, s \in table : session[r].worker = session[s].worker => r = s

(* A packet is found once when it has been read, and its copy not before   *)
(* the task that carries the packet has made one.                          *)
FoundOnce ==
    /\ \A c \in Copies : Found(c) <= 1
    /\ \A p \in Packets : /\ p <= injected => Found(<<p, "first">>) = 1
                          /\ p > injected => /\ Found(<<p, "first">>) = 0
                                             /\ Found(<<p, "spare">>) = 0
    /\ task[0].step # "rest" =>
         /\ task[0].copy[1] <= injected
         /\ task[0].copy[2] = "first" => Found(<<task[0].copy[1], "spare">>) = 0

PacketInv == PacketTyped /\ InRange /\ Empties /\ Registered /\ FoundOnce

(* The packet that task 0 carries, out of the chunk it is counted in.      *)
Flying ==
    IF task[0].step \notin {"rest", "notify"} /\ task[0].copy[2] = "first" THEN 1 ELSE 0
(* A path that the reader's copy of the table does not have yet.           *)
Stale == \E s \in Sessions : /\ session[s].life = "live"
                             /\ \A i \in DOMAIN scheduler.workers : scheduler.workers[i] # s
MissedInv ==
    /\ task[0].step # "rest" => task[0].workers = scheduler.workers
    /\ missed <= Chunk
    /\ scheduler.remaining + Flying <= Chunk
    /\ Stale => missed + scheduler.remaining + Flying <= Chunk

(* What the assumption says of the bounds and of the sets they span. *)
LEMMA PacketConstants ==
  /\ Workers # {} /\ Workers \subseteq Nat /\ TurnPath \in [Workers -> Nat]
  /\ QueueCapacity \in Nat \ {0} /\ Chunk \in Nat \ {0}
  /\ MaxPackets \in Nat \ {0} /\ MaxSessions \in Nat \ {0}
  /\ IsFiniteSet(Sessions) /\ IsFiniteSet(Tasks)
  /\ Sessions \subseteq Tasks /\ 0 \in Tasks /\ 1 \in Sessions /\ 0 \notin Sessions
  /\ <<1, "first">> \in Copies
<1>1. /\ Workers # {} /\ Workers \subseteq Nat /\ TurnPath \in [Workers -> Nat]
      /\ QueueCapacity \in Nat \ {0} /\ Chunk \in Nat \ {0}
      /\ MaxPackets \in Nat \ {0} /\ MaxSessions \in Nat \ {0}
  BY PacketPathAssumption
<1>2. IsFiniteSet(Sessions)
  BY <1>1, FS_Interval DEF Sessions
<1>3. IsFiniteSet(Tasks)
  <2>1. Tasks = Sessions \cup {0}
    BY DEF Tasks
  <2> QED
    BY <1>2, <2>1, FS_AddElement
<1>4. Sessions \subseteq Tasks /\ 0 \in Tasks /\ 1 \in Sessions /\ 0 \notin Sessions
  BY <1>1 DEF Sessions, Tasks
<1>5. <<1, "first">> \in Copies
  BY <1>1 DEF Copies, Packets
<1> QED
  BY <1>1, <1>2, <1>3, <1>4, <1>5

(* A set of numbers that is not empty has a least one. *)
LEMMA MinIs ==
  ASSUME NEW M, M \subseteq Nat, M # {}
  PROVE  Min(M) \in M /\ \A y \in M : Min(M) <= y
<1> DEFINE U == {n \in Nat : \A y \in M : n <= y}
<1>1. \E x \in M : \A y \in M : x <= y
  <2> SUFFICES ASSUME ~ \E x \in M : \A y \in M : x <= y PROVE FALSE
    OBVIOUS
  <2>1. U \subseteq Nat /\ 0 \in U
    OBVIOUS
  <2>2. ASSUME NEW n \in U PROVE n + 1 \in U
    <3>1. n \in Nat /\ n \notin M /\ \A y \in M : n <= y
      OBVIOUS
    <3>2. \A y \in M : n + 1 <= y
      BY <3>1
    <3> QED
      BY <3>1, <3>2
  <2> HIDE DEF U
  <2>3. U = Nat
    BY <2>1, <2>2, SetInduction
  <2>4. PICK y \in M : TRUE
    OBVIOUS
  <2>5. y \in Nat /\ y + 1 \in U
    BY <2>3
  <2> QED
    BY <2>5 DEF U
<1> QED
  BY <1>1 DEF Min

(* An injection of a finite set into as many numbers takes each of them. *)
LEMMA EachPlaceTaken ==
  ASSUME NEW S, NEW f, IsFiniteSet(S), f \in [S -> 1 .. Cardinality(S)],
         \A r, s \in S : f[r] = f[s] => r = s
  PROVE  \A i \in 1 .. Cardinality(S) : \E s \in S : f[s] = i
<1> DEFINE n == Cardinality(S)
           T == 1 .. n
<1>1. n \in Nat
  BY FS_CardinalityType
<1>2. IsFiniteSet(T) /\ Cardinality(T) = n
  <2> HIDE DEF n
  <2> QED
    BY <1>1, FS_Interval
<1>3. f \in Injection(S, T)
  BY DEF Injection, IsInjective
<1> HIDE DEF T
<1>4. f \in Surjection(S, T)
  BY <1>2, <1>3, FS_Injection
<1> QED
  BY <1>4 DEF Surjection, T

-----------------------------------------------------------------------------
(* interleave_turn_paths gives each registered session a place.            *)
Id(s) == session[s].worker
RankIn(T, s) == Cardinality({r \in T : TurnPath[Id(r)] = TurnPath[Id(s)] /\ Id(r) < Id(s)})
Before(T, r, s) == \/ RankIn(T, r) < RankIn(T, s)
                   \/ RankIn(T, r) = RankIn(T, s) /\ TurnPath[Id(r)] < TurnPath[Id(s)]
PlaceIn(T, s) == Cardinality({r \in T : Before(T, r, s)}) + 1

(* The list of the workers, by the place of each. *)
LEMMA SlotsAre ==
  ASSUME NEW T
  PROVE  Slots(T) = [i \in 1 .. Cardinality(T) |-> CHOOSE s \in T : PlaceIn(T, s) = i]
BY DEF Slots, PlaceIn, Before, RankIn, Id

Distinct(T) == \A r, s \in T : Id(r) = Id(s) => r = s

(* Of two workers of one relay the higher id has the higher rank. *)
LEMMA RanksDiffer ==
  ASSUME NEW T, NEW r \in T, NEW s \in T, IsFiniteSet(T), \A x \in T : Id(x) \in Workers,
         TurnPath[Id(r)] = TurnPath[Id(s)], Id(r) < Id(s)
  PROVE  RankIn(T, r) \in Nat /\ RankIn(T, s) \in Nat /\ RankIn(T, r) < RankIn(T, s)
<1> DEFINE A == {x \in T : TurnPath[Id(x)] = TurnPath[Id(r)] /\ Id(x) < Id(r)}
           B == {x \in T : TurnPath[Id(x)] = TurnPath[Id(s)] /\ Id(x) < Id(s)}
<1>1. \A x \in T : Id(x) \in Nat
  BY PacketConstants
<1>2. A \subseteq B \ {r}
  BY <1>1
<1>3. r \in B
  OBVIOUS
<1>4. A \subseteq T /\ B \subseteq T
  OBVIOUS
<1>5. RankIn(T, r) = Cardinality(A) /\ RankIn(T, s) = Cardinality(B)
  BY DEF RankIn
<1> HIDE DEF A, B
<1>6. IsFiniteSet(A) /\ IsFiniteSet(B)
  BY <1>4, FS_Subset
<1>7. IsFiniteSet(B \ {r}) /\ Cardinality(B \ {r}) = Cardinality(B) - 1
  BY <1>3, <1>6, FS_RemoveElement
<1>8. Cardinality(A) <= Cardinality(B \ {r})
  BY <1>2, <1>7, FS_Subset
<1>9. Cardinality(A) \in Nat /\ Cardinality(B) \in Nat
  BY <1>6, FS_CardinalityType
<1> QED
  BY <1>5, <1>7, <1>8, <1>9

(* A rank is a number. *)
LEMMA RankType ==
  ASSUME NEW T, NEW s \in T, IsFiniteSet(T)
  PROVE  RankIn(T, s) \in Nat
<1> DEFINE A == {r \in T : TurnPath[Id(r)] = TurnPath[Id(s)] /\ Id(r) < Id(s)}
<1>1. A \subseteq T
  OBVIOUS
<1>2. RankIn(T, s) = Cardinality(A)
  BY DEF RankIn
<1> HIDE DEF A
<1> QED
  BY <1>1, <1>2, FS_Subset, FS_CardinalityType

(* One of two registered sessions is before the other. *)
LEMMA BeforeIsTotal ==
  ASSUME NEW T, NEW r \in T, NEW s \in T, IsFiniteSet(T), \A x \in T : Id(x) \in Workers,
         Distinct(T), r # s
  PROVE  Before(T, r, s) \/ Before(T, s, r)
<1>1. RankIn(T, r) \in Nat /\ RankIn(T, s) \in Nat
  BY RankType
<1>2. /\ TurnPath[Id(r)] \in Nat /\ TurnPath[Id(s)] \in Nat
      /\ Id(r) \in Nat /\ Id(s) \in Nat /\ Id(r) # Id(s)
  BY PacketConstants DEF Distinct
<1>3. CASE RankIn(T, r) # RankIn(T, s)
  BY <1>1, <1>3 DEF Before
<1>4. CASE RankIn(T, r) = RankIn(T, s) /\ TurnPath[Id(r)] # TurnPath[Id(s)]
  BY <1>2, <1>4 DEF Before
<1>5. CASE RankIn(T, r) = RankIn(T, s) /\ TurnPath[Id(r)] = TurnPath[Id(s)]
  <2>1. Id(r) < Id(s) \/ Id(s) < Id(r)
    BY <1>2
  <2>2. RankIn(T, r) < RankIn(T, s) \/ RankIn(T, s) < RankIn(T, r)
    BY <1>5, <2>1, RanksDiffer
  <2> QED
    BY <2>2 DEF Before
<1> QED
  BY <1>3, <1>4, <1>5

(* What is before has the lower place. *)
LEMMA PlacesGrow ==
  ASSUME NEW T, NEW r \in T, NEW s \in T, IsFiniteSet(T), \A x \in T : Id(x) \in Workers,
         Before(T, r, s)
  PROVE  PlaceIn(T, r) < PlaceIn(T, s)
<1> DEFINE A == {x \in T : Before(T, x, r)}
           B == {x \in T : Before(T, x, s)}
<1>1. \A x \in T : RankIn(T, x) \in Nat /\ TurnPath[Id(x)] \in Nat
  BY RankType, PacketConstants
<1>2. ~Before(T, r, r)
  BY <1>1 DEF Before
<1>3. \A x \in T : Before(T, x, r) => Before(T, x, s)
  BY <1>1 DEF Before
<1>4. A \subseteq B \ {r} /\ r \in B /\ A \subseteq T /\ B \subseteq T
  BY <1>2, <1>3
<1>5. PlaceIn(T, r) = Cardinality(A) + 1 /\ PlaceIn(T, s) = Cardinality(B) + 1
  BY DEF PlaceIn
<1> HIDE DEF A, B
<1>6. IsFiniteSet(A) /\ IsFiniteSet(B)
  BY <1>4, FS_Subset
<1>7. IsFiniteSet(B \ {r}) /\ Cardinality(B \ {r}) = Cardinality(B) - 1
  BY <1>4, <1>6, FS_RemoveElement
<1>8. Cardinality(A) <= Cardinality(B \ {r})
  BY <1>4, <1>7, FS_Subset
<1>9. Cardinality(A) \in Nat /\ Cardinality(B) \in Nat
  BY <1>6, FS_CardinalityType
<1> QED
  BY <1>5, <1>7, <1>8, <1>9

(* A place is in the list. *)
LEMMA PlaceType ==
  ASSUME NEW T, NEW s \in T, IsFiniteSet(T), \A x \in T : Id(x) \in Workers
  PROVE  PlaceIn(T, s) \in 1 .. Cardinality(T)
<1> DEFINE B == {x \in T : Before(T, x, s)}
<1>1. RankIn(T, s) \in Nat /\ TurnPath[Id(s)] \in Nat
  BY RankType, PacketConstants
<1>2. ~Before(T, s, s)
  BY <1>1 DEF Before
<1>3. B \subseteq T \ {s}
  BY <1>2
<1>4. PlaceIn(T, s) = Cardinality(B) + 1
  BY DEF PlaceIn
<1> HIDE DEF B
<1>5. /\ IsFiniteSet(T \ {s}) /\ Cardinality(T \ {s}) = Cardinality(T) - 1
      /\ Cardinality(T) \in Nat
  BY FS_RemoveElement, FS_CardinalityType
<1>6. Cardinality(B) <= Cardinality(T \ {s}) /\ IsFiniteSet(B)
  BY <1>3, <1>5, FS_Subset
<1>7. Cardinality(B) \in Nat
  BY <1>6, FS_CardinalityType
<1> QED
  BY <1>4, <1>5, <1>6, <1>7

(* The list of the workers has each registered session, and no other. *)
LEMMA SlotsFacts ==
  ASSUME NEW T, T \subseteq Sessions, \A x \in T : Id(x) \in Workers, Distinct(T)
  PROVE  /\ Slots(T) \in Seq(Sessions)
         /\ T # {} => Slots(T) # <<>>
         /\ \A s \in T : \E i \in DOMAIN Slots(T) : Slots(T)[i] = s
<1>0. IsFiniteSet(T)
  BY PacketConstants, FS_Subset
<1> DEFINE f == [s \in T |-> PlaceIn(T, s)]
           n == Cardinality(T)
<1>1. f \in [T -> 1 .. n]
  BY <1>0, PlaceType
<1>2. \A s \in T : PlaceIn(T, s) \in 1 .. n
  BY <1>0, PlaceType
<1>3. ASSUME NEW r \in T, NEW s \in T, PlaceIn(T, r) = PlaceIn(T, s)
      PROVE  r = s
  <2>1. CASE r # s
    <3>1. Before(T, r, s) \/ Before(T, s, r)
      BY <1>0, <2>1, BeforeIsTotal
    <3>2. PlaceIn(T, r) < PlaceIn(T, s) \/ PlaceIn(T, s) < PlaceIn(T, r)
      BY <1>0, <3>1, PlacesGrow
    <3>3. PlaceIn(T, r) \in 1 .. n /\ PlaceIn(T, s) \in 1 .. n
      BY <1>2
    <3>4. n \in Nat
      BY <1>0, FS_CardinalityType
    <3> HIDE DEF n
    <3> QED
      BY <1>3, <3>2, <3>3, <3>4
  <2> QED
    BY <2>1
<1>4. \A r, s \in T : f[r] = f[s] => r = s
  BY <1>3
<1>5. \A i \in 1 .. n : \E s \in T : f[s] = i
  <2> HIDE DEF f
  <2> QED
    BY <1>0, <1>1, <1>4, EachPlaceTaken
<1>6. \A i \in 1 .. n : \E s \in T : PlaceIn(T, s) = i
  BY <1>5
<1>7. Slots(T) = [i \in 1 .. n |-> CHOOSE s \in T : PlaceIn(T, s) = i]
  BY SlotsAre
<1>8. n \in Nat
  BY <1>0, FS_CardinalityType
<1> HIDE DEF n, f
<1>9. ASSUME NEW i \in 1 .. n
      PROVE  Slots(T)[i] \in T /\ PlaceIn(T, Slots(T)[i]) = i
  BY <1>6, <1>7
<1>10. DOMAIN Slots(T) = 1 .. n
  BY <1>7
<1>11. Slots(T) \in Seq(Sessions)
  <2>1. Slots(T) \in [1 .. n -> Sessions]
    BY <1>7, <1>9
  <2> QED
    BY <1>8, <2>1
<1>12. ASSUME NEW s \in T PROVE \E i \in DOMAIN Slots(T) : Slots(T)[i] = s
  <2>1. PlaceIn(T, s) \in 1 .. n
    BY <1>2
  <2>2. Slots(T)[PlaceIn(T, s)] = s
    BY <1>3, <1>9, <2>1
  <2> QED
    BY <1>10, <2>1, <2>2
<1> QED
  BY <1>11, <1>12

-----------------------------------------------------------------------------
(* What copy c counts with a task, in a session, and in all. *)
Carrying(k, c) == k.step \notin {"rest", "notify"} /\ k.copy = c
Weight(k, c) == IF Carrying(k, c) THEN 1 ELSE 0
Borne(tk, c) == Cardinality({t \in Tasks : Carrying(tk[t], c)})
InQueue(q, e, c) == Count(q.items, c) + Count(q.batch, c) + Count(e.stolen, c)
Queued(qs, ss, c) == SumFunction([s \in Sessions |-> InQueue(qs[s], ss[s], c)])
Whole(e, tk, qs, ss, c) == e[c] + Borne(tk, c) + Queued(qs, ss, c)

FoundWell(i, tk, e, qs, ss) ==
    /\ \A c \in Copies : Whole(e, tk, qs, ss, c) <= 1
    /\ \A p \in Packets : /\ p <= i => Whole(e, tk, qs, ss, <<p, "first">>) = 1
                          /\ p > i => /\ Whole(e, tk, qs, ss, <<p, "first">>) = 0
                                      /\ Whole(e, tk, qs, ss, <<p, "spare">>) = 0
    /\ tk[0].step # "rest" =>
         /\ tk[0].copy[1] <= i
         /\ tk[0].copy[2] = "first" => Whole(e, tk, qs, ss, <<tk[0].copy[1], "spare">>) = 0

(* The places of a copy, as a function of the variables, before a step and *)
(* after.                                                                  *)
LEMMA FoundOnceIs ==
  /\ FoundOnce <=> FoundWell(injected, task, ended, queue, session)
  /\ FoundOnce' <=> FoundWell(injected', task', ended', queue', session')
BY DEF FoundOnce, FoundWell, Found, Whole, Borne, Queued, InQueue, InSession, Holds, Count,
       Carrying, Tasks, Copies, Packets, Sessions

(* What a session holds of a copy is a number. *)
LEMMA InQueueType ==
  ASSUME NEW c, NEW q \in Queue, NEW e \in Session
  PROVE  /\ Count(q.items, c) \in Nat /\ Count(q.batch, c) \in Nat
         /\ Count(e.stolen, c) \in Nat /\ InQueue(q, e, c) \in Nat
<1>1. /\ q.items \in Seq(Copies) /\ q.batch \in Seq(Copies) /\ e.stolen \in Seq(Copies)
  BY DEF Queue, Session
<1>2. /\ Count(q.items, c) \in Nat /\ Count(q.batch, c) \in Nat
      /\ Count(e.stolen, c) \in Nat
  BY <1>1, CountType
<1> QED
  BY <1>2 DEF InQueue

(* What all sessions hold of a copy is a number. *)
LEMMA QueuedType ==
  ASSUME NEW c, NEW qs \in [Sessions -> Queue], NEW ss \in [Sessions -> Session]
  PROVE  Queued(qs, ss, c) \in Nat
<1> DEFINE F == [s \in Sessions |-> InQueue(qs[s], ss[s], c)]
<1>1. F \in [Sessions -> Nat]
  BY InQueueType
<1> HIDE DEF F
<1>2. SumFunction(F) \in Nat
  BY <1>1, SumType, PacketConstants
<1> QED
  BY <1>2 DEF Queued, F

(* A step of one session changes the sum by what it changes there. *)
LEMMA QueuedChange ==
  ASSUME NEW c, NEW s \in Sessions,
         NEW qs \in [Sessions -> Queue], NEW ss \in [Sessions -> Session],
         NEW rs \in [Sessions -> Queue], NEW us \in [Sessions -> Session],
         \A o \in Sessions \ {s} : rs[o] = qs[o] /\ us[o] = ss[o]
  PROVE  Queued(rs, us, c)
           = Queued(qs, ss, c) + (InQueue(rs[s], us[s], c) - InQueue(qs[s], ss[s], c))
<1> DEFINE F == [o \in Sessions |-> InQueue(qs[o], ss[o], c)]
           G == [o \in Sessions |-> InQueue(rs[o], us[o], c)]
<1>1. F \in [Sessions -> Nat] /\ G \in [Sessions -> Nat]
  BY InQueueType
<1>2. \A o \in Sessions \ {s} : G[o] = F[o]
  OBVIOUS
<1>3. F[s] = InQueue(qs[s], ss[s], c) /\ G[s] = InQueue(rs[s], us[s], c)
  OBVIOUS
<1> HIDE DEF F, G
<1> IsFiniteSet(Sessions)
  BY PacketConstants
<1>4. SumFunction(G) = SumFunction(F) + (G[s] - F[s])
  BY <1>1, <1>2, SumChanges
<1>5. Queued(qs, ss, c) = SumFunction(F) /\ Queued(rs, us, c) = SumFunction(G)
  BY DEF Queued, F, G
<1> QED
  BY <1>3, <1>4, <1>5

(* How many tasks carry a copy is a number. *)
LEMMA BorneType ==
  ASSUME NEW tk, NEW c
  PROVE  Borne(tk, c) \in Nat /\ IsFiniteSet({t \in Tasks : Carrying(tk[t], c)})
<1> DEFINE A == {t \in Tasks : Carrying(tk[t], c)}
<1>1. A \subseteq Tasks
  OBVIOUS
<1>2. Borne(tk, c) = Cardinality(A)
  BY DEF Borne
<1> HIDE DEF A
<1>3. IsFiniteSet(A) /\ Cardinality(A) \in Nat
  BY <1>1, PacketConstants, FS_Subset, FS_CardinalityType
<1> QED
  BY <1>2, <1>3 DEF A

(* A step of one task changes it by what it changes there. *)
LEMMA BorneChange ==
  ASSUME NEW tk, NEW uk, NEW c, NEW t \in Tasks, \A o \in Tasks \ {t} : uk[o] = tk[o]
  PROVE  Borne(uk, c) = Borne(tk, c) + (Weight(uk[t], c) - Weight(tk[t], c))
<1> DEFINE A == {o \in Tasks : Carrying(tk[o], c)}
           B == {o \in Tasks : Carrying(uk[o], c)}
<1>1. A \ {t} = B \ {t}
  OBVIOUS
<1>2. /\ Weight(tk[t], c) = IF t \in A THEN 1 ELSE 0
      /\ Weight(uk[t], c) = IF t \in B THEN 1 ELSE 0
  BY DEF Weight
<1>3. /\ Borne(tk, c) = Cardinality(A) /\ IsFiniteSet(A) /\ Cardinality(A) \in Nat
      /\ Borne(uk, c) = Cardinality(B) /\ IsFiniteSet(B) /\ Cardinality(B) \in Nat
  BY BorneType DEF Borne
<1> HIDE DEF A, B
<1>4. /\ Cardinality(A \ {t}) = IF t \in A THEN Cardinality(A) - 1 ELSE Cardinality(A)
      /\ Cardinality(B \ {t}) = IF t \in B THEN Cardinality(B) - 1 ELSE Cardinality(B)
  BY <1>3, FS_RemoveElement
<1>5. Cardinality(A \ {t}) = Cardinality(B \ {t})
  BY <1>1
<1> QED
  BY <1>2, <1>3, <1>4, <1>5

(* The copies a step makes have not been there. *)
Made(M) ==
    /\ M \subseteq Copies
    /\ \A c \in M : /\ Whole(ended, task, queue, session, c) = 0
                    /\ c[2] = "spare" /\ c[1] <= injected
Accounted(t, s, M) ==
    \A c \in Copies :
      ended'[c] + Weight(task'[t], c) + InQueue(queue'[s], session'[s], c)
        = ended[c] + Weight(task[t], c) + InQueue(queue[s], session[s], c)
          + (IF c \in M THEN 1 ELSE 0)
Others(t, s) ==
    /\ \A o \in Tasks \ {t} : task'[o] = task[o]
    /\ \A o \in Sessions \ {s} : queue'[o] = queue[o] /\ session'[o] = session[o]
(* The reader's task carries the packet it carried, or a copy made now. *)
Carries(M) ==
    task'[0].step # "rest" =>
      /\ task'[0].copy[1] <= injected
      /\ task'[0].copy[2] = "first" =>
           M = {} /\ task[0].step # "rest" /\ task[0].copy = task'[0].copy

(* A copy is found once more only when the step makes it. *)
LEMMA WholeChange ==
  ASSUME NEW t \in Tasks, NEW s \in Sessions, NEW M, NEW c \in Copies,
         PacketTyped, PacketTyped', Others(t, s), Accounted(t, s, M)
  PROVE  /\ Whole(ended', task', queue', session', c)
              = Whole(ended, task, queue, session, c) + (IF c \in M THEN 1 ELSE 0)
         /\ Whole(ended, task, queue, session, c) \in Nat
<1> DEFINE a == ended[c]
           b == ended'[c]
           u == Borne(task, c)
           v == Borne(task', c)
           g == Queued(queue, session, c)
           h == Queued(queue', session', c)
           i == Weight(task[t], c)
           j == Weight(task'[t], c)
           k == InQueue(queue[s], session[s], c)
           l == InQueue(queue'[s], session'[s], c)
           x == IF c \in M THEN 1 ELSE 0
<1>1. /\ queue \in [Sessions -> Queue] /\ session \in [Sessions -> Session]
      /\ queue' \in [Sessions -> Queue] /\ session' \in [Sessions -> Session]
      /\ a \in Nat /\ b \in Nat
  BY DEF PacketTyped, Sessions, Queue, Session, Copies, Packets
<1>2. /\ \A o \in Tasks \ {t} : task'[o] = task[o]
      /\ \A o \in Sessions \ {s} : queue'[o] = queue[o] /\ session'[o] = session[o]
  BY DEF Others
<1>3. v = u + (j - i)
  BY <1>2, BorneChange
<1>4. h = g + (l - k)
  BY <1>1, <1>2, QueuedChange
<1>5. u \in Nat /\ v \in Nat /\ g \in Nat /\ h \in Nat
  BY <1>1, BorneType, QueuedType
<1>6. i \in Nat /\ j \in Nat /\ x \in Nat
  BY DEF Weight
<1>7. k \in Nat /\ l \in Nat
  BY <1>1, InQueueType
<1>8. b + j + l = a + i + k + x
  BY DEF Accounted
<1>9. /\ Whole(ended, task, queue, session, c) = a + u + g
      /\ Whole(ended', task', queue', session', c) = b + v + h
  BY DEF Whole
<1> HIDE DEF a, b, u, v, g, h, i, j, k, l, x
<1>10. b + v + h = (a + u + g) + x /\ a + u + g \in Nat
  BY <1>1, <1>3, <1>4, <1>5, <1>6, <1>7, <1>8
<1> QED
  BY <1>9, <1>10 DEF x

(* A step that accounts for every copy keeps each in one place. *)
LEMMA FoundStep ==
  ASSUME NEW t \in Tasks, NEW s \in Sessions, NEW M,
         PacketTyped, PacketTyped', FoundOnce, injected' = injected,
         Others(t, s), Made(M), Accounted(t, s, M), Carries(M)
  PROVE  FoundOnce'
<1> DEFINE W(c) == Whole(ended, task, queue, session, c)
           V(c) == Whole(ended', task', queue', session', c)
<1>1. FoundWell(injected, task, ended, queue, session)
  BY FoundOnceIs
<1>2. \A c \in Copies : V(c) = W(c) + (IF c \in M THEN 1 ELSE 0) /\ W(c) \in Nat
  BY WholeChange
<1>3. \A c \in M : c \in Copies /\ W(c) = 0 /\ c[2] = "spare" /\ c[1] <= injected
  BY DEF Made
<1>4. /\ \A c \in Copies : W(c) <= 1
      /\ \A p \in Packets : /\ p <= injected => W(<<p, "first">>) = 1
                            /\ p > injected => W(<<p, "first">>) = 0 /\ W(<<p, "spare">>) = 0
      /\ task[0].step # "rest" =>
           /\ task[0].copy[1] <= injected
           /\ task[0].copy[2] = "first" => W(<<task[0].copy[1], "spare">>) = 0
  BY <1>1 DEF FoundWell
<1>5. /\ task \in [Tasks -> Task] /\ task' \in [Tasks -> Task] /\ injected \in Nat
      /\ task'[0] \in Task /\ task'[0].copy \in Copies
  <2>1. task \in [Tasks -> Task] /\ task' \in [Tasks -> Task] /\ injected \in Nat
    BY DEF PacketTyped, Task, Copies, Packets, Sessions, Tasks
  <2>2. task'[0] \in Task
    BY <2>1, PacketConstants
  <2>3. task'[0].copy \in Copies
    BY <2>2 DEF Task
  <2> QED
    BY <2>1, <2>2, <2>3
<1>6. \A p \in Packets : <<p, "first">> \in Copies /\ <<p, "spare">> \in Copies /\ p \in Nat
  BY DEF Packets, Copies
<1> HIDE DEF W, V
<1>7. \A c \in Copies : V(c) <= 1
  BY <1>2, <1>3, <1>4
<1>8. ASSUME NEW p \in Packets
      PROVE  /\ p <= injected => V(<<p, "first">>) = 1
             /\ p > injected => V(<<p, "first">>) = 0 /\ V(<<p, "spare">>) = 0
  <2>1. <<p, "first">> \notin M
    <3>1. <<p, "first">>[2] = "first" /\ "first" # "spare"
      OBVIOUS
    <3> QED
      BY <1>3, <3>1
  <2>2. p > injected => <<p, "spare">> \notin M
    <3>1. <<p, "spare">>[1] = p
      OBVIOUS
    <3>2. ASSUME <<p, "spare">> \in M PROVE p <= injected
      BY <1>3, <3>1, <3>2
    <3>3. p \in Nat
      BY <1>6
    <3> QED
      BY <1>5, <3>2, <3>3
  <2>3. V(<<p, "first">>) = W(<<p, "first">>)
    <3> DEFINE c == <<p, "first">>
    <3>1. c \in Copies /\ (c \notin M)
      BY <1>6, <2>1
    <3> HIDE DEF c
    <3>2. V(c) = W(c)
      BY <1>2, <3>1
    <3> QED
      BY <3>2 DEF c
  <2>4. p > injected => V(<<p, "spare">>) = W(<<p, "spare">>)
    <3> DEFINE c == <<p, "spare">>
    <3>1. c \in Copies /\ (p > injected => c \notin M)
      BY <1>6, <2>2
    <3> HIDE DEF c
    <3>2. p > injected => V(c) = W(c)
      BY <1>2, <3>1
    <3> QED
      BY <3>2 DEF c
  <2> QED
    BY <1>4, <2>3, <2>4
<1>9. ASSUME task'[0].step # "rest", task'[0].copy[2] = "first"
      PROVE  V(<<task'[0].copy[1], "spare">>) = 0
  <2>1. M = {} /\ task[0].step # "rest" /\ task[0].copy = task'[0].copy
    BY <1>9 DEF Carries
  <2>2. W(<<task'[0].copy[1], "spare">>) = 0
    BY <1>4, <1>9, <2>1
  <2>3. <<task'[0].copy[1], "spare">> \in Copies
    BY <1>5 DEF Copies
  <2> QED
    BY <1>2, <2>1, <2>2, <2>3
<1>10. task'[0].step # "rest" => task'[0].copy[1] <= injected
  BY DEF Carries
<1>11. FoundWell(injected', task', ended', queue', session')
  BY <1>7, <1>8, <1>9, <1>10 DEF FoundWell, V
<1> QED
  BY <1>11, FoundOnceIs

-----------------------------------------------------------------------------
(* What % and \div return. *)
LEMMA Modulo ==
  ASSUME NEW a \in Nat, NEW b \in Nat \ {0}
  PROVE  a % b \in 0 .. b - 1 /\ a \div b \in Nat
OBVIOUS

(* A task at rest carries nothing. *)
LEMMA RestIsTyped ==
  /\ NoTask \in Task /\ NoTask.step = "rest" /\ \A c : Weight(NoTask, c) = 0
<1>1. /\ <<1, "first">> \in Copies /\ 1 \in Sessions /\ <<>> \in Seq(Sessions)
  BY PacketConstants, EmptySeq
<1>2. NoTask \in Task /\ NoTask.step = "rest"
  BY <1>1 DEF NoTask, Task
<1> QED
  BY <1>2 DEF Weight, Carrying

(* An enqueue starts typed, and looks at one place at least. *)
LEMMA EnqueueType ==
  ASSUME NEW c \in Copies, NEW w \in Seq(Sessions), NEW n \in Nat, w # <<>>
  PROVE  /\ Enqueue(c, w, n) \in Task /\ Enqueue(c, w, n).step = "look"
         /\ Enqueue(c, w, n).copy = c /\ Enqueue(c, w, n).workers = w
<1> DEFINE l == Len(w)
           h == IF Healthy(w[n + 1]) THEN Min({3, l}) ELSE l
<1>1. l \in Nat \ {0}
  BY EmptySeq, LenProperties
<1>2. h \in Nat \ {0}
  <2> HIDE DEF l
  <2>1. {3, l} \subseteq Nat /\ {3, l} # {}
    BY <1>1
  <2>2. Min({3, l}) \in {3, l}
    BY <2>1, MinIs
  <2> QED
    BY <1>1, <2>2
<1>3. NoTask \in Task
  BY RestIsTyped
<1>4. Enqueue(c, w, n) = [NoTask EXCEPT !.step = "look", !.copy = c, !.workers = w, !.slot = n,
                                        !.search = h]
  BY DEF Enqueue
<1> HIDE DEF h, l
<1>5. Enqueue(c, w, n) = [step |-> "look", copy |-> c, workers |-> w, slot |-> n,
                          search |-> h, place |-> 0, target |-> 1]
  BY <1>4 DEF NoTask
<1>6. 1 \in Sessions
  BY PacketConstants
<1> QED
  BY <1>2, <1>5, <1>6 DEF Task

(* The history counts each copy of the list once more. *)
LEMMA EndsIs ==
  ASSUME NEW cs \in Seq(Copies), ended \in [Copies -> Nat]
  PROVE  /\ Ends(cs) \in [Copies -> Nat]
         /\ \A c \in Copies : Ends(cs)[c] = ended[c] + Count(cs, c)
<1>1. Ends(cs) = [c \in Copies |-> ended[c] + Count(cs, c)]
  BY DEF Ends, Count
<1>2. \A c \in Copies : Count(cs, c) \in Nat
  BY CountType
<1> QED
  BY <1>1, <1>2

FitsTask(u) == u.step # "rest" => u.workers # <<>>
FitsQueue(q) ==
    /\ Len(q.items) <= QueueCapacity
    /\ q.writer # "sending" => q.batch = <<>>
FitsSession(e) == e.life # "handing over" => e.stolen = <<>>
Accounts(t, s, u, q, e, M) ==
    \A c \in Copies :
      ended'[c] + Weight(u, c) + InQueue(q, e, c)
        = ended[c] + Weight(task[t], c) + InQueue(queue[s], session[s], c)
          + (IF c \in M THEN 1 ELSE 0)
CarriesOn(t, u, M) ==
    /\ t # 0 => M = {}
    /\ t = 0 /\ u.step # "rest" =>
         /\ u.copy[1] <= injected
         /\ u.copy[2] = "first" => M = {} /\ task[0].step # "rest" /\ task[0].copy = u.copy

PacketStates ==
    /\ table \subseteq Sessions /\ ended \in [Copies -> Nat] /\ missed \in Nat

(* The types of the variables. *)
LEMMA PacketTypes ==
  ASSUME PacketInv
  PROVE  /\ injected \in 0 .. MaxPackets /\ scheduler \in Scheduler /\ table \subseteq Sessions
         /\ session \in [Sessions -> Session] /\ queue \in [Sessions -> Queue]
         /\ task \in [Tasks -> Task] /\ ended \in [Copies -> Nat] /\ missed \in Nat
         /\ \A s \in Sessions : /\ FitsQueue(queue[s]) /\ FitsSession(session[s])
                                /\ queue[s] \in Queue /\ session[s] \in Session
         /\ \A t \in Tasks : FitsTask(task[t]) /\ task[t] \in Task
BY DEF PacketInv, PacketTyped, InRange, Empties, FitsQueue, FitsSession, FitsTask

(* A step of one task and of one session. *)
LEMMA SessionStep ==
  ASSUME NEW M, NEW t \in Tasks, NEW s \in Sessions, NEW u \in Task, NEW q \in Queue,
         NEW e \in Session,
         PacketInv, UNCHANGED <<injected, scheduler>>,
         task' = [task EXCEPT ![t] = u], queue' = [queue EXCEPT ![s] = q],
         session' = [session EXCEPT ![s] = e],
         PacketStates', Registered',
         FitsTask(u), FitsQueue(q), FitsSession(e),
         Made(M), Accounts(t, s, u, q, e, M), CarriesOn(t, u, M)
  PROVE  PacketInv'
<1>1. /\ injected \in 0 .. MaxPackets /\ scheduler \in Scheduler
      /\ session \in [Sessions -> Session] /\ queue \in [Sessions -> Queue]
      /\ task \in [Tasks -> Task] /\ ended \in [Copies -> Nat]
      /\ \A o \in Sessions : FitsQueue(queue[o]) /\ FitsSession(session[o])
      /\ \A o \in Tasks : FitsTask(task[o])
  BY PacketTypes
<1>2. /\ session' \in [Sessions -> Session] /\ queue' \in [Sessions -> Queue]
      /\ task' \in [Tasks -> Task]
      /\ task'[t] = u /\ queue'[s] = q /\ session'[s] = e
      /\ \A o \in Tasks \ {t} : task'[o] = task[o]
      /\ \A o \in Sessions \ {s} : queue'[o] = queue[o] /\ session'[o] = session[o]
  BY <1>1
<1>3. PacketTyped'
  BY <1>1, <1>2 DEF PacketStates, PacketTyped, Scheduler, Session, Queue, Task, Sessions, Tasks,
                    Copies, Packets, Lives
<1>4. InRange'
  <2>1. \A o \in Tasks : FitsTask(task'[o])
    BY <1>1, <1>2
  <2>2. \A o \in Sessions : FitsQueue(queue'[o])
    BY <1>1, <1>2
  <2>3. scheduler'.workers # <<>> => scheduler'.current < Len(scheduler'.workers)
    BY DEF PacketInv, InRange
  <2> QED
    BY <2>1, <2>2, <2>3 DEF InRange, FitsTask, FitsQueue, Tasks, Sessions
<1>5. Empties'
  <2>1. \A o \in Sessions : FitsQueue(queue'[o]) /\ FitsSession(session'[o])
    BY <1>1, <1>2
  <2> QED
    BY <2>1 DEF Empties, FitsQueue, FitsSession, Sessions
<1>6. Others(t, s)
  BY <1>2 DEF Others
<1>7. Accounted(t, s, M)
  BY <1>2 DEF Accounted, Accounts
<1>8. Carries(M)
  <2>1. CASE t = 0
    BY <1>2, <2>1 DEF CarriesOn, Carries
  <2>2. CASE t # 0
    <3>1. task'[0] = task[0] /\ M = {}
      BY <1>2, <2>2, PacketConstants DEF CarriesOn
    <3>2. task[0].step # "rest" => task[0].copy[1] <= injected
      BY DEF PacketInv, FoundOnce
    <3> QED
      BY <3>1, <3>2 DEF Carries
  <2> QED
    BY <2>1, <2>2
<1>9. FoundOnce'
  BY <1>3, <1>6, <1>7, <1>8, FoundStep DEF PacketInv
<1> QED
  BY <1>3, <1>4, <1>5, <1>9 DEF PacketInv

(* A step of a task, which may push to a queue. *)
LEMMA TaskStep ==
  ASSUME NEW M, NEW t \in Tasks, NEW s \in Sessions, NEW u \in Task, NEW q \in Queue,
         PacketInv, UNCHANGED <<injected, scheduler, session, table>>,
         task' = [task EXCEPT ![t] = u], queue' = [queue EXCEPT ![s] = q],
         ended' \in [Copies -> Nat], missed' \in Nat,
         FitsTask(u), FitsQueue(q),
         Made(M), Accounts(t, s, u, q, session[s], M), CarriesOn(t, u, M)
  PROVE  PacketInv'
<1> DEFINE e == session[s]
<1>1. /\ session \in [Sessions -> Session] /\ table \subseteq Sessions
      /\ \A o \in Sessions : FitsSession(session[o])
  BY PacketTypes
<1>2. e \in Session /\ FitsSession(e) /\ session' = [session EXCEPT ![s] = e]
  BY <1>1
<1>3. PacketStates'
  BY <1>1 DEF PacketStates, Sessions, Copies, Packets
<1>4. Registered'
  BY DEF PacketInv, Registered, Born, Sessions
<1>5. Accounts(t, s, u, q, e, M)
  OBVIOUS
<1> HIDE DEF e
<1> QED
  BY <1>2, <1>3, <1>4, <1>5, SessionStep

-----------------------------------------------------------------------------
(* Most steps make no copy. *)
LEMMA NothingMade == Made({})
BY DEF Made

(* A step that leaves the queues alone, as a step of the first one. *)
LEMMA QueueKept ==
  ASSUME PacketInv, UNCHANGED queue
  PROVE  /\ 1 \in Sessions /\ queue' = [queue EXCEPT ![1] = queue[1]]
         /\ queue[1] \in Queue /\ FitsQueue(queue[1])
<1>1. 1 \in Sessions
  BY PacketConstants
<1>2. queue \in [Sessions -> Queue] /\ \A o \in Sessions : FitsQueue(queue[o])
  BY PacketTypes
<1> QED
  BY <1>1, <1>2

(* A step that changes neither where a copy is nor a queue. *)
LEMMA StillCarries ==
  ASSUME NEW t \in Tasks, NEW u \in Task,
         PacketInv, UNCHANGED <<injected, scheduler, session, table, queue, ended, missed>>,
         task' = [task EXCEPT ![t] = u],
         task[t].step \notin {"rest", "notify"}, u.step \notin {"rest", "notify"},
         u.copy = task[t].copy, u.workers = task[t].workers
  PROVE  PacketInv'
<1>1. /\ ended \in [Copies -> Nat] /\ missed \in Nat /\ FitsTask(task[t])
      /\ queue \in [Sessions -> Queue] /\ session \in [Sessions -> Session]
  BY PacketTypes
<1>2. /\ 1 \in Sessions /\ queue' = [queue EXCEPT ![1] = queue[1]]
      /\ queue[1] \in Queue /\ FitsQueue(queue[1])
  BY QueueKept
<1>3. FitsTask(u)
  BY <1>1 DEF FitsTask
<1>4. ASSUME NEW c \in Copies PROVE Weight(u, c) = Weight(task[t], c)
  BY DEF Weight, Carrying
<1>5. ASSUME NEW c \in Copies
      PROVE  /\ ended[c] \in Nat /\ Weight(u, c) \in Nat
             /\ InQueue(queue[1], session[1], c) \in Nat
  <2>1. session[1] \in Session
    BY <1>1, <1>2
  <2> QED
    BY <1>1, <1>2, <2>1, InQueueType DEF Weight
<1>6. Accounts(t, 1, u, queue[1], session[1], {})
  BY <1>4, <1>5 DEF Accounts
<1>7. CarriesOn(t, u, {})
  <2>1. task[0].step # "rest" => task[0].copy[1] <= injected
    BY DEF PacketInv, FoundOnce
  <2> QED
    BY <2>1 DEF CarriesOn
<1>8. ended' \in [Copies -> Nat] /\ missed' \in Nat
  BY <1>1
<1> QED
  BY <1>2, <1>3, <1>6, <1>7, <1>8, NothingMade, TaskStep

(* An enqueue looks at sessions. *)
LEMMA CandidateType ==
  ASSUME NEW k \in Task, NEW i \in Nat, k.workers # <<>>
  PROVE  Candidate(k, i) \in Sessions
<1> DEFINE l == Len(k.workers)
           a == k.slot + (i % k.search)
<1>1. l \in Nat \ {0} /\ k.slot \in Nat /\ k.search \in Nat \ {0} /\ k.workers \in Seq(Sessions)
  BY EmptySeq, LenProperties DEF Task
<1>2. i % k.search \in Nat
  <2> DEFINE b == k.search
  <2>1. b \in Nat \ {0}
    BY <1>1
  <2> HIDE DEF b
  <2>2. i % b \in Nat
    BY <2>1, Modulo
  <2> QED
    BY <2>2 DEF b
<1>3. a \in Nat
  BY <1>1, <1>2
<1> HIDE DEF a, l
<1>4. a % l \in 0 .. l - 1
  BY <1>1, <1>3, Modulo
<1>5. (a % l) + 1 \in 1 .. l
  BY <1>1, <1>4
<1>6. Candidate(k, i) = k.workers[(a % l) + 1]
  BY DEF Candidate, a, l
<1> QED
  BY <1>1, <1>5, <1>6 DEF l

(* Look finds the next place, or none. *)
LEMMA LookStep ==
  ASSUME PacketInv, NEW t \in Tasks, Look(t)
  PROVE  PacketInv'
<1> DEFINE k == task[t]
<1>1. k \in Task /\ FitsTask(k) /\ k.step = "look"
  BY PacketTypes DEF Look
<1>2. UNCHANGED <<injected, scheduler, session, table, queue, ended, missed>>
  BY DEF Look
<1>3. CASE Places(k) = {}
  <2> DEFINE u == [k EXCEPT !.step = "replace"]
  <2>1. task' = [task EXCEPT ![t] = u]
    BY <1>3 DEF Look
  <2>2. u \in Task /\ u.step = "replace" /\ u.copy = k.copy /\ u.workers = k.workers
    BY <1>1 DEF Task
  <2> HIDE DEF u
  <2> QED
    BY <1>1, <1>2, <2>1, <2>2, StillCarries
<1>4. CASE Places(k) # {}
  <2> DEFINE n == Min(Places(k))
             u == [k EXCEPT !.step = "push", !.place = n, !.target = Candidate(k, n)]
  <2>1. task' = [task EXCEPT ![t] = u]
    BY <1>4 DEF Look
  <2>2. n \in Nat
    <3>1. k.place \in Nat /\ k.search \in Nat
      BY <1>1 DEF Task
    <3>2. Places(k) \subseteq Nat
      BY <3>1 DEF Places
    <3>3. n \in Places(k)
      BY <1>4, <3>2, MinIs
    <3> QED
      BY <3>2, <3>3
  <2>3. Candidate(k, n) \in Sessions
    BY <1>1, <2>2, CandidateType DEF FitsTask
  <2> HIDE DEF n
  <2>4. u \in Task /\ u.step = "push" /\ u.copy = k.copy /\ u.workers = k.workers
    BY <1>1, <2>2, <2>3 DEF Task
  <2> HIDE DEF u
  <2> QED
    BY <1>1, <1>2, <2>1, <2>4, StillCarries
<1> QED
  BY <1>3, <1>4

(* A queue that a copy is put into, and the copies it holds then. *)
LEMMA TrySendStep ==
  ASSUME PacketInv, NEW t \in Tasks, TrySend(t)
  PROVE  PacketInv'
<1> DEFINE k == task[t]
           s == k.target
<1>1. k \in Task /\ FitsTask(k) /\ k.step = "push"
  BY PacketTypes DEF TrySend
<1>2. UNCHANGED <<injected, scheduler, session, table, ended, missed>>
  BY DEF TrySend
<1>3. CASE /\ Len(queue[s].items) < QueueCapacity
           /\ queue' = [queue EXCEPT ![s].items = Append(@, k.copy)]
           /\ task' = [task EXCEPT ![t].step = "notify"]
  <2> DEFINE i == queue[s].items
             q == [queue[s] EXCEPT !.items = Append(i, k.copy)]
             u == [k EXCEPT !.step = "notify"]
  <2>1. /\ s \in Sessions /\ k.copy \in Copies
    BY <1>1 DEF Task
  <2>2. /\ queue[s] \in Queue /\ session[s] \in Session /\ FitsQueue(queue[s])
        /\ ended \in [Copies -> Nat] /\ missed \in Nat
        /\ queue \in [Sessions -> Queue] /\ task \in [Tasks -> Task]
    BY <2>1, PacketTypes
  <2>3. i \in Seq(Copies) /\ QueueCapacity \in Nat
    BY <2>2, PacketConstants DEF Queue
  <2>4. /\ Append(i, k.copy) \in Seq(Copies) /\ Len(Append(i, k.copy)) = Len(i) + 1
        /\ \A c : Count(Append(i, k.copy), c)
                    = Count(i, c) + (IF k.copy = c THEN 1 ELSE 0)
    <3> DEFINE n == k.copy
    <3>1. n \in Copies
      BY <2>1
    <3> HIDE DEF i, n
    <3>2. Append(i, n) \in Seq(Copies) /\ Len(Append(i, n)) = Len(i) + 1
      BY <2>3, <3>1, AppendProperties
    <3>3. \A c : Count(Append(i, n), c) = Count(i, c) + (IF n = c THEN 1 ELSE 0)
      BY <2>3, <3>1, CountAppend
    <3> QED
      BY <3>2, <3>3 DEF n
  <2>5. Len(Append(i, k.copy)) <= QueueCapacity
    <3>1. Len(i) \in Nat /\ Len(i) < QueueCapacity
      BY <1>3, <2>3
    <3> HIDE DEF i
    <3> QED
      BY <2>3, <2>4, <3>1
  <2>6. /\ q \in Queue /\ q.items = Append(i, k.copy) /\ q.batch = queue[s].batch
        /\ q.writer = queue[s].writer
    BY <2>2, <2>4 DEF Queue
  <2>7. FitsQueue(q)
    BY <2>2, <2>5, <2>6 DEF FitsQueue
  <2>8. u \in Task /\ u.step = "notify" /\ u.copy = k.copy /\ u.workers = k.workers
    BY <1>1 DEF Task
  <2>9. FitsTask(u)
    BY <1>1, <2>8 DEF FitsTask
  <2>10. queue' = [queue EXCEPT ![s] = q] /\ task' = [task EXCEPT ![t] = u]
    BY <1>3
  <2>11. i = queue[s].items
    OBVIOUS
  <2> HIDE DEF q, u, i
  <2>12. ASSUME NEW c \in Copies
         PROVE  ended'[c] + Weight(u, c) + InQueue(q, session[s], c)
                  = ended[c] + Weight(task[t], c) + InQueue(queue[s], session[s], c)
                    + (IF c \in {} THEN 1 ELSE 0)
    <3> DEFINE a == ended[c]
               x == IF k.copy = c THEN 1 ELSE 0
               f == Count(i, c)
               g == Count(queue[s].batch, c)
               h == Count(session[s].stolen, c)
    <3>1. a \in Nat /\ x \in Nat /\ f \in Nat /\ g \in Nat /\ h \in Nat
      BY <2>2, <2>11, InQueueType
    <3>2. InQueue(q, session[s], c) = (f + x) + g + h
          /\ InQueue(queue[s], session[s], c) = f + g + h
      BY <2>4, <2>6, <2>11 DEF InQueue
    <3>3. Weight(task[t], c) = x /\ Weight(u, c) = 0
      BY <1>1, <2>8 DEF Weight, Carrying
    <3>4. ended'[c] = a
      BY <1>2
    <3> HIDE DEF a, x, f, g, h
    <3>5. a + 0 + ((f + x) + g + h) = a + x + (f + g + h) + 0
      BY <3>1
    <3> QED
      BY <3>2, <3>3, <3>4, <3>5 DEF a
  <2>13. Accounts(t, s, u, q, session[s], {})
    BY <2>12 DEF Accounts
  <2>14. CarriesOn(t, u, {})
    <3>1. task[0].step # "rest" => task[0].copy[1] <= injected
      BY DEF PacketInv, FoundOnce
    <3> QED
      BY <1>1, <2>8, <3>1 DEF CarriesOn
  <2>15. ended' \in [Copies -> Nat] /\ missed' \in Nat
    BY <1>2, <2>2
  <2> QED
    BY <1>2, <2>1, <2>6, <2>7, <2>8, <2>9, <2>10, <2>13, <2>14, <2>15, NothingMade, TaskStep
<1>4. CASE /\ task' = [task EXCEPT ![t].step = "look", ![t].place = @ + 1]
           /\ UNCHANGED queue
  <2> DEFINE n == k.place + 1
             u == [k EXCEPT !.step = "look", !.place = n]
  <2>0. n \in Nat
    BY <1>1 DEF Task
  <2>2. task' = [task EXCEPT ![t] = u]
    BY <1>4
  <2> HIDE DEF n
  <2>1. u \in Task /\ u.step = "look" /\ u.copy = k.copy /\ u.workers = k.workers
    BY <1>1, <2>0 DEF Task
  <2> HIDE DEF u
  <2> QED
    BY <1>1, <1>2, <1>4, <2>1, <2>2, StillCarries
<1> QED
  BY <1>3, <1>4 DEF TrySend

-----------------------------------------------------------------------------
(* What the end of an enqueue makes: the second copy of a short packet. *)
New(t, k) ==
    IF t = 0 /\ k.copy[1] \in Spared /\ k.copy[2] = "first" /\ Len(k.workers) > 1
    THEN {<<k.copy[1], "spare">>} ELSE {}

Finishing(t, u, M) ==
    /\ u \in Task /\ FitsTask(u) /\ Made(M) /\ CarriesOn(t, u, M)
    /\ \A c \in Copies : Weight(u, c) = IF c \in M THEN 1 ELSE 0

(* The end of an enqueue leaves the task at rest, or makes the spare copy. *)
LEMMA FinishedFacts ==
  ASSUME PacketInv, NEW t \in Tasks, task[t].step # "rest"
  PROVE  Finishing(t, Finished(t, task[t]), New(t, task[t]))
<1> DEFINE k == task[t]
           u == Finished(t, k)
           M == New(t, k)
<1>1. k \in Task /\ FitsTask(k) /\ injected \in Nat
  BY PacketTypes
<1>2. CASE t = 0 /\ k.copy[1] \in Spared /\ k.copy[2] = "first" /\ Len(k.workers) > 1
  <2> DEFINE c == <<k.copy[1], "spare">>
             n == (k.slot + Len(k.workers) \div 2) % Len(k.workers)
             w == k.workers
  <2>1. u = Enqueue(c, w, n) /\ M = {c}
    BY <1>2 DEF Finished, Done, New
  <2>2. c \in Copies /\ c[2] = "spare" /\ c[1] = k.copy[1]
    BY <1>1 DEF Task, Copies
  <2>3. w \in Seq(Sessions) /\ w # <<>>
    BY <1>1, <1>2 DEF Task, FitsTask
  <2>4. n \in Nat
    <3> DEFINE l == Len(k.workers)
               b == l \div 2
    <3>1. l \in Nat \ {0} /\ k.slot \in Nat
      BY <1>1, <2>3, EmptySeq, LenProperties DEF Task
    <3> HIDE DEF l
    <3>2. b \in Nat
      BY <3>1, Modulo
    <3> HIDE DEF b
    <3>3. k.slot + b \in Nat
      BY <3>1, <3>2
    <3>4. (k.slot + b) % l \in Nat
      BY <3>1, <3>3, Modulo
    <3> QED
      BY <3>4 DEF b, l
  <2>5. /\ task[0].copy[1] <= injected /\ Found(<<task[0].copy[1], "spare">>) = 0
    BY <1>2 DEF PacketInv, FoundOnce
  <2>6. k = task[0]
    BY <1>2
  <2>7. Whole(ended, task, queue, session, c) = 0
    BY <2>5, <2>6 DEF Found, Whole, Borne, Queued, InQueue, InSession, Holds, Count, Carrying
  <2> HIDE DEF w, n
  <2>8. u \in Task /\ u.step = "look" /\ u.copy = c /\ u.workers = w
    BY <2>1, <2>2, <2>3, <2>4, EnqueueType
  <2>9. FitsTask(u)
    BY <2>3, <2>8 DEF FitsTask
  <2>10. Made(M)
    BY <2>1, <2>2, <2>5, <2>6, <2>7 DEF Made
  <2>11. CarriesOn(t, u, M)
    BY <1>2, <2>2, <2>5, <2>6, <2>8 DEF CarriesOn
  <2> HIDE DEF c, u, M
  <2>12. \A d \in Copies : Weight(u, d) = IF d \in M THEN 1 ELSE 0
    BY <2>1, <2>8 DEF Weight, Carrying
  <2> QED
    BY <2>8, <2>9, <2>10, <2>11, <2>12 DEF Finishing, u, M
<1>3. CASE ~(t = 0 /\ k.copy[1] \in Spared /\ k.copy[2] = "first" /\ Len(k.workers) > 1)
  <2>1. u = NoTask /\ M = {}
    BY <1>3 DEF Finished, Done, New
  <2> HIDE DEF u, M
  <2>2. u \in Task /\ u.step = "rest" /\ \A c : Weight(u, c) = 0
    BY <2>1, RestIsTyped
  <2> QED
    BY <2>1, <2>2, NothingMade DEF Finishing, FitsTask, CarriesOn, u, M
<1> QED
  BY <1>2, <1>3

(* Notify: the packet is in the queue already, and stays there. *)
LEMMA NotifyStep ==
  ASSUME PacketInv, NEW t \in Tasks, Notify(t)
  PROVE  PacketInv'
<1> DEFINE k == task[t]
           s == k.target
           b == queue[s].permit \/ Len(queue[s].items) = 1
           q == [queue[s] EXCEPT !.permit = b]
           u == Finished(t, k)
           M == New(t, k)
<1>1. k \in Task /\ k.step = "notify"
  BY PacketTypes DEF Notify
<1>2. UNCHANGED <<injected, scheduler, session, table, ended, missed>>
  BY DEF Notify
<1>3. s \in Sessions
  BY <1>1 DEF Task
<1>4. /\ queue[s] \in Queue /\ session[s] \in Session /\ FitsQueue(queue[s])
      /\ ended \in [Copies -> Nat] /\ missed \in Nat
  BY <1>3, PacketTypes
<1>5. b \in BOOLEAN
  BY <1>4 DEF Queue
<1>6. queue' = [queue EXCEPT ![s] = q] /\ task' = [task EXCEPT ![t] = u]
  BY DEF Notify
<1> HIDE DEF b
<1>7. /\ q \in Queue /\ q.items = queue[s].items /\ q.batch = queue[s].batch
      /\ q.writer = queue[s].writer
  BY <1>4, <1>5 DEF Queue
<1>8. Finishing(t, u, M)
  BY <1>1, FinishedFacts
<1> HIDE DEF q, u, M
<1>9. FitsQueue(q)
  BY <1>4, <1>7 DEF FitsQueue
<1>10. ASSUME NEW c \in Copies
       PROVE  ended'[c] + Weight(u, c) + InQueue(q, session[s], c)
                = ended[c] + Weight(task[t], c) + InQueue(queue[s], session[s], c)
                  + (IF c \in M THEN 1 ELSE 0)
  <2> DEFINE a == ended[c]
             x == IF c \in M THEN 1 ELSE 0
             f == InQueue(queue[s], session[s], c)
  <2>1. a \in Nat /\ f \in Nat /\ x \in Nat
    BY <1>4, InQueueType
  <2>2. InQueue(q, session[s], c) = f
    BY <1>7 DEF InQueue
  <2>3. Weight(u, c) = x /\ Weight(task[t], c) = 0
    BY <1>1, <1>8 DEF Finishing, Weight, Carrying
  <2>4. ended'[c] = a
    BY <1>2
  <2> HIDE DEF a, x, f
  <2>5. a + x + f = a + 0 + f + x
    BY <2>1
  <2> QED
    BY <2>2, <2>3, <2>4, <2>5 DEF a, x, f
<1>11. Accounts(t, s, u, q, session[s], M)
  BY <1>10 DEF Accounts
<1>12. u \in Task /\ FitsTask(u) /\ Made(M) /\ CarriesOn(t, u, M)
  BY <1>8 DEF Finishing
<1>13. ended' \in [Copies -> Nat] /\ missed' \in Nat
  BY <1>2, <1>4
<1> QED
  BY <1>2, <1>3, <1>6, <1>7, <1>9, <1>11, <1>12, <1>13, TaskStep

(* A packet that no path can take is given up. *)
LEMMA GivesUpStep ==
  ASSUME PacketInv, NEW t \in Tasks, task[t].step = "replace", GivesUp(t, task[t]),
         UNCHANGED <<injected, scheduler, table, session>>
  PROVE  PacketInv'
<1> DEFINE k == task[t]
           n == k.copy
           u == Finished(t, k)
           M == New(t, k)
<1>1. k \in Task /\ k.step = "replace" /\ n \in Copies
  BY PacketTypes DEF Task
<1>2. /\ ended \in [Copies -> Nat] /\ missed \in Nat
      /\ queue[1] \in Queue /\ session[1] \in Session
  BY PacketTypes, PacketConstants
<1>3. /\ 1 \in Sessions /\ queue' = [queue EXCEPT ![1] = queue[1]]
      /\ FitsQueue(queue[1])
  BY QueueKept DEF GivesUp
<1>4. ended' = Ends(<<n>>) /\ task' = [task EXCEPT ![t] = u]
  BY DEF GivesUp
<1>5. missed' \in Nat
  BY <1>2 DEF GivesUp
<1>6. <<n>> \in Seq(Copies)
  BY <1>1
<1>7. Finishing(t, u, M)
  BY <1>1, FinishedFacts
<1>8. n = task[t].copy
  OBVIOUS
<1> HIDE DEF u, M, n
<1>9. ended' \in [Copies -> Nat] /\ \A c \in Copies : ended'[c] = ended[c] + Count(<<n>>, c)
  BY <1>2, <1>4, <1>6, EndsIs
<1>10. ASSUME NEW c \in Copies
       PROVE  ended'[c] + Weight(u, c) + InQueue(queue[1], session[1], c)
                = ended[c] + Weight(task[t], c) + InQueue(queue[1], session[1], c)
                  + (IF c \in M THEN 1 ELSE 0)
  <2> DEFINE a == ended[c]
             x == IF c \in M THEN 1 ELSE 0
             y == IF n = c THEN 1 ELSE 0
             f == InQueue(queue[1], session[1], c)
  <2>1. a \in Nat /\ f \in Nat /\ x \in Nat /\ y \in Nat
    BY <1>2, InQueueType
  <2>2. Count(<<n>>, c) = y
    BY CountOne
  <2>3. Weight(u, c) = x /\ Weight(task[t], c) = y
    BY <1>1, <1>7, <1>8 DEF Finishing, Weight, Carrying
  <2>4. ended'[c] = a + y
    BY <1>9, <2>2
  <2> HIDE DEF a, x, f, y
  <2>5. (a + y) + x + f = a + y + f + x
    BY <2>1
  <2> QED
    BY <2>2, <2>3, <2>4, <2>5 DEF a, x, f
<1>11. Accounts(t, 1, u, queue[1], session[1], M)
  BY <1>10 DEF Accounts
<1>12. u \in Task /\ FitsTask(u) /\ Made(M) /\ CarriesOn(t, u, M)
  BY <1>7 DEF Finishing
<1> QED
  BY <1>2, <1>3, <1>4, <1>5, <1>9, <1>11, <1>12, TaskStep

(* The shortest queue of some numbered queues. *)
LEMMA LeastIs ==
  ASSUME NEW H, NEW f, H \subseteq Nat, H # {}, f \in [H -> Nat]
  PROVE  Min({i \in H : \A j \in H : f[i] <= f[j]}) \in H
<1> DEFINE least == {i \in H : \A j \in H : f[i] <= f[j]}
           L == {f[i] : i \in H}
<1>1. L \subseteq Nat /\ L # {}
  OBVIOUS
<1>2. \A y \in L : \E i \in H : y = f[i]
  OBVIOUS
<1>3. \A j \in H : f[j] \in L
  OBVIOUS
<1> HIDE DEF L
<1>4. Min(L) \in L /\ \A y \in L : Min(L) <= y
  BY <1>1, MinIs
<1>5. PICK i \in H : Min(L) = f[i]
  BY <1>2, <1>4
<1>6. \A j \in H : f[i] <= f[j]
  BY <1>3, <1>4, <1>5
<1>7. least # {} /\ least \subseteq Nat /\ least \subseteq H
  BY <1>6
<1>8. \A x \in least : x \in H
  OBVIOUS
<1> HIDE DEF least
<1>9. Min(least) \in least
  BY <1>7, MinIs
<1> QED
  BY <1>8, <1>9 DEF least

(* The queue whose oldest packet gives way is that of a session marked     *)
(* healthy, if there is one.                                               *)
LEMMA ShortestFacts ==
  ASSUME NEW k \in Task, queue \in [Sessions -> Queue]
  PROVE  /\ \A s \in Shortest(k) : /\ s \in Sessions /\ Healthy(s)
                                   /\ \E i \in DOMAIN k.workers : k.workers[i] = s
         /\ (\E i \in DOMAIN k.workers : Healthy(k.workers[i])) => Shortest(k) # {}
<1> DEFINE w == k.workers
           H == {i \in DOMAIN w : Healthy(w[i])}
           f == [i \in H |-> Len(queue[w[i]].items)]
           n == Min({i \in H : \A j \in H : Len(queue[w[i]].items) <= Len(queue[w[j]].items)})
<1>1. w \in Seq(Sessions) /\ DOMAIN w \subseteq Nat /\ \A i \in DOMAIN w : w[i] \in Sessions
  BY DEF Task
<1>2. Shortest(k) = IF H = {} THEN {} ELSE {w[n]}
  BY DEF Shortest
<1>3. f \in [H -> Nat]
  <2>1. \A o \in Sessions : queue[o].items \in Seq(Copies)
    BY DEF Queue
  <2> QED
    BY <1>1, <2>1
<1>4. {i \in H : \A j \in H : Len(queue[w[i]].items) <= Len(queue[w[j]].items)}
        = {i \in H : \A j \in H : f[i] <= f[j]}
  OBVIOUS
<1>5. H \subseteq Nat /\ \A i \in H : i \in DOMAIN w /\ Healthy(w[i])
  BY <1>1
<1>6. n = Min({i \in H : \A j \in H : f[i] <= f[j]})
  BY <1>4
<1>7. (\E i \in DOMAIN w : Healthy(w[i])) => H # {}
  OBVIOUS
<1> HIDE DEF H, f, n
<1>8. H # {} => n \in H
  BY <1>3, <1>5, <1>6, LeastIs
<1> QED
  BY <1>1, <1>2, <1>5, <1>7, <1>8

(* ReplaceOldest finds the queue to force the packet into, or gives it up. *)
LEMMA ReplaceOldestStep ==
  ASSUME PacketInv, NEW t \in Tasks, ReplaceOldest(t)
  PROVE  PacketInv'
<1> DEFINE k == task[t]
           open == {s \in Shortest(k) : Open(s)}
<1>1. k \in Task /\ k.step = "replace"
  BY PacketTypes DEF ReplaceOldest
<1>2. UNCHANGED <<injected, scheduler, table, session>>
  BY DEF ReplaceOldest
<1>3. CASE GivesUp(t, k)
  BY <1>1, <1>2, <1>3, GivesUpStep
<1>4. CASE /\ \E s \in open : task' = [task EXCEPT ![t].step = "force", ![t].target = s]
           /\ UNCHANGED <<queue, ended, missed>>
  <2>1. PICK s \in open : task' = [task EXCEPT ![t].step = "force", ![t].target = s]
    BY <1>4
  <2>2. s \in Shortest(k)
    BY <2>1
  <2>3. s \in Sessions
    BY <1>1, <2>2, ShortestFacts, PacketTypes
  <2> DEFINE u == [k EXCEPT !.step = "force", !.target = s]
  <2>4. task' = [task EXCEPT ![t] = u]
    BY <2>1
  <2>5. u \in Task /\ u.step = "force" /\ u.copy = k.copy /\ u.workers = k.workers
    BY <1>1, <2>3 DEF Task
  <2> HIDE DEF u
  <2> QED
    BY <1>1, <1>2, <1>4, <2>4, <2>5, StillCarries
<1> QED
  BY <1>3, <1>4 DEF ReplaceOldest

(* ForceSend: the oldest packet of a full queue gives way to the new one. *)
LEMMA ForceSendStep ==
  ASSUME PacketInv, NEW t \in Tasks, ForceSend(t)
  PROVE  PacketInv'
<1> DEFINE k == task[t]
           s == k.target
           n == k.copy
           i == queue[s].items
           j == Forced(i, n, QueueCapacity)
           e == Evicted(i, QueueCapacity)
           q == [queue[s] EXCEPT !.items = j, !.permit = TRUE]
           u == Finished(t, k)
           M == New(t, k)
<1>1. k \in Task /\ k.step = "force"
  BY PacketTypes DEF ForceSend
<1>2. UNCHANGED <<injected, scheduler, session, table, missed>>
  BY DEF ForceSend
<1>3. s \in Sessions /\ n \in Copies
  BY <1>1 DEF Task
<1>4. /\ queue[s] \in Queue /\ session[s] \in Session /\ FitsQueue(queue[s])
      /\ ended \in [Copies -> Nat] /\ missed \in Nat
  BY <1>3, PacketTypes
<1>5. i \in Seq(Copies) /\ QueueCapacity \in Nat \ {0} /\ Len(i) <= QueueCapacity
  BY <1>4, PacketConstants DEF Queue, FitsQueue
<1>6. queue' = [queue EXCEPT ![s] = q] /\ task' = [task EXCEPT ![t] = u]
  BY DEF ForceSend, NewestKept, Forced
<1>7. ended' = Ends(e)
  <2>1. CASE Len(i) = QueueCapacity
    BY <2>1 DEF ForceSend, Evicted
  <2>2. CASE Len(i) # QueueCapacity
    <3>1. ended' = ended /\ e = <<>>
      BY <2>2 DEF ForceSend, Evicted
    <3>2. <<>> \in Seq(Copies)
      BY EmptySeq
    <3>3. /\ Ends(<<>>) \in [Copies -> Nat]
          /\ \A c \in Copies : Ends(<<>>)[c] = ended[c] + Count(<<>>, c)
      BY <1>4, <3>2, EndsIs
    <3>4. \A c \in Copies : Ends(<<>>)[c] = ended[c]
      <4> TAKE c \in Copies
      <4>1. ended[c] \in Nat /\ Count(<<>>, c) = 0
        BY <1>4, CountEmpty
      <4> QED
        BY <3>3, <4>1
    <3>5. Ends(<<>>) = ended
      BY <1>4, <3>3, <3>4
    <3> HIDE DEF e
    <3> QED
      BY <3>1, <3>5
  <2> QED
    BY <2>1, <2>2
<1>8. /\ j \in Seq(Copies) /\ Len(j) <= QueueCapacity /\ e \in Seq(Copies)
      /\ \A c : Count(j, c) + Count(e, c) = Count(i, c) + (IF n = c THEN 1 ELSE 0)
  <2> HIDE DEF i, n
  <2> QED
    BY <1>3, <1>5, ForcedFacts
<1> HIDE DEF j, e
<1>9. /\ q \in Queue /\ q.items = j /\ q.batch = queue[s].batch
      /\ q.writer = queue[s].writer
  BY <1>4, <1>8 DEF Queue
<1>10. Finishing(t, u, M)
  BY <1>1, FinishedFacts
<1>11. n = task[t].copy /\ i = queue[s].items
  OBVIOUS
<1> HIDE DEF q, u, M, n, i
<1>12. FitsQueue(q)
  BY <1>4, <1>8, <1>9 DEF FitsQueue
<1>13. ended' \in [Copies -> Nat] /\ \A c \in Copies : ended'[c] = ended[c] + Count(e, c)
  BY <1>4, <1>7, <1>8, EndsIs
<1>14. ASSUME NEW c \in Copies
       PROVE  ended'[c] + Weight(u, c) + InQueue(q, session[s], c)
                = ended[c] + Weight(task[t], c) + InQueue(queue[s], session[s], c)
                  + (IF c \in M THEN 1 ELSE 0)
  <2> DEFINE a == ended[c]
             x == IF c \in M THEN 1 ELSE 0
             y == IF n = c THEN 1 ELSE 0
             f == Count(i, c)
             g == Count(queue[s].batch, c)
             h == Count(session[s].stolen, c)
             v == Count(j, c)
             w == Count(e, c)
  <2>1. a \in Nat /\ x \in Nat /\ y \in Nat /\ f \in Nat /\ g \in Nat /\ h \in Nat
    BY <1>4, <1>11, InQueueType
  <2>2. v \in Nat /\ w \in Nat
    BY <1>8, CountType
  <2>3. InQueue(q, session[s], c) = v + g + h
        /\ InQueue(queue[s], session[s], c) = f + g + h
    BY <1>9, <1>11 DEF InQueue
  <2>4. Weight(u, c) = x /\ Weight(task[t], c) = y
    BY <1>1, <1>10, <1>11 DEF Finishing, Weight, Carrying
  <2>5. ended'[c] = a + w /\ v + w = f + y
    BY <1>8, <1>13
  <2> HIDE DEF a, x, y, f, g, h, v, w
  <2>6. (a + w) + x + (v + g + h) = a + y + (f + g + h) + x
    BY <2>1, <2>2, <2>5
  <2> QED
    BY <2>3, <2>4, <2>5, <2>6 DEF a, x
<1>15. Accounts(t, s, u, q, session[s], M)
  BY <1>14 DEF Accounts
<1>16. u \in Task /\ FitsTask(u) /\ Made(M) /\ CarriesOn(t, u, M)
  BY <1>10 DEF Finishing
<1>17. missed' \in Nat
  BY <1>2, <1>4
<1> QED
  BY <1>2, <1>3, <1>6, <1>9, <1>12, <1>13, <1>15, <1>16, <1>17, TaskStep

-----------------------------------------------------------------------------
Spends(s, q) ==
    \A c \in Copies :
      ended'[c] + Count(q.items, c) + Count(q.batch, c)
        = ended[c] + Count(queue[s].items, c) + Count(queue[s].batch, c)

(* The task of the reader carries on with what it had. *)
LEMMA ReaderCarries ==
  ASSUME PacketInv
  PROVE  /\ 0 \in Tasks /\ task[0] \in Task /\ FitsTask(task[0])
         /\ CarriesOn(0, task[0], {}) /\ Made({})
         /\ UNCHANGED task => task' = [task EXCEPT ![0] = task[0]]
<1>1. /\ 0 \in Tasks /\ task[0] \in Task /\ FitsTask(task[0]) /\ task \in [Tasks -> Task]
  BY PacketTypes, PacketConstants
<1>2. CarriesOn(0, task[0], {})
  <2>1. task[0].step # "rest" => task[0].copy[1] <= injected
    BY DEF PacketInv, FoundOnce
  <2> QED
    BY <2>1 DEF CarriesOn
<1> QED
  BY <1>1, <1>2, NothingMade

(* A step of the writer of a session. *)
LEMMA QueueStep ==
  ASSUME NEW s \in Sessions, NEW q \in Queue, PacketInv, FitsQueue(q),
         SetQueue(s, q), ended' \in [Copies -> Nat], Spends(s, q)
  PROVE  PacketInv'
<1>1. /\ queue' = [queue EXCEPT ![s] = q]
      /\ UNCHANGED <<injected, scheduler, session, table, task, missed>>
  BY DEF SetQueue
<1>2. /\ queue[s] \in Queue /\ session[s] \in Session /\ missed \in Nat
      /\ ended \in [Copies -> Nat]
  BY PacketTypes
<1> DEFINE u == task[0]
<1>3. /\ 0 \in Tasks /\ u \in Task /\ FitsTask(u) /\ CarriesOn(0, u, {}) /\ Made({})
      /\ task' = [task EXCEPT ![0] = u]
  BY <1>1, ReaderCarries
<1>4. ASSUME NEW c \in Copies
      PROVE  ended'[c] + Weight(u, c) + InQueue(q, session[s], c)
               = ended[c] + Weight(task[0], c) + InQueue(queue[s], session[s], c)
                 + (IF c \in {} THEN 1 ELSE 0)
  <2> DEFINE a == ended[c]
             b == ended'[c]
             w == Weight(task[0], c)
             f == Count(queue[s].items, c)
             g == Count(queue[s].batch, c)
             h == Count(session[s].stolen, c)
             i == Count(q.items, c)
             j == Count(q.batch, c)
  <2>1. /\ a \in Nat /\ b \in Nat /\ w \in Nat /\ f \in Nat /\ g \in Nat /\ h \in Nat
        /\ i \in Nat /\ j \in Nat
    BY <1>2, InQueueType DEF Weight
  <2>2. b + i + j = a + f + g
    BY DEF Spends
  <2>3. /\ InQueue(q, session[s], c) = i + j + h
        /\ InQueue(queue[s], session[s], c) = f + g + h /\ Weight(u, c) = w
    BY DEF InQueue
  <2> HIDE DEF a, b, w, f, g, h, i, j
  <2>4. b + w + (i + j + h) = a + w + (f + g + h) + 0
    BY <2>1, <2>2
  <2> QED
    BY <2>3, <2>4 DEF a, b, w
<1>5. Accounts(0, s, u, q, session[s], {})
  BY <1>4 DEF Accounts
<1>6. missed' \in Nat
  BY <1>1, <1>2
<1> HIDE DEF u
<1> QED
  BY <1>1, <1>3, <1>5, <1>6, TaskStep

(* A writer that takes nothing from its queue. *)
LEMMA SenderStep ==
  ASSUME NEW s \in Sessions, NEW q \in Queue, PacketInv, SetQueue(s, q), UNCHANGED ended,
         q.items = queue[s].items, q.batch = queue[s].batch,
         q.writer # "sending", queue[s].writer # "sending"
  PROVE  PacketInv'
<1>1. ended \in [Copies -> Nat] /\ FitsQueue(queue[s]) /\ queue[s] \in Queue
  BY PacketTypes
<1>2. FitsQueue(q)
  BY <1>1 DEF FitsQueue
<1>3. Spends(s, q)
  BY DEF Spends
<1> QED
  BY <1>1, <1>2, <1>3, QueueStep

(* The batch is sent or lost. *)
LEMMA BatchEnds ==
  ASSUME NEW s \in Sessions, NEW q \in Queue, PacketInv, SetQueue(s, q),
         ended' = Ends(queue[s].batch), q.items = queue[s].items, q.batch = <<>>
  PROVE  PacketInv'
<1>1. ended \in [Copies -> Nat] /\ FitsQueue(queue[s]) /\ queue[s] \in Queue
  BY PacketTypes
<1>2. queue[s].batch \in Seq(Copies)
  BY <1>1 DEF Queue
<1>3. ended' \in [Copies -> Nat]
      /\ \A c \in Copies : ended'[c] = ended[c] + Count(queue[s].batch, c)
  BY <1>1, <1>2, EndsIs
<1>4. FitsQueue(q)
  BY <1>1 DEF FitsQueue
<1>5. ASSUME NEW c \in Copies
      PROVE  ended'[c] + Count(q.items, c) + Count(q.batch, c)
               = ended[c] + Count(queue[s].items, c) + Count(queue[s].batch, c)
  <2> DEFINE a == ended[c]
             f == Count(queue[s].items, c)
             g == Count(queue[s].batch, c)
  <2>1. a \in Nat /\ f \in Nat /\ g \in Nat
    <3>1. session[s] \in Session
      BY PacketTypes
    <3> QED
      BY <1>1, <3>1, InQueueType
  <2>2. ended'[c] = a + g /\ Count(q.items, c) = f /\ Count(q.batch, c) = 0
    BY <1>3, CountEmpty
  <2> HIDE DEF a, f, g
  <2>3. (a + g) + f + 0 = a + f + g
    BY <2>1
  <2> QED
    BY <2>2, <2>3 DEF a, f, g
<1>6. Spends(s, q)
  BY <1>5 DEF Spends
<1> QED
  BY <1>3, <1>4, <1>6, QueueStep

(* The writer takes all that is queued as its batch. *)
LEMMA TakeBatchStep ==
  ASSUME NEW s \in Sessions, PacketInv, TakeBatch(s)
  PROVE  PacketInv'
<1> DEFINE i == queue[s].items
           q == [queue[s] EXCEPT !.items = <<>>, !.writer = "sending", !.batch = i]
<1>1. /\ ended \in [Copies -> Nat] /\ FitsQueue(queue[s]) /\ queue[s] \in Queue
      /\ session[s] \in Session
  BY PacketTypes
<1>2. SetQueue(s, q) /\ UNCHANGED ended /\ queue[s].writer = "running"
  BY DEF TakeBatch, Receiving
<1>3. i \in Seq(Copies) /\ <<>> \in Seq(Copies)
  BY <1>1, EmptySeq DEF Queue
<1>4. q \in Queue /\ q.items = <<>> /\ q.batch = i /\ q.writer = "sending"
  BY <1>1, <1>3 DEF Queue
<1>5. queue[s].batch = <<>>
  BY <1>1, <1>2 DEF FitsQueue
<1>6. i = queue[s].items
  OBVIOUS
<1> HIDE DEF q, i
<1>7. FitsQueue(q)
  <2>1. Len(<<>>) <= QueueCapacity
    BY PacketConstants, EmptySeq
  <2> QED
    BY <1>4, <2>1 DEF FitsQueue
<1>8. ASSUME NEW c \in Copies
      PROVE  ended'[c] + Count(q.items, c) + Count(q.batch, c)
               = ended[c] + Count(queue[s].items, c) + Count(queue[s].batch, c)
  <2> DEFINE a == ended[c]
             f == Count(i, c)
  <2>1. a \in Nat /\ f \in Nat
    BY <1>1, <1>3, CountType
  <2>2. /\ ended'[c] = a /\ Count(q.items, c) = 0 /\ Count(q.batch, c) = f
        /\ Count(queue[s].items, c) = f /\ Count(queue[s].batch, c) = 0
    BY <1>2, <1>4, <1>5, <1>6, CountEmpty
  <2> HIDE DEF a, f
  <2>3. a + 0 + f = a + f + 0
    BY <2>1
  <2> QED
    BY <2>2, <2>3 DEF a
<1>9. Spends(s, q)
  BY <1>8 DEF Spends
<1> QED
  BY <1>1, <1>2, <1>4, <1>7, <1>9, QueueStep

(* Each step of the writer of a session keeps the invariant. *)
LEMMA SenderSteps ==
  ASSUME NEW s \in Sessions, PacketInv,
         Writes(s) \/ WriterCommanded(s) \/ WriterFails(s)
  PROVE  PacketInv'
<1>1. queue[s] \in Queue
  BY PacketTypes
<1>2. <<>> \in Seq(Copies)
  BY EmptySeq
<1>3. CASE TakeBatch(s)
  BY <1>3, TakeBatchStep
<1>4. CASE Flushed(s)
  <2> DEFINE q == [queue[s] EXCEPT !.batch = <<>>, !.writer = "running"]
  <2>1. q \in Queue /\ q.items = queue[s].items /\ q.batch = <<>>
    BY <1>1, <1>2 DEF Queue
  <2>2. SetQueue(s, q) /\ ended' = Ends(queue[s].batch)
    BY <1>4 DEF Flushed
  <2> HIDE DEF q
  <2> QED
    BY <2>1, <2>2, BatchEnds
<1>5. CASE WriterSleeps(s)
  <2> DEFINE q == [queue[s] EXCEPT !.writer = "asleep"]
  <2>1. /\ q \in Queue /\ q.items = queue[s].items /\ q.batch = queue[s].batch
        /\ q.writer = "asleep"
    BY <1>1 DEF Queue
  <2>2. SetQueue(s, q) /\ UNCHANGED ended /\ queue[s].writer = "running"
    BY <1>5 DEF WriterSleeps, Receiving
  <2> HIDE DEF q
  <2> QED
    BY <2>1, <2>2, SenderStep
<1>6. CASE WriterWakes(s)
  <2> DEFINE q == [queue[s] EXCEPT !.writer = "running", !.permit = FALSE]
  <2>1. /\ q \in Queue /\ q.items = queue[s].items /\ q.batch = queue[s].batch
        /\ q.writer = "running"
    BY <1>1 DEF Queue
  <2>2. SetQueue(s, q) /\ UNCHANGED ended /\ queue[s].writer = "asleep"
    BY <1>6 DEF WriterWakes
  <2> HIDE DEF q
  <2> QED
    BY <2>1, <2>2, SenderStep
<1>7. CASE WriterCommanded(s)
  <2> DEFINE q == [queue[s] EXCEPT !.writer = "running"]
  <2>1. /\ q \in Queue /\ q.items = queue[s].items /\ q.batch = queue[s].batch
        /\ q.writer = "running"
    BY <1>1 DEF Queue
  <2>2. SetQueue(s, q) /\ UNCHANGED ended /\ queue[s].writer = "asleep"
    BY <1>7 DEF WriterCommanded
  <2> HIDE DEF q
  <2> QED
    BY <2>1, <2>2, SenderStep
<1>8. CASE WriterFails(s)
  <2> DEFINE q == [queue[s] EXCEPT !.batch = <<>>, !.writer = "gone"]
  <2>1. q \in Queue /\ q.items = queue[s].items /\ q.batch = <<>>
    BY <1>1, <1>2 DEF Queue
  <2>2. SetQueue(s, q) /\ ended' = Ends(queue[s].batch)
    BY <1>8 DEF WriterFails
  <2> HIDE DEF q
  <2> QED
    BY <2>1, <2>2, BatchEnds
<1> QED
  BY <1>3, <1>4, <1>5, <1>6, <1>7, <1>8 DEF Writes

-----------------------------------------------------------------------------
(* The registration follows the life of a session. *)
LEMMA RegisteredStays ==
  ASSUME NEW s \in Sessions, NEW e \in Session, PacketInv,
         session' = [session EXCEPT ![s] = e], e.worker = session[s].worker,
         session[s].life \notin {"unborn", "over"}, e.life # "unborn",
         \/ table' = table
         \/ table' = table \ {s} /\ e.life = "over"
  PROVE  Registered'
<1>1. session \in [Sessions -> Session] /\ Registered
  BY PacketTypes DEF PacketInv
<1>2. session'[s] = e /\ \A o \in Sessions \ {s} : session'[o] = session[o]
  BY <1>1
<1>3. Born(session') = Born(session)
  BY <1>2 DEF Born
<1>4. table' \subseteq table /\ table \subseteq Sessions
  BY PacketTypes
<1>5. \A o \in Sessions : session'[o].worker = session[o].worker
  BY <1>2
<1>6. \A o \in Sessions : session'[o].life \notin {"unborn", "over"} => o \in table'
  BY <1>1, <1>2 DEF Registered
<1>7. \A r, o \in table' : session'[r].worker = session'[o].worker => r = o
  BY <1>1, <1>4, <1>5 DEF Registered
<1>8. Born(session') = 1 .. Cardinality(Born(session'))
  BY <1>1, <1>3 DEF Registered
<1> QED
  BY <1>6, <1>7, <1>8 DEF Registered, Sessions, Born

(* A step of the life of a session, which moves no packet. *)
LEMMA LifeStep ==
  ASSUME NEW s \in Sessions, NEW e \in Session, PacketInv,
         UNCHANGED <<injected, scheduler, queue, task, ended>>,
         session' = [session EXCEPT ![s] = e],
         e.stolen = session[s].stolen, FitsSession(e),
         table' \subseteq Sessions, missed' \in Nat, Registered'
  PROVE  PacketInv'
<1> DEFINE u == task[0]
           q == queue[s]
<1>1. /\ q \in Queue /\ FitsQueue(q) /\ session[s] \in Session
      /\ ended \in [Copies -> Nat] /\ queue \in [Sessions -> Queue]
  BY PacketTypes
<1>2. /\ 0 \in Tasks /\ u \in Task /\ FitsTask(u) /\ CarriesOn(0, u, {}) /\ Made({})
      /\ task' = [task EXCEPT ![0] = u]
  BY ReaderCarries
<1>3. queue' = [queue EXCEPT ![s] = q]
  BY <1>1
<1>4. ASSUME NEW c \in Copies
      PROVE  ended'[c] + Weight(u, c) + InQueue(q, e, c)
               = ended[c] + Weight(task[0], c) + InQueue(queue[s], session[s], c)
                 + (IF c \in {} THEN 1 ELSE 0)
  <2> DEFINE a == ended[c]
             w == Weight(task[0], c)
             f == InQueue(queue[s], session[s], c)
  <2>1. a \in Nat /\ w \in Nat /\ f \in Nat
    BY <1>1, InQueueType DEF Weight
  <2>2. ended'[c] = a /\ Weight(u, c) = w /\ InQueue(q, e, c) = f
    BY DEF InQueue
  <2> HIDE DEF a, w, f
  <2>3. a + w + f = a + w + f + 0
    BY <2>1
  <2> QED
    BY <2>2, <2>3 DEF a, w, f
<1>5. Accounts(0, s, u, q, e, {})
  BY <1>4 DEF Accounts
<1>6. PacketStates'
  BY <1>1 DEF PacketStates, Sessions, Copies, Packets
<1> HIDE DEF u, q
<1> QED
  BY <1>1, <1>2, <1>3, <1>5, <1>6, SessionStep

(* A session that is marked unhealthy stays registered. *)
LEMMA MarkUnhealthyStep ==
  ASSUME NEW s \in Sessions, PacketInv, MarkUnhealthy(s)
  PROVE  PacketInv'
<1> DEFINE e == [session[s] EXCEPT !.life = "ending"]
<1>1. session[s] \in Session /\ FitsSession(session[s]) /\ table \subseteq Sessions
      /\ missed \in Nat
  BY PacketTypes
<1>2. session[s].life = "live"
  BY DEF MarkUnhealthy, Healthy
<1>3. /\ UNCHANGED <<injected, scheduler, queue, task, ended, missed, table>>
      /\ session' = [session EXCEPT ![s] = e]
  BY DEF MarkUnhealthy, SetSession
<1>4. /\ e \in Session /\ e.life = "ending" /\ e.worker = session[s].worker
      /\ e.stolen = session[s].stolen
  BY <1>1 DEF Session, Lives
<1> HIDE DEF e
<1>5. FitsSession(e)
  BY <1>1, <1>2, <1>4 DEF FitsSession
<1>6. Registered'
  BY <1>2, <1>3, <1>4, RegisteredStays
<1>7. table' \subseteq Sessions /\ missed' \in Nat
  BY <1>1, <1>3
<1> QED
  BY <1>3, <1>4, <1>5, <1>6, <1>7, LifeStep

(* A session that has handed over leaves the table. *)
LEMMA UnregisterStep ==
  ASSUME NEW s \in Sessions, PacketInv, Unregister(s)
  PROVE  PacketInv'
<1> DEFINE e == [session[s] EXCEPT !.life = "over"]
<1>1. session[s] \in Session /\ FitsSession(session[s]) /\ table \subseteq Sessions
      /\ missed \in Nat
  BY PacketTypes
<1>2. session[s].life = "handing over" /\ session[s].stolen = <<>>
  BY DEF Unregister
<1>3. /\ UNCHANGED <<injected, scheduler, queue, task, ended, missed>>
      /\ session' = [session EXCEPT ![s] = e] /\ table' = table \ {s}
  BY DEF Unregister, SetSession
<1>4. /\ e \in Session /\ e.life = "over" /\ e.worker = session[s].worker
      /\ e.stolen = session[s].stolen
  BY <1>1 DEF Session, Lives
<1> HIDE DEF e
<1>5. FitsSession(e)
  BY <1>2, <1>4 DEF FitsSession
<1>6. Registered'
  BY <1>2, <1>3, <1>4, RegisteredStays
<1>7. table' \subseteq Sessions /\ missed' \in Nat
  BY <1>1, <1>3
<1> QED
  BY <1>3, <1>4, <1>5, <1>6, <1>7, LifeStep

(* The next session is the first that is unborn. *)
LEMMA RegisterStep ==
  ASSUME NEW w \in Workers, PacketInv, Register(w)
  PROVE  PacketInv'
<1> DEFINE n == Cardinality(Born(session))
           s == n + 1
           e == [session[s] EXCEPT !.life = "live", !.worker = w]
<1>1. /\ session \in [Sessions -> Session] /\ table \subseteq Sessions /\ Registered
      /\ \A o \in Sessions : FitsSession(session[o])
  BY PacketTypes DEF PacketInv
<1>2. /\ s \in Sessions /\ \A r \in Sessions : ~Serves(r, w)
      /\ session' = [session EXCEPT ![s].life = "live", ![s].worker = w]
      /\ table' = {r \in table : session[r].worker # w} \cup {s}
      /\ missed' = 0 /\ UNCHANGED <<injected, scheduler, queue, task, ended>>
  BY DEF Register, Born
<1>3. n \in Nat
  <2>1. Born(session) \subseteq Sessions
    BY DEF Born
  <2>2. IsFiniteSet(Born(session))
    BY <2>1, PacketConstants, FS_Subset
  <2> QED
    BY <2>2, FS_CardinalityType
<1>4. Born(session) = 1 .. n
  BY <1>1 DEF Registered
<1>5. session' = [session EXCEPT ![s] = e]
  BY <1>1, <1>2
<1> HIDE DEF n
<1>6. s \notin Born(session)
  BY <1>3, <1>4
<1>7. s \in Sessions /\ session[s] \in Session /\ FitsSession(session[s])
  BY <1>1, <1>2
<1>8. session[s].life = "unborn"
  BY <1>6, <1>7 DEF Born
<1>9. /\ e \in Session /\ e.life = "live" /\ e.worker = w /\ e.stolen = session[s].stolen
  BY <1>7 DEF Session, Lives
<1>10. s = n + 1
  OBVIOUS
<1> HIDE DEF e, s
<1>11. FitsSession(e)
  BY <1>7, <1>8, <1>9 DEF FitsSession
<1>12. session'[s] = e /\ \A o \in Sessions \ {s} : session'[o] = session[o]
  BY <1>1, <1>5, <1>7
<1>13. Registered'
  <2>1. Born(session') = Born(session) \cup {s}
    BY <1>7, <1>9, <1>12 DEF Born
  <2>2. Born(session') = 1 .. s
    BY <1>3, <1>4, <1>10, <2>1
  <2>3. Cardinality(1 .. s) = s
    <3>1. s \in Nat
      BY <1>3, <1>10
    <3> QED
      BY <3>1, FS_Interval
  <2>4. Born(session') = 1 .. Cardinality(Born(session'))
    BY <2>2, <2>3
  <2>5. ASSUME NEW o \in Sessions, session'[o].life \notin {"unborn", "over"}
        PROVE  o \in table'
    <3>1. CASE o = s
      BY <1>2, <3>1
    <3>2. CASE o # s
      <4>1. session'[o] = session[o]
        BY <1>12, <3>2
      <4>2. o \in table
        BY <1>1, <2>5, <4>1 DEF Registered
      <4>3. session[o].worker # w
        BY <1>2, <2>5, <4>1 DEF Serves
      <4> QED
        BY <1>2, <4>2, <4>3
    <3> QED
      BY <3>1, <3>2
  <2>6. ASSUME NEW r \in table', NEW o \in table', session'[r].worker = session'[o].worker
        PROVE  r = o
    <3>1. /\ r = s \/ (r \in table /\ session[r].worker # w)
          /\ o = s \/ (o \in table /\ session[o].worker # w)
      BY <1>2
    <3>2. \A x \in Sessions \ {s} : session'[x].worker = session[x].worker
      BY <1>12
    <3>3. session'[s].worker = w
      BY <1>9, <1>12
    <3> QED
      BY <1>1, <2>6, <3>1, <3>2, <3>3 DEF Registered
  <2> QED
    BY <2>4, <2>5, <2>6 DEF Registered, Born, Sessions
<1>14. table' \subseteq Sessions /\ missed' \in Nat
  BY <1>1, <1>2, <1>7
<1> QED
  BY <1>2, <1>5, <1>7, <1>9, <1>11, <1>13, <1>14, LifeStep

(* What was queued is stolen, and the batch of the writer is lost. *)
LEMMA StopAndDrainStep ==
  ASSUME NEW s \in Sessions, PacketInv, StopAndDrain(s)
  PROVE  PacketInv'
<1> DEFINE i == queue[s].items
           e == [session[s] EXCEPT !.life = "handing over", !.stolen = i]
           q == [NewQueue EXCEPT !.writer = "gone"]
           u == task[0]
<1>1. /\ session[s] \in Session /\ FitsSession(session[s]) /\ table \subseteq Sessions
      /\ missed \in Nat /\ queue[s] \in Queue /\ FitsQueue(queue[s])
      /\ ended \in [Copies -> Nat]
  BY PacketTypes
<1>2. /\ session[s].life = "ending" /\ ended' = Ends(queue[s].batch)
      /\ queue' = [queue EXCEPT ![s] = q] /\ session' = [session EXCEPT ![s] = e]
      /\ UNCHANGED <<table, task, injected, scheduler, missed>>
  BY DEF StopAndDrain, SetSession
<1>3. i \in Seq(Copies) /\ queue[s].batch \in Seq(Copies) /\ <<>> \in Seq(Copies)
  BY <1>1, EmptySeq DEF Queue
<1>4. q \in Queue /\ q.items = <<>> /\ q.batch = <<>>
  BY <1>3 DEF NewQueue, Queue
<1>5. FitsQueue(q)
  <2>1. Len(<<>>) <= QueueCapacity
    BY PacketConstants, EmptySeq
  <2> HIDE DEF q
  <2> QED
    BY <1>4, <2>1 DEF FitsQueue
<1>6. /\ e \in Session /\ e.life = "handing over" /\ e.worker = session[s].worker
      /\ e.stolen = i
  BY <1>1, <1>3 DEF Session, Lives
<1>7. i = queue[s].items /\ session[s].stolen = <<>>
  BY <1>1, <1>2 DEF FitsSession
<1>8. /\ 0 \in Tasks /\ u \in Task /\ FitsTask(u) /\ CarriesOn(0, u, {}) /\ Made({})
      /\ task' = [task EXCEPT ![0] = u]
  BY <1>2, ReaderCarries
<1>9. /\ ended' \in [Copies -> Nat]
      /\ \A c \in Copies : ended'[c] = ended[c] + Count(queue[s].batch, c)
  BY <1>1, <1>2, <1>3, EndsIs
<1>10. u = task[0]
  OBVIOUS
<1> HIDE DEF e, q, i, u
<1>11. FitsSession(e)
  BY <1>6 DEF FitsSession
<1>12. ASSUME NEW c \in Copies
       PROVE  ended'[c] + Weight(u, c) + InQueue(q, e, c)
                = ended[c] + Weight(task[0], c) + InQueue(queue[s], session[s], c)
                  + (IF c \in {} THEN 1 ELSE 0)
  <2> DEFINE a == ended[c]
             w == Weight(u, c)
             f == Count(i, c)
             g == Count(queue[s].batch, c)
  <2>1. a \in Nat /\ w \in Nat /\ f \in Nat /\ g \in Nat
    BY <1>1, <1>3, CountType DEF Weight
  <2>2. /\ ended'[c] = a + g /\ Weight(task[0], c) = w
    BY <1>9, <1>10
  <2>3. /\ InQueue(q, e, c) = 0 + 0 + f
        /\ InQueue(queue[s], session[s], c) = f + g + 0
    BY <1>4, <1>6, <1>7, CountEmpty DEF InQueue
  <2> HIDE DEF a, w, f, g
  <2>4. (a + g) + w + (0 + 0 + f) = a + w + (f + g + 0) + 0
    BY <2>1
  <2> QED
    BY <2>2, <2>3, <2>4 DEF a, w
<1>13. Accounts(0, s, u, q, e, {})
  BY <1>12 DEF Accounts
<1>14. Registered'
  BY <1>2, <1>6, RegisteredStays
<1>15. PacketStates'
  BY <1>1, <1>2, <1>9 DEF PacketStates, Sessions, Copies, Packets
<1> QED
  BY <1>2, <1>4, <1>5, <1>6, <1>8, <1>11, <1>13, <1>14, <1>15, SessionStep

(* Each registered session has a place in the list of the workers. *)
LEMMA TableSlots ==
  ASSUME PacketInv
  PROVE  /\ Slots(table) \in Seq(Sessions)
         /\ table # {} => Slots(table) # <<>>
         /\ \A s \in table : \E i \in DOMAIN Slots(table) : Slots(table)[i] = s
<1>1. table \subseteq Sessions /\ session \in [Sessions -> Session]
  BY PacketTypes
<1>2. \A x \in table : Id(x) \in Workers
  BY <1>1 DEF Id, Session
<1>3. Distinct(table)
  BY DEF PacketInv, Registered, Distinct, Id
<1> QED
  BY <1>1, <1>2, <1>3, SlotsFacts

(* A stolen packet goes to a task of its own. *)
LEMMA RedispatchStep ==
  ASSUME NEW s \in Sessions, PacketInv, Redispatch(s)
  PROVE  PacketInv'
<1> DEFINE i == session[s].stolen
           c == Head(i)
           e == [session[s] EXCEPT !.stolen = Tail(i)]
           q == queue[s]
           u == Enqueue(c, Slots(table), 0)
<1>1. /\ session[s] \in Session /\ FitsSession(session[s]) /\ table \subseteq Sessions
      /\ missed \in Nat /\ q \in Queue /\ FitsQueue(q) /\ queue \in [Sessions -> Queue]
      /\ ended \in [Copies -> Nat] /\ s \in Tasks /\ s # 0
  BY PacketTypes, PacketConstants
<1>2. /\ session[s].life = "handing over" /\ i # <<>> /\ task[s].step = "rest"
      /\ session' = [session EXCEPT ![s] = e] /\ task' = [task EXCEPT ![s] = u]
      /\ UNCHANGED <<table, queue, ended, injected, scheduler, missed>>
  BY DEF Redispatch, SetSession
<1>3. i \in Seq(Copies)
  BY <1>1 DEF Session
<1>4. c \in Copies /\ Tail(i) \in Seq(Copies)
  <2> HIDE DEF i
  <2> QED
    BY <1>2, <1>3, HeadTailProperties
<1>5. \A d : Count(i, d) = Count(Tail(i), d) + (IF c = d THEN 1 ELSE 0)
  <2> HIDE DEF i
  <2> QED
    BY <1>2, <1>3, CountTail
<1>6. s \in table
  BY <1>2 DEF PacketInv, Registered
<1>7. Slots(table) \in Seq(Sessions) /\ Slots(table) # <<>>
  BY <1>6, TableSlots
<1>8. u \in Task /\ u.step = "look" /\ u.copy = c /\ u.workers # <<>>
  <2> HIDE DEF c
  <2> QED
    BY <1>4, <1>7, EnqueueType
<1>9. /\ e \in Session /\ e.life = "handing over" /\ e.worker = session[s].worker
      /\ e.stolen = Tail(i)
  BY <1>1, <1>2, <1>4 DEF Session, Lives
<1>10. queue' = [queue EXCEPT ![s] = q]
  BY <1>1, <1>2
<1>11. i = session[s].stolen /\ q = queue[s]
  OBVIOUS
<1> HIDE DEF e, q, i, u, c
<1>12. FitsSession(e) /\ FitsTask(u)
  BY <1>8, <1>9 DEF FitsSession, FitsTask
<1>13. ASSUME NEW d \in Copies
       PROVE  ended'[d] + Weight(u, d) + InQueue(q, e, d)
                = ended[d] + Weight(task[s], d) + InQueue(queue[s], session[s], d)
                  + (IF d \in {} THEN 1 ELSE 0)
  <2> DEFINE a == ended[d]
             x == IF c = d THEN 1 ELSE 0
             f == Count(q.items, d)
             g == Count(q.batch, d)
             h == Count(Tail(i), d)
  <2>1. a \in Nat /\ x \in Nat /\ f \in Nat /\ g \in Nat
    BY <1>1, InQueueType
  <2>2. h \in Nat
    BY <1>4, CountType
  <2>3. ended'[d] = a /\ Weight(u, d) = x /\ Weight(task[s], d) = 0
    BY <1>2, <1>8 DEF Weight, Carrying
  <2>4. /\ InQueue(q, e, d) = f + g + h
        /\ InQueue(queue[s], session[s], d) = f + g + (h + x)
    BY <1>5, <1>9, <1>11 DEF InQueue
  <2> HIDE DEF a, x, f, g, h
  <2>5. a + x + (f + g + h) = a + 0 + (f + g + (h + x)) + 0
    BY <2>1, <2>2
  <2> QED
    BY <2>3, <2>4, <2>5 DEF a
<1>14. Accounts(s, s, u, q, e, {})
  BY <1>13 DEF Accounts
<1>15. CarriesOn(s, u, {})
  BY <1>1 DEF CarriesOn
<1>16. Registered'
  BY <1>2, <1>9, RegisteredStays
<1>17. PacketStates'
  BY <1>1, <1>2 DEF PacketStates, Sessions, Copies, Packets
<1> QED
  BY <1>1, <1>2, <1>8, <1>9, <1>10, <1>12, <1>14, <1>15, <1>16, <1>17, NothingMade, SessionStep

-----------------------------------------------------------------------------
(* The cursor is in range. *)
Points(sch) == sch.workers # <<>> => sch.current < Len(sch.workers)

(* At the end of a chunk the reader has the table as it is, else what it   *)
(* had.                                                                    *)
LEMMA RefreshedIs ==
  ASSUME PacketInv
  PROVE  /\ Refreshed(scheduler) \in Scheduler /\ Points(Refreshed(scheduler))
         /\ Refreshed(scheduler).remaining = scheduler.remaining
         /\ scheduler.remaining = 0 => Refreshed(scheduler).workers = Slots(table)
         /\ scheduler.remaining # 0 => Refreshed(scheduler) = scheduler
<1> DEFINE w == Slots(table)
           n == IF Len(w) = Len(scheduler.workers) THEN scheduler.current ELSE 0
           r == [scheduler EXCEPT !.workers = w, !.current = n]
<1>1. scheduler \in Scheduler /\ Points(scheduler)
  BY PacketTypes DEF PacketInv, InRange, Points
<1>2. w \in Seq(Sessions)
  BY TableSlots
<1>3. CASE scheduler.remaining # 0
  <2>1. Refreshed(scheduler) = scheduler
    BY <1>3 DEF Refreshed
  <2> QED
    BY <1>1, <1>3, <2>1
<1>4. CASE scheduler.remaining = 0
  <2>1. Refreshed(scheduler) = r
    BY <1>4 DEF Refreshed
  <2> HIDE DEF w
  <2>2. n \in Nat
    BY <1>1 DEF Scheduler
  <2>3. w # <<>> => n < Len(w)
    <3>1. Len(w) \in Nat /\ (w # <<>> => Len(w) > 0)
      BY <1>2, EmptySeq, LenProperties
    <3>2. scheduler.workers \in Seq(Sessions)
      BY <1>1 DEF Scheduler
    <3>3. Len(scheduler.workers) > 0 => scheduler.workers # <<>>
      BY EmptySeq
    <3>4. Len(w) = Len(scheduler.workers) /\ w # <<>> => scheduler.current < Len(w)
      BY <1>1, <3>1, <3>3 DEF Points
    <3> QED
      BY <3>1, <3>4
  <2> HIDE DEF n
  <2>4. /\ r \in Scheduler /\ r.workers = w /\ r.current = n
        /\ r.remaining = scheduler.remaining
    BY <1>1, <1>2, <2>2 DEF Scheduler
  <2> HIDE DEF r
  <2> QED
    BY <1>4, <2>1, <2>3, <2>4 DEF Points, w
<1> QED
  BY <1>3, <1>4

(* A ticket counts down the chunk and moves the cursor within the list. *)
LEMMA TicketedIs ==
  ASSUME NEW sch \in Scheduler, Points(sch), sch.workers # <<>>
  PROVE  /\ Ticketed(sch) \in Scheduler /\ Points(Ticketed(sch))
         /\ Ticketed(sch).workers = sch.workers
         /\ Ticketed(sch).remaining
              = (IF sch.remaining = 0 THEN Chunk ELSE sch.remaining) - 1
<1> DEFINE m == (IF sch.remaining = 0 THEN Chunk ELSE sch.remaining) - 1
           l == Len(sch.workers)
           n == IF m > 0 THEN sch.current ELSE (sch.current + 1) % l
           r == [sch EXCEPT !.remaining = m, !.current = n]
<1>1. /\ sch.remaining \in 0 .. Chunk /\ Chunk \in Nat \ {0} /\ sch.current \in Nat
      /\ l \in Nat \ {0} /\ sch.current < l
  <2>1. sch.workers \in Seq(Sessions)
    BY DEF Scheduler
  <2>2. l \in Nat \ {0}
    BY <2>1, EmptySeq, LenProperties
  <2> QED
    BY <2>2, PacketConstants DEF Scheduler, Points
<1>2. m \in 0 .. Chunk
  <2> DEFINE x == sch.remaining
  <2>1. x \in 0 .. Chunk
    BY <1>1
  <2>2. m = (IF x = 0 THEN Chunk ELSE x) - 1
    OBVIOUS
  <2> HIDE DEF x, m
  <2> QED
    BY <1>1, <2>1, <2>2
<1>3. n \in Nat /\ n < l
  <2> DEFINE y == sch.current
  <2>1. y \in Nat /\ y < l /\ l \in Nat \ {0}
    BY <1>1
  <2>2. n = IF m > 0 THEN y ELSE (y + 1) % l
    OBVIOUS
  <2> HIDE DEF y, l, n
  <2>3. (y + 1) \in Nat
    BY <2>1
  <2>4. (y + 1) % l \in 0 .. l - 1
    BY <2>1, <2>3, Modulo
  <2> QED
    BY <2>1, <2>2, <2>4
<1>4. Ticketed(sch) = r
  BY DEF Ticketed, Counted
<1>5. l = Len(sch.workers) /\ m = (IF sch.remaining = 0 THEN Chunk ELSE sch.remaining) - 1
  OBVIOUS
<1> HIDE DEF m, n, l
<1>6. /\ r \in Scheduler /\ r.workers = sch.workers /\ r.current = n /\ r.remaining = m
  BY <1>2, <1>3 DEF Scheduler
<1> HIDE DEF r
<1> QED
  BY <1>3, <1>4, <1>5, <1>6 DEF Points

(* The packet that is read is found once, and was not there before. *)
LEMMA ReadFinds ==
  ASSUME PacketInv, PacketTyped', injected \in Nat, injected' = injected + 1,
         task[0].step = "rest",
         Others(0, 1), Accounted(0, 1, {<<injected + 1, "first">>}),
         task'[0].step # "rest" => task'[0].copy = <<injected + 1, "first">>
  PROVE  FoundOnce'
<1> DEFINE n == injected + 1
           one == <<n, "first">>
           W(c) == Whole(ended, task, queue, session, c)
           V(c) == Whole(ended', task', queue', session', c)
<1>1. FoundWell(injected, task, ended, queue, session)
  BY FoundOnceIs DEF PacketInv
<1>2. /\ \A c \in Copies : W(c) <= 1
      /\ \A p \in Packets : /\ p <= injected => W(<<p, "first">>) = 1
                            /\ p > injected => W(<<p, "first">>) = 0 /\ W(<<p, "spare">>) = 0
  BY <1>1 DEF FoundWell
<1>3. 0 \in Tasks /\ 1 \in Sessions /\ PacketTyped
  BY PacketConstants DEF PacketInv
<1>4. \A c \in Copies : V(c) = W(c) + (IF c \in {one} THEN 1 ELSE 0) /\ W(c) \in Nat
  BY <1>3, WholeChange
<1>5. n \in Packets /\ n > injected /\ one \in Copies
  BY DEF PacketTyped, Copies, Packets
<1>6. W(one) = 0 /\ W(<<n, "spare">>) = 0
  BY <1>2, <1>5
<1>7. \A p \in Packets : <<p, "first">> \in Copies /\ <<p, "spare">> \in Copies /\ p \in Nat
  BY DEF Packets, Copies
<1>8. /\ \A p : <<p, "spare">> # one
      /\ \A p : p # n => <<p, "first">> # one
  OBVIOUS
<1> HIDE DEF W, V
<1>9. \A c \in Copies : c # one => V(c) = W(c)
  BY <1>4
<1>10. V(one) = 1
  BY <1>4, <1>5, <1>6
<1>11. \A c \in Copies : V(c) <= 1
  BY <1>2, <1>9, <1>10
<1> HIDE DEF one
<1>12. ASSUME NEW p \in Packets
       PROVE  /\ p <= n => V(<<p, "first">>) = 1
              /\ p > n => V(<<p, "first">>) = 0 /\ V(<<p, "spare">>) = 0
  <2>1. CASE p = n
    <3>1. V(<<p, "first">>) = 1 /\ ~(p > n)
      BY <1>7, <1>10, <2>1 DEF one
    <3> QED
      BY <3>1
  <2>2. CASE p # n
    <3>1. /\ V(<<p, "first">>) = W(<<p, "first">>)
          /\ V(<<p, "spare">>) = W(<<p, "spare">>)
      BY <1>7, <1>8, <1>9, <2>2
    <3>2. p \in Nat /\ n = injected + 1
      BY <1>7
    <3> HIDE DEF n
    <3>3. (p <= n => p <= injected) /\ (p > n => p > injected)
      BY <2>2, <3>2
    <3> QED
      BY <1>2, <3>1, <3>3
  <2> QED
    BY <2>1, <2>2
<1>13. V(<<n, "spare">>) = 0
  BY <1>5, <1>6, <1>7, <1>8, <1>9
<1>14. task'[0].step # "rest" =>
         /\ task'[0].copy[1] <= n
         /\ task'[0].copy[2] = "first" => V(<<task'[0].copy[1], "spare">>) = 0
  <2>1. n <= n
    OBVIOUS
  <2> HIDE DEF n
  <2>2. task'[0].step # "rest" => task'[0].copy = <<n, "first">>
    BY DEF n
  <2>3. <<n, "first">>[1] = n
    OBVIOUS
  <2> QED
    BY <1>13, <2>1, <2>2, <2>3
<1>15. injected' = n
  OBVIOUS
<1> HIDE DEF n
<1>16. FoundWell(injected', task', ended', queue', session')
  BY <1>11, <1>12, <1>14, <1>15 DEF FoundWell, V
<1> QED
  BY <1>16, FoundOnceIs

(* ReadPacket: the packet is with the task of the reader, or given up. *)
LEMMA ReadPacketStep ==
  ASSUME PacketInv, ReadPacket
  PROVE  PacketInv'
<1> DEFINE n == injected + 1
           c == <<n, "first">>
           sch == Refreshed(scheduler)
           u == IF sch.workers = <<>> THEN task[0] ELSE Enqueue(c, sch.workers, sch.current)
<1>1. /\ injected \in Nat /\ n \in 0 .. MaxPackets /\ n \in Packets /\ c \in Copies
  BY PacketTypes, PacketConstants DEF ReadPacket, Packets, Copies
<1>2. /\ task[0].step = "rest" /\ injected' = n /\ Dispatch(c, sch)
      /\ UNCHANGED <<table, session, queue, missed>>
  BY DEF ReadPacket
<1>3. /\ task \in [Tasks -> Task] /\ task[0] \in Task /\ 0 \in Tasks
      /\ queue \in [Sessions -> Queue] /\ session \in [Sessions -> Session]
      /\ ended \in [Copies -> Nat] /\ 1 \in Sessions
      /\ \A t \in Tasks : FitsTask(task[t])
  BY PacketTypes, PacketConstants
<1>4. sch \in Scheduler /\ Points(sch)
  BY RefreshedIs
<1>5. <<c>> \in Seq(Copies)
  BY <1>1
<1> HIDE DEF c, sch
<1>6. ASSUME sch.workers = <<>>
      PROVE  /\ scheduler' \in Scheduler /\ Points(scheduler')
             /\ ended' = Ends(<<c>>) /\ task' = task
  BY <1>2, <1>4, <1>6 DEF Dispatch
<1>7. ASSUME sch.workers # <<>>
      PROVE  /\ scheduler' \in Scheduler /\ Points(scheduler')
             /\ ended' = ended /\ task' = [task EXCEPT ![0] = u]
             /\ u \in Task /\ u.step = "look" /\ u.copy = c /\ u.workers # <<>>
  <2>1. scheduler' = Ticketed(sch) /\ ended' = ended /\ task' = [task EXCEPT ![0] = u]
    BY <1>2, <1>7 DEF Dispatch
  <2>2. sch.workers \in Seq(Sessions) /\ sch.current \in Nat
    BY <1>4 DEF Scheduler
  <2>3. /\ u \in Task /\ u.step = "look" /\ u.copy = c /\ u.workers = sch.workers
    BY <1>1, <1>7, <2>2, EnqueueType
  <2>4. Ticketed(sch) \in Scheduler /\ Points(Ticketed(sch))
    BY <1>4, <1>7, TicketedIs
  <2> QED
    BY <1>7, <2>1, <2>3, <2>4
<1>8. /\ scheduler' \in Scheduler /\ Points(scheduler')
      /\ u \in Task /\ FitsTask(u) /\ task' = [task EXCEPT ![0] = u]
      /\ u.step # "rest" => u.copy = c
  BY <1>2, <1>3, <1>6, <1>7 DEF FitsTask
<1>9. ended' \in [Copies -> Nat]
  BY <1>3, <1>5, <1>6, <1>7, EndsIs
<1>10. ASSUME NEW d \in Copies
       PROVE  ended'[d] + Weight(u, d) = ended[d] + Weight(task[0], d) + (IF c = d THEN 1 ELSE 0)
  <2> DEFINE a == ended[d]
             x == IF c = d THEN 1 ELSE 0
  <2>1. a \in Nat /\ x \in Nat /\ Weight(task[0], d) = 0
    BY <1>2, <1>3 DEF Weight, Carrying
  <2>2. CASE sch.workers = <<>>
    <3>1. ended'[d] = a + Count(<<c>>, d)
      BY <1>3, <1>5, <1>6, <2>2, EndsIs
    <3>2. Count(<<c>>, d) = x
      BY CountOne
    <3>3. Weight(u, d) = 0
      BY <2>1, <2>2
    <3> HIDE DEF a, x
    <3> QED
      BY <2>1, <3>1, <3>2, <3>3 DEF a, x
  <2>3. CASE sch.workers # <<>>
    <3>1. ended'[d] = a /\ Weight(u, d) = x
      BY <1>7, <2>3 DEF Weight, Carrying
    <3> HIDE DEF a, x
    <3>2. a + x = a + 0 + x
      BY <2>1
    <3> QED
      BY <2>1, <3>1, <3>2 DEF a, x
  <2> QED
    BY <2>2, <2>3
<1> HIDE DEF u
<1>11. /\ task' \in [Tasks -> Task] /\ task'[0] = u
       /\ \A o \in Tasks \ {0} : task'[o] = task[o]
  BY <1>3, <1>8
<1>12. PacketTyped'
  BY <1>1, <1>2, <1>3, <1>8, <1>9, <1>11, PacketTypes DEF PacketTyped, Scheduler, Session, Queue,
     Task, Sessions, Tasks, Copies, Packets, Lives
<1>13. InRange'
  <2>1. \A o \in Tasks : FitsTask(task'[o])
    BY <1>3, <1>8, <1>11
  <2>2. \A o \in Sessions : FitsQueue(queue'[o])
    BY <1>2, PacketTypes
  <2> QED
    BY <1>8, <2>1, <2>2 DEF InRange, FitsTask, FitsQueue, Points, Tasks, Sessions
<1>14. Empties' /\ Registered'
  BY <1>2 DEF PacketInv, Empties, Registered, Born, Sessions
<1>15. Others(0, 1)
  BY <1>2, <1>11 DEF Others
<1>16. Accounted(0, 1, {c})
  <2> SUFFICES ASSUME NEW d \in Copies
               PROVE  ended'[d] + Weight(task'[0], d) + InQueue(queue'[1], session'[1], d)
                        = ended[d] + Weight(task[0], d) + InQueue(queue[1], session[1], d)
                          + (IF d \in {c} THEN 1 ELSE 0)
    BY DEF Accounted
  <2> DEFINE a == ended[d]
             b == ended'[d]
             v == Weight(task[0], d)
             w == Weight(task'[0], d)
             f == InQueue(queue[1], session[1], d)
             x == IF c = d THEN 1 ELSE 0
             y == IF d \in {c} THEN 1 ELSE 0
  <2>1. queue[1] \in Queue /\ session[1] \in Session
    BY <1>3
  <2>2. a \in Nat /\ b \in Nat /\ v \in Nat /\ w \in Nat /\ f \in Nat /\ x \in Nat /\ x = y
    BY <1>3, <1>9, <2>1, InQueueType DEF Weight
  <2>3. b + w = a + v + x
    BY <1>10, <1>11
  <2>4. InQueue(queue'[1], session'[1], d) = f
    BY <1>2
  <2> HIDE DEF a, b, v, w, f, x, y
  <2>5. b + w + f = a + v + f + y
    BY <2>2, <2>3
  <2> QED
    BY <2>4, <2>5 DEF a, b, v, w, f, y
<1>17. FoundOnce'
  <2>1. task'[0].step # "rest" => task'[0].copy = <<injected + 1, "first">>
    BY <1>8, <1>11 DEF c
  <2>2. Accounted(0, 1, {<<injected + 1, "first">>})
    BY <1>16 DEF c
  <2> QED
    BY <1>1, <1>2, <1>12, <1>15, <2>1, <2>2, ReadFinds
<1> QED
  BY <1>12, <1>13, <1>14, <1>17 DEF PacketInv

-----------------------------------------------------------------------------
(* No packet has been read at the start. *)
LEMMA PacketInitially ==
  ASSUME Init
  PROVE  PacketInv
<1>1. /\ NoTask \in Task /\ NoTask.step = "rest" /\ \A c : Weight(NoTask, c) = 0
      /\ \A t \in Tasks : task[t] = NoTask
  BY RestIsTyped DEF Init
<1>2. <<>> \in Seq(Copies) /\ <<>> \in Seq(Sessions) /\ Len(<<>>) = 0
  BY EmptySeq
<1>3. NewQueue \in Queue /\ \A s \in Sessions : queue[s] = NewQueue
  BY <1>2 DEF NewQueue, Queue, Init
<1>4. Unborn \in Session /\ \A s \in Sessions : session[s] = Unborn
  <2>1. (CHOOSE w \in Workers : TRUE) \in Workers
    BY PacketConstants
  <2> DEFINE w == CHOOSE w \in Workers : TRUE
  <2>2. Unborn = [life |-> "unborn", worker |-> w, stolen |-> <<>>]
    BY DEF Unborn
  <2> HIDE DEF w
  <2>3. w \in Workers
    BY <2>1 DEF w
  <2>4. Unborn \in Session
    BY <1>2, <2>2, <2>3 DEF Session, Lives
  <2> QED
    BY <2>4 DEF Init
<1>5. PacketTyped
  <2>1. scheduler \in Scheduler
    BY <1>2, PacketConstants DEF Init, Scheduler
  <2>2. injected \in 0 .. MaxPackets /\ missed \in Nat /\ table \subseteq Sessions
        /\ ended \in [Copies -> Nat]
    BY PacketConstants DEF Init
  <2>3. task \in [Tasks -> Task] /\ queue \in [Sessions -> Queue]
        /\ session \in [Sessions -> Session]
    BY <1>1, <1>3, <1>4 DEF Init
  <2> QED
    BY <2>1, <2>2, <2>3 DEF PacketTyped
<1>6. InRange
  <2>1. scheduler.workers = <<>>
    BY DEF Init
  <2>2. \A s \in Sessions : Len(queue[s].items) = 0
    BY <1>2, <1>3 DEF NewQueue
  <2>3. \A s \in Sessions : Len(queue[s].items) <= QueueCapacity
    <3>1. 0 <= QueueCapacity
      BY PacketConstants
    <3> QED
      BY <2>2, <3>1
  <2>4. \A t \in Tasks : task[t].step = "rest"
    BY <1>1
  <2>5. scheduler.workers # <<>> => scheduler.current < Len(scheduler.workers)
    BY <2>1
  <2>6. \A t \in Tasks : task[t].step # "rest" => task[t].workers # <<>>
    BY <2>4
  <2> QED
    BY <2>3, <2>5, <2>6 DEF InRange
<1>7. Empties
  <2>1. NewQueue.batch = <<>> /\ Unborn.stolen = <<>>
    BY DEF NewQueue, Unborn
  <2>2. \A s \in Sessions : queue[s].batch = <<>> /\ session[s].stolen = <<>>
    BY <1>3, <1>4, <2>1
  <2> QED
    BY <2>2, Zenon DEF Empties
<1>8. Registered
  <2>1. Born(session) = {}
    BY <1>4 DEF Born, Unborn
  <2>2. Cardinality(Born(session)) = 0
    BY <2>1, FS_EmptySet
  <2>3. Born(session) = 1 .. Cardinality(Born(session))
    BY <2>1, <2>2
  <2>4. table = {}
    BY DEF Init
  <2> QED
    BY <1>4, <2>3, <2>4 DEF Registered, Unborn
<1>9. FoundOnce
  <2>1. ASSUME NEW c \in Copies PROVE Whole(ended, task, queue, session, c) = 0
    <3>1. ended[c] = 0
      BY DEF Init
    <3>2. {t \in Tasks : Carrying(task[t], c)} = {}
      BY <1>1 DEF Carrying
    <3>3. Borne(task, c) = 0
      BY <3>2, FS_EmptySet DEF Borne
    <3> DEFINE F == [s \in Sessions |-> InQueue(queue[s], session[s], c)]
    <3>4. \A s \in Sessions : InQueue(queue[s], session[s], c) = 0
      <4> TAKE s \in Sessions
      <4>1. /\ queue[s].items = <<>> /\ queue[s].batch = <<>> /\ session[s].stolen = <<>>
        BY <1>3, <1>4 DEF NewQueue, Unborn
      <4>2. Count(<<>>, c) = 0
        BY CountEmpty
      <4> QED
        BY <4>1, <4>2 DEF InQueue
    <3>5. F \in [Sessions -> Nat] /\ \A s \in Sessions : F[s] = 0
      BY <3>4
    <3>6. Queued(queue, session, c) = SumFunction(F)
      BY DEF Queued
    <3> HIDE DEF F
    <3>7. SumFunction(F) = 0
      BY <3>5, SumOfNone, PacketConstants
    <3> QED
      BY <3>1, <3>3, <3>6, <3>7 DEF Whole
  <2>2. \A p \in Packets : /\ <<p, "first">> \in Copies /\ <<p, "spare">> \in Copies
                           /\ p \in Nat /\ p > 0
    BY DEF Packets, Copies
  <2>3. injected = 0 /\ task[0].step = "rest"
    BY <1>1, PacketConstants DEF Init
  <2> DEFINE W(c) == Whole(ended, task, queue, session, c)
  <2>4. \A c \in Copies : W(c) = 0
    BY <2>1
  <2> HIDE DEF W
  <2>5. /\ \A c \in Copies : W(c) <= 1
        /\ \A p \in Packets : /\ ~(p <= injected)
                              /\ W(<<p, "first">>) = 0 /\ W(<<p, "spare">>) = 0
    BY <2>2, <2>3, <2>4
  <2>6. FoundWell(injected, task, ended, queue, session)
    BY <2>3, <2>5 DEF FoundWell, W
  <2> QED
    BY <2>6, FoundOnceIs
<1> QED
  BY <1>5, <1>6, <1>7, <1>8, <1>9 DEF PacketInv

(* A step that changes nothing keeps the invariant. *)
LEMMA PacketStays ==
  ASSUME PacketInv, UNCHANGED vars
  PROVE  PacketInv'
<1>1. UNCHANGED <<injected, scheduler, table, session, queue, task, ended, missed>>
  BY DEF vars
<1>2. PacketTyped'
  BY <1>1 DEF PacketInv, PacketTyped, Scheduler, Session, Queue, Task, Sessions, Tasks, Copies,
              Packets, Lives
<1>3. InRange' /\ Empties' /\ Registered'
  BY <1>1 DEF PacketInv, InRange, Empties, Registered, Born, Tasks, Sessions
<1>4. FoundOnce'
  BY <1>1, FoundOnceIs DEF PacketInv
<1> QED
  BY <1>2, <1>3, <1>4 DEF PacketInv

(* Every step of the sessions and the tasks keeps the invariant. *)
LEMMA PacketStep ==
  ASSUME PacketInv, Next
  PROVE  PacketInv'
<1>1. CASE ReadPacket
  BY <1>1, ReadPacketStep
<1>2. CASE \E t \in Tasks : Enqueues(t)
  BY <1>2, LookStep, TrySendStep, NotifyStep, ReplaceOldestStep, ForceSendStep DEF Enqueues
<1>3. ASSUME NEW s \in Sessions,
             \/ Writes(s) \/ WriterCommanded(s) \/ WriterFails(s)
             \/ MarkUnhealthy(s) \/ HandsOver(s)
      PROVE  PacketInv'
  BY <1>3, SenderSteps, MarkUnhealthyStep, StopAndDrainStep, RedispatchStep, UnregisterStep
     DEF HandsOver
<1>4. CASE \E w \in Workers : Register(w)
  BY <1>4, RegisterStep
<1> QED
  BY <1>1, <1>2, <1>3, <1>4 DEF Next

(* So it holds in every state. *)
LEMMA PacketKept == Spec => []PacketInv
<1>1. Init => PacketInv
  BY PacketInitially
<1>2. PacketInv /\ [Next]_vars => PacketInv'
  BY PacketStep, PacketStays
<1> QED
  BY <1>1, <1>2, PTL DEF Spec

(* What has been sent or given up is a part of the whole. *)
LEMMA WholeType ==
  ASSUME NEW c \in Copies, PacketInv
  PROVE  ended[c] \in Nat /\ ended[c] <= Whole(ended, task, queue, session, c)
<1> DEFINE a == ended[c]
           b == Borne(task, c)
           d == Queued(queue, session, c)
<1>1. a \in Nat /\ b \in Nat /\ d \in Nat
  BY PacketTypes, BorneType, QueuedType
<1>2. Whole(ended, task, queue, session, c) = a + b + d
  BY DEF Whole
<1> HIDE DEF a, b, d
<1>3. a <= a + b + d
  BY <1>1
<1> QED
  BY <1>1, <1>2, <1>3 DEF a

(* A copy that is found once at most has been finished once at most. *)
LEMMA PacketInvMeans ==
  ASSUME PacketInv
  PROVE  EachCopyOnce
<1>1. /\ injected \in 0 .. MaxPackets /\ scheduler \in Scheduler /\ table \subseteq Sessions
      /\ ended \in [Copies -> Nat]
      /\ \A s \in Sessions : queue[s] \in Queue /\ session[s] \in Session
      /\ \A t \in Tasks : task[t] \in Task
  BY PacketTypes
<1>2. InRange /\ FoundOnce
  BY DEF PacketInv
<1>3. \A c \in Copies : Whole(ended, task, queue, session, c) <= 1
  BY <1>2, FoundOnceIs DEF FoundWell
<1>4. \A c \in Copies : ended[c] \in 0 .. 1
  <2> TAKE c \in Copies
  <2> DEFINE W == Whole(ended, task, queue, session, c)
  <2>1. ended[c] \in Nat /\ ended[c] <= W /\ W <= 1
    BY <1>3, WholeType
  <2>2. W \in Nat
    <3>1. Borne(task, c) \in Nat /\ Queued(queue, session, c) \in Nat
      BY PacketTypes, BorneType, QueuedType
    <3> QED
      BY <2>1, <3>1 DEF Whole
  <2> HIDE DEF W
  <2> QED
    BY <2>1, <2>2
<1>5. ended \in [Copies -> 0 .. 1]
  BY <1>1, <1>4
<1>6. TypeOK
  BY <1>1, <1>2, <1>5 DEF TypeOK, InRange, Scheduler, Session, Queue, Task
<1>7. \A p \in 1 .. injected : Found(<<p, "first">>) = 1
  <2>1. \A p \in 1 .. injected : p \in Packets /\ p <= injected
    BY <1>1, PacketConstants DEF Packets
  <2> QED
    BY <1>2, <2>1 DEF FoundOnce
<1>8. \A c \in Copies : Found(c) <= 1
  BY <1>2 DEF FoundOnce
<1> QED
  BY <1>6, <1>7, <1>8 DEF EachCopyOnce

(* A session that dies while others push to its queue neither duplicates   *)
(* what it hands over nor loses track of it: each packet that was read is  *)
(* in one place until it is sent or given up.                              *)
THEOREM EachCopyIsFoundOnce == Spec => []EachCopyOnce
<1>1. PacketInv => EachCopyOnce
  BY PacketInvMeans
<1> QED
  BY <1>1, PacketKept, PTL

-----------------------------------------------------------------------------
(* A step that gives no packet up, or one that registers a session. *)
LEMMA MissedKept ==
  ASSUME PacketInv, MissedInv, scheduler' = scheduler, missed' \in {0, missed},
         task'[0].step # "rest" => task[0].step # "rest" /\ task'[0].workers = task[0].workers,
         task'[0].step \notin {"rest", "notify"} /\ task'[0].copy[2] = "first"
           => task[0].step \notin {"rest", "notify"} /\ task[0].copy[2] = "first",
         missed' # 0 => \A s \in Sessions : session'[s].life = "live" => session[s].life = "live"
  PROVE  MissedInv'
<1> DEFINE f == Flying
           g == Flying'
           r == scheduler.remaining
<1>1. f \in Nat /\ g \in Nat /\ g <= f
  BY DEF Flying
<1>2. r \in Nat /\ missed \in Nat /\ missed' \in Nat /\ missed' <= missed /\ Chunk \in Nat
  BY PacketTypes, PacketConstants DEF Scheduler
<1>3. /\ missed <= Chunk /\ r + f <= Chunk
      /\ Stale => missed + r + f <= Chunk
  BY DEF MissedInv
<1>4. task'[0].step # "rest" => task'[0].workers = scheduler'.workers
  BY DEF MissedInv
<1>5. missed' # 0 /\ Stale' => Stale
  BY DEF Stale, Sessions
<1> HIDE DEF f, g, r
<1>6. missed' <= Chunk /\ r + g <= Chunk
  BY <1>1, <1>2, <1>3
<1>7. Stale' => missed' + r + g <= Chunk
  <2>1. CASE missed' = 0
    <3>1. 0 + r + g <= Chunk
      BY <1>1, <1>2, <1>6
    <3> QED
      BY <2>1, <3>1
  <2>2. CASE missed' # 0
    <3>1. missed + r + f <= Chunk => missed' + r + g <= Chunk
      <4> DEFINE m == missed
                 n == missed'
      <4>1. m \in Nat /\ n \in Nat /\ n <= m
        BY <1>2
      <4> HIDE DEF m, n
      <4>2. m + r + f <= Chunk => n + r + g <= Chunk
        BY <1>1, <1>2, <4>1
      <4> QED
        BY <4>2 DEF m, n
    <3> QED
      BY <1>3, <1>5, <2>2, <3>1
  <2> QED
    BY <2>1, <2>2
<1>8. scheduler'.remaining = r /\ Flying' = g
  BY DEF r, g
<1> QED
  BY <1>4, <1>6, <1>7, <1>8 DEF MissedInv

(* What follows an enqueue is a copy, for the same workers. *)
LEMMA FinishedCarries ==
  ASSUME NEW k
  PROVE  LET u == Finished(0, k)
         IN  u.step # "rest" => u.workers = k.workers /\ u.copy[2] = "spare"
<1> DEFINE c == <<k.copy[1], "spare">>
           n == (k.slot + Len(k.workers) \div 2) % Len(k.workers)
<1>1. Finished(0, k) = Enqueue(c, k.workers, n) \/ Finished(0, k) = NoTask
  BY DEF Finished, Done
<1>2. NoTask.step = "rest"
  BY DEF NoTask
<1> HIDE DEF n
<1>3. Enqueue(c, k.workers, n).workers = k.workers /\ Enqueue(c, k.workers, n).copy = c
  BY DEF Enqueue, NoTask
<1> QED
  BY <1>1, <1>2, <1>3

(* A packet is given up, and counted, only with a path that the reader     *)
(* does not know of: the task takes any other that is registered.          *)
LEMMA MissedIsStale ==
  ASSUME PacketInv, MissedInv, ReplaceOldest(0), missed' # missed
  PROVE  Stale /\ task[0].copy[2] = "first" /\ missed' = missed + 1
         /\ GivesUp(0, task[0])
<1> DEFINE k == task[0]
           open == {s \in Shortest(k) : Open(s)}
<1>1. GivesUp(0, k) /\ (k.copy[2] = "spare" \/ open = {}) /\ k.step = "replace"
  BY DEF ReplaceOldest
<1>2. /\ k.copy[2] = "first" /\ missed' = missed + 1
      /\ \E s \in table : Healthy(s)
      /\ \A s \in table : Healthy(s) => Open(s)
  BY <1>1 DEF GivesUp
<1>3. k \in Task /\ queue \in [Sessions -> Queue] /\ table \subseteq Sessions
  BY PacketTypes, PacketConstants
<1>4. Stale
  <2> SUFFICES ASSUME ~Stale PROVE FALSE
    OBVIOUS
  <2>1. PICK s \in table : Healthy(s)
    BY <1>2
  <2>2. \E i \in DOMAIN scheduler.workers : scheduler.workers[i] = s
    BY <1>3, <2>1 DEF Stale, Healthy
  <2>3. k.workers = scheduler.workers
    BY <1>1 DEF MissedInv
  <2>4. Shortest(k) # {}
    BY <1>3, <2>1, <2>2, <2>3, ShortestFacts
  <2>5. PICK x \in Shortest(k) : TRUE
    BY <2>4
  <2>6. x \in Sessions /\ Healthy(x)
    BY <1>3, <2>5, ShortestFacts
  <2>7. x \in table
    BY <2>6 DEF PacketInv, Registered, Healthy
  <2>8. x \in open
    BY <1>2, <2>5, <2>6, <2>7
  <2> QED
    BY <1>1, <1>2, <2>8
<1> QED
  BY <1>1, <1>2, <1>4

(* The steps of an enqueue keep the bound. *)
LEMMA MissedEnqueue ==
  ASSUME NEW t \in Tasks, PacketInv, MissedInv, Enqueues(t)
  PROVE  MissedInv'
<1> DEFINE k == task[0]
<1>1. /\ 0 \in Tasks /\ task \in [Tasks -> Task] /\ k \in Task
      /\ missed \in Nat
  BY PacketTypes, PacketConstants
<1>2. UNCHANGED <<scheduler, session>>
  BY DEF Enqueues, Look, TrySend, Notify, ReplaceOldest, ForceSend
<1>3. CASE t # 0
  <2>1. task'[0] = k
    BY <1>1, <1>3 DEF Enqueues, Look, TrySend, Notify, ReplaceOldest, ForceSend, GivesUp
  <2>2. missed' = missed
    BY <1>3 DEF Enqueues, Look, TrySend, Notify, ReplaceOldest, ForceSend, GivesUp
  <2> QED
    BY <1>2, <2>1, <2>2, MissedKept
<1>4. CASE t = 0
  <2>1. /\ k.step # "rest"
        /\ \/ task'[0].workers = k.workers /\ task'[0].copy = k.copy
              /\ (k.step \in {"look", "push", "replace"})
           \/ task'[0] = Finished(0, k)
    <3>1. CASE ReplaceOldest(0)
      <4>1. k.step = "replace"
        BY <3>1 DEF ReplaceOldest
      <4>2. CASE task' = [task EXCEPT ![0] = Finished(0, k)]
        BY <1>1, <4>1, <4>2
      <4>3. CASE \E s : task' = [task EXCEPT ![0].step = "force", ![0].target = s]
        BY <1>1, <4>1, <4>3 DEF Task
      <4> QED
        BY <3>1, <4>2, <4>3 DEF ReplaceOldest, GivesUp
    <3>2. CASE Look(0)
      BY <1>1, <3>2 DEF Look, Task
    <3>3. CASE TrySend(0)
      BY <1>1, <3>3 DEF TrySend, Task
    <3>4. CASE Notify(0) \/ ForceSend(0)
      BY <1>1, <3>4 DEF Notify, ForceSend
    <3> QED
      BY <1>4, <3>1, <3>2, <3>3, <3>4 DEF Enqueues
  <2>2. LET u == Finished(0, k)
        IN  u.step # "rest" => u.workers = k.workers /\ u.copy[2] = "spare"
    BY FinishedCarries
  <2>3. /\ task'[0].step # "rest" => task'[0].workers = k.workers
        /\ task'[0].step \notin {"rest", "notify"} /\ task'[0].copy[2] = "first"
             => k.step \notin {"rest", "notify"} /\ k.copy[2] = "first"
    BY <2>1, <2>2
  <2>4. CASE missed' = missed
    BY <1>2, <2>1, <2>3, <2>4, MissedKept
  <2>5. CASE missed' # missed
    <3>1. ReplaceOldest(0)
      BY <1>4, <2>5 DEF Enqueues, Look, TrySend, Notify, ForceSend
    <3>2. /\ Stale /\ k.copy[2] = "first" /\ missed' = missed + 1
          /\ k.step = "replace" /\ GivesUp(0, k)
      BY <2>5, <3>1, MissedIsStale DEF ReplaceOldest
    <3>3. task'[0] = Finished(0, k)
      BY <1>1, <3>2 DEF GivesUp
    <3>4. Flying = 1
      BY <3>2 DEF Flying
    <3>5. Flying' = 0
      BY <2>2, <3>3 DEF Flying
    <3> DEFINE r == scheduler.remaining
    <3>6. r \in Nat /\ Chunk \in Nat /\ scheduler'.remaining = r
      BY <1>2, PacketTypes, PacketConstants DEF Scheduler
    <3>7. missed + r + 1 <= Chunk
      BY <3>2, <3>4 DEF MissedInv
    <3>8. task'[0].step # "rest" => task'[0].workers = scheduler'.workers
      BY <1>2, <2>1, <2>3 DEF MissedInv
    <3> HIDE DEF r
    <3>9. missed + 1 <= Chunk /\ r + 0 <= Chunk /\ (missed + 1) + r + 0 <= Chunk
      BY <1>1, <3>6, <3>7
    <3> QED
      BY <3>2, <3>5, <3>6, <3>8, <3>9 DEF MissedInv
  <2> QED
    BY <2>4, <2>5
<1> QED
  BY <1>3, <1>4

(* The steps of a session and of its writer keep the bound. *)
LEMMA MissedSession ==
  ASSUME NEW s \in Sessions, PacketInv, MissedInv,
         \/ Writes(s) \/ WriterCommanded(s) \/ WriterFails(s)
         \/ MarkUnhealthy(s) \/ HandsOver(s)
  PROVE  MissedInv'
<1>1. /\ task \in [Tasks -> Task] /\ session \in [Sessions -> Session]
      /\ 0 \in Tasks /\ s # 0
  BY PacketTypes, PacketConstants
<1>2. UNCHANGED <<scheduler, missed>>
  BY DEF Writes, TakeBatch, Flushed, WriterSleeps, WriterWakes, WriterCommanded, WriterFails,
         SetQueue, MarkUnhealthy, HandsOver, StopAndDrain, Redispatch, Unregister, SetSession
<1>3. task'[0] = task[0]
  BY <1>1 DEF Writes, TakeBatch, Flushed, WriterSleeps, WriterWakes, WriterCommanded, WriterFails,
         SetQueue, MarkUnhealthy, HandsOver, StopAndDrain, Redispatch, Unregister, SetSession
<1>4. \A o \in Sessions : session'[o].life = "live" => session[o].life = "live"
  <2>1. CASE UNCHANGED session
    BY <2>1
  <2>2. CASE \E e : session' = [session EXCEPT ![s] = e] /\ e.life # "live"
    BY <1>1, <2>2
  <2>3. CASE Writes(s) \/ WriterCommanded(s) \/ WriterFails(s)
    BY <2>1, <2>3 DEF Writes, TakeBatch, Flushed, WriterSleeps, WriterWakes, WriterCommanded,
       WriterFails, SetQueue
  <2>4. session[s] \in Session
    BY <1>1
  <2>5. CASE MarkUnhealthy(s) \/ HandsOver(s)
    <3>1. CASE MarkUnhealthy(s)
      <4> DEFINE e == [session[s] EXCEPT !.life = "ending"]
      <4>1. session' = [session EXCEPT ![s] = e] /\ e.life # "live"
        BY <2>4, <3>1 DEF MarkUnhealthy, SetSession, Session
      <4> QED
        BY <2>2, <4>1
    <3>2. CASE StopAndDrain(s)
      <4> DEFINE e == [session[s] EXCEPT !.life = "handing over", !.stolen = queue[s].items]
      <4>1. session' = [session EXCEPT ![s] = e] /\ e.life # "live"
        BY <2>4, <3>2 DEF StopAndDrain, SetSession, Session
      <4> QED
        BY <2>2, <4>1
    <3>3. CASE Redispatch(s)
      <4> DEFINE e == [session[s] EXCEPT !.stolen = Tail(@)]
      <4>1. session' = [session EXCEPT ![s] = e] /\ e.life # "live"
        BY <2>4, <3>3 DEF Redispatch, SetSession, Session
      <4> QED
        BY <2>2, <4>1
    <3>4. CASE Unregister(s)
      <4> DEFINE e == [session[s] EXCEPT !.life = "over"]
      <4>1. session' = [session EXCEPT ![s] = e] /\ e.life # "live"
        BY <2>4, <3>4 DEF Unregister, SetSession, Session
      <4> QED
        BY <2>2, <4>1
    <3> QED
      BY <2>5, <3>1, <3>2, <3>3, <3>4 DEF HandsOver
  <2> QED
    BY <2>3, <2>5
<1> QED
  BY <1>2, <1>3, <1>4, MissedKept

(* A session that registers starts the count again. *)
LEMMA MissedRegister ==
  ASSUME NEW w \in Workers, PacketInv, MissedInv, Register(w)
  PROVE  MissedInv'
BY MissedKept DEF Register

(* A ticket that opens a chunk comes with the table as it is. *)
LEMMA MissedRead ==
  ASSUME PacketInv, MissedInv, ReadPacket
  PROVE  MissedInv'
<1> DEFINE sch == Refreshed(scheduler)
           c == <<injected + 1, "first">>
           r == scheduler.remaining
           q == scheduler'.remaining
<1>1. /\ 0 \in Tasks /\ task \in [Tasks -> Task] /\ table \subseteq Sessions
      /\ missed \in Nat /\ Chunk \in Nat \ {0} /\ r \in 0 .. Chunk
  BY PacketTypes, PacketConstants DEF Scheduler
<1>2. /\ sch \in Scheduler /\ Points(sch) /\ sch.remaining = r
      /\ r = 0 => sch.workers = Slots(table)
      /\ r # 0 => sch = scheduler
  BY RefreshedIs
<1>3. /\ task[0].step = "rest" /\ UNCHANGED <<session, table, missed>> /\ Dispatch(c, sch)
  BY DEF ReadPacket
<1>4. Flying = 0
  BY <1>3 DEF Flying
<1>5. c[2] = "first"
  OBVIOUS
<1> HIDE DEF sch, c
<1>6. scheduler'.workers = sch.workers
  BY <1>2, <1>3, TicketedIs DEF Dispatch
<1>7. task'[0].step # "rest" => task'[0].workers = scheduler'.workers
  <2>1. CASE sch.workers = <<>>
    BY <1>3, <2>1 DEF Dispatch
  <2>2. CASE sch.workers # <<>>
    <3>1. task'[0] = Enqueue(c, sch.workers, sch.current)
      BY <1>1, <1>3, <2>2 DEF Dispatch
    <3>2. Enqueue(c, sch.workers, sch.current).workers = sch.workers
      BY DEF Enqueue, NoTask
    <3> QED
      BY <1>6, <3>1, <3>2
  <2> QED
    BY <2>1, <2>2
<1>8. r = 0 => ~Stale'
  <2> SUFFICES ASSUME r = 0, Stale' PROVE FALSE
    OBVIOUS
  <2>1. PICK s \in Sessions : /\ session[s].life = "live"
                              /\ \A i \in DOMAIN scheduler'.workers : scheduler'.workers[i] # s
    BY <1>3 DEF Stale, Sessions
  <2>2. s \in table
    BY <2>1 DEF PacketInv, Registered
  <2>3. scheduler'.workers = Slots(table)
    BY <1>2, <1>6
  <2> QED
    BY <2>1, <2>2, <2>3, TableSlots
<1>9. r # 0 => (Stale' <=> Stale)
  BY <1>2, <1>3, <1>6 DEF Stale, Sessions
<1>10. /\ q \in Nat /\ Flying' \in Nat
       /\ r = 0 => q + Flying' <= Chunk
       /\ r # 0 => q + Flying' <= r
  <2>1. CASE sch.workers = <<>>
    <3>1. q = r /\ Flying' = 0
      BY <1>2, <1>3, <2>1 DEF Dispatch, Flying
    <3> QED
      BY <1>1, <3>1
  <2>2. CASE sch.workers # <<>>
    <3>1. q = (IF r = 0 THEN Chunk ELSE r) - 1
      BY <1>2, <1>3, <2>2, TicketedIs DEF Dispatch
    <3>2. Flying' \in Nat /\ Flying' <= 1
      BY DEF Flying
    <3> DEFINE g == Flying'
    <3>3. g \in Nat /\ g <= 1
      BY <3>2
    <3> HIDE DEF q, r, g
    <3>4. /\ q \in Nat
          /\ r = 0 => q + g <= Chunk
          /\ r # 0 => q + g <= r
      BY <1>1, <3>1, <3>3
    <3> QED
      BY <3>3, <3>4 DEF g
  <2> QED
    BY <2>1, <2>2
<1>11. missed <= Chunk /\ missed' = missed /\ (Stale => missed + r + 0 <= Chunk)
  BY <1>3, <1>4 DEF MissedInv
<1> DEFINE g == Flying'
<1>12. g \in Nat /\ (r = 0 => q + g <= Chunk) /\ (r # 0 => q + g <= r)
  BY <1>10
<1>13. q = scheduler'.remaining /\ q \in Nat
  BY <1>10
<1>14. q + g <= Chunk /\ missed' <= Chunk
  <2> HIDE DEF q, r, g
  <2> QED
    BY <1>1, <1>11, <1>12, <1>13
<1>15. Stale' => missed' + q + g <= Chunk
  <2>1. CASE r = 0
    BY <1>8, <2>1
  <2>2. CASE r # 0
    <3> HIDE DEF q, r, g
    <3>1. missed + r + 0 <= Chunk => missed + q + g <= Chunk
      BY <1>1, <1>12, <1>13, <2>2
    <3> QED
      BY <1>9, <1>11, <2>2, <3>1
  <2> QED
    BY <2>1, <2>2
<1> QED
  BY <1>7, <1>14, <1>15 DEF MissedInv

(* Every step keeps the bound. *)
LEMMA MissedStep ==
  ASSUME PacketInv, MissedInv, Next
  PROVE  MissedInv'
<1>1. CASE \E t \in Tasks : Enqueues(t)
  BY <1>1, MissedEnqueue
<1>2. ASSUME NEW s \in Sessions,
             \/ Writes(s) \/ WriterCommanded(s) \/ WriterFails(s)
             \/ MarkUnhealthy(s) \/ HandsOver(s)
      PROVE  MissedInv'
  BY <1>2, MissedSession
<1>3. CASE \E w \in Workers : Register(w)
  BY <1>3, MissedRegister
<1> QED
  BY <1>1, <1>2, <1>3, MissedRead DEF Next

(* A step that changes nothing keeps the bound. *)
LEMMA MissedStays ==
  ASSUME MissedInv, UNCHANGED vars
  PROVE  MissedInv'
BY DEF MissedInv, Stale, Flying, Sessions, vars

(* Nothing is missed at the start. *)
LEMMA MissedInitially ==
  ASSUME Init
  PROVE  MissedInv
<1>1. /\ 0 \in Tasks /\ task[0].step = "rest"
  BY PacketConstants DEF Init, NoTask
<1>2. Flying = 0
  BY <1>1 DEF Flying
<1>3. scheduler.remaining = 0 /\ missed = 0 /\ Chunk \in Nat
  BY PacketConstants DEF Init
<1>4. \A s \in Sessions : session[s].life = "unborn"
  <2>1. Unborn.life = "unborn"
    BY DEF Unborn
  <2> QED
    BY <2>1 DEF Init
<1>5. ~Stale
  BY <1>4 DEF Stale
<1>6. missed <= Chunk /\ scheduler.remaining + Flying <= Chunk
  BY <1>2, <1>3
<1> QED
  BY <1>1, <1>5, <1>6, Zenon DEF MissedInv

(* The reader gives up no more packets to sessions that are over, while a  *)
(* new one is registered, than are left of its chunk.                      *)
THEOREM MissedStaysBounded == Spec => []MissedIsBounded
<1>1. Init => PacketInv /\ MissedInv
  BY PacketInitially, MissedInitially
<1>2. PacketInv /\ MissedInv /\ [Next]_vars => (PacketInv /\ MissedInv)'
  BY PacketStep, PacketStays, MissedStep, MissedStays
<1>3. PacketInv /\ MissedInv => MissedIsBounded
  BY DEF MissedInv, MissedIsBounded
<1> QED
  BY <1>1, <1>2, <1>3, PTL DEF Spec

-----------------------------------------------------------------------------
(* FlowFrame.                                                              *)

(* The assumption, and what follows for the sets of numbers. *)
LEMMA FlowConstants ==
  /\ IsFiniteSet(Flows) /\ LongFlows \subseteq Flows /\ IsFiniteSet(Keys)
  /\ SequenceSpace \in Nat \ {0} /\ MaxTracked \in Nat \ {0} /\ MaxPerFlow \in Nat \ {0}
  /\ MaxTotal \in Nat \ {0} /\ MaxSenders \in Nat \ {0} /\ MaxFrames \in Nat \ {0}
  /\ MaxFrames < SequenceSpace /\ SequenceSpace >= 2
  /\ 0 \in Sequences /\ NearWrap \in Sequences
<1>1. /\ IsFiniteSet(Flows) /\ LongFlows \subseteq Flows
      /\ SequenceSpace \in Nat \ {0} /\ MaxTracked \in Nat \ {0} /\ MaxPerFlow \in Nat \ {0}
      /\ MaxTotal \in Nat \ {0} /\ MaxSenders \in Nat \ {0} /\ MaxFrames \in Nat \ {0}
      /\ SequenceSpace % 2 = 0 /\ MaxFrames < SequenceSpace \div 2
  BY FlowFrameAssumption
<1>2. SequenceSpace >= 2 /\ MaxFrames < SequenceSpace
  BY <1>1
<1>3. 0 \in Sequences /\ NearWrap \in Sequences
  BY <1>1, <1>2 DEF Sequences, NearWrap
<1>4. IsFiniteSet(Keys)
  <2>1. IsFiniteSet(1 .. MaxSenders)
    BY <1>1, FS_Interval
  <2> QED
    BY <1>1, <2>1, FS_Product DEF Keys
<1> QED
  BY <1>1, <1>2, <1>3, <1>4

(* A number and a sequence taken from each other modulo 2^32 is a sequence. *)
LEMMA Wraps ==
  ASSUME NEW a \in Int
  PROVE  a % SequenceSpace \in Sequences
<1> DEFINE n == SequenceSpace
<1>1. n \in Nat \ {0}
  BY FlowConstants
<1>2. Sequences = 0 .. n - 1
  BY DEF Sequences
<1> HIDE DEF n
<1>3. a % n \in 0 .. n - 1
  BY <1>1
<1> QED
  BY <1>2, <1>3 DEF n

(* Numbers that are less than 2^32 apart are not the same sequence. *)
LEMMA WrapsApart ==
  ASSUME NEW a \in Nat, NEW b \in Nat, a < b, b - a < SequenceSpace
  PROVE  a % SequenceSpace # b % SequenceSpace
<1> DEFINE n == SequenceSpace
           p == a \div n
           q == b \div n
           r == b % n
<1>1. n \in Nat \ {0}
  BY FlowConstants
<1> SUFFICES ASSUME a % n = r PROVE FALSE
  OBVIOUS
<1>2. b - a < n
  OBVIOUS
<1> HIDE DEF n
<1>3. p \in Int /\ q \in Int /\ r \in Int /\ a = n * p + r /\ b = n * q + r
  BY <1>1
<1> HIDE DEF p, q, r
<1>4. b - a = n * (q - p)
  BY <1>1, <1>3
<1> DEFINE d == q - p
<1>5. d \in Int /\ b - a = n * d
  BY <1>3, <1>4
<1> HIDE DEF d
<1>6. CASE d <= 0
  <2>1. n * d <= 0
    BY <1>1, <1>5, <1>6
  <2> QED
    BY <1>5, <2>1
<1>7. CASE d >= 1
  <2>1. n * d >= n
    BY <1>1, <1>5, <1>7
  <2> QED
    BY <1>1, <1>2, <1>5, <2>1
<1> QED
  BY <1>5, <1>6, <1>7

(* The state that push_at works on. *)
Pushing == [expected : Sequences, gap : {"none", "young", "old"}, pending : SUBSET Frame,
            total : Nat, out : Seq(Frame)]
(* All it can hold has been framed. *)
Framed(F) == F \subseteq Frame /\ IsFiniteSet(F) /\ Cardinality(F) < SequenceSpace
Sound(s, F) == s \in Pushing /\ s.pending \subseteq F /\ Framed(F)
(* A step that only releases. *)
Releases(s, t, F) == Sound(t, F) /\ t.pending \subseteq s.pending /\ t.total = s.total

(* The fields of that state. *)
LEMMA SoundFacts ==
  ASSUME NEW s, NEW F, Sound(s, F)
  PROVE  /\ s.expected \in Sequences /\ s.expected \in Nat
         /\ s.pending \subseteq Frame /\ IsFiniteSet(s.pending)
         /\ Cardinality(s.pending) \in Nat /\ Cardinality(s.pending) < SequenceSpace
         /\ s.total \in Nat /\ s.out \in Seq(Frame) /\ s.pending \subseteq F
         /\ s.gap \in {"none", "young", "old"}
<1>1. s \in Pushing /\ s.pending \subseteq F /\ IsFiniteSet(F) /\ Cardinality(F) < SequenceSpace
  BY DEF Sound, Framed
<1>2. /\ s.expected \in Sequences /\ s.pending \subseteq Frame /\ s.total \in Nat
      /\ s.out \in Seq(Frame) /\ s.gap \in {"none", "young", "old"}
  BY <1>1 DEF Pushing
<1>3. s.expected \in Nat
  BY <1>2, FlowConstants DEF Sequences
<1> DEFINE m == Cardinality(s.pending)
           n == Cardinality(F)
<1>4. IsFiniteSet(s.pending) /\ m <= n
  BY <1>1, FS_Subset
<1>5. m \in Nat /\ n \in Nat /\ SequenceSpace \in Nat /\ n < SequenceSpace
  BY <1>1, <1>4, FS_CardinalityType, FlowConstants
<1> HIDE DEF m, n
<1>6. m < SequenceSpace
  BY <1>4, <1>5
<1> QED
  BY <1>1, <1>2, <1>3, <1>4, <1>5, <1>6 DEF m

Run(s, n) ==
    /\ HeldAs(s, (s.expected + n) % SequenceSpace) = {}
    /\ \A i \in 0 .. n - 1 : HeldAs(s, (s.expected + i) % SequenceSpace) # {}

(* drain_contiguous stops: it holds fewer frames than there are sequences. *)
LEMMA ContiguousIs ==
  ASSUME NEW s, NEW F, Sound(s, F)
  PROVE  Contiguous(s) \in 0 .. Cardinality(s.pending) /\ Run(s, Contiguous(s))
<1> DEFINE m == Cardinality(s.pending)
           e == s.expected
           At(i) == (e + i) % SequenceSpace
           H == {n \in 0 .. m : HeldAs(s, At(n)) = {}}
<1>1. /\ e \in Nat /\ m \in Nat /\ m < SequenceSpace /\ IsFiniteSet(s.pending)
      /\ SequenceSpace \in Nat \ {0}
  BY SoundFacts, FlowConstants
<1>2. H # {}
  <2> SUFFICES ASSUME \A n \in 0 .. m : HeldAs(s, At(n)) # {} PROVE FALSE
    OBVIOUS
  <2> DEFINE f == [n \in 0 .. m |-> CHOOSE p \in HeldAs(s, At(n)) : TRUE]
             I == 0 .. m
  <2>1. \A n \in I : f[n] \in HeldAs(s, At(n))
    OBVIOUS
  <2>2. \A n \in I : f[n] \in s.pending /\ f[n].sequence = At(n)
    BY <2>1 DEF HeldAs
  <2>3. f \in [I -> s.pending]
    BY <2>2
  <2>4. IsFiniteSet(I) /\ Cardinality(I) = m + 1
    <3> HIDE DEF m
    <3>1. 0 \in Int /\ m \in Int /\ ~(0 > m) /\ m - 0 + 1 = m + 1
      BY <1>1
    <3>2. IsFiniteSet(0 .. m) /\ Cardinality(0 .. m) = IF 0 > m THEN 0 ELSE m - 0 + 1
      BY <3>1, FS_Interval
    <3> QED
      BY <3>1, <3>2
  <2>5. \A n \in I : n \in Nat /\ n <= m
    BY <1>1
  <2> HIDE DEF f, I
  <2>6. m < m + 1
    BY <1>1
  <2>7. PICK x, y \in I : x # y /\ f[x] = f[y]
    BY <1>1, <2>3, <2>4, <2>6, FS_PigeonHole
  <2>8. At(x) = At(y)
    BY <2>2, <2>7
  <2>9. ASSUME NEW a \in I, NEW b \in I, a < b PROVE At(a) # At(b)
    <3> HIDE DEF e, m
    <3>1. a \in Nat /\ b \in Nat /\ b <= m
      BY <2>5
    <3>2. e + a \in Nat /\ e + b \in Nat /\ e + a < e + b /\ (e + b) - (e + a) < SequenceSpace
      BY <1>1, <2>9, <3>1
    <3> QED
      BY <3>2, WrapsApart
  <2>10. x < y \/ y < x
    BY <2>5, <2>7
  <2> QED
    BY <2>8, <2>9, <2>10
<1>3. H \subseteq Nat /\ H \subseteq 0 .. m
  BY <1>1
<1>4. \A n \in H : HeldAs(s, At(n)) = {}
  OBVIOUS
<1>5. \A n \in 0 .. m : n \notin H => HeldAs(s, At(n)) # {}
  OBVIOUS
<1> HIDE DEF H
<1>6. PICK n \in H : \A k \in H : n <= k
  BY <1>2, <1>3, MinIs
<1>7. n \in 0 .. m /\ Run(s, n)
  <2>1. n \in 0 .. m
    BY <1>3, <1>6
  <2>2. ASSUME NEW i \in 0 .. n - 1 PROVE HeldAs(s, At(i)) # {}
    <3> HIDE DEF m, At
    <3>1. i \in 0 .. m /\ i < n /\ i \in Nat /\ n \in Nat
      BY <1>1, <2>1
    <3>2. i \notin H
      BY <1>6, <3>1
    <3> QED
      BY <1>5, <3>1, <3>2
  <2> QED
    BY <1>4, <1>6, <2>1, <2>2 DEF Run
<1>8. Contiguous(s) = CHOOSE k \in 0 .. m : Run(s, k)
  BY DEF Contiguous, Run
<1> HIDE DEF m
<1>9. Contiguous(s) \in 0 .. m /\ Run(s, Contiguous(s))
  BY <1>7, <1>8
<1> QED
  BY <1>9 DEF m

-----------------------------------------------------------------------------
(* The updates that push_at makes to the state it works on. *)
Becomes(t, p, n, F) == Sound(t, F) /\ t.pending = p /\ t.total = n

(* An update of one field keeps it sound. *)
LEMMA Update ==
  ASSUME NEW s, NEW F, NEW p, NEW e \in Sequences, NEW g \in {"none", "young", "old"},
         NEW o \in Seq(Frame), NEW n \in Nat, Sound(s, F), p \subseteq F
  PROVE  /\ Becomes([s EXCEPT !.pending = p], p, s.total, F)
         /\ Becomes([s EXCEPT !.gap = g], s.pending, s.total, F)
         /\ Becomes([s EXCEPT !.total = n], s.pending, n, F)
         /\ Becomes([s EXCEPT !.expected = e], s.pending, s.total, F)
         /\ Becomes([s EXCEPT !.out = o], s.pending, s.total, F)
<1>1. s \in Pushing /\ p \subseteq Frame /\ Framed(F) /\ s.pending \subseteq F
  BY DEF Sound, Framed
<1>2. Becomes([s EXCEPT !.pending = p], p, s.total, F)
  BY <1>1 DEF Becomes, Sound, Pushing
<1>3. Becomes([s EXCEPT !.gap = g], s.pending, s.total, F)
  BY <1>1 DEF Becomes, Sound, Pushing
<1>4. Becomes([s EXCEPT !.total = n], s.pending, n, F)
  BY <1>1 DEF Becomes, Sound, Pushing
<1>5. Becomes([s EXCEPT !.expected = e], s.pending, s.total, F)
  BY <1>1 DEF Becomes, Sound, Pushing
<1>6. Becomes([s EXCEPT !.out = o], s.pending, s.total, F)
  BY <1>1 DEF Becomes, Sound, Pushing
<1> QED
  BY <1>2, <1>3, <1>4, <1>5, <1>6

(* Those that are made together. *)
LEMMA Updates ==
  ASSUME NEW s, NEW F, NEW p, NEW e \in Sequences, NEW g \in {"none", "young", "old"},
         NEW o \in Seq(Frame), NEW n \in Nat, Sound(s, F), p \subseteq F
  PROVE  /\ Becomes([s EXCEPT !.pending = p, !.expected = e, !.out = o], p, s.total, F)
         /\ Becomes([s EXCEPT !.gap = g, !.expected = e, !.out = o], s.pending, s.total, F)
         /\ Becomes([s EXCEPT !.out = o, !.expected = e, !.gap = g], s.pending, s.total, F)
         /\ Becomes([s EXCEPT !.pending = p, !.total = n], p, n, F)
<1> DEFINE t1 == [s EXCEPT !.pending = p]
           t2 == [t1 EXCEPT !.expected = e]
           t3 == [t2 EXCEPT !.out = o]
           t4 == [t1 EXCEPT !.total = n]
           u1 == [s EXCEPT !.gap = g]
           u2 == [u1 EXCEPT !.expected = e]
           u3 == [u2 EXCEPT !.out = o]
           v1 == [s EXCEPT !.out = o]
           v2 == [v1 EXCEPT !.expected = e]
           v3 == [v2 EXCEPT !.gap = g]
<1>1. /\ [s EXCEPT !.pending = p, !.expected = e, !.out = o] = t3
      /\ [s EXCEPT !.gap = g, !.expected = e, !.out = o] = u3
      /\ [s EXCEPT !.out = o, !.expected = e, !.gap = g] = v3
      /\ [s EXCEPT !.pending = p, !.total = n] = t4
  BY Zenon
<1>2. /\ Becomes(t1, p, s.total, F) /\ Becomes(u1, s.pending, s.total, F)
      /\ Becomes(v1, s.pending, s.total, F)
  BY Update
<1> HIDE DEF t1, u1, v1
<1>3. /\ Sound(t1, F) /\ t1.pending = p /\ t1.total = s.total
      /\ Sound(u1, F) /\ u1.pending = s.pending /\ u1.total = s.total
      /\ Sound(v1, F) /\ v1.pending = s.pending /\ v1.total = s.total
      /\ s.pending \subseteq F
  BY <1>2, SoundFacts DEF Becomes
<1>4. /\ Becomes(t2, p, s.total, F) /\ Becomes(u2, s.pending, s.total, F)
      /\ Becomes(v2, s.pending, s.total, F) /\ Becomes(t4, p, n, F)
  BY <1>3, Update
<1> HIDE DEF t2, u2, v2
<1>5. /\ Sound(t2, F) /\ t2.pending = p /\ t2.total = s.total
      /\ Sound(u2, F) /\ u2.pending = s.pending /\ u2.total = s.total
      /\ Sound(v2, F) /\ v2.pending = s.pending /\ v2.total = s.total
  BY <1>4 DEF Becomes
<1>6. /\ Becomes(t3, p, s.total, F) /\ Becomes(u3, s.pending, s.total, F)
      /\ Becomes(v3, s.pending, s.total, F)
  BY <1>3, <1>5, Update
<1> HIDE DEF t3, t4, u3, v3
<1> QED
  BY <1>1, <1>4, <1>6

(* drain_contiguous releases what follows on, and nothing else. *)
LEMMA DrainContiguousIs ==
  ASSUME NEW s, NEW F, Sound(s, F)
  PROVE  Releases(s, DrainContiguous(s), F)
<1> DEFINE n == Contiguous(s)
           e == s.expected
           r == [i \in 1 .. n |-> CHOOSE p \in HeldAs(s, (e + i - 1) % SequenceSpace) : TRUE]
           p == s.pending \ {r[i] : i \in DOMAIN r}
           f == (e + Len(r)) % SequenceSpace
           o == s.out \o r
<1>1. /\ e \in Nat /\ s.pending \subseteq Frame /\ s.out \in Seq(Frame) /\ s.pending \subseteq F
      /\ Cardinality(s.pending) \in Nat
  BY SoundFacts
<1>2. n \in Nat /\ \A i \in 0 .. n - 1 : HeldAs(s, (e + i) % SequenceSpace) # {}
  <2>1. n \in 0 .. Cardinality(s.pending) /\ Run(s, n)
    BY ContiguousIs
  <2> QED
    BY <1>1, <2>1 DEF Run
<1> HIDE DEF n, e
<1>3. \A i \in 1 .. n : HeldAs(s, (e + i - 1) % SequenceSpace) # {}
  <2> TAKE i \in 1 .. n
  <2>1. i - 1 \in 0 .. n - 1 /\ e + i - 1 = e + (i - 1)
    BY <1>1, <1>2
  <2> QED
    BY <1>2, <2>1
<1>4. \A i \in 1 .. n : r[i] \in Frame
  BY <1>1, <1>3 DEF HeldAs
<1>5. r \in Seq(Frame)
  <2>1. r \in [1 .. n -> Frame]
    BY <1>4
  <2> QED
    BY <1>2, <2>1
<1>6. f \in Sequences
  <2>1. Len(r) \in Nat
    BY <1>5, LenProperties
  <2> HIDE DEF r
  <2>2. e + Len(r) \in Int
    BY <1>1, <2>1
  <2> QED
    BY <2>2, Wraps
<1>7. o \in Seq(Frame)
  <2> HIDE DEF r
  <2> QED
    BY <1>1, <1>5, ConcatProperties
<1>8. p \subseteq F /\ p \subseteq s.pending
  BY <1>1
<1>9. DrainContiguous(s) = [s EXCEPT !.pending = p, !.expected = f, !.out = o]
  BY DEF DrainContiguous, Drained, n, e
<1> HIDE DEF r, p, f, o
<1> QED
  <2>1. 0 \in Nat /\ "none" \in {"none", "young", "old"}
    OBVIOUS
  <2>2. Becomes([s EXCEPT !.pending = p, !.expected = f, !.out = o], p, s.total, F)
    BY <1>6, <1>7, <1>8, <2>1, Updates
  <2> QED
    BY <1>8, <1>9, <2>2 DEF Becomes, Releases

(* A frame that is passed on moves the expected number behind itself. *)
LEMMA PassedIs ==
  ASSUME NEW s, NEW F, NEW x \in Frame, Sound(s, F)
  PROVE  Releases(s, Passed(s, x), F)
<1> DEFINE e == Advance(x.sequence)
           o == Append(s.out, x)
           t == [s EXCEPT !.gap = "none", !.expected = e, !.out = o]
<1>1. e \in Sequences
  <2>1. x.sequence + 1 \in Int
    BY FlowConstants DEF Frame, Sequences
  <2> QED
    BY <2>1, Wraps DEF Advance
<1>2. o \in Seq(Frame)
  BY SoundFacts, AppendProperties
<1>3. Passed(s, x) = DrainContiguous(t)
  BY DEF Passed
<1> HIDE DEF e, o
<1>4. Sound(t, F) /\ t.pending = s.pending /\ t.total = s.total
  <2>1. 0 \in Nat /\ "none" \in {"none", "young", "old"} /\ s.pending \subseteq F
    BY SoundFacts
  <2>2. Becomes(t, s.pending, s.total, F)
    BY <1>1, <1>2, <2>1, Updates
  <2> QED
    BY <2>2 DEF Becomes
<1> HIDE DEF t
<1>5. Releases(t, DrainContiguous(t), F)
  BY <1>4, DrainContiguousIs
<1> QED
  BY <1>3, <1>4, <1>5 DEF Releases

(* The lowest of the frames ahead is one of them. *)
LEMMA LowestIs ==
  ASSUME NEW s, NEW F, Sound(s, F), Ahead(s) # {}
  PROVE  Lowest(s) \in Ahead(s) /\ Lowest(s) \in s.pending
<1> DEFINE d(q) == (q.sequence - s.expected) % SequenceSpace
           D == {d(q) : q \in Ahead(s)}
<1>1. \A q \in Ahead(s) : q \in s.pending /\ q \in Frame
  BY SoundFacts DEF Ahead
<1>2. \A q \in Ahead(s) : d(q) \in Nat
  <2> TAKE q \in Ahead(s)
  <2>1. q.sequence - s.expected \in Int
    BY <1>1, SoundFacts, FlowConstants DEF Frame, Sequences
  <2>2. d(q) \in Sequences
    BY <2>1, Wraps
  <2> QED
    BY <2>2, FlowConstants DEF Sequences
<1>3. D \subseteq Nat /\ D # {}
  BY <1>2
<1>4. \A y \in D : \E q \in Ahead(s) : y = d(q)
  OBVIOUS
<1>5. \A q \in Ahead(s) : d(q) \in D
  OBVIOUS
<1> HIDE DEF D
<1>6. PICK y \in D : \A z \in D : y <= z
  BY <1>3, MinIs
<1>7. PICK q \in Ahead(s) : y = d(q)
  BY <1>4
<1>8. \A z \in Ahead(s) : d(q) <= d(z)
  BY <1>5, <1>6, <1>7
<1>9. Lowest(s) = CHOOSE x \in Ahead(s) : \A z \in Ahead(s) : d(x) <= d(z)
  BY DEF Lowest
<1> HIDE DEF d
<1>10. Lowest(s) \in Ahead(s)
  BY <1>8, <1>9
<1> QED
  BY <1>1, <1>10

(* release_lowest releases, and leaves pending_total to its caller. *)
LEMMA ReleaseLowestIs ==
  ASSUME NEW s, NEW F, Sound(s, F)
  PROVE  Releases(s, ReleaseLowest(s), F)
<1>1. s.pending \subseteq F /\ s.pending \subseteq Frame
  BY SoundFacts
<1>2. CASE Ahead(s) = {}
  <2> DEFINE t == [s EXCEPT !.gap = "none"]
  <2>1. ReleaseLowest(s) = t
    BY <1>2 DEF ReleaseLowest
  <2>2. /\ 0 \in Sequences /\ 0 \in Nat /\ <<>> \in Seq(Frame)
        /\ "none" \in {"none", "young", "old"}
    BY FlowConstants, EmptySeq
  <2>3. Sound(t, F) /\ t.pending = s.pending /\ t.total = s.total
    <3>1. Becomes(t, s.pending, s.total, F)
      BY <1>1, <2>2, Update
    <3> QED
      BY <3>1 DEF Becomes
  <2> HIDE DEF t
  <2> QED
    BY <2>1, <2>3 DEF Releases
<1>3. CASE Ahead(s) # {}
  <2> DEFINE x == Lowest(s)
             p == s.pending \ {x}
             t == [s EXCEPT !.pending = p]
             u == Passed(t, x)
             g == IF u.pending = {} THEN "none" ELSE "young"
             v == [u EXCEPT !.gap = g]
  <2>1. ReleaseLowest(s) = v
    BY <1>3 DEF ReleaseLowest, Reclocked, Released
  <2>2. x \in Frame /\ p \subseteq F /\ p \subseteq s.pending
    BY <1>1, <1>3, LowestIs
  <2> HIDE DEF x, p
  <2>3. /\ 0 \in Sequences /\ 0 \in Nat /\ <<>> \in Seq(Frame)
        /\ "none" \in {"none", "young", "old"}
    BY FlowConstants, EmptySeq
  <2>4. Sound(t, F) /\ t.pending = p /\ t.total = s.total
    <3>1. Becomes(t, p, s.total, F)
      BY <2>2, <2>3, Update
    <3> QED
      BY <3>1 DEF Becomes
  <2> HIDE DEF t
  <2>5. Releases(t, u, F)
    BY <2>2, <2>4, PassedIs
  <2>6. Sound(u, F) /\ u.pending \subseteq t.pending /\ u.total = t.total /\ u.pending \subseteq F
    BY <2>5, SoundFacts DEF Releases
  <2>7. g \in {"none", "young", "old"}
    OBVIOUS
  <2> HIDE DEF u, g
  <2>8. Sound(v, F) /\ v.pending = u.pending /\ v.total = u.total
    <3>1. Becomes(v, u.pending, u.total, F)
      BY <2>3, <2>6, <2>7, Update
    <3> QED
      BY <3>1 DEF Becomes
  <2> HIDE DEF v
  <2> QED
    BY <2>1, <2>2, <2>4, <2>6, <2>8 DEF Releases
<1> QED
  BY <1>2, <1>3

-----------------------------------------------------------------------------
(* pending_total counts what this flow holds, and R that the others hold. *)
Counts(s, F, R) ==
    /\ Sound(s, F)
    /\ R \in Nat
    /\ s.total = R + Cardinality(s.pending)
Fewer(s, t, F, R) == Counts(t, F, R) /\ t.pending \subseteq s.pending

(* The correction after a release takes off what was released: the         *)
(* saturating subtraction never saturates.                                 *)
LEMMA CountedTotalIs ==
  ASSUME NEW s, NEW t, NEW F, NEW R, Counts(s, F, R), Releases(s, t, F)
  PROVE  Fewer(s, CountedTotal(s, t), F, R)
<1> DEFINE a == Cardinality(s.pending)
           b == Cardinality(t.pending)
           d == a - b
           n == IF t.total > d THEN t.total - d ELSE 0
<1>1. Sound(s, F) /\ Sound(t, F) /\ t.pending \subseteq s.pending /\ t.total = s.total
  BY DEF Counts, Releases
<1>2. /\ a \in Nat /\ b \in Nat /\ IsFiniteSet(s.pending) /\ t.pending \subseteq F
  BY <1>1, SoundFacts
<1>3. b <= a
  BY <1>1, <1>2, FS_Subset
<1>4. t.total = R + a /\ R \in Nat
  BY <1>1 DEF Counts
<1> DEFINE y == t.total
<1>5. n = IF y > d THEN y - d ELSE 0
  OBVIOUS
<1>6. y = R + a
  BY <1>4
<1>7. CountedTotal(s, t) = [t EXCEPT !.total = n]
  BY DEF CountedTotal, Subtract
<1>8. d = a - b
  OBVIOUS
<1>9. b = Cardinality(t.pending)
  OBVIOUS
<1> HIDE DEF a, b, n, y, d
<1>10. n = R + b /\ n \in Nat
  BY <1>2, <1>3, <1>4, <1>5, <1>6, <1>8
<1> DEFINE u == [t EXCEPT !.total = n]
<1>11. Sound(u, F) /\ u.pending = t.pending /\ u.total = n
  <2>1. 0 \in Sequences /\ <<>> \in Seq(Frame) /\ "none" \in {"none", "young", "old"}
    BY FlowConstants, EmptySeq
  <2>2. Becomes(u, t.pending, n, F)
    BY <1>1, <1>2, <1>10, <2>1, Update
  <2> QED
    BY <2>2 DEF Becomes
<1> HIDE DEF u
<1>12. CountedTotal(s, t) = u
  BY <1>7 DEF u
<1> QED
  BY <1>1, <1>4, <1>9, <1>10, <1>11, <1>12 DEF Fewer, Counts

(* Every limit that is reached releases, and counts what it released. *)
LEMMA LimitsAre ==
  ASSUME NEW s, NEW F, NEW R, Counts(s, F, R)
  PROVE  /\ Fewer(s, ReleaseExpired(s), F, R) /\ Fewer(s, RoomInFlow(s), F, R)
         /\ Fewer(s, RoomInTotal(s), F, R) /\ Fewer(s, BackInTotal(s), F, R)
         /\ Fewer(s, Clocked(s), F, R)
<1>1. Fewer(s, s, F, R) /\ Sound(s, F)
  BY DEF Fewer, Counts
<1>2. Fewer(s, CountedTotal(s, ReleaseLowest(s)), F, R)
  BY <1>1, ReleaseLowestIs, CountedTotalIs
<1>3. Fewer(s, [s EXCEPT !.gap = "young"], F, R)
  <2> DEFINE t == [s EXCEPT !.gap = "young"]
  <2>1. /\ 0 \in Sequences /\ <<>> \in Seq(Frame) /\ "young" \in {"none", "young", "old"}
        /\ 0 \in Nat /\ s.pending \subseteq F
    BY <1>1, FlowConstants, EmptySeq, SoundFacts
  <2>2. Becomes(t, s.pending, s.total, F)
    BY <1>1, <2>1, Update
  <2> HIDE DEF t
  <2>3. Fewer(s, t, F, R)
    BY <2>2 DEF Becomes, Fewer, Counts
  <2> QED
    BY <2>3 DEF t
<1> QED
  BY <1>1, <1>2, <1>3 DEF ReleaseExpired, RoomInFlow, RoomInTotal, BackInTotal, Clocked

(* A frame that is inserted is counted. *)
LEMMA InsertIs ==
  ASSUME NEW s, NEW F, NEW R, NEW x, Counts(s, F, R), x \in F, x \notin s.pending
  PROVE  Counts(Insert(s, x), F, R)
<1> DEFINE p == s.pending \cup {x}
           a == Cardinality(s.pending)
           y == s.total
           n == y + 1
           t == [s EXCEPT !.pending = p, !.total = n]
<1>1. /\ Sound(s, F) /\ R \in Nat /\ y = R + a
      /\ a \in Nat /\ IsFiniteSet(s.pending) /\ s.pending \subseteq F
  BY SoundFacts DEF Counts
<1>2. p \subseteq F /\ Cardinality(p) = a + 1
  BY <1>1, FS_AddElement
<1>3. n = R + (a + 1) /\ n \in Nat
  <2> HIDE DEF a, y
  <2> QED
    BY <1>1
<1>4. Insert(s, x) = t
  BY DEF Insert
<1> HIDE DEF p, n
<1>5. /\ 0 \in Sequences /\ <<>> \in Seq(Frame) /\ "none" \in {"none", "young", "old"}
  BY FlowConstants, EmptySeq
<1>6. Becomes(t, p, n, F)
  BY <1>1, <1>2, <1>3, <1>5, Updates
<1> HIDE DEF t
<1> QED
  BY <1>1, <1>2, <1>3, <1>4, <1>6 DEF Becomes, Counts

(* A frame that runs ahead is held and counted, or released in place of    *)
(* being held.                                                             *)
LEMMA HoldIs ==
  ASSUME NEW s, NEW F, NEW R, NEW x, Counts(s, F, R), x \in F, x \notin s.pending
  PROVE  Counts(Hold(s, x), F, R)
<1>1. Sound(s, F) /\ x \in Frame
  BY DEF Counts, Sound, Framed
<1>2. CASE s.total = MaxTotal /\ s.pending = {}
  <2> DEFINE e == Advance(x.sequence)
             o == Append(s.out, x)
             t == [s EXCEPT !.out = o, !.expected = e, !.gap = "none"]
  <2>1. Hold(s, x) = t
    BY <1>2 DEF Hold
  <2>2. e \in Sequences
    <3>1. x.sequence + 1 \in Int
      BY <1>1, FlowConstants DEF Frame, Sequences
    <3> QED
      BY <3>1, Wraps DEF Advance
  <2>3. o \in Seq(Frame)
    BY <1>1, SoundFacts, AppendProperties
  <2>4. 0 \in Nat /\ "none" \in {"none", "young", "old"} /\ s.pending \subseteq F
    BY <1>1, SoundFacts
  <2> HIDE DEF e, o
  <2>5. Becomes(t, s.pending, s.total, F)
    BY <1>1, <2>2, <2>3, <2>4, Updates
  <2> HIDE DEF t
  <2> QED
    BY <2>1, <2>5 DEF Becomes, Counts
<1>3. CASE ~(s.total = MaxTotal /\ s.pending = {})
  <2> DEFINE a == RoomInTotal(s)
             b == Insert(a, x)
             c == BackInTotal(b)
             d == Clocked(c)
  <2>1. Hold(s, x) = ReleaseExpired(d)
    BY <1>3 DEF Hold
  <2>2. Counts(a, F, R) /\ x \notin a.pending
    BY LimitsAre DEF Fewer
  <2> HIDE DEF a
  <2>3. Counts(b, F, R)
    BY <2>2, InsertIs
  <2> HIDE DEF b
  <2>4. Counts(c, F, R)
    BY <2>3, LimitsAre DEF Fewer
  <2> HIDE DEF c
  <2>5. Counts(d, F, R)
    BY <2>4, LimitsAre DEF Fewer
  <2> HIDE DEF d
  <2> QED
    BY <2>1, <2>5, LimitsAre DEF Fewer
<1> QED
  BY <1>2, <1>3

(* Whichever branch of push_at a frame takes, the count is right after it. *)
LEMMA HandledIs ==
  ASSUME NEW s, NEW F, NEW R, NEW x, Counts(s, F, R), x \in F
  PROVE  Counts(Handled(s, x), F, R)
<1>1. Sound(s, F) /\ x \in Frame
  BY DEF Counts, Sound, Framed
<1>2. CASE x.sequence = s.expected
  <2>1. Releases(s, Passed(s, x), F)
    BY <1>1, PassedIs
  <2>2. Handled(s, x) = CountedTotal(s, Passed(s, x))
    BY <1>2 DEF Handled
  <2> QED
    BY <2>1, <2>2, CountedTotalIs DEF Fewer
<1>3. CASE /\ x.sequence # s.expected
           /\ IsForward(x.sequence, s.expected) /\ HeldAs(s, x.sequence) = {}
  <2> DEFINE a == RoomInFlow(s)
  <2>1. Handled(s, x) = Hold(a, x)
    BY <1>3 DEF Handled
  <2>2. Counts(a, F, R) /\ a.pending \subseteq s.pending
    BY LimitsAre DEF Fewer
  <2>3. x \notin s.pending
    BY <1>3 DEF HeldAs
  <2> HIDE DEF a
  <2> QED
    BY <2>1, <2>2, <2>3, HoldIs
<1>4. CASE /\ x.sequence # s.expected
           /\ ~(IsForward(x.sequence, s.expected) /\ HeldAs(s, x.sequence) = {})
  BY <1>4 DEF Handled
<1> QED
  BY <1>2, <1>3, <1>4

-----------------------------------------------------------------------------
Sequencer == [sender : 1 .. MaxSenders,
              sequences : UNION {[D -> Sequences] : D \in SUBSET Flows}]
HeldBy(fs, D) == [k \in D |-> Cardinality(fs[k].pending)]
(* A table of flows whose held frames n counts. *)
Tabled(fs, n, F) ==
    /\ DOMAIN fs \subseteq Keys
    /\ fs \in [DOMAIN fs -> FlowState]
    /\ \A k \in DOMAIN fs : fs[k].pending \subseteq F
    /\ n = SumFunction(HeldBy(fs, DOMAIN fs))

FlowInv ==
    /\ sequencer \in Sequencer
    /\ frames \subseteq Frame /\ IsFiniteSet(frames) /\ Cardinality(frames) <= MaxFrames
    /\ Tabled(flows, total, frames)
    /\ ready \in Seq(Frame)
    /\ delivered \in [Keys -> 0 .. MaxFrames]

(* Fewer frames are framed than there are sequences. *)
LEMMA FlowFramed ==
  ASSUME FlowInv
  PROVE  Framed(frames)
<1> DEFINE n == Cardinality(frames)
<1>1. frames \subseteq Frame /\ IsFiniteSet(frames) /\ n <= MaxFrames
  BY DEF FlowInv
<1>2. n \in Nat /\ MaxFrames \in Nat /\ SequenceSpace \in Nat /\ MaxFrames < SequenceSpace
  BY <1>1, FS_CardinalityType, FlowConstants
<1> HIDE DEF n
<1>3. n < SequenceSpace
  BY <1>1, <1>2
<1> QED
  BY <1>1, <1>3 DEF Framed, n

(* What each flow of a table holds is a number. *)
LEMMA HeldType ==
  ASSUME NEW fs, NEW F, NEW D, NEW n, Tabled(fs, n, F), IsFiniteSet(F), D \subseteq DOMAIN fs
  PROVE  HeldBy(fs, D) \in [D -> Nat] /\ IsFiniteSet(D)
<1>1. IsFiniteSet(D)
  BY FlowConstants, FS_Subset DEF Tabled
<1>2. ASSUME NEW k \in D PROVE Cardinality(fs[k].pending) \in Nat
  <2>1. fs[k].pending \subseteq F
    BY DEF Tabled
  <2> QED
    BY <2>1, FS_Subset, FS_CardinalityType
<1> QED
  BY <1>1, <1>2 DEF HeldBy

(* An empty table holds nothing. *)
LEMMA EmptyTabled ==
  ASSUME NEW F
  PROVE  Tabled(Empty, 0, F)
<1>1. DOMAIN Empty = {} /\ Empty \in [{} -> FlowState]
  BY DEF Empty
<1> DEFINE h == HeldBy(Empty, {})
<1>2. h \in [{} -> Nat]
  BY DEF HeldBy
<1>3. IsFiniteSet({})
  BY FS_EmptySet
<1> HIDE DEF h
<1>4. SumFunction(h) = 0
  BY <1>2, <1>3, SumOfNone
<1>5. HeldBy(Empty, DOMAIN Empty) = h
  BY <1>1 DEF h
<1> QED
  BY <1>1, <1>4, <1>5 DEF Tabled

(* A full table is emptied with its count. *)
LEMMA TableIs ==
  ASSUME FlowInv, NEW key
  PROVE  /\ Tabled(Table(key).flows, Table(key).total, frames)
         /\ Table(key).delivered \in [Keys -> 0 .. MaxFrames]
<1>1. Tabled(flows, total, frames) /\ delivered \in [Keys -> 0 .. MaxFrames]
  BY DEF FlowInv
<1>2. NothingDelivered \in [Keys -> 0 .. MaxFrames]
  BY FlowConstants DEF NothingDelivered
<1>3. Tabled(Empty, 0, frames)
  BY EmptyTabled
<1>4. CASE Cardinality(DOMAIN flows) = MaxTracked /\ key \notin DOMAIN flows
  <2>1. Table(key) = [flows |-> Empty, total |-> 0, delivered |-> NothingDelivered]
    BY <1>4 DEF Table
  <2> QED
    BY <1>2, <1>3, <2>1
<1>5. CASE ~(Cardinality(DOMAIN flows) = MaxTracked /\ key \notin DOMAIN flows)
  <2>1. Table(key) = [flows |-> flows, total |-> total, delivered |-> delivered]
    BY <1>5 DEF Table
  <2> QED
    BY <1>1, <2>1
<1> QED
  BY <1>4, <1>5

Rest(fs, key) == SumFunction(HeldBy(fs, (DOMAIN fs) \ {key}))

(* The state that push_at starts from counts what its flow holds. *)
LEMMA EntryCounts ==
  ASSUME NEW T, NEW F, NEW key \in Keys, Framed(F), Tabled(T.flows, T.total, F)
  PROVE  Counts(Entry(T, key), F, Rest(T.flows, key))
<1> DEFINE fs == T.flows
           D == DOMAIN fs
           n == T.total
           R == Rest(fs, key)
           e == IF key \in D THEN fs[key] ELSE Fresh
           s == Entry(T, key)
<1>1. /\ fs \in [D -> FlowState] /\ IsFiniteSet(F) /\ n = SumFunction(HeldBy(fs, D))
      /\ Tabled(fs, n, F) /\ \A k \in D : fs[k].pending \subseteq F
  BY DEF Tabled, Framed
<1>2. Fresh \in FlowState /\ Fresh.pending = {}
  BY FlowConstants DEF Fresh, FlowState
<1>3. e \in FlowState /\ e.pending \subseteq F
  BY <1>1, <1>2
<1>4. HeldBy(fs, D) \in [D -> Nat] /\ IsFiniteSet(D)
      /\ HeldBy(fs, D \ {key}) \in [D \ {key} -> Nat] /\ IsFiniteSet(D \ {key})
  <2> HIDE DEF D, fs, n
  <2>1. D \ {key} \subseteq D /\ D \subseteq D
    OBVIOUS
  <2> QED
    BY <1>1, <2>1, HeldType DEF D
<1>5. R \in Nat
  BY <1>4, SumType DEF Rest
<1>6. n = R + Cardinality(e.pending)
  <2>1. CASE key \in D
    <3> DEFINE G == HeldBy(fs, D)
               H == HeldBy(fs, D \ {key})
    <3>1. G[key] = Cardinality(e.pending) /\ \A o \in D \ {key} : G[o] = H[o]
      BY <2>1 DEF HeldBy
    <3>2. G \in [D -> Nat] /\ H \in [D \ {key} -> Nat]
      BY <1>4
    <3>3. R = SumFunction(H) /\ n = SumFunction(G)
      BY <1>1 DEF Rest
    <3> HIDE DEF G, H, D, e, R, n
    <3>4. SumFunction(G) = SumFunction(H) + G[key]
      BY <1>4, <2>1, <3>1, <3>2, SumExtends
    <3> QED
      BY <3>1, <3>3, <3>4
  <2>2. CASE key \notin D
    <3>1. D \ {key} = D
      BY <2>2
    <3>2. R = n
      BY <1>1, <3>1 DEF Rest
    <3>3. Cardinality(e.pending) = 0
      BY <1>2, <2>2, FS_EmptySet
    <3> HIDE DEF R, n, e
    <3> QED
      BY <1>5, <3>2, <3>3
  <2> QED
    BY <2>1, <2>2
<1>7. s = [expected |-> e.expected, gap |-> e.gap, pending |-> e.pending,
           total |-> n, out |-> <<>>]
  BY DEF Entry
<1>8. n \in Nat
  <2>1. Cardinality(e.pending) \in Nat
    BY <1>1, <1>3, FS_Subset, FS_CardinalityType
  <2> HIDE DEF n, R, e
  <2> QED
    BY <1>5, <1>6, <2>1
<1>9. <<>> \in Seq(Frame)
  BY EmptySeq
<1> HIDE DEF e, n, R, s
<1>10. s \in Pushing /\ s.pending = e.pending /\ s.total = n
  BY <1>3, <1>7, <1>8, <1>9 DEF Pushing, FlowState
<1>11. Sound(s, F)
  BY <1>3, <1>10 DEF Sound
<1>12. Counts(s, F, R)
  BY <1>5, <1>6, <1>10, <1>11 DEF Counts
<1> QED
  BY <1>12 DEF s, R

(* The table with the state that push_at leaves. *)
LEMMA StoreIs ==
  ASSUME NEW T, NEW F, NEW key \in Keys, NEW s, Framed(F), Tabled(T.flows, T.total, F),
         T.delivered \in [Keys -> 0 .. MaxFrames],
         Counts(s, F, Rest(T.flows, key)), Store(T, key, s)
  PROVE  /\ Tabled(flows', total', F) /\ ready' \in Seq(Frame)
         /\ delivered' \in [Keys -> 0 .. MaxFrames]
<1> DEFINE fs == T.flows
           U == (DOMAIN fs) \cup {key}
           r == [expected |-> s.expected, gap |-> s.gap, pending |-> s.pending]
           gs == [k \in U |-> IF k = key THEN r ELSE fs[k]]
           d == IF s.out = <<>> THEN T.delivered[key] ELSE s.out[Len(s.out)].packet
           R == Rest(fs, key)
<1>1. /\ flows' = gs /\ total' = s.total /\ ready' = s.out
      /\ delivered' = [T.delivered EXCEPT ![key] = d]
  BY DEF Store
<1>2. /\ Sound(s, F) /\ R \in Nat /\ s.total = R + Cardinality(s.pending)
  BY DEF Counts
<1>3. /\ s.expected \in Sequences /\ s.pending \subseteq Frame /\ s.out \in Seq(Frame)
      /\ s.gap \in {"none", "young", "old"} /\ s.pending \subseteq F
      /\ Cardinality(s.pending) \in Nat
  BY <1>2, SoundFacts
<1>4. r \in FlowState /\ r.pending = s.pending
  BY <1>3 DEF FlowState
<1>5. /\ fs \in [DOMAIN fs -> FlowState] /\ DOMAIN fs \subseteq Keys /\ IsFiniteSet(F)
      /\ \A k \in DOMAIN fs : fs[k].pending \subseteq F
  BY DEF Tabled, Framed
<1> HIDE DEF r
<1>6. /\ gs \in [U -> FlowState] /\ U \subseteq Keys /\ DOMAIN gs = U
      /\ \A k \in U : gs[k].pending \subseteq F
  BY <1>3, <1>4, <1>5
<1>7. s.total = SumFunction(HeldBy(gs, U))
  <2> DEFINE G == HeldBy(gs, U)
             H == HeldBy(fs, U \ {key})
  <2>1. U \ {key} = (DOMAIN fs) \ {key} /\ IsFiniteSet(U) /\ key \in U
    BY <1>6, FlowConstants, FS_Subset
  <2>2. R = SumFunction(H)
    BY <2>1 DEF Rest
  <2>3. H \in [U \ {key} -> Nat]
    <3> DEFINE V == U \ {key}
    <3>1. V \subseteq DOMAIN fs
      BY <2>1
    <3> HIDE DEF U, V
    <3>2. HeldBy(fs, V) \in [V -> Nat]
      BY <1>5, <3>1, HeldType
    <3> QED
      BY <3>2 DEF V
  <2>4. \A k \in U : Cardinality(gs[k].pending) \in Nat
    BY <1>5, <1>6, FS_Subset, FS_CardinalityType
  <2>5. G \in [U -> Nat]
    BY <2>4 DEF HeldBy
  <2>6. G[key] = Cardinality(s.pending)
    BY <1>4, <2>1 DEF HeldBy
  <2>7. \A o \in U \ {key} : G[o] = H[o]
    BY DEF HeldBy
  <2>8. HeldBy(gs, U) = G
    OBVIOUS
  <2> HIDE DEF G, H, U, R, gs
  <2>9. SumFunction(G) = SumFunction(H) + G[key]
    BY <2>1, <2>3, <2>5, <2>7, SumExtends
  <2> QED
    BY <1>2, <2>2, <2>6, <2>8, <2>9
<1>8. Tabled(gs, s.total, F)
  BY <1>6, <1>7 DEF Tabled
<1>9. d \in 0 .. MaxFrames
  <2>1. CASE s.out = <<>>
    BY <2>1
  <2>2. CASE s.out # <<>>
    <3>1. Len(s.out) \in DOMAIN s.out
      BY <1>3, <2>2, EmptySeq, LenProperties
    <3>2. s.out[Len(s.out)] \in Frame
      BY <1>3, <3>1
    <3>3. s.out[Len(s.out)].packet \in 1 .. MaxFrames
      BY <3>2 DEF Frame
    <3> QED
      BY <2>2, <3>3, FlowConstants
  <2> QED
    BY <2>1, <2>2
<1> HIDE DEF gs, d
<1> QED
  BY <1>1, <1>3, <1>8, <1>9

(* Push: the table, the entry, the branch of push_at and the store. *)
LEMMA PushStep ==
  ASSUME FlowInv, NEW frame \in frames, Push(frame)
  PROVE  FlowInv'
<1> DEFINE key == frame.key
           T == Table(key)
           e == ReleaseExpired(Entry(T, key))
           s == Handled(e, frame)
           R == Rest(T.flows, key)
<1>1. /\ frames \subseteq Frame /\ UNCHANGED <<sequencer, frames>> /\ Store(T, key, s)
      /\ Framed(frames)
  BY FlowFramed DEF FlowInv, Push, PushInto
<1>2. key \in Keys
  BY <1>1 DEF Frame
<1>3. Tabled(T.flows, T.total, frames) /\ T.delivered \in [Keys -> 0 .. MaxFrames]
  BY TableIs
<1> HIDE DEF key, T
<1>4. Counts(Entry(T, key), frames, R)
  BY <1>1, <1>2, <1>3, EntryCounts
<1> HIDE DEF R
<1>5. Counts(e, frames, R)
  BY <1>4, LimitsAre DEF Fewer
<1> HIDE DEF e
<1>6. Counts(s, frames, R)
  BY <1>5, HandledIs
<1> HIDE DEF s
<1>7. Counts(s, frames, Rest(T.flows, key))
  BY <1>6 DEF R
<1>8. /\ Tabled(flows', total', frames) /\ ready' \in Seq(Frame)
      /\ delivered' \in [Keys -> 0 .. MaxFrames]
  BY <1>1, <1>2, <1>3, <1>7, StoreIs
<1> QED
  BY <1>1, <1>8 DEF FlowInv, Sequencer, Frame, Keys, Sequences

-----------------------------------------------------------------------------
(* A table counts the same whatever else has been framed. *)
LEMMA StillTabled ==
  ASSUME NEW fs, NEW F, NEW G, NEW n, Tabled(fs, n, F), F \subseteq G
  PROVE  Tabled(fs, n, G)
  BY DEF Tabled

(* A full table of the sequencer is emptied under the next sender id. *)
LEMMA RoomIs ==
  ASSUME FlowInv, NEW f \in Flows, Room(sequencer, f).sender <= MaxSenders
  PROVE  Room(sequencer, f) \in Sequencer
<1>1. /\ sequencer \in Sequencer /\ sequencer.sender \in 1 .. MaxSenders
      /\ sequencer.sequences \in UNION {[D -> Sequences] : D \in SUBSET Flows}
  BY DEF FlowInv, Sequencer
<1>2. Empty \in [{} -> Sequences]
  BY DEF Empty
<1>3. CASE Room(sequencer, f) = sequencer
  BY <1>1, <1>3
<1>4. CASE Room(sequencer, f) = [sender |-> sequencer.sender + 1, sequences |-> Empty]
  <2> DEFINE n == sequencer.sender + 1
  <2>1. n <= MaxSenders
    BY <1>4
  <2>2. n \in 1 .. MaxSenders
    BY <1>1, <2>1, FlowConstants
  <2>3. Room(sequencer, f) = [sender |-> n, sequences |-> Empty]
    BY <1>4
  <2> HIDE DEF n
  <2>4. Empty \in UNION {[D -> Sequences] : D \in SUBSET Flows}
    BY <1>2
  <2> QED
    BY <2>2, <2>3, <2>4 DEF Sequencer
<1> QED
  BY <1>3, <1>4 DEF Room

(* A packet that is framed is one frame more. *)
LEMMA NextSequenceStep ==
  ASSUME FlowInv, NEW f \in Flows, NextSequence(f)
  PROVE  FlowInv'
<1> DEFINE s == Room(sequencer, f)
           S == s.sequences
           q == IF f \in DOMAIN S THEN S[f] ELSE 0
           n == Cardinality(frames) + 1
           x == [key |-> <<s.sender, f>>, sequence |-> q, packet |-> n]
           T == [g \in (DOMAIN S) \cup {f} |-> IF g = f THEN Advance(q) ELSE S[g]]
           t == [s EXCEPT !.sequences = T]
<1>1. /\ Cardinality(frames) < MaxFrames /\ s.sender <= MaxSenders
      /\ frames' = frames \cup {x} /\ sequencer' = t /\ ready' = <<>>
      /\ UNCHANGED <<flows, total, delivered>>
  BY DEF NextSequence
<1>2. /\ frames \subseteq Frame /\ IsFiniteSet(frames) /\ Tabled(flows, total, frames)
      /\ delivered \in [Keys -> 0 .. MaxFrames]
  BY DEF FlowInv
<1>3. s \in Sequencer
  BY <1>1, RoomIs
<1> HIDE DEF s
<1>4. s.sender \in 1 .. MaxSenders /\ S \in UNION {[D -> Sequences] : D \in SUBSET Flows}
  BY <1>3 DEF Sequencer
<1>5. S \in [DOMAIN S -> Sequences] /\ DOMAIN S \subseteq Flows
  BY <1>4
<1> HIDE DEF S
<1>6. q \in Sequences
  BY <1>5, FlowConstants
<1> HIDE DEF q
<1>7. Advance(q) \in Sequences
  <2>1. q + 1 \in Int
    BY <1>6, FlowConstants DEF Sequences
  <2> QED
    BY <2>1, Wraps DEF Advance
<1>8. n \in 1 .. MaxFrames
  BY <1>1, <1>2, FS_CardinalityType, FlowConstants
<1>9. x \in Frame
  BY <1>4, <1>6, <1>8 DEF Frame, Keys
<1>10. t \in Sequencer
  <2>1. T \in [(DOMAIN S) \cup {f} -> Sequences] /\ (DOMAIN S) \cup {f} \subseteq Flows
    BY <1>5, <1>7
  <2> HIDE DEF T
  <2>2. T \in UNION {[D -> Sequences] : D \in SUBSET Flows}
    BY <2>1
  <2> QED
    BY <1>3, <2>2 DEF Sequencer
<1> HIDE DEF x, t
<1>11. /\ frames' \subseteq Frame /\ IsFiniteSet(frames') /\ Cardinality(frames') <= MaxFrames
  <2>1. IsFiniteSet(frames \cup {x})
        /\ Cardinality(frames \cup {x}) = IF x \in frames THEN Cardinality(frames) ELSE n
    BY <1>2, FS_AddElement
  <2>2. Cardinality(frames \cup {x}) <= MaxFrames
    BY <1>1, <1>2, <1>8, <2>1, FS_CardinalityType, FlowConstants
  <2> QED
    BY <1>1, <1>2, <1>9, <2>1, <2>2
<1>12. Tabled(flows, total, frames')
  BY <1>1, <1>2, StillTabled
<1>13. <<>> \in Seq(Frame)
  BY EmptySeq
<1> QED
  BY <1>1, <1>2, <1>10, <1>11, <1>12, <1>13 DEF FlowInv, Sequencer, Frame, Keys, Sequences, Tabled, HeldBy, FlowState

(* A sequencer of its own starts with no flow. *)
LEMMA NewSequencerStep ==
  ASSUME FlowInv, NewSequencer
  PROVE  FlowInv'
<1> DEFINE n == sequencer.sender + 1
<1>1. /\ n \in 1 .. MaxSenders /\ sequencer' = [sender |-> n, sequences |-> Empty]
      /\ ready' = <<>> /\ UNCHANGED <<frames, flows, total, delivered>>
  BY FlowConstants DEF FlowInv, Sequencer, NewSequencer
<1> HIDE DEF n
<1>2. Empty \in UNION {[D -> Sequences] : D \in SUBSET Flows}
  <2>1. Empty \in [{} -> Sequences]
    BY DEF Empty
  <2> QED
    BY <2>1
<1>3. sequencer' \in Sequencer
  BY <1>1, <1>2 DEF Sequencer
<1>4. <<>> \in Seq(Frame)
  BY EmptySeq
<1> QED
  BY <1>1, <1>3, <1>4 DEF FlowInv, Sequencer, Frame, Keys, Sequences, Tabled, HeldBy, FlowState

(* The clock of a gap is not what is held. *)
LEMMA AgeStep ==
  ASSUME FlowInv, NEW key \in Keys, Age(key)
  PROVE  FlowInv'
<1> DEFINE e == [flows[key] EXCEPT !.gap = "old"]
           gs == [flows EXCEPT ![key] = e]
           D == DOMAIN flows
<1>1. /\ key \in D /\ flows' = gs /\ ready' = <<>>
      /\ UNCHANGED <<sequencer, frames, total, delivered>>
  BY DEF Age
<1>2. /\ D \subseteq Keys /\ flows \in [D -> FlowState]
      /\ \A k \in D : flows[k].pending \subseteq frames
      /\ total = SumFunction(HeldBy(flows, D))
  BY DEF FlowInv, Tabled
<1>3. e \in FlowState /\ e.pending = flows[key].pending
  BY <1>1, <1>2 DEF FlowState
<1> HIDE DEF e
<1>4. gs \in [D -> FlowState] /\ DOMAIN gs = D
      /\ \A k \in D : gs[k].pending = flows[k].pending
  BY <1>2, <1>3
<1> HIDE DEF gs
<1>5. HeldBy(gs, D) = HeldBy(flows, D)
  BY <1>4 DEF HeldBy
<1>6. Tabled(gs, total, frames)
  BY <1>2, <1>4, <1>5 DEF Tabled
<1>7. <<>> \in Seq(Frame)
  BY EmptySeq
<1> QED
  BY <1>1, <1>6, <1>7 DEF FlowInv, Sequencer, Frame, Keys, Sequences, Tabled, HeldBy, FlowState

(* An empty reassembler holds nothing. *)
LEMMA NewReassemblerStep ==
  ASSUME FlowInv, NewReassembler
  PROVE  FlowInv'
<1>1. /\ flows' = Empty /\ total' = 0 /\ ready' = <<>> /\ delivered' = NothingDelivered
      /\ UNCHANGED <<sequencer, frames>>
  BY DEF NewReassembler
<1>2. Tabled(Empty, 0, frames)
  BY EmptyTabled
<1>3. NothingDelivered \in [Keys -> 0 .. MaxFrames] /\ <<>> \in Seq(Frame)
  BY FlowConstants, EmptySeq DEF NothingDelivered
<1>4. Tabled(flows', total', frames')
  BY <1>1, <1>2
<1> QED
  BY <1>1, <1>3, <1>4 DEF FlowInv, Sequencer, Frame, Keys, Sequences

(* Nothing is held at the start. *)
LEMMA FlowStart ==
  ASSUME FlowInit
  PROVE  FlowInv
<1>1. PICK long \in SUBSET LongFlows :
        /\ sequencer = [sender |-> 1, sequences |-> [f \in long |-> NearWrap]]
        /\ flows = [k \in {1} \X long |-> [Fresh EXCEPT !.expected = NearWrap]]
  BY DEF FlowInit
<1>2. frames = {} /\ total = 0 /\ ready = <<>> /\ delivered = NothingDelivered
  BY DEF FlowInit
<1> DEFINE D == {1} \X long
           e == [Fresh EXCEPT !.expected = NearWrap]
           h == HeldBy(flows, D)
<1>3. long \subseteq Flows /\ 1 \in 1 .. MaxSenders /\ D \subseteq Keys
  BY FlowConstants DEF Keys
<1>4. e \in FlowState /\ e.pending = {}
  BY FlowConstants DEF Fresh, FlowState
<1>5. flows = [k \in D |-> e]
  BY <1>1
<1> HIDE DEF D, e
<1>6. flows \in [D -> FlowState] /\ DOMAIN flows = D /\ \A k \in D : flows[k].pending = {}
  BY <1>4, <1>5
<1>7. IsFiniteSet(D) /\ Cardinality({}) = 0 /\ IsFiniteSet({})
  BY <1>3, FlowConstants, FS_Subset, FS_EmptySet
<1>8. h \in [D -> Nat] /\ \A k \in D : h[k] = 0
  <2>1. \A k \in D : Cardinality(flows[k].pending) = 0
    BY <1>6, <1>7
  <2>2. h = [k \in D |-> Cardinality(flows[k].pending)]
    BY DEF HeldBy
  <2> QED
    BY <2>1, <2>2
<1> HIDE DEF h
<1>9. SumFunction(h) = 0
  BY <1>7, <1>8, SumOfNone
<1>10. Tabled(flows, total, frames)
  BY <1>2, <1>3, <1>6, <1>9 DEF Tabled, h
<1>11. sequencer \in Sequencer
  <2>1. [f \in long |-> NearWrap] \in UNION {[E -> Sequences] : E \in SUBSET Flows}
    BY <1>3, FlowConstants
  <2> QED
    BY <1>1, <1>3, <2>1 DEF Sequencer
<1>12. NothingDelivered \in [Keys -> 0 .. MaxFrames] /\ <<>> \in Seq(Frame)
  BY FlowConstants, EmptySeq DEF NothingDelivered
<1>13. 0 <= MaxFrames
  BY FlowConstants
<1> QED
  BY <1>2, <1>7, <1>10, <1>11, <1>12, <1>13 DEF FlowInv

(* A table whose frames are counted says what pending_total is. *)
LEMMA FlowImplies ==
  ASSUME FlowInv
  PROVE  AccountingMatches
<1>1. Tabled(flows, total, frames) /\ Framed(frames)
  BY FlowFramed DEF FlowInv
<1>2. /\ DOMAIN flows \subseteq Keys /\ flows \in [DOMAIN flows -> FlowState]
      /\ total = SumFunction(HeldBy(flows, DOMAIN flows))
  BY <1>1 DEF Tabled
<1>3. total = SumFunction([k \in DOMAIN flows |-> Cardinality(flows[k].pending)])
  BY <1>2 DEF HeldBy
<1>4. total \in Nat
  <2> DEFINE h == HeldBy(flows, DOMAIN flows)
  <2>1. h \in [DOMAIN flows -> Nat] /\ IsFiniteSet(DOMAIN flows)
    BY <1>1, HeldType DEF Framed
  <2> HIDE DEF h
  <2>2. SumFunction(h) \in Nat
    BY <2>1, SumType
  <2> QED
    BY <1>2, <2>2 DEF h
<1>5. /\ sequencer.sender \in 1 .. MaxSenders /\ DOMAIN sequencer.sequences \subseteq Flows
      /\ \A f \in DOMAIN sequencer.sequences : sequencer.sequences[f] \in Sequences
  <2>1. /\ sequencer.sender \in 1 .. MaxSenders
        /\ sequencer.sequences \in UNION {[D -> Sequences] : D \in SUBSET Flows}
    BY DEF FlowInv, Sequencer
  <2> DEFINE S == sequencer.sequences
  <2>2. PICK D \in SUBSET Flows : S \in [D -> Sequences]
    BY <2>1
  <2> HIDE DEF S
  <2>3. DOMAIN S \subseteq Flows /\ \A f \in DOMAIN S : S[f] \in Sequences
    BY <2>2
  <2> QED
    BY <2>1, <2>3 DEF S
<1>6. frames \subseteq Frame /\ delivered \in [Keys -> 0 .. MaxFrames]
  BY DEF FlowInv
<1>7. \A i \in DOMAIN ready : ready[i] \in Frame
  BY DEF FlowInv
<1>8. \A k \in DOMAIN flows : flows[k] \in FlowState
  BY <1>2
<1> QED
  BY <1>2, <1>3, <1>4, <1>5, <1>6, <1>7, <1>8 DEF AccountingMatches, FlowTypeOK

(* Every step of the framing keeps the invariant. *)
LEMMA FlowStays ==
  ASSUME FlowInv, [FlowNext]_flowVars
  PROVE  FlowInv'
<1>1. CASE \E f \in Flows : NextSequence(f)
  BY <1>1, NextSequenceStep
<1>2. CASE NewSequencer
  BY <1>2, NewSequencerStep
<1>3. CASE \E frame \in frames : Push(frame)
  BY <1>3, PushStep
<1>4. CASE \E key \in Keys : Age(key)
  BY <1>4, AgeStep
<1>5. CASE NewReassembler
  BY <1>5, NewReassemblerStep
<1>6. CASE UNCHANGED flowVars
  BY <1>6 DEF flowVars, FlowInv, Sequencer, Frame, Keys, Sequences, Tabled, HeldBy, FlowState
<1> QED
  BY <1>1, <1>2, <1>3, <1>4, <1>5, <1>6 DEF FlowNext

(* pending_total, which each branch of push_at corrects by itself, is the  *)
(* number of frames really held, whichever limit forces a release and      *)
(* whatever the paths lose, repeat or reorder.                             *)
THEOREM HeldIsCounted == FlowSpec => []AccountingMatches
<1>1. FlowInit => FlowInv
  BY FlowStart
<1>2. FlowInv /\ [FlowNext]_flowVars => FlowInv'
  BY FlowStays
<1>3. FlowInv => AccountingMatches
  BY FlowImplies
<1> QED
  BY <1>1, <1>2, <1>3, PTL DEF FlowSpec

-----------------------------------------------------------------------------
(* The order of a flow: how far a sequence is from the first of its flow.  *)
Ord(b, q) == (q - b) % SequenceSpace

(* A number that is off by at most one round. *)
LEMMA OneRound ==
  ASSUME NEW a \in Int, NEW r \in Sequences,
         a = r \/ a = r + SequenceSpace \/ a = r - SequenceSpace
  PROVE  a % SequenceSpace = r
<1> DEFINE n == SequenceSpace
           p == a \div n
           m == a % n
<1>1. n \in Nat \ {0} /\ r \in 0 .. n - 1 /\ r \in Int
  BY FlowConstants DEF Sequences
<1>2. a = r \/ a = r + n \/ a = r - n
  OBVIOUS
<1> HIDE DEF n
<1>3. p \in Int /\ m \in 0 .. n - 1 /\ a = n * p + m
  BY <1>1
<1> HIDE DEF p, m
<1>4. PICK d \in Int : m - r = n * d
  <2>1. n * (0 - p) = 0 - n * p /\ n * (1 - p) = n - n * p /\ n * (-1 - p) = 0 - n - n * p
    BY <1>1, <1>3
  <2>2. 0 - p \in Int /\ 1 - p \in Int /\ -1 - p \in Int
    BY <1>3
  <2> DEFINE np == n * p
  <2>3. np \in Int /\ a = np + m
    BY <1>1, <1>3
  <2>4. CASE a = r
    <3>1. m - r = n * (0 - p)
      BY <1>1, <1>3, <2>1, <2>4
    <3> QED
      BY <2>2, <3>1
  <2>5. CASE a = r + n
    <3>1. m - r = n * (1 - p)
      BY <1>1, <1>3, <2>1, <2>5
    <3> QED
      BY <2>2, <3>1
  <2>6. CASE a = r - n
    <3>1. m - r = n * (-1 - p)
      BY <1>1, <1>3, <2>1, <2>6
    <3> QED
      BY <2>2, <3>1
  <2> QED
    BY <1>2, <2>4, <2>5, <2>6
<1>5. m = r
  <2>1. CASE d = 0
    BY <1>1, <1>3, <1>4, <2>1
  <2>2. CASE d >= 1
    <3>1. n * d >= n
      BY <1>1, <2>2
    <3> QED
      BY <1>1, <1>3, <1>4, <3>1
  <2>3. CASE d <= -1
    <3>1. n * d <= 0 - n
      BY <1>1, <2>3
    <3> QED
      BY <1>1, <1>3, <1>4, <3>1
  <2> QED
    BY <2>1, <2>2, <2>3
<1> QED
  BY <1>5 DEF m, n

(* Half of the sequences and the other half. *)
LEMMA HalfIs ==
  /\ Half \in Nat /\ SequenceSpace = Half + Half /\ Half >= 2
  /\ MaxFrames \in Nat \ {0} /\ MaxFrames < Half
<1> DEFINE n == SequenceSpace
<1>1. n \in Nat \ {0} /\ n % 2 = 0 /\ MaxFrames \in Nat \ {0} /\ MaxFrames < n \div 2
      /\ Half = n \div 2
  BY FlowFrameAssumption DEF Half
<1> HIDE DEF n
<1>2. n \div 2 \in Nat /\ n = n \div 2 + n \div 2
  BY <1>1
<1> QED
  BY <1>1, <1>2 DEF n

(* Ord is one of these two numbers. *)
LEMMA OrdIs ==
  ASSUME NEW b \in Sequences, NEW q \in Sequences
  PROVE  /\ Ord(b, q) \in Sequences /\ Ord(b, q) \in Nat
         /\ Ord(b, q) = IF q >= b THEN q - b ELSE q - b + SequenceSpace
<1> DEFINE n == SequenceSpace
           r == IF q >= b THEN q - b ELSE q - b + n
<1>1. n \in Nat \ {0} /\ b \in 0 .. n - 1 /\ q \in 0 .. n - 1 /\ Sequences = 0 .. n - 1
  BY FlowConstants DEF Sequences
<1>2. /\ r \in Sequences /\ r \in Nat /\ q - b \in Int
      /\ q - b = r \/ q - b = r + n \/ q - b = r - n
  <2> HIDE DEF n
  <2> QED
    BY <1>1
<1> HIDE DEF r
<1>3. (q - b) % SequenceSpace = r
  BY <1>2, OneRound
<1> QED
  BY <1>2, <1>3 DEF Ord, r

(* As many numbers on, unless that is a whole round. *)
LEMMA OrdAdds ==
  ASSUME NEW b \in Sequences, NEW q \in Sequences, NEW i \in Nat,
         Ord(b, q) + i < SequenceSpace
  PROVE  /\ (q + i) % SequenceSpace \in Sequences
         /\ Ord(b, (q + i) % SequenceSpace) = Ord(b, q) + i
<1> DEFINE n == SequenceSpace
           o == Ord(b, q)
           r == IF q + i < n THEN q + i ELSE q + i - n
<1>1. n \in Nat \ {0} /\ b \in 0 .. n - 1 /\ q \in 0 .. n - 1 /\ Sequences = 0 .. n - 1
  BY FlowConstants DEF Sequences
<1>2. /\ o \in Sequences /\ o = (IF q >= b THEN q - b ELSE q - b + n) /\ o + i < n
  BY OrdIs
<1> HIDE DEF o
<1>3. /\ r \in Sequences /\ q + i \in Int
      /\ q + i = r \/ q + i = r + n \/ q + i = r - n
  <2> HIDE DEF n
  <2> QED
    BY <1>1, <1>2
<1>4. (q + i) % SequenceSpace = r
  <2> HIDE DEF r
  <2> QED
    BY <1>3, OneRound
<1>5. Ord(b, r) = IF r >= b THEN r - b ELSE r - b + n
  <2> HIDE DEF r
  <2> QED
    BY <1>3, OrdIs
<1>6. Ord(b, r) = o + i
  <2> DEFINE x == Ord(b, r)
  <2>1. x = IF r >= b THEN r - b ELSE r - b + n
    BY <1>5
  <2> HIDE DEF n, x
  <2>2. x = o + i
    BY <1>1, <1>2, <2>1
  <2> QED
    BY <2>2 DEF x
<1> QED
  BY <1>3, <1>4, <1>6 DEF o

(* IsForward compares how far the two are, as long as neither is half way. *)
LEMMA ForwardIs ==
  ASSUME NEW b \in Sequences, NEW q \in Sequences, NEW e \in Sequences,
         Ord(b, q) < Half, Ord(b, e) <= Half
  PROVE  /\ IsForward(q, e) <=> Ord(b, q) > Ord(b, e)
         /\ q = e <=> Ord(b, q) = Ord(b, e)
         /\ e = b => Ord(b, e) = 0
<1> DEFINE n == SequenceSpace
           h == Half
           x == Ord(b, q)
           y == Ord(b, e)
           z == Ord(e, q)
<1>1. /\ n \in Nat \ {0} /\ h \in Nat /\ n = h + h /\ b \in 0 .. n - 1 /\ q \in 0 .. n - 1
      /\ e \in 0 .. n - 1
  BY FlowConstants, HalfIs DEF Sequences
<1>2. /\ x = (IF q >= b THEN q - b ELSE q - b + n) /\ y = (IF e >= b THEN e - b ELSE e - b + n)
      /\ z = (IF q >= e THEN q - e ELSE q - e + n)
  BY OrdIs
<1>3. IsForward(q, e) <=> q # e /\ z < h
  BY DEF IsForward, Ord
<1>4. x < h /\ y <= h
  OBVIOUS
<1> HIDE DEF n, h, x, y, z
<1>5. q = e <=> x = y
  BY <1>1, <1>2
<1>6. q # e /\ z < h <=> x > y
  BY <1>1, <1>2, <1>4
<1>7. e = b => y = 0
  BY <1>1, <1>2
<1> QED
  BY <1>3, <1>5, <1>6, <1>7 DEF x, y

-----------------------------------------------------------------------------
(* The rank of a frame in its flow. *)
Rank(b, p) == Ord(b[p.key], p.sequence)
Bases == [Keys -> {0, NearWrap}]
(* Ranks follow the order of the packets. *)
Ranked(F, b) ==
    /\ b \in Bases /\ Framed(F) /\ Cardinality(F) <= MaxFrames
    /\ \A p \in F : Rank(b, p) < MaxFrames
    /\ \A p, q \in F : p.key = q.key => (p.packet < q.packet <=> Rank(b, p) < Rank(b, q))
(* The flow waits for what comes after packet d; nothing of it has come    *)
(* out when d is 0.                                                        *)
Level(b, k, F, e, d) ==
    IF d = 0 THEN e \in {0, b[k]}
    ELSE \E q \in F : q.key = k /\ q.packet = d /\ Ord(b[k], e) = Rank(b, q) + 1

(* A frame is ahead of e, or e itself, by its rank. *)
Compares(p, b, k, e) ==
    /\ IsForward(p.sequence, e) <=> Rank(b, p) > Ord(b[k], e)
    /\ p.sequence = e <=> Rank(b, p) = Ord(b[k], e)

(* What Ranked says of one frame and of two. *)
LEMMA RankedFacts ==
  ASSUME NEW F, NEW b, NEW k \in Keys, Ranked(F, b)
  PROVE  /\ b[k] \in Sequences /\ Framed(F) /\ Cardinality(F) <= MaxFrames /\ Cardinality(F) \in Nat
         /\ \A p \in F : /\ p \in Frame /\ p.sequence \in Sequences /\ p.packet \in Nat \ {0}
                         /\ p.key = k => /\ Rank(b, p) = Ord(b[k], p.sequence)
                                         /\ Rank(b, p) \in Nat /\ Rank(b, p) < MaxFrames
         /\ \A p, q \in F : p.key = k /\ q.key = k =>
              (p.packet < q.packet <=> Rank(b, p) < Rank(b, q))
<1>1. /\ b \in Bases /\ Framed(F) /\ F \subseteq Frame /\ IsFiniteSet(F)
      /\ Cardinality(F) <= MaxFrames
  BY DEF Ranked, Framed
<1>2. b[k] \in Sequences
  BY <1>1, FlowConstants DEF Bases
<1>3. ASSUME NEW p \in F
      PROVE  p \in Frame /\ p.sequence \in Sequences /\ p.packet \in Nat \ {0}
  BY <1>1, FlowConstants DEF Frame
<1>4. ASSUME NEW p \in F, p.key = k
      PROVE  Rank(b, p) = Ord(b[k], p.sequence) /\ Rank(b, p) \in Nat /\ Rank(b, p) < MaxFrames
  <2>1. Rank(b, p) = Ord(b[k], p.sequence)
    BY <1>4 DEF Rank
  <2>2. Ord(b[k], p.sequence) \in Nat
    BY <1>2, <1>3, OrdIs
  <2> QED
    BY <2>1, <2>2 DEF Ranked
<1>5. \A p, q \in F : p.key = k /\ q.key = k =>
         (p.packet < q.packet <=> Rank(b, p) < Rank(b, q))
  BY DEF Ranked
<1>6. Cardinality(F) \in Nat
  BY <1>1, FS_CardinalityType
<1> QED
  BY <1>1, <1>2, <1>3, <1>4, <1>5, <1>6

(* The same, of one frame and of two. *)
LEMMA FrameRank ==
  ASSUME NEW F, NEW b, NEW k \in Keys, NEW p \in F, Ranked(F, b), p.key = k
  PROVE  /\ p \in Frame /\ p.sequence \in Sequences /\ p.packet \in Nat \ {0}
         /\ Rank(b, p) = Ord(b[k], p.sequence) /\ Rank(b, p) \in Nat /\ Rank(b, p) < MaxFrames
<1>1. \A q \in F : /\ q \in Frame /\ q.sequence \in Sequences /\ q.packet \in Nat \ {0}
                   /\ q.key = k => /\ Rank(b, q) = Ord(b[k], q.sequence)
                                   /\ Rank(b, q) \in Nat /\ Rank(b, q) < MaxFrames
  BY RankedFacts
<1> QED
  BY <1>1

(* A frame compares with what a flow waits for as its packet does with the *)
(* last that came out.                                                     *)
LEMMA FrameOrder ==
  ASSUME NEW F, NEW b, NEW p \in F, NEW q \in F, Ranked(F, b), p.key = q.key
  PROVE  p.packet < q.packet <=> Rank(b, p) < Rank(b, q)
BY DEF Ranked

(* What is ahead of the expected number is what is newer than d. *)
LEMMA LevelIs ==
  ASSUME NEW F, NEW b, NEW k \in Keys, NEW e \in Sequences, NEW d \in Nat,
         Ranked(F, b), Level(b, k, F, e, d)
  PROVE  /\ Ord(b[k], e) \in Nat /\ Ord(b[k], e) <= Half
         /\ \A p \in F : p.key = k =>
              /\ Rank(b, p) >= Ord(b[k], e) => p.packet > d
              /\ p.packet > d /\ (e = 0 /\ d = 0 => p.sequence < Half)
                   => Rank(b, p) >= Ord(b[k], e)
              /\ Compares(p, b, k, e)
<1> DEFINE c == b[k]
           E == Ord(c, e)
<1>1. /\ c \in Sequences
      /\ \A p \in F : /\ p.sequence \in Sequences /\ p.packet \in Nat \ {0}
                      /\ p.key = k => /\ Rank(b, p) = Ord(c, p.sequence)
                                      /\ Rank(b, p) \in Nat /\ Rank(b, p) < MaxFrames
  BY RankedFacts
<1>2. \A p, q \in F : p.key = k /\ q.key = k =>
         (p.packet < q.packet <=> Rank(b, p) < Rank(b, q))
  BY RankedFacts
<1>3. c \in {0, NearWrap} /\ Half \in Nat /\ SequenceSpace = Half + Half /\ Half >= 2
      /\ MaxFrames \in Nat /\ MaxFrames < Half
  BY HalfIs DEF Ranked, Bases
<1>4. E \in Nat /\ (E = IF e >= c THEN e - c ELSE e - c + SequenceSpace)
  <2> HIDE DEF c
  <2>1. Ord(c, e) \in Nat /\ Ord(c, e) = IF e >= c THEN e - c ELSE e - c + SequenceSpace
    BY <1>1, OrdIs
  <2> QED
    BY <2>1
<1>5. E <= Half /\ \A p \in F : p.key = k =>
         /\ Rank(b, p) >= E => p.packet > d
         /\ p.packet > d /\ (e = 0 /\ d = 0 => p.sequence < Half) => Rank(b, p) >= E
  <2>1. CASE d = 0 /\ e = c
    <3>1. E = 0
      <4> HIDE DEF E, c
      <4>1. e \in Int
        BY FlowConstants DEF Sequences
      <4> QED
        BY <1>4, <2>1, <4>1
    <3> HIDE DEF E
    <3> QED
      BY <1>1, <1>3, <2>1, <3>1
  <2>2. CASE d = 0 /\ e = 0 /\ e # c
    <3> DEFINE h == Half
               n == SequenceSpace
    <3>1. c = n - 2 /\ n = h + h /\ h >= 2 /\ h \in Nat
      BY <1>3, <2>2 DEF NearWrap
    <3>2. E = IF e >= c THEN e - c ELSE e - c + n
      BY <1>4
    <3>3. E = 2
      <4> HIDE DEF E, c, n, h
      <4> QED
        BY <2>2, <3>1, <3>2
    <3>4. ASSUME NEW p \in F, p.key = k, p.sequence < h
          PROVE  Rank(b, p) >= 2
      <4> DEFINE q == p.sequence
                 x == Rank(b, p)
      <4>1. /\ q \in 0 .. n - 1 /\ q \in Sequences /\ x = Ord(c, q)
        BY <1>1, <3>4 DEF Sequences
      <4>2. x = IF q >= c THEN q - c ELSE q - c + n
        BY <1>1, <4>1, OrdIs
      <4>3. q < h
        BY <3>4
      <4> HIDE DEF c, n, h, q, x
      <4>4. x >= 2
        BY <3>1, <4>1, <4>2, <4>3
      <4> QED
        BY <4>4 DEF x
    <3>5. \A p \in F : p.packet > 0
      BY <1>1
    <3> HIDE DEF E, c
    <3> QED
      BY <1>3, <2>2, <3>3, <3>4, <3>5
  <2>3. CASE d # 0
    <3>1. PICK q \in F : q.key = k /\ q.packet = d /\ E = Rank(b, q) + 1
      BY <2>3 DEF Level
    <3> HIDE DEF E, c
    <3>2. E <= Half /\ Rank(b, q) \in Nat
      BY <1>1, <1>3, <3>1
    <3>3. ASSUME NEW p \in F, p.key = k
          PROVE  Rank(b, p) >= E <=> p.packet > d
      <4>1. q.packet < p.packet <=> Rank(b, q) < Rank(b, p)
        BY <1>2, <3>1, <3>3
      <4>2. Rank(b, p) \in Nat /\ p.packet \in Nat
        BY <1>1, <3>3
      <4> QED
        BY <3>1, <3>2, <4>1, <4>2
    <3> QED
      BY <3>2, <3>3
  <2> QED
    BY <2>1, <2>2, <2>3 DEF Level
<1>6. ASSUME NEW p \in F, p.key = k
      PROVE  Compares(p, b, k, e)
  <2> DEFINE q == p.sequence
             x == Ord(c, q)
             h == Half
             m == MaxFrames
  <2>1. q \in Sequences /\ Rank(b, p) = x /\ x \in Nat /\ x < m
    BY <1>1, <1>6
  <2>2. x < h
    <3>1. m < h /\ m \in Nat /\ h \in Nat
      BY <1>3
    <3> HIDE DEF x, m, h
    <3> QED
      BY <2>1, <3>1
  <2> HIDE DEF q, c
  <2>3. (IsForward(q, e) <=> x > E) /\ (q = e <=> x = E)
    BY <1>1, <1>5, <2>1, <2>2, ForwardIs
  <2> QED
    BY <2>1, <2>3 DEF q, c, Compares
<1> QED
  BY <1>4, <1>5, <1>6

-----------------------------------------------------------------------------
(* The last packet that came out: of o, or else d. *)
LastOf(d, o) == IF o = <<>> THEN d ELSE o[Len(o)].packet
(* x is newer than that, or it is that. *)
Newer(x, d, o) == x.packet > LastOf(d, o)
Newest(x, d, o) == LastOf(d, o) = x.packet
(* o brings out frames of flow k in order, after packet d. *)
Rising(o, k, d, F) ==
    \A i \in DOMAIN o :
      /\ o[i] \in F /\ o[i].key = k
      /\ o[i].packet > IF i = 1 THEN d ELSE o[i - 1].packet
Flowing(s, k, d, F, b) ==
    /\ \A p \in s.pending : p.key = k
    /\ Rising(s.out, k, d, F)
    /\ Level(b, k, F, s.expected, LastOf(d, s.out))
(* What is held or has come out. *)
Out(o) == {o[i] : i \in DOMAIN o}
Has(s) == s.pending \cup Out(s.out)

(* o brings x out, and what a does. *)
Adds(x, a, o) == Out(o) = Out(a) \cup {x}

(* The last packet after one more came out. *)
LEMMA LastIs ==
  ASSUME NEW o \in Seq(Frame), NEW d \in Nat
  PROVE  /\ LastOf(d, o) \in Nat /\ (o # <<>> => LastOf(d, o) # 0 /\ Len(o) \in DOMAIN o)
         /\ Len(o) \in Nat /\ DOMAIN o = 1 .. Len(o) /\ (o = <<>> <=> Len(o) = 0)
<1>1. Len(o) \in Nat /\ DOMAIN o = 1 .. Len(o) /\ (o = <<>> <=> Len(o) = 0)
  BY LenProperties, EmptySeq
<1>2. CASE o = <<>>
  BY <1>1, <1>2 DEF LastOf
<1>3. CASE o # <<>>
  <2>1. Len(o) \in DOMAIN o
    BY <1>1, <1>3
  <2>2. o[Len(o)] \in Frame
    BY <2>1
  <2>3. o[Len(o)].packet \in Nat \ {0}
    BY <2>2, FlowConstants DEF Frame
  <2> QED
    BY <1>1, <1>3, <2>1, <2>3 DEF LastOf
<1> QED
  BY <1>2, <1>3

(* A frame that is newer than all that came out continues the order. *)
LEMMA RisingAppend ==
  ASSUME NEW F, NEW k, NEW x, NEW a, NEW d \in Nat, NEW o \in Seq(Frame), x \in F, x \in Frame,
         Rising(o, k, d, F), x.key = k, Newer(x, d, o), a = Append(o, x)
  PROVE  Rising(a, k, d, F) /\ Newest(x, d, a) /\ Adds(x, o, a)
<1> DEFINE n == Len(o)
<1>1. /\ n \in Nat /\ DOMAIN o = 1 .. n /\ (o = <<>> <=> n = 0)
      /\ (o # <<>> => LastOf(d, o) = o[n].packet) /\ (o = <<>> => LastOf(d, o) = d)
  BY LastIs DEF LastOf
<1>2. /\ a \in Seq(Frame) /\ Len(a) = n + 1 /\ DOMAIN a = 1 .. n + 1
      /\ \A i \in 1 .. n : a[i] = o[i]
  BY AppendProperties, LenProperties
<1>3. a[n + 1] = x
  BY AppendProperties
<1>4. a # <<>> /\ x.packet > LastOf(d, o)
  BY AppendProperties DEF Newer
<1> HIDE DEF n
<1>5. ASSUME NEW i \in DOMAIN a
      PROVE  /\ a[i] \in F /\ a[i].key = k
             /\ a[i].packet > IF i = 1 THEN d ELSE a[i - 1].packet
  <2>1. CASE i \in 1 .. n
    <3>1. a[i] = o[i] /\ (i # 1 => i - 1 \in 1 .. n)
      BY <1>1, <1>2, <2>1
    <3>2. i # 1 => a[i - 1] = o[i - 1]
      BY <1>2, <3>1
    <3> QED
      BY <1>1, <2>1, <3>1, <3>2 DEF Rising
  <2>2. CASE i = n + 1
    <3>1. n = 0 => i = 1
      BY <1>1, <2>2
    <3>2. n # 0 => i # 1 /\ i - 1 = n /\ n \in 1 .. n
      BY <1>1, <2>2
    <3>3. n # 0 => a[i - 1] = o[n]
      BY <1>2, <3>2
    <3> QED
      BY <1>1, <1>3, <1>4, <2>2, <3>1, <3>2, <3>3
  <2> QED
    BY <1>1, <1>2, <2>1, <2>2
<1>6. LastOf(d, a) = x.packet
  BY <1>2, <1>3, <1>4 DEF LastOf
<1>7. Out(a) = Out(o) \cup {x}
  <2>1. DOMAIN a = (DOMAIN o) \cup {n + 1}
    BY <1>1, <1>2
  <2> QED
    BY <1>1, <1>2, <1>3, <2>1 DEF Out
<1> QED
  BY <1>5, <1>6, <1>7 DEF Rising, Newest, Adds

(* Behind frame x the flow waits for what comes after it. *)
LEMMA LevelAfter ==
  ASSUME NEW F, NEW b, NEW k \in Keys, NEW x \in F, Ranked(F, b), x.key = k
  PROVE  /\ Advance(x.sequence) \in Sequences
         /\ Level(b, k, F, Advance(x.sequence), x.packet)
<1> DEFINE c == b[k]
           q == x.sequence
           y == Rank(b, x)
<1>1. c \in Sequences /\ q \in Sequences /\ x.packet # 0 /\ y = Ord(c, q) /\ y \in Nat
      /\ y < MaxFrames
  <2>1. b[k] \in Sequences
    BY RankedFacts
  <2>2. x.sequence \in Sequences /\ x.packet \in Nat \ {0}
    BY RankedFacts
  <2>3. /\ Rank(b, x) = Ord(b[k], x.sequence) /\ Rank(b, x) \in Nat
        /\ Rank(b, x) < MaxFrames
    BY FrameRank
  <2> QED
    BY <2>1, <2>2, <2>3
<1>2. y + 1 < SequenceSpace
  <2> DEFINE n == SequenceSpace
             m == MaxFrames
  <2>1. n \in Nat /\ m \in Nat /\ m < n /\ y < m
    BY <1>1, FlowConstants
  <2> HIDE DEF y, n, m
  <2>2. y + 1 < n
    BY <1>1, <2>1
  <2> QED
    BY <2>2 DEF n
<1> HIDE DEF c, q, y
<1>3. 1 \in Nat /\ Ord(c, q) + 1 < SequenceSpace
  BY <1>1, <1>2
<1>4. (q + 1) % SequenceSpace \in Sequences /\ Ord(c, (q + 1) % SequenceSpace) = Ord(c, q) + 1
  BY <1>1, <1>3, OrdAdds
<1> QED
  BY <1>1, <1>4 DEF Level, Advance, c, q, y

(* drain_contiguous brings out held frames, in order. *)
LEMMA DrainFlows ==
  ASSUME NEW s, NEW F, NEW b, NEW k \in Keys, NEW d \in Nat,
         Sound(s, F), Ranked(F, b), Flowing(s, k, d, F, b)
  PROVE  /\ Flowing(DrainContiguous(s), k, d, F, b)
         /\ Has(DrainContiguous(s)) = Has(s)
<1> DEFINE n == Contiguous(s)
           e == s.expected
           c == b[k]
           E == Ord(c, e)
           g == LastOf(d, s.out)
           r == [i \in 1 .. n |-> CHOOSE p \in HeldAs(s, (e + i - 1) % SequenceSpace) : TRUE]
           p == s.pending \ {r[i] : i \in DOMAIN r}
           f == (e + Len(r)) % SequenceSpace
           o == s.out
           u == o \o r
           l == Len(o)
           t == [s EXCEPT !.pending = p, !.expected = f, !.out = u]
<1>1. /\ e \in Sequences /\ e \in Nat /\ s.pending \subseteq Frame /\ o \in Seq(Frame)
      /\ s.pending \subseteq F /\ IsFiniteSet(s.pending) /\ s \in Pushing
  BY SoundFacts DEF Sound
<1>2. /\ g \in Nat /\ l \in Nat /\ DOMAIN o = 1 .. l /\ (o = <<>> <=> l = 0)
      /\ (o = <<>> => g = d) /\ (o # <<>> => g = o[l].packet)
  BY <1>1, LastIs DEF LastOf
<1>3. /\ \A x \in s.pending : x.key = k
      /\ Rising(o, k, d, F) /\ Level(b, k, F, e, g)
  BY DEF Flowing
<1>4. /\ E \in Nat /\ E <= Half /\ c \in Sequences
      /\ \A x \in F : x.key = k /\ Rank(b, x) >= E => x.packet > g
      /\ \A x \in F : x.key = k => Rank(b, x) = Ord(c, x.sequence)
  <2>1. c \in Sequences /\ \A x \in F : x.key = k => Rank(b, x) = Ord(c, x.sequence)
    BY RankedFacts
  <2> HIDE DEF e, g
  <2>2. /\ Ord(b[k], e) \in Nat /\ Ord(b[k], e) <= Half
        /\ \A x \in F : x.key = k => (Rank(b, x) >= Ord(b[k], e) => x.packet > g)
    BY <1>1, <1>2, <1>3, LevelIs
  <2> QED
    BY <2>1, <2>2
<1>5. DrainContiguous(s) = t
  BY DEF DrainContiguous, Drained, n, e
<1>6. /\ n \in Nat /\ E + n < SequenceSpace
      /\ \A i \in 1 .. n : HeldAs(s, (e + i - 1) % SequenceSpace) # {}
  <2> DEFINE m == Cardinality(s.pending)
             v == Cardinality(F)
             w == MaxFrames
             h == Half
             z == SequenceSpace
  <2>1. n \in 0 .. m /\ Run(s, n)
    BY ContiguousIs
  <2>2. /\ v <= w /\ v \in Nat /\ w \in Nat /\ w < h /\ h \in Nat /\ z = h + h
    BY RankedFacts, HalfIs
  <2>3. m <= v /\ m \in Nat
    <3>1. IsFiniteSet(F)
      BY DEF Sound, Framed
    <3> QED
      BY <1>1, <3>1, FS_Subset, FS_CardinalityType
  <2>4. \A i \in 0 .. n - 1 : HeldAs(s, (e + i) % SequenceSpace) # {}
    BY <2>1 DEF Run
  <2> HIDE DEF n, E, m, v, w, h, z, e
  <2>5. n \in Nat /\ E + n < z
    <3>1. E <= h
      BY <1>4 DEF h
    <3> QED
      BY <1>4, <2>1, <2>2, <2>3, <3>1
  <2>6. ASSUME NEW i \in 1 .. n PROVE HeldAs(s, (e + i - 1) % SequenceSpace) # {}
    <3>1. i - 1 \in 0 .. n - 1 /\ e + i - 1 = e + (i - 1)
      BY <1>1, <2>5
    <3> QED
      BY <2>4, <3>1
  <2> QED
    BY <2>5, <2>6 DEF z
<1> HIDE DEF n, E, g, l
<1>7. \A i \in 1 .. n : r[i] \in s.pending /\ r[i].sequence = (e + i - 1) % SequenceSpace
  <2>1. \A i \in 1 .. n : r[i] \in HeldAs(s, (e + i - 1) % SequenceSpace)
    BY <1>6
  <2> HIDE DEF r
  <2> QED
    BY <2>1 DEF HeldAs
<1>8. ASSUME NEW i \in 1 .. n
      PROVE  /\ r[i] \in F /\ r[i] \in s.pending /\ r[i].key = k /\ r[i].packet \in Nat \ {0}
             /\ Rank(b, r[i]) = E + i - 1
  <2> DEFINE j == i - 1
             x == r[i]
  <2>1. x \in F /\ x \in s.pending /\ x.key = k /\ x.sequence = (e + i - 1) % SequenceSpace
    BY <1>1, <1>3, <1>7
  <2>2. j \in Nat /\ e + i - 1 = e + j /\ E + j < SequenceSpace /\ E + i - 1 = E + j
    <3> DEFINE z == SequenceSpace
    <3>1. z \in Nat /\ E + n < z
      BY <1>6, FlowConstants
    <3> HIDE DEF e, z
    <3>2. j \in Nat /\ e + i - 1 = e + j /\ E + j < z /\ E + i - 1 = E + j
      BY <1>1, <1>4, <1>6, <3>1
    <3> QED
      BY <3>2 DEF z
  <2> HIDE DEF j, x, c, e
  <2>3. Ord(c, (e + j) % SequenceSpace) = E + j
    <3>1. Ord(c, e) + j < SequenceSpace /\ E = Ord(c, e)
      BY <2>2 DEF E
    <3> QED
      BY <1>1, <1>4, <2>2, <3>1, OrdAdds
  <2>4. Rank(b, x) = E + j
    BY <1>4, <2>1, <2>2, <2>3
  <2>5. x.packet \in Nat \ {0}
    BY <2>1, RankedFacts
  <2> QED
    BY <2>1, <2>2, <2>4, <2>5 DEF x
<1>9. r \in Seq(Frame) /\ Len(r) = n /\ DOMAIN r = 1 .. n
  <2>1. \A i \in 1 .. n : r[i] \in Frame
    BY <1>1, <1>8
  <2>2. r \in [1 .. n -> Frame]
    BY <2>1
  <2> QED
    BY <1>6, <2>2, LenProperties
<1> HIDE DEF r
<1>10. /\ u \in Seq(Frame) /\ DOMAIN u = 1 .. l + n /\ Len(u) = l + n
       /\ \A i \in 1 .. l : u[i] = o[i]
       /\ \A i \in 1 .. n : u[l + i] = r[i]
       /\ (u = <<>> <=> l + n = 0)
  <2>1. u \in Seq(Frame) /\ Len(u) = l + n
    BY <1>1, <1>9, ConcatProperties DEF l
  <2>2. \A i \in 1 .. l + n : u[i] = IF i <= l THEN o[i] ELSE r[i - l]
    BY <1>1, <1>9, ConcatProperties DEF l
  <2> HIDE DEF u
  <2>3. DOMAIN u = 1 .. l + n /\ (u = <<>> <=> l + n = 0)
    BY <2>1, LenProperties, EmptySeq
  <2>4. \A i \in 1 .. l : u[i] = o[i]
    BY <1>2, <1>6, <2>2
  <2>5. \A i \in 1 .. n : u[l + i] = r[i]
    <3> TAKE i \in 1 .. n
    <3> DEFINE j == l + i
    <3>1. j \in 1 .. l + n /\ ~(j <= l) /\ j - l = i
      BY <1>2, <1>6
    <3> HIDE DEF j
    <3>2. u[j] = r[j - l]
      BY <2>2, <3>1
    <3> QED
      BY <3>1, <3>2 DEF j
  <2> QED
    BY <2>1, <2>3, <2>4, <2>5
<1> HIDE DEF u
<1>11. ASSUME NEW i \in DOMAIN u
       PROVE  /\ u[i] \in F /\ u[i].key = k
              /\ u[i].packet > IF i = 1 THEN d ELSE u[i - 1].packet
  <2>1. CASE i \in 1 .. l
    <3>1. u[i] = o[i] /\ i \in DOMAIN o /\ (i # 1 => i - 1 \in 1 .. l)
      BY <1>2, <1>10, <2>1
    <3>2. i # 1 => u[i - 1] = o[i - 1]
      BY <1>10, <3>1
    <3> HIDE DEF o
    <3> QED
      BY <1>3, <3>1, <3>2 DEF Rising
  <2>2. CASE i \notin 1 .. l
    <3> DEFINE j == i - l
    <3>1. j \in 1 .. n /\ i = l + j /\ (j # 1 => j - 1 \in 1 .. n /\ i - 1 = l + (j - 1) /\ i # 1)
          /\ (j = 1 /\ l = 0 => i = 1) /\ (j = 1 /\ l # 0 => i # 1 /\ i - 1 = l /\ l \in 1 .. l)
      <4>1. i \in 1 .. l + n /\ i \notin 1 .. l /\ l \in Nat /\ n \in Nat
        BY <1>2, <1>6, <1>10, <2>2
      <4>2. j \in 1 .. n /\ i = l + j
        BY <4>1
      <4>3. j # 1 => j - 1 \in 1 .. n /\ i - 1 = l + (j - 1) /\ i # 1
        BY <4>1
      <4>4. (j = 1 /\ l = 0 => i = 1) /\ (j = 1 /\ l # 0 => i # 1 /\ i - 1 = l /\ l \in 1 .. l)
        BY <4>1
      <4> QED
        BY <4>2, <4>3, <4>4
    <3> HIDE DEF j
    <3>2. u[i] = r[j] /\ r[j] \in F /\ r[j].key = k /\ Rank(b, r[j]) = E + j - 1
      BY <1>8, <1>10, <3>1
    <3>3. CASE j = 1
      <4>1. Rank(b, r[j]) >= E
        BY <1>4, <3>2, <3>3
      <4>2. u[i].packet > g
        BY <1>4, <3>2, <4>1
      <4>3. (l = 0 => g = d) /\ (l # 0 => g = u[i - 1].packet)
        BY <1>2, <1>10, <3>1, <3>3
      <4> QED
        BY <3>1, <3>2, <3>3, <4>2, <4>3
    <3>4. CASE j # 1
      <4> DEFINE m == j - 1
      <4>1. m \in 1 .. n /\ u[i - 1] = r[m] /\ i # 1
        BY <1>10, <3>1, <3>4
      <4>2. r[m] \in F /\ r[m].key = k /\ Rank(b, r[m]) = E + m - 1
        BY <1>8, <4>1
      <4>3. Rank(b, r[m]) < Rank(b, r[j])
        <5> DEFINE x == Rank(b, r[m])
                   y == Rank(b, r[j])
        <5>1. x = E + m - 1 /\ y = E + j - 1 /\ m = j - 1
          BY <3>2, <4>2
        <5> HIDE DEF x, y, m
        <5>2. x < y
          BY <1>4, <1>6, <3>1, <5>1
        <5> QED
          BY <5>2 DEF x, y
      <4> HIDE DEF m
      <4>4. r[m].packet < r[j].packet
        BY <3>2, <4>2, <4>3, FrameOrder
      <4>5. r[m].packet \in Nat /\ r[j].packet \in Nat
        BY <1>8, <3>1, <4>1
      <4> QED
        BY <3>2, <4>1, <4>4, <4>5
    <3> QED
      BY <3>3, <3>4
  <2> QED
    BY <2>1, <2>2
<1>12. Level(b, k, F, f, LastOf(d, u))
  <2>1. CASE n = 0
    <3>1. f = e
      <4>1. e + 0 = e
        BY <1>1
      <4>2. e % SequenceSpace = e
        BY <1>1, OneRound
      <4> QED
        BY <1>9, <2>1, <4>1, <4>2
    <3>2. l + 0 = l
      BY <1>2
    <3>3. l \in 1 .. l \/ l = 0
      BY <1>2
    <3>4. LastOf(d, u) = g
      <4> HIDE DEF f, e
      <4> QED
        BY <1>2, <1>10, <2>1, <3>2, <3>3 DEF LastOf
    <3> QED
      BY <1>3, <3>1, <3>4
  <2>2. CASE n # 0
    <3>1. n \in 1 .. n /\ l + n # 0
      BY <1>2, <1>6, <2>2
    <3>2. LastOf(d, u) = r[n].packet
      BY <1>10, <3>1 DEF LastOf
    <3>3. r[n] \in F /\ r[n].key = k /\ r[n].packet # 0 /\ Rank(b, r[n]) = E + n - 1
      BY <1>8, <3>1
    <3>4. Ord(c, f) = E + n
      <4>1. Ord(c, e) + n < SequenceSpace
        BY <1>6 DEF E
      <4> HIDE DEF c, e
      <4>2. Ord(c, (e + n) % SequenceSpace) = E + n
        BY <1>1, <1>4, <1>6, <4>1, OrdAdds DEF E
      <4> QED
        BY <1>9, <4>2
    <3>5. Ord(c, f) = Rank(b, r[n]) + 1
      <4> DEFINE x == Ord(c, f)
                 y == Rank(b, r[n])
      <4>1. x = E + n /\ y = E + n - 1
        BY <3>3, <3>4
      <4> HIDE DEF x, y
      <4>2. x = y + 1
        BY <1>4, <1>6, <4>1
      <4> QED
        BY <4>2 DEF x, y
    <3> HIDE DEF f
    <3> QED
      BY <3>2, <3>3, <3>5 DEF Level
  <2> QED
    BY <2>1, <2>2
<1> HIDE DEF f
<1>13. t.pending = p /\ t.out = u /\ t.expected = f
  BY <1>1 DEF Pushing
<1>14. Flowing(t, k, d, F, b)
  BY <1>3, <1>11, <1>12, <1>13 DEF Flowing, Rising
<1>15. Has(t) = Has(s)
  <2>1. \A i \in 1 .. n : r[i] \in s.pending
    BY <1>8
  <2>2. {u[i] : i \in DOMAIN u} = {o[i] : i \in DOMAIN o} \cup {r[i] : i \in DOMAIN r}
    <3>1. \A i \in 1 .. l + n : i \in 1 .. l \/ \E j \in 1 .. n : i = l + j
      <4> TAKE i \in 1 .. l + n
      <4>1. i \notin 1 .. l => i - l \in 1 .. n /\ i = l + (i - l)
        BY <1>2, <1>6
      <4> QED
        BY <4>1
    <3>2. \A i \in 1 .. l : i \in 1 .. l + n
      BY <1>2, <1>6
    <3>3. \A i \in 1 .. n : l + i \in 1 .. l + n
      BY <1>2, <1>6
    <3> HIDE DEF o
    <3>4. DOMAIN u = 1 .. l + n /\ DOMAIN o = 1 .. l /\ DOMAIN r = 1 .. n
      BY <1>2, <1>9, <1>10
    <3>5. ASSUME NEW x \in {u[i] : i \in DOMAIN u}
          PROVE  x \in {o[i] : i \in DOMAIN o} \cup {r[i] : i \in DOMAIN r}
      <4>1. PICK i \in 1 .. l + n : x = u[i]
        BY <3>4
      <4> QED
        BY <1>10, <3>1, <3>4, <4>1
    <3>6. ASSUME NEW x \in {o[i] : i \in DOMAIN o} PROVE x \in {u[i] : i \in DOMAIN u}
      <4>1. PICK i \in 1 .. l : x = o[i]
        BY <3>4
      <4> QED
        BY <1>10, <3>2, <3>4, <4>1
    <3>7. ASSUME NEW x \in {r[i] : i \in DOMAIN r} PROVE x \in {u[i] : i \in DOMAIN u}
      <4>1. PICK i \in 1 .. n : x = r[i]
        BY <3>4
      <4> QED
        BY <1>10, <3>3, <3>4, <4>1
    <3> QED
      BY <3>5, <3>6, <3>7
  <2>3. {r[i] : i \in DOMAIN r} \subseteq s.pending
    BY <1>9, <2>1
  <2> QED
    BY <1>13, <2>2, <2>3 DEF Has, Out
<1> QED
  BY <1>5, <1>14, <1>15

-----------------------------------------------------------------------------
(* The clock and the count are not what comes out. *)
LEMMA SameFlow ==
  ASSUME NEW s, NEW t, NEW F, NEW b, NEW k, NEW d, Flowing(s, k, d, F, b),
         t.pending = s.pending, t.out = s.out, t.expected = s.expected
  PROVE  Flowing(t, k, d, F, b) /\ Has(t) = Has(s)
BY DEF Flowing, Has

(* A frame that comes out in its turn. *)
LEMMA PassedFlows ==
  ASSUME NEW s, NEW F, NEW b, NEW k \in Keys, NEW d \in Nat, NEW x \in F,
         Sound(s, F), Ranked(F, b), Flowing(s, k, d, F, b),
         x.key = k, Rank(b, x) >= Ord(b[k], s.expected)
  PROVE  Flowing(Passed(s, x), k, d, F, b) /\ Has(Passed(s, x)) = Has(s) \cup {x}
<1> DEFINE e == Advance(x.sequence)
           o == Append(s.out, x)
           g == LastOf(d, s.out)
           t == [s EXCEPT !.gap = "none", !.expected = e, !.out = o]
<1>1. /\ s.expected \in Sequences /\ s.out \in Seq(Frame) /\ s.pending \subseteq F
      /\ s \in Pushing /\ x \in Frame /\ g \in Nat
  BY SoundFacts, LastIs, FrameRank DEF Sound
<1>2. /\ \A p \in s.pending : p.key = k
      /\ Rising(s.out, k, d, F) /\ Level(b, k, F, s.expected, g)
  BY DEF Flowing
<1>3. x.packet > g
  <2> HIDE DEF g
  <2>1. \A p \in F : p.key = k => (Rank(b, p) >= Ord(b[k], s.expected) => p.packet > g)
    BY <1>1, <1>2, LevelIs
  <2> QED
    BY <2>1
<1>4. /\ Rising(o, k, d, F) /\ LastOf(d, o) = x.packet
      /\ Out(o) = Out(s.out) \cup {x}
  <2> DEFINE q == s.out
  <2>1. /\ q \in Seq(Frame) /\ x \in Frame /\ Rising(q, k, d, F)
        /\ Newer(x, d, q) /\ o = Append(q, x) /\ x \in F
    BY <1>1, <1>2, <1>3 DEF Newer
  <2> HIDE DEF q, e, o, g, t
  <2>2. Rising(o, k, d, F) /\ Newest(x, d, o) /\ Adds(x, q, o)
    BY <2>1, RisingAppend
  <2> QED
    BY <2>2 DEF q, Newest, Adds
<1>5. e \in Sequences /\ Level(b, k, F, e, x.packet)
  BY LevelAfter
<1>6. o \in Seq(Frame)
  BY <1>1, AppendProperties
<1>7. Passed(s, x) = DrainContiguous(t)
  BY DEF Passed
<1> HIDE DEF e, o, g
<1>8. Sound(t, F) /\ t.pending = s.pending
  <2>1. 0 \in Nat /\ "none" \in {"none", "young", "old"}
    OBVIOUS
  <2>2. Becomes(t, s.pending, s.total, F)
    BY <1>1, <1>5, <1>6, <2>1, Updates
  <2> QED
    BY <2>2 DEF Becomes
<1>9. t.out = o /\ t.expected = e
  BY <1>1 DEF Pushing
<1> HIDE DEF t
<1>10. Flowing(t, k, d, F, b) /\ Has(t) = Has(s) \cup {x}
  BY <1>2, <1>4, <1>5, <1>8, <1>9 DEF Flowing, Has
<1> QED
  BY <1>7, <1>8, <1>10, DrainFlows

(* release_lowest keeps the order and drops nothing, and it releases when  *)
(* a frame is ahead.                                                       *)
LEMMA ReleaseFlows ==
  ASSUME NEW s, NEW F, NEW b, NEW k \in Keys, NEW d \in Nat,
         Sound(s, F), Ranked(F, b), Flowing(s, k, d, F, b)
  PROVE  /\ Flowing(ReleaseLowest(s), k, d, F, b) /\ Has(ReleaseLowest(s)) = Has(s)
         /\ Ahead(s) # {} => Lowest(s) \in s.pending \ ReleaseLowest(s).pending
         /\ Ahead(s) = {} => /\ ReleaseLowest(s).pending = s.pending
                             /\ ReleaseLowest(s).expected = s.expected
<1>1. /\ s.expected \in Sequences /\ s.out \in Seq(Frame) /\ s.pending \subseteq F
      /\ s \in Pushing /\ LastOf(d, s.out) \in Nat
  BY SoundFacts, LastIs DEF Sound
<1>2. CASE Ahead(s) = {}
  <2> DEFINE t == [s EXCEPT !.gap = "none"]
  <2>1. ReleaseLowest(s) = t
    BY <1>2 DEF ReleaseLowest
  <2>2. t.pending = s.pending /\ t.out = s.out /\ t.expected = s.expected
    BY <1>1 DEF Pushing
  <2> HIDE DEF t
  <2> QED
    BY <1>2, <2>1, <2>2, SameFlow
<1>3. CASE Ahead(s) # {}
  <2> DEFINE x == Lowest(s)
             p == s.pending \ {x}
             t == [s EXCEPT !.pending = p]
             u == Passed(t, x)
             g == IF u.pending = {} THEN "none" ELSE "young"
             v == [u EXCEPT !.gap = g]
  <2>1. ReleaseLowest(s) = v
    BY <1>3 DEF ReleaseLowest, Reclocked, Released
  <2>2. x \in Ahead(s) /\ x \in s.pending /\ x \in F
    BY <1>1, <1>3, LowestIs
  <2>3. x.key = k /\ IsForward(x.sequence, s.expected)
    BY <2>2 DEF Flowing, Ahead
  <2> HIDE DEF x
  <2>4. Rank(b, x) >= Ord(b[k], s.expected)
    <3>1. /\ Ord(b[k], s.expected) \in Nat
          /\ \A y \in F : y.key = k =>
               Compares(y, b, k, s.expected)
      <4>1. Level(b, k, F, s.expected, LastOf(d, s.out))
        BY DEF Flowing
      <4> QED
        BY <1>1, <4>1, LevelIs
    <3>2. Rank(b, x) \in Nat
      BY <2>2, <2>3, FrameRank
    <3> QED
      BY <2>2, <2>3, <3>1, <3>2 DEF Compares
  <2>5. p \subseteq F /\ x \notin p /\ p \subseteq s.pending /\ p \cup {x} = s.pending
    BY <1>1, <2>2
  <2> HIDE DEF p
  <2>6. /\ 0 \in Sequences /\ 0 \in Nat /\ <<>> \in Seq(Frame)
        /\ "none" \in {"none", "young", "old"}
    BY FlowConstants, EmptySeq
  <2>7. Sound(t, F) /\ t.pending = p
    <3>1. Becomes(t, p, s.total, F)
      BY <2>5, <2>6, Update
    <3> QED
      BY <3>1 DEF Becomes
  <2>8. t.out = s.out /\ t.expected = s.expected
    BY <1>1 DEF Pushing
  <2> HIDE DEF t
  <2>9. Flowing(t, k, d, F, b) /\ Has(t) \cup {x} = Has(s)
    BY <2>5, <2>7, <2>8 DEF Flowing, Has
  <2>10. Flowing(u, k, d, F, b) /\ Has(u) = Has(s)
    <3>1. Rank(b, x) >= Ord(b[k], t.expected)
      BY <2>4, <2>8
    <3>2. Flowing(u, k, d, F, b) /\ Has(u) = Has(t) \cup {x}
      BY <2>2, <2>3, <2>7, <2>9, <3>1, PassedFlows
    <3> QED
      BY <2>9, <3>2
  <2>11. Releases(t, u, F)
    BY <1>1, <2>2, <2>7, PassedIs DEF Sound, Framed
  <2>12. u \in Pushing /\ u.pending \subseteq p
    BY <2>7, <2>11 DEF Releases, Sound
  <2> HIDE DEF u, g
  <2>13. v.pending = u.pending /\ v.out = u.out /\ v.expected = u.expected
    BY <2>12 DEF Pushing
  <2> HIDE DEF v
  <2>14. Flowing(v, k, d, F, b) /\ Has(v) = Has(s)
    BY <2>10, <2>13, SameFlow
  <2>15. x \in s.pending \ v.pending
    BY <2>2, <2>5, <2>12, <2>13
  <2> QED
    BY <1>3, <2>1, <2>14, <2>15 DEF x
<1> QED
  BY <1>2, <1>3

(* A step that makes room: it counts what it releases, in order. *)
Eases(s, t, k, d, F, b, R) ==
    /\ Fewer(s, t, F, R) /\ Flowing(t, k, d, F, b) /\ Has(t) = Has(s) /\ t.total <= s.total
(* And it releases when a frame is ahead. *)
Releasing(s, t, k, d, F, b, R) ==
    /\ Eases(s, t, k, d, F, b, R)
    /\ IF Ahead(s) = {} THEN t.expected = s.expected ELSE t.total < s.total

(* A step that makes room, whatever limit asks for it. *)
LEMMA MakesRoom ==
  ASSUME NEW s, NEW F, NEW R, NEW b, NEW k \in Keys, NEW d \in Nat,
         Counts(s, F, R), Ranked(F, b), Flowing(s, k, d, F, b)
  PROVE  Releasing(s, CountedTotal(s, ReleaseLowest(s)), k, d, F, b, R)
<1> DEFINE u == ReleaseLowest(s)
           x == Lowest(s)
           t == CountedTotal(s, u)
           m == Cardinality(s.pending)
           n == Cardinality(t.pending)
<1>1. Sound(s, F)
  BY DEF Counts
<1>2. /\ Flowing(u, k, d, F, b) /\ Has(u) = Has(s)
      /\ Ahead(s) # {} => x \in s.pending \ u.pending
      /\ Ahead(s) = {} => u.pending = s.pending /\ u.expected = s.expected
  BY <1>1, ReleaseFlows
<1>3. Releases(s, u, F) /\ Fewer(s, t, F, R)
  BY <1>1, ReleaseLowestIs, CountedTotalIs
<1>4. u \in Pushing
  BY <1>3 DEF Releases, Sound
<1>5. t.pending = u.pending /\ t.out = u.out /\ t.expected = u.expected
  BY <1>4 DEF CountedTotal, Subtract, Pushing
<1> HIDE DEF u, t, x
<1>6. Flowing(t, k, d, F, b) /\ Has(t) = Has(s)
  BY <1>2, <1>5, SameFlow
<1>7. /\ s.total = R + m /\ t.total = R + n /\ R \in Nat /\ t.pending \subseteq s.pending
      /\ Sound(t, F)
  BY <1>3 DEF Fewer, Counts
<1>8. /\ m \in Nat /\ n \in Nat /\ n <= m /\ IsFiniteSet(s.pending)
      /\ (t.pending # s.pending => n < m)
  <2>1. IsFiniteSet(s.pending) /\ IsFiniteSet(t.pending)
    BY <1>1, <1>7, SoundFacts
  <2>2. n <= m /\ (n = m => t.pending = s.pending)
    BY <1>7, <2>1, FS_Subset
  <2>3. m \in Nat /\ n \in Nat
    BY <2>1, FS_CardinalityType
  <2> HIDE DEF m, n
  <2> QED
    BY <2>1, <2>2, <2>3
<1> HIDE DEF m, n
<1>9. t.total <= s.total /\ (t.pending # s.pending => t.total < s.total)
  BY <1>7, <1>8
<1>10. Ahead(s) # {} => t.pending # s.pending
  BY <1>2, <1>5
<1>11. Eases(s, t, k, d, F, b, R)
  BY <1>3, <1>6, <1>9 DEF Eases
<1> QED
  BY <1>2, <1>5, <1>9, <1>10, <1>11 DEF t, u, Releasing

-----------------------------------------------------------------------------
(* Each limit that is reached makes room, in order. *)
LEMMA LimitsFlow ==
  ASSUME NEW s, NEW F, NEW R, NEW b, NEW k \in Keys, NEW d \in Nat,
         Counts(s, F, R), Ranked(F, b), Flowing(s, k, d, F, b)
  PROVE  /\ Eases(s, ReleaseExpired(s), k, d, F, b, R) /\ Eases(s, RoomInFlow(s), k, d, F, b, R)
         /\ Eases(s, RoomInTotal(s), k, d, F, b, R) /\ Eases(s, BackInTotal(s), k, d, F, b, R)
         /\ Eases(s, Clocked(s), k, d, F, b, R)
<1>1. s \in Pushing /\ s.total \in Nat
  BY SoundFacts DEF Counts, Sound
<1>2. Eases(s, s, k, d, F, b, R)
  BY <1>1 DEF Eases, Fewer
<1>3. Eases(s, CountedTotal(s, ReleaseLowest(s)), k, d, F, b, R)
  BY MakesRoom DEF Releasing
<1>4. Eases(s, Clocked(s), k, d, F, b, R)
  <2> DEFINE t == Clocked(s)
  <2>1. Fewer(s, t, F, R)
    BY LimitsAre
  <2>2. t.pending = s.pending /\ t.out = s.out /\ t.expected = s.expected /\ t.total = s.total
    BY <1>1 DEF Clocked, Pushing
  <2> HIDE DEF t
  <2>3. Flowing(t, k, d, F, b) /\ Has(t) = Has(s)
    BY <2>2, SameFlow
  <2>4. t.total <= s.total
    BY <1>1, <2>2
  <2>5. Eases(s, t, k, d, F, b, R)
    BY <2>1, <2>3, <2>4 DEF Eases
  <2> QED
    BY <2>5 DEF t
<1> QED
  BY <1>2, <1>3, <1>4 DEF ReleaseExpired, RoomInFlow, RoomInTotal, BackInTotal

(* What the flow waits for, of one frame of it. *)
LEMMA FlowLevel ==
  ASSUME NEW s, NEW F, NEW b, NEW k \in Keys, NEW d \in Nat, NEW x, x \in F, x.key = k,
         Sound(s, F), Ranked(F, b), Flowing(s, k, d, F, b)
  PROVE  /\ Ord(b[k], s.expected) \in Nat /\ Rank(b, x) \in Nat
         /\ Rank(b, x) >= Ord(b[k], s.expected) => Newer(x, d, s.out)
         /\ Compares(x, b, k, s.expected)
<1> DEFINE g == LastOf(d, s.out)
           e == s.expected
<1>1. e \in Sequences /\ g \in Nat /\ Level(b, k, F, e, g)
  BY SoundFacts, LastIs DEF Flowing
<1> HIDE DEF g, e
<1>2. /\ Ord(b[k], e) \in Nat
      /\ \A p \in F : p.key = k =>
           /\ Rank(b, p) >= Ord(b[k], e) => p.packet > g
           /\ Compares(p, b, k, e)
  BY <1>1, LevelIs
<1>3. Rank(b, x) \in Nat
  BY FrameRank
<1>4. /\ Rank(b, x) >= Ord(b[k], e) => x.packet > g
      /\ Compares(x, b, k, e)
  BY <1>2
<1> QED
  BY <1>2, <1>3, <1>4 DEF Newer, g, e

(* A frame that is handed over at once, because there is no room at all. *)
LEMMA AtOnce ==
  ASSUME NEW s, NEW F, NEW b, NEW k \in Keys, NEW d \in Nat, NEW x, x \in F, x.key = k,
         Sound(s, F), Ranked(F, b), Flowing(s, k, d, F, b), Newer(x, d, s.out),
         NEW t, t.pending = s.pending, t.out = Append(s.out, x), t.expected = Advance(x.sequence)
  PROVE  Flowing(t, k, d, F, b) /\ x \in Has(t)
<1> DEFINE o == s.out
           a == t.out
           e == t.expected
<1>1. o \in Seq(Frame) /\ x \in Frame
  BY SoundFacts, FrameRank
<1>2. /\ \A p \in s.pending : p.key = k
      /\ Rising(o, k, d, F)
  BY DEF Flowing
<1>3. a = Append(o, x) /\ Newer(x, d, o)
  OBVIOUS
<1>4. Level(b, k, F, e, x.packet)
  BY LevelAfter
<1> HIDE DEF o, a, e
<1>5. Rising(a, k, d, F) /\ Newest(x, d, a) /\ Adds(x, o, a)
  BY <1>1, <1>2, <1>3, RisingAppend
<1>6. Level(b, k, F, e, LastOf(d, a)) /\ x \in Out(a)
  BY <1>4, <1>5 DEF Newest, Adds
<1> QED
  BY <1>2, <1>5, <1>6 DEF Flowing, Has, a, e

(* A frame that is inserted and waits. *)
LEMMA InsertFlows ==
  ASSUME NEW s, NEW F, NEW b, NEW k, NEW d, NEW x, x.key = k,
         Sound(s, F), Flowing(s, k, d, F, b)
  PROVE  /\ Flowing(Insert(s, x), k, d, F, b) /\ x \in Has(Insert(s, x))
         /\ Insert(s, x).expected = s.expected /\ Insert(s, x).total = s.total + 1
         /\ x \in Insert(s, x).pending
<1> DEFINE t == Insert(s, x)
<1>1. s \in Pushing
  BY DEF Sound
<1>2. /\ t.pending = s.pending \cup {x} /\ t.out = s.out /\ t.expected = s.expected
      /\ t.total = s.total + 1
  BY <1>1 DEF Insert, Pushing
<1> HIDE DEF t
<1>3. Flowing(t, k, d, F, b) /\ x \in Has(t)
  BY <1>2 DEF Flowing, Has
<1> QED
  BY <1>2, <1>3 DEF t

(* A frame that runs ahead and is held. *)
LEMMA HoldFlows ==
  ASSUME NEW s, NEW F, NEW R, NEW b, NEW k \in Keys, NEW d \in Nat, NEW x, x \in F, x.key = k,
         Counts(s, F, R), Ranked(F, b), Flowing(s, k, d, F, b), x \notin s.pending,
         s.total <= MaxTotal,
         s.total = MaxTotal /\ Ahead(s) = {} => IsForward(x.sequence, s.expected)
  PROVE  /\ Flowing(Hold(s, x), k, d, F, b) /\ x \in Has(Hold(s, x))
         /\ Hold(s, x).total <= MaxTotal
<1>1. Sound(s, F) /\ s \in Pushing /\ s.total \in Nat /\ MaxTotal \in Nat
  BY SoundFacts, FlowConstants DEF Counts, Sound
<1>2. CASE s.total = MaxTotal /\ s.pending = {}
  <2> DEFINE t == [s EXCEPT !.out = Append(@, x), !.expected = Advance(x.sequence), !.gap = "none"]
  <2>1. Hold(s, x) = t
    BY <1>2 DEF Hold
  <2>2. /\ t.pending = s.pending /\ t.out = Append(s.out, x) /\ t.expected = Advance(x.sequence)
        /\ t.total = s.total
    BY <1>1 DEF Pushing
  <2> HIDE DEF t
  <2>3. IsForward(x.sequence, s.expected)
    BY <1>2 DEF Ahead
  <2>4. Newer(x, d, s.out)
    <3>1. /\ Ord(b[k], s.expected) \in Nat /\ Rank(b, x) \in Nat
          /\ Rank(b, x) >= Ord(b[k], s.expected) => Newer(x, d, s.out)
          /\ Compares(x, b, k, s.expected)
      BY <1>1, FlowLevel
    <3> QED
      BY <2>3, <3>1 DEF Compares
  <2>5. Flowing(t, k, d, F, b) /\ x \in Has(t)
    BY <1>1, <2>2, <2>4, AtOnce
  <2> QED
    BY <2>1, <2>2, <2>5
<1>3. CASE ~(s.total = MaxTotal /\ s.pending = {})
  <2> DEFINE a == RoomInTotal(s)
             v == Insert(a, x)
             c == BackInTotal(v)
             w == Clocked(c)
             z == ReleaseExpired(w)
  <2>1. Hold(s, x) = z
    BY <1>3 DEF Hold
  <2>2. Eases(s, a, k, d, F, b, R)
    BY LimitsFlow
  <2>3. /\ Counts(a, F, R) /\ Sound(a, F) /\ x \notin a.pending /\ Flowing(a, k, d, F, b)
        /\ a.total \in Nat /\ a.total <= MaxTotal
        /\ a.total = MaxTotal => IsForward(x.sequence, a.expected)
    <3>1. /\ Counts(a, F, R) /\ Sound(a, F) /\ x \notin a.pending /\ Flowing(a, k, d, F, b)
          /\ a.total <= s.total
      BY <2>2 DEF Eases, Fewer, Counts
    <3>2. a.total \in Nat
      BY <3>1, SoundFacts
    <3>3. CASE s.total = MaxTotal
      <4>1. Releasing(s, a, k, d, F, b, R)
        BY <3>3, MakesRoom DEF RoomInTotal
      <4> HIDE DEF a
      <4> QED
        BY <1>1, <3>1, <3>2, <3>3, <4>1 DEF Releasing
    <3>4. CASE s.total # MaxTotal
      <4> HIDE DEF a
      <4> QED
        BY <1>1, <3>1, <3>2, <3>4
    <3> QED
      BY <3>3, <3>4
  <2> HIDE DEF a
  <2>4. Counts(v, F, R)
    BY <2>3, InsertIs
  <2>5. /\ Flowing(v, k, d, F, b) /\ x \in Has(v) /\ v.expected = a.expected
        /\ v.total = a.total + 1 /\ x \in v.pending
    BY <2>3, InsertFlows
  <2> HIDE DEF v
  <2>6. Eases(v, c, k, d, F, b, R)
    BY <2>4, <2>5, LimitsFlow
  <2>7. Counts(c, F, R) /\ Flowing(c, k, d, F, b) /\ x \in Has(c) /\ c.total <= v.total
        /\ c.total \in Nat
    <3>1. Counts(c, F, R) /\ Flowing(c, k, d, F, b) /\ x \in Has(c) /\ c.total <= v.total
      BY <2>5, <2>6 DEF Eases, Fewer
    <3>2. Sound(c, F)
      BY <3>1 DEF Counts
    <3> HIDE DEF c
    <3>3. c.total \in Nat
      BY <3>2, SoundFacts
    <3> QED
      BY <3>1, <3>3
  <2>8. c.total <= MaxTotal
    <3>1. CASE v.total <= MaxTotal
      <4> HIDE DEF c
      <4> QED
        BY <1>1, <2>3, <2>5, <2>7, <3>1
    <3>2. CASE v.total > MaxTotal
      <4>1. Releasing(v, c, k, d, F, b, R)
        BY <2>4, <2>5, <3>2, MakesRoom DEF BackInTotal
      <4>2. a.total = MaxTotal
        BY <1>1, <2>3, <2>5, <3>2
      <4>3. x \in Ahead(v)
        BY <2>3, <2>5, <4>2 DEF Ahead
      <4>4. c.total < v.total
        BY <4>1, <4>3 DEF Releasing
      <4> HIDE DEF c
      <4> QED
        BY <1>1, <2>5, <2>7, <4>2, <4>4
    <3> QED
      BY <1>1, <2>3, <2>5, <3>1, <3>2
  <2> HIDE DEF c
  <2>9. Eases(c, w, k, d, F, b, R)
    BY <2>7, LimitsFlow
  <2> HIDE DEF w
  <2>10. Counts(w, F, R) /\ Flowing(w, k, d, F, b) /\ x \in Has(w) /\ w.total <= c.total
    BY <2>7, <2>9 DEF Eases, Fewer
  <2>11. Eases(w, z, k, d, F, b, R)
    BY <2>10, LimitsFlow
  <2> HIDE DEF z
  <2>12. Counts(z, F, R) /\ Flowing(z, k, d, F, b) /\ x \in Has(z) /\ z.total <= w.total
    BY <2>10, <2>11 DEF Eases, Fewer
  <2>13. w.total \in Nat /\ z.total \in Nat
    BY <2>10, <2>12, SoundFacts DEF Counts
  <2>14. z.total <= MaxTotal
    BY <1>1, <2>7, <2>8, <2>10, <2>12, <2>13
  <2> QED
    BY <2>1, <2>12, <2>14
<1> QED
  BY <1>2, <1>3

(* What push_at does with a frame, and with one that is not late. *)
LEMMA HandledFlows ==
  ASSUME NEW s, NEW F, NEW R, NEW b, NEW k \in Keys, NEW d \in Nat, NEW x, x \in F, x.key = k,
         Counts(s, F, R), Ranked(F, b), Flowing(s, k, d, F, b), s.total <= MaxTotal
  PROVE  /\ Flowing(Handled(s, x), k, d, F, b) /\ Handled(s, x).total <= MaxTotal
         /\ Rank(b, x) >= Ord(b[k], s.expected) /\ HeldAs(s, x.sequence) = {}
              => x \in Has(Handled(s, x))
<1>1. /\ Sound(s, F) /\ s \in Pushing /\ s.total \in Nat /\ MaxTotal \in Nat
      /\ MaxPerFlow \in Nat \ {0} /\ s.pending \subseteq F /\ IsFiniteSet(s.pending)
  BY SoundFacts, FlowConstants DEF Counts, Sound
<1>2. /\ Ord(b[k], s.expected) \in Nat /\ Rank(b, x) \in Nat
      /\ IsForward(x.sequence, s.expected) <=> Rank(b, x) > Ord(b[k], s.expected)
      /\ x.sequence = s.expected <=> Rank(b, x) = Ord(b[k], s.expected)
  <2>1. /\ Ord(b[k], s.expected) \in Nat /\ Rank(b, x) \in Nat
        /\ Compares(x, b, k, s.expected)
    BY <1>1, FlowLevel
  <2> QED
    BY <2>1 DEF Compares
<1>3. CASE x.sequence = s.expected
  <2> DEFINE u == Passed(s, x)
             t == CountedTotal(s, u)
  <2>1. Handled(s, x) = t
    BY <1>3 DEF Handled
  <2>2. Rank(b, x) >= Ord(b[k], s.expected)
    BY <1>2, <1>3
  <2>3. Flowing(u, k, d, F, b) /\ Has(u) = Has(s) \cup {x}
    BY <1>1, <2>2, PassedFlows
  <2>4. Releases(s, u, F)
    <3>1. x \in Frame
      BY FrameRank
    <3> QED
      BY <1>1, <3>1, PassedIs
  <2> HIDE DEF u
  <2>5. u \in Pushing
    BY <2>4 DEF Releases, Sound
  <2>6. t.pending = u.pending /\ t.out = u.out /\ t.expected = u.expected
    BY <2>5 DEF CountedTotal, Subtract, Pushing
  <2>7. Fewer(s, t, F, R)
    BY <2>4, CountedTotalIs
  <2> HIDE DEF t
  <2>8. Flowing(t, k, d, F, b) /\ Has(t) = Has(u)
    BY <2>3, <2>6, SameFlow
  <2>9. t.total <= s.total /\ t.total \in Nat
    <3> DEFINE m == Cardinality(s.pending)
               n == Cardinality(t.pending)
    <3>1. /\ s.total = R + m /\ t.total = R + n /\ R \in Nat /\ t.pending \subseteq s.pending
      BY <2>7 DEF Fewer, Counts
    <3>2. n <= m /\ m \in Nat /\ n \in Nat
      BY <1>1, <3>1, FS_Subset, FS_CardinalityType
    <3> HIDE DEF m, n
    <3> QED
      BY <3>1, <3>2
  <2>10. t.total <= MaxTotal
    BY <1>1, <2>9
  <2> QED
    BY <2>1, <2>3, <2>8, <2>10
<1>4. CASE x.sequence # s.expected /\ IsForward(x.sequence, s.expected)
           /\ HeldAs(s, x.sequence) = {}
  <2> DEFINE a == RoomInFlow(s)
  <2>1. Handled(s, x) = Hold(a, x)
    BY <1>4 DEF Handled
  <2>2. Eases(s, a, k, d, F, b, R)
    BY LimitsFlow
  <2>3. x \notin s.pending
    BY <1>4 DEF HeldAs
  <2>4. /\ Counts(a, F, R) /\ Sound(a, F) /\ x \notin a.pending /\ Flowing(a, k, d, F, b)
        /\ a.total <= s.total
    BY <2>2, <2>3 DEF Eases, Fewer, Counts
  <2>5. a.total \in Nat
    BY <2>4, SoundFacts
  <2>6. a.total <= MaxTotal
    <3> HIDE DEF a
    <3> QED
      BY <1>1, <2>4, <2>5
  <2>7. a.total = MaxTotal /\ Ahead(a) = {} => IsForward(x.sequence, a.expected)
    <3>1. CASE Cardinality(s.pending) = MaxPerFlow
      <4>1. Releasing(s, a, k, d, F, b, R)
        BY <3>1, MakesRoom DEF RoomInFlow
      <4> HIDE DEF a
      <4>2. a.total < s.total => a.total # MaxTotal
        BY <1>1, <2>5
      <4> QED
        BY <1>4, <4>1, <4>2 DEF Releasing
    <3>2. CASE Cardinality(s.pending) # MaxPerFlow
      BY <1>4, <3>2 DEF RoomInFlow
    <3> QED
      BY <3>1, <3>2
  <2> HIDE DEF a
  <2>8. /\ Flowing(Hold(a, x), k, d, F, b) /\ x \in Has(Hold(a, x))
        /\ Hold(a, x).total <= MaxTotal
    BY <2>4, <2>6, <2>7, HoldFlows
  <2> QED
    BY <2>1, <2>8
<1>5. CASE /\ x.sequence # s.expected
           /\ ~(IsForward(x.sequence, s.expected) /\ HeldAs(s, x.sequence) = {})
  <2>1. Handled(s, x) = s
    BY <1>5 DEF Handled
  <2> QED
    BY <1>2, <1>5, <2>1
<1> QED
  BY <1>3, <1>4, <1>5

-----------------------------------------------------------------------------
(* The next sequence of each flow of sequencer sq, and of those it has not *)
(* begun.                                                                  *)
Tracked(k, sq) == k[1] = sq.sender /\ k[2] \in DOMAIN sq.sequences
Upcoming(k, sq) == IF Tracked(k, sq) THEN sq.sequences[k[2]] ELSE 0
(* It is behind all the flow's frames, and frames are numbered as they     *)
(* come.                                                                   *)
Begun(b, k, sq, F) ==
    /\ ~Tracked(k, sq) => b[k] = 0
    /\ Ord(b[k], Upcoming(k, sq)) <= Cardinality(F)
    /\ \A p \in F : p.key = k => Rank(b, p) < Ord(b[k], Upcoming(k, sq))
Numbered(b, sq, F) ==
    /\ \A p \in F : p.packet <= Cardinality(F) /\ Rank(b, p) < p.packet
    /\ \A k \in Keys : k[1] >= sq.sender => Begun(b, k, sq, F)
(* Each flow of a table waits for what comes after the last that came out. *)
Waits(b, k, e, d, F) == (\A p \in e.pending : p.key = k) /\ Level(b, k, F, e.expected, d)
Leveled(b, fs, d, F) ==
    \A k \in Keys : IF k \in DOMAIN fs THEN Waits(b, k, fs[k], d[k], F) ELSE d[k] = 0
Ordered(b, sq, fs, d, F) == Ranked(F, b) /\ Numbered(b, sq, F) /\ Leveled(b, fs, d, F)

(* The invariant: the frames of each flow have ranks, the sequencer is     *)
(* ahead of them, the reassembler waits for what comes after the last that *)
(* came out, and the count is within its limit.                            *)
OrderInv ==
    /\ FlowInv
    /\ total <= MaxTotal
    /\ \E b \in Bases : Ordered(b, sequencer, flows, delivered, frames)

(* A table that is emptied forgets what came out, of flows it has not. *)
LEMMA TableWaits ==
  ASSUME FlowInv, NEW key \in Keys, NEW b, Leveled(b, flows, delivered, frames), total <= MaxTotal
  PROVE  /\ Leveled(b, Table(key).flows, Table(key).delivered, frames)
         /\ Table(key).total <= MaxTotal
         /\ Table(key).delivered[key] = delivered[key]
         /\ key \in DOMAIN Table(key).flows <=> key \in DOMAIN flows
         /\ key \in DOMAIN flows => Table(key).flows[key] = flows[key]
<1>1. CASE Cardinality(DOMAIN flows) = MaxTracked /\ key \notin DOMAIN flows
  <2>1. Table(key) = [flows |-> Empty, total |-> 0, delivered |-> NothingDelivered]
    BY <1>1 DEF Table
  <2>2. delivered[key] = 0
    BY <1>1 DEF Leveled
  <2>3. /\ DOMAIN Empty = {} /\ \A k \in Keys : NothingDelivered[k] = 0
    BY DEF Empty, NothingDelivered
  <2>4. Leveled(b, Empty, NothingDelivered, frames)
    BY <2>3 DEF Leveled
  <2>5. 0 <= MaxTotal
    BY FlowConstants
  <2> QED
    BY <1>1, <2>1, <2>2, <2>3, <2>4, <2>5
<1>2. CASE ~(Cardinality(DOMAIN flows) = MaxTracked /\ key \notin DOMAIN flows)
  <2>1. Table(key) = [flows |-> flows, total |-> total, delivered |-> delivered]
    BY <1>2 DEF Table
  <2> QED
    BY <2>1
<1> QED
  BY <1>1, <1>2

(* The state that push_at starts from. *)
LEMMA EntryFlows ==
  ASSUME NEW T, NEW F, NEW b, NEW key \in Keys, Leveled(b, T.flows, T.delivered, F)
  PROVE  /\ Flowing(Entry(T, key), key, T.delivered[key], F, b)
         /\ Entry(T, key).out = <<>> /\ Entry(T, key).total = T.total
         /\ Entry(T, key).pending =
              (IF key \in DOMAIN T.flows THEN T.flows[key] ELSE Fresh).pending
         /\ Entry(T, key).expected =
              (IF key \in DOMAIN T.flows THEN T.flows[key] ELSE Fresh).expected
<1> DEFINE e == IF key \in DOMAIN T.flows THEN T.flows[key] ELSE Fresh
           d == T.delivered[key]
           s == Entry(T, key)
<1>1. Waits(b, key, e, d, F)
  <2>1. CASE key \in DOMAIN T.flows
    BY <2>1 DEF Leveled
  <2>2. CASE key \notin DOMAIN T.flows
    <3>1. d = 0 /\ e = Fresh
      BY <2>2 DEF Leveled
    <3> HIDE DEF d, e
    <3> QED
      BY <3>1 DEF Fresh, Waits, Level
  <2> QED
    BY <2>1, <2>2
<1>2. s = [expected |-> e.expected, gap |-> e.gap, pending |-> e.pending,
           total |-> T.total, out |-> <<>>]
  BY DEF Entry
<1> HIDE DEF e, d, s
<1>3. /\ s.expected = e.expected /\ s.pending = e.pending /\ s.total = T.total
      /\ s.out = <<>>
  BY <1>2
<1>4. LastOf(d, s.out) = d /\ DOMAIN s.out = {}
  BY <1>3 DEF LastOf
<1>5. Flowing(s, key, d, F, b)
  BY <1>1, <1>3, <1>4 DEF Flowing, Rising, Waits
<1> QED
  BY <1>3, <1>5 DEF s, e, d

(* The table with what push_at leaves. *)
Left(key, s) ==
    /\ ready' = s.out /\ total' = s.total
    /\ key \in DOMAIN flows' /\ flows'[key].pending = s.pending

(* The flow as push_at stores it. *)
LEMMA StoreFlows ==
  ASSUME NEW T, NEW F, NEW b, NEW key \in Keys, NEW s, Leveled(b, T.flows, T.delivered, F),
         T.delivered \in [Keys -> 0 .. MaxFrames],
         Flowing(s, key, T.delivered[key], F, b), Store(T, key, s)
  PROVE  Leveled(b, flows', delivered', F) /\ Left(key, s)
<1> DEFINE r == [expected |-> s.expected, gap |-> s.gap, pending |-> s.pending]
           d == LastOf(T.delivered[key], s.out)
           U == (DOMAIN T.flows) \cup {key}
<1>1. /\ flows' = [k \in U |-> IF k = key THEN r ELSE T.flows[k]]
      /\ total' = s.total /\ ready' = s.out
      /\ delivered' = [T.delivered EXCEPT ![key] = d]
  BY DEF Store, LastOf
<1>2. Waits(b, key, r, d, F)
  BY DEF Flowing, Waits
<1>3. r.pending = s.pending
  OBVIOUS
<1> HIDE DEF r, d
<1>4. ASSUME NEW k \in Keys
      PROVE  IF k \in DOMAIN flows' THEN Waits(b, k, flows'[k], delivered'[k], F)
             ELSE delivered'[k] = 0
  <2>1. CASE k = key
    <3>1. k \in DOMAIN flows' /\ flows'[k] = r /\ delivered'[k] = d
      BY <1>1, <2>1
    <3> QED
      BY <1>2, <2>1, <3>1
  <2>2. CASE k # key
    <3>1. /\ k \in DOMAIN flows' <=> k \in DOMAIN T.flows
          /\ k \in DOMAIN T.flows => flows'[k] = T.flows[k]
          /\ delivered'[k] = T.delivered[k]
      BY <1>1, <2>2
    <3>2. IF k \in DOMAIN T.flows THEN Waits(b, k, T.flows[k], T.delivered[k], F)
          ELSE T.delivered[k] = 0
      BY DEF Leveled
    <3> QED
      BY <3>1, <3>2
  <2> QED
    BY <2>1, <2>2
<1>5. Leveled(b, flows', delivered', F)
  BY <1>4 DEF Leveled
<1>6. key \in DOMAIN flows' /\ flows'[key] = r
  BY <1>1
<1> QED
  BY <1>1, <1>3, <1>5, <1>6 DEF Left

-----------------------------------------------------------------------------
(* What Push makes of a frame: the state it works on before and after. *)
AtHand(x) == ReleaseExpired(Entry(Table(x.key), x.key))
After(x) == Handled(AtHand(x), x)

(* Push: what comes out follows what came out before. *)
LEMMA PushOrder ==
  ASSUME FlowInv, total <= MaxTotal, NEW b, NEW x, x \in frames, Push(x),
         Ordered(b, sequencer, flows, delivered, frames)
  PROVE  /\ x.key \in Keys /\ total' <= MaxTotal
         /\ Ordered(b, sequencer', flows', delivered', frames')
         /\ Rising(ready', x.key, delivered[x.key], frames)
         /\ ready' = After(x).out /\ x.key \in DOMAIN flows'
         /\ flows'[x.key].pending = After(x).pending
<1> DEFINE key == x.key
           T == Table(key)
           e == Entry(T, key)
           s == AtHand(x)
           t == After(x)
           R == Rest(T.flows, key)
           d == T.delivered[key]
<1>1. /\ frames \subseteq Frame /\ UNCHANGED <<sequencer, frames>> /\ Store(T, key, t)
      /\ Framed(frames) /\ Ranked(frames, b) /\ Numbered(b, sequencer, frames)
      /\ Leveled(b, flows, delivered, frames)
  BY FlowFramed DEF FlowInv, Push, PushInto, Ordered, After, AtHand
<1>2. key \in Keys
  BY <1>1 DEF Frame
<1>3. /\ Tabled(T.flows, T.total, frames) /\ T.delivered \in [Keys -> 0 .. MaxFrames]
  BY TableIs
<1>4. /\ Leveled(b, T.flows, T.delivered, frames) /\ T.total <= MaxTotal
      /\ T.delivered[key] = delivered[key]
  BY <1>1, <1>2, TableWaits
<1>5. d \in Nat
  BY <1>2, <1>3, FlowConstants
<1>6. s = ReleaseExpired(e) /\ t = Handled(s, x)
  BY DEF AtHand, After
<1> HIDE DEF key, T, s, t
<1>7. Counts(e, frames, R)
  BY <1>1, <1>2, <1>3, EntryCounts
<1>8. Flowing(e, key, d, frames, b) /\ e.total = T.total
  BY <1>2, <1>4, EntryFlows
<1> HIDE DEF e, R
<1>9. Eases(e, s, key, d, frames, b, R)
  BY <1>1, <1>2, <1>5, <1>6, <1>7, <1>8, LimitsFlow
<1>10. Counts(s, frames, R) /\ Flowing(s, key, d, frames, b) /\ s.total <= e.total
  BY <1>9 DEF Eases, Fewer
<1>11. s.total <= MaxTotal
  <2>1. s.total \in Nat /\ e.total \in Nat /\ MaxTotal \in Nat
    BY <1>7, <1>10, SoundFacts, FlowConstants DEF Counts
  <2> QED
    BY <1>4, <1>8, <1>10, <2>1
<1>12. key = x.key
  BY DEF key
<1>13. Flowing(t, key, d, frames, b) /\ t.total <= MaxTotal
  BY <1>1, <1>2, <1>5, <1>6, <1>10, <1>11, <1>12, HandledFlows
<1>14. /\ Leveled(b, flows', delivered', frames) /\ ready' = t.out /\ total' = t.total
       /\ key \in DOMAIN flows' /\ flows'[key].pending = t.pending
  <2>1. Leveled(b, flows', delivered', frames) /\ Left(key, t)
    BY <1>1, <1>2, <1>3, <1>4, <1>13, StoreFlows
  <2> QED
    BY <2>1 DEF Left
<1>15. Rising(ready', key, d, frames)
  BY <1>13, <1>14 DEF Flowing
<1>16. Ordered(b, sequencer', flows', delivered', frames')
  BY <1>1, <1>14 DEF Ordered
<1> QED
  BY <1>2, <1>4, <1>12, <1>13, <1>14, <1>15, <1>16 DEF t

(* A frame that is newer than all its flow has released or holds comes     *)
(* behind what push_at has released by then.                               *)
LEMMA NewerIsNotLate ==
  ASSUME NEW e, NEW s, NEW F, NEW R, NEW b, NEW k \in Keys, NEW d \in Nat, NEW x,
         x \in F, x.key = k, s = ReleaseExpired(e),
         Counts(e, F, R), Ranked(F, b), Flowing(e, k, d, F, b), e.out = <<>>,
         x.packet > d, \A p \in e.pending : x.packet > p.packet,
         e.expected = 0 /\ d = 0 => x.sequence < Half
  PROVE  Rank(b, x) >= Ord(b[k], s.expected) /\ HeldAs(s, x.sequence) = {}
<1> DEFINE g == LastOf(d, s.out)
           E == s.expected
<1>1. Eases(e, s, k, d, F, b, R) /\ Sound(e, F)
  BY LimitsFlow DEF Counts
<1>2. /\ Counts(s, F, R) /\ Sound(s, F) /\ s.pending \subseteq e.pending /\ Has(s) = Has(e)
      /\ Flowing(s, k, d, F, b)
  BY <1>1 DEF Eases, Fewer, Counts
<1>3. /\ s.pending \subseteq F /\ s.out \in Seq(Frame) /\ E \in Sequences /\ g \in Nat
      /\ s.total \in Nat /\ e.total \in Nat /\ e.pending \subseteq F
  BY <1>1, <1>2, SoundFacts, LastIs
<1>4. Out(e.out) = {} /\ Has(e) = e.pending
  BY DEF Out, Has
<1>5. \A p \in Out(s.out) : p \in e.pending
  BY <1>2, <1>4 DEF Has
<1>6. x.packet > g
  <2>1. CASE s.out = <<>>
    BY <2>1 DEF LastOf
  <2>2. CASE s.out # <<>>
    <3>1. Len(s.out) \in DOMAIN s.out
      BY <1>3, <2>2, LastIs
    <3>2. s.out[Len(s.out)] \in Out(s.out)
      BY <3>1 DEF Out
    <3> QED
      BY <1>5, <2>2, <3>2 DEF LastOf
  <2> QED
    BY <2>1, <2>2
<1>7. E = 0 /\ g = 0 => x.sequence < Half
  <2> SUFFICES ASSUME E = 0, g = 0 PROVE x.sequence < Half
    OBVIOUS
  <2>1. s.out = <<>> /\ d = 0
    <3>1. s.out = <<>>
      BY <1>3, LastIs
    <3> QED
      BY <3>1 DEF LastOf
  <2>2. s.pending = e.pending
    <3>1. Out(s.out) = {}
      BY <2>1 DEF Out
    <3>2. Has(s) = s.pending
      BY <3>1 DEF Has
    <3> QED
      BY <1>2, <1>4, <3>2
  <2>3. s.total = e.total
    <3>1. s.total = R + Cardinality(s.pending) /\ e.total = R + Cardinality(e.pending)
      BY <1>2 DEF Counts
    <3> QED
      BY <2>2, <3>1
  <2>4. s.expected = e.expected
    <3>1. CASE e.gap = "old"
      <4>1. Releasing(e, s, k, d, F, b, R)
        BY <3>1, MakesRoom DEF ReleaseExpired
      <4>2. ~(s.total < e.total)
        BY <1>3, <2>3
      <4> QED
        BY <4>1, <4>2 DEF Releasing
    <3>2. CASE e.gap # "old"
      BY <3>2 DEF ReleaseExpired
    <3> QED
      BY <3>1, <3>2
  <2> QED
    BY <2>1, <2>4
<1>8. Rank(b, x) >= Ord(b[k], E)
  <2>1. Level(b, k, F, E, g)
    BY <1>2 DEF Flowing
  <2> HIDE DEF E, g
  <2>2. \A p \in F : p.key = k =>
          (p.packet > g /\ (E = 0 /\ g = 0 => p.sequence < Half) => Rank(b, p) >= Ord(b[k], E))
    BY <1>3, <2>1, LevelIs
  <2> QED
    BY <1>6, <1>7, <2>2
<1>9. ASSUME NEW p \in s.pending PROVE p.sequence # x.sequence
  <2>1. p \in F /\ p.key = k /\ x.packet > p.packet
    BY <1>2, <1>3, <1>9 DEF Flowing
  <2>2. /\ p.packet \in Nat /\ x.packet \in Nat /\ Rank(b, p) \in Nat /\ Rank(b, x) \in Nat
    BY <2>1, FrameRank
  <2>3. Rank(b, p) < Rank(b, x)
    BY <2>1, <2>2, FrameOrder
  <2>4. p.sequence = x.sequence => Rank(b, p) = Rank(b, x)
    BY <2>1 DEF Rank
  <2> QED
    BY <2>2, <2>3, <2>4
<1>10. HeldAs(s, x.sequence) = {}
  BY <1>9 DEF HeldAs
<1> QED
  BY <1>8, <1>10 DEF E

(* What NewFrameIsKept asks of a frame, and what it promises. *)
Entered(key) == IF key \in DOMAIN flows THEN flows[key] ELSE Fresh
(* Push: a frame that is newer than all the flow has seen is held or comes *)
(* out.                                                                    *)
LEMMA PushKeeps ==
  ASSUME FlowInv, total <= MaxTotal, NEW b, NEW x, x \in frames, Push(x),
         Ordered(b, sequencer, flows, delivered, frames),
         x.packet > delivered[x.key],
         \A p \in Entered(x.key).pending : x.packet > p.packet,
         Entered(x.key).expected = 0 /\ delivered[x.key] = 0 => x.sequence < Half
  PROVE  (\E i \in DOMAIN ready' : ready'[i] = x) \/ x \in flows'[x.key].pending
<1> DEFINE key == x.key
           T == Table(key)
           e == Entry(T, key)
           s == AtHand(x)
           t == After(x)
           R == Rest(T.flows, key)
           d == T.delivered[key]
<1>1. /\ frames \subseteq Frame /\ Framed(frames) /\ Ranked(frames, b)
      /\ Leveled(b, flows, delivered, frames)
  BY FlowFramed DEF FlowInv, Ordered
<1>2. key \in Keys
  BY <1>1 DEF Frame
<1>3. /\ Tabled(T.flows, T.total, frames) /\ T.delivered \in [Keys -> 0 .. MaxFrames]
  BY TableIs
<1>4. /\ Leveled(b, T.flows, T.delivered, frames) /\ T.total <= MaxTotal
      /\ T.delivered[key] = delivered[key]
      /\ key \in DOMAIN T.flows <=> key \in DOMAIN flows
      /\ key \in DOMAIN flows => T.flows[key] = flows[key]
  BY <1>1, <1>2, TableWaits
<1>5. d \in Nat /\ d = delivered[key]
  BY <1>2, <1>3, <1>4, FlowConstants
<1>6. s = ReleaseExpired(e) /\ t = Handled(s, x)
  BY DEF AtHand, After
<1>7. Counts(e, frames, R)
  BY <1>1, <1>2, <1>3, EntryCounts
<1>8. /\ Flowing(e, key, d, frames, b) /\ e.out = <<>> /\ e.total = T.total
      /\ e.pending = (IF key \in DOMAIN T.flows THEN T.flows[key] ELSE Fresh).pending
      /\ e.expected = (IF key \in DOMAIN T.flows THEN T.flows[key] ELSE Fresh).expected
  BY <1>2, <1>4, EntryFlows
<1>9. (IF key \in DOMAIN T.flows THEN T.flows[key] ELSE Fresh) = Entered(key)
  BY <1>4 DEF Entered
<1>10. /\ e.pending = Entered(key).pending /\ e.expected = Entered(key).expected
  BY <1>8, <1>9
<1>11. /\ ready' = t.out /\ flows'[key].pending = t.pending
  BY PushOrder
<1>12. x.packet > d /\ (\A p \in e.pending : x.packet > p.packet) /\ x.key = key
       /\ (e.expected = 0 /\ d = 0 => x.sequence < Half)
  BY <1>5, <1>10
<1> HIDE DEF key, T, s, t, e, R, d
<1>13. Rank(b, x) >= Ord(b[key], s.expected) /\ HeldAs(s, x.sequence) = {}
  BY <1>1, <1>2, <1>5, <1>6, <1>7, <1>8, <1>12, NewerIsNotLate
<1>14. Eases(e, s, key, d, frames, b, R)
  BY <1>1, <1>2, <1>5, <1>6, <1>7, <1>8, LimitsFlow
<1>15. Counts(s, frames, R) /\ Flowing(s, key, d, frames, b) /\ s.total <= e.total
  BY <1>14 DEF Eases, Fewer
<1>16. s.total <= MaxTotal
  <2>1. s.total \in Nat /\ e.total \in Nat /\ MaxTotal \in Nat
    BY <1>7, <1>15, SoundFacts, FlowConstants DEF Counts
  <2> QED
    BY <1>4, <1>8, <1>15, <2>1
<1>17. x \in Has(t)
  BY <1>1, <1>2, <1>5, <1>6, <1>12, <1>13, <1>15, <1>16, HandledFlows
<1> QED
  BY <1>11, <1>17 DEF Has, Out, key

-----------------------------------------------------------------------------
(* Frames that are framed later change nothing for those that came out. *)
LEMMA LevelStays ==
  ASSUME NEW F, NEW G, NEW b, NEW fs, NEW d, F \subseteq G, Leveled(b, fs, d, F)
  PROVE  Leveled(b, fs, d, G)
<1>1. ASSUME NEW k \in Keys, k \in DOMAIN fs PROVE Waits(b, k, fs[k], d[k], G)
  <2>1. Waits(b, k, fs[k], d[k], F)
    BY <1>1 DEF Leveled
  <2> QED
    BY <2>1 DEF Waits, Level
<1>2. ASSUME NEW k \in Keys, k \notin DOMAIN fs PROVE d[k] = 0
  BY <1>2 DEF Leveled
<1> QED
  BY <1>1, <1>2 DEF Leveled

(* The sequencer with flow f at sequence q. *)
Seated(s, f, q) ==
    [s EXCEPT !.sequences = [g \in (DOMAIN s.sequences) \cup {f} |->
                               IF g = f THEN q ELSE s.sequences[g]]]

(* Room keeps what each flow is to go on with, except of a sender that is  *)
(* left.                                                                   *)
LEMMA RoomKeeps ==
  ASSUME FlowInv, NEW f \in Flows, NEW k \in Keys, k[1] >= Room(sequencer, f).sender
  PROVE  /\ k[1] >= sequencer.sender
         /\ Tracked(k, sequencer) => Tracked(k, Room(sequencer, f))
         /\ Upcoming(k, Room(sequencer, f)) = Upcoming(k, sequencer)
<1>1. sequencer.sender \in Nat /\ k[1] \in Nat
  BY FlowConstants DEF FlowInv, Sequencer, Keys
<1>2. CASE Room(sequencer, f) = sequencer
  BY <1>2
<1>3. CASE Room(sequencer, f) = [sender |-> sequencer.sender + 1, sequences |-> Empty]
  <2>1. k[1] >= sequencer.sender + 1
    BY <1>3
  <2>2. k[1] > sequencer.sender
    BY <1>1, <2>1
  <2>3. ~Tracked(k, sequencer)
    BY <1>1, <2>2 DEF Tracked
  <2>4. ~Tracked(k, Room(sequencer, f))
    BY <1>3 DEF Tracked, Empty
  <2> QED
    BY <1>1, <2>2, <2>3, <2>4 DEF Upcoming
<1> QED
  BY <1>2, <1>3 DEF Room

(* A packet that is framed has the highest rank of its flow. *)
LEMMA NextSequenceOrder ==
  ASSUME FlowInv, NEW f \in Flows, NEW b, NextSequence(f), FlowInv',
         Ordered(b, sequencer, flows, delivered, frames)
  PROVE  Ordered(b, sequencer', flows', delivered', frames')
<1> DEFINE s == Room(sequencer, f)
           k == <<s.sender, f>>
           q == IF f \in DOMAIN s.sequences THEN s.sequences[f] ELSE 0
           m == Cardinality(frames)
           n == m + 1
           x == [key |-> k, sequence |-> q, packet |-> n]
           F == frames \cup {x}
           v == Seated(s, f, Advance(q))
<1>1. /\ m < MaxFrames /\ s.sender <= MaxSenders
      /\ frames' = F /\ sequencer' = v
      /\ flows' = flows /\ delivered' = delivered
  BY DEF NextSequence, Seated
<1>2. /\ Ranked(frames, b) /\ Numbered(b, sequencer, frames)
      /\ Leveled(b, flows, delivered, frames)
  BY DEF Ordered
<1>3. s \in Sequencer
  BY <1>1, RoomIs
<1>4. k \in Keys
  BY <1>3 DEF Sequencer, Keys
<1>5. k[1] = s.sender /\ k[2] = f
  OBVIOUS
<1>6. /\ q \in Sequences /\ s.sender \in Nat
      /\ DOMAIN s.sequences \subseteq Flows
  <2>1. s.sender \in Nat /\ s.sequences \in UNION {[D -> Sequences] : D \in SUBSET Flows}
    BY <1>3, FlowConstants DEF Sequencer
  <2> DEFINE S == s.sequences
  <2>2. PICK D \in SUBSET Flows : S \in [D -> Sequences]
    BY <2>1
  <2> HIDE DEF S
  <2>3. DOMAIN S = D /\ \A g \in DOMAIN S : S[g] \in Sequences
    BY <2>2
  <2> QED
    BY <2>1, <2>3, FlowConstants DEF S
<1>7. q = Upcoming(k, s)
  BY <1>5 DEF Upcoming, Tracked
<1>8. /\ x.key = k /\ x.sequence = q /\ x.packet = n
  OBVIOUS
<1>9. /\ frames' \subseteq Frame /\ IsFiniteSet(frames') /\ Cardinality(frames') <= MaxFrames
  <2>1. frames' \subseteq [key : Keys, sequence : Sequences, packet : 1 .. MaxFrames]
        /\ IsFiniteSet(frames') /\ Cardinality(frames') <= MaxFrames
    BY DEF FlowInv, Frame, Keys, Sequences
  <2> QED
    BY <2>1 DEF Frame
<1>10. m \in Nat /\ IsFiniteSet(frames) /\ MaxFrames \in Nat
  BY FS_CardinalityType, FlowConstants DEF FlowInv
<1> DEFINE o == Ord(b[k], q)
<1>11. b[k] \in Sequences /\ o \in Nat
  BY <1>2, <1>4, <1>6, RankedFacts, OrdIs
<1>12. Rank(b, x) = o
  BY <1>8 DEF Rank
<1> HIDE DEF s, k, q, n, x, v, o, m
<1>13. \A j \in Keys : j[1] >= s.sender => Begun(b, j, s, frames)
  <2> SUFFICES ASSUME NEW j \in Keys, j[1] >= s.sender PROVE Begun(b, j, s, frames)
    OBVIOUS
  <2>1. /\ j[1] >= sequencer.sender
        /\ Tracked(j, sequencer) => Tracked(j, s)
        /\ Upcoming(j, s) = Upcoming(j, sequencer)
    BY RoomKeeps DEF s
  <2>2. Begun(b, j, sequencer, frames)
    BY <1>2, <2>1 DEF Numbered
  <2> QED
    BY <2>1, <2>2 DEF Begun
<1>14. /\ o <= m /\ \A p \in frames : p.key = k => Rank(b, p) < o
  <2>1. Begun(b, k, s, frames)
    BY <1>4, <1>5, <1>6, <1>13
  <2> QED
    BY <1>7, <2>1 DEF Begun, o, m
<1>15. \A p \in frames : /\ p.packet <= m /\ Rank(b, p) < p.packet /\ Rank(b, p) < MaxFrames
                         /\ p.packet \in Nat
  BY <1>2, FlowConstants DEF Numbered, Ranked, Framed, Frame, m
<1>16. x \notin frames
  <2>1. ~(n <= m)
    BY <1>10 DEF n
  <2> QED
    BY <1>8, <1>15, <2>1
<1>17. Cardinality(F) = n /\ IsFiniteSet(F)
  BY <1>10, <1>16, FS_AddElement DEF n, m
<1>18. n \in Nat /\ n = m + 1
  BY <1>10 DEF n
<1>19. Ranked(F, b)
  <2>1. b \in Bases
    BY <1>2 DEF Ranked
  <2>2. Cardinality(F) <= MaxFrames
    BY <1>1, <1>9
  <2>3. Framed(F)
    <3>1. n <= MaxFrames
      BY <1>17, <2>2
    <3>2. n < SequenceSpace
      <4> DEFINE z == SequenceSpace
                 w == MaxFrames
      <4>1. w < z /\ w \in Nat /\ z \in Nat /\ n <= w
        BY <3>1, FlowConstants
      <4> HIDE DEF z, w
      <4>2. n < z
        BY <1>18, <4>1
      <4> QED
        BY <4>2 DEF z
    <3> QED
      BY <1>1, <1>9, <1>17, <3>2 DEF Framed
  <2>4. \A p \in F : Rank(b, p) < MaxFrames
    <3>1. o < MaxFrames
      BY <1>1, <1>10, <1>11, <1>14
    <3> QED
      BY <1>12, <1>15, <3>1
  <2>5. ASSUME NEW p \in F, NEW r \in F, p.key = r.key
        PROVE  p.packet < r.packet <=> Rank(b, p) < Rank(b, r)
    <3>1. CASE p \in frames /\ r \in frames
      BY <1>2, <2>5, <3>1, FrameOrder
    <3>2. CASE p \in frames /\ r = x
      <4>1. p.packet \in Nat /\ p.packet <= m /\ p.key = k
        BY <1>8, <1>15, <2>5, <3>2
      <4>2. p.packet < n
        BY <1>10, <1>18, <4>1
      <4>3. Rank(b, p) < o
        BY <1>14, <3>2, <4>1
      <4> QED
        BY <1>8, <1>12, <3>2, <4>2, <4>3
    <3>3. CASE p = x /\ r \in frames
      <4>1. r.packet \in Nat /\ r.packet <= m /\ r.key = k
        BY <1>8, <1>15, <2>5, <3>3
      <4>2. ~(n < r.packet)
        BY <1>10, <1>18, <4>1
      <4>3. Rank(b, r) < o /\ Rank(b, r) \in Nat
        BY <1>2, <1>4, <1>14, <3>3, <4>1, FrameRank
      <4>4. ~(o < Rank(b, r))
        BY <1>11, <4>3
      <4> QED
        BY <1>8, <1>12, <3>3, <4>2, <4>4
    <3>4. CASE p = x /\ r = x
      <4>1. ~(n < n) /\ ~(o < o)
        BY <1>11, <1>18
      <4> QED
        BY <1>8, <1>12, <3>4, <4>1
    <3> QED
      BY <3>1, <3>2, <3>3, <3>4
  <2> QED
    BY <2>1, <2>2, <2>3, <2>4, <2>5 DEF Ranked
<1>20. Numbered(b, v, F)
  <2>1. ASSUME NEW p \in F PROVE p.packet <= n /\ Rank(b, p) < p.packet
    <3>1. CASE p \in frames
      BY <1>10, <1>15, <1>18, <3>1
    <3>2. CASE p = x
      <4>1. n <= n /\ o < n
        BY <1>10, <1>11, <1>14, <1>18
      <4> QED
        BY <1>8, <1>12, <3>2, <4>1
    <3> QED
      BY <3>1, <3>2
  <2>2. /\ v.sender = s.sender /\ DOMAIN v.sequences = (DOMAIN s.sequences) \cup {f}
        /\ v.sequences[f] = Advance(q)
        /\ \A g \in DOMAIN s.sequences : g # f => v.sequences[g] = s.sequences[g]
    BY <1>3 DEF v, Seated, Sequencer
  <2>3. ASSUME NEW j \in Keys, j[1] >= v.sender PROVE Begun(b, j, v, F)
    <3>1. Begun(b, j, s, frames) /\ j = <<j[1], j[2]>>
      BY <1>13, <2>2, <2>3 DEF Keys
    <3>2. CASE j = k
      <4>1. Tracked(j, v) /\ Upcoming(j, v) = Advance(q)
        BY <1>5, <2>2, <3>2 DEF Tracked, Upcoming
      <4>2. Ord(b[k], Advance(q)) = o + 1
        <5>1. o + 1 < SequenceSpace
          <6> DEFINE z == SequenceSpace
                     w == MaxFrames
          <6>1. w < z /\ w \in Nat /\ z \in Nat /\ m < w
            BY <1>1, FlowConstants
          <6> HIDE DEF z, w
          <6>2. o + 1 < z
            BY <1>10, <1>11, <1>14, <6>1
          <6> QED
            BY <6>2 DEF z
        <5>2. 1 \in Nat
          OBVIOUS
        <5>3. Ord(b[k], (q + 1) % SequenceSpace) = Ord(b[k], q) + 1
          BY <1>6, <1>11, <5>1, <5>2, OrdAdds DEF o
        <5> QED
          BY <5>3 DEF Advance, o
      <4>3. o + 1 <= n
        BY <1>10, <1>11, <1>14, <1>18
      <4>4. ASSUME NEW p \in F, p.key = k PROVE Rank(b, p) < o + 1
        <5>1. CASE p \in frames
          <6>1. Rank(b, p) < o /\ Rank(b, p) \in Nat
            BY <1>2, <1>4, <1>14, <4>4, <5>1, FrameRank
          <6> QED
            BY <1>11, <6>1
        <5>2. CASE p = x
          <6>1. o < o + 1
            BY <1>11
          <6> QED
            BY <1>12, <5>2, <6>1
        <5> QED
          BY <5>1, <5>2
      <4> QED
        BY <1>17, <3>2, <4>1, <4>2, <4>3, <4>4 DEF Begun
    <3>3. CASE j # k
      <4>1. j[1] # s.sender \/ j[2] # f
        BY <3>1, <3>3 DEF k
      <4>2. Tracked(j, v) <=> Tracked(j, s)
        BY <2>2, <4>1 DEF Tracked
      <4>3. Upcoming(j, v) = Upcoming(j, s)
        BY <2>2, <4>1, <4>2 DEF Tracked, Upcoming
      <4> DEFINE y == Ord(b[j], Upcoming(j, s))
      <4>4. y \in Nat
        <5>1. b[j] \in Sequences
          BY <1>2, RankedFacts
        <5>2. Upcoming(j, s) \in Sequences
          <6> DEFINE S == s.sequences
          <6>1. S \in UNION {[D -> Sequences] : D \in SUBSET Flows}
            BY <1>3 DEF Sequencer
          <6>2. PICK D \in SUBSET Flows : S \in [D -> Sequences]
            BY <6>1
          <6> HIDE DEF S
          <6>3. \A g \in DOMAIN S : S[g] \in Sequences
            BY <6>2
          <6> QED
            BY <6>3, FlowConstants DEF S, Upcoming, Tracked
        <5> QED
          BY <5>1, <5>2, OrdIs
      <4>5. y <= m
        BY <3>1 DEF Begun, m
      <4> HIDE DEF y
      <4>6. y <= n
        BY <1>10, <1>18, <4>4, <4>5
      <4>7. \A p \in F : p.key = j => p \in frames
        BY <1>8, <3>3
      <4> QED
        BY <1>17, <3>1, <4>2, <4>3, <4>6, <4>7 DEF Begun, y
    <3> QED
      BY <3>2, <3>3
  <2> QED
    BY <1>17, <2>1, <2>3 DEF Numbered
<1>21. Leveled(b, flows, delivered, F)
  BY <1>2, LevelStays
<1> QED
  BY <1>1, <1>19, <1>20, <1>21 DEF Ordered

-----------------------------------------------------------------------------
(* A sequencer of its own has a sender id that no frame has. *)
LEMMA NewSequencerOrder ==
  ASSUME FlowInv, NEW b, NewSequencer,
         Ordered(b, sequencer, flows, delivered, frames)
  PROVE  Ordered(b, sequencer', flows', delivered', frames')
<1> DEFINE n == sequencer.sender + 1
           v == [sender |-> n, sequences |-> Empty]
<1>1. /\ sequencer' = v /\ flows' = flows /\ delivered' = delivered /\ frames' = frames
      /\ sequencer.sender \in Nat
  BY FlowConstants DEF FlowInv, Sequencer, NewSequencer
<1>2. Ranked(frames, b) /\ Numbered(b, sequencer, frames) /\ Leveled(b, flows, delivered, frames)
  BY DEF Ordered
<1>3. v.sender = n /\ DOMAIN v.sequences = {}
  BY DEF Empty
<1> HIDE DEF v
<1>4. ASSUME NEW j \in Keys, j[1] >= v.sender PROVE Begun(b, j, v, frames)
  <2>1. j[1] \in Nat /\ j[1] >= sequencer.sender /\ j[1] # sequencer.sender
    <3>1. j[1] \in Nat
      BY FlowConstants DEF Keys
    <3> QED
      BY <1>1, <1>3, <1>4, <3>1
  <2>2. Begun(b, j, sequencer, frames)
    BY <1>2, <2>1 DEF Numbered
  <2>3. ~Tracked(j, sequencer) /\ ~Tracked(j, v)
    BY <1>3, <2>1 DEF Tracked
  <2>4. Upcoming(j, v) = Upcoming(j, sequencer)
    BY <2>3 DEF Upcoming
  <2> QED
    BY <2>2, <2>3, <2>4 DEF Begun
<1>5. Numbered(b, v, frames)
  BY <1>2, <1>4 DEF Numbered
<1> QED
  BY <1>1, <1>2, <1>5 DEF Ordered

(* Time alone brings nothing out. *)
LEMMA AgeOrder ==
  ASSUME FlowInv, NEW b, NEW key \in Keys, Age(key),
         Ordered(b, sequencer, flows, delivered, frames)
  PROVE  Ordered(b, sequencer', flows', delivered', frames')
<1> DEFINE e == [flows[key] EXCEPT !.gap = "old"]
           gs == [flows EXCEPT ![key] = e]
<1>1. /\ key \in DOMAIN flows /\ flows' = gs
      /\ sequencer' = sequencer /\ delivered' = delivered /\ frames' = frames
  BY DEF Age
<1>2. Ranked(frames, b) /\ Numbered(b, sequencer, frames) /\ Leveled(b, flows, delivered, frames)
  BY DEF Ordered
<1>3. flows \in [DOMAIN flows -> FlowState]
  BY DEF FlowInv, Tabled
<1>4. e.pending = flows[key].pending /\ e.expected = flows[key].expected
  BY <1>1, <1>3 DEF FlowState
<1> HIDE DEF e
<1>5. ASSUME NEW k \in Keys
      PROVE  IF k \in DOMAIN gs THEN Waits(b, k, gs[k], delivered[k], frames)
             ELSE delivered[k] = 0
  <2>1. DOMAIN gs = DOMAIN flows
    BY <1>3
  <2>2. IF k \in DOMAIN flows THEN Waits(b, k, flows[k], delivered[k], frames)
        ELSE delivered[k] = 0
    BY <1>2 DEF Leveled
  <2>3. CASE k = key
    <3>1. gs[k] = e /\ k \in DOMAIN gs
      BY <1>1, <1>3, <2>3
    <3>2. Waits(b, k, e, delivered[k], frames)
      BY <1>1, <1>4, <2>2, <2>3 DEF Waits
    <3> QED
      BY <3>1, <3>2
  <2>4. CASE k # key
    <3>1. k \in DOMAIN flows => gs[k] = flows[k]
      BY <1>3, <2>4
    <3> QED
      BY <2>1, <2>2, <3>1
  <2> QED
    BY <2>3, <2>4
<1>6. Leveled(b, gs, delivered, frames)
  BY <1>5 DEF Leveled
<1> QED
  BY <1>1, <1>2, <1>6 DEF Ordered

(* An empty reassembler has brought nothing out. *)
LEMMA NewReassemblerOrder ==
  ASSUME NEW b, NewReassembler, Ordered(b, sequencer, flows, delivered, frames)
  PROVE  Ordered(b, sequencer', flows', delivered', frames') /\ total' <= MaxTotal
<1>1. /\ flows' = Empty /\ delivered' = NothingDelivered /\ total' = 0
      /\ sequencer' = sequencer /\ frames' = frames
  BY DEF NewReassembler
<1>2. Ranked(frames, b) /\ Numbered(b, sequencer, frames)
  BY DEF Ordered
<1>3. DOMAIN Empty = {} /\ \A k \in Keys : NothingDelivered[k] = 0
  BY DEF Empty, NothingDelivered
<1>4. Leveled(b, Empty, NothingDelivered, frames)
  BY <1>3 DEF Leveled
<1>5. 0 <= MaxTotal
  BY FlowConstants
<1> QED
  BY <1>1, <1>2, <1>4, <1>5 DEF Ordered

(* No flow has begun. *)
LEMMA OrderStart ==
  ASSUME FlowInit
  PROVE  OrderInv
<1>1. PICK long \in SUBSET LongFlows :
        /\ sequencer = [sender |-> 1, sequences |-> [f \in long |-> NearWrap]]
        /\ flows = [k \in {1} \X long |-> [Fresh EXCEPT !.expected = NearWrap]]
  BY DEF FlowInit
<1>2. frames = {} /\ total = 0 /\ delivered = NothingDelivered
  BY DEF FlowInit
<1> DEFINE D == {1} \X long
           b == [k \in Keys |-> IF k \in D THEN NearWrap ELSE 0]
           e == [Fresh EXCEPT !.expected = NearWrap]
<1>3. e.pending = {} /\ e.expected = NearWrap
  BY DEF Fresh
<1>4. flows = [k \in D |-> e]
  BY <1>1
<1>5. b \in Bases
  BY DEF Bases
<1>6. \A k \in Keys : b[k] = IF k \in D THEN NearWrap ELSE 0
  OBVIOUS
<1>7. \A k \in Keys : Tracked(k, sequencer) <=> k \in D
  BY <1>1 DEF Tracked, Keys
<1>8. \A k \in Keys : Upcoming(k, sequencer) = b[k]
  <2> TAKE k \in Keys
  <2>1. CASE k \in D
    <3>1. sequencer.sequences[k[2]] = NearWrap
      BY <1>1, <2>1
    <3> HIDE DEF D, b
    <3> QED
      BY <1>6, <1>7, <2>1, <3>1 DEF Upcoming
  <2>2. CASE k \notin D
    <3> HIDE DEF D, b
    <3> QED
      BY <1>6, <1>7, <2>2 DEF Upcoming
  <2> QED
    BY <2>1, <2>2
<1>9. \A k \in Keys : k \in D \/ k \notin D
  OBVIOUS
<1> HIDE DEF D, b, e
<1>10. Cardinality(frames) = 0 /\ IsFiniteSet(frames)
  BY <1>2, FS_EmptySet
<1>11. Ranked(frames, b)
  BY <1>2, <1>5, <1>10, FlowConstants DEF Ranked, Framed
<1>12. Numbered(b, sequencer, frames)
  <2>1. ASSUME NEW k \in Keys PROVE Begun(b, k, sequencer, frames)
    <3>1. b[k] \in Sequences
      BY <1>5, FlowConstants DEF Bases
    <3>2. Ord(b[k], b[k]) = 0
      <4> DEFINE c == b[k]
      <4> HIDE DEF c
      <4>1. c \in Sequences => Ord(c, c) = IF c >= c THEN c - c ELSE c - c + SequenceSpace
        BY OrdIs
      <4>2. c \in Sequences => c \in Nat
        BY FlowConstants DEF Sequences
      <4>3. c \in Nat => c >= c /\ c - c = 0
        OBVIOUS
      <4>4. c \in Sequences => Ord(c, c) = 0
        BY <4>1, <4>2, <4>3
      <4> QED
        BY <3>1, <4>4 DEF c
    <3>3. ~Tracked(k, sequencer) => b[k] = 0
      BY <1>6, <1>7
    <3> QED
      BY <1>2, <1>8, <1>10, <3>2, <3>3 DEF Begun
  <2> QED
    BY <1>2, <2>1 DEF Numbered
<1>13. Leveled(b, flows, delivered, frames)
  <2>1. ASSUME NEW k \in Keys, k \in DOMAIN flows
        PROVE  Waits(b, k, flows[k], delivered[k], frames)
    <3>1. k \in D /\ flows[k] = e /\ delivered[k] = 0 /\ b[k] = NearWrap
      BY <1>2, <1>4, <1>6, <2>1 DEF NothingDelivered
    <3> QED
      BY <1>3, <3>1 DEF Waits, Level
  <2>2. ASSUME NEW k \in Keys PROVE delivered[k] = 0
    BY <1>2 DEF NothingDelivered
  <2> QED
    BY <2>1, <2>2 DEF Leveled
<1>14. total <= MaxTotal /\ FlowInv
  BY <1>2, FlowStart, FlowConstants
<1> QED
  BY <1>5, <1>11, <1>12, <1>13, <1>14 DEF OrderInv, Ordered

(* Every step keeps the order. *)
LEMMA OrderStays ==
  ASSUME OrderInv, [FlowNext]_flowVars, FlowInv'
  PROVE  OrderInv'
<1>1. FlowInv /\ total <= MaxTotal
  BY DEF OrderInv
<1>2. PICK b \in Bases : Ordered(b, sequencer, flows, delivered, frames)
  BY DEF OrderInv
<1>3. total' <= MaxTotal /\ Ordered(b, sequencer', flows', delivered', frames')
  <2>1. CASE \E f \in Flows : NextSequence(f)
    <3>1. PICK f \in Flows : NextSequence(f)
      BY <2>1
    <3>2. total' = total
      BY <3>1 DEF NextSequence
    <3> QED
      BY <1>1, <1>2, <3>1, <3>2, NextSequenceOrder
  <2>2. CASE NewSequencer
    <3>1. total' = total
      BY <2>2 DEF NewSequencer
    <3> QED
      BY <1>1, <1>2, <2>2, <3>1, NewSequencerOrder
  <2>3. CASE \E frame \in frames : Push(frame)
    BY <1>1, <1>2, <2>3, PushOrder
  <2>4. CASE \E key \in Keys : Age(key)
    <3>1. PICK key \in Keys : Age(key)
      BY <2>4
    <3>2. total' = total
      BY <3>1 DEF Age
    <3> QED
      BY <1>1, <1>2, <3>1, <3>2, AgeOrder
  <2>5. CASE NewReassembler
    BY <1>2, <2>5, NewReassemblerOrder
  <2>6. CASE UNCHANGED flowVars
    BY <1>1, <1>2, <2>6 DEF flowVars
  <2> QED
    BY <2>1, <2>2, <2>3, <2>4, <2>5, <2>6 DEF FlowNext
<1>4. b \in Bases'
  BY DEF Bases, Keys
<1> QED
  BY <1>3 DEF OrderInv, Bases, Keys

(* Every step keeps both, and only a push releases. *)
LEMMA OrderAction ==
  ASSUME OrderInv, [FlowNext]_flowVars
  PROVE  /\ UNCHANGED flowVars
            \/ \A i \in DOMAIN ready' :
                 ready'[i].packet > IF i = 1 THEN delivered[ready'[i].key] ELSE ready'[i - 1].packet
<1>1. FlowInv /\ total <= MaxTotal
  BY DEF OrderInv
<1>2. PICK b \in Bases : Ordered(b, sequencer, flows, delivered, frames)
  BY DEF OrderInv
<1>3. CASE \E frame \in frames : Push(frame)
  <2>1. PICK x \in frames : Push(x)
    BY <1>3
  <2>2. Rising(ready', x.key, delivered[x.key], frames)
    BY <1>1, <1>2, <2>1, PushOrder
  <2> QED
    BY <2>2 DEF Rising
<1>4. CASE ready' = <<>>
  BY <1>4
<1>5. \/ \E frame \in frames : Push(frame)
      \/ ready' = <<>>
      \/ UNCHANGED flowVars
  BY DEF FlowNext, NextSequence, NewSequencer, Age, NewReassembler
<1> QED
  BY <1>3, <1>4, <1>5

-----------------------------------------------------------------------------
(* And with it the invariant. *)
LEMMA OrderKept ==
  ASSUME OrderInv, [FlowNext]_flowVars
  PROVE  OrderInv'
<1>1. FlowInv'
  BY FlowStays DEF OrderInv
<1> QED
  BY <1>1, OrderStays

(* pending_total stays within MAX_PENDING_TOTAL, whatever limit or gap has *)
(* released frames before a new one is held.  (The limit of one flow is    *)
(* not kept: HeldIsBounded.)                                               *)
THEOREM TotalIsBounded == FlowSpec => [](total <= MaxTotal)
<1>1. FlowInit => OrderInv
  BY OrderStart
<1>2. OrderInv /\ [FlowNext]_flowVars => OrderInv'
  BY OrderKept
<1>3. OrderInv => total <= MaxTotal
  BY DEF OrderInv
<1> QED
  BY <1>1, <1>2, <1>3, PTL DEF FlowSpec

(* The reassembler never brings a frame out behind one of its flow that is *)
(* out already, in this push or before, wherever the sequences of the flow *)
(* begin and however the paths reorder, repeat or lose frames, and         *)
(* whichever limit forces a release.                                       *)
THEOREM FramesComeOutInOrder == FlowSpec => OutputInOrder
<1>1. FlowInit => OrderInv
  BY OrderStart
<1>2. OrderInv /\ [FlowNext]_flowVars => OrderInv'
  BY OrderKept
<1>3. OrderInv /\ [FlowNext]_flowVars
      => [\A i \in DOMAIN ready' :
            ready'[i].packet > IF i = 1 THEN delivered[ready'[i].key] ELSE ready'[i - 1].packet]_flowVars
  BY OrderAction
<1> QED
  BY <1>1, <1>2, <1>3, PTL DEF FlowSpec, OutputInOrder

(* A push by a state in order. *)
LEMMA KeptAction ==
  ASSUME OrderInv
  PROVE  \A frame \in frames :
           LET key == frame.key
               entry == IF key \in DOMAIN flows THEN flows[key] ELSE Fresh
           IN /\ Push(frame)
              /\ frame.packet > delivered[key]
              /\ \A p \in entry.pending : frame.packet > p.packet
              /\ entry.expected = 0 /\ delivered[key] = 0 => frame.sequence < Half
              => \/ \E i \in DOMAIN ready' : ready'[i] = frame
                 \/ frame \in flows'[key].pending
<1>1. FlowInv /\ total <= MaxTotal
  BY DEF OrderInv
<1>2. PICK b \in Bases : Ordered(b, sequencer, flows, delivered, frames)
  BY DEF OrderInv
<1>3. ASSUME NEW x \in frames, Push(x),
             x.packet > delivered[x.key],
             \A p \in Entered(x.key).pending : x.packet > p.packet,
             Entered(x.key).expected = 0 /\ delivered[x.key] = 0 => x.sequence < Half
      PROVE  (\E i \in DOMAIN ready' : ready'[i] = x) \/ x \in flows'[x.key].pending
  BY <1>1, <1>2, <1>3, PushKeeps
<1> QED
  BY <1>3, Zenon DEF Entered

(* A frame that is newer than all its flow has seen is held or comes out:  *)
(* it is never dropped as late, although the sequences wrap.               *)
THEOREM NewFramesAreKept == FlowSpec => NewFrameIsKept
<1>1. FlowInit => OrderInv
  BY OrderStart
<1>2. OrderInv /\ [FlowNext]_flowVars => OrderInv'
  BY OrderKept
<1>3. OrderInv
      => \A frame \in frames :
           LET key == frame.key
               entry == IF key \in DOMAIN flows THEN flows[key] ELSE Fresh
           IN /\ Push(frame)
              /\ frame.packet > delivered[key]
              /\ \A p \in entry.pending : frame.packet > p.packet
              /\ entry.expected = 0 /\ delivered[key] = 0 => frame.sequence < Half
              => \/ \E i \in DOMAIN ready' : ready'[i] = frame
                 \/ frame \in flows'[key].pending
  BY KeptAction
<1> QED
  BY <1>1, <1>2, <1>3, PTL DEF FlowSpec, NewFrameIsKept
=============================================================================
