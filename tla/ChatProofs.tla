----------------------------- MODULE ChatProofs -----------------------------
(***************************************************************************)
(* The language model is given nothing of another conversation and nothing *)
(* from before a /reset, and all of the conversation that a history holds; *)
(* what it answers is read in full, in messages that Discord accepts:      *)
(* proved for every number of users, channels and messages, every limit of *)
(* a history or a message, and answers of every kind.                      *)
(*                                                                         *)
(* What the loops of the code do to a text is proved by induction on       *)
(* sequences, which rests on the least number of a set of naturals         *)
(* (LeastNumber, SeqInduction).                                            *)
(***************************************************************************)
EXTENDS ChatConversation, SequenceTheorems, FiniteSetTheorems, WellFoundedInduction, TLAPS

(***************************************************************************)
(* Induction.                                                              *)
(***************************************************************************)
LEMMA LeastNumber ==
    ASSUME NEW T \in SUBSET Nat, T # {}
    PROVE  \E m \in T : \A k \in T : m <= k
<1>1. IsWellFoundedOn({pair \in Nat \X Nat : pair[1] < pair[2]}, Nat)
  BY NatLessThanWellFounded DEF OpToRel
<1>2. \E m \in T : \A k \in T : ~(<<k, m>> \in {pair \in Nat \X Nat : pair[1] < pair[2]})
  BY <1>1, WFMin
<1>3. \A m, k \in Nat : ~(<<k, m>> \in {pair \in Nat \X Nat : pair[1] < pair[2]}) => m <= k
  OBVIOUS
<1> QED
  BY <1>2, <1>3

(* Induction over sequences: a set that has the empty one, and with a      *)
(* sequence every one that is an element longer, has all.                  *)
LEMMA SeqInduction ==
    ASSUME NEW S, NEW T \in SUBSET Seq(S), <<>> \in T,
           \A s \in T : \A e \in S : Append(s, e) \in T
    PROVE  T = Seq(S)
<1> DEFINE Missing == {Len(s) : s \in Seq(S) \ T}
<1>1. SUFFICES ASSUME Missing # {} PROVE FALSE
  OBVIOUS
<1>2. Missing \in SUBSET Nat
  OBVIOUS
<1>3. PICK m \in Missing : \A k \in Missing : m <= k
  BY <1>1, <1>2, LeastNumber
<1>4. PICK s \in Seq(S) \ T : Len(s) = m
  OBVIOUS
<1>5. PICK t \in Seq(S), e \in S : s = Append(t, e)
  BY <1>4, SequenceEmptyOrAppend
<1>6. Len(t) \in Nat /\ m = Len(t) + 1
  BY <1>4, <1>5
<1>7. t \in T
  <2>1. ~(m <= Len(t))
    BY <1>6
  <2> QED
    BY <1>3, <2>1
<1> QED
  BY <1>4, <1>5, <1>7

(***************************************************************************)
(* FlattenSeq, of which Only and Join are made.                            *)
(***************************************************************************)
(* The function that FlattenSeq defines: f[i] is the first i sequences in  *)
(* a row.                                                                  *)
Flattens(f, seqs, n) ==
    f = [i \in 1..n |-> IF i = 1 THEN seqs[i] ELSE f[i - 1] \o seqs[i]]

LEMMA FlattensExists ==
    ASSUME NEW seqs, NEW n \in Nat \ {0}
    PROVE  \E f : Flattens(f, seqs, n)
<1> DEFINE Missing == {m \in Nat \ {0} : ~ \E f : Flattens(f, seqs, m)}
<1>1. SUFFICES ASSUME Missing # {} PROVE FALSE
  OBVIOUS
<1>2. PICK m \in Missing : \A k \in Missing : m <= k
  BY <1>1, LeastNumber
<1>3. m \in Nat \ {0} /\ ~ \E f : Flattens(f, seqs, m)
  OBVIOUS
<1>4. m # 1
  <2>1. Flattens([i \in 1..1 |-> seqs[i]], seqs, 1)
    BY DEF Flattens
  <2> QED
    BY <1>3, <2>1
<1>5. PICK g : Flattens(g, seqs, m - 1)
  <2>1. m - 1 \in Nat \ {0} /\ ~(m <= m - 1)
    BY <1>3, <1>4
  <2> QED
    BY <1>2, <2>1
<1> HIDE DEF Missing
<1> DEFINE f == [i \in 1..m |-> IF i = m THEN g[m - 1] \o seqs[m] ELSE g[i]]
<1>6. ASSUME NEW i \in 1..m
      PROVE  f[i] = IF i = 1 THEN seqs[i] ELSE f[i - 1] \o seqs[i]
  <2>1. CASE i = m
    <3>1. m - 1 \in 1..m /\ m - 1 # m
      BY <1>3, <1>4
    <3>2. f[m - 1] = g[m - 1]
      BY <3>1
    <3> QED
      BY <1>4, <2>1, <3>2
  <2>2. CASE i # m
    <3>1. i \in 1..(m - 1)
      BY <1>3, <2>2
    <3>2. g[i] = IF i = 1 THEN seqs[i] ELSE g[i - 1] \o seqs[i]
      BY <1>5, <3>1 DEF Flattens
    <3>3. i # 1 => i - 1 \in 1..m /\ i - 1 # m
      BY <1>3, <3>1
    <3>4. i # 1 => f[i - 1] = g[i - 1]
      BY <3>3
    <3>5. f[i] = g[i]
      BY <2>2
    <3> QED
      BY <3>2, <3>4, <3>5
  <2> QED
    BY <2>1, <2>2
<1>7. Flattens(f, seqs, m)
  <2>1. f = [i \in 1..m |-> f[i]]
    OBVIOUS
  <2> HIDE DEF f
  <2>2. f = [i \in 1..m |-> IF i = 1 THEN seqs[i] ELSE f[i - 1] \o seqs[i]]
    BY <1>6, <2>1
  <2> QED
    BY <2>2 DEF Flattens
<1> QED
  BY <1>3, <1>7

(* What it is good for, its domain left out.                               *)
FlattenedBy(f, seqs, S) ==
    /\ FlattenSeq(seqs) = f[Len(seqs)]
    /\ f[1] = seqs[1]
    /\ \A i \in 2..Len(seqs) : f[i] = f[i - 1] \o seqs[i]
    /\ \A i \in 1..Len(seqs) : f[i] \in Seq(S)

LEMMA FlattenSteps ==
    ASSUME NEW S, NEW seqs \in Seq(Seq(S)), seqs # <<>>
    PROVE  \E f : FlattenedBy(f, seqs, S)
<1>1. Len(seqs) \in Nat \ {0}
  OBVIOUS
<1> DEFINE f == CHOOSE g : Flattens(g, seqs, Len(seqs))
<1>2. Flattens(f, seqs, Len(seqs))
  BY <1>1, FlattensExists
<1>3. FlattenSeq(seqs) = f[Len(seqs)]
  BY <1>1 DEF FlattenSeq, Flattens
<1> HIDE DEF f
<1>4. /\ f[1] = seqs[1]
      /\ \A i \in 2..Len(seqs) : f[i] = f[i - 1] \o seqs[i]
  <2>1. \A i \in 1..Len(seqs) : f[i] = IF i = 1 THEN seqs[i] ELSE f[i - 1] \o seqs[i]
    BY <1>2 DEF Flattens
  <2>2. 1 \in 1..Len(seqs) /\ \A i \in 2..Len(seqs) : i \in 1..Len(seqs) /\ i # 1
    BY <1>1
  <2> QED
    BY <2>1, <2>2
<1>5. \A i \in 1..Len(seqs) : f[i] \in Seq(S)
  <2> DEFINE Wrong == {i \in 1..Len(seqs) : f[i] \notin Seq(S)}
  <2>1. SUFFICES ASSUME Wrong # {} PROVE FALSE
    OBVIOUS
  <2>2. Wrong \in SUBSET Nat
    OBVIOUS
  <2>3. PICK m \in Wrong : \A k \in Wrong : m <= k
    BY <2>1, <2>2, LeastNumber
  <2>4. m \in 1..Len(seqs) /\ f[m] \notin Seq(S) /\ seqs[m] \in Seq(S)
    BY <1>1
  <2>5. m # 1
    BY <1>4, <2>4
  <2>6. m - 1 \in 1..Len(seqs) /\ ~(m <= m - 1)
    BY <1>1, <2>4, <2>5
  <2>7. f[m - 1] \in Seq(S)
    BY <2>3, <2>6
  <2>8. f[m] = f[m - 1] \o seqs[m]
    <3>1. m \in 2..Len(seqs)
      BY <1>1, <2>4, <2>5
    <3> QED
      BY <1>4, <3>1
  <2> QED
    BY <2>4, <2>7, <2>8
<1> QED
  BY <1>3, <1>4, <1>5 DEF FlattenedBy

LEMMA FlattenType ==
    ASSUME NEW S, NEW seqs \in Seq(Seq(S))
    PROVE  FlattenSeq(seqs) \in Seq(S)
<1>1. CASE seqs = <<>>
  <2>1. FlattenSeq(<<>>) = <<>>
    BY DEF FlattenSeq
  <2>2. <<>> \in Seq(S)
    OBVIOUS
  <2> QED
    BY <1>1, <2>1, <2>2
<1>2. CASE seqs # <<>>
  <2>1. PICK f : FlattenedBy(f, seqs, S)
    BY <1>2, FlattenSteps
  <2>2. Len(seqs) \in 1..Len(seqs)
    BY <1>2
  <2> QED
    BY <2>1, <2>2 DEF FlattenedBy
<1> QED
  BY <1>1, <1>2

LEMMA FlattenAppend ==
    ASSUME NEW S, NEW seqs \in Seq(Seq(S)), NEW s \in Seq(S)
    PROVE  FlattenSeq(Append(seqs, s)) = FlattenSeq(seqs) \o s
<1>1. PICK more : more = Append(seqs, s)
  OBVIOUS
<1>2. /\ more \in Seq(Seq(S)) /\ more # <<>> /\ Len(more) = Len(seqs) + 1
      /\ \A i \in 1..Len(seqs) : more[i] = seqs[i]
      /\ more[Len(seqs) + 1] = s
      /\ Len(seqs) \in Nat
  BY <1>1
<1>3. PICK f : FlattenedBy(f, more, S)
  BY <1>2, FlattenSteps
<1>4. CASE seqs = <<>>
  <2>1. FlattenSeq(seqs) = <<>> /\ Len(seqs) = 0
    BY <1>4 DEF FlattenSeq
  <2>2. FlattenSeq(more) = s
    BY <1>2, <1>3, <2>1 DEF FlattenedBy
  <2>3. <<>> \o s = s
    BY ConcatEmptySeq
  <2> QED
    BY <1>1, <2>1, <2>2, <2>3
<1>5. CASE seqs # <<>>
  <2>1. PICK g : FlattenedBy(g, seqs, S)
    BY <1>5, FlattenSteps
  <2>2. Len(seqs) \in Nat \ {0}
    BY <1>5
  <2>3. \A i \in 1..Len(seqs) : f[i] = g[i]
    <3> DEFINE Differ == {i \in 1..Len(seqs) : f[i] # g[i]}
    <3>1. SUFFICES ASSUME Differ # {} PROVE FALSE
      OBVIOUS
    <3>2. PICK m \in Differ : \A k \in Differ : m <= k
      <4>1. Differ \in SUBSET Nat
        OBVIOUS
      <4> QED
        BY <3>1, <4>1, LeastNumber
    <3>3. m \in 1..Len(seqs) /\ f[m] # g[m] /\ more[m] = seqs[m]
      BY <1>2
    <3>4. m # 1
      BY <1>3, <2>1, <3>3 DEF FlattenedBy
    <3>5. m - 1 \in 1..Len(seqs) /\ ~(m <= m - 1) /\ m \in 2..Len(seqs) /\ m \in 2..Len(more)
      BY <1>2, <3>3, <3>4
    <3>6. f[m - 1] = g[m - 1]
      BY <3>2, <3>5
    <3> QED
      BY <1>3, <2>1, <3>3, <3>5, <3>6 DEF FlattenedBy
  <2>4. /\ Len(seqs) \in 1..Len(seqs)
        /\ Len(seqs) + 1 \in 2..Len(more) /\ (Len(seqs) + 1) - 1 = Len(seqs)
    BY <1>2, <2>2
  <2>5. f[Len(seqs) + 1] = f[Len(seqs)] \o s
    BY <1>2, <1>3, <2>4 DEF FlattenedBy
  <2> QED
    BY <1>1, <1>2, <1>3, <2>1, <2>3, <2>4, <2>5 DEF FlattenedBy
<1> QED
  BY <1>4, <1>5

LEMMA ConcatAppend ==
    ASSUME NEW S, NEW s \in Seq(S), NEW t \in Seq(S), NEW e \in S
    PROVE  s \o Append(t, e) = Append(s \o t, e)
<1>1. <<e>> \in Seq(S) /\ s \o t \in Seq(S)
  OBVIOUS
<1>2. Append(t, e) = t \o <<e>> /\ Append(s \o t, e) = (s \o t) \o <<e>>
  BY <1>1, AppendIsConcat
<1>3. (s \o t) \o <<e>> = s \o (t \o <<e>>)
  BY <1>1, ConcatAssociative
<1> QED
  BY <1>2, <1>3

LEMMA EmptyFlattens == FlattenSeq(<<>>) = <<>>
BY DEF FlattenSeq

(* Only takes the last element, or does not.                               *)
LEMMA OnlyEmpty == ASSUME NEW S PROVE Only(<<>>, S) = <<>>
<1>1. [k \in 1..Len(<<>>) |-> IF <<>>[k] \in S THEN <<<<>>[k]>> ELSE <<>>] = <<>>
  OBVIOUS
<1> QED
  BY <1>1, EmptyFlattens DEF Only

LEMMA OnlyAppend ==
    ASSUME NEW A, NEW S, NEW s \in Seq(A), NEW e \in A
    PROVE  Only(Append(s, e), S) = IF e \in S THEN Append(Only(s, S), e) ELSE Only(s, S)
<1> DEFINE Each(q) == [k \in 1..Len(q) |-> IF q[k] \in S THEN <<q[k]>> ELSE <<>>]
           Place(x) == IF x \in S THEN <<x>> ELSE <<>>
<1>1. ASSUME NEW q \in Seq(A) PROVE Each(q) \in Seq(Seq(A))
  OBVIOUS
<1>2. Place(e) \in Seq(A)
  OBVIOUS
<1>3. PICK a : a = Append(s, e)
  OBVIOUS
<1>4. /\ a \in Seq(A) /\ Len(a) = Len(s) + 1 /\ Len(s) \in Nat
      /\ \A i \in 1..Len(s) : a[i] = s[i]
      /\ a[Len(s) + 1] = e
  BY <1>3
<1>5. Each(a) = Append(Each(s), Place(e))
  <2>1. PICK l : l = Each(a)
    OBVIOUS
  <2>2. PICK r : r = Append(Each(s), Place(e))
    OBVIOUS
  <2>3. l \in Seq(Seq(A)) /\ r \in Seq(Seq(A)) /\ Each(s) \in Seq(Seq(A))
    BY <1>1, <1>2, <1>4, <2>1, <2>2
  <2>4. Len(l) = Len(s) + 1 /\ Len(r) = Len(s) + 1
    BY <1>1, <1>2, <1>4, <2>1, <2>2
  <2>5. ASSUME NEW i \in 1..(Len(s) + 1) PROVE l[i] = r[i]
    <3>1. l[i] = Place(a[i])
      BY <1>4, <2>1
    <3>2. CASE i = Len(s) + 1
      BY <1>4, <2>2, <2>3, <3>1, <3>2
    <3>3. CASE i # Len(s) + 1
      <4>1. i \in 1..Len(s)
        BY <1>4, <3>3
      <4> QED
        BY <1>4, <2>2, <2>3, <3>1, <4>1
    <3> QED
      BY <3>2, <3>3
  <2>6. l = r
    BY ONLY <2>3, <2>4, <2>5, SeqEqual
  <2> QED
    BY ONLY <2>1, <2>2, <2>6
<1>6. Each(s) \in Seq(Seq(A))
  BY <1>1
<1>7. Only(a, S) = FlattenSeq(Each(a)) /\ Only(s, S) = FlattenSeq(Each(s))
  BY DEF Only
<1> HIDE DEF Each
<1>8. Only(a, S) = Only(s, S) \o Place(e)
  BY <1>2, <1>5, <1>6, <1>7, FlattenAppend
<1>9. Only(s, S) \in Seq(A)
  BY <1>6, <1>7, FlattenType
<1> QED
  BY <1>3, <1>8, <1>9, AppendIsConcat, ConcatEmptySeq

LEMMA OnlyType ==
    ASSUME NEW A, NEW S, NEW s \in Seq(A)
    PROVE  Only(s, S) \in Seq(A)
<1> DEFINE T == {q \in Seq(A) : Only(q, S) \in Seq(A)}
<1>1. <<>> \in T
  <2>1. <<>> \in Seq(A)
    OBVIOUS
  <2> QED
    BY <2>1, OnlyEmpty
<1>2. ASSUME NEW q \in T, NEW e \in A PROVE Append(q, e) \in T
  <2>1. q \in Seq(A) /\ Only(q, S) \in Seq(A) /\ Append(q, e) \in Seq(A)
    OBVIOUS
  <2>2. \A p \in Seq(A) : Only(Append(p, e), S)
                            = IF e \in S THEN Append(Only(p, S), e) ELSE Only(p, S)
    BY OnlyAppend
  <2>3. Append(Only(q, S), e) \in Seq(A)
    BY <2>1
  <2>4. Only(Append(q, e), S) \in Seq(A)
    BY ONLY <2>1, <2>2, <2>3
  <2> QED
    BY <2>1, <2>4
<1>3. T = Seq(A)
  <2>1. T \in SUBSET Seq(A)
    OBVIOUS
  <2> HIDE DEF T
  <2> QED
    BY <1>1, <1>2, <2>1, SeqInduction
<1> QED
  BY <1>3

LEMMA OnlyConcat ==
    ASSUME NEW A, NEW S, NEW s \in Seq(A), NEW t \in Seq(A)
    PROVE  Only(s \o t, S) = Only(s, S) \o Only(t, S)
<1> DEFINE T == {q \in Seq(A) : Only(s \o q, S) = Only(s, S) \o Only(q, S)}
<1>1. <<>> \in T
  BY OnlyEmpty, OnlyType, ConcatEmptySeq
<1>2. ASSUME NEW q \in T, NEW e \in A PROVE Append(q, e) \in T
  <2>1. q \in Seq(A) /\ s \o q \in Seq(A) /\ Append(q, e) \in Seq(A)
    OBVIOUS
  <2>2. s \o Append(q, e) = Append(s \o q, e)
    BY <2>1, ConcatAppend
  <2>3. Only(Append(s \o q, e), S)
            = IF e \in S THEN Append(Only(s \o q, S), e) ELSE Only(s \o q, S)
    <3>1. \A p \in Seq(A) : Only(Append(p, e), S)
                            = IF e \in S THEN Append(Only(p, S), e) ELSE Only(p, S)
      BY ONLY <1>2, OnlyAppend
    <3> QED
      BY ONLY <2>1, <3>1
  <2>4. Only(Append(q, e), S) = IF e \in S THEN Append(Only(q, S), e) ELSE Only(q, S)
    BY ONLY <2>1, <1>2, OnlyAppend
  <2>5. Only(s \o q, S) = Only(s, S) \o Only(q, S)
    OBVIOUS
  <2>6. Only(s, S) \o Append(Only(q, S), e) = Append(Only(s, S) \o Only(q, S), e)
    BY <2>1, OnlyType, ConcatAppend
  <2>7. Only(s \o Append(q, e), S) = Only(s, S) \o Only(Append(q, e), S)
    BY ONLY <2>2, <2>3, <2>4, <2>5, <2>6
  <2> QED
    BY <2>1, <2>7
<1>3. T = Seq(A)
  <2>1. T \in SUBSET Seq(A)
    OBVIOUS
  <2> HIDE DEF T
  <2> QED
    BY <1>1, <1>2, <2>1, SeqInduction
<1> QED
  BY <1>3

(* Nothing is taken from a sequence that has nothing of the set.           *)
LEMMA OnlyNone ==
    ASSUME NEW A, NEW S, NEW s \in Seq(A), \A i \in 1..Len(s) : s[i] \notin S
    PROVE  Only(s, S) = <<>>
<1> DEFINE T == {q \in Seq(A) : (\A i \in 1..Len(q) : q[i] \notin S) => Only(q, S) = <<>>}
<1>1. <<>> \in T
  BY OnlyEmpty
<1>2. ASSUME NEW q \in T, NEW e \in A PROVE Append(q, e) \in T
  <2> SUFFICES ASSUME \A i \in 1..Len(Append(q, e)) : Append(q, e)[i] \notin S
               PROVE  Only(Append(q, e), S) = <<>>
    <3>1. Append(q, e) \in Seq(A)
      OBVIOUS
    <3> QED
      BY <3>1
  <2>1. /\ Len(Append(q, e)) = Len(q) + 1 /\ Len(q) \in Nat
        /\ \A i \in 1..Len(q) : Append(q, e)[i] = q[i]
        /\ Append(q, e)[Len(q) + 1] = e
    OBVIOUS
  <2>2. e \notin S /\ \A i \in 1..Len(q) : q[i] \notin S
    BY <2>1
  <2> QED
    BY <2>2, OnlyAppend
<1>3. T = Seq(A)
  <2>1. T \in SUBSET Seq(A)
    OBVIOUS
  <2> HIDE DEF T
  <2> QED
    BY <1>1, <1>2, <2>1, SeqInduction
<1> QED
  BY <1>3

(***************************************************************************)
(* Greatest and least numbers.                                             *)
(***************************************************************************)
LEMMA FiniteIsBounded ==
    ASSUME NEW S \in SUBSET Nat, IsFiniteSet(S)
    PROVE  \E b \in Nat : \A x \in S : x <= b
<1> DEFINE Unbounded == {U \in SUBSET Nat : IsFiniteSet(U) /\ ~ \E b \in Nat : \A x \in U : x <= b}
           Sizes == {Cardinality(U) : U \in Unbounded}
<1>1. SUFFICES ASSUME Unbounded # {} PROVE FALSE
  OBVIOUS
<1>2. Sizes \in SUBSET Nat /\ Sizes # {}
  <2>1. \A U \in Unbounded : Cardinality(U) \in Nat
    BY FS_CardinalityType
  <2> QED
    BY <1>1, <2>1
<1>3. PICK m \in Sizes : \A k \in Sizes : m <= k
  BY <1>2, LeastNumber
<1>4. PICK U \in Unbounded : m = Cardinality(U)
  BY <1>3
<1>5. PICK x \in U : TRUE
  <2>1. U # {}
    <3>1. 0 \in Nat
      OBVIOUS
    <3> QED
      BY <3>1
  <2> QED
    BY <2>1
<1>6. /\ IsFiniteSet(U \ {x}) /\ Cardinality(U \ {x}) = Cardinality(U) - 1
      /\ Cardinality(U) \in Nat
  BY <1>5, FS_RemoveElement, FS_CardinalityType
<1>7. PICK b \in Nat : \A y \in U \ {x} : y <= b
  <2>1. ~(m <= Cardinality(U \ {x}))
    BY <1>4, <1>6
  <2> QED
    BY <1>3, <1>6, <2>1
<1>8. b + x \in Nat /\ \A y \in U : y <= b + x
  <2>1. U \in SUBSET Nat /\ x \in Nat
    BY <1>5
  <2> QED
    BY <1>7, <2>1
<1>9. ~ \E c \in Nat : \A y \in U : y <= c
  OBVIOUS
<1> HIDE DEF Unbounded
<1> QED
  BY <1>8, <1>9

LEMMA MaxIsGreatest ==
    ASSUME NEW S \in SUBSET Nat, S # {}, NEW b \in Nat, \A x \in S : x <= b
    PROVE  Max(S) \in S /\ \A x \in S : x <= Max(S)
<1> DEFINE Below == {b - x : x \in S}
<1>1. Below \in SUBSET Nat /\ Below # {}
  <2>1. ASSUME NEW x \in S PROVE b - x \in Nat
    <3>1. x \in Nat /\ x <= b
      OBVIOUS
    <3> QED
      BY <3>1
  <2> QED
    BY <2>1
<1>2. PICK m \in Below : \A k \in Below : m <= k
  BY <1>1, LeastNumber
<1>3. PICK y \in S : m = b - y
  BY <1>2
<1>4. \A x \in S : y >= x
  <2> TAKE x \in S
  <2>1. b - y <= b - x
    BY <1>2, <1>3
  <2> QED
    BY <2>1
<1> QED
  BY <1>4 DEF Max

LEMMA MinIsLeast ==
    ASSUME NEW S \in SUBSET Nat, S # {}
    PROVE  Min(S) \in S /\ \A x \in S : Min(S) <= x
<1>1. PICK y \in S : \A x \in S : y <= x
  BY LeastNumber
<1> QED
  BY <1>1 DEF Min

(***************************************************************************)
(* Texts.                                                                  *)
(***************************************************************************)
LEMMA LettersType == \A s \in Text : Letters(s) \in Text
BY OnlyType DEF Letters, Text

LEMMA LettersConcat == \A s, t \in Text : Letters(s \o t) = Letters(s) \o Letters(t)
BY OnlyConcat DEF Letters, Text

LEMMA LettersOfBlanks ==
    ASSUME NEW s \in Text, \A i \in 1..Len(s) : s[i] \in Blank
    PROVE  Letters(s) = <<>>
BY OnlyNone DEF Letters, Text

(* A text is what comes up to a place of it, and what comes after.         *)
LEMMA LettersOfParts ==
    ASSUME NEW s \in Text, NEW k \in 0..Len(s)
    PROVE  /\ SubSeq(s, 1, k) \in Text /\ Len(SubSeq(s, 1, k)) = k
           /\ SubSeq(s, k + 1, Len(s)) \in Text
           /\ Letters(s) = Letters(SubSeq(s, 1, k)) \o Letters(SubSeq(s, k + 1, Len(s)))
<1>1. Len(s) \in Nat /\ k \in Nat /\ k <= Len(s) /\ s \in Seq(Nat)
  BY DEF Text
<1>2. SubSeq(s, 1, k) \in Text /\ Len(SubSeq(s, 1, k)) = k
  BY <1>1, SubSeqProperties DEF Text
<1>3. SubSeq(s, k + 1, Len(s)) \in Text
  BY <1>1, SubSeqProperties DEF Text
<1>4. SubSeq(s, 1, k) \o SubSeq(s, k + 1, Len(s)) = s
  <2>1. /\ 1 \in 1..Len(s) + 1 /\ k \in 1 - 1..Len(s) /\ Len(s) \in k..Len(s)
    BY <1>1
  <2>2. SubSeq(s, 1, k) \o SubSeq(s, k + 1, Len(s)) = SubSeq(s, 1, Len(s))
    BY <1>1, <2>1, ConcatAdjacentSubSeq
  <2> QED
    BY <1>1, <2>2, SubSeqFull
<1> QED
  BY <1>2, <1>3, <1>4, LettersConcat

LEMMA TrimIs ==
    ASSUME NEW s \in Text
    PROVE  Trim(s) \in Text /\ Len(Trim(s)) <= Len(s) /\ Letters(Trim(s)) = Letters(s)
<1>1. Len(s) \in Nat /\ Solid(s) \in SUBSET (1..Len(s)) /\ Solid(s) \in SUBSET Nat
  BY DEF Text, Solid
<1>2. CASE Solid(s) = {}
  <2>1. \A i \in 1..Len(s) : s[i] \in Blank
    BY <1>2 DEF Solid
  <2>2. Letters(s) = <<>>
    BY <2>1, LettersOfBlanks
  <2>3. Trim(s) = <<>> /\ <<>> \in Text /\ Len(<<>>) = 0
    BY <1>2 DEF Trim, Text
  <2>4. Letters(<<>>) = <<>>
    BY OnlyEmpty DEF Letters
  <2> QED
    BY <1>1, <2>2, <2>3, <2>4
<1>3. CASE Solid(s) # {}
  <2>1. PICK a, b : a = Min(Solid(s)) /\ b = Max(Solid(s))
    OBVIOUS
  <2>2. /\ a \in Solid(s) /\ b \in Solid(s)
        /\ \A i \in Solid(s) : a <= i /\ i <= b
    <3>1. \A i \in Solid(s) : i <= Len(s)
      BY <1>1
    <3>2. b \in Solid(s) /\ \A i \in Solid(s) : i <= b
      BY <1>1, <1>3, <2>1, <3>1, MaxIsGreatest
    <3>3. a \in Solid(s) /\ \A i \in Solid(s) : a <= i
      BY <1>1, <1>3, <2>1, MinIsLeast
    <3> QED
      BY <3>2, <3>3
  <2>3. a \in 1..Len(s) /\ b \in 1..Len(s) /\ a <= b
    BY <1>1, <2>2
  <2>4. Trim(s) = SubSeq(s, a, b)
    BY <1>3, <2>1 DEF Trim
  <2>5. PICK front, back : front = SubSeq(s, 1, a - 1) /\ back = SubSeq(s, a, Len(s))
    OBVIOUS
  <2>6. PICK trimmed, tail : trimmed = SubSeq(s, a, b) /\ tail = SubSeq(s, b + 1, Len(s))
    OBVIOUS
  <2>7. a - 1 \in 0..Len(s) /\ (a - 1) + 1 = a /\ s \in Seq(Nat)
    BY <2>3 DEF Text
  <2>8. /\ front \in Text /\ back \in Text /\ Len(front) = a - 1
        /\ Letters(s) = Letters(front) \o Letters(back)
    BY <2>5, <2>7, LettersOfParts
  <2>9. /\ trimmed \in Text /\ Len(trimmed) = b - a + 1
        /\ tail \in Text /\ Len(tail) = Len(s) - b
    <3>1. trimmed \in Text /\ Len(trimmed) = b - a + 1
      <4>1. \A i \in a..b : s[i] \in Nat
        BY <1>1, <2>3, <2>7
      <4> QED
        BY <2>3, <2>6, <4>1, SubSeqProperties DEF Text
    <3>2. tail \in Text /\ Len(tail) = Len(s) - b
      <4>1. b \in 0..Len(s)
        BY <2>3
      <4> QED
        BY <1>1, <2>6, <2>7, <4>1, LettersOfParts, SubSeqProperties DEF Text
    <3> QED
      BY <3>1, <3>2
  <2>10. trimmed \o tail = back
    <3>1. a \in 1..Len(s) + 1 /\ b \in a - 1..Len(s) /\ Len(s) \in b..Len(s)
      BY <1>1, <2>3
    <3> QED
      BY <2>5, <2>6, <2>7, <3>1, ConcatAdjacentSubSeq
  <2>11. Letters(front) = <<>>
    <3>1. \A i \in 1..Len(front) : front[i] = s[i] /\ i \in 1..Len(s) /\ ~(a <= i)
      BY <1>1, <2>3, <2>5, <2>7, <2>8
    <3>2. \A i \in 1..Len(front) : front[i] \in Blank
      BY <2>2, <3>1 DEF Solid
    <3> QED
      BY <2>8, <3>2, LettersOfBlanks
  <2>12. Letters(tail) = <<>>
    <3>1. \A i \in 1..Len(tail) : tail[i] = s[b + i] /\ b + i \in 1..Len(s) /\ ~(b + i <= b)
      BY <1>1, <2>3, <2>6, <2>7, <2>9
    <3>2. \A i \in 1..Len(tail) : tail[i] \in Blank
      BY <2>2, <3>1 DEF Solid
    <3> QED
      BY <2>9, <3>2, LettersOfBlanks
  <2>13. Letters(back) = Letters(trimmed) \o <<>>
    BY <2>9, <2>10, <2>12, LettersConcat
  <2>14. Letters(s) = Letters(trimmed)
    <3>1. Letters(trimmed) \in Seq(Nat)
      BY <2>9, LettersType DEF Text
    <3> QED
      BY <2>8, <2>11, <2>13, <3>1, ConcatEmptySeq
  <2> QED
    BY <1>1, <2>3, <2>4, <2>6, <2>9, <2>14
<1> QED
  BY <1>2, <1>3

(* What a sequence of texts says.                                          *)
Said(parts) == Letters(FlattenSeq(parts))

LEMMA SaidType == \A parts \in Seq(Text) : Said(parts) \in Text
BY FlattenType, LettersType DEF Said, Text

LEMMA SaidNothing == Said(<<>>) = <<>>
BY EmptyFlattens, OnlyEmpty DEF Said, Letters

LEMMA SaidAppend ==
    ASSUME NEW parts \in Seq(Text), NEW part \in Text
    PROVE  Said(Append(parts, part)) = Said(parts) \o Letters(part)
<1>1. FlattenSeq(Append(parts, part)) = FlattenSeq(parts) \o part
  BY FlattenAppend DEF Text
<1>2. FlattenSeq(parts) \in Text
  BY FlattenType DEF Text
<1> QED
  BY <1>1, <1>2, LettersConcat DEF Said

LEMMA SaidOne == \A part \in Text : Said(<<part>>) = Letters(part)
<1> TAKE part \in Text
<1>1. <<>> \in Seq(Text) /\ Append(<<>>, part) = <<part>>
  OBVIOUS
<1>2. Said(<<part>>) = <<>> \o Letters(part)
  BY <1>1, SaidAppend, SaidNothing
<1>3. Letters(part) \in Seq(Nat)
  BY LettersType DEF Text
<1> QED
  BY <1>2, <1>3, ConcatEmptySeq

LEMMA TextsAssociate == \A a, b, c \in Text : (a \o b) \o c = a \o (b \o c)
<1> TAKE a, b, c \in Text
<1>1. PICK S : S = Nat
  OBVIOUS
<1>2. a \in Seq(S) /\ b \in Seq(S) /\ c \in Seq(S)
  BY <1>1 DEF Text
<1> QED
  BY ONLY <1>2, ConcatAssociative

LEMMA SaidFirst ==
    ASSUME NEW parts \in Seq(Text), parts # <<>>
    PROVE  Said(parts) = Letters(Head(parts)) \o Said(Tail(parts))
<1> DEFINE T == {q \in Seq(Text) : q # <<>> => Said(q) = Letters(Head(q)) \o Said(Tail(q))}
<1>1. <<>> \in T
  OBVIOUS
<1>2. ASSUME NEW q \in T, NEW e \in Text PROVE Append(q, e) \in T
  <2>1. q \in Seq(Text) /\ Append(q, e) \in Seq(Text)
    OBVIOUS
  <2>2. Said(Append(q, e)) = Said(q) \o Letters(e)
    BY <2>1, SaidAppend
  <2>3. CASE q = <<>>
    <3>1. Head(Append(q, e)) = e /\ Tail(Append(q, e)) = <<>>
      BY <2>3
    <3>2. Letters(e) \in Seq(Nat)
      BY LettersType DEF Text
    <3>3. <<>> \o Letters(e) = Letters(e) /\ Letters(e) \o <<>> = Letters(e)
      BY ONLY <3>2, ConcatEmptySeq
    <3> QED
      BY ONLY <2>1, <2>2, <2>3, <3>1, <3>3, SaidNothing
  <2>4. CASE q # <<>>
    <3>1. Head(Append(q, e)) = Head(q) /\ Tail(Append(q, e)) = Append(Tail(q), e)
      BY ONLY <2>1, <2>4, HeadTailAppend
    <3>2. Head(q) \in Text /\ Tail(q) \in Seq(Text)
      BY <2>1, <2>4
    <3>3. Said(Append(Tail(q), e)) = Said(Tail(q)) \o Letters(e)
      BY <3>2, SaidAppend
    <3>4. Said(q) = Letters(Head(q)) \o Said(Tail(q))
      BY <2>4
    <3>5. Letters(Head(q)) \in Text /\ Said(Tail(q)) \in Text /\ Letters(e) \in Text
      BY <3>2, LettersType, SaidType
    <3>6. (Letters(Head(q)) \o Said(Tail(q))) \o Letters(e)
              = Letters(Head(q)) \o (Said(Tail(q)) \o Letters(e))
      BY ONLY <3>5, TextsAssociate
    <3> QED
      BY <2>1, <2>2, <3>1, <3>3, <3>4, <3>6
  <2> QED
    BY <2>3, <2>4
<1>3. T = Seq(Text)
  <2>1. T \in SUBSET Seq(Text)
    OBVIOUS
  <2> HIDE DEF T
  <2> QED
    BY <1>1, <1>2, <2>1, SeqInduction
<1> QED
  BY <1>3

(* strings.Join adds nothing but newlines.                                 *)
LEMMA JoinSays ==
    ASSUME NEW parts \in Seq(Text)
    PROVE  Join(parts) \in Text /\ Letters(Join(parts)) = Said(parts)
<1> DEFINE Lined(q) == [n \in 1..Len(q) |-> IF n = 1 THEN q[n] ELSE <<Newline>> \o q[n]]
           Line(q, e) == IF q = <<>> THEN e ELSE <<Newline>> \o e
           T == {q \in Seq(Text) : Letters(FlattenSeq(Lined(q))) = Said(q)}
<1>0. /\ <<Newline>> \in Text /\ Letters(<<Newline>>) = <<>>
      /\ \A e \in Text : <<Newline>> \o e \in Text
  <2>1. Newline \in Nat /\ Newline \in Blank
    BY DEF Newline, Blank
  <2>2. <<Newline>> \in Text /\ Len(<<Newline>>) = 1 /\ <<Newline>>[1] = Newline
    BY <2>1 DEF Text
  <2>3. Letters(<<Newline>>) = <<>>
    BY <2>1, <2>2, LettersOfBlanks
  <2> QED
    BY <2>2, <2>3 DEF Text
<1>1. ASSUME NEW q \in Seq(Text) PROVE Lined(q) \in Seq(Text) /\ Len(Lined(q)) = Len(q)
  BY <1>0
<1>2. <<>> \in T
  <2>1. Lined(<<>>) = <<>>
    OBVIOUS
  <2> QED
    BY <2>1, SaidNothing DEF Said
<1>3. ASSUME NEW q \in Seq(Text), NEW e \in Text
      PROVE  Lined(Append(q, e)) = Append(Lined(q), Line(q, e))
  <2>1. PICK a : a = Append(q, e)
    OBVIOUS
  <2>2. /\ a \in Seq(Text) /\ Len(a) = Len(q) + 1 /\ Len(q) \in Nat
        /\ \A i \in 1..Len(q) : a[i] = q[i]
        /\ a[Len(q) + 1] = e
        /\ q = <<>> <=> Len(q) = 0
    BY <2>1
  <2>3. PICK l : l = Lined(a)
    OBVIOUS
  <2>4. PICK m : m = Lined(q)
    OBVIOUS
  <2>5. PICK x : x = Line(q, e)
    OBVIOUS
  <2>6. x \in Text /\ m \in Seq(Text) /\ l \in Seq(Text) /\ Len(l) = Len(q) + 1 /\ Len(m) = Len(q)
    BY <1>0, <1>1, <2>2, <2>3, <2>4, <2>5
  <2>7. PICK r : r = Append(m, x)
    OBVIOUS
  <2>8. /\ r \in Seq(Text) /\ Len(r) = Len(q) + 1 /\ r[Len(q) + 1] = x
        /\ \A i \in 1..Len(q) : r[i] = m[i]
    BY <2>6, <2>7
  <2>9. ASSUME NEW i \in 1..(Len(q) + 1) PROVE l[i] = r[i]
    <3>1. l[i] = IF i = 1 THEN a[i] ELSE <<Newline>> \o a[i]
      BY <2>2, <2>3
    <3>2. CASE i = Len(q) + 1
      BY <2>2, <2>5, <2>8, <3>1, <3>2
    <3>3. CASE i # Len(q) + 1
      <4>1. i \in 1..Len(q)
        BY <2>2, <3>3
      <4>2. m[i] = IF i = 1 THEN q[i] ELSE <<Newline>> \o q[i]
        BY <2>4, <4>1
      <4> QED
        BY <2>2, <2>8, <3>1, <4>1, <4>2
    <3> QED
      BY <3>2, <3>3
  <2>10. l = r
    BY ONLY <2>6, <2>8, <2>9, SeqEqual
  <2> QED
    BY ONLY <2>1, <2>3, <2>4, <2>5, <2>7, <2>10
<1>4. ASSUME NEW q \in Seq(Text), NEW e \in Text
      PROVE  Line(q, e) \in Text /\ Letters(Line(q, e)) = Letters(e)
  <2>1. Letters(e) \in Seq(Nat)
    BY LettersType DEF Text
  <2>2. Letters(<<Newline>> \o e) = Letters(e)
    <3>1. Letters(<<Newline>> \o e) = Letters(<<Newline>>) \o Letters(e)
      BY <1>0, LettersConcat
    <3>2. <<>> \o Letters(e) = Letters(e)
      BY ONLY <2>1, ConcatEmptySeq
    <3> QED
      BY <1>0, <3>1, <3>2
  <2> QED
    BY <1>0, <2>2
<1> HIDE DEF Lined, Line
<1>5. ASSUME NEW q \in T, NEW e \in Text PROVE Append(q, e) \in T
  <2>1. /\ q \in Seq(Text) /\ Append(q, e) \in Seq(Text)
        /\ Letters(FlattenSeq(Lined(q))) = Said(q)
    OBVIOUS
  <2>2. Lined(Append(q, e)) = Append(Lined(q), Line(q, e))
    BY <1>3, <2>1
  <2>3. Said(Lined(Append(q, e))) = Said(Lined(q)) \o Letters(Line(q, e))
    BY <1>1, <1>4, <2>1, <2>2, SaidAppend
  <2>4. Said(Append(q, e)) = Said(q) \o Letters(e)
    BY <2>1, SaidAppend
  <2>5. Letters(FlattenSeq(Lined(Append(q, e)))) = Said(Append(q, e))
    BY <1>4, <2>1, <2>3, <2>4 DEF Said
  <2> QED
    BY <2>1, <2>5
<1>6. T = Seq(Text)
  <2>1. T \in SUBSET Seq(Text)
    OBVIOUS
  <2> HIDE DEF T
  <2> QED
    BY <1>2, <1>5, <2>1, SeqInduction
<1>7. Letters(FlattenSeq(Lined(parts))) = Said(parts)
  BY <1>6
<1>8. FlattenSeq(Lined(parts)) \in Text
  BY <1>1, FlattenType DEF Text
<1>9. Join(parts) = FlattenSeq(Lined(parts))
  BY DEF Join, Lined
<1> QED
  BY <1>7, <1>8, <1>9

LEMMA ToSetAppend ==
    ASSUME NEW S, NEW s \in Seq(S), NEW e \in S
    PROVE  ToSet(Append(s, e)) = ToSet(s) \cup {e}
<1>1. Len(Append(s, e)) = Len(s) + 1 /\ Len(s) \in Nat
  OBVIOUS
<1>2. DOMAIN s = 1..Len(s) /\ DOMAIN Append(s, e) = 1..(Len(s) + 1)
  BY <1>1
<1>3. /\ \A i \in 1..Len(s) : Append(s, e)[i] = s[i]
      /\ Append(s, e)[Len(s) + 1] = e
  OBVIOUS
<1>4. ASSUME NEW x \in ToSet(Append(s, e)) PROVE x \in ToSet(s) \cup {e}
  <2>1. PICK i \in 1..(Len(s) + 1) : x = Append(s, e)[i]
    BY <1>2 DEF ToSet
  <2>2. CASE i = Len(s) + 1
    BY <1>3, <2>1, <2>2
  <2>3. CASE i # Len(s) + 1
    <3>1. i \in 1..Len(s)
      BY <1>1, <2>1, <2>3
    <3> QED
      BY <1>2, <1>3, <2>1, <3>1 DEF ToSet
  <2> QED
    BY <2>2, <2>3
<1>5. ASSUME NEW x \in ToSet(s) PROVE x \in ToSet(Append(s, e))
  <2>1. PICK i \in 1..Len(s) : x = s[i]
    BY <1>2 DEF ToSet
  <2>2. i \in 1..(Len(s) + 1)
    BY <1>1
  <2> QED
    BY <1>2, <1>3, <2>1, <2>2 DEF ToSet
<1>6. e \in ToSet(Append(s, e))
  <2>1. Len(s) + 1 \in 1..(Len(s) + 1)
    BY <1>1
  <2> QED
    BY <1>2, <1>3, <2>1 DEF ToSet
<1> QED
  BY <1>4, <1>5, <1>6

LEMMA PrefixOfConcat == \A a, b \in Text : IsPrefix(a, a \o b)
<1> TAKE a, b \in Text
<1>1. /\ a \in Seq(Nat) /\ b \in Seq(Nat) /\ a \o b \in Seq(Nat)
      /\ Len(a) \in Nat /\ Len(b) \in Nat /\ Len(a \o b) = Len(a) + Len(b)
      /\ \A i \in 1..Len(a) : (a \o b)[i] = a[i]
  BY DEF Text
<1>2. PICK whole, front : whole = SubSeq(a, 1, Len(a)) /\ front = SubSeq(a \o b, 1, Len(a))
  OBVIOUS
<1>3. whole = a
  BY <1>1, <1>2, SubSeqFull
<1>4. /\ front \in Seq(Nat) /\ Len(front) = Len(a)
      /\ \A i \in 1..Len(a) : front[i] = a[i]
  BY <1>1, <1>2
<1>5. front = a
  BY ONLY <1>1, <1>4, SeqEqual
<1> QED
  BY <1>1, <1>2, <1>3, <1>5 DEF IsPrefix

(***************************************************************************)
(* The answer on its way to the user.                                      *)
(***************************************************************************)
ReplyTyped ==
    /\ text \in Text /\ runes \in Text
    /\ queue \in Seq(Text) /\ posted \in Seq(Text) /\ replies \in Seq(Text)

(* What is posted, what is queued and what is left to be split are the     *)
(* answer, in this order.                                                  *)
InPieces ==
    /\ pc \in {"idle", "scheduling", "asking"} => queue = <<>> /\ posted = <<>>
    /\ pc \in {"splitting", "sending"} =>
           (Said(posted) \o Said(queue)) \o Letters(runes) = Letters(text)
    /\ pc = "sending" => runes = <<>>
    /\ pc = "done" => IsPrefix(Said(posted), Letters(text))
    /\ pc = "done" /\ ~failed => Said(posted) = Letters(text)

(* The answer is all that the model said, unless a call has failed.        *)
Complete ==
    pc \in {"splitting", "sending", "done"} /\ ~failed => Letters(text) = Said(replies)

Stages == {"idle", "scheduling", "asking", "splitting", "sending", "done"}

ReplyInductive ==
    /\ pc \in Stages
    /\ ReplyTyped /\ MessagesFit /\ InPieces /\ Complete

LEMMA ReplyStarts == ChatInit => ReplyInductive
BY DEF ChatInit, ReplyInductive, ReplyTyped, MessagesFit, InPieces, Complete, Stages, Text, ToSet

LEMMA FallbackType == Fallback \in Text
BY DEF Fallback, Text, Newline, Space

LEMMA ReplyAppends ==
    ASSUME ReplyTyped, Reply
    PROVE  \E said \in Text : replies' = Append(replies, said)
<1>1. PICK length, blanks, newlines :
          /\ length \in ReplyLengths
          /\ replies' = Append(replies, Trim([k \in 1..length |->
                            IF k \in newlines THEN Newline
                            ELSE IF k \in blanks THEN Space
                            ELSE Character(Len(replies), k)]))
  BY DEF Reply
<1>2. PICK s : s = [k \in 1..length |-> IF k \in newlines THEN Newline
                                        ELSE IF k \in blanks THEN Space
                                        ELSE Character(Len(replies), k)]
  OBVIOUS
<1>3. Max(ReplyLengths) \in Nat
  <2>1. ReplyLengths \in SUBSET Nat /\ IsFiniteSet(ReplyLengths) /\ ReplyLengths # {}
    BY <1>1, ReplyAssumption
  <2>2. PICK b \in Nat : \A x \in ReplyLengths : x <= b
    BY <2>1, FiniteIsBounded
  <2> QED
    BY <2>1, <2>2, MaxIsGreatest
<1>4. length \in Nat /\ Len(replies) \in Nat
  BY <1>1, ReplyAssumption DEF ReplyTyped
<1>5. \A k \in 1..length : Character(Len(replies), k) \in Nat
  <2>1. Len(replies) * Max(ReplyLengths) \in Nat
    BY <1>3, <1>4
  <2> QED
    BY <1>4, <2>1 DEF Character, Newline
<1>6. s \in Text
  BY <1>2, <1>4, <1>5 DEF Text, Newline, Space
<1> QED
  BY <1>1, <1>2, <1>6, TrimIs

(* splitForDiscord cuts within the limit, and not at its beginning.        *)
LEMMA CutFits == Cut \in 1..MaxDiscord
<1>1. MinUsefulCut \in Nat
  BY ReplyAssumption DEF MinUsefulCut
<1>2. ASSUME NEW c, Breaks(c) # {} PROVE Max(Breaks(c)) \in 1..MaxDiscord
  <2>1. Breaks(c) \in SUBSET (1..MaxDiscord) /\ MaxDiscord \in Nat
    BY <1>1, ReplyAssumption DEF Breaks
  <2>2. Breaks(c) \in SUBSET Nat /\ \A x \in Breaks(c) : x <= MaxDiscord
    BY <2>1
  <2> QED
    BY <1>2, <2>1, <2>2, MaxIsGreatest
<1> QED
  BY <1>2, ReplyAssumption DEF Cut

LEMMA EnqueueKeeps ==
    ASSUME ReplyTyped, MessagesFit, NEW part \in Text, Len(part) <= MaxDiscord,
           Enqueue(part), posted' = posted
    PROVE  /\ queue' \in Seq(Text) /\ MessagesFit'
           /\ Said(queue') = Said(queue) \o Letters(part)
<1>1. CASE part = <<>>
  <2>1. queue' = queue
    BY <1>1 DEF Enqueue
  <2>2. Letters(part) = <<>>
    BY <1>1, OnlyEmpty DEF Letters
  <2>3. Said(queue) \in Seq(Nat)
    BY SaidType DEF ReplyTyped, Text
  <2> QED
    BY <2>1, <2>2, <2>3, ConcatEmptySeq DEF ReplyTyped, MessagesFit
<1>2. CASE part # <<>>
  <2>1. queue' = Append(queue, part) /\ queue \in Seq(Text)
    BY <1>2 DEF Enqueue, ReplyTyped
  <2>2. Len(part) \in 1..MaxDiscord
    BY <1>2, ReplyAssumption DEF Text
  <2>3. ToSet(queue') = ToSet(queue) \cup {part}
    BY <2>1, ToSetAppend
  <2> QED
    BY <2>1, <2>2, <2>3, SaidAppend DEF MessagesFit
<1> QED
  BY <1>1, <1>2

LEMMA SplitKeeps ==
    ASSUME ReplyInductive, Split
    PROVE  ReplyInductive'
<1>1. /\ pc = "splitting" /\ pc' = pc
      /\ Len(runes) > MaxDiscord
      /\ Enqueue(Trim(SubSeq(runes, 1, Cut)))
      /\ runes' = Trim(SubSeq(runes, Cut + 1, Len(runes)))
      /\ UNCHANGED <<replies, text, posted, failed>>
  BY DEF Split
<1>2. PICK front, back : front = SubSeq(runes, 1, Cut) /\ back = SubSeq(runes, Cut + 1, Len(runes))
  OBVIOUS
<1>3. ReplyTyped /\ MessagesFit /\ runes \in Text
  BY DEF ReplyInductive, ReplyTyped
<1>4. Cut \in 0..Len(runes) /\ Cut <= MaxDiscord
  BY <1>1, <1>3, CutFits, ReplyAssumption DEF Text
<1>5. /\ front \in Text /\ Len(front) = Cut /\ back \in Text
      /\ Letters(runes) = Letters(front) \o Letters(back)
  BY <1>2, <1>3, <1>4, LettersOfParts
<1>6. /\ Trim(front) \in Text /\ Len(Trim(front)) <= Len(front)
      /\ Letters(Trim(front)) = Letters(front)
      /\ Trim(back) \in Text /\ Letters(Trim(back)) = Letters(back)
  BY <1>5, TrimIs
<1>7. Len(Trim(front)) <= MaxDiscord
  BY <1>4, <1>5, <1>6, ReplyAssumption DEF Text
<1>8. /\ queue' \in Seq(Text) /\ MessagesFit'
      /\ Said(queue') = Said(queue) \o Letters(front)
  BY <1>1, <1>2, <1>3, <1>6, <1>7, EnqueueKeeps
<1>9. runes' \in Text /\ Letters(runes') = Letters(back)
  BY <1>1, <1>2, <1>6
<1>10. (Said(posted) \o Said(queue')) \o Letters(runes') = Letters(text)
  <2>1. PICK p, q, f, b : p = Said(posted) /\ q = Said(queue) /\ f = Letters(front) /\ b = Letters(back)
    OBVIOUS
  <2>2. p \in Text /\ q \in Text /\ f \in Text /\ b \in Text
    BY <1>3, <1>5, <2>1, SaidType, LettersType DEF ReplyTyped
  <2>3. (p \o q) \o (f \o b) = Letters(text)
    BY <1>1, <1>5, <2>1 DEF ReplyInductive, InPieces
  <2>4. (p \o (q \o f)) \o b = (p \o q) \o (f \o b)
    <3>1. p \o q \in Text
      BY <2>2 DEF Text
    <3>2. (p \o q) \o f = p \o (q \o f)
      BY ONLY <2>2, TextsAssociate, SMTT(30)
    <3>3. ((p \o q) \o f) \o b = (p \o q) \o (f \o b)
      BY ONLY <2>2, <3>1, TextsAssociate, SMTT(30)
    <3> QED
      BY ONLY <3>2, <3>3, Zenon
  <2> QED
    BY <1>8, <1>9, <2>1, <2>3, <2>4
<1> QED
  BY <1>1, <1>8, <1>9, <1>10 DEF ReplyInductive, ReplyTyped, InPieces, Complete

LEMMA SplitEndKeeps ==
    ASSUME ReplyInductive, SplitEnd
    PROVE  ReplyInductive'
<1>1. /\ pc = "splitting" /\ pc' = "sending"
      /\ Len(runes) <= MaxDiscord
      /\ Enqueue(runes)
      /\ runes' = <<>>
      /\ UNCHANGED <<replies, text, posted, failed>>
  BY DEF SplitEnd
<1>2. ReplyTyped /\ MessagesFit /\ runes \in Text
  BY DEF ReplyInductive, ReplyTyped
<1>3. /\ queue' \in Seq(Text) /\ MessagesFit'
      /\ Said(queue') = Said(queue) \o Letters(runes)
  BY <1>1, <1>2, EnqueueKeeps
<1>4. Letters(runes') = <<>> /\ runes' \in Text
  BY <1>1, OnlyEmpty DEF Letters, Text
<1>5. (Said(posted) \o Said(queue')) \o Letters(runes') = Letters(text)
  <2>1. PICK p, q, f : p = Said(posted) /\ q = Said(queue) /\ f = Letters(runes)
    OBVIOUS
  <2>2. p \in Text /\ q \in Text /\ f \in Text
    BY <1>2, <2>1, SaidType, LettersType DEF ReplyTyped
  <2>3. (p \o q) \o f = Letters(text)
    BY <1>1, <2>1 DEF ReplyInductive, InPieces
  <2>4. (p \o (q \o f)) \o <<>> = p \o (q \o f)
    BY <2>2, ConcatEmptySeq DEF Text
  <2>5. (p \o q) \o f = p \o (q \o f)
    BY ONLY <2>2, TextsAssociate, SMTT(30)
  <2> QED
    BY <1>3, <1>4, <2>1, <2>3, <2>4, <2>5
<1> QED
  BY <1>1, <1>3, <1>4, <1>5 DEF ReplyInductive, ReplyTyped, InPieces, Complete, Stages

LEMMA SendKeeps ==
    ASSUME ReplyInductive, Send \/ SendFails
    PROVE  ReplyInductive'
<1>1. /\ pc = "sending" /\ queue # <<>>
      /\ UNCHANGED <<replies, text, runes>>
  BY DEF Send, SendFails
<1>2. ReplyTyped /\ MessagesFit /\ queue \in Seq(Text) /\ posted \in Seq(Text)
  BY DEF ReplyInductive, ReplyTyped
<1>3. PICK first, others : first = Head(queue) /\ others = Tail(queue)
  OBVIOUS
<1>4. /\ first \in Text /\ others \in Seq(Text)
      /\ first \in ToSet(queue) /\ ToSet(others) \subseteq ToSet(queue)
  <2>1. /\ first = queue[1] /\ 1 \in 1..Len(queue)
        /\ Len(others) = Len(queue) - 1 /\ others \in Seq(Text)
        /\ \A i \in 1..Len(others) : others[i] = queue[i + 1] /\ i + 1 \in 1..Len(queue)
    BY <1>1, <1>2, <1>3
  <2>2. DOMAIN others = 1..Len(others) /\ DOMAIN queue = 1..Len(queue)
    BY <1>2, <2>1
  <2>3. first \in Text /\ first \in ToSet(queue)
    BY <1>2, <2>1, <2>2 DEF ToSet
  <2>4. ASSUME NEW x \in ToSet(others) PROVE x \in ToSet(queue)
    <3>1. PICK i \in 1..Len(others) : x = others[i]
      BY <2>2, <2>4 DEF ToSet
    <3> QED
      BY <2>1, <2>2, <3>1 DEF ToSet
  <2> QED
    BY <2>1, <2>3, <2>4
<1>5. PICK p, f, o : p = Said(posted) /\ f = Letters(first) /\ o = Said(others)
  OBVIOUS
<1>6. /\ p \in Text /\ f \in Text /\ o \in Text /\ p \o f \in Text
      /\ f \o o \in Text
  <2>1. p \in Text /\ f \in Text /\ o \in Text
    BY <1>2, <1>4, <1>5, SaidType, LettersType
  <2> QED
    BY <2>1 DEF Text
<1>7. p \o (f \o o) = Letters(text)
  <2>1. Said(queue) = f \o o
    BY <1>1, <1>2, <1>3, <1>5, SaidFirst
  <2>2. runes = <<>> /\ (p \o (f \o o)) \o Letters(runes) = Letters(text)
    BY <1>1, <1>5, <2>1 DEF ReplyInductive, InPieces
  <2>3. Letters(runes) = <<>>
    BY <2>2, OnlyEmpty DEF Letters
  <2>4. (p \o (f \o o)) \o <<>> = p \o (f \o o)
    BY <1>6, ConcatEmptySeq DEF Text
  <2> QED
    BY <2>2, <2>3, <2>4
<1>8. (p \o f) \o o = Letters(text)
  <2>1. p \in Text /\ f \in Text /\ o \in Text
    BY <1>6
  <2>2. (p \o f) \o o = p \o (f \o o)
    BY ONLY <2>1, TextsAssociate, SMTT(30)
  <2> QED
    BY ONLY <1>7, <2>2
<1>9. PICK more : more = Append(posted, first)
  OBVIOUS
<1>10. /\ more \in Seq(Text) /\ ToSet(more) = ToSet(posted) \cup {first}
       /\ Said(more) = p \o f
  <2>1. more \in Seq(Text)
    BY <1>2, <1>4, <1>9
  <2>2. ToSet(more) = ToSet(posted) \cup {first}
    BY ONLY <1>2, <1>4, <1>9, ToSetAppend
  <2>3. Said(more) = p \o f
    BY ONLY <1>2, <1>4, <1>5, <1>9, SaidAppend
  <2> QED
    BY <2>1, <2>2, <2>3
<1>11. CASE Send
  <2>1. posted' = more /\ queue' = others /\ pc' = pc /\ failed' = failed
    BY <1>3, <1>9, <1>11 DEF Send, NoFault
  <2>2. MessagesFit'
    BY <1>2, <1>4, <1>10, <2>1 DEF MessagesFit
  <2>3. (Said(posted') \o Said(queue')) \o Letters(runes') = Letters(text')
    <3>1. runes' = <<>> /\ Letters(runes') = <<>>
      BY <1>1, OnlyEmpty DEF Letters, ReplyInductive, InPieces
    <3>2. ((p \o f) \o o) \o <<>> = (p \o f) \o o
      BY <1>6, ConcatEmptySeq DEF Text
    <3> QED
      BY <1>1, <1>5, <1>8, <1>10, <2>1, <3>1, <3>2
  <2> QED
    BY <1>1, <1>4, <1>10, <2>1, <2>2, <2>3
    DEF ReplyInductive, ReplyTyped, InPieces, Complete, Stages
<1>12. CASE SendFails
  <2>1. /\ posted' \in {posted, more} /\ queue' = queue /\ pc' = "done" /\ failed' = TRUE
    BY <1>1, <1>3, <1>9, <1>12 DEF SendFails, Fault
  <2>2. MessagesFit'
    BY <1>2, <1>4, <1>10, <2>1 DEF MessagesFit
  <2>3. IsPrefix(Said(posted'), Letters(text'))
    <3>1. IsPrefix(p, Letters(text)) /\ IsPrefix(p \o f, Letters(text))
      BY <1>6, <1>7, <1>8, PrefixOfConcat
    <3> QED
      BY <1>1, <1>5, <1>10, <2>1, <3>1
  <2> QED
    BY <1>1, <1>2, <1>10, <2>1, <2>2, <2>3
    DEF ReplyInductive, ReplyTyped, InPieces, Complete, Stages
<1> QED
  BY <1>11, <1>12

LEMMA SendEndKeeps ==
    ASSUME ReplyInductive, SendEnd
    PROVE  ReplyInductive'
<1>1. /\ pc = "sending" /\ pc' = "done" /\ queue = <<>>
      /\ UNCHANGED <<replies, text, runes, queue, posted, failed>>
  BY DEF SendEnd
<1>2. ReplyTyped /\ MessagesFit
  BY DEF ReplyInductive
<1>3. PICK p : p = Said(posted)
  OBVIOUS
<1>4. p \in Text /\ p \in Seq(Nat) /\ <<>> \in Text /\ <<>> \in Seq(Nat)
  BY <1>2, <1>3, SaidType DEF ReplyTyped, Text
<1>5. p = Letters(text)
  <2>1. (p \o <<>>) \o <<>> = Letters(text)
    BY <1>1, <1>3, SaidNothing, OnlyEmpty DEF ReplyInductive, InPieces, Letters
  <2> QED
    BY <1>4, <2>1, ConcatEmptySeq
<1>6. IsPrefix(p, p)
  BY <1>4, PrefixOfConcat, ConcatEmptySeq
<1> QED
  BY <1>1, <1>2, <1>3, <1>5, <1>6
  DEF ReplyInductive, ReplyTyped, MessagesFit, InPieces, Complete, Stages

(* Nothing is queued or posted when an answer begins to be split.          *)
LEMMA BeginsToSplit ==
    ASSUME ReplyInductive, pc \in {"scheduling", "asking"}, pc' = "splitting",
           UNCHANGED <<queue, posted>>,
           text' \in Text, runes' = text', replies' \in Seq(Text),
           ~failed' => Letters(text') = Said(replies')
    PROVE  ReplyInductive'
<1>1. ReplyTyped /\ MessagesFit /\ queue = <<>> /\ posted = <<>>
  BY DEF ReplyInductive, InPieces
<1>2. Letters(text') \in Seq(Nat) /\ <<>> \in Seq(Nat)
  BY LettersType DEF Text
<1>3. (<<>> \o <<>>) \o Letters(text') = Letters(text')
  BY <1>2, ConcatEmptySeq
<1>4. Said(posted') = <<>> /\ Said(queue') = <<>>
  BY <1>1, SaidNothing
<1> QED
  BY <1>1, <1>3, <1>4
  DEF ReplyInductive, ReplyTyped, MessagesFit, InPieces, Complete, Stages

LEMMA AskingKeeps ==
    ASSUME ReplyInductive, Continue \/ Answer \/ AskFails
    PROVE  ReplyInductive'
<1>1. ReplyTyped /\ pc = "asking"
  BY DEF ReplyInductive, Continue, Answer, AskFails
<1>2. CASE Continue
  <2>1. replies' \in Seq(Text)
    BY <1>1, <1>2, ReplyAppends DEF Continue, ReplyTyped
  <2> QED
    BY <1>1, <1>2, <2>1
    DEF Continue, NoFault, ReplyInductive, ReplyTyped, MessagesFit, InPieces, Complete
<1>3. CASE Answer
  <2>1. /\ Reply /\ pc' = "splitting" /\ text' = Trim(Join(replies')) /\ runes' = text'
        /\ UNCHANGED <<queue, posted>>
    BY <1>3 DEF Answer
  <2>2. replies' \in Seq(Text)
    <3>1. PICK said \in Text : replies' = Append(replies, said)
      BY ONLY <1>1, <2>1, ReplyAppends
    <3> QED
      BY <1>1, <3>1 DEF ReplyTyped
  <2>3. text' \in Text /\ Letters(text') = Said(replies')
    BY <2>1, <2>2, JoinSays, TrimIs
  <2> QED
    BY <1>1, <2>1, <2>2, <2>3, BeginsToSplit
<1>4. CASE AskFails
  <2>1. /\ replies' \in Seq(Text) /\ failed' = TRUE
        /\ pc' = "splitting" /\ text' = Fallback /\ runes' = text'
        /\ UNCHANGED <<queue, posted>>
    BY <1>1, <1>4 DEF AskFails, Fault, ReplyTyped
  <2> QED
    BY <1>1, <2>1, FallbackType, BeginsToSplit
<1> QED
  BY <1>2, <1>3, <1>4

LEMMA ReplyStep == ReplyInductive /\ [ChatNext]_chatVars => ReplyInductive'
<1> SUFFICES ASSUME ReplyInductive, [ChatNext]_chatVars PROVE ReplyInductive'
  OBVIOUS
<1>1. ReplyTyped
  BY DEF ReplyInductive
<1>2. ASSUME NEW t \in Talks, Listen(t) PROVE ReplyInductive'
  BY <1>2 DEF Listen, ReplyInductive, ReplyTyped, MessagesFit, InPieces, Complete, Stages
<1>3. CASE Confirm \/ Refuse
  <2>1. /\ pc = "scheduling" /\ pc' = "splitting"
        /\ replies' = <<Fallback>> /\ text' = Fallback /\ runes' = text'
        /\ UNCHANGED <<queue, posted>>
    BY <1>3 DEF Confirm, Refuse, Say
  <2>2. replies' \in Seq(Text) /\ Letters(text') = Said(replies')
    BY <2>1, FallbackType, SaidOne
  <2> QED
    BY <2>1, <2>2, FallbackType, BeginsToSplit
<1>4. CASE Ask
  BY <1>4 DEF Ask, ReplyInductive, ReplyTyped, MessagesFit, InPieces, Complete, Stages
<1>5. CASE GoOn \/ Record
  BY <1>5, AskingKeeps DEF GoOn, Record
<1>6. CASE Deliver
  BY <1>6, SplitKeeps, SplitEndKeeps, SendKeeps, SendEndKeeps DEF Deliver, Replying
<1>7. CASE Return \/ Crash
  <2>1. HandlerGone
    BY <1>7 DEF Return, Crash
  <2> QED
    BY <2>1
    DEF HandlerGone, ReplyInductive, ReplyTyped, MessagesFit, InPieces, Complete, Stages, Text, ToSet
<1>8. CASE UNCHANGED vars
  BY <1>8 DEF vars, ReplyInductive, ReplyTyped, MessagesFit, InPieces, Complete, Stages
<1> QED
  BY <1>2, <1>3, <1>4, <1>5, <1>6, <1>7, <1>8 DEF ChatNext, Handler, Reset, chatVars

LEMMA ReplyInductiveHolds == ChatSpec => []ReplyInductive
BY ReplyStarts, ReplyStep, PTL DEF ChatSpec

(* Discord accepts every message that splitForDiscord makes, whatever text *)
(* it is given: none is empty or too long.                                 *)
THEOREM ChatMessagesFit == ChatSpec => []MessagesFit
<1>1. ReplyInductive => MessagesFit
  BY DEF ReplyInductive
<1> QED
  BY <1>1, ReplyInductiveHolds, PTL

(* The user reads what the model said, or the fallback, from its beginning *)
(* and without a gap, and all that it said in however many calls, unless a *)
(* call fails: splitting and joining lose no character but blanks.         *)
THEOREM ChatAllSaid == ChatSpec => []AllSaid
<1>1. ASSUME ReplyInductive PROVE AllSaid
  <2>1. ReplyTyped /\ pc \in Stages
    BY <1>1 DEF ReplyInductive
  <2>2. PICK p, t : p = Said(posted) /\ t = Letters(text)
    OBVIOUS
  <2>3. p \in Text /\ t \in Text
    BY <2>1, <2>2, SaidType, LettersType DEF ReplyTyped
  <2>4. IsPrefix(p, t)
    <3>1. CASE pc \in {"idle", "scheduling", "asking"}
      <4>1. p = <<>>
        BY <1>1, <2>2, <3>1, SaidNothing DEF ReplyInductive, InPieces
      <4>2. <<>> \o t = t /\ <<>> \in Text
        BY <2>3, ConcatEmptySeq DEF Text
      <4> QED
        BY <2>3, <4>1, <4>2, PrefixOfConcat
    <3>2. CASE pc \in {"splitting", "sending"}
      <4>1. PICK q, r : q = Said(queue) /\ r = Letters(runes)
        OBVIOUS
      <4>2. q \in Text /\ r \in Text /\ q \o r \in Text
        BY <2>1, <4>1, SaidType, LettersType DEF ReplyTyped, Text
      <4>3. (p \o q) \o r = t
        BY <1>1, <2>2, <3>2, <4>1 DEF ReplyInductive, InPieces
      <4>4. (p \o q) \o r = p \o (q \o r)
        BY ONLY <2>3, <4>2, TextsAssociate, SMTT(30)
      <4> QED
        BY <2>3, <4>2, <4>3, <4>4, PrefixOfConcat
    <3>3. CASE pc = "done"
      BY <1>1, <2>2, <3>3 DEF ReplyInductive, InPieces
    <3> QED
      BY <2>1, <3>1, <3>2, <3>3 DEF Stages
  <2>5. pc = "done" /\ ~failed => p = Letters(FlattenSeq(replies))
    BY <1>1, <2>2 DEF ReplyInductive, InPieces, Complete, Said
  <2> QED
    BY <2>2, <2>4, <2>5 DEF AllSaid, Said
<1> QED
  BY <1>1, ReplyInductiveHolds, PTL

(***************************************************************************)
(* The histories hold nothing of another conversation.                     *)
(***************************************************************************)
Entry == {"user", "assistant"} \X Nat

(* The messages that entries belong to.                                    *)
Numbers(entries) == {entries[i][2] : i \in 1..Len(entries)}

(* A history holds nothing but what belongs to a message that was written  *)
(* in its conversation since the last /reset.                              *)
OfTheTalk(t, entries) == \A n \in Numbers(entries) : User(n) \in ToSet(exchanged[t])

ChatInductive ==
    /\ number \in Nat
    /\ byKey \in [Talks -> Seq(Entry)]
    /\ exchanged \in [Talks -> Seq(Entry)]
    /\ \A t \in Talks : OfTheTalk(t, byKey[t])
    /\ pc # "idle" => talk \in Talks /\ User(number) \in ToSet(exchanged[talk])
    /\ pc = "asking" => given \in Seq(Entry) /\ OfTheTalk(talk, given)

USE ChatAssumption

LEMMA OwnKey == \A t \in Talks : historyKey(t) = t
BY DEF Talks, historyKey

(* What appendHistory leaves in a history is the entry, or was there.      *)
LEMMA LastOfAppend ==
    ASSUME NEW s \in Seq(Entry), NEW e \in Entry, NEW n \in Nat \ {0}
    PROVE  /\ LastOf(Append(s, e), n) \in Seq(Entry)
           /\ Numbers(LastOf(Append(s, e), n)) \subseteq Numbers(s) \cup {e[2]}
<1> DEFINE a == Append(s, e)
           l == LastOf(a, n)
<1>1. /\ a \in Seq(Entry) /\ Len(a) = Len(s) + 1 /\ Len(s) \in Nat
      /\ \A i \in 1..Len(s) : a[i] = s[i]
      /\ a[Len(s) + 1] = e
  OBVIOUS
<1>2. \A i \in 1..Len(a) : a[i][2] \in Numbers(s) \cup {e[2]}
  <2> SUFFICES ASSUME NEW i \in 1..Len(a) PROVE a[i][2] \in Numbers(s) \cup {e[2]}
    OBVIOUS
  <2>1. CASE i = Len(s) + 1
    BY <1>1, <2>1
  <2>2. CASE i # Len(s) + 1
    <3>1. i \in 1..Len(s)
      BY <1>1, <2>2
    <3> QED
      BY <1>1, <3>1 DEF Numbers
  <2> QED
    BY <2>1, <2>2
<1> HIDE DEF a
<1>3. CASE Len(a) <= n
  BY <1>1, <1>2, <1>3 DEF LastOf, Numbers
<1>4. CASE ~(Len(a) <= n)
  <2>1. l = SubSeq(a, Len(a) - n + 1, Len(a))
    BY <1>4 DEF LastOf
  <2>2. Len(a) \in Nat /\ Len(a) - n + 1 \in 1..Len(a)
    BY <1>1, <1>4
  <2>3. l \in Seq(Entry) /\ Len(l) = n
    BY <1>1, <2>1, <2>2
  <2>4. \A i \in 1..n : l[i] = a[Len(a) - n + i] /\ Len(a) - n + i \in 1..Len(a)
    BY <1>1, <2>1, <2>2
  <2> HIDE DEF l
  <2>5. Numbers(l) \subseteq Numbers(s) \cup {e[2]}
    <3> SUFFICES ASSUME NEW i \in 1..Len(l) PROVE l[i][2] \in Numbers(s) \cup {e[2]}
      BY DEF Numbers
    <3> QED
      BY <1>2, <2>3, <2>4
  <2> QED
    BY <2>3, <2>5 DEF l, a
<1> QED
  BY <1>3, <1>4 DEF a

LEMMA ChatStarts == ChatInit => ChatInductive
BY DEF ChatInit, ChatInductive, OfTheTalk, Numbers

(* appendHistory, when what it appends belongs to the conversation.        *)
LEMMA AppendKeeps ==
    ASSUME ChatInductive, NEW t \in Talks, NEW e \in Entry, appendHistory(t, e),
           exchanged' \in [Talks -> Seq(Entry)],
           \A k \in Talks : ToSet(exchanged[k]) \subseteq ToSet(exchanged'[k]),
           User(e[2]) \in ToSet(exchanged'[t])
    PROVE  /\ byKey' \in [Talks -> Seq(Entry)]
           /\ \A k \in Talks : OfTheTalk(k, byKey[k])'
<1> DEFINE new == LastOf(Append(byKey[t], e), HistoryLimit)
<1>1. byKey' = [byKey EXCEPT ![t] = new]
  BY OwnKey DEF appendHistory
<1>2. byKey \in [Talks -> Seq(Entry)]
  BY DEF ChatInductive
<1>3. new \in Seq(Entry) /\ Numbers(new) \subseteq Numbers(byKey[t]) \cup {e[2]}
  BY <1>2, LastOfAppend
<1> HIDE DEF new
<1>4. byKey' \in [Talks -> Seq(Entry)]
  BY <1>1, <1>2, <1>3
<1>5. ASSUME NEW k \in Talks, NEW n \in Numbers(byKey'[k])
      PROVE  User(n) \in ToSet(exchanged'[k])
  <2>1. CASE k # t
    BY <1>1, <1>2, <2>1, <1>5 DEF ChatInductive, OfTheTalk
  <2>2. CASE k = t
    <3>1. n \in Numbers(byKey[t]) \cup {e[2]}
      BY <1>1, <1>2, <1>3, <1>5, <2>2
    <3> QED
      BY <2>2, <3>1 DEF ChatInductive, OfTheTalk
  <2> QED
    BY <2>1, <2>2
<1> QED
  BY <1>4, <1>5 DEF OfTheTalk, Numbers

LEMMA ListenKeeps ==
    ASSUME ChatInductive, NEW t \in Talks, Listen(t)
    PROVE  ChatInductive'
<1> DEFINE e == User(number')
<1>1. /\ number' \in Nat /\ e \in Entry /\ e[2] = number'
      /\ exchanged \in [Talks -> Seq(Entry)]
      /\ talk' = t /\ pc' = "scheduling"
      /\ exchanged' = [exchanged EXCEPT ![t] = Append(exchanged[t], e)]
      /\ appendHistory(t, e)
  BY DEF Listen, ChatInductive, User, Entry
<1> HIDE DEF e
<1>2. exchanged' \in [Talks -> Seq(Entry)]
  BY <1>1
<1>3. ToSet(exchanged'[t]) = ToSet(exchanged[t]) \cup {e}
  BY <1>1, ToSetAppend
<1>4. \A k \in Talks : ToSet(exchanged[k]) \subseteq ToSet(exchanged'[k])
  BY <1>1, <1>3
<1>5. User(number') \in ToSet(exchanged'[t])
  BY <1>3 DEF e
<1>6. byKey' \in [Talks -> Seq(Entry)] /\ \A k \in Talks : OfTheTalk(k, byKey[k])'
  BY <1>1, <1>2, <1>4, <1>5, AppendKeeps
<1> QED
  BY <1>1, <1>2, <1>5, <1>6 DEF ChatInductive

(* An answer that is recorded belongs to the message that is served.       *)
LEMMA RecordKeeps ==
    ASSUME ChatInductive, pc # "idle", pc' # "asking",
           appendHistory(talk, Assistant(number)), UNCHANGED <<talk, number, exchanged>>
    PROVE  ChatInductive'
<1>1. /\ Assistant(number) \in Entry /\ Assistant(number)[2] = number
      /\ talk \in Talks /\ User(number) \in ToSet(exchanged[talk])
      /\ exchanged \in [Talks -> Seq(Entry)]
  BY DEF ChatInductive, Assistant, Entry
<1>2. byKey' \in [Talks -> Seq(Entry)] /\ \A k \in Talks : OfTheTalk(k, byKey[k])'
  BY <1>1, AppendKeeps
<1> QED
  BY <1>1, <1>2 DEF ChatInductive

LEMMA DeliverKeeps ==
    ASSUME ChatInductive, Deliver
    PROVE  ChatInductive'
<1>1. /\ pc # "idle" /\ pc' # "asking"
      /\ UNCHANGED <<byKey, talk, number>>
  BY DEF Deliver, Handling, Replying, Split, SplitEnd, Send, SendFails, SendEnd
<1>2. /\ talk \in Talks /\ User(number) \in ToSet(exchanged[talk])
      /\ exchanged \in [Talks -> Seq(Entry)]
      /\ Assistant(number) \in Entry
  BY <1>1 DEF ChatInductive, Assistant, Entry
<1>3. exchanged' = exchanged
      \/ exchanged' = [exchanged EXCEPT ![talk] = Append(exchanged[talk], Assistant(number))]
  BY DEF Deliver
<1>4. exchanged' \in [Talks -> Seq(Entry)]
  <2>1. Append(exchanged[talk], Assistant(number)) \in Seq(Entry)
    BY <1>2
  <2> QED
    BY <1>2, <1>3, <2>1
<1>5. \A k \in Talks : ToSet(exchanged[k]) \subseteq ToSet(exchanged'[k])
  <2>1. ToSet(Append(exchanged[talk], Assistant(number)))
            = ToSet(exchanged[talk]) \cup {Assistant(number)}
    BY <1>2, ToSetAppend
  <2> QED
    BY <1>2, <1>3, <2>1
<1>6. \A k \in Talks : OfTheTalk(k, byKey[k])'
  BY <1>1, <1>5 DEF ChatInductive, OfTheTalk, Numbers
<1> QED
  BY <1>1, <1>2, <1>4, <1>5, <1>6 DEF ChatInductive

LEMMA ResetKeeps ==
    ASSUME ChatInductive, NEW t \in Talks, Reset(t)
    PROVE  ChatInductive'
<1>1. /\ byKey' = [byKey EXCEPT ![t] = <<>>]
      /\ exchanged' = [exchanged EXCEPT ![t] = <<>>]
      /\ pc = "idle" /\ UNCHANGED <<pc, number>>
  BY OwnKey DEF Reset, clearHistory, vars
<1>2. byKey' \in [Talks -> Seq(Entry)] /\ exchanged' \in [Talks -> Seq(Entry)]
  BY <1>1 DEF ChatInductive
<1>3. ASSUME NEW k \in Talks, NEW n \in Numbers(byKey'[k])
      PROVE  User(n) \in ToSet(exchanged'[k])
  <2>1. CASE k # t
    BY <1>1, <1>3, <2>1 DEF ChatInductive, OfTheTalk
  <2>2. CASE k = t
    BY <1>1, <1>3, <2>2 DEF ChatInductive, Numbers
  <2> QED
    BY <2>1, <2>2
<1>4. \A k \in Talks : OfTheTalk(k, byKey[k])'
  BY <1>3 DEF OfTheTalk, Numbers
<1> QED
  BY <1>1, <1>2, <1>4 DEF ChatInductive

LEMMA ChatStep == ChatInductive /\ [ChatNext]_chatVars => ChatInductive'
<1> SUFFICES ASSUME ChatInductive, [ChatNext]_chatVars PROVE ChatInductive'
  OBVIOUS
<1>1. ASSUME NEW t \in Talks, Listen(t) PROVE ChatInductive'
  BY <1>1, ListenKeeps
<1>2. ASSUME NEW t \in Talks, Reset(t) PROVE ChatInductive'
  BY <1>2, ResetKeeps
<1>3. CASE Confirm \/ Refuse \/ Record
  <2>1. /\ pc # "idle" /\ pc' # "asking"
        /\ appendHistory(talk, Assistant(number))
        /\ UNCHANGED <<talk, number, exchanged>>
    BY <1>3 DEF Confirm, Refuse, Say, Record, Answer, AskFails, Handling
  <2> QED
    BY <2>1, RecordKeeps
<1>4. CASE Ask
  <2>1. /\ pc = "scheduling" /\ given' = byKey[historyKey(talk)]
        /\ UNCHANGED <<byKey, talk, number, exchanged>>
    BY <1>4 DEF Ask, snapshotHistory
  <2>2. talk \in Talks /\ historyKey(talk) = talk
    BY <2>1, OwnKey DEF ChatInductive
  <2>3. given' \in Seq(Entry) /\ OfTheTalk(talk, given)'
    BY <2>1, <2>2 DEF ChatInductive, OfTheTalk, Numbers
  <2> QED
    BY <2>1, <2>3 DEF ChatInductive, OfTheTalk, Numbers
<1>5. CASE GoOn \/ UNCHANGED chatVars
  <2>1. UNCHANGED <<pc, byKey, talk, number, given, exchanged>>
    BY <1>5 DEF GoOn, Continue, Handling, chatVars, vars
  <2> QED
    BY <2>1 DEF ChatInductive, OfTheTalk, Numbers
<1>6. CASE Deliver
  BY <1>6, DeliverKeeps
<1>7. CASE Return
  <2>1. pc' = "idle" /\ UNCHANGED <<byKey, number, exchanged>>
    BY <1>7 DEF Return, HandlerGone
  <2> QED
    BY <2>1 DEF ChatInductive, OfTheTalk, Numbers
<1>8. CASE Crash
  <2>1. /\ pc' = "idle" /\ number' = number
        /\ byKey' = [k \in Talks |-> <<>>]
        /\ exchanged' = [t \in Talks |-> <<>>]
    BY <1>8 DEF Crash, HandlerGone
  <2> QED
    BY <2>1 DEF ChatInductive, OfTheTalk, Numbers
<1> QED
  BY <1>1, <1>2, <1>3, <1>4, <1>5, <1>6, <1>7, <1>8 DEF ChatNext, Handler

(* The model is given nothing of another user or of another channel, and   *)
(* nothing from before the last /reset or the last start.                  *)
THEOREM ChatKeepsApart == ChatSpec => []KeepsApart
<1>1. ChatInductive => KeepsApart
  BY DEF ChatInductive, KeepsApart, OfTheTalk, Numbers
<1> QED
  BY <1>1, ChatStarts, ChatStep, PTL DEF ChatSpec

(***************************************************************************)
(* What a history recalls of its conversation.                             *)
(***************************************************************************)
EndsWith(t, s) == \E before \in Seq(Entry) : t = before \o s

LEMMA EntriesAssociate ==
    \A a, b, c \in Seq(Entry) : (a \o b) \o c = a \o (b \o c)
<1> TAKE a, b, c \in Seq(Entry)
<1> QED
  BY ONLY a \in Seq(Entry), b \in Seq(Entry), c \in Seq(Entry), ConcatAssociative

LEMMA EndsWithItself == \A s \in Seq(Entry) : EndsWith(s, s)
<1> TAKE s \in Seq(Entry)
<1>1. <<>> \in Seq(Entry) /\ <<>> \o s = s
  BY ConcatEmptySeq
<1> QED
  BY <1>1 DEF EndsWith

LEMMA EndsWithLess ==
    ASSUME NEW t \in Seq(Entry), NEW a \in Seq(Entry), NEW b \in Seq(Entry), EndsWith(t, a \o b)
    PROVE  EndsWith(t, b)
<1>1. PICK before \in Seq(Entry) : t = before \o (a \o b)
  BY DEF EndsWith
<1>2. t = (before \o a) \o b
  BY ONLY <1>1, EntriesAssociate, a \in Seq(Entry), b \in Seq(Entry), Zenon
<1>3. before \o a \in Seq(Entry)
  BY <1>1
<1> QED
  BY <1>2, <1>3 DEF EndsWith

LEMMA EndsWithMore ==
    ASSUME NEW t \in Seq(Entry), NEW s \in Seq(Entry), NEW e \in Entry, EndsWith(t, s)
    PROVE  EndsWith(Append(t, e), Append(s, e))
<1>1. PICK before \in Seq(Entry) : t = before \o s
  BY DEF EndsWith
<1>2. before \o Append(s, e) = Append(before \o s, e)
  BY <1>1, ConcatAppend
<1> QED
  BY <1>1, <1>2 DEF EndsWith

LEMMA EndsWithIsSuffix ==
    ASSUME NEW t \in Seq(Entry), NEW s \in Seq(Entry), EndsWith(t, s)
    PROVE  IsSuffix(s, t)
<1>1. PICK before \in Seq(Entry) : t = before \o s
  BY DEF EndsWith
<1>2. /\ Len(s) \in Nat /\ Len(before) \in Nat /\ Len(t) = Len(before) + Len(s)
      /\ \A i \in 1..Len(s) : t[Len(before) + i] = s[i]
  BY <1>1
<1>3. PICK r, q : r = Reverse(s) /\ q = Reverse(t)
  OBVIOUS
<1>4. r \in Seq(Entry) /\ Len(r) = Len(s) /\ \A i \in 1..Len(s) : r[i] = s[(Len(s) - i) + 1]
  <2>1. r = [i \in 1..Len(s) |-> s[(Len(s) - i) + 1]]
    BY <1>3 DEF Reverse
  <2>2. \A i \in 1..Len(s) : (Len(s) - i) + 1 \in 1..Len(s)
    BY <1>2
  <2> QED
    BY <1>2, <2>1, <2>2
<1>5. q \in Seq(Entry) /\ Len(q) = Len(t) /\ \A i \in 1..Len(t) : q[i] = t[(Len(t) - i) + 1]
  <2>1. q = [i \in 1..Len(t) |-> t[(Len(t) - i) + 1]]
    BY <1>3 DEF Reverse
  <2>2. \A i \in 1..Len(t) : (Len(t) - i) + 1 \in 1..Len(t)
    BY <1>2
  <2> QED
    BY <1>2, <2>1, <2>2
<1>6. ASSUME NEW i \in 1..Len(s) PROVE r[i] = q[i]
  <2>1. /\ i \in 1..Len(t) /\ (Len(s) - i) + 1 \in 1..Len(s)
        /\ (Len(t) - i) + 1 = Len(before) + ((Len(s) - i) + 1)
    BY <1>2
  <2> QED
    BY <1>2, <1>4, <1>5, <2>1
<1>7. SubSeq(r, 1, Len(r)) = SubSeq(q, 1, Len(r))
  <2>1. PICK a, b : a = SubSeq(r, 1, Len(r)) /\ b = SubSeq(q, 1, Len(r))
    OBVIOUS
  <2>2. a \in Seq(Entry) /\ Len(a) = Len(s) /\ \A i \in 1..Len(s) : a[i] = r[i]
    BY <1>2, <1>4, <2>1
  <2>3. b \in Seq(Entry) /\ Len(b) = Len(s) /\ \A i \in 1..Len(s) : b[i] = q[i]
    BY <1>2, <1>4, <1>5, <2>1
  <2>4. a = b
    BY <1>6, <2>2, <2>3, SeqEqual
  <2> QED
    BY <2>1, <2>4
<1>8. Len(r) <= Len(q)
  BY <1>2, <1>4, <1>5
<1>9. IsPrefix(r, q)
  BY <1>7, <1>8 DEF IsPrefix
<1> QED
  BY <1>3, <1>9 DEF IsSuffix

LEMMA OnlySame ==
    ASSUME NEW S, NEW U, NEW s, \A i \in 1..Len(s) : s[i] \in S <=> s[i] \in U
    PROVE  Only(s, S) = Only(s, U)
<1>1. [k \in 1..Len(s) |-> IF s[k] \in S THEN <<s[k]>> ELSE <<>>]
          = [k \in 1..Len(s) |-> IF s[k] \in U THEN <<s[k]>> ELSE <<>>]
  OBVIOUS
<1> QED
  BY <1>1 DEF Only

LEMMA ToSetIs == ASSUME NEW S, NEW s \in Seq(S) PROVE ToSet(s) = {s[i] : i \in 1..Len(s)}
<1>1. DOMAIN s = 1..Len(s)
  OBVIOUS
<1> QED
  BY <1>1 DEF ToSet

LEMMA OnlyWith ==
    ASSUME NEW S, NEW s \in Seq(Entry), NEW e \in Entry, e \in S
    PROVE  Only(Append(s, e), S) = Append(Only(s, S), e)
BY OnlyAppend

(* A set that has one element more, which is not in the sequence.          *)
LEMMA OnlyWithout ==
    ASSUME NEW S, NEW s \in Seq(Entry), NEW e, e \notin ToSet(s)
    PROVE  Only(s, S \cup {e}) = Only(s, S)
<1>1. \A i \in 1..Len(s) : s[i] \in S \cup {e} <=> s[i] \in S
  BY ToSetIs
<1> QED
  BY <1>1, OnlySame

(***************************************************************************)
(* h recalls what was exchanged: what it holds of x is the end of x, and   *)
(* all of it unless h is full.                                             *)
(***************************************************************************)
Recalls(h, x) ==
    LET read == Only(h, ToSet(x)) IN
    /\ EndsWith(x, read)
    /\ Len(h) <= HistoryLimit
    /\ Len(h) = HistoryLimit \/ read = x

(* A history that is one entry too long, without its first entry.          *)
LEMMA RecallsTheEnd ==
    ASSUME NEW h \in Seq(Entry), NEW x \in Seq(Entry),
           EndsWith(x, Only(h, ToSet(x))), Len(h) <= HistoryLimit + 1,
           Len(h) >= HistoryLimit \/ Only(h, ToSet(x)) = x
    PROVE  LastOf(h, HistoryLimit) \in Seq(Entry) /\ Recalls(LastOf(h, HistoryLimit), x)
<1>1. Len(h) \in Nat /\ HistoryLimit \in Nat \ {0}
  BY ChatAssumption
<1>2. CASE Len(h) <= HistoryLimit
  <2>1. LastOf(h, HistoryLimit) = h
    BY <1>2 DEF LastOf
  <2>2. Len(h) = HistoryLimit \/ Only(h, ToSet(x)) = x
    BY <1>1, <1>2
  <2> QED
    BY <1>2, <2>1, <2>2 DEF Recalls
<1>3. CASE ~(Len(h) <= HistoryLimit)
  <2>1. Len(h) = HistoryLimit + 1 /\ h # <<>>
    BY <1>1, <1>3
  <2>2. PICK rest : rest = Tail(h)
    OBVIOUS
  <2>3. PICK first : first = <<Head(h)>>
    OBVIOUS
  <2>4. /\ rest \in Seq(Entry) /\ first \in Seq(Entry) /\ Len(rest) = HistoryLimit
    BY <1>1, <2>1, <2>2, <2>3
  <2>5. h = first \o rest
    BY <2>1, <2>2, <2>3
  <2>6. LastOf(h, HistoryLimit) = rest
    <3>1. LastOf(h, HistoryLimit) = SubSeq(h, 2, Len(h))
      <4>1. Len(h) - HistoryLimit + 1 = 2
        BY <1>1, <2>1
      <4> QED
        BY <1>3, <4>1 DEF LastOf
    <3> QED
      BY <2>1, <2>2, <3>1, TailIsSubSeq
  <2>7. PICK a, b : a = Only(first, ToSet(x)) /\ b = Only(rest, ToSet(x))
    OBVIOUS
  <2>8. a \in Seq(Entry) /\ b \in Seq(Entry)
    BY <2>4, <2>7, OnlyType
  <2>9. Only(h, ToSet(x)) = a \o b
    BY ONLY <2>4, <2>5, <2>7, OnlyConcat
  <2>10. EndsWith(x, b)
    BY <2>8, <2>9, EndsWithLess
  <2> QED
    BY <1>1, <2>4, <2>6, <2>7, <2>10 DEF Recalls
<1> QED
  BY <1>2, <1>3

(* An entry is recorded that was not exchanged.                            *)
LEMMA RecallsUnread ==
    ASSUME NEW h \in Seq(Entry), NEW x \in Seq(Entry), NEW e \in Entry,
           Recalls(h, x), e \notin ToSet(x)
    PROVE  Recalls(LastOf(Append(h, e), HistoryLimit), x)
<1>1. PICK a : a = Append(h, e)
  OBVIOUS
<1>2. a \in Seq(Entry) /\ Len(a) = Len(h) + 1 /\ Len(h) \in Nat /\ HistoryLimit \in Nat
  BY <1>1, ChatAssumption
<1>3. Only(a, ToSet(x)) = Only(h, ToSet(x))
  BY <1>1, OnlyAppend
<1>4. /\ EndsWith(x, Only(a, ToSet(x))) /\ Len(a) <= HistoryLimit + 1
      /\ Len(a) >= HistoryLimit \/ Only(a, ToSet(x)) = x
  BY <1>2, <1>3 DEF Recalls
<1> QED
  BY <1>1, <1>2, <1>4, RecallsTheEnd

(* An entry is recorded and exchanged at once.                             *)
LEMMA RecallsWritten ==
    ASSUME NEW h \in Seq(Entry), NEW x \in Seq(Entry), NEW e \in Entry,
           Recalls(h, x), e \notin ToSet(h)
    PROVE  Recalls(LastOf(Append(h, e), HistoryLimit), Append(x, e))
<1>1. PICK a, y : a = Append(h, e) /\ y = Append(x, e)
  OBVIOUS
<1>2. /\ a \in Seq(Entry) /\ y \in Seq(Entry)
      /\ Len(a) = Len(h) + 1 /\ Len(h) \in Nat /\ HistoryLimit \in Nat
  BY <1>1, ChatAssumption
<1>3. ToSet(y) = ToSet(x) \cup {e}
  BY <1>1, ToSetAppend
<1>4. PICK r : r = Only(h, ToSet(x))
  OBVIOUS
<1>5. r \in Seq(Entry) /\ EndsWith(x, r)
  BY <1>4, OnlyType DEF Recalls
<1>6. Only(a, ToSet(y)) = Append(r, e)
  <2>1. Only(a, ToSet(y)) = Append(Only(h, ToSet(y)), e)
    <3>1. PICK z : z = ToSet(y)
      OBVIOUS
    <3>2. e \in z
      BY <1>3, <3>1
    <3>3. Only(a, z) = Append(Only(h, z), e)
      BY ONLY h \in Seq(Entry), e \in Entry, <1>1, <3>2, OnlyWith
    <3> QED
      BY <3>1, <3>3
  <2>2. Only(h, ToSet(x) \cup {e}) = Only(h, ToSet(x))
    BY ONLY h \in Seq(Entry), e \notin ToSet(h), OnlyWithout
  <2> QED
    BY ONLY <1>3, <1>4, <2>1, <2>2
<1>7. EndsWith(y, Append(r, e))
  BY <1>1, <1>5, EndsWithMore
<1>8. Len(a) <= HistoryLimit + 1 /\ (Len(a) >= HistoryLimit \/ Only(a, ToSet(y)) = y)
  BY <1>1, <1>2, <1>4, <1>6 DEF Recalls
<1> QED
  BY <1>1, <1>2, <1>6, <1>7, <1>8, RecallsTheEnd

(* What was recorded last is exchanged.                                    *)
LEMMA RecallsRead ==
    ASSUME NEW g \in Seq(Entry), NEW x \in Seq(Entry), NEW e \in Entry,
           Recalls(Append(g, e), x), e \notin ToSet(g), e \notin ToSet(x)
    PROVE  Recalls(Append(g, e), Append(x, e))
<1>1. PICK h, y : h = Append(g, e) /\ y = Append(x, e)
  OBVIOUS
<1>2. h \in Seq(Entry) /\ y \in Seq(Entry)
  BY <1>1
<1>3. ToSet(y) = ToSet(x) \cup {e}
  BY <1>1, ToSetAppend
<1>4. PICK r : r = Only(g, ToSet(x))
  OBVIOUS
<1>5. r \in Seq(Entry) /\ Only(h, ToSet(x)) = r
  BY <1>1, <1>4, OnlyType, OnlyAppend
<1>6. Only(h, ToSet(y)) = Append(r, e)
  <2>1. Only(h, ToSet(y)) = Append(Only(g, ToSet(y)), e)
    <3>1. PICK z : z = ToSet(y)
      OBVIOUS
    <3>2. e \in z
      BY <1>3, <3>1
    <3>3. Only(h, z) = Append(Only(g, z), e)
      BY ONLY g \in Seq(Entry), e \in Entry, <1>1, <3>2, OnlyWith
    <3> QED
      BY <3>1, <3>3
  <2>2. Only(g, ToSet(x) \cup {e}) = Only(g, ToSet(x))
    BY ONLY g \in Seq(Entry), e \notin ToSet(g), OnlyWithout
  <2> QED
    BY ONLY <1>3, <1>4, <2>1, <2>2
<1>7. EndsWith(y, Append(r, e))
  BY <1>1, <1>5, EndsWithMore DEF Recalls
<1> QED
  BY <1>1, <1>5, <1>6, <1>7 DEF Recalls

(***************************************************************************)
(* Every history recalls its conversation.  The number of a message that   *)
(* is answered is not that of an earlier answer; the answer is the last    *)
(* entry of the history from when it is recorded, and is exchanged when a  *)
(* part of it is posted.                                                   *)
(***************************************************************************)
Earlier == \A t \in Talks : \A e \in ToSet(byKey[t]) \cup ToSet(exchanged[t]) : e[2] <= number

Unanswered ==
    pc \in {"scheduling", "asking"} =>
        Assistant(number) \notin ToSet(byKey[talk]) \cup ToSet(exchanged[talk])

Recorded ==
    pc \in {"splitting", "sending", "done"} =>
        /\ \E before \in Seq(Entry) : /\ byKey[talk] = Append(before, Assistant(number))
                                     /\ Assistant(number) \notin ToSet(before)
        /\ posted = <<>> => Assistant(number) \notin ToSet(exchanged[talk])

RecallInductive ==
    /\ \A t \in Talks : Recalls(byKey[t], exchanged[t])
    /\ Earlier /\ Unanswered /\ Recorded
    /\ pc = "asking" => given = byKey[talk]

LEMMA NothingToRecall == Recalls(<<>>, <<>>) /\ ToSet(<<>>) = {}
<1>1. Only(<<>>, ToSet(<<>>)) = <<>> /\ <<>> \in Seq(Entry)
  BY OnlyEmpty
<1>2. EndsWith(<<>>, <<>>)
  BY <1>1, EndsWithItself
<1> QED
  BY <1>1, <1>2, ChatAssumption DEF Recalls, ToSet

LEMMA RecallStarts == ChatInit => RecallInductive
<1> SUFFICES ASSUME ChatInit PROVE RecallInductive
  OBVIOUS
<1>1. pc = "idle" /\ \A t \in Talks : byKey[t] = <<>> /\ exchanged[t] = <<>>
  BY DEF ChatInit
<1> QED
  BY <1>1, NothingToRecall DEF RecallInductive, Earlier, Unanswered, Recorded

LEMMA LastOfType ==
    ASSUME NEW S, NEW s \in Seq(S), NEW n \in Nat
    PROVE  LastOf(s, n) \in Seq(S) /\ ToSet(LastOf(s, n)) \subseteq ToSet(s)
<1>1. CASE Len(s) <= n
  BY <1>1 DEF LastOf
<1>2. CASE ~(Len(s) <= n)
  <2>1. PICK l : l = SubSeq(s, Len(s) - n + 1, Len(s))
    OBVIOUS
  <2>2. Len(s) \in Nat /\ Len(s) - n + 1 \in 1..Len(s) + 1
    BY <1>2
  <2>3. /\ l \in Seq(S) /\ Len(l) = n
        /\ \A i \in 1..n : l[i] = s[Len(s) - n + i] /\ Len(s) - n + i \in 1..Len(s)
    <3>1. \A i \in Len(s) - n + 1..Len(s) : s[i] \in S
      BY <2>2
    <3>2. /\ l \in Seq(S)
          /\ Len(l) = Len(s) - (Len(s) - n + 1) + 1
          /\ \A i \in 1..(Len(s) - (Len(s) - n + 1) + 1) : l[i] = s[Len(s) - n + 1 + i - 1]
      BY <2>1, <2>2, <3>1, SubSeqProperties
    <3> QED
      BY <1>2, <2>2, <3>2
  <2>4. ASSUME NEW x \in ToSet(l) PROVE x \in ToSet(s)
    <3>1. PICK i \in 1..n : x = l[i]
      BY <2>3, <2>4, ToSetIs
    <3> QED
      BY <2>3, <3>1, ToSetIs
  <2> QED
    BY <1>2, <2>1, <2>3, <2>4 DEF LastOf
<1> QED
  BY <1>1, <1>2

(* What appendHistory has appended is the last entry.                      *)
LEMMA LastOfIsLast ==
    ASSUME NEW s \in Seq(Entry), NEW e \in Entry, NEW n \in Nat \ {0}, e \notin ToSet(s)
    PROVE  \E before \in Seq(Entry) : LastOf(Append(s, e), n) = Append(before, e)
                                      /\ e \notin ToSet(before)
<1>1. PICK a, l : a = Append(s, e) /\ l = LastOf(a, n)
  OBVIOUS
<1>2. /\ a \in Seq(Entry) /\ Len(a) = Len(s) + 1 /\ Len(s) \in Nat
      /\ \A i \in 1..Len(s) : a[i] = s[i]
      /\ a[Len(s) + 1] = e
  BY <1>1
<1>3. CASE Len(a) <= n
  BY <1>1, <1>3 DEF LastOf
<1>4. CASE ~(Len(a) <= n)
  <2>1. l = SubSeq(a, Len(a) - n + 1, Len(a))
    BY <1>1, <1>4 DEF LastOf
  <2>2. Len(a) - n + 1 \in 1..Len(a) /\ Len(a) \in Len(a) - n + 1..Len(a)
    BY <1>2, <1>4
  <2>3. PICK before : before = SubSeq(a, Len(a) - n + 1, Len(a) - 1)
    OBVIOUS
  <2>4. l = before \o <<a[Len(a)]>>
    BY ONLY <1>2, <2>1, <2>2, <2>3, SubSeqRecursiveSecond
  <2>5. /\ before \in Seq(Entry) /\ Len(before) = n - 1
        /\ \A i \in 1..(n - 1) : before[i] = a[Len(a) - n + i] /\ Len(a) - n + i \in 1..Len(s)
    <3>1. /\ \A i \in Len(a) - n + 1..Len(a) - 1 : a[i] \in Entry
          /\ Len(a) - n + 1 \in Nat /\ Len(a) - 1 \in Nat
      BY <1>2, <1>4, <2>2
    <3>2. /\ before \in Seq(Entry)
          /\ Len(before) = IF Len(a) - n + 1 <= Len(a) - 1
                           THEN (Len(a) - 1) - (Len(a) - n + 1) + 1 ELSE 0
          /\ \A i \in 1..((Len(a) - 1) - (Len(a) - n + 1) + 1) :
                 before[i] = a[Len(a) - n + 1 + i - 1]
      BY <2>3, <3>1, SubSeqProperties
    <3> QED
      BY <1>2, <1>4, <3>2
  <2>6. e \notin ToSet(before)
    <3>1. SUFFICES ASSUME e \in ToSet(before) PROVE FALSE
      OBVIOUS
    <3>2. ToSet(before) = {before[i] : i \in 1..Len(before)}
      BY <2>5, ToSetIs
    <3>3. PICK i \in 1..(n - 1) : e = before[i]
      BY <2>5, <3>1, <3>2
    <3>4. e = s[Len(a) - n + i] /\ Len(a) - n + i \in 1..Len(s)
      BY <1>2, <2>5, <3>3
    <3> QED
      BY <3>4, ToSetIs
  <2>7. l = Append(before, e)
    BY <1>2, <2>4, <2>5, AppendIsConcat
  <2> QED
    BY <1>1, <2>5, <2>6, <2>7
<1> QED
  BY <1>3, <1>4

LEMMA UserIsNotAssistant == \A m, n : User(m) # Assistant(n)
BY DEF User, Assistant

(* An entry is recorded in the history of t.                               *)
LEMMA RecordedIn ==
    ASSUME ChatInductive, Earlier, NEW t \in Talks, NEW e \in Entry, appendHistory(t, e),
           NEW n \in Nat, number <= n, e[2] <= n
    PROVE  /\ byKey'[t] = LastOf(Append(byKey[t], e), HistoryLimit)
           /\ \A k \in Talks : k # t => byKey'[k] = byKey[k]
           /\ ToSet(byKey'[t]) \subseteq ToSet(byKey[t]) \cup {e}
           /\ \A k \in Talks : \A x \in ToSet(byKey'[k]) : x[2] <= n
<1>1. byKey \in [Talks -> Seq(Entry)] /\ number \in Nat /\ HistoryLimit \in Nat
  BY ChatAssumption DEF ChatInductive
<1>2. PICK a : a = Append(byKey[t], e)
  OBVIOUS
<1>3. a \in Seq(Entry) /\ ToSet(a) = ToSet(byKey[t]) \cup {e}
  BY <1>1, <1>2, ToSetAppend
<1>4. /\ byKey'[t] = LastOf(a, HistoryLimit)
      /\ \A k \in Talks : k # t => byKey'[k] = byKey[k]
  BY <1>1, <1>2, OwnKey DEF appendHistory
<1>5. ToSet(byKey'[t]) \subseteq ToSet(byKey[t]) \cup {e}
  BY <1>1, <1>3, <1>4, LastOfType
<1>6. ASSUME NEW k \in Talks, NEW x \in ToSet(byKey'[k]) PROVE x[2] <= n
  <2>1. x \in ToSet(byKey[k]) \/ x = e
    BY <1>4, <1>5, <1>6
  <2>2. ASSUME x \in ToSet(byKey[k]) PROVE x[2] <= n
    <3>1. x[2] \in Nat
      <4>1. x \in Entry
        BY <1>1, <2>2, ToSetIs
      <4> QED
        BY <4>1 DEF Entry
    <3> QED
      BY <1>1, <2>2, <3>1 DEF Earlier
  <2> QED
    BY <2>1, <2>2
<1> QED
  BY <1>2, <1>4, <1>5, <1>6

LEMMA ListenRecalls ==
    ASSUME ChatInductive, RecallInductive, NEW t \in Talks, Listen(t)
    PROVE  RecallInductive'
<1>1. PICK e : e = User(number')
  OBVIOUS
<1>2. /\ number \in Nat /\ number' = number + 1 /\ e \in Entry /\ e[2] = number'
      /\ byKey \in [Talks -> Seq(Entry)] /\ exchanged \in [Talks -> Seq(Entry)]
      /\ talk' = t /\ pc' = "scheduling"
      /\ exchanged' = [exchanged EXCEPT ![t] = Append(exchanged[t], e)]
      /\ appendHistory(t, e)
  BY <1>1 DEF Listen, ChatInductive, User, Entry
<1>3. Earlier
  BY DEF RecallInductive
<1>4. /\ byKey'[t] = LastOf(Append(byKey[t], e), HistoryLimit)
      /\ \A k \in Talks : k # t => byKey'[k] = byKey[k]
      /\ ToSet(byKey'[t]) \subseteq ToSet(byKey[t]) \cup {e}
      /\ \A k \in Talks : \A x \in ToSet(byKey'[k]) : x[2] <= number'
  <2>1. number' \in Nat /\ number <= number' /\ e[2] <= number'
    BY <1>2
  <2> QED
    BY <1>2, <1>3, <2>1, RecordedIn
<1>5. /\ exchanged'[t] = Append(exchanged[t], e)
      /\ \A k \in Talks : k # t => exchanged'[k] = exchanged[k]
      /\ ToSet(exchanged'[t]) = ToSet(exchanged[t]) \cup {e}
  BY <1>2, ToSetAppend
<1>6. \A k \in Talks : \A x \in ToSet(byKey[k]) \cup ToSet(exchanged[k]) :
          x[2] \in Nat /\ x[2] <= number
  <2> TAKE k \in Talks
  <2> TAKE x \in ToSet(byKey[k]) \cup ToSet(exchanged[k])
  <2>1. x \in Entry
    <3>1. byKey[k] \in Seq(Entry) /\ exchanged[k] \in Seq(Entry)
      BY <1>2
    <3>2. /\ ToSet(byKey[k]) = {byKey[k][i] : i \in 1..Len(byKey[k])}
          /\ ToSet(exchanged[k]) = {exchanged[k][i] : i \in 1..Len(exchanged[k])}
      BY <3>1, ToSetIs
    <3> QED
      BY <3>1, <3>2
  <2> QED
    BY <1>3, <2>1 DEF Earlier, Entry
<1>7. Earlier'
  <2>1. ASSUME NEW k \in Talks, NEW x \in ToSet(exchanged'[k]) PROVE x[2] <= number'
    <3>1. x \in ToSet(exchanged[k]) \/ x = e
      BY <1>5, <2>1
    <3> QED
      BY <1>2, <1>6, <3>1
  <2> QED
    BY <1>4, <2>1 DEF Earlier
<1>8. /\ e \notin ToSet(byKey[t])
      /\ Assistant(number') \notin ToSet(byKey[t]) \cup ToSet(exchanged[t])
  <2>1. Assistant(number')[2] = number' /\ ~(number' <= number)
    BY <1>2 DEF Assistant
  <2> QED
    BY <1>2, <1>6, <2>1
<1>9. Unanswered'
  <2>1. Assistant(number') \notin ToSet(byKey[t]) \cup ToSet(exchanged[t]) /\ Assistant(number') # e
    BY <1>1, <1>8, UserIsNotAssistant
  <2> QED
    BY <1>2, <1>4, <1>5, <2>1 DEF Unanswered
<1>10. ASSUME NEW k \in Talks PROVE Recalls(byKey'[k], exchanged'[k])
  <2>1. Recalls(byKey[k], exchanged[k])
    BY DEF RecallInductive
  <2>2. CASE k = t
    <3>1. e \notin ToSet(byKey[t])
      BY <1>8
    <3>2. byKey[t] \in Seq(Entry) /\ exchanged[t] \in Seq(Entry) /\ Recalls(byKey[t], exchanged[t])
      BY <1>2, <2>1, <2>2
    <3>3. Recalls(LastOf(Append(byKey[t], e), HistoryLimit), Append(exchanged[t], e))
      BY ONLY <1>2, <3>1, <3>2, RecallsWritten
    <3> QED
      BY <1>4, <1>5, <2>2, <3>3
  <2>3. CASE k # t
    BY <1>4, <1>5, <2>1, <2>3
  <2> QED
    BY <2>2, <2>3
<1> QED
  BY <1>2, <1>7, <1>9, <1>10 DEF RecallInductive, Recorded

LEMMA RecordRecalls ==
    ASSUME ChatInductive, RecallInductive, pc \in {"scheduling", "asking"}, pc' = "splitting",
           appendHistory(talk, Assistant(number)), UNCHANGED <<talk, number, exchanged>>
    PROVE  RecallInductive'
<1>1. PICK e : e = Assistant(number)
  OBVIOUS
<1>2. /\ number \in Nat /\ e \in Entry /\ e[2] = number /\ talk \in Talks
      /\ byKey \in [Talks -> Seq(Entry)] /\ exchanged \in [Talks -> Seq(Entry)]
      /\ appendHistory(talk, e)
  BY <1>1 DEF ChatInductive, Assistant, Entry
<1>3. Earlier /\ e \notin ToSet(byKey[talk]) /\ e \notin ToSet(exchanged[talk])
  BY <1>1 DEF RecallInductive, Unanswered
<1>4. /\ byKey'[talk] = LastOf(Append(byKey[talk], e), HistoryLimit)
      /\ \A k \in Talks : k # talk => byKey'[k] = byKey[k]
      /\ \A k \in Talks : \A x \in ToSet(byKey'[k]) : x[2] <= number
  <2>1. number <= number /\ e[2] <= number
    BY <1>2
  <2> QED
    BY <1>2, <1>3, <2>1, RecordedIn
<1>5. Earlier'
  BY <1>3, <1>4 DEF Earlier
<1>6. Recorded'
  <2>1. HistoryLimit \in Nat \ {0} /\ byKey[talk] \in Seq(Entry)
    BY <1>2, ChatAssumption
  <2>2. PICK before \in Seq(Entry) :
            /\ LastOf(Append(byKey[talk], e), HistoryLimit) = Append(before, e)
            /\ e \notin ToSet(before)
    BY ONLY <1>2, <1>3, <2>1, LastOfIsLast
  <2> QED
    BY <1>1, <1>3, <1>4, <2>2 DEF Recorded
<1>7. ASSUME NEW k \in Talks PROVE Recalls(byKey'[k], exchanged'[k])
  <2>1. Recalls(byKey[k], exchanged[k])
    BY DEF RecallInductive
  <2>2. CASE k = talk
    <3>1. byKey[talk] \in Seq(Entry) /\ exchanged[talk] \in Seq(Entry)
          /\ Recalls(byKey[talk], exchanged[talk])
      BY <1>2, <2>1, <2>2
    <3>2. Recalls(LastOf(Append(byKey[talk], e), HistoryLimit), exchanged[talk])
      BY ONLY <1>2, <1>3, <3>1, RecallsUnread
    <3> QED
      BY <1>4, <2>2, <3>2
  <2>3. CASE k # talk
    BY <1>4, <2>1, <2>3
  <2> QED
    BY <2>2, <2>3
<1> QED
  BY <1>5, <1>6, <1>7 DEF RecallInductive, Unanswered

LEMMA DeliverRecalls ==
    ASSUME ChatInductive, RecallInductive, ReplyTyped, Deliver
    PROVE  RecallInductive'
<1>1. PICK e : e = Assistant(number)
  OBVIOUS
<1>2. /\ number \in Nat /\ e \in Entry /\ e[2] = number /\ talk \in Talks
      /\ byKey \in [Talks -> Seq(Entry)] /\ exchanged \in [Talks -> Seq(Entry)]
      /\ UNCHANGED <<byKey, talk, number, given>>
      /\ pc \in {"splitting", "sending"} /\ pc' \in {"splitting", "sending", "done"}
      /\ pc' # "asking"
  BY <1>1 DEF ChatInductive, Assistant, Entry, Deliver, Handling, Replying,
              Split, SplitEnd, Send, SendFails, SendEnd
<1>3. Earlier
  BY DEF RecallInductive
<1>4. PICK before \in Seq(Entry) : byKey[talk] = Append(before, e) /\ e \notin ToSet(before)
  BY <1>1, <1>2 DEF RecallInductive, Recorded
<1>5. Unanswered'
  BY <1>2 DEF Unanswered
<1>6. CASE posted = <<>> /\ posted' # <<>>
  <2>1. exchanged' = [exchanged EXCEPT ![talk] = Append(exchanged[talk], e)]
    BY <1>1, <1>6 DEF Deliver
  <2>2. e \notin ToSet(exchanged[talk])
    BY <1>1, <1>2, <1>6 DEF RecallInductive, Recorded
  <2>3. /\ exchanged'[talk] = Append(exchanged[talk], e)
        /\ \A k \in Talks : k # talk => exchanged'[k] = exchanged[k]
        /\ ToSet(exchanged'[talk]) = ToSet(exchanged[talk]) \cup {e}
    BY <1>2, <2>1, ToSetAppend
  <2>4. Earlier'
    <3>1. ASSUME NEW k \in Talks, NEW x \in ToSet(exchanged'[k]) PROVE x[2] <= number
      <4>1. x \in ToSet(exchanged[k]) \/ x = e
        BY <2>3, <3>1
      <4> QED
        BY <1>2, <1>3, <4>1 DEF Earlier
    <3> QED
      BY <1>2, <1>3, <3>1 DEF Earlier
  <2>5. Recorded'
    BY <1>1, <1>2, <1>4, <1>6 DEF Recorded
  <2>6. ASSUME NEW k \in Talks PROVE Recalls(byKey'[k], exchanged'[k])
    <3>1. Recalls(byKey[k], exchanged[k])
      BY DEF RecallInductive
    <3>2. CASE k = talk
      <4>1. exchanged[talk] \in Seq(Entry) /\ Recalls(Append(before, e), exchanged[talk])
        BY <1>2, <1>4, <3>1, <3>2
      <4>2. Recalls(Append(before, e), Append(exchanged[talk], e))
        BY ONLY <1>2, <1>4, <2>2, <4>1, RecallsRead
      <4> QED
        BY <1>2, <1>4, <2>3, <3>2, <4>2
    <3>3. CASE k # talk
      BY <1>2, <2>3, <3>1, <3>3
    <3> QED
      BY <3>2, <3>3
  <2> QED
    BY <1>2, <1>5, <2>4, <2>5, <2>6 DEF RecallInductive
<1>7. CASE ~(posted = <<>> /\ posted' # <<>>)
  <2>1. exchanged' = exchanged
    BY <1>7 DEF Deliver
  <2>2. posted' = <<>> => posted = <<>>
    <3>1. posted' = posted \/ posted' = Append(posted, Head(queue))
      BY DEF Deliver, Replying, Split, SplitEnd, Send, SendFails, SendEnd
    <3>2. posted \in Seq(Text) => Append(posted, Head(queue)) # <<>>
      OBVIOUS
    <3> QED
      BY <3>1, <3>2 DEF ReplyTyped
  <2>3. Recorded'
    BY <1>1, <1>2, <1>4, <2>1, <2>2 DEF RecallInductive, Recorded
  <2> QED
    BY <1>2, <1>5, <2>1, <2>3 DEF RecallInductive, Earlier
<1> QED
  BY <1>6, <1>7

LEMMA ResetRecalls ==
    ASSUME ChatInductive, RecallInductive, NEW t \in Talks, Reset(t)
    PROVE  RecallInductive'
<1>1. /\ byKey' = [byKey EXCEPT ![t] = <<>>]
      /\ exchanged' = [exchanged EXCEPT ![t] = <<>>]
      /\ pc' = "idle" /\ number' = number
  BY OwnKey DEF Reset, clearHistory, vars
<1>2. \A k \in Talks : \/ byKey'[k] = byKey[k] /\ exchanged'[k] = exchanged[k]
                       \/ byKey'[k] = <<>> /\ exchanged'[k] = <<>>
  BY <1>1 DEF ChatInductive
<1>3. \A k \in Talks : Recalls(byKey'[k], exchanged'[k])
  BY <1>2, NothingToRecall DEF RecallInductive
<1>4. Earlier'
  BY <1>1, <1>2, NothingToRecall DEF RecallInductive, Earlier
<1> QED
  BY <1>1, <1>3, <1>4 DEF RecallInductive, Unanswered, Recorded

LEMMA RecallStep ==
    ChatInductive /\ ReplyInductive /\ RecallInductive /\ [ChatNext]_chatVars => RecallInductive'
<1> SUFFICES ASSUME ChatInductive, ReplyInductive, RecallInductive, [ChatNext]_chatVars
             PROVE  RecallInductive'
  OBVIOUS
<1>1. ASSUME NEW t \in Talks, Listen(t) PROVE RecallInductive'
  BY <1>1, ListenRecalls
<1>2. ASSUME NEW t \in Talks, Reset(t) PROVE RecallInductive'
  BY <1>2, ResetRecalls
<1>3. CASE Confirm \/ Refuse \/ Record
  <2>1. /\ pc \in {"scheduling", "asking"} /\ pc' = "splitting"
        /\ appendHistory(talk, Assistant(number))
        /\ UNCHANGED <<talk, number, exchanged>>
    BY <1>3 DEF Confirm, Refuse, Say, Record, Answer, AskFails, Handling
  <2> QED
    BY <2>1, RecordRecalls
<1>4. CASE Ask
  <2>1. /\ pc = "scheduling" /\ pc' = "asking" /\ given' = byKey[historyKey(talk)]
        /\ UNCHANGED <<byKey, talk, number, exchanged, posted>>
    BY <1>4 DEF Ask, snapshotHistory
  <2>2. historyKey(talk) = talk
    BY <2>1, OwnKey DEF ChatInductive
  <2> QED
    BY <2>1, <2>2 DEF RecallInductive, Earlier, Unanswered, Recorded
<1>5. CASE GoOn \/ UNCHANGED chatVars
  <2>1. UNCHANGED <<pc, byKey, talk, number, given, exchanged, posted>>
    BY <1>5 DEF GoOn, Continue, Handling, chatVars, vars
  <2> QED
    BY <2>1 DEF RecallInductive, Earlier, Unanswered, Recorded
<1>6. CASE Deliver
  BY <1>6, DeliverRecalls DEF ReplyInductive
<1>7. CASE Return
  <2>1. pc' = "idle" /\ UNCHANGED <<byKey, number, exchanged>>
    BY <1>7 DEF Return, HandlerGone
  <2> QED
    BY <2>1 DEF RecallInductive, Earlier, Unanswered, Recorded
<1>8. CASE Crash
  <2>1. pc' = "idle" /\ number' = number
    BY <1>8 DEF Crash, HandlerGone
  <2>2. \A k \in Talks : byKey'[k] = <<>> /\ exchanged'[k] = <<>>
    BY <1>8 DEF Crash
  <2> QED
    BY <2>1, <2>2, NothingToRecall DEF RecallInductive, Earlier, Unanswered, Recorded
<1> QED
  BY <1>1, <1>2, <1>3, <1>4, <1>5, <1>6, <1>7, <1>8 DEF ChatNext, Handler

(* The model is given the conversation since its last /reset, or as much   *)
(* of its end as a history holds, and in its order; answers that nobody    *)
(* has read may come in between.                                           *)
THEOREM ChatRemembers == ChatSpec => []Remembers
<1>1. ASSUME ChatInductive, RecallInductive PROVE Remembers
  <2> SUFFICES ASSUME pc = "asking"
               PROVE  LET read == Only(given, ToSet(exchanged[talk]))
                      IN  /\ IsSuffix(read, exchanged[talk])
                          /\ Len(given) = HistoryLimit \/ read = exchanged[talk]
    BY DEF Remembers
  <2>1. PICK h, x : h = byKey[talk] /\ x = exchanged[talk]
    OBVIOUS
  <2>2. h \in Seq(Entry) /\ x \in Seq(Entry) /\ Recalls(h, x) /\ given = h
    BY <1>1, <2>1 DEF ChatInductive, RecallInductive
  <2>3. Only(h, ToSet(x)) \in Seq(Entry) /\ EndsWith(x, Only(h, ToSet(x)))
    BY <2>2, OnlyType DEF Recalls
  <2>4. IsSuffix(Only(h, ToSet(x)), x)
    BY <2>2, <2>3, EndsWithIsSuffix
  <2> QED
    BY <2>1, <2>2, <2>4 DEF Recalls
<1>2. ChatSpec => [](ChatInductive /\ ReplyInductive /\ RecallInductive)
  BY ChatStarts, ChatStep, ReplyStarts, ReplyStep, RecallStarts, RecallStep, PTL DEF ChatSpec
<1> QED
  BY <1>1, <1>2, PTL

(***************************************************************************)
(* Types.                                                                  *)
(***************************************************************************)
ChatTyped == TypeOK /\ (pc # "idle" => talk \in Talks /\ number > 0)

(* What a history is given to append has its type.                         *)
LEMMA AppendHasType ==
    ASSUME NEW S, byKey \in [Talks -> Seq(S)], NEW t \in Talks, NEW e \in S, appendHistory(t, e)
    PROVE  byKey' \in [Talks -> Seq(S)]
<1>1. PICK a : a = Append(byKey[t], e)
  OBVIOUS
<1>2. a \in Seq(S)
  BY <1>1
<1>3. LastOf(a, HistoryLimit) \in Seq(S)
  BY <1>2, LastOfType
<1>4. byKey' = [byKey EXCEPT ![t] = LastOf(a, HistoryLimit)]
  BY <1>1, OwnKey DEF appendHistory
<1> QED
  BY <1>3, <1>4

(* The variables of the chat have their types.                             *)
THEOREM ChatTypeCorrect == ChatSpec => []TypeOK
<1> DEFINE S == {"user", "assistant"} \X (1..MaxMessages)
<1>1. ChatInit => ChatTyped
  BY ChatAssumption DEF ChatInit, ChatTyped, TypeOK
<1>2. ASSUME ChatTyped, [ChatNext]_chatVars PROVE ChatTyped'
  <2>1. MaxMessages \in Nat /\ number \in 0..MaxMessages /\ byKey \in [Talks -> Seq(S)]
    BY <1>2, ChatAssumption DEF ChatTyped, TypeOK
  <2>2. ASSUME NEW t \in Talks, Listen(t) PROVE ChatTyped'
    <3>1. /\ number' = number + 1 /\ number < MaxMessages
          /\ talk' = t /\ pc' = "scheduling" /\ cooldown' = cooldown
          /\ appendHistory(t, User(number'))
      BY <2>2 DEF Listen
    <3>2. number' \in 1..MaxMessages /\ User(number') \in S
      BY <2>1, <3>1 DEF User
    <3>3. byKey' \in [Talks -> Seq(S)]
      BY <2>1, <3>1, <3>2, AppendHasType
    <3> QED
      BY <1>2, <3>1, <3>2, <3>3 DEF ChatTyped, TypeOK
  <2>3. ASSUME NEW t \in Talks, Reset(t) PROVE ChatTyped'
    <3>1. byKey' = [byKey EXCEPT ![t] = <<>>] /\ UNCHANGED <<pc, talk, number, cooldown>>
      BY <2>3, OwnKey DEF Reset, clearHistory, vars
    <3>2. byKey' \in [Talks -> Seq(S)]
      BY <2>1, <3>1
    <3> QED
      BY <1>2, <3>1, <3>2 DEF ChatTyped, TypeOK
  <2>4. CASE Confirm \/ Refuse \/ Record
    <3>1. pc # "idle" /\ pc' = "splitting" /\ UNCHANGED <<talk, number, cooldown>>
      BY <2>4 DEF Confirm, Refuse, Say, Record, Answer, AskFails, Handling
    <3>2. appendHistory(talk, Assistant(number))
      BY <2>4 DEF Confirm, Refuse, Record
    <3>3. talk \in Talks /\ Assistant(number) \in S
      BY <1>2, <2>1, <3>1 DEF ChatTyped, Assistant
    <3>4. byKey' \in [Talks -> Seq(S)]
      BY <2>1, <3>2, <3>3, AppendHasType
    <3> QED
      BY <1>2, <3>1, <3>4 DEF ChatTyped, TypeOK
  <2>5. CASE Ask
    <3>1. /\ pc = "scheduling" /\ pc' = "asking" /\ UNCHANGED <<byKey, talk, number>>
          /\ cooldown' = cooldown \cup {talk[1]}
      BY <2>5 DEF Ask
    <3>2. talk[1] \in AllowedUsers
      BY <1>2, <3>1 DEF ChatTyped, Talks
    <3> QED
      BY <1>2, <3>1, <3>2 DEF ChatTyped, TypeOK
  <2>6. CASE GoOn \/ UNCHANGED chatVars
    BY <1>2, <2>6 DEF GoOn, Continue, Handling, chatVars, vars, ChatTyped, TypeOK
  <2>7. CASE Deliver
    <3>1. /\ pc # "idle" /\ pc' \in {"splitting", "sending", "done"}
          /\ UNCHANGED <<byKey, talk, number, cooldown>>
      BY <2>7 DEF Deliver, Handling, Replying, Split, SplitEnd, Send, SendFails, SendEnd
    <3> QED
      BY <1>2, <3>1 DEF ChatTyped, TypeOK
  <2>8. CASE Return \/ Crash
    <3>1. pc' = "idle" /\ talk' = <<>> /\ number' = number
      BY <2>8 DEF Return, Crash, HandlerGone
    <3>2. cooldown' = cooldown \/ cooldown' = {}
      BY <2>8 DEF Return, Crash
    <3>3. byKey' = byKey \/ byKey' = [k \in Talks |-> <<>>]
      BY <2>8 DEF Return, Crash
    <3>4. byKey' \in [Talks -> Seq(S)]
      <4>1. <<>> \in Seq(S)
        OBVIOUS
      <4> HIDE DEF S
      <4> QED
        BY <2>1, <3>3, <4>1
    <3> QED
      BY <1>2, <3>1, <3>2, <3>4 DEF ChatTyped, TypeOK
  <2> QED
    BY <1>2, <2>2, <2>3, <2>4, <2>5, <2>6, <2>7, <2>8 DEF ChatNext, Handler
<1>3. ChatTyped => TypeOK
  BY DEF ChatTyped
<1> QED
  BY <1>1, <1>2, <1>3, PTL DEF ChatSpec

(***************************************************************************)
(* A handler comes to its end: each of its steps takes it to a later       *)
(* stage, or leaves it less to do in the one it is in.                     *)
(***************************************************************************)
StagesLeft ==
    [scheduling |-> 5, asking |-> 4, splitting |-> 3, sending |-> 2, done |-> 1, idle |-> 0]

WorkLeft ==
    CASE pc = "asking" -> MaxContinuations - Len(replies)
      [] pc = "splitting" -> Len(runes)
      [] OTHER -> Len(queue)

HandlerEnds ==
    [][Handler => \/ StagesLeft[pc'] < StagesLeft[pc]
                  \/ pc' = pc /\ WorkLeft' \in Nat /\ WorkLeft' < WorkLeft]_chatVars

(* Whatever the language model says and however long it is, an answer is   *)
(* not split for ever: each cut shortens what is left, so that a handler   *)
(* that does not rest returns.                                             *)
THEOREM ChatHandlerEnds == ChatSpec => HandlerEnds
<1>1. ASSUME ReplyInductive, Handler
      PROVE  \/ StagesLeft[pc'] < StagesLeft[pc]
             \/ pc' = pc /\ WorkLeft' \in Nat /\ WorkLeft' < WorkLeft
  <2>1. ReplyTyped
    BY <1>1 DEF ReplyInductive
  <2>2. CASE Confirm \/ Refuse \/ Ask
    <3>1. pc = "scheduling" /\ pc' \in {"asking", "splitting"}
      BY <2>2 DEF Confirm, Refuse, Say, Ask
    <3> QED
      BY <3>1 DEF StagesLeft
  <2>3. CASE Record
    <3>1. pc = "asking" /\ pc' = "splitting"
      BY <2>3 DEF Record, Answer, AskFails
    <3> QED
      BY <3>1 DEF StagesLeft
  <2>4. CASE Return
    <3>1. pc = "done" /\ pc' = "idle"
      BY <2>4 DEF Return, HandlerGone
    <3> QED
      BY <3>1 DEF StagesLeft
  <2>5. CASE SplitEnd \/ SendEnd \/ SendFails
    <3>1. \/ pc = "splitting" /\ pc' = "sending"
          \/ pc = "sending" /\ pc' = "done"
      BY <2>5 DEF SplitEnd, SendEnd, SendFails
    <3> QED
      BY <3>1 DEF StagesLeft
  <2>6. CASE GoOn
    <3>1. pc = "asking" /\ pc' = pc /\ Len(replies) < MaxContinuations /\ Reply
      BY <2>6 DEF GoOn, Continue
    <3>2. PICK said \in Text : replies' = Append(replies, said)
      BY ONLY <2>1, <3>1, ReplyAppends
    <3>3. Len(replies) \in Nat /\ Len(replies') = Len(replies) + 1 /\ MaxContinuations \in Nat
      BY <2>1, <3>2, ReplyAssumption DEF ReplyTyped
    <3> QED
      BY <3>1, <3>3 DEF WorkLeft
  <2>7. CASE Split
    <3>1. /\ pc = "splitting" /\ pc' = pc /\ Len(runes) > MaxDiscord
          /\ runes' = Trim(SubSeq(runes, Cut + 1, Len(runes)))
      BY <2>7 DEF Split
    <3>2. PICK back : back = SubSeq(runes, Cut + 1, Len(runes))
      OBVIOUS
    <3>3. Len(runes) \in Nat /\ runes \in Text /\ Cut \in 1..Len(runes)
      BY <2>1, <3>1, CutFits, ReplyAssumption DEF ReplyTyped, Text
    <3>4. back \in Text /\ Len(back) = Len(runes) - Cut
      <4>1. \A i \in Cut + 1..Len(runes) : runes[i] \in Nat
        BY <3>3 DEF Text
      <4> QED
        BY <3>2, <3>3, <4>1, SubSeqProperties DEF Text
    <3>5. runes' \in Text /\ Len(runes') <= Len(back)
      BY <3>1, <3>2, <3>4, TrimIs
    <3>6. Len(runes') \in Nat /\ Len(runes') < Len(runes)
      BY <3>3, <3>4, <3>5 DEF Text
    <3> QED
      BY <3>1, <3>6 DEF WorkLeft
  <2>8. CASE Send
    <3>1. pc = "sending" /\ pc' = pc /\ queue # <<>> /\ queue' = Tail(queue)
      BY <2>8 DEF Send
    <3>2. Len(queue) \in Nat /\ Len(queue') \in Nat /\ Len(queue') < Len(queue)
      BY <2>1, <3>1 DEF ReplyTyped
    <3> QED
      BY <3>1, <3>2 DEF WorkLeft
  <2> QED
    BY <1>1, <2>2, <2>3, <2>4, <2>5, <2>6, <2>7, <2>8 DEF Handler, Deliver, Replying
<1> QED
  BY <1>1, ReplyInductiveHolds, PTL DEF ChatSpec, HandlerEnds
=============================================================================
