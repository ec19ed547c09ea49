------------------------------- MODULE DataProofs -------------------------------
(***************************************************************************)
(* Facts about the data the models are built from, for every input: what   *)
(* appending to and taking from a queue does to its elements, sums over    *)
(* finite sets, the encoding of font files, functions defined by recursion *)
(* up to a bound, and the flattening of sequences.                         *)
(***************************************************************************)
EXTENDS FontCodec, SequencesExt, FiniteSetsExt, SequenceTheorems, FiniteSetTheorems, TLAPS

-------------------------------------------------------------------------------
(* Queues.                                                                     *)

(* What Append adds to a sequence is its argument. *)
LEMMA AppendOccurs ==
    ASSUME NEW S, NEW seq \in Seq(S), NEW x \in S, NEW j
    PROVE  Contains(Append(seq, x), j) <=> (Contains(seq, j) \/ j = x)
<1> DEFINE longer == Append(seq, x)
<1>1. /\ Len(longer) = Len(seq) + 1 /\ Len(seq) \in Nat
      /\ \A i \in 1..Len(seq) : longer[i] = seq[i]
      /\ longer[Len(seq) + 1] = x
  BY AppendProperties, LenProperties
<1> HIDE DEF longer
<1>2. Contains(longer, j) => (Contains(seq, j) \/ j = x)
  <2> SUFFICES ASSUME NEW i \in 1..Len(longer), longer[i] = j
               PROVE  Contains(seq, j) \/ j = x
    BY DEF Contains
  <2>1. i \in 1..Len(seq) \/ i = Len(seq) + 1
    BY <1>1
  <2> QED
    BY <1>1, <2>1 DEF Contains
<1>3. (Contains(seq, j) \/ j = x) => Contains(longer, j)
  <2>1. \A i \in 1..Len(seq) : i \in 1..Len(longer)
    BY <1>1
  <2>2. Len(seq) + 1 \in 1..Len(longer)
    BY <1>1
  <2> QED
    BY <1>1, <2>1, <2>2 DEF Contains
<1> QED
  BY <1>2, <1>3 DEF longer

(* Appending something new keeps the elements distinct. *)
LEMMA AppendDistinct ==
    ASSUME NEW S, NEW seq \in Seq(S), NEW x \in S, IsInjective(seq), ~Contains(seq, x)
    PROVE  IsInjective(Append(seq, x))
<1> DEFINE longer == Append(seq, x)
<1>1. /\ Len(longer) = Len(seq) + 1 /\ Len(seq) \in Nat
      /\ \A i \in 1..Len(seq) : longer[i] = seq[i]
      /\ longer[Len(seq) + 1] = x
  BY AppendProperties, LenProperties
<1> HIDE DEF longer
<1>2. \A i \in 1..Len(longer) : i \in 1..Len(seq) \/ i = Len(seq) + 1
  BY <1>1
<1>3. \A i \in 1..Len(seq) : longer[i] # x
  BY <1>1 DEF Contains
<1>4. IsInjective(longer)
  <2> SUFFICES ASSUME NEW i \in 1..Len(longer), NEW k \in 1..Len(longer),
                      longer[i] = longer[k]
               PROVE  i = k
    BY DEF IsInjective
  <2>1. CASE i \in 1..Len(seq) /\ k \in 1..Len(seq)
    BY <1>1, <2>1 DEF IsInjective
  <2> QED
    BY <1>1, <1>2, <1>3, <2>1
<1> QED
  BY <1>4 DEF longer

(* The tail has all elements but the head, which does not come again if the    *)
(* elements are distinct.                                                      *)
LEMMA TailOccurs ==
    ASSUME NEW S, NEW seq \in Seq(S), seq # <<>>
    PROVE  /\ Tail(seq) \in Seq(S) /\ Head(seq) \in S /\ Contains(seq, Head(seq))
           /\ \A j : Contains(seq, j) <=> (Contains(Tail(seq), j) \/ j = Head(seq))
           /\ IsInjective(seq) => IsInjective(Tail(seq)) /\ ~Contains(Tail(seq), Head(seq))
<1> DEFINE rest == Tail(seq)
<1>1. /\ Head(seq) \in S /\ rest \in Seq(S) /\ Head(seq) = seq[1]
      /\ Len(rest) = Len(seq) - 1 /\ Len(seq) \in Nat \ {0}
      /\ \A i \in 1..Len(rest) : rest[i] = seq[i + 1]
  BY HeadTailProperties, LenProperties, EmptySeq
<1> HIDE DEF rest
<1>2. 1 \in 1..Len(seq) /\ \A i \in 1..Len(rest) : i + 1 \in 1..Len(seq)
  BY <1>1
<1>3. \A i \in 1..Len(seq) : i = 1 \/ (i - 1 \in 1..Len(rest) /\ seq[i] = rest[i - 1])
  <2> SUFFICES ASSUME NEW i \in 1..Len(seq), i # 1
               PROVE  i - 1 \in 1..Len(rest) /\ seq[i] = rest[i - 1]
    OBVIOUS
  <2>1. i - 1 \in 1..Len(rest) /\ (i - 1) + 1 = i
    BY <1>1
  <2> QED
    BY <1>1, <2>1
<1>4. Contains(seq, Head(seq))
  BY <1>1, <1>2 DEF Contains
<1>5. ASSUME NEW j PROVE Contains(seq, j) <=> (Contains(rest, j) \/ j = Head(seq))
  <2>1. Contains(rest, j) => Contains(seq, j)
    BY <1>1, <1>2 DEF Contains
  <2>2. Contains(seq, j) => (Contains(rest, j) \/ j = Head(seq))
    BY <1>1, <1>3 DEF Contains
  <2> QED
    BY <1>4, <2>1, <2>2
<1>6. ASSUME IsInjective(seq) PROVE IsInjective(rest) /\ ~Contains(rest, Head(seq))
  <2>1. IsInjective(rest)
    <3> SUFFICES ASSUME NEW i \in 1..Len(rest), NEW k \in 1..Len(rest), rest[i] = rest[k]
                 PROVE  i = k
      BY DEF IsInjective
    <3>1. seq[i + 1] = seq[k + 1] /\ i + 1 \in 1..Len(seq) /\ k + 1 \in 1..Len(seq)
      BY <1>1, <1>2
    <3>2. i + 1 = k + 1
      BY <1>6, <3>1 DEF IsInjective
    <3> QED
      BY <1>1, <3>2
  <2>2. ASSUME NEW i \in 1..Len(rest) PROVE rest[i] # Head(seq)
    <3>1. i + 1 \in 1..Len(seq) /\ rest[i] = seq[i + 1] /\ i + 1 # 1
      BY <1>1, <1>2
    <3> QED
      BY <1>1, <1>2, <1>6, <3>1 DEF IsInjective
  <2> QED
    BY <2>1, <2>2 DEF Contains
<1> QED
  BY <1>1, <1>4, <1>5, <1>6 DEF rest

-------------------------------------------------------------------------------
(* Sums over finite sets, as the recursive functions of JobQueue and of        *)
(* FiniteSetsExt (MapThenSumSet) compute them: element by element, in the order *)
(* of CHOOSE.                                                                  *)

First(T) == CHOOSE x \in T : TRUE

(* total[T] is the sum of w[x] over the elements x of T. *)
IsSum(total, w, S) ==
    total = [T \in SUBSET S |-> IF T = {} THEN 0 ELSE w[First(T)] + total[T \ {First(T)}]]

(* A set of subsets of a finite set has a member that no other is a part of. *)
LEMMA SmallestSubset ==
    ASSUME NEW S, IsFiniteSet(S), NEW B \in SUBSET SUBSET S, B # {}
    PROVE  \E T \in B : \A U \in B : U \subseteq T => U = T
<1>1. B \subseteq FiniteSubsetsOf(S)
  BY FS_Subset DEF FiniteSubsetsOf
<1>2. PICK T \in B : \A U \in B : ~(<<U, T>> \in StrictSubsetOrdering(S))
  BY <1>1, FS_StrictSubsetOrderingWellFounded, WFMin
<1>3. ASSUME NEW U \in B, U \subseteq T, U # T PROVE FALSE
  BY <1>2, <1>3 DEF StrictSubsetOrdering
<1> QED
  BY <1>2, <1>3

(* What the equation of a sum says of one set. *)
LEMMA SumStep ==
    ASSUME NEW S, NEW w, NEW total, IsSum(total, w, S), NEW T \in SUBSET S
    PROVE  /\ T = {} => total[T] = 0
           /\ T # {} => /\ First(T) \in T
                        /\ T \ {First(T)} \in SUBSET S
                        /\ total[T] = w[First(T)] + total[T \ {First(T)}]
<1>1. T # {} => First(T) \in T
  BY DEF First
<1>2. total[T] = IF T = {} THEN 0 ELSE w[First(T)] + total[T \ {First(T)}]
  BY DEF IsSum
<1> QED
  BY <1>1, <1>2

(* A sum depends on what it adds up and on nothing else. *)
LEMMA SumAgrees ==
    ASSUME NEW S, NEW R, NEW w, NEW v, NEW total, NEW other,
           IsSum(total, w, S), IsSum(other, v, R),
           NEW T \in SUBSET S, T \subseteq R, IsFiniteSet(T), \A x \in T : w[x] = v[x]
    PROVE  total[T] = other[T]
<1> DEFINE Bad == {U \in SUBSET T : total[U] # other[U]}
<1>1. SUFFICES ASSUME Bad # {} PROVE FALSE
  OBVIOUS
<1>2. /\ Bad \in SUBSET SUBSET T
      /\ \A U \in SUBSET T : U \notin Bad => total[U] = other[U]
      /\ \A U \in Bad : total[U] # other[U]
  OBVIOUS
<1> HIDE DEF Bad
<1>3. PICK U \in Bad : \A V \in Bad : V \subseteq U => V = U
  BY <1>1, <1>2, SmallestSubset
<1>4. U \in SUBSET S /\ U \in SUBSET R /\ U \in SUBSET T
  BY <1>2
<1>5. U # {}
  <2>1. U = {} => total[U] = 0
    BY <1>4 DEF IsSum
  <2>2. U = {} => other[U] = 0
    BY <1>4 DEF IsSum
  <2> QED
    BY <1>2, <2>1, <2>2
<1>6. /\ First(U) \in U
      /\ total[U] = w[First(U)] + total[U \ {First(U)}]
      /\ other[U] = v[First(U)] + other[U \ {First(U)}]
  BY <1>4, <1>5, SumStep
<1>7. U \ {First(U)} \in SUBSET T /\ U \ {First(U)} # U /\ U \ {First(U)} \subseteq U
  BY <1>4, <1>6
<1>8. total[U \ {First(U)}] = other[U \ {First(U)}]
  BY <1>2, <1>3, <1>7
<1>9. w[First(U)] = v[First(U)]
  BY <1>4, <1>6
<1> QED
  BY <1>2, <1>6, <1>8, <1>9

(* Every finite set of numbers has a sum: the recursion is a definition. *)
LEMMA SumExists ==
    ASSUME NEW S, IsFiniteSet(S), NEW w
    PROVE  \E total : IsSum(total, w, S)
<1> DEFINE Bad == {T \in SUBSET S : ~ \E total : IsSum(total, w, T)}
           g(T) == CHOOSE total : IsSum(total, w, T)
           Of(T) == g(T)[T]
<1>1. SUFFICES ASSUME Bad # {} PROVE FALSE
  OBVIOUS
<1>2. /\ Bad \in SUBSET SUBSET S
      /\ \A T \in SUBSET S : T \notin Bad => IsSum(g(T), w, T)
      /\ \A T \in Bad : ~ \E total : IsSum(total, w, T)
  OBVIOUS
<1> HIDE DEF Bad, g
<1>3. PICK T \in Bad : \A V \in Bad : V \subseteq T => V = T
  BY <1>1, <1>2, SmallestSubset
<1>4. T \in SUBSET S
  BY <1>2
<1>5. ASSUME NEW U \in SUBSET T, U # T PROVE IsSum(g(U), w, U)
  BY <1>2, <1>3, <1>4, <1>5
<1> DEFINE h == [U \in SUBSET T |-> IF U = {} THEN 0 ELSE w[First(U)] + Of(U \ {First(U)})]
<1>6. /\ DOMAIN h = SUBSET T
      /\ \A U \in SUBSET T : h[U] = IF U = {} THEN 0 ELSE w[First(U)] + Of(U \ {First(U)})
  OBVIOUS
<1> HIDE DEF h
<1>7. ASSUME NEW U \in SUBSET T, U # T PROVE h[U] = Of(U)
  <2>1. IsSum(g(U), w, U) /\ U \in SUBSET U
    BY <1>5, <1>7
  <2>2. CASE U = {}
    <3>1. g(U)[U] = 0
      BY <2>1, <2>2, SumStep
    <3> QED
      BY <1>6, <2>2, <3>1
  <2>3. CASE U # {}
    <3> DEFINE V == U \ {First(U)}
    <3>1. First(U) \in U /\ g(U)[U] = w[First(U)] + g(U)[V]
      BY SMTT(30), <2>1, <2>3, SumStep
    <3>2. V \in SUBSET T /\ V # T /\ V \in SUBSET U /\ V \subseteq V
      <4>1. First(U) \in T /\ First(U) \notin V /\ V \in SUBSET U
        BY <3>1
      <4> HIDE DEF V
      <4> QED
        BY <4>1
    <3>3. IsSum(g(V), w, V)
      BY <1>5, <3>2
    <3>4. IsFiniteSet(V)
      BY <1>4, <3>2, FS_Subset
    <3> HIDE DEF V
    <3>5. g(U)[V] = g(V)[V]
      BY <2>1, <3>2, <3>3, <3>4, SumAgrees
    <3>6. h[U] = w[First(U)] + Of(V)
      BY <1>6, <2>3 DEF V
    <3> QED
      BY <3>1, <3>5, <3>6
  <2> QED
    BY <2>2, <2>3
<1>8. IsSum(h, w, T)
  <2>1. ASSUME NEW U \in SUBSET T, U # {}
        PROVE  Of(U \ {First(U)}) = h[U \ {First(U)}]
    <3>1. First(U) \in U
      BY <2>1 DEF First
    <3>2. U \ {First(U)} \in SUBSET T /\ U \ {First(U)} # T
      BY <3>1
    <3> QED
      BY <1>7, <3>2
  <2> HIDE DEF Of
  <2>2. \A U \in SUBSET T : h[U] = IF U = {} THEN 0 ELSE w[First(U)] + h[U \ {First(U)}]
    BY <1>6, <2>1
  <2>3. h = [U \in SUBSET T |-> h[U]]
    BY <1>6 DEF h
  <2> QED
    BY <2>2, <2>3 DEF IsSum
<1> QED
  BY <1>2, <1>8

(* Sums of natural numbers are natural numbers, and adding an element adds its number. *)
LEMMA SumAdds ==
    ASSUME NEW S, IsFiniteSet(S), NEW w, \A x \in S : w[x] \in Nat,
           NEW total, IsSum(total, w, S), NEW T \in SUBSET S
    PROVE  /\ total[T] \in Nat
           /\ \A x \in S \ T : total[T \union {x}] = total[T] + w[x]
<1> DEFINE Good(U) == /\ total[U] \in Nat
                      /\ \A x \in S \ U : total[U \union {x}] = total[U] + w[x]
           Bad == {U \in SUBSET S : ~Good(U)}
<1>1. SUFFICES ASSUME Bad # {} PROVE FALSE
  OBVIOUS
<1>2. /\ Bad \in SUBSET SUBSET S
      /\ \A U \in SUBSET S : U \notin Bad => Good(U)
      /\ \A U \in Bad : ~Good(U)
  OBVIOUS
<1> HIDE DEF Bad
<1>3. PICK U \in Bad : \A V \in Bad : V \subseteq U => V = U
  BY <1>1, <1>2, SmallestSubset
<1>4. U \in SUBSET S
  BY <1>2
<1>5. ASSUME NEW y \in U
      PROVE  /\ total[U \ {y}] \in Nat
             /\ total[U] = total[U \ {y}] + w[y]
             /\ \A x \in S \ U : total[(U \ {y}) \union {x}] = total[U \ {y}] + w[x]
  <2>1. U \ {y} \in SUBSET S /\ U \ {y} \subseteq U /\ U \ {y} # U
    BY <1>4
  <2>2. Good(U \ {y})
    BY <1>2, <1>3, <2>1
  <2>3. (U \ {y}) \union {y} = U /\ y \in S \ (U \ {y}) /\ \A x \in S \ U : x \in S \ (U \ {y})
    BY <1>4
  <2> QED
    BY <2>2, <2>3
<1>6. total[U] \in Nat
  <2>1. CASE U = {}
    <3>1. total[U] = 0
      BY <1>4, <2>1, SumStep
    <3> QED
      BY <3>1
  <2>2. CASE U # {}
    <3>1. PICK y \in U : TRUE
      BY <2>2
    <3>2. w[y] \in Nat
      BY <1>4
    <3>3. total[U \ {y}] \in Nat /\ total[U] = total[U \ {y}] + w[y]
      BY <1>5
    <3> QED
      BY <3>2, <3>3
  <2> QED
    BY <2>1, <2>2
<1>7. ASSUME NEW x \in S \ U PROVE total[U \union {x}] = total[U] + w[x]
  <2> DEFINE W == U \union {x}
             y == First(W)
  <2>1. W \in SUBSET S /\ W # {} /\ w[x] \in Nat /\ W \ {x} = U
    BY <1>4
  <2> HIDE DEF W
  <2>2. y \in W /\ total[W] = w[y] + total[W \ {y}]
    BY <2>1, SumStep
  <2> HIDE DEF y
  <2>3. CASE y = x
    <3>1. total[W] = w[x] + total[U]
      BY <2>1, <2>2, <2>3
    <3>2. total[W] = total[U] + w[x]
      BY <1>6, <2>1, <3>1
    <3> QED
      BY <3>2 DEF W
  <2>4. CASE y # x
    <3>1. y \in U /\ W \ {y} = (U \ {y}) \union {x} /\ w[y] \in Nat
      BY <1>4, <2>2, <2>4 DEF W
    <3>2. /\ total[U \ {y}] \in Nat
          /\ total[U] = total[U \ {y}] + w[y]
          /\ total[(U \ {y}) \union {x}] = total[U \ {y}] + w[x]
      BY <1>5, <3>1
    <3>3. total[W] = w[y] + (total[U \ {y}] + w[x])
      BY <2>2, <3>1, <3>2
    <3>4. total[W] = total[U] + w[x]
      BY <2>1, <3>1, <3>2, <3>3
    <3> QED
      BY <3>4 DEF W
  <2> QED
    BY <2>3, <2>4
<1> QED
  BY <1>2, <1>6, <1>7

(* The sum of w[x] over the elements x of a finite set. *)
Sum(w, S) == (CHOOSE total : IsSum(total, w, S))[S]

(* A sum can be taken from any function that adds the set up. *)
LEMMA SumIs ==
    ASSUME NEW S, IsFiniteSet(S), NEW w
    PROVE  \E total : IsSum(total, w, S) /\ Sum(w, S) = total[S]
<1>1. \E total : IsSum(total, w, S)
  BY SumExists
<1>2. IsSum(CHOOSE total : IsSum(total, w, S), w, S)
  BY <1>1
<1> QED
  BY <1>2 DEF Sum

(* The sum of nothing, and what a sum of a part is. *)
LEMMA SumEmpty ==
    ASSUME NEW w PROVE Sum(w, {}) = 0
<1>1. PICK total : IsSum(total, w, {}) /\ Sum(w, {}) = total[{}]
  BY SumIs, FS_EmptySet
<1> QED
  BY <1>1 DEF IsSum

(* The sum over a part. *)
LEMMA SumPart ==
    ASSUME NEW S, IsFiniteSet(S), NEW w, NEW total, IsSum(total, w, S), NEW T \in SUBSET S
    PROVE  Sum(w, T) = total[T]
<1>1. IsFiniteSet(T)
  BY FS_Subset
<1>2. PICK part : IsSum(part, w, T) /\ Sum(w, T) = part[T]
  BY <1>1, SumIs
<1>3. T \in SUBSET T
  OBVIOUS
<1>4. part[T] = total[T]
  BY <1>1, <1>2, <1>3, SumAgrees
<1> QED
  BY <1>2, <1>4

(* Equal summands make equal sums. *)
LEMMA SumSame ==
    ASSUME NEW S, IsFiniteSet(S), NEW w, NEW v, \A x \in S : w[x] = v[x]
    PROVE  Sum(w, S) = Sum(v, S)
<1>1. PICK total : IsSum(total, w, S) /\ Sum(w, S) = total[S]
  BY SumIs
<1>2. PICK other : IsSum(other, v, S) /\ Sum(v, S) = other[S]
  BY SumIs
<1>3. total[S] = other[S]
  BY <1>1, <1>2, SumAgrees
<1> QED
  BY <1>1, <1>2, <1>3

(* Natural numbers add up to one; an element more adds its number. *)
LEMMA SumOneMore ==
    ASSUME NEW S, IsFiniteSet(S), NEW w, \A x \in S : w[x] \in Nat
    PROVE  /\ Sum(w, S) \in Nat
           /\ \A x \in S : /\ Sum(w, S \ {x}) \in Nat
                           /\ Sum(w, S) = Sum(w, S \ {x}) + w[x]
<1>1. PICK total : IsSum(total, w, S)
  BY SumIs
<1>2. \A T \in SUBSET S : Sum(w, T) = total[T]
  BY <1>1, SumPart
<1>3. ASSUME NEW T \in SUBSET S
      PROVE  /\ total[T] \in Nat
             /\ \A x \in S \ T : total[T \union {x}] = total[T] + w[x]
  <2>1. total[T] \in Nat
    BY <1>1, SumAdds
  <2>2. ASSUME NEW x \in S \ T PROVE total[T \union {x}] = total[T] + w[x]
    BY <1>1, SumAdds
  <2> QED
    BY <2>1, <2>2
<1>4. ASSUME NEW x \in S PROVE total[S] = total[S \ {x}] + w[x]
  <2> DEFINE T == S \ {x}
  <2>1. T \in SUBSET S /\ x \in S \ T /\ T \union {x} = S
    OBVIOUS
  <2> HIDE DEF T
  <2>2. total[T \union {x}] = total[T] + w[x]
    BY <1>3, <2>1
  <2> QED
    BY <2>1, <2>2 DEF T
<1> QED
  BY <1>2, <1>3, <1>4

(* What counts for nothing can be left out. *)
LEMMA SumOfPart ==
    ASSUME NEW S, IsFiniteSet(S), NEW w, \A x \in S : w[x] \in Nat,
           NEW T \in SUBSET S, \A x \in S \ T : w[x] = 0
    PROVE  Sum(w, T) = Sum(w, S)
<1> DEFINE Bad == {U \in SUBSET S : T \subseteq U /\ Sum(w, U) # Sum(w, T)}
<1>1. SUFFICES ASSUME Bad # {} PROVE FALSE
  OBVIOUS
<1>2. /\ Bad \in SUBSET SUBSET S
      /\ \A U \in SUBSET S : T \subseteq U /\ U \notin Bad => Sum(w, U) = Sum(w, T)
      /\ \A U \in Bad : T \subseteq U /\ Sum(w, U) # Sum(w, T)
  OBVIOUS
<1> HIDE DEF Bad
<1>3. PICK U \in Bad : \A V \in Bad : V \subseteq U => V = U
  BY <1>1, <1>2, SmallestSubset
<1>4. U \in SUBSET S /\ T \subseteq U /\ Sum(w, U) # Sum(w, T)
  BY <1>2
<1>5. PICK x \in U : x \notin T
  BY <1>4
<1>6. IsFiniteSet(U) /\ w[x] = 0 /\ \A y \in U : w[y] \in Nat
  BY <1>4, <1>5, FS_Subset
<1>7. Sum(w, U \ {x}) \in Nat /\ Sum(w, U) = Sum(w, U \ {x}) + w[x]
  BY <1>5, <1>6, SumOneMore
<1>8. U \ {x} \in SUBSET S /\ T \subseteq U \ {x} /\ U \ {x} # U /\ U \ {x} \subseteq U
  BY <1>4, <1>5
<1>9. Sum(w, U \ {x}) = Sum(w, T)
  BY <1>2, <1>3, <1>8
<1> QED
  BY <1>4, <1>6, <1>7, <1>9

-------------------------------------------------------------------------------
(* Decoding undoes encoding, for every font file (FontCodec).                  *)

(* Division by a constant, and its remainder. *)
LEMMA Split ==
  ASSUME NEW v \in Nat, NEW n \in {64, 256}
  PROVE  /\ v \div n \in Nat
         /\ v % n \in 0..(n - 1)
         /\ v = n * (v \div n) + (v % n)
  BY SMT

(* The four characters of a group put together again are the group. *)
LEMMA GroupFromChars ==
  ASSUME NEW v \in Nat
  PROVE  64 * (64 * (64 * CharOf(v, 0) + CharOf(v, 1)) + CharOf(v, 2)) + CharOf(v, 3) = v
<1> DEFINE u == v \div 64
<1>1. u \in Nat /\ v = 64 * u + (v % 64) BY Split, SMT
<1> DEFINE w == u \div 64
<1>2. w \in Nat /\ u = 64 * w + (u % 64) BY <1>1, Split, SMT
<1>3. w \div 64 \in Nat /\ w = 64 * (w \div 64) + (w % 64) BY <1>2, Split, SMT
<1>4. /\ CharOf(v, 0) = w \div 64 /\ CharOf(v, 1) = w % 64
      /\ CharOf(v, 2) = u % 64 /\ CharOf(v, 3) = v % 64
  BY DEF CharOf
<1> QED BY <1>1, <1>2, <1>3, <1>4, SMT

(* The bytes of a group, found again in its 24 bits. *)
LEMMA BytesOfGroup ==
  ASSUME NEW x \in Byte, NEW y \in Byte, NEW z \in Byte
  PROVE  LET v == 256 * (256 * x + y) + z
         IN  ByteOf(v, 0) = x /\ ByteOf(v, 1) = y /\ ByteOf(v, 2) = z
<1> DEFINE u == 256 * x + y
           v == 256 * u + z
<1>1. x \in Nat /\ y \in 0..255 /\ z \in 0..255 /\ u \in Nat BY DEF Byte
<1>2. v \div 256 = u /\ v % 256 = z BY <1>1, SMT
<1>3. u \div 256 = x /\ u % 256 = y BY <1>1, SMT
<1> QED BY <1>2, <1>3 DEF ByteOf

(* Lengths: nothing of a rest of one or two bytes is lost, none is invented. *)
LEMMA Lengths ==
  ASSUME NEW n \in Nat
  PROVE  /\ EncodedLength(n) \in Nat
         /\ EncodedLength(n) % 4 # 1
         /\ DecodedLength(EncodedLength(n)) = n
<1> DEFINE q == n \div 3
           r == n % 3
<1>1. q \in Nat /\ r \in 0..2 /\ n = 3 * q + r BY SMT
<1>2. EncodedLength(n) = 4 * q + (IF r = 0 THEN 0 ELSE r + 1) BY DEF EncodedLength
<1> HIDE DEF q, r
<1>3. CASE r = 0 BY <1>1, <1>2, <1>3, SMT DEF DecodedLength
<1>4. CASE r = 1 BY <1>1, <1>2, <1>4, SMT DEF DecodedLength
<1>5. CASE r = 2 BY <1>1, <1>2, <1>5, SMT DEF DecodedLength
<1> QED BY <1>1, <1>3, <1>4, <1>5

(* Padding a group with zero bytes makes its last characters zero. *)
LEMMA PaddedGroup ==
  ASSUME NEW x \in Byte, NEW y \in Byte
  PROVE  /\ CharOf(256 * (256 * x + y), 3) = 0
         /\ CharOf(256 * (256 * x), 2) = 0
         /\ CharOf(256 * (256 * x), 3) = 0
<1>1. x \in Nat /\ y \in Nat BY DEF Byte
<1>2. (256 * (256 * x + y)) % 64 = 0 BY <1>1, SMT
<1>3. (256 * (256 * x)) % 64 = 0 BY <1>1, SMT
<1>4. (256 * (256 * x)) \div 64 = 1024 * x BY <1>1, SMT
<1>5. (1024 * x) % 64 = 0 BY <1>1, SMT
<1> QED BY <1>2, <1>3, <1>4, <1>5 DEF CharOf

(* What a group reads is a byte, the padding included. *)
LEMMA ByteAt ==
  ASSUME NEW b \in Seq(Byte), NEW i \in Nat \ {0}
  PROVE  At(b, i) \in Byte
<1>1. Len(b) \in Nat /\ 0 \in Byte BY DEF Byte
<1>2. CASE i <= Len(b)
  <2>1. i \in 1..Len(b) BY <1>1, <1>2
  <2> QED BY <1>2, <2>1 DEF At
<1>3. CASE ~(i <= Len(b)) BY <1>1, <1>3 DEF At
<1> QED BY <1>2, <1>3

(* The bits of a group as one sum. *)
LEMMA GroupValue ==
  ASSUME NEW b, NEW g, NEW x \in Byte, NEW y \in Byte, NEW z \in Byte,
         At(b, 3 * g + 1) = x, At(b, 3 * g + 2) = y, At(b, 3 * g + 3) = z
  PROVE  ByteGroup(b, g) = 256 * (256 * x + y) + z /\ ByteGroup(b, g) \in Nat
<1>1. ByteGroup(b, g) = 256 * (256 * x + y) + z BY DEF ByteGroup
<1>2. x \in Nat /\ y \in Nat /\ z \in Nat BY DEF Byte
<1> QED BY <1>1, <1>2

(* The characters of a group that was started, those past the end included.  *)
LEMMA CharAt ==
  ASSUME NEW b \in Seq(Byte), NEW g \in Nat, 3 * g + 1 <= Len(b), NEW k \in 1..4
  PROVE  At(Encode(b), 4 * g + k) = CharOf(ByteGroup(b, g), k - 1)
<1> DEFINE n == Len(b)
           m == EncodedLength(n)
           s == Encode(b)
<1>1. n \in Nat /\ m \in Nat BY Lengths
<1>2. s = [j \in 1..m |-> CharOf(ByteGroup(b, (j - 1) \div 4), (j - 1) % 4)] BY DEF Encode
<1>3. Len(s) = m BY <1>1, <1>2
<1>4. CASE 4 * g + k <= m
  <2>1. 4 * g + k \in 1..m BY <1>1, <1>4
  <2>2. (4 * g + k - 1) \div 4 = g /\ (4 * g + k - 1) % 4 = k - 1 BY SMT
  <2>3. s[4 * g + k] = CharOf(ByteGroup(b, g), k - 1) BY <1>2, <2>1, <2>2
  <2> QED BY <1>3, <1>4, <2>3 DEF At
<1>5. CASE ~(4 * g + k <= m)
  <2>1. At(s, 4 * g + k) = 0 BY <1>3, <1>5 DEF At
  <2>2. b[3 * g + 1] \in Byte BY <1>1
  <2> DEFINE q == n \div 3
             r == n % 3
  <2>3. q \in Nat /\ r \in 0..2 /\ n = 3 * q + r BY <1>1, SMT
  <2>4. m = 4 * q + (IF r = 0 THEN 0 ELSE r + 1) BY DEF EncodedLength
  <2> HIDE DEF q, r, m, s
  <2>5. g = q /\ r \in {1, 2} BY <1>1, <1>5, <2>3, <2>4, SMT DEF n
  <2>6. CASE r = 1
    <3>1. k \in {3, 4} /\ n = 3 * g + 1 BY <1>1, <1>5, <2>3, <2>4, <2>5, <2>6, SMT
    <3>2. At(b, 3 * g + 1) = b[3 * g + 1] /\ At(b, 3 * g + 2) = 0 /\ At(b, 3 * g + 3) = 0
      BY <3>1 DEF At
    <3> DEFINE x == b[3 * g + 1]
    <3>3. x \in Byte /\ 0 \in Byte BY <2>2 DEF Byte
    <3> HIDE DEF x
    <3>4. ByteGroup(b, g) = 256 * (256 * x + 0) + 0 BY <3>2, <3>3, GroupValue DEF x
    <3>5. x \in Nat BY <3>3 DEF Byte
    <3>6. ByteGroup(b, g) = 256 * (256 * x) BY <3>4, <3>5
    <3>7. CharOf(ByteGroup(b, g), 2) = 0 /\ CharOf(ByteGroup(b, g), 3) = 0
      BY <3>3, <3>6, PaddedGroup
    <3> QED BY <2>1, <3>1, <3>7 DEF s
  <2>7. CASE r = 2
    <3>1. k = 4 /\ n = 3 * g + 2 BY <1>1, <1>5, <2>3, <2>4, <2>5, <2>7, SMT
    <3>2. At(b, 3 * g + 1) = b[3 * g + 1] /\ At(b, 3 * g + 2) = b[3 * g + 2]
            /\ At(b, 3 * g + 3) = 0
      BY <3>1 DEF At
    <3> DEFINE x == b[3 * g + 1]
               y == b[3 * g + 2]
    <3>8. 3 * g + 2 \in 1..Len(b) BY <1>1, <3>1
    <3>9. y \in Byte BY <3>8
    <3>10. 0 \in Byte BY DEF Byte
    <3>3. x \in Byte /\ y \in Byte /\ 0 \in Byte BY <2>2, <3>9, <3>10
    <3> HIDE DEF x, y
    <3>4. ByteGroup(b, g) = 256 * (256 * x + y) + 0 BY <3>2, <3>3, GroupValue DEF x, y
    <3>5. x \in Nat /\ y \in Nat BY <3>3 DEF Byte
    <3>6. ByteGroup(b, g) = 256 * (256 * x + y) BY <3>4, <3>5
    <3>7. CharOf(ByteGroup(b, g), 3) = 0 BY <3>3, <3>6, PaddedGroup
    <3> QED BY <2>1, <3>1, <3>7 DEF s
  <2> QED BY <2>5, <2>6, <2>7
<1> QED BY <1>4, <1>5

(* The number has 24 bits. *)
IsGroup(v) == v \in Nat /\ v < 256 * (256 * 256)

(* The 24 bits of three bytes, or of four characters, taken apart.            *)
LEMMA BitsOfGroup ==
  ASSUME NEW v, IsGroup(v)
  PROVE  /\ \A place \in 0..3 : CharOf(v, place) \in Sextet
         /\ \A place \in 0..2 : ByteOf(v, place) \in Byte
<1>0. v \in Nat BY DEF IsGroup
<1>1. PICK u \in Nat : u = v \div 64 /\ v = 64 * u + (v % 64) /\ v % 64 \in 0..63
  BY <1>0, Split
<1>2. PICK w \in Nat : w = u \div 64 /\ u = 64 * w + (u % 64) /\ u % 64 \in 0..63
  BY Split
<1>3. PICK t \in Nat : t = w \div 64 /\ w = 64 * t + (w % 64) /\ w % 64 \in 0..63
  BY Split
<1>4. t \in 0..63 BY <1>1, <1>2, <1>3, <1>0, SMT DEF IsGroup
<1>5. PICK x \in Nat : x = v \div 256 /\ v = 256 * x + (v % 256) /\ v % 256 \in 0..255
  BY <1>0, Split
<1>6. PICK y \in Nat : y = x \div 256 /\ x = 256 * y + (x % 256) /\ x % 256 \in 0..255
  BY Split
<1>7. y \in 0..255 BY <1>5, <1>6, <1>0, SMT DEF IsGroup
<1>8. ASSUME NEW place \in 0..3 PROVE CharOf(v, place) \in 0..63
  BY <1>1, <1>2, <1>3, <1>4 DEF CharOf
<1>9. ASSUME NEW place \in 0..2 PROVE ByteOf(v, place) \in 0..255
  BY <1>5, <1>6, <1>7 DEF ByteOf
<1> QED BY <1>8, <1>9 DEF Sextet, Byte

(* A file is a sequence of numbers. *)
LEMMA BytesAreNumbers ==
  ASSUME NEW b \in Seq(Byte)
  PROVE  b \in Seq(Int)
<1>1. Len(b) \in Nat /\ b \in [1..Len(b) -> Byte] BY LenProperties
<1>2. ASSUME NEW i \in 1..Len(b) PROVE b[i] \in Int
  <2>1. b[i] \in Byte BY <1>1
  <2>2. \A byte \in Byte : byte \in Int BY DEF Byte
  <2> QED BY <2>1, <2>2
<1>3. b \in [1..Len(b) -> Int] BY <1>1, <1>2
<1> QED BY <1>1, <1>3, SeqDef

(* ass_uu_encode writes characters of six bits only. *)
LEMMA EncodedSextets ==
  ASSUME NEW b \in Seq(Byte)
  PROVE  \A k \in DOMAIN Encode(b) : Encode(b)[k] \in Sextet
<1>1. Len(b) \in Nat /\ EncodedLength(Len(b)) \in Nat BY Lengths
<1>2. SUFFICES ASSUME NEW k \in 1..EncodedLength(Len(b))
               PROVE  CharOf(ByteGroup(b, (k - 1) \div 4), (k - 1) % 4) \in Sextet
  BY DEF Encode
<1> DEFINE g == (k - 1) \div 4
           p == (k - 1) % 4
<1>3. g \in Nat /\ p \in 0..3 BY <1>1, SMT
<1> HIDE DEF g, p
<1> DEFINE x == At(b, 3 * g + 1)
           y == At(b, 3 * g + 2)
           z == At(b, 3 * g + 3)
<1>4. x \in Byte /\ y \in Byte /\ z \in Byte BY <1>3, ByteAt
<1>5. ByteGroup(b, g) = 256 * (256 * x + y) + z BY DEF ByteGroup
<1> HIDE DEF x, y, z
<1>6. IsGroup(ByteGroup(b, g)) BY <1>4, <1>5, SMT DEF Byte, IsGroup
<1> QED BY <1>3, <1>6, BitsOfGroup DEF g, p

(* ass_uu_decode returns bytes, of what it accepts. *)
LEMMA DecodedBytes ==
  ASSUME NEW s \in Seq(Int), Decodes(s)
  PROVE  Decode(s) \in Seq(Byte)
<1>1. Len(s) \in Nat /\ \A i \in 1..Len(s) : s[i] \in Sextet BY DEF Decodes
<1>2. ASSUME NEW i \in Nat \ {0} PROVE At(s, i) \in 0..63
  BY <1>1 DEF At, Sextet
<1>3. DecodedLength(Len(s)) \in Nat
  <2> DEFINE m == Len(s)
  <2>1. m \in Nat BY <1>1
  <2> HIDE DEF m
  <2>2. m \div 4 \in Nat /\ m % 4 \in 0..3 BY <2>1, SMT
  <2>3. m % 4 = 0 \/ (m % 4) - 1 \in Nat BY <2>2
  <2>4. DecodedLength(m) \in Nat BY <2>2, <2>3 DEF DecodedLength
  <2> QED BY <2>4 DEF m
<1>4. ASSUME NEW k \in 1..DecodedLength(Len(s))
      PROVE  ByteOf(CharGroup(s, (k - 1) \div 3), (k - 1) % 3) \in Byte
  <2> DEFINE g == (k - 1) \div 3
             p == (k - 1) % 3
  <2>1. g \in Nat /\ p \in 0..2 BY <1>3, SMT
  <2> HIDE DEF g, p
  <2> DEFINE w == At(s, 4 * g + 1)
             x == At(s, 4 * g + 2)
             y == At(s, 4 * g + 3)
             z == At(s, 4 * g + 4)
  <2>2. w \in 0..63 /\ x \in 0..63 /\ y \in 0..63 /\ z \in 0..63 BY <1>2, <2>1
  <2>3. CharGroup(s, g) = 64 * (64 * (64 * w + x) + y) + z BY DEF CharGroup
  <2> HIDE DEF w, x, y, z
  <2>4. IsGroup(CharGroup(s, g)) BY <2>2, <2>3, SMT DEF IsGroup
  <2> QED BY <2>1, <2>4, BitsOfGroup DEF g, p
<1>5. Decode(s) \in [1..DecodedLength(Len(s)) -> Byte] BY <1>4 DEF Decode
<1> QED BY <1>3, <1>5, SeqDef

(* What ass_uu_encode writes of a font file, whatever the file and its length, *)
(* ass_uu_decode accepts, and returns that file.                               *)
THEOREM RoundTrip ==
  ASSUME NEW b \in Seq(Byte)
  PROVE  Decodes(Encode(b)) /\ Decode(Encode(b)) = b
<1> DEFINE n == Len(b)
           s == Encode(b)
<1>1. n \in Nat /\ Len(s) = EncodedLength(n) BY Lengths DEF Encode
<1>2. Decodes(s)
  <2>1. \A k \in DOMAIN s : s[k] \in Sextet BY EncodedSextets
  <2> QED BY <1>1, <2>1, Lengths DEF Decodes
<1>3. Decode(s) = [i \in 1..n |-> ByteOf(CharGroup(s, (i - 1) \div 3), (i - 1) % 3)]
  BY <1>1, Lengths DEF Decode
<1>4. ASSUME NEW i \in 1..n
      PROVE  ByteOf(CharGroup(s, (i - 1) \div 3), (i - 1) % 3) = b[i]
  <2> DEFINE g == (i - 1) \div 3
             p == (i - 1) % 3
  <2>1. g \in Nat /\ p \in 0..2 /\ i = 3 * g + 1 + p BY SMT
  <2> HIDE DEF g, p
  <2>2. 3 * g + 1 <= n BY <1>1, <2>1, SMT
  <2> DEFINE v == ByteGroup(b, g)
             x == At(b, 3 * g + 1)
             y == At(b, 3 * g + 2)
             z == At(b, 3 * g + 3)
  <2>3. x \in Byte /\ y \in Byte /\ z \in Byte BY <2>1, ByteAt
  <2>4. v = 256 * (256 * x + y) + z /\ v \in Nat BY <2>3, GroupValue
  <2> HIDE DEF v, x, y, z, s
  <2>5. \A k \in 1..4 : At(s, 4 * g + k) = CharOf(v, k - 1) BY <2>1, <2>2, CharAt DEF n, s, v
  <2>6. /\ At(s, 4 * g + 1) = CharOf(v, 0) /\ At(s, 4 * g + 2) = CharOf(v, 1)
        /\ At(s, 4 * g + 3) = CharOf(v, 2) /\ At(s, 4 * g + 4) = CharOf(v, 3)
    BY <2>5
  <2>7. CharGroup(s, g) = v BY <2>4, <2>6, GroupFromChars DEF CharGroup
  <2>8. ByteOf(v, 0) = x /\ ByteOf(v, 1) = y /\ ByteOf(v, 2) = z BY <2>3, <2>4, BytesOfGroup
  <2>9. At(b, i) = b[i] BY <1>1 DEF At
  <2>10. ByteOf(v, p) = At(b, i)
    <3>1. CASE p = 0 BY <2>1, <2>8, <3>1 DEF x
    <3>2. CASE p = 1 BY <2>1, <2>8, <3>2 DEF y
    <3>3. CASE p = 2 BY <2>1, <2>8, <3>3 DEF z
    <3> QED BY <2>1, <3>1, <3>2, <3>3
  <2> QED BY <2>7, <2>9, <2>10 DEF g, p
<1> QED BY <1>2, <1>3, <1>4

-------------------------------------------------------------------------------
(* Recursive functions of a number up to a bound, as the readings of tags,     *)
(* atoms and lines are: induction, and what such a definition defines.         *)

(* Induction up to a bound, for a set of good numbers: there is no smallest    *)
(* bad one.                                                                    *)
LEMMA UpTo ==
    ASSUME NEW n \in Nat, NEW Good, 0 \in Good,
           \A k \in 1..n : k - 1 \in Good => k \in Good
    PROVE  \A k \in 0..n : k \in Good
<1> DEFINE Bad == {k \in 0..n : k \notin Good}
<1>1. SUFFICES ASSUME Bad # {} PROVE FALSE
  OBVIOUS
<1>2. Bad \subseteq Nat /\ \A k \in 0..n : k \notin Bad => k \in Good
  OBVIOUS
<1>3. \A k \in Bad : k \in 0..n /\ k \notin Good
  OBVIOUS
<1> HIDE DEF Bad
<1>4. PICK m \in Bad : \A k \in Bad : ~(<<k, m>> \in OpToRel(<, Nat))
  BY <1>1, <1>2, NatLessThanWellFounded, WFMin
<1>5. m \in 1..n
  BY <1>3
<1>6. m - 1 \in 0..n /\ m - 1 < m
  BY <1>5
<1>7. m - 1 \notin Bad
  BY <1>2, <1>4, <1>6 DEF OpToRel
<1> QED
  BY <1>2, <1>3, <1>5, <1>6, <1>7

(* The number in a set of naturals below all others. *)
LEMMA Least ==
    ASSUME NEW S \in SUBSET Nat, S # {}
    PROVE  \E m \in S : \A k \in S : m <= k
<1>1. PICK m \in S : \A k \in S : ~(<<k, m>> \in OpToRel(<, Nat))
  BY NatLessThanWellFounded, WFMin
<1>2. \A k \in S : k \in Nat /\ m \in Nat
  OBVIOUS
<1>3. \A k \in S : ~(k < m)
  BY <1>1, <1>2 DEF OpToRel
<1> QED
  BY <1>2, <1>3

(* f starts with base, and each further value is made from the one before.     *)
IsRecursion(f, n, base, step) ==
    f[0] = base /\ \A i \in 1..n : f[i] = step[<<i, f[i - 1]>>]

(* A recursion whose steps stay in a set has a function: the definition        *)
(* defines something.                                                          *)
LEMMA RecursionExists ==
    ASSUME NEW n \in Nat, NEW S, NEW base \in S, NEW step \in [(1..n) \X S -> S]
    PROVE  \E f \in [0..n -> S] : IsRecursion(f, n, base, step)
<1> DEFINE Is(f, k) == f[0] = base /\ \A i \in 1..k : f[i] = step[<<i, f[i - 1]>>]
           Good == {k \in 0..n : \E f \in [0..k -> S] : Is(f, k)}
<1>1. 0 \in Good
  <2> DEFINE f == [i \in 0..0 |-> base]
  <2>1. f \in [0..0 -> S] /\ f[0] = base
    OBVIOUS
  <2> HIDE DEF f
  <2>2. Is(f, 0)
    BY <2>1
  <2> QED
    BY <2>1, <2>2
<1>2. ASSUME NEW k \in 1..n, k - 1 \in Good PROVE k \in Good
  <2>1. PICK f \in [0..k - 1 -> S] : Is(f, k - 1)
    BY <1>2
  <2>2. f[k - 1] \in S /\ <<k, f[k - 1]>> \in (1..n) \X S
    OBVIOUS
  <2>3. step[<<k, f[k - 1]>>] \in S
    BY <2>2
  <2> DEFINE g == [i \in 0..k |-> IF i = k THEN step[<<k, f[k - 1]>>] ELSE f[i]]
  <2>4. g \in [0..k -> S]
    <3>1. ASSUME NEW i \in 0..k, i # k PROVE f[i] \in S
      BY <3>1
    <3> QED
      BY <2>3, <3>1
  <2>5. g[k] = step[<<k, f[k - 1]>>] /\ \A i \in 0..k - 1 : g[i] = f[i]
    OBVIOUS
  <2> HIDE DEF g
  <2>6. Is(g, k)
    <3>1. g[0] = base
      BY <2>1, <2>5
    <3>2. ASSUME NEW i \in 1..k PROVE g[i] = step[<<i, g[i - 1]>>]
      <4>1. CASE i = k
        BY <2>5, <4>1
      <4>2. CASE i # k
        <5>1. i \in 1..k - 1 /\ i - 1 \in 0..k - 1
          BY <4>2
        <5> QED
          BY <2>1, <2>5, <5>1
      <4> QED
        BY <4>1, <4>2
    <3> QED
      BY <3>1, <3>2
  <2> QED
    BY <2>4, <2>6
<1> HIDE DEF Good
<1>3. n \in Good
  BY <1>1, <1>2, UpTo
<1> QED
  BY <1>3 DEF Good, IsRecursion

(* g goes on like f. *)
GoesOn(f, g, n) == \A i \in 1..n : f[i - 1] = g[i - 1] => f[i] = g[i]

(* It has one only: two functions that start alike and go on alike are equal.  *)
LEMMA RecursionAgrees ==
    ASSUME NEW n \in Nat, NEW f, NEW g, f[0] = g[0], GoesOn(f, g, n)
    PROVE  \A i \in 0..n : f[i] = g[i]
<1> DEFINE Good == {k \in 0..n : f[k] = g[k]}
<1>1. 0 \in Good /\ \A k \in 1..n : k - 1 \in Good => k \in Good
  BY DEF GoesOn
<1> HIDE DEF Good
<1>2. \A k \in 0..n : k \in Good
  BY <1>1, UpTo
<1> QED
  BY <1>2 DEF Good

-------------------------------------------------------------------------------
(* FlattenSeq: sequences of sequences joined.                                  *)

(* The function FlattenSeq is made from. *)
IsJoin(f, seqs) == f = [i \in 1..Len(seqs) |-> IF i = 1 THEN seqs[i] ELSE f[i - 1] \o seqs[i]]

(* The same, counted from 0. *)
Joins(f, seqs, m) ==
    /\ FlattenSeq(seqs) = f[m]
    /\ f[0] = seqs[1]
    /\ \A i \in 1..m : f[i] = f[i - 1] \o seqs[i + 1]

(* FlattenSeq of sequences that are there is the last value of a recursion. *)
LEMMA JoinExists ==
    ASSUME NEW S, NEW seqs \in Seq(Seq(S)), NEW m \in Nat, Len(seqs) = m + 1
    PROVE  \E f \in [0..m -> Seq(S)] : Joins(f, seqs, m)
<1>1. \A i \in 1..m + 1 : seqs[i] \in Seq(S)
  BY ElementOfSeq
<1> DEFINE step == [p \in (1..m) \X Seq(S) |-> p[2] \o seqs[p[1] + 1]]
<1>2. step \in [(1..m) \X Seq(S) -> Seq(S)]
  <2>1. ASSUME NEW p \in (1..m) \X Seq(S) PROVE p[2] \o seqs[p[1] + 1] \in Seq(S)
    <3>1. p[2] \in Seq(S) /\ p[1] + 1 \in 1..m + 1
      OBVIOUS
    <3>2. seqs[p[1] + 1] \in Seq(S)
      BY <1>1, <3>1
    <3> QED
      BY <3>1, <3>2, ConcatProperties
  <2> QED
    BY <2>1
<1>3. \A i \in 1..m, s \in Seq(S) : step[<<i, s>>] = s \o seqs[i + 1]
  OBVIOUS
<1> HIDE DEF step
<1>4. seqs[1] \in Seq(S)
  BY <1>1
<1>a. PICK h \in [0..m -> Seq(S)] : IsRecursion(h, m, seqs[1], step)
  BY <1>2, <1>4, RecursionExists
<1>5. h[0] = seqs[1] /\ \A i \in 1..m : h[i] = step[<<i, h[i - 1]>>]
  BY <1>a DEF IsRecursion
<1>6. \A i \in 1..m : h[i] = h[i - 1] \o seqs[i + 1]
  <2>1. \A i \in 1..m : h[i - 1] \in Seq(S)
    OBVIOUS
  <2> QED
    BY <1>3, <1>5, <2>1
<1> DEFINE f == [i \in 1..m + 1 |-> h[i - 1]]
<1>7. f = [i \in 1..Len(seqs) |-> f[i]] /\ \A i \in 1..m + 1 : f[i] = h[i - 1]
  OBVIOUS
<1> HIDE DEF f
<1>8. ASSUME NEW i \in 1..m + 1 PROVE f[i] = IF i = 1 THEN seqs[i] ELSE f[i - 1] \o seqs[i]
  <2>1. CASE i = 1
    <3>1. 1 \in 1..m + 1 /\ 1 - 1 = 0
      OBVIOUS
    <3>2. f[1] = h[0]
      BY <1>7, <3>1
    <3> QED
      BY <1>5, <2>1, <3>2
  <2>2. CASE i # 1
    <3>1. i - 1 \in 1..m /\ i - 1 \in 1..m + 1 /\ (i - 1) + 1 = i
      BY <2>2
    <3>2. h[i - 1] = h[(i - 1) - 1] \o seqs[(i - 1) + 1]
      BY <1>6, <3>1
    <3> QED
      BY <1>7, <2>2, <3>1, <3>2
  <2> QED
    BY <2>1, <2>2
<1>9. IsJoin(f, seqs)
  BY <1>7, <1>8 DEF IsJoin
<1> DEFINE c == CHOOSE g : IsJoin(g, seqs)
<1>10. IsJoin(c, seqs)
  BY <1>9
<1>11. FlattenSeq(seqs) = c[m + 1]
  BY DEF FlattenSeq, IsJoin
<1> HIDE DEF c
<1>12. \A i \in 1..m + 1 : c[i] = IF i = 1 THEN seqs[i] ELSE c[i - 1] \o seqs[i]
  BY <1>10 DEF IsJoin
<1> DEFINE d == [i \in 0..m |-> c[i + 1]]
<1>13. \A i \in 0..m : d[i] = c[i + 1]
  OBVIOUS
<1> HIDE DEF d
<1>14. d[0] = h[0]
  BY <1>5, <1>12, <1>13
<1>15. ASSUME NEW i \in 1..m, d[i - 1] = h[i - 1] PROVE d[i] = h[i]
  <2>1. c[i + 1] = c[i] \o seqs[i + 1]
    <3>1. i + 1 \in 1..m + 1 /\ i + 1 # 1 /\ (i + 1) - 1 = i
      OBVIOUS
    <3> QED
      BY <1>12, <3>1
  <2>2. d[i - 1] = c[i] /\ d[i] = c[i + 1]
    <3>1. i - 1 \in 0..m /\ i \in 0..m /\ (i - 1) + 1 = i
      OBVIOUS
    <3> QED
      BY <1>13, <3>1
  <2> QED
    BY <1>6, <1>15, <2>1, <2>2
<1>16. \A i \in 0..m : d[i] = h[i]
  <2>1. GoesOn(d, h, m)
    BY <1>15 DEF GoesOn
  <2> QED
    BY <1>14, <2>1, RecursionAgrees
<1>17. FlattenSeq(seqs) = h[m]
  <2>1. m \in 0..m
    OBVIOUS
  <2>2. d[m] = c[m + 1] /\ d[m] = h[m]
    BY <1>13, <1>16, <2>1
  <2> QED
    BY <1>11, <2>2
<1> QED
  BY <1>5, <1>6, <1>17 DEF Joins

(* The elements of two joined sequences.                                       *)
LEMMA ConcatElements ==
    ASSUME NEW S, NEW s \in Seq(S), NEW t \in Seq(S)
    PROVE  ToSet(s \o t) = ToSet(s) \union ToSet(t)
<1> DEFINE st == s \o t
<1>1. /\ st \in Seq(S) /\ Len(st) = Len(s) + Len(t)
      /\ \A i \in 1 .. Len(s) + Len(t) : st[i] = IF i <= Len(s) THEN s[i] ELSE t[i - Len(s)]
  BY ConcatProperties
<1>2. /\ Len(s) \in Nat /\ Len(t) \in Nat
      /\ DOMAIN s = 1..Len(s) /\ DOMAIN t = 1..Len(t) /\ DOMAIN st = 1..Len(s) + Len(t)
  BY <1>1, LenProperties
<1> HIDE DEF st
<1>3. ASSUME NEW i \in DOMAIN st PROVE st[i] \in ToSet(s) \union ToSet(t)
  <2>1. CASE i <= Len(s)
    <3>1. i \in DOMAIN s /\ st[i] = s[i]
      BY <1>1, <1>2, <2>1
    <3> QED
      BY <3>1 DEF ToSet
  <2>2. CASE ~(i <= Len(s))
    <3>1. i - Len(s) \in DOMAIN t /\ st[i] = t[i - Len(s)]
      BY <1>1, <1>2, <2>2
    <3> QED
      BY <3>1 DEF ToSet
  <2> QED
    BY <2>1, <2>2
<1>4. ASSUME NEW i \in DOMAIN s PROVE s[i] \in ToSet(st)
  <2>1. i \in DOMAIN st /\ st[i] = s[i]
    BY <1>1, <1>2
  <2> QED
    BY <2>1 DEF ToSet
<1>5. ASSUME NEW i \in DOMAIN t PROVE t[i] \in ToSet(st)
  <2>1. Len(s) + i \in DOMAIN st /\ st[Len(s) + i] = t[i]
    <3>1. Len(s) + i \in 1..Len(s) + Len(t) /\ ~(Len(s) + i <= Len(s))
          /\ (Len(s) + i) - Len(s) = i
      BY <1>2
    <3> QED
      BY <1>1, <1>2, <3>1
  <2> QED
    BY <2>1 DEF ToSet
<1>6. ToSet(st) \subseteq ToSet(s) \union ToSet(t)
  BY <1>3 DEF ToSet
<1>7. ToSet(s) \union ToSet(t) \subseteq ToSet(st)
  BY <1>4, <1>5 DEF ToSet
<1> QED
  BY <1>6, <1>7 DEF st

(* The joined sequence has the elements of its pieces and no others.           *)
LEMMA FlattenElements ==
    ASSUME NEW S, NEW seqs \in Seq(Seq(S))
    PROVE  /\ FlattenSeq(seqs) \in Seq(S)
           /\ \A x : x \in ToSet(FlattenSeq(seqs)) <=>
                       \E i \in DOMAIN seqs : x \in ToSet(seqs[i])
<1>1. CASE Len(seqs) = 0
  <2>1. FlattenSeq(seqs) = seqs /\ seqs = <<>> /\ DOMAIN seqs = {}
    <3>1. seqs = <<>>
      BY <1>1, EmptySeq
    <3> QED
      BY <1>1, <3>1 DEF FlattenSeq
  <2>2. ToSet(FlattenSeq(seqs)) = {}
    BY <2>1 DEF ToSet
  <2> QED
    BY <2>1, <2>2, EmptySeq
<1>2. CASE Len(seqs) # 0
  <2>1. PICK m \in Nat : Len(seqs) = m + 1
    <3>1. Len(seqs) - 1 \in Nat /\ Len(seqs) = (Len(seqs) - 1) + 1
      BY <1>2, LenProperties
    <3> QED
      BY <3>1
  <2>2. DOMAIN seqs = 1..m + 1 /\ \A i \in 1..m + 1 : seqs[i] \in Seq(S)
    BY <2>1, ElementOfSeq, LenProperties
  <2>a. PICK f \in [0..m -> Seq(S)] : Joins(f, seqs, m)
    BY <2>1, JoinExists
  <2>3. /\ FlattenSeq(seqs) = f[m]
        /\ f[0] = seqs[1]
        /\ \A i \in 1..m : f[i] = f[i - 1] \o seqs[i + 1]
    BY <2>a DEF Joins
  <2> DEFINE Good == {k \in 0..m : \A x : x \in ToSet(f[k]) <=>
                                          \E i \in 1..k + 1 : x \in ToSet(seqs[i])}
  <2>4. 0 \in Good
    <3>1. \A x : x \in ToSet(f[0]) <=> \E i \in 1..1 : x \in ToSet(seqs[i])
      BY <2>3
    <3> QED
      BY <3>1
  <2>5. ASSUME NEW k \in 1..m, k - 1 \in Good PROVE k \in Good
    <3>1. \A x : x \in ToSet(f[k - 1]) <=> \E i \in 1..k : x \in ToSet(seqs[i])
      <4>1. (k - 1) + 1 = k
        OBVIOUS
      <4> QED
        BY <2>5, <4>1
    <3>2. f[k - 1] \in Seq(S) /\ seqs[k + 1] \in Seq(S)
      BY <2>2
    <3>3. ToSet(f[k]) = ToSet(f[k - 1]) \union ToSet(seqs[k + 1])
      <4>1. ToSet(f[k - 1] \o seqs[k + 1]) = ToSet(f[k - 1]) \union ToSet(seqs[k + 1])
        BY <3>2, ConcatElements
      <4>2. f[k] = f[k - 1] \o seqs[k + 1]
        BY <2>3
      <4> QED
        BY <4>1, <4>2
    <3>4. \A i : i \in 1..k + 1 <=> i \in 1..k \/ i = k + 1
      OBVIOUS
    <3>5. \A x : x \in ToSet(f[k]) <=> \E i \in 1..k + 1 : x \in ToSet(seqs[i])
      BY <3>1, <3>3, <3>4
    <3> QED
      BY <3>5
  <2> HIDE DEF Good
  <2>6. m \in Good
    <3>1. \A k \in 0..m : k \in Good
      BY <2>4, <2>5, UpTo
    <3> QED
      BY <3>1
  <2>7. \A x : x \in ToSet(f[m]) <=> \E i \in 1..m + 1 : x \in ToSet(seqs[i])
    BY <2>6 DEF Good
  <2>8. f[m] \in Seq(S)
    OBVIOUS
  <2> HIDE DEF Good
  <2> QED
    BY <2>2, <2>3, <2>7, <2>8
<1> QED
  BY <1>1, <1>2

(* Division rounded up: so many pieces of at most L hold n, and no piece is    *)
(* empty.                                                                      *)
LEMMA Pieces ==
    ASSUME NEW n \in Nat, NEW L \in Nat \ {0}
    PROVE  /\ (n + L - 1) \div L \in Nat
           /\ n <= ((n + L - 1) \div L) * L
           /\ \A k \in 1..((n + L - 1) \div L) : (k - 1) * L \in Nat /\ (k - 1) * L < n
<1> DEFINE K == (n + L - 1) \div L
<1>1. K \in Nat
  OBVIOUS
<1>2. K * L <= n + L - 1 /\ n + L - 1 < K * L + L
  OBVIOUS
<1> HIDE DEF K
<1>3. K * L \in Nat
  BY <1>1
<1>4. n <= K * L
  BY <1>2, <1>3
<1>5. ASSUME NEW k \in 1..K PROVE (k - 1) * L \in Nat /\ (k - 1) * L < n
  <2>1. (k - 1) * L \in Nat
    BY <1>1
  <2>2. (K - k) * L \in Nat /\ K - k \in Nat
    BY <1>1
  <2>3. K * L = (k - 1) * L + (K - k) * L + L
    BY <1>1
  <2> QED
    BY <1>2, <1>3, <2>1, <2>2, <2>3
<1> QED
  BY <1>1, <1>4, <1>5 DEF K

(* The joined sequence is built piece by piece.                                *)
LEMMA FlattenChain ==
    ASSUME NEW S, NEW seqs \in Seq(Seq(S))
    PROVE  \E f \in [0..Len(seqs) -> Seq(S)] :
              /\ f[0] = <<>> /\ FlattenSeq(seqs) = f[Len(seqs)]
              /\ \A i \in 1..Len(seqs) : f[i] = f[i - 1] \o seqs[i]
<1> DEFINE n == Len(seqs)
<1>1. n \in Nat /\ \A i \in 1..n : seqs[i] \in Seq(S)
  BY ElementOfSeq, LenProperties
<1>2. CASE n = 0
  <2> DEFINE f == [i \in 0..0 |-> <<>>]
  <2>1. FlattenSeq(seqs) = <<>>
    BY <1>2, EmptySeq DEF FlattenSeq
  <2>2. f \in [0..n -> Seq(S)] /\ f[0] = <<>> /\ f[n] = <<>>
    BY <1>2, EmptySeq
  <2>3. \A i \in 1..n : FALSE
    BY <1>2
  <2> HIDE DEF f
  <2> QED
    BY <2>1, <2>2, <2>3
<1>3. CASE n # 0
  <2> DEFINE m == n - 1
  <2>1. m \in Nat /\ n = m + 1
    BY <1>1, <1>3
  <2> HIDE DEF m
  <2>2. PICK g \in [0..m -> Seq(S)] : Joins(g, seqs, m)
    BY <2>1, JoinExists
  <2> DEFINE f == [i \in 0..n |-> IF i = 0 THEN <<>> ELSE g[i - 1]]
  <2>3. f[0] = <<>> /\ \A i \in 1..n : f[i] = g[i - 1]
    BY <1>1
  <2>4. f \in [0..n -> Seq(S)]
    <3>1. \A i \in 0..n : i # 0 => i - 1 \in 0..m
      BY <2>1
    <3>2. <<>> \in Seq(S) /\ \A i \in 0..m : g[i] \in Seq(S)
      BY EmptySeq
    <3> QED
      BY <3>1, <3>2
  <2> HIDE DEF f
  <2>5. FlattenSeq(seqs) = f[n]
    <3>1. f[n] = g[m]
      BY <2>1, <2>3
    <3> QED
      BY <2>2, <3>1 DEF Joins
  <2>6. ASSUME NEW i \in 1..n PROVE f[i] = f[i - 1] \o seqs[i]
    <3>1. CASE i = 1
      <4>1. f[1] = g[0] /\ f[i - 1] = <<>>
        BY <1>1, <1>3, <2>3, <3>1
      <4>2. g[0] = seqs[1] /\ seqs[1] \in Seq(S)
        BY <1>1, <2>2, <3>1 DEF Joins
      <4> QED
        BY <3>1, <4>1, <4>2, ConcatEmptySeq
    <3>2. CASE i # 1
      <4>1. i - 1 \in 1..m /\ i - 1 \in 1..n /\ (i - 1) + 1 = i
        BY <2>1, <3>2
      <4>2. g[i - 1] = g[(i - 1) - 1] \o seqs[(i - 1) + 1]
        BY <2>2, <4>1 DEF Joins
      <4> QED
        BY <2>3, <4>1, <4>2
    <3> QED
      BY <3>1, <3>2
  <2> QED
    BY <2>3, <2>4, <2>5, <2>6
<1> QED
  BY <1>2, <1>3

(* The elements of two sequences keep their order when these are joined.       *)
LEMMA ConcatOrder ==
    ASSUME NEW S, NEW s \in Seq(S), NEW t \in Seq(S), NEW st, st = s \o t
    PROVE  /\ Len(s) \in Nat /\ Len(t) \in Nat /\ Len(st) = Len(s) + Len(t)
           /\ \A j \in 1..Len(s) : st[j] = s[j]
           /\ \A j \in 1..Len(t) : st[Len(s) + j] = t[j]
<1>1. /\ Len(st) = Len(s) + Len(t)
      /\ \A i \in 1 .. Len(s) + Len(t) : st[i] = IF i <= Len(s) THEN s[i] ELSE t[i - Len(s)]
  BY ConcatProperties
<1>2. Len(s) \in Nat /\ Len(t) \in Nat
  BY LenProperties
<1>3. \A j \in 1..Len(s) : st[j] = s[j]
  BY <1>1, <1>2
<1>4. ASSUME NEW j \in 1..Len(t) PROVE st[Len(s) + j] = t[j]
  <2>1. \A a, b \in Nat : \A c \in 1..b : /\ a + c \in 1..a + b /\ ~(a + c <= a)
                                          /\ (a + c) - a = c
    OBVIOUS
  <2>2. /\ Len(s) + j \in 1..Len(s) + Len(t) /\ ~(Len(s) + j <= Len(s))
        /\ (Len(s) + j) - Len(s) = j
    BY <1>2, <2>1
  <2> QED
    BY <1>1, <2>2
<1> QED
  BY <1>1, <1>2, <1>3, <1>4

(* Where the pieces are in the joined sequence: piece i starts after off[i-1]. *)
Placed(off, seqs) ==
    LET n == Len(seqs)
    IN  /\ off \in [0..n -> Nat] /\ off[0] = 0 /\ Len(FlattenSeq(seqs)) = off[n]
        /\ \A i \in 1..n : off[i] = off[i - 1] + Len(seqs[i])
        /\ \A k \in 1..off[n] : \E i \in 1..n : k \in off[i - 1] + 1..off[i]
        /\ \A i \in 1..n : /\ off[i] <= off[n]
                           /\ \A j \in 1..Len(seqs[i]) :
                                 FlattenSeq(seqs)[off[i - 1] + j] = seqs[i][j]

LEMMA FlattenPlaces ==
    ASSUME NEW S, NEW seqs \in Seq(Seq(S))
    PROVE  \E off : Placed(off, seqs)
<1> DEFINE n == Len(seqs)
<1>1. n \in Nat /\ \A i \in 1..n : seqs[i] \in Seq(S) /\ Len(seqs[i]) \in Nat
  BY ElementOfSeq, LenProperties
<1>2. PICK f \in [0..n -> Seq(S)] :
              /\ f[0] = <<>> /\ FlattenSeq(seqs) = f[n]
              /\ \A i \in 1..n : f[i] = f[i - 1] \o seqs[i]
  BY FlattenChain
<1> DEFINE off == [i \in 0..n |-> Len(f[i])]
<1>3. off \in [0..n -> Nat] /\ \A i \in 0..n : off[i] = Len(f[i])
  BY LenProperties
<1> HIDE DEF off
<1>4. off[0] = 0
  BY <1>1, <1>2, <1>3
<1>5. ASSUME NEW i \in 1..n
      PROVE  /\ i - 1 \in 0..n /\ i \in 0..n
             /\ off[i - 1] \in Nat /\ off[i] \in Nat
             /\ off[i] = off[i - 1] + Len(seqs[i])
             /\ \A j \in 1..off[i - 1] : f[i][j] = f[i - 1][j]
             /\ \A j \in 1..Len(seqs[i]) : f[i][off[i - 1] + j] = seqs[i][j]
  <2>1. i - 1 \in 0..n /\ i \in 0..n
    OBVIOUS
  <2>2. f[i - 1] \in Seq(S) /\ seqs[i] \in Seq(S) /\ f[i] = f[i - 1] \o seqs[i]
    BY <1>1, <1>2, <2>1
  <2>3. /\ Len(f[i - 1]) \in Nat /\ Len(seqs[i]) \in Nat
        /\ Len(f[i]) = Len(f[i - 1]) + Len(seqs[i])
        /\ \A j \in 1..Len(f[i - 1]) : f[i][j] = f[i - 1][j]
        /\ \A j \in 1..Len(seqs[i]) : f[i][Len(f[i - 1]) + j] = seqs[i][j]
    <3> DEFINE s == f[i - 1]
               t == seqs[i]
               st == f[i]
    <3>1. s \in Seq(S) /\ t \in Seq(S) /\ st = s \o t
      BY <2>2
    <3> HIDE DEF s, t, st
    <3>2. /\ Len(s) \in Nat /\ Len(t) \in Nat /\ Len(st) = Len(s) + Len(t)
          /\ \A j \in 1..Len(s) : st[j] = s[j]
          /\ \A j \in 1..Len(t) : st[Len(s) + j] = t[j]
      BY <3>1, ConcatOrder
    <3> QED
      BY <3>2 DEF s, t, st
  <2>4. off[i - 1] = Len(f[i - 1]) /\ off[i] = Len(f[i])
    BY <1>3, <2>1
  <2>5. off[i] \in Nat
    BY <1>3, <2>1
  <2> QED
    BY <2>1, <2>3, <2>4, <2>5
<1> DEFINE Good == {k \in 0..n :
              /\ \A p \in 1..off[k] : \E i \in 1..k : p \in off[i - 1] + 1..off[i]
              /\ \A i \in 1..k : /\ off[i] <= off[k]
                                 /\ \A j \in 1..Len(seqs[i]) : f[k][off[i - 1] + j] = seqs[i][j]}
<1>6. 0 \in Good
  BY <1>1, <1>4
<1>7. ASSUME NEW k \in 1..n, k - 1 \in Good PROVE k \in Good
  <2>1. /\ off[k - 1] \in Nat /\ off[k] \in Nat /\ off[k] = off[k - 1] + Len(seqs[k])
        /\ Len(seqs[k]) \in Nat
        /\ \A j \in 1..off[k - 1] : f[k][j] = f[k - 1][j]
        /\ \A j \in 1..Len(seqs[k]) : f[k][off[k - 1] + j] = seqs[k][j]
    BY <1>1, <1>5
  <2>2. /\ \A p \in 1..off[k - 1] : \E i \in 1..k - 1 : p \in off[i - 1] + 1..off[i]
        /\ \A i \in 1..k - 1 : /\ off[i] <= off[k - 1]
                               /\ \A j \in 1..Len(seqs[i]) :
                                     f[k - 1][off[i - 1] + j] = seqs[i][j]
    BY <1>7
  <2>3. \A i \in 1..k : i = k \/ i \in 1..k - 1
    OBVIOUS
  <2>4. ASSUME NEW p \in 1..off[k] PROVE \E i \in 1..k : p \in off[i - 1] + 1..off[i]
    <3>1. CASE p <= off[k - 1]
      <4>1. PICK i \in 1..k - 1 : p \in off[i - 1] + 1..off[i]
        BY <2>1, <2>2, <3>1
      <4>2. i \in 1..k
        OBVIOUS
      <4> QED
        BY <4>1, <4>2
    <3>2. CASE ~(p <= off[k - 1])
      <4>1. p \in off[k - 1] + 1..off[k] /\ k \in 1..k
        BY <2>1, <3>2
      <4> QED
        BY <4>1
    <3> QED
      BY <3>1, <3>2
  <2>5. ASSUME NEW i \in 1..k
        PROVE  /\ off[i] <= off[k]
               /\ \A j \in 1..Len(seqs[i]) : f[k][off[i - 1] + j] = seqs[i][j]
    <3>1. CASE i = k
      BY <2>1, <3>1
    <3>2. CASE i \in 1..k - 1
      <4>1. i \in 1..n
        OBVIOUS
      <4>2. /\ off[i - 1] \in Nat /\ off[i] \in Nat /\ off[i] = off[i - 1] + Len(seqs[i])
            /\ Len(seqs[i]) \in Nat
        BY <1>1, <1>5, <4>1
      <4>3. off[i] <= off[k - 1]
        BY <2>2, <3>2
      <4>4. ASSUME NEW j \in 1..Len(seqs[i]) PROVE f[k][off[i - 1] + j] = seqs[i][j]
        <5>0. \A a, b, c, d \in Nat : d = a + b /\ d <= c => \A e \in 1..b : a + e \in 1..c
          OBVIOUS
        <5>1. off[i - 1] + j \in 1..off[k - 1]
          BY <2>1, <4>2, <4>3, <5>0
        <5>2. f[k][off[i - 1] + j] = f[k - 1][off[i - 1] + j]
          BY <2>1, <5>1
        <5>3. f[k - 1][off[i - 1] + j] = seqs[i][j]
          BY <2>2, <3>2
        <5> QED
          BY <5>2, <5>3
      <4> QED
        BY <2>1, <4>2, <4>3, <4>4
    <3> QED
      BY <2>3, <3>1, <3>2
  <2>6. k \in 0..n
    OBVIOUS
  <2> QED
    BY <2>4, <2>5, <2>6
<1> HIDE DEF Good
<1>8. n \in Good
  <2>1. \A k \in 0..n : k \in Good
    BY <1>1, <1>6, <1>7, UpTo
  <2> QED
    BY <1>1, <2>1
<1>9. Len(FlattenSeq(seqs)) = off[n]
  <2>1. n \in 0..n
    BY <1>1
  <2> QED
    BY <1>2, <1>3, <2>1
<1>10. \A i \in 1..n : off[i] = off[i - 1] + Len(seqs[i])
  BY <1>5
<1>11. /\ \A p \in 1..off[n] : \E i \in 1..n : p \in off[i - 1] + 1..off[i]
       /\ \A i \in 1..n : /\ off[i] <= off[n]
                          /\ \A j \in 1..Len(seqs[i]) : f[n][off[i - 1] + j] = seqs[i][j]
  BY <1>8 DEF Good
<1>12. Placed(off, seqs)
  BY <1>2, <1>3, <1>4, <1>9, <1>10, <1>11 DEF Placed
<1> QED
  BY <1>12

(* A piece starts after those before it. *)
LEMMA PlacesGrow ==
    ASSUME NEW n \in Nat, NEW off \in [0..n -> Nat],
           \A i \in 1..n : off[i - 1] <= off[i]
    PROVE  \A i, k \in 0..n : i <= k => off[i] <= off[k]
<1> DEFINE Good == {k \in 0..n : \A i \in 0..k : off[i] <= off[k]}
<1>1. 0 \in Good
  OBVIOUS
<1>2. ASSUME NEW k \in 1..n, k - 1 \in Good PROVE k \in Good
  <2>1. k - 1 \in 0..n /\ k \in 0..n /\ off[k - 1] \in Nat /\ off[k] \in Nat /\ off[k - 1] <= off[k]
    OBVIOUS
  <2>2. ASSUME NEW i \in 0..k PROVE off[i] <= off[k]
    <3>1. i = k \/ i \in 0..k - 1
      OBVIOUS
    <3>2. CASE i \in 0..k - 1
      <4>1. off[i] <= off[k - 1] /\ off[i] \in Nat
        BY <1>2, <3>2
      <4> QED
        BY <2>1, <4>1
    <3> QED
      BY <2>1, <3>1, <3>2
  <2> QED
    BY <2>1, <2>2
<1> HIDE DEF Good
<1>3. \A k \in 0..n : k \in Good
  BY <1>1, <1>2, UpTo
<1> QED
  BY <1>3 DEF Good

(* Pieces of one element each at growing places, and nothing anywhere else,    *)
(* join to the sequence of these elements.                                     *)
LEMMA FlattenPicks ==
    ASSUME NEW S, NEW seqs \in Seq(Seq(S)), NEW s \in Seq(S), NEW at,
           \A i \in 1..Len(s) : at[i] \in 1..Len(seqs) /\ seqs[at[i]] = <<s[i]>>,
           \A i, k \in 1..Len(s) : i < k => at[i] < at[k],
           \A p \in 1..Len(seqs) : (\A i \in 1..Len(s) : at[i] # p) => seqs[p] = <<>>
    PROVE  FlattenSeq(seqs) = s
<1> DEFINE n == Len(s)
           N == Len(seqs)
<1>1. n \in Nat /\ N \in Nat /\ \A i \in 1..n : at[i] \in 1..N
  BY LenProperties
<1>2. PICK f \in [0..N -> Seq(S)] :
              /\ f[0] = <<>> /\ FlattenSeq(seqs) = f[N]
              /\ \A i \in 1..N : f[i] = f[i - 1] \o seqs[i]
  BY FlattenChain
<1> DEFINE Upto(k, m) == f[k] = SubSeq(s, 1, m) /\ \A i \in 1..n : at[i] <= k <=> i <= m
           Good == {k \in 0..N : \E m \in 0..n : Upto(k, m)}
<1>3. 0 \in Good
  <2>1. SubSeq(s, 1, 0) = <<>>
    BY SubSeqEmpty
  <2>2. \A i \in 1..n : ~(at[i] <= 0) /\ ~(i <= 0)
    BY <1>1
  <2>3. Upto(0, 0)
    BY <1>2, <2>1, <2>2
  <2> HIDE DEF Upto
  <2> QED
    BY <1>1, <2>3
<1>4. ASSUME NEW k \in 1..N, k - 1 \in Good PROVE k \in Good
  <2>1. PICK m \in 0..n : Upto(k - 1, m)
    BY <1>4
  <2>2. f[k] = SubSeq(s, 1, m) \o seqs[k] /\ \A i \in 1..n : at[i] <= k - 1 <=> i <= m
    BY <1>2, <2>1
  <2>3. CASE \E i \in 1..n : at[i] = k
    <3>1. PICK i \in 1..n : at[i] = k
      BY <2>3
    <3>2. i = m + 1
      <4>1. ~(i <= m)
        BY <2>2, <3>1
      <4>2. ASSUME i # m + 1 PROVE FALSE
        <5>1. m + 1 \in 1..n /\ m + 1 < i
          BY <1>1, <4>1, <4>2
        <5>2. at[m + 1] < k /\ at[m + 1] \in 1..N
          BY <1>1, <3>1, <5>1
        <5>3. at[m + 1] <= k - 1
          BY <5>2
        <5>4. m + 1 <= m
          BY <2>2, <5>1, <5>3
        <5> QED
          BY <5>4
      <4> QED
        BY <4>2
    <3>3. m + 1 \in 1..n /\ m + 1 \in 0..n /\ seqs[k] = <<s[m + 1]>>
      BY <3>1, <3>2
    <3>4. f[k] = SubSeq(s, 1, m + 1)
      <4>1. 1 \in 1..n /\ m + 1 \in 1..n /\ (m + 1) - 1 = m
        BY <1>1, <3>3
      <4>2. SubSeq(s, 1, m + 1) = SubSeq(s, 1, m) \o <<s[m + 1]>>
        BY <4>1, SubSeqRecursiveSecond
      <4> QED
        BY <2>2, <3>3, <4>2
    <3>5. ASSUME NEW j \in 1..n PROVE at[j] <= k <=> j <= m + 1
      <4>1. at[j] \in 1..N
        BY <1>1
      <4>2. CASE j < i
        BY <2>2, <3>1, <3>2, <4>1, <4>2
      <4>3. CASE j = i
        BY <3>1, <3>2, <4>3
      <4>4. CASE i < j
        BY <3>1, <3>2, <4>1, <4>4
      <4> QED
        BY <4>2, <4>3, <4>4
    <3>6. Upto(k, m + 1)
      BY <3>4, <3>5
    <3>7. k \in 0..N
      OBVIOUS
    <3> HIDE DEF Upto
    <3> QED
      BY <3>3, <3>6, <3>7
  <2>4. CASE \A i \in 1..n : at[i] # k
    <3>1. seqs[k] = <<>>
      BY <2>4
    <3>2. f[k - 1] \in Seq(S) /\ f[k - 1] = SubSeq(s, 1, m)
      BY <1>1, <1>2, <2>1
    <3>3. f[k] = SubSeq(s, 1, m)
      BY <2>2, <3>1, <3>2, ConcatEmptySeq
    <3>4. ASSUME NEW j \in 1..n PROVE at[j] <= k <=> j <= m
      <4>1. at[j] \in 1..N /\ at[j] # k
        BY <1>1, <2>4
      <4>2. at[j] <= k <=> at[j] <= k - 1
        BY <4>1
      <4> QED
        BY <2>2, <4>2
    <3>5. Upto(k, m)
      BY <3>3, <3>4
    <3>6. k \in 0..N
      OBVIOUS
    <3> HIDE DEF Upto
    <3> QED
      BY <3>5, <3>6
  <2> QED
    BY <2>3, <2>4
<1>5. N \in Good
  <2> HIDE DEF Good
  <2>1. \A k \in 0..N : k \in Good
    BY <1>1, <1>3, <1>4, UpTo
  <2>2. N \in 0..N
    BY <1>1
  <2> QED
    BY <2>1, <2>2
<1>6. PICK m \in 0..n : Upto(N, m)
  BY <1>5
<1>7. m = n
  <2>1. CASE n = 0
    BY <2>1
  <2>2. CASE n # 0
    <3>1. n \in 1..n
      BY <1>1, <2>2
    <3>2. at[n] <= N
      BY <1>1, <3>1
    <3>3. n <= m
      BY <1>6, <3>1, <3>2
    <3> QED
      BY <1>1, <3>3
  <2> QED
    BY <2>1, <2>2
<1> QED
  BY <1>2, <1>6, <1>7, SubSeqFull

(* A sequence cut into pieces of L elements, the last one shorter. *)
Cut(s, L) ==
    [k \in 1..((Len(s) + L - 1) \div L) |->
       SubSeq(s, (k - 1) * L + 1, IF k * L < Len(s) THEN k * L ELSE Len(s))]

(* Put together again, the pieces are the sequence. *)
LEMMA CutJoins ==
    ASSUME NEW S, NEW s \in Seq(S), NEW L \in Nat \ {0}
    PROVE  Cut(s, L) \in Seq(Seq(S)) /\ FlattenSeq(Cut(s, L)) = s
<1> DEFINE n == Len(s)
           K == (n + L - 1) \div L
           Stop(k) == IF k * L < n THEN k * L ELSE n
           c == Cut(s, L)
<1>1. n \in Nat
  BY LenProperties
<1>2. /\ K \in Nat /\ n <= K * L
      /\ \A k \in 1..K : (k - 1) * L \in Nat /\ (k - 1) * L < n
  BY <1>1, Pieces
<1>3. c = [k \in 1..K |-> SubSeq(s, (k - 1) * L + 1, Stop(k))]
  BY DEF Cut
<1> HIDE DEF n, K, c
<1>4. ASSUME NEW k \in 1..K
      PROVE  /\ Stop(k - 1) = (k - 1) * L /\ Stop(k - 1) \in 0..n /\ Stop(k) \in Stop(k - 1)..n
             /\ Stop(k) \in Nat
  <2>1. (k - 1) * L \in Nat /\ (k - 1) * L < n /\ k * L = (k - 1) * L + L /\ k * L \in Nat
    BY <1>2
  <2> QED
    BY <1>1, <2>1
<1>5. ASSUME NEW k \in 1..K
      PROVE  c[k] = SubSeq(s, Stop(k - 1) + 1, Stop(k)) /\ c[k] \in Seq(S)
  <2>1. c[k] = SubSeq(s, Stop(k - 1) + 1, Stop(k))
    BY <1>3, <1>4
  <2> HIDE DEF Stop
  <2>2. \A i \in Stop(k - 1) + 1..Stop(k) : i \in 1..Len(s)
    BY <1>1, <1>4 DEF n
  <2>3. \A i \in 1..Len(s) : s[i] \in S
    BY ElementOfSeq
  <2>4. Stop(k - 1) + 1 \in Int /\ Stop(k) \in Int
    BY <1>1, <1>4
  <2>5. \A i \in Stop(k - 1) + 1..Stop(k) : s[i] \in S
    BY <2>2, <2>3
  <2>6. SubSeq(s, Stop(k - 1) + 1, Stop(k)) \in Seq(S)
    BY <2>4, <2>5, SubSeqProperties
  <2> QED
    BY <2>1, <2>6
<1>6. c \in Seq(Seq(S)) /\ Len(c) = K
  <2>1. c = [k \in 1..K |-> c[k]]
    BY <1>3
  <2>2. c \in [1..K -> Seq(S)]
    BY <1>5, <2>1
  <2> QED
    BY <1>2, <2>2, SeqDef, LenProperties
<1>7. PICK f \in [0..K -> Seq(S)] :
              /\ f[0] = <<>> /\ FlattenSeq(c) = f[K]
              /\ \A i \in 1..K : f[i] = f[i - 1] \o c[i]
  BY <1>6, FlattenChain
<1> DEFINE Good == {k \in 0..K : f[k] = SubSeq(s, 1, Stop(k))}
<1>8. 0 \in Good
  <2>1. Stop(0) = 0
    BY <1>1
  <2>2. SubSeq(s, 1, 0) = <<>>
    BY SubSeqEmpty
  <2> HIDE DEF Stop
  <2> QED
    BY <1>2, <1>7, <2>1, <2>2
<1>9. ASSUME NEW k \in 1..K, k - 1 \in Good PROVE k \in Good
  <2> DEFINE a == Stop(k - 1)
             b == Stop(k)
  <2>1. f[k] = SubSeq(s, 1, a) \o SubSeq(s, a + 1, b)
    BY <1>5, <1>7, <1>9
  <2>2. a \in 0..n /\ b \in a..n
    BY <1>4
  <2> HIDE DEF Stop, a, b
  <2>3. 1 \in 1..Len(s) + 1 /\ a \in 1 - 1..Len(s) /\ b \in a..Len(s)
    BY <1>1, <2>2 DEF n
  <2>4. SubSeq(s, 1, a) \o SubSeq(s, a + 1, b) = SubSeq(s, 1, b)
    BY <2>3, ConcatAdjacentSubSeq
  <2>5. k \in 0..K
    BY <1>2
  <2> QED
    BY <2>1, <2>4, <2>5 DEF b
<1> HIDE DEF Good
<1>10. K \in Good
  <2>1. \A k \in 0..K : k \in Good
    BY <1>2, <1>8, <1>9, UpTo
  <2>2. K \in 0..K
    BY <1>2
  <2> QED
    BY <2>1, <2>2
<1>11. Stop(K) = n
  <2>1. K * L \in Nat
    BY <1>2
  <2> QED
    BY <1>1, <1>2, <2>1
<1>12. f[K] = SubSeq(s, 1, n)
  <2> HIDE DEF Stop
  <2> QED
    BY <1>10, <1>11 DEF Good
<1> QED
  BY <1>6, <1>7, <1>12, SubSeqFull DEF c, n
================================================================================
