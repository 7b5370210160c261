--------------------------- MODULE SumTheorems ---------------------------
(***************************************************************************)
(* Facts about SumFunction, in which the models state every total of       *)
(* recorded time, and the two forms of induction they are proved with.     *)
(*                                                                         *)
(* A sum over a finite set is defined by a recursion that removes a chosen *)
(* element: it exists (SumsExist), two of them agree (SumsAgree), and any  *)
(* other element may be removed instead (SumWithout).                      *)
(***************************************************************************)
EXTENDS Integers, FiniteSets, Functions, WellFoundedInduction, FiniteSetTheorems, TLAPS

-----------------------------------------------------------------------------
(* Induction, over a set of numbers and over a set of sets.                *)

\* A set of numbers that holds 0 and the successor of each of its members holds them all.
LEMMA Induction ==
  ASSUME NEW S, 0 \in S, \A n \in Nat : n \in S => n + 1 \in S
  PROVE  Nat \subseteq S
<1> DEFINE R == {ss \in Nat \X Nat : ss[1] < ss[2]}
<1> DEFINE T == Nat \ S
<1>1. IsWellFoundedOn(R, Nat)
  BY NatLessThanWellFounded DEF OpToRel
<1>2. SUFFICES ASSUME T # {} PROVE FALSE
  OBVIOUS
<1>3. PICK x \in T : \A y \in T : <<y, x>> \notin R
  <2> HIDE DEF R, T
  <2>1. T \subseteq Nat BY DEF T
  <2> QED
    BY <1>1, <1>2, <2>1, WFMin
<1>4. x # 0 /\ x - 1 \in Nat /\ x - 1 \in T
  BY <1>3
<1>5. <<x - 1, x>> \in R
  BY <1>3, <1>4
<1> QED
  BY <1>3, <1>4, <1>5

\* A property of sets that the empty set has, and that survives adding an element, is one
\* of every finite set.
LEMMA SetInduction ==
  ASSUME NEW S, IsFiniteSet(S), NEW Good, {} \in Good,
         \A T \in SUBSET S : \A x \in S \ T : T \in Good => T \cup {x} \in Good
  PROVE  S \in Good
<1> DEFINE Sizes == {n \in Nat : \A T \in SUBSET S : Cardinality(T) = n => T \in Good}
<1>1. 0 \in Sizes
  BY FS_EmptySet, FS_Subset
<1>2. ASSUME NEW n \in Nat, n \in Sizes PROVE n + 1 \in Sizes
  <2> SUFFICES ASSUME NEW T \in SUBSET S, Cardinality(T) = n + 1 PROVE T \in Good
    OBVIOUS
  <2>1. IsFiniteSet(T) /\ T # {}
    BY FS_Subset, FS_EmptySet
  <2>2. PICK x : x \in T
    BY <2>1
  <2>3. Cardinality(T \ {x}) = n
    <3>1. Cardinality(T \ {x}) = Cardinality(T) - 1
      BY <2>1, <2>2, FS_RemoveElement
    <3> QED
      BY <3>1
  <2>4. T \ {x} \in Good
    BY <1>2, <2>3
  <2> QED
    BY <2>2, <2>4, (T \ {x}) \cup {x} = T
<1>3. Nat \subseteq Sizes
  <2> HIDE DEF Sizes
  <2> QED
    BY <1>1, <1>2, Induction
<1> QED
  BY <1>3, FS_CardinalityType

-----------------------------------------------------------------------------
(* The recursion behind a sum.                                             *)

Pick(s) == CHOOSE x \in s : TRUE

\* g[s] is the sum of f over s, for each s in D.
Sums(g, f, D) == g = [s \in D |-> IF s = {} THEN 0 ELSE f[Pick(s)] + g[s \ {Pick(s)}]]

\* The chosen element is one of the set.
LEMMA PickIn == \A s : s # {} => Pick(s) \in s
BY DEF Pick

\* The sum of the community module is the value of such a function.
LEMMA Unfold == \A f, S : SumFunctionOnSet(f, S) = (CHOOSE g : Sums(g, f, SUBSET S))[S]
BY DEF SumFunctionOnSet, FoldFunctionOnSet, MapThenFoldSet, Sums, Pick

\* The subsets of S with at most n elements.
UpTo(S, n) == {s \in SUBSET S : Cardinality(s) <= n}

\* Without the chosen element a set is smaller by one.
LEMMA Shrinks ==
  ASSUME NEW S, IsFiniteSet(S), NEW s \in SUBSET S, s # {}
  PROVE  /\ Pick(s) \in s /\ s \ {Pick(s)} \in SUBSET S
         /\ Cardinality(s) \in Nat \ {0} /\ Cardinality(s \ {Pick(s)}) = Cardinality(s) - 1
BY PickIn, FS_Subset, FS_CardinalityType, FS_RemoveElement, FS_EmptySet

\* The recursion has a solution on the subsets of a finite set.
LEMMA SumsExist ==
  ASSUME NEW S, IsFiniteSet(S), NEW f
  PROVE  \E g : Sums(g, f, SUBSET S)
<1> DEFINE Sizes == {n \in Nat : \E g : Sums(g, f, UpTo(S, n))}
<1>1. 0 \in Sizes
  <2>1. UpTo(S, 0) = {{}}
    BY FS_EmptySet, FS_Subset, FS_CardinalityType DEF UpTo
  <2>2. Sums([s \in {{}} |-> 0], f, {{}})
    BY DEF Sums
  <2> QED
    BY <2>1, <2>2
<1>2. ASSUME NEW n \in Nat, n \in Sizes PROVE n + 1 \in Sizes
  <2>1. PICK g : Sums(g, f, UpTo(S, n))
    BY <1>2
  <2> DEFINE h == [s \in UpTo(S, n + 1) |-> IF s = {} THEN 0 ELSE f[Pick(s)] + g[s \ {Pick(s)}]]
  <2>2. ASSUME NEW s \in UpTo(S, n + 1), s # {}
        PROVE  s \ {Pick(s)} \in UpTo(S, n) /\ s \ {Pick(s)} \in UpTo(S, n + 1)
    BY <2>2, Shrinks DEF UpTo
  <2>3. ASSUME NEW s \in UpTo(S, n) PROVE h[s] = g[s] /\ s \in UpTo(S, n + 1)
    <3>1. s \in UpTo(S, n + 1)
      BY FS_CardinalityType, FS_Subset DEF UpTo
    <3> QED
      BY <2>1, <3>1 DEF Sums
  <2>4. Sums(h, f, UpTo(S, n + 1))
    <3>1. h = [s \in UpTo(S, n + 1) |-> IF s = {} THEN 0 ELSE f[Pick(s)] + h[s \ {Pick(s)}]]
      <4>1. \A s \in UpTo(S, n + 1) : s # {} => h[s \ {Pick(s)}] = g[s \ {Pick(s)}]
        BY <2>2, <2>3
      <4> QED
        BY <4>1
    <3> HIDE DEF h
    <3> QED
      BY <3>1 DEF Sums
  <2> QED
    BY <2>4
<1>3. Cardinality(S) \in Sizes
  <2>1. Nat \subseteq Sizes
    <3> HIDE DEF Sizes
    <3> QED
      BY <1>1, <1>2, Induction
  <2> QED
    BY <2>1, FS_CardinalityType
<1>4. UpTo(S, Cardinality(S)) = SUBSET S
  BY FS_Subset DEF UpTo
<1> QED
  BY <1>3, <1>4

\* Solutions on different sets agree where both are defined.
LEMMA SumsAgree ==
  ASSUME NEW S, IsFiniteSet(S), NEW T \in SUBSET S, NEW f
  PROVE  \A g, h : Sums(g, f, SUBSET S) /\ Sums(h, f, SUBSET T) => h[T] = g[T]
<1> SUFFICES ASSUME NEW g, Sums(g, f, SUBSET S), NEW h, Sums(h, f, SUBSET T)
             PROVE  h[T] = g[T]
  OBVIOUS
<1> DEFINE Sizes == {n \in Nat : \A s \in SUBSET T : Cardinality(s) = n => h[s] = g[s]}
<1>0. IsFiniteSet(T)
  BY FS_Subset
<1>1. 0 \in Sizes
  BY <1>0, FS_EmptySet, FS_Subset DEF Sums
<1>2. ASSUME NEW n \in Nat, n \in Sizes PROVE n + 1 \in Sizes
  <2> SUFFICES ASSUME NEW s \in SUBSET T, Cardinality(s) = n + 1 PROVE h[s] = g[s]
    OBVIOUS
  <2>1. s # {}
    BY FS_EmptySet
  <2>2. s \ {Pick(s)} \in SUBSET T /\ h[s \ {Pick(s)}] = g[s \ {Pick(s)}]
    BY <1>0, <1>2, <2>1, Shrinks
  <2> QED
    BY <2>1, <2>2 DEF Sums
<1>3. Cardinality(T) \in Sizes
  <2>1. Nat \subseteq Sizes
    <3> HIDE DEF Sizes
    <3> QED
      BY <1>1, <1>2, Induction
  <2> QED
    BY <1>0, <2>1, FS_CardinalityType
<1> QED
  BY <1>3

\* Nothing sums to zero.
LEMMA SumEmpty == ASSUME NEW f PROVE SumFunctionOnSet(f, {}) = 0
<1>1. PICK g : Sums(g, f, SUBSET {}) BY SumsExist, FS_EmptySet
<1>2. Sums(CHOOSE h : Sums(h, f, SUBSET {}), f, SUBSET {}) BY <1>1
<1> QED
  BY <1>2, Unfold DEF Sums

\* The recursion the sum is defined by.
LEMMA SumStep ==
  ASSUME NEW S, IsFiniteSet(S), S # {}, NEW f
  PROVE  SumFunctionOnSet(f, S) = f[Pick(S)] + SumFunctionOnSet(f, S \ {Pick(S)})
<1> DEFINE T == S \ {Pick(S)}
           G == CHOOSE g : Sums(g, f, SUBSET S)
           H == CHOOSE h : Sums(h, f, SUBSET T)
<1>1. IsFiniteSet(T) BY FS_Subset
<1>2. Sums(G, f, SUBSET S) BY SumsExist
<1>3. Sums(H, f, SUBSET T) BY <1>1, SumsExist
<1>4. G[S] = f[Pick(S)] + G[T] 
  <2> HIDE DEF G
  <2> QED
    BY <1>2 DEF Sums
<1>5. \A g, h : Sums(g, f, SUBSET S) /\ Sums(h, f, SUBSET T) => h[T] = g[T]
  <2>1. T \in SUBSET S OBVIOUS
  <2> HIDE DEF G, H, T
  <2> QED
    BY <2>1, SumsAgree
<1>6. H[T] = G[T]
  <2> HIDE DEF G, H, T
  <2> QED
    BY <1>2, <1>3, <1>5
<1> QED
  BY <1>4, <1>6, Unfold

\* f is integer-valued on S.
IntOn(f, S) == \A x \in S : f[x] \in Int

\* A sum of integers is an integer.
LEMMA SumType ==
  ASSUME NEW S, IsFiniteSet(S), NEW f, IntOn(f, S)
  PROVE  SumFunctionOnSet(f, S) \in Int
<1> DEFINE Sizes == {n \in Nat : \A s \in SUBSET S : Cardinality(s) = n => SumFunctionOnSet(f, s) \in Int}
<1>1. 0 \in Sizes
  BY FS_EmptySet, FS_Subset, SumEmpty
<1>2. ASSUME NEW n \in Nat, n \in Sizes PROVE n + 1 \in Sizes
  <2> SUFFICES ASSUME NEW s \in SUBSET S, Cardinality(s) = n + 1 PROVE SumFunctionOnSet(f, s) \in Int
    OBVIOUS
  <2>1. s # {} /\ IsFiniteSet(s)
    BY FS_EmptySet, FS_Subset
  <2>2. Pick(s) \in S /\ SumFunctionOnSet(f, s \ {Pick(s)}) \in Int
    BY <1>2, <2>1, Shrinks
  <2>3. SumFunctionOnSet(f, s) = f[Pick(s)] + SumFunctionOnSet(f, s \ {Pick(s)})
    BY <2>1, SumStep
  <2> QED
    BY <2>2, <2>3 DEF IntOn
<1>3. Nat \subseteq Sizes
  <2> HIDE DEF Sizes
  <2> QED
    BY <1>1, <1>2, Induction
<1> QED
  BY <1>3, FS_CardinalityType

\* Any element may be taken first.
LEMMA SumWithout ==
  ASSUME NEW S, IsFiniteSet(S), NEW f, IntOn(f, S), NEW x \in S
  PROVE  SumFunctionOnSet(f, S) = f[x] + SumFunctionOnSet(f, S \ {x})
<1> DEFINE Sizes == {n \in Nat : \A s \in SUBSET S : Cardinality(s) = n =>
                       \A y \in s : SumFunctionOnSet(f, s) = f[y] + SumFunctionOnSet(f, s \ {y})}
<1>1. 0 \in Sizes
  BY FS_EmptySet, FS_Subset
<1>2. ASSUME NEW n \in Nat, n \in Sizes PROVE n + 1 \in Sizes
  <2> SUFFICES ASSUME NEW s \in SUBSET S, Cardinality(s) = n + 1, NEW y \in s
               PROVE SumFunctionOnSet(f, s) = f[y] + SumFunctionOnSet(f, s \ {y})
    OBVIOUS
  <2> DEFINE p == Pick(s)
             r == s \ {p}
             t == s \ {y}
  <2>1. s # {} /\ IsFiniteSet(s) /\ IsFiniteSet(r) /\ IsFiniteSet(t) /\ IsFiniteSet(r \ {y})
    BY FS_EmptySet, FS_Subset
  <2>2. SumFunctionOnSet(f, s) = f[p] + SumFunctionOnSet(f, r)
    BY <2>1, SumStep
  <2>3. p \in s /\ Cardinality(r) = n /\ Cardinality(t) = n
    BY <2>1, Shrinks, FS_RemoveElement, FS_CardinalityType
  <2>4. CASE p = y
    BY <2>2, <2>4
  <2>5. CASE p # y
    <3>1. y \in r /\ p \in t /\ t \ {p} = r \ {y}
      BY <2>3, <2>5
    <3>2. SumFunctionOnSet(f, r) = f[y] + SumFunctionOnSet(f, r \ {y})
      BY <1>2, <2>3, <3>1
    <3>3. SumFunctionOnSet(f, t) = f[p] + SumFunctionOnSet(f, r \ {y})
      BY <1>2, <2>3, <3>1
    <3>4. SumFunctionOnSet(f, r \ {y}) \in Int /\ f[p] \in Int /\ f[y] \in Int
      BY <2>1, <2>3, SumType DEF IntOn
    <3> QED
      BY <2>2, <3>2, <3>3, <3>4
  <2> QED
    BY <2>4, <2>5
<1>3. Nat \subseteq Sizes
  <2> HIDE DEF Sizes
  <2> QED
    BY <1>1, <1>2, Induction
<1> QED
  BY <1>3, FS_CardinalityType

-----------------------------------------------------------------------------
(* What the sums of the models rest on.                                    *)

\* One more element adds its value.
LEMMA SumWith ==
  ASSUME NEW S, IsFiniteSet(S), NEW x, x \notin S, NEW f, IntOn(f, S \cup {x})
  PROVE  SumFunctionOnSet(f, S \cup {x}) = f[x] + SumFunctionOnSet(f, S)
<1>1. IsFiniteSet(S \cup {x}) /\ (S \cup {x}) \ {x} = S
  BY FS_AddElement
<1> HIDE DEF IntOn
<1> QED
  BY <1>1, SumWithout

\* Functions that agree on the set have the same sum.
LEMMA SumAgree ==
  ASSUME NEW S, IsFiniteSet(S), NEW f, NEW g, IntOn(f, S), \A x \in S : f[x] = g[x]
  PROVE  SumFunctionOnSet(f, S) = SumFunctionOnSet(g, S)
<1> DEFINE Good == {T \in SUBSET S : SumFunctionOnSet(f, T) = SumFunctionOnSet(g, T)}
<1>1. {} \in Good
  BY SumEmpty
<1>2. ASSUME NEW T \in SUBSET S, NEW x \in S \ T, T \in Good PROVE T \cup {x} \in Good
  <2>1. IsFiniteSet(T) /\ IntOn(f, T \cup {x}) /\ IntOn(g, T \cup {x})
    BY FS_Subset DEF IntOn
  <2> QED
    BY <1>2, <2>1, SumWith
<1>3. S \in Good
  <2> HIDE DEF Good
  <2> QED
    BY <1>1, <1>2, SetInduction
<1> QED
  BY <1>3

\* Sums of disjoint sets add up.
LEMMA SumUnion ==
  ASSUME NEW S, IsFiniteSet(S), NEW T, IsFiniteSet(T), S \cap T = {}, NEW f, IntOn(f, S \cup T)
  PROVE  SumFunctionOnSet(f, S \cup T) = SumFunctionOnSet(f, S) + SumFunctionOnSet(f, T)
<1> DEFINE Good == {U \in SUBSET T :
                      SumFunctionOnSet(f, S \cup U) = SumFunctionOnSet(f, S) + SumFunctionOnSet(f, U)}
<1>0. IntOn(f, S)
  BY DEF IntOn
<1>1. {} \in Good
  BY <1>0, SumEmpty, SumType, S \cup {} = S
<1>2. ASSUME NEW U \in SUBSET T, NEW x \in T \ U, U \in Good PROVE U \cup {x} \in Good
  <2>1. IsFiniteSet(U) /\ IsFiniteSet(S \cup U) /\ IntOn(f, U \cup {x}) /\ IntOn(f, U)
        /\ IntOn(f, S \cup U \cup {x}) /\ x \notin S \cup U
    BY FS_Subset, FS_Union DEF IntOn
  <2>2. SumFunctionOnSet(f, (S \cup U) \cup {x}) = f[x] + SumFunctionOnSet(f, S \cup U)
    BY <2>1, SumWith
  <2>3. SumFunctionOnSet(f, U \cup {x}) = f[x] + SumFunctionOnSet(f, U)
    BY <2>1, SumWith
  <2>4. f[x] \in Int /\ SumFunctionOnSet(f, U) \in Int /\ SumFunctionOnSet(f, S) \in Int
    BY <1>0, <2>1, SumType DEF IntOn
  <2>5. S \cup (U \cup {x}) = (S \cup U) \cup {x}
    OBVIOUS
  <2>6. SumFunctionOnSet(f, S \cup U) = SumFunctionOnSet(f, S) + SumFunctionOnSet(f, U)
    BY <1>2
  <2>7. SumFunctionOnSet(f, S \cup (U \cup {x}))
          = SumFunctionOnSet(f, S) + SumFunctionOnSet(f, U \cup {x})
    <3>1. SumFunctionOnSet(f, S \cup (U \cup {x}))
            = f[x] + (SumFunctionOnSet(f, S) + SumFunctionOnSet(f, U))
      BY <2>2, <2>5, <2>6, Zenon
    <3>2. f[x] + (SumFunctionOnSet(f, S) + SumFunctionOnSet(f, U))
            = SumFunctionOnSet(f, S) + (f[x] + SumFunctionOnSet(f, U))
      BY <2>4
    <3> QED
      BY <2>3, <3>1, <3>2, Zenon
  <2> QED
    BY <2>7
<1>3. T \in Good
  <2> HIDE DEF Good
  <2> QED
    BY <1>1, <1>2, SetInduction
<1> QED
  BY <1>3

\* A sum of amounts none of which is negative is not negative.
LEMMA SumNotNegative ==
  ASSUME NEW S, IsFiniteSet(S), NEW f, \A x \in S : f[x] \in Nat
  PROVE  SumFunctionOnSet(f, S) \in Nat
<1> DEFINE Good == {T \in SUBSET S : SumFunctionOnSet(f, T) \in Nat}
<1>1. {} \in Good
  BY SumEmpty
<1>2. ASSUME NEW T \in SUBSET S, NEW x \in S \ T, T \in Good PROVE T \cup {x} \in Good
  <2>1. IsFiniteSet(T) /\ IntOn(f, T \cup {x})
    BY FS_Subset DEF IntOn
  <2> QED
    BY <1>2, <2>1, SumWith
<1>3. S \in Good
  <2> HIDE DEF Good
  <2> QED
    BY <1>1, <1>2, SetInduction
<1> QED
  BY <1>3

\* The sum over a table that gains one entry.
LEMMA TableGrows ==
  ASSUME NEW f, IsFiniteSet(DOMAIN f), NEW x, x \notin DOMAIN f, NEW g,
         DOMAIN g = DOMAIN f \cup {x}, IntOn(g, DOMAIN g), \A k \in DOMAIN f : g[k] = f[k]
  PROVE  SumFunction(g) = SumFunction(f) + g[x]
<1>1. SumFunctionOnSet(g, DOMAIN f \cup {x}) = g[x] + SumFunctionOnSet(g, DOMAIN f)
  BY SumWith
<1>2. IntOn(g, DOMAIN f)
  BY DEF IntOn
<1>3. SumFunctionOnSet(g, DOMAIN f) = SumFunctionOnSet(f, DOMAIN f)
  BY <1>2, SumAgree
<1>4. SumFunctionOnSet(g, DOMAIN f) \in Int /\ g[x] \in Int
  BY <1>2, SumType DEF IntOn
<1> QED
  BY <1>1, <1>3, <1>4 DEF SumFunction

\* The sum over a sequence that gains one element.
LEMMA SumAppended ==
  ASSUME NEW n \in Nat, NEW f, DOMAIN f = 1 .. n, NEW g, DOMAIN g = 1 .. n + 1,
         IntOn(g, 1 .. n + 1), \A i \in 1 .. n : g[i] = f[i]
  PROVE  SumFunction(g) = SumFunction(f) + g[n + 1]
<1>1. DOMAIN g = DOMAIN f \cup {n + 1} /\ n + 1 \notin DOMAIN f
  OBVIOUS
<1>2. IsFiniteSet(DOMAIN f)
  BY FS_Interval
<1>3. IntOn(g, DOMAIN g) /\ \A k \in DOMAIN f : g[k] = f[k]
  OBVIOUS
<1> QED
  BY <1>1, <1>2, <1>3, TableGrows
=============================================================================
