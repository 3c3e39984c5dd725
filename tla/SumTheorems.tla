----------------------------- MODULE SumTheorems -----------------------------
(***************************************************************************)
(* Sums of a function's integer values over a finite set of its arguments: *)
(* SumFunctionOnSet of the community module Functions.                     *)
(***************************************************************************)
EXTENDS FiniteSetTheorems, TLAPS

Additive(h, f, S) ==
    /\ h \in [SUBSET S -> Int]
    /\ h[{}] = 0
    /\ \A s \in SUBSET S : \A x \in S \ s : h[s \cup {x}] = h[s] + f[x]

\* Of the subsets of a finite set some are smallest: induction over finite
\* sets, in a form that needs no operator parameter.
LEMMA SmallestSubset ==
    ASSUME NEW S, IsFiniteSet(S), NEW T \in SUBSET (SUBSET S), T # {}
    PROVE  \E t \in T : \A u \in T : u \subseteq t => u = t
<1>1. IsWellFoundedOn(StrictSubsetOrdering(S), SUBSET S)
  BY FS_StrictSubsetOrderingWellFounded, FS_FiniteSubsetsOfFinite
<1>2. PICK t \in T : \A u \in T : <<u, t>> \notin StrictSubsetOrdering(S)
  BY <1>1, WFMin
<1>3. ASSUME NEW u \in T, u \subseteq t, u # t PROVE FALSE
  BY <1>2, <1>3 DEF StrictSubsetOrdering
<1> QED
  BY <1>2, <1>3

\* An additive function exists: a smallest set without one would be S.
LEMMA AdditiveExists ==
    ASSUME NEW S, IsFiniteSet(S), NEW f, \A x \in S : f[x] \in Int
    PROVE  \E h : Additive(h, f, S)
<1> DEFINE T == {t \in SUBSET S : ~ \E h : Additive(h, f, t)}
<1>1. SUFFICES ASSUME T # {} PROVE FALSE
  OBVIOUS
<1>0. T \in SUBSET (SUBSET S)
  OBVIOUS
<1> HIDE DEF T
<1>2. PICK t \in T : \A u \in T : u \subseteq t => u = t
  BY <1>0, <1>1, SmallestSubset
<1> USE DEF T
<1>3. CASE t = {}
  <2> DEFINE h == [s \in SUBSET t |-> 0]
  <2>1. Additive(h, f, t)
    BY <1>3 DEF Additive
  <2> QED
    BY <2>1
<1>4. CASE t # {}
  <2>1. PICK y \in t : TRUE
    BY <1>4
  <2>2. PICK h : Additive(h, f, t \ {y})
    BY <1>2, <2>1
  <2> DEFINE g == [s \in SUBSET t |->
                     IF y \in s THEN h[s \ {y}] + f[y] ELSE h[s]]
  <2>3. f[y] \in Int /\ y \in t /\ t \subseteq S
    BY <2>1
  <2> HIDE DEF T
  <2>4. g \in [SUBSET t -> Int]
    BY <2>2, <2>3 DEF Additive
  <2>5. g[{}] = 0
    BY <2>2 DEF Additive
  <2>6. ASSUME NEW s \in SUBSET t, NEW x \in t \ s
        PROVE  g[s \cup {x}] = g[s] + f[x]
    <3>1. CASE x = y
      <4>1. s \cup {x} \in SUBSET t /\ (s \cup {x}) \ {y} = s /\ y \notin s
        BY <2>6, <3>1
      <4> QED
        BY <3>1, <4>1
    <3>2. CASE x # y /\ y \in s
      <4>1. /\ s \cup {x} \in SUBSET t /\ y \in s \cup {x}
            /\ (s \cup {x}) \ {y} = (s \ {y}) \cup {x}
            /\ s \ {y} \in SUBSET (t \ {y}) /\ x \in (t \ {y}) \ (s \ {y})
        BY <2>6, <3>2
      <4>2. h[(s \ {y}) \cup {x}] = h[s \ {y}] + f[x]
        BY <4>1, <2>2 DEF Additive
      <4>3. h[s \ {y}] \in Int /\ f[x] \in Int
        BY <4>1, <2>2, <2>3 DEF Additive
      <4>4. g[s \cup {x}] = h[(s \ {y}) \cup {x}] + f[y]
        BY <4>1
      <4>5. g[s] = h[s \ {y}] + f[y]
        BY <3>2
      <4> HIDE DEF g
      <4> QED
        BY <4>2, <4>3, <4>4, <4>5, <2>3
    <3>3. CASE x # y /\ y \notin s
      <4>1. /\ s \cup {x} \in SUBSET t /\ y \notin s \cup {x}
            /\ s \in SUBSET (t \ {y}) /\ x \in (t \ {y}) \ s
        BY <2>6, <3>3
      <4> QED
        BY <4>1, <3>3, <2>2 DEF Additive
    <3> QED
      BY <3>1, <3>2, <3>3
  <2>7. Additive(g, f, t)
    BY <2>4, <2>5, <2>6 DEF Additive
  <2> QED
    BY <1>2, <2>7 DEF T
<1> QED
  BY <1>3, <1>4

\* The fold of the community modules is the additive function.
LEMMA SumIsAdditive ==
    ASSUME NEW S, IsFiniteSet(S), NEW f, NEW h, Additive(h, f, S),
           \A x \in S : f[x] \in Int
    PROVE  SumFunctionOnSet(f, S) = h[S]
<1> DEFINE Step(g) == [s \in SUBSET S |->
              IF s = {} THEN 0
              ELSE f[CHOOSE x \in s : TRUE] + g[s \ {CHOOSE x \in s : TRUE}]]
           iter == CHOOSE g : g = Step(g)
<1>1. SumFunctionOnSet(f, S) = iter[S]
  BY DEF SumFunctionOnSet, FoldFunctionOnSet, MapThenFoldSet
<1>2. h = Step(h)
  <2>1. ASSUME NEW s \in SUBSET S, s # {}
        PROVE  h[s] = f[CHOOSE x \in s : TRUE] + h[s \ {CHOOSE x \in s : TRUE}]
    <3> DEFINE x == CHOOSE x \in s : TRUE
    <3>1. x \in s
      BY <2>1
    <3> HIDE DEF x
    <3>2. s \ {x} \in SUBSET S /\ x \in S \ (s \ {x}) /\ (s \ {x}) \cup {x} = s
      BY <3>1
    <3>3. h[s] = h[s \ {x}] + f[x]
      BY <3>2 DEF Additive
    <3>4. h[s \ {x}] \in Int /\ f[x] \in Int
      BY <3>2 DEF Additive
    <3>5. h[s] = f[x] + h[s \ {x}]
      BY <3>3, <3>4
    <3> QED
      BY <3>5 DEF x
  <2> QED
    BY <2>1 DEF Additive
<1>3. iter = Step(iter)
  <2> HIDE DEF Step
  <2> QED
    BY <1>2
<1> HIDE DEF iter
<1> DEFINE T == {s \in SUBSET S : iter[s] # h[s]}
<1>4. T = {}
  <2>1. SUFFICES ASSUME T # {} PROVE FALSE
    OBVIOUS
  <2>0. T \in SUBSET (SUBSET S)
    OBVIOUS
  <2> HIDE DEF T
  <2>2. PICK t \in T : \A u \in T : u \subseteq t => u = t
    BY <2>0, <2>1, SmallestSubset
  <2> USE DEF T
  <2>3. t # {}
    BY <1>2, <1>3, <2>2
  <2> DEFINE x == CHOOSE x \in t : TRUE
  <2>4. x \in t
    BY <2>3
  <2>5. iter[t \ {x}] = h[t \ {x}]
    BY <2>2, <2>4
  <2>6. iter[t] = f[x] + iter[t \ {x}] /\ h[t] = f[x] + h[t \ {x}]
    BY <1>2, <1>3, <2>2, <2>3
  <2> QED
    BY <2>2, <2>5, <2>6
<1> QED
  BY <1>1, <1>4
-----------------------------------------------------------------------------
(* The facts the other modules cite. *)

\* The sum over the empty set.
LEMMA SumEmpty ==
    ASSUME NEW f
    PROVE  SumFunctionOnSet(f, {}) = 0
<1>1. IsFiniteSet({})
  BY FS_EmptySet
<1>2. PICK h : Additive(h, f, {})
  BY <1>1, AdditiveExists
<1>3. SumFunctionOnSet(f, {}) = h[{}]
  BY <1>1, <1>2, SumIsAdditive
<1> QED
  BY <1>2, <1>3 DEF Additive

\* A sum of integers is an integer.
LEMMA SumInt ==
    ASSUME NEW S, IsFiniteSet(S), NEW f, \A x \in S : f[x] \in Int
    PROVE  SumFunctionOnSet(f, S) \in Int
<1>1. PICK h : Additive(h, f, S)
  BY AdditiveExists
<1>2. SumFunctionOnSet(f, S) = h[S]
  BY <1>1, SumIsAdditive
<1> QED
  BY <1>1, <1>2 DEF Additive

\* One summand more.
LEMMA SumAdd ==
    ASSUME NEW S, IsFiniteSet(S), NEW x, x \notin S,
           NEW f, \A y \in S \cup {x} : f[y] \in Int
    PROVE  SumFunctionOnSet(f, S \cup {x}) = SumFunctionOnSet(f, S) + f[x]
<1> DEFINE U == S \cup {x}
<1>1. IsFiniteSet(U)
  BY FS_AddElement
<1> HIDE DEF U
<1>2. \A y \in U : f[y] \in Int
  BY DEF U
<1>3. PICK h : Additive(h, f, U)
  BY <1>1, <1>2, AdditiveExists
<1>4. SumFunctionOnSet(f, U) = h[U]
  BY <1>1, <1>2, <1>3, SumIsAdditive
<1> DEFINE g == [s \in SUBSET S |-> h[s]]
<1>5. Additive(g, f, S)
  <2>1. g \in [SUBSET S -> Int] /\ g[{}] = 0
    BY <1>3 DEF Additive, U
  <2>2. ASSUME NEW s \in SUBSET S, NEW y \in S \ s
        PROVE  g[s \cup {y}] = g[s] + f[y]
    <3>1. s \in SUBSET U /\ y \in U \ s /\ s \cup {y} \in SUBSET S
      BY DEF U
    <3> QED
      BY <1>3, <3>1 DEF Additive
  <2> QED
    BY <2>1, <2>2 DEF Additive
<1> HIDE DEF g
<1>6. SumFunctionOnSet(f, S) = g[S]
  BY <1>5, SumIsAdditive
<1>7. g[S] = h[S]
  BY DEF g
<1>8. h[U] = h[S] + f[x]
  <2>1. S \in SUBSET U /\ x \in U \ S /\ S \cup {x} = U
    BY DEF U
  <2> QED
    BY <1>3, <2>1 DEF Additive
<1> QED
  BY <1>4, <1>6, <1>7, <1>8 DEF U

\* Equal summands have equal sums.
LEMMA SumEqual ==
    ASSUME NEW S, IsFiniteSet(S), NEW f, NEW g,
           \A x \in S : f[x] \in Int /\ g[x] = f[x]
    PROVE  SumFunctionOnSet(g, S) = SumFunctionOnSet(f, S)
<1>1. PICK h : Additive(h, f, S)
  BY AdditiveExists
<1>2. Additive(h, g, S)
  BY <1>1 DEF Additive
<1>3. SumFunctionOnSet(f, S) = h[S]
  BY <1>1, SumIsAdditive
<1>4. SumFunctionOnSet(g, S) = h[S]
  BY <1>2, SumIsAdditive
<1> QED
  BY <1>3, <1>4

\* One summand changed.
LEMMA SumChange ==
    ASSUME NEW S, IsFiniteSet(S), NEW c \in S, NEW f, NEW g,
           \A x \in S : f[x] \in Int /\ g[x] \in Int,
           \A x \in S \ {c} : g[x] = f[x]
    PROVE  SumFunctionOnSet(g, S) = SumFunctionOnSet(f, S) - f[c] + g[c]
<1> DEFINE R == S \ {c}
<1>1. IsFiniteSet(R) /\ c \notin R /\ R \cup {c} = S
  BY FS_RemoveElement
<1>2. /\ \A x \in R : f[x] \in Int /\ g[x] = f[x]
      /\ \A x \in R \cup {c} : f[x] \in Int
      /\ \A x \in R \cup {c} : g[x] \in Int
  OBVIOUS
<1>0. f[c] \in Int /\ g[c] \in Int
  OBVIOUS
<1> HIDE DEF R
<1>3. SumFunctionOnSet(f, S) = SumFunctionOnSet(f, R) + f[c]
  BY <1>1, <1>2, SumAdd
<1>4. SumFunctionOnSet(g, S) = SumFunctionOnSet(g, R) + g[c]
  BY <1>1, <1>2, SumAdd
<1>5. SumFunctionOnSet(g, R) = SumFunctionOnSet(f, R)
  BY <1>1, <1>2, SumEqual
<1>6. SumFunctionOnSet(f, R) \in Int
  BY <1>1, <1>2, SumInt
<1> QED
  BY <1>0, <1>3, <1>4, <1>5, <1>6

\* Larger summands have a larger sum.
LEMMA SumWeaklyMonotonic ==
    ASSUME NEW S, IsFiniteSet(S), NEW f, NEW g,
           \A x \in S : f[x] \in Int /\ g[x] \in Int /\ f[x] =< g[x]
    PROVE  SumFunctionOnSet(f, S) =< SumFunctionOnSet(g, S)
<1> DEFINE T == {s \in SUBSET S :
                   ~ SumFunctionOnSet(f, s) =< SumFunctionOnSet(g, s)}
<1>1. SUFFICES ASSUME T # {} PROVE FALSE
  OBVIOUS
<1>2. T \in SUBSET (SUBSET S)
  OBVIOUS
<1> HIDE DEF T
<1>3. PICK t \in T : \A u \in T : u \subseteq t => u = t
  BY <1>1, <1>2, SmallestSubset
<1>4. t # {}
  <2>1. SumFunctionOnSet(f, {}) = 0 /\ SumFunctionOnSet(g, {}) = 0
    BY SumEmpty
  <2>2. SumFunctionOnSet(f, {}) =< SumFunctionOnSet(g, {})
    BY <2>1
  <2> QED
    BY <2>2 DEF T
<1>5. PICK x \in t : TRUE
  BY <1>4
<1> DEFINE u == t \ {x}
<1>6. u \subseteq t /\ u # t /\ x \notin u /\ u \cup {x} = t /\ t \subseteq S
      /\ u \in SUBSET S
  BY <1>2, <1>5
<1>7. IsFiniteSet(u)
  BY <1>6, FS_Subset
<1> HIDE DEF u
<1>8. SumFunctionOnSet(f, u) =< SumFunctionOnSet(g, u)
  BY <1>3, <1>6 DEF T
<1>9. /\ SumFunctionOnSet(f, t) = SumFunctionOnSet(f, u) + f[x]
      /\ SumFunctionOnSet(g, t) = SumFunctionOnSet(g, u) + g[x]
  <2>1. \A y \in u \cup {x} : f[y] \in Int /\ g[y] \in Int
    BY <1>6
  <2> QED
    BY <1>6, <1>7, <2>1, SumAdd
<1>10. /\ SumFunctionOnSet(f, u) \in Int /\ SumFunctionOnSet(g, u) \in Int
       /\ f[x] \in Int /\ g[x] \in Int /\ f[x] =< g[x]
  BY <1>6, <1>7, SumInt
<1>11. SumFunctionOnSet(f, t) =< SumFunctionOnSet(g, t)
  BY <1>8, <1>9, <1>10
<1> QED
  BY <1>3, <1>11 DEF T

\* A sum of natural numbers is one.
LEMMA SumNat ==
    ASSUME NEW S, IsFiniteSet(S), NEW f, \A x \in S : f[x] \in Nat
    PROVE  SumFunctionOnSet(f, S) \in Nat
<1> DEFINE zero == [x \in S |-> 0]
<1>1. /\ \A x \in S : zero[x] \in Int /\ f[x] \in Int /\ zero[x] =< f[x]
      /\ \A x \in S : zero[x] = 0
  OBVIOUS
<1> HIDE DEF zero
<1>2. SumFunctionOnSet(zero, S) =< SumFunctionOnSet(f, S)
  BY <1>1, SumWeaklyMonotonic
<1>3. SumFunctionOnSet(zero, S) = 0
  <2> DEFINE h == [s \in SUBSET S |-> 0]
  <2>1. Additive(h, zero, S) /\ h[S] = 0
    BY <1>1 DEF Additive
  <2> HIDE DEF h
  <2> QED
    BY <1>1, <2>1, SumIsAdditive
<1>4. SumFunctionOnSet(f, S) \in Int
  BY <1>1, SumInt
<1> QED
  BY <1>2, <1>3, <1>4

\* A part of natural summands has no larger sum.
LEMMA SumSubset ==
    ASSUME NEW S, IsFiniteSet(S), NEW R \in SUBSET S,
           NEW f, \A x \in S : f[x] \in Nat
    PROVE  SumFunctionOnSet(f, R) =< SumFunctionOnSet(f, S)
<1> DEFINE T == {s \in SUBSET S : /\ R \subseteq s
                                 /\ ~ SumFunctionOnSet(f, R)
                                         =< SumFunctionOnSet(f, s)}
<1>1. SUFFICES ASSUME T # {} PROVE FALSE
  OBVIOUS
<1>2. T \in SUBSET (SUBSET S)
  OBVIOUS
<1> HIDE DEF T
<1>3. PICK t \in T : \A u \in T : u \subseteq t => u = t
  BY <1>1, <1>2, SmallestSubset
<1>4. \A s \in SUBSET S :
         IsFiniteSet(s) /\ SumFunctionOnSet(f, s) \in Int
  BY SumInt, FS_Subset
<1>5. t \in SUBSET S /\ R \subseteq t
      /\ ~ SumFunctionOnSet(f, R) =< SumFunctionOnSet(f, t)
  BY <1>3 DEF T
<1>6. t # R
  BY <1>4, <1>5
<1>7. PICK x \in t : x \notin R
  BY <1>5, <1>6
<1> DEFINE u == t \ {x}
<1>8. /\ u \in SUBSET S /\ R \subseteq u /\ u # t /\ u \subseteq t
      /\ x \notin u /\ u \cup {x} = t
  BY <1>5, <1>7
<1> HIDE DEF u
<1>9. SumFunctionOnSet(f, R) =< SumFunctionOnSet(f, u)
  BY <1>3, <1>8 DEF T
<1>10. SumFunctionOnSet(f, t) = SumFunctionOnSet(f, u) + f[x]
  <2>1. \A y \in u \cup {x} : f[y] \in Int
    BY <1>5, <1>8
  <2> QED
    BY <1>4, <1>8, <2>1, SumAdd
<1>11. f[x] \in Nat
  BY <1>5
<1> QED
  BY <1>4, <1>5, <1>8, <1>9, <1>10, <1>11

\* A common factor.
LEMMA SumProduct ==
    ASSUME NEW S, IsFiniteSet(S), NEW f, NEW g, NEW m \in Int,
           \A x \in S : g[x] \in Int, \A x \in S : f[x] = m * g[x]
    PROVE  SumFunctionOnSet(f, S) = m * SumFunctionOnSet(g, S)
<1>1. PICK h : Additive(h, g, S)
  BY AdditiveExists
<1> DEFINE k == [s \in SUBSET S |-> m * h[s]]
<1>2. Additive(k, f, S)
  <2>1. k \in [SUBSET S -> Int] /\ k[{}] = 0
    BY <1>1 DEF Additive
  <2>2. ASSUME NEW s \in SUBSET S, NEW x \in S \ s
        PROVE  k[s \cup {x}] = k[s] + f[x]
    <3>1. s \cup {x} \in SUBSET S
      OBVIOUS
    <3>2. h[s] \in Int /\ g[x] \in Int /\ h[s \cup {x}] = h[s] + g[x]
      BY <1>1 DEF Additive
    <3>3. m * (h[s] + g[x]) = m * h[s] + m * g[x]
      BY <3>2
    <3> QED
      BY <3>1, <3>2, <3>3
  <2> QED
    BY <2>1, <2>2 DEF Additive
<1>3. k[S] = m * h[S]
  OBVIOUS
<1>4. \A x \in S : f[x] \in Int
  OBVIOUS
<1> HIDE DEF k
<1>5. SumFunctionOnSet(g, S) = h[S]
  BY <1>1, SumIsAdditive
<1>6. SumFunctionOnSet(f, S) = k[S]
  BY <1>2, <1>4, SumIsAdditive
<1> QED
  BY <1>3, <1>5, <1>6

\* The same summands under other names.
LEMMA SumRenamed ==
    ASSUME NEW S, IsFiniteSet(S), NEW f, NEW g, NEW b,
           \A x \in S : f[x] \in Int /\ g[b[x]] = f[x],
           \A x, y \in S : b[x] = b[y] => x = y
    PROVE  SumFunctionOnSet(g, {b[x] : x \in S}) = SumFunctionOnSet(f, S)
<1> DEFINE image(s) == {b[x] : x \in s}
           T == {s \in SUBSET S :
                   SumFunctionOnSet(g, image(s)) # SumFunctionOnSet(f, s)}
<1>1. SUFFICES ASSUME T # {} PROVE FALSE
  OBVIOUS
<1>2. T \in SUBSET (SUBSET S)
  OBVIOUS
<1> HIDE DEF T
<1>3. PICK t \in T : \A u \in T : u \subseteq t => u = t
  BY <1>1, <1>2, SmallestSubset
<1>4. t # {}
  <2>1. image({}) = {}
    OBVIOUS
  <2>2. SumFunctionOnSet(g, {}) = 0 /\ SumFunctionOnSet(f, {}) = 0
    BY SumEmpty
  <2> HIDE DEF image
  <2> QED
    BY <2>1, <2>2 DEF T
<1>5. PICK x \in t : TRUE
  BY <1>4
<1> DEFINE u == t \ {x}
<1>6. /\ u \in SUBSET S /\ u # t /\ u \subseteq t /\ x \notin u
      /\ u \cup {x} = t /\ t \in SUBSET S /\ x \in S
  BY <1>2, <1>5
<1> HIDE DEF u
<1>7. IsFiniteSet(u)
  BY <1>6, FS_Subset
<1> DEFINE v == {b[y] : y \in u}
           c == b[x]
<1>8. IsFiniteSet(v)
  <2> DEFINE onto == [y \in u |-> b[y]]
  <2>1. onto \in Surjection(u, v)
    BY DEF Surjection
  <2> QED
    BY <1>7, <2>1, FS_Surjection
<1>9. image(t) = v \cup {c} /\ image(u) = v /\ c \notin v /\ g[c] = f[x]
  BY <1>6
<1>10. \A y \in v \cup {c} : g[y] \in Int
  BY <1>6
<1> HIDE DEF image, v, c
<1>11. SumFunctionOnSet(g, v \cup {c}) = SumFunctionOnSet(g, v) + g[c]
  <2>1. c \notin v
    BY <1>9
  <2> QED
    BY ONLY <1>8, <1>10, <2>1, SumAdd
<1>12. SumFunctionOnSet(f, u \cup {x}) = SumFunctionOnSet(f, u) + f[x]
  <2>1. \A y \in u \cup {x} : f[y] \in Int
    BY <1>6
  <2> QED
    BY <1>6, <1>7, <2>1, SumAdd
<1>13. SumFunctionOnSet(g, v) = SumFunctionOnSet(f, u)
  BY <1>3, <1>6, <1>9 DEF T
<1>14. SumFunctionOnSet(g, image(t)) = SumFunctionOnSet(f, t)
  BY <1>6, <1>9, <1>11, <1>12, <1>13
<1> QED
  BY <1>3, <1>14 DEF T

-----------------------------------------------------------------------------
(* Largest values *)

\* A finite set that is not empty has a member with the largest value.
LEMMA LargestValue ==
    ASSUME NEW S, IsFiniteSet(S), S # {}, NEW f, \A x \in S : f[x] \in Int
    PROVE  \E m \in S : \A x \in S : f[x] =< f[m]
<1> DEFINE above(m) == {x \in S : f[m] =< f[x]}
           T == {above(m) : m \in S}
<1>1. T \in SUBSET (SUBSET S) /\ T # {}
  OBVIOUS
<1> HIDE DEF T
<1>2. PICK t \in T : \A u \in T : u \subseteq t => u = t
  BY <1>1, SmallestSubset
<1> USE DEF T
<1>3. PICK m \in S : t = above(m)
  OBVIOUS
<1>4. ASSUME NEW x \in S, ~ (f[x] =< f[m]) PROVE FALSE
  <2>1. f[m] \in Int /\ f[x] \in Int
    OBVIOUS
  <2>2. above(x) \subseteq above(m)
    <3>1. ASSUME NEW y \in above(x) PROVE f[m] =< f[y]
      <4>1. f[y] \in Int /\ f[x] =< f[y]
        OBVIOUS
      <4> QED
        BY <1>4, <2>1, <4>1
    <3> QED
      BY <3>1
  <2>3. m \in above(m) /\ m \notin above(x)
    BY <1>4, <2>1
  <2> QED
    BY <1>2, <1>3, <2>2, <2>3
<1> QED
  BY <1>3, <1>4

=============================================================================
