------------------------- MODULE BracketExitsProofs -------------------------
(***************************************************************************)
(* Proofs about BracketExits, for every plan, entry and increment.         *)
(***************************************************************************)
EXTENDS BracketExits, SumTheorems

(* Rounding *)

\* Division rounds down.
LEMMA DivBounds ==
    ASSUME NEW a \in Nat, NEW b \in Nat \ {0}
    PROVE  /\ a \div b \in Nat
           /\ (a \div b) * b =< a
           /\ a < (a \div b) * b + b
<1>1. a = b * (a \div b) + (a % b) /\ a % b \in 0..(b-1) /\ a \div b \in Int
  OBVIOUS
<1>2. a \div b >= 0
  OBVIOUS
<1> QED
  BY <1>1, <1>2

\* Nothing is lost of a multiple.
LEMMA DivMultiple ==
    ASSUME NEW m \in Nat, NEW b \in Nat \ {0}
    PROVE  (m * b) \div b = m
  OBVIOUS

\* A smaller multiple has a smaller factor.
LEMMA ScaledLess ==
    ASSUME NEW a \in Int, NEW b \in Int, NEW m \in Nat \ {0}, m * a =< m * b
    PROVE  a =< b
  OBVIOUS

\* A quantity is rounded down to a multiple of the increment.
LEMMA RoundedDown ==
    ASSUME NEW q \in Nat
    PROVE  /\ QuantizeDown(q) \in Nat /\ QuantizeDown(q) =< q
           /\ q \div QuantityIncrement \in Nat
           /\ QuantizeDown(q) = (q \div QuantityIncrement) * QuantityIncrement
  BY DivBounds, InstrumentAssumption DEF QuantizeDown

\* A multiple of the increment stays what it is.
LEMMA RoundedMultiple ==
    ASSUME NEW m \in Nat
    PROVE  QuantizeDown(m * QuantityIncrement) = m * QuantityIncrement
  BY DivMultiple, InstrumentAssumption DEF QuantizeDown

\* A price moves by less than half an increment down, or up by one half.
LEMMA RoundedPrice ==
    ASSUME NEW v \in Nat
    PROVE  /\ QuantizePrice(v) \in Nat
           /\ 2 * QuantizePrice(v) =< 2 * v + PriceIncrement
           /\ 2 * v - PriceIncrement < 2 * QuantizePrice(v)
<1> DEFINE a == 2 * v + PriceIncrement
           d == a \div (2 * PriceIncrement)
<1>1. a \in Nat /\ 2 * PriceIncrement \in Nat \ {0} /\ PriceIncrement \in Nat
  BY InstrumentAssumption
<1>2. /\ d \in Nat /\ d * (2 * PriceIncrement) =< a
      /\ a < d * (2 * PriceIncrement) + 2 * PriceIncrement
  BY <1>1, DivBounds
<1>3. QuantizePrice(v) = d * PriceIncrement
  BY DEF QuantizePrice
<1> HIDE DEF d
<1>4. d * (2 * PriceIncrement) = 2 * (d * PriceIncrement)
      /\ d * PriceIncrement \in Nat
  BY <1>1, <1>2
<1> QED
  BY <1>1, <1>2, <1>3, <1>4

-----------------------------------------------------------------------------
(* How a confirmed quantity is divided *)

\* Zero, which stands for the runner, is the number of no target.
LEMMA TargetNumbers ==
    /\ Targets \subseteq Nat \ {0} /\ IsFiniteSet(Targets)
    /\ \A i \in Targets : Fractions[i] \in Nat
    /\ Fractions \in [Targets -> Nat] /\ DOMAIN Fractions = Targets
<1>1. Fractions \in Seq(Nat)
  BY BracketAssumption
<1>2. Targets = 1..Len(Fractions) /\ Len(Fractions) \in Nat
  BY <1>1 DEF Targets
<1>3. IsFiniteSet(1..Len(Fractions))
  BY <1>2, FS_Interval
<1> QED
  BY <1>1, <1>2, <1>3 DEF Targets

\* A slice is a multiple of the increment and no larger than its fraction.
LEMMA SliceBounds ==
    ASSUME NEW q \in Nat, NEW i \in Targets
    PROVE  /\ SliceOf(q, i) \in Nat
           /\ Whole * SliceOf(q, i) =< QuantizeDown(q) * Fractions[i]
           /\ \E m \in Nat : SliceOf(q, i) = m * QuantityIncrement
<1> DEFINE a == QuantizeDown(q) * Fractions[i]
           d == a \div Whole
<1>1. Whole \in Nat \ {0}
  BY BracketAssumption
<1>2. a \in Nat
  BY TargetNumbers, RoundedDown
<1> HIDE DEF a
<1>3. d \in Nat /\ d * Whole =< a
  BY <1>1, <1>2, DivBounds
<1>4. SliceOf(q, i) = QuantizeDown(d)
  BY DEF SliceOf, a
<1> HIDE DEF d
<1>5. QuantizeDown(d) \in Nat /\ QuantizeDown(d) =< d
  BY <1>3, RoundedDown
<1>6. Whole * QuantizeDown(d) =< d * Whole
  BY <1>1, <1>3, <1>5
<1>7. Whole * QuantizeDown(d) =< a
  BY <1>1, <1>2, <1>3, <1>5, <1>6
<1>8. \E m \in Nat : QuantizeDown(d) = m * QuantityIncrement
  BY <1>3, RoundedDown
<1> QED
  BY <1>4, <1>5, <1>7, <1>8 DEF a

\* The slices together do not exceed the rounded quantity, and what they leave
\* is a multiple of the increment: the runner loses nothing.
LEMMA SlicesAndRunner ==
    ASSUME NEW q \in Nat
    PROVE  /\ Allocated(q) \in Nat /\ Runner(q) \in Nat
           /\ Allocated(q) + Runner(q) = QuantizeDown(q)
<1> DEFINE Q == QuantizeDown(q)
           slice == [i \in Targets |-> SliceOf(q, i)]
           multiple == [i \in Targets |-> Whole * SliceOf(q, i)]
           share == [i \in Targets |-> Q * Fractions[i]]
           units == [i \in Targets |->
                       CHOOSE m \in Nat : SliceOf(q, i) = m * QuantityIncrement]
           total(f) == SumFunctionOnSet(f, Targets)
<1>1. /\ Q \in Nat /\ Q =< q /\ q \div QuantityIncrement \in Nat
      /\ Q = (q \div QuantityIncrement) * QuantityIncrement
  BY RoundedDown
<1>2. Whole \in Nat \ {0} /\ QuantityIncrement \in Nat \ {0}
  BY BracketAssumption, InstrumentAssumption
<1>3. \A i \in Targets :
         /\ slice[i] \in Nat /\ multiple[i] = Whole * slice[i]
         /\ multiple[i] =< share[i] /\ share[i] = Q * Fractions[i]
         /\ slice[i] = QuantityIncrement * units[i] /\ units[i] \in Nat
  <2>1. SUFFICES ASSUME NEW i \in Targets
                 PROVE  /\ SliceOf(q, i) \in Nat
                        /\ Whole * SliceOf(q, i) =< Q * Fractions[i]
                        /\ SliceOf(q, i) = QuantityIncrement * units[i]
                        /\ units[i] \in Nat
    OBVIOUS
  <2>2. \E m \in Nat : SliceOf(q, i) = m * QuantityIncrement
    BY SliceBounds
  <2>3. units[i] \in Nat /\ SliceOf(q, i) = units[i] * QuantityIncrement
    BY <2>2
  <2> HIDE DEF units
  <2>4. units[i] * QuantityIncrement = QuantityIncrement * units[i]
    BY <1>2, <2>3
  <2> QED
    BY <2>3, <2>4, SliceBounds
<1>4. Allocated(q) = total(slice)
  BY DEF Allocated, SumFunction
<1>5. total(Fractions) \in Nat /\ total(Fractions) =< Whole
  <2>1. total(Fractions) =< Whole
    BY BracketAssumption, TargetNumbers DEF ValidPlan, SumFunction
  <2> QED
    BY <2>1, TargetNumbers, SumNat
<1> HIDE DEF slice, multiple, share, units, Q
<1>6. total(slice) \in Nat
  BY <1>3, TargetNumbers, SumNat
<1>7. total(multiple) = Whole * total(slice)
  <2>1. \A i \in Targets : slice[i] \in Int
    BY <1>3
  <2>2. \A i \in Targets : multiple[i] = Whole * slice[i]
    BY <1>3
  <2>3. IsFiniteSet(Targets) /\ Whole \in Int
    BY <1>2, TargetNumbers
  <2> QED
    BY ONLY <2>1, <2>2, <2>3, SumProduct
<1>8. total(share) = Q * total(Fractions)
  <2>1. \A i \in Targets :
           Fractions[i] \in Int /\ share[i] = Q * Fractions[i]
    BY <1>3, TargetNumbers
  <2>2. IsFiniteSet(Targets) /\ Q \in Int
    BY <1>1, TargetNumbers
  <2> QED
    BY ONLY <2>1, <2>2, SumProduct
<1>9. total(multiple) =< total(share)
  <2>1. \A i \in Targets : multiple[i] \in Int /\ share[i] \in Int
    BY <1>1, <1>2, <1>3, TargetNumbers
  <2> QED
    BY <1>3, <2>1, TargetNumbers, SumWeaklyMonotonic
<1>10. total(slice) = QuantityIncrement * total(units) /\ total(units) \in Nat
  <2>1. \A i \in Targets :
           units[i] \in Int /\ slice[i] = QuantityIncrement * units[i]
    BY <1>3
  <2>2. IsFiniteSet(Targets) /\ QuantityIncrement \in Int
    BY <1>2, TargetNumbers
  <2>3. total(slice) = QuantityIncrement * total(units)
    BY ONLY <2>1, <2>2, SumProduct
  <2>4. total(units) \in Nat
    BY <1>3, TargetNumbers, SumNat
  <2> QED
    BY <2>3, <2>4
<1> DEFINE u == total(units)
           w == q \div QuantityIncrement
<1> HIDE DEF total, u, w
<1>11. total(slice) =< Q
  <2>1. Q * total(Fractions) =< Whole * Q
    BY <1>1, <1>2, <1>5
  <2>2. Whole * total(slice) =< Whole * Q
    BY <1>1, <1>2, <1>5, <1>6, <1>7, <1>8, <1>9, <2>1
  <2> QED
    BY <1>1, <1>2, <1>6, <2>2, ScaledLess
<1>12. Runner(q) = Q - total(slice)
  <2>1. w \in Nat /\ u \in Nat /\ Q = w * QuantityIncrement
        /\ total(slice) = QuantityIncrement * u
    BY <1>1, <1>10 DEF u, w
  <2>2. /\ Q - total(slice) = (w - u) * QuantityIncrement
        /\ QuantityIncrement * u =< QuantityIncrement * w
    BY <1>2, <1>11, <2>1
  <2>3. w - u \in Nat
    BY <1>2, <2>1, <2>2, ScaledLess
  <2>4. QuantizeDown((w - u) * QuantityIncrement)
           = (w - u) * QuantityIncrement
    BY <2>3, RoundedMultiple
  <2> QED
    BY <1>4, <2>2, <2>4 DEF Runner, Q
<1> QED
  BY <1>1, <1>4, <1>6, <1>11, <1>12 DEF Q

-----------------------------------------------------------------------------
(* The exits that are compiled *)

Numbers == Targets \cup {0}
Kinds == {"stop", "target"}

\* The venue links the stop and the target of a slice.
Links == native /\ Targets # {}

\* What is asked under an id, and in which group.
Cap(q, id) ==
    IF id[2] \in Targets
    THEN IF Links \/ id[1] = "target" THEN SliceOf(q, id[2]) ELSE 0
    ELSE IF id[1] = "target" THEN 0
    ELSE IF Links THEN Runner(q) ELSE QuantizeDown(q)

GroupOf(id) == IF Links /\ id[2] \in Targets THEN id[2] ELSE NoGroup

\* Every exit asks for what its id stands for.
LEMMA ExitShape ==
    ASSUME NEW q \in Nat, NEW e \in Exits(q)
    PROVE  /\ e.id \in Ids /\ e.id[1] \in Kinds /\ e.id[2] \in Numbers
           /\ e.quantity = Cap(q, e.id) /\ e.group = GroupOf(e.id)
           /\ e.price = Trigger(e.id[1], e.id[2])
<1>1. 0 \notin Targets
  BY TargetNumbers
<1>2. CASE Links
  <2>1. e \in OcoExits(q)
    BY <1>2 DEF Exits, Links
  <2>2. CASE \E kind \in Kinds, i \in Targets :
                e = ExitIntent(kind, i, SliceOf(q, i), SliceGroup(i))
    BY <1>1, <1>2, <2>2
       DEF ExitIntent, Ids, Kinds, Numbers, Cap, GroupOf, SliceGroup
  <2>3. CASE e = ExitIntent("stop", 0, Runner(q), NoGroup)
    BY <1>1, <1>2, <2>3 DEF ExitIntent, Ids, Kinds, Numbers, Cap, GroupOf
  <2> QED
    BY <2>1, <2>2, <2>3 DEF OcoExits, Kinds
<1>3. CASE ~ Links
  <2>1. e \in ReduceOnlyExits(q)
    BY <1>3 DEF Exits, Links
  <2>2. CASE \E i \in Targets :
                e = ExitIntent("target", i, SliceOf(q, i), NoGroup)
    BY <1>1, <1>3, <2>2 DEF ExitIntent, Ids, Kinds, Numbers, Cap, GroupOf
  <2>3. CASE e = ExitIntent("stop", 0, QuantizeDown(q), NoGroup)
    BY <1>1, <1>3, <2>3 DEF ExitIntent, Ids, Kinds, Numbers, Cap, GroupOf
  <2> QED
    BY <2>1, <2>2, <2>3 DEF ReduceOnlyExits
<1> QED
  BY <1>2, <1>3

\* The quantity under an id is a natural number.
LEMMA CapNat ==
    ASSUME NEW q \in Nat, NEW id \in Ids
    PROVE  Cap(q, id) \in Nat
  BY SliceBounds, SlicesAndRunner, RoundedDown DEF Cap

\* Under no kind of id is asked for more than the rounded quantity.
LEMMA CapsFit ==
    ASSUME NEW q \in Nat, NEW kind \in Kinds
    PROVE  SumFunctionOnSet([i \in Numbers |-> Cap(q, <<kind, i>>)], Numbers)
              =< QuantizeDown(q)
<1> DEFINE cap == [i \in Numbers |-> Cap(q, <<kind, i>>)]
           slice == [i \in Targets |-> SliceOf(q, i)]
           zero == [i \in Targets |-> 0]
           total(f) == SumFunctionOnSet(f, Targets)
<1>1. 0 \notin Targets /\ IsFiniteSet(Targets)
  BY TargetNumbers
<1>2. \A i \in Numbers : cap[i] \in Nat
  BY CapNat DEF Ids, Kinds, Numbers
<1>3. cap[0] = IF kind = "target" THEN 0
               ELSE IF Links THEN Runner(q) ELSE QuantizeDown(q)
  BY <1>1 DEF Cap, Numbers
<1>4. \A i \in Targets :
         cap[i] = IF Links \/ kind = "target" THEN slice[i] ELSE 0
  BY DEF Cap, Numbers
<1>5. total(slice) = Allocated(q)
  BY DEF Allocated, SumFunction
<1>6. \A i \in Targets : slice[i] \in Int
  BY SliceBounds
<1> HIDE DEF cap, slice
<1>7. SumFunctionOnSet(cap, Numbers) = total(cap) + cap[0]
  <2>1. \A i \in Targets \cup {0} : cap[i] \in Int
    BY <1>2 DEF Numbers
  <2> QED
    BY <1>1, <2>1, SumAdd DEF Numbers
<1>8. CASE Links \/ kind = "target"
  <2>1. total(cap) = total(slice)
    BY <1>1, <1>4, <1>6, <1>8, SumEqual
  <2>2. Allocated(q) + cap[0] =< QuantizeDown(q)
    BY <1>3, <1>8, SlicesAndRunner, RoundedDown
  <2> QED
    BY <1>5, <1>7, <2>1, <2>2 DEF cap
<1>9. CASE ~ (Links \/ kind = "target")
  <2>1. \A i \in Targets : slice[i] \in Int /\ cap[i] = 0 * slice[i]
    BY <1>4, <1>6, <1>9
  <2>2. total(cap) = 0 * total(slice)
    BY <1>1, <2>1, SumProduct
  <2>3. total(slice) \in Int
    BY <1>1, <1>6, SumInt
  <2> QED
    BY <1>3, <1>7, <1>9, <2>2, <2>3, RoundedDown DEF cap
<1> QED
  BY <1>8, <1>9

\* The ids under which there are exits.
LEMMA ExitIds ==
    ASSUME NEW q
    PROVE  /\ \A i \in Targets : \E e \in Exits(q) : e.id = <<"target", i>>
           /\ Links =>
                 \A i \in Targets : \E e \in Exits(q) : e.id = <<"stop", i>>
           /\ Links /\ Runner(q) > 0 => \E e \in Exits(q) : e.id = <<"stop", 0>>
           /\ ~ Links => \E e \in Exits(q) : e.id = <<"stop", 0>>
<1>1. \A kind, i, n, g : ExitIntent(kind, i, n, g).id = <<kind, i>>
  BY DEF ExitIntent
<1>2. CASE Links
  <2>1. Exits(q) = OcoExits(q)
    BY <1>2 DEF Exits, Links
  <2>2. ASSUME NEW kind \in {"stop", "target"}, NEW i \in Targets
        PROVE  ExitIntent(kind, i, SliceOf(q, i), SliceGroup(i)) \in OcoExits(q)
    BY DEF OcoExits
  <2>3. ExitIntent("stop", 0, Runner(q), NoGroup).quantity = Runner(q)
    BY DEF ExitIntent
  <2>4. Runner(q) > 0 =>
           ExitIntent("stop", 0, Runner(q), NoGroup) \in OcoExits(q)
    BY <2>3 DEF OcoExits
  <2> QED
    BY <1>1, <1>2, <2>1, <2>2, <2>4
<1>3. CASE ~ Links
  <2>1. Exits(q) = ReduceOnlyExits(q)
    BY <1>3 DEF Exits, Links
  <2>2. ASSUME NEW i \in Targets
        PROVE  ExitIntent("target", i, SliceOf(q, i), NoGroup)
                  \in ReduceOnlyExits(q)
    BY DEF ReduceOnlyExits
  <2>3. ExitIntent("stop", 0, QuantizeDown(q), NoGroup) \in ReduceOnlyExits(q)
    BY DEF ReduceOnlyExits
  <2> QED
    BY <1>1, <1>3, <2>1, <2>2, <2>3
<1> QED
  BY <1>2, <1>3

\* What the intents of one kind ask for, summed by their numbers.
LEMMA AskedByNumber ==
    ASSUME NEW q \in Nat, NEW kind \in Kinds, NEW J \in SUBSET Numbers,
           \A i \in J : \E e \in Exits(q) : e.id = <<kind, i>>,
           \A e \in Exits(q) : e.id[1] = kind => e.id[2] \in J
    PROVE  Asked(Exits(q), kind)
              = SumFunctionOnSet([i \in Numbers |-> Cap(q, <<kind, i>>)], J)
<1> DEFINE D == {e \in Exits(q) : e.id[1] = kind}
           b == [i \in J |-> ExitIntent(kind, i, Cap(q, <<kind, i>>),
                                        GroupOf(<<kind, i>>))]
           f == [i \in Numbers |-> Cap(q, <<kind, i>>)]
           g == [e \in D |-> e.quantity]
           image == {b[i] : i \in J}
<1>1. ASSUME NEW e \in D PROVE e.id[2] \in J /\ e = b[e.id[2]]
  <2>1. /\ e.id \in Ids /\ e.quantity = Cap(q, e.id)
        /\ e.group = GroupOf(e.id) /\ e.price = Trigger(e.id[1], e.id[2])
    BY ExitShape
  <2>2. e.id = <<kind, e.id[2]>> /\ e.id[2] \in J
    BY <2>1 DEF Ids
  <2>3. e = [id |-> e.id, quantity |-> e.quantity, group |-> e.group,
             price |-> e.price]
    BY DEF Exits, OcoExits, ReduceOnlyExits, ExitIntent
  <2> QED
    BY <2>1, <2>2, <2>3 DEF ExitIntent
<1>2. ASSUME NEW i \in J PROVE b[i] \in D /\ b[i].quantity = f[i]
  <2>1. PICK e \in Exits(q) : e.id = <<kind, i>>
    OBVIOUS
  <2>2. e \in D /\ e.id[2] = i
    BY <2>1
  <2>3. b[i] = e
    BY <1>1, <2>2
  <2>4. b[i].quantity = f[i]
    BY DEF ExitIntent
  <2> QED
    BY <2>2, <2>3, <2>4
<1>3. D = image
  BY <1>1, <1>2
<1>4. \A i, j \in J : b[i] = b[j] => i = j
  <2>1. ASSUME NEW i \in J PROVE b[i].id = <<kind, i>>
    BY DEF ExitIntent
  <2> QED
    BY <2>1
<1>5. \A i \in J : f[i] \in Int /\ g[b[i]] = f[i]
  <2>1. \A i \in J : f[i] \in Nat
    BY CapNat DEF Ids, Kinds, Numbers
  <2>2. \A i \in J : g[b[i]] = b[i].quantity
    BY <1>2
  <2> HIDE DEF D, b, f, g
  <2> QED
    BY <1>2, <2>1, <2>2
<1>6. IsFiniteSet(J)
  <2>1. IsFiniteSet(Numbers)
    BY TargetNumbers, FS_AddElement DEF Numbers
  <2> QED
    BY <2>1, FS_Subset
<1>7. Asked(Exits(q), kind) = SumFunctionOnSet(g, D)
  BY DEF Asked, SumFunction
<1> HIDE DEF D, b, f, g
<1>8. SumFunctionOnSet(g, image) = SumFunctionOnSet(f, J)
  BY ONLY <1>4, <1>5, <1>6, SumRenamed
<1> QED
  BY <1>3, <1>7, <1>8 DEF f

\* CompiledStopsCover holds of whatever is confirmed.
LEMMA StopsCover == CompiledStopsCover
<1> SUFFICES ASSUME NEW q \in 1..entry, Compiles(q)
             PROVE  /\ Asked(Exits(q), "stop") = QuantizeDown(q)
                    /\ Asked(Exits(q), "target") <= QuantizeDown(q)
  BY DEF CompiledStopsCover
<1>0. q \in Nat
  OBVIOUS
<1> DEFINE cap(kind) == [i \in Numbers |-> Cap(q, <<kind, i>>)]
<1>1. /\ 0 \notin Targets /\ IsFiniteSet(Targets) /\ Targets \subseteq Numbers
      /\ IsFiniteSet(Numbers) /\ 0 \in Numbers
  BY TargetNumbers, FS_AddElement DEF Numbers
<1>2. /\ \A i \in Numbers : cap("stop")[i] \in Nat
      /\ \A i \in Numbers : cap("target")[i] \in Nat
  <2>1. ASSUME NEW kind \in {"stop", "target"}, NEW i \in Numbers
        PROVE  Cap(q, <<kind, i>>) \in Nat
    <3>1. <<kind, i>> \in Ids
      BY DEF Ids, Numbers
    <3> QED
      BY <1>0, <3>1, CapNat
  <2> QED
    BY <2>1
<1>3. Asked(Exits(q), "target") <= QuantizeDown(q)
  <2>1. \A i \in Targets : \E e \in Exits(q) : e.id = <<"target", i>>
    BY ExitIds
  <2>2. ASSUME NEW e \in Exits(q), e.id[1] = "target"
        PROVE  e.id[2] \in Targets
    BY <2>2 DEF Exits, OcoExits, ReduceOnlyExits, ExitIntent
  <2>3. Asked(Exits(q), "target") = SumFunctionOnSet(cap("target"), Targets)
    BY <1>0, <1>1, <2>1, <2>2, AskedByNumber DEF Kinds
  <2>4. SumFunctionOnSet(cap("target"), Targets)
           =< SumFunctionOnSet(cap("target"), Numbers)
    BY <1>1, <1>2, SumSubset DEF Kinds
  <2>5. SumFunctionOnSet(cap("target"), Numbers) =< QuantizeDown(q)
    BY <1>0, CapsFit DEF Kinds
  <2>6. /\ SumFunctionOnSet(cap("target"), Numbers) \in Int
        /\ SumFunctionOnSet(cap("target"), Targets) \in Int
    <3> DEFINE f == cap("target")
    <3> HIDE DEF cap
    <3>1. \A i \in Numbers : f[i] \in Int
      BY <1>2
    <3> HIDE DEF f
    <3>2. /\ SumFunctionOnSet(f, Numbers) \in Int
          /\ SumFunctionOnSet(f, Targets) \in Int
      BY <1>1, <3>1, SumInt
    <3> QED
      BY <3>2 DEF f
  <2> QED
    BY <1>0, <2>3, <2>4, <2>5, <2>6, RoundedDown
<1>4. Asked(Exits(q), "stop") = QuantizeDown(q)
  <2> DEFINE f == cap("stop")
             slice == [i \in Targets |-> SliceOf(q, i)]
  <2>1. CASE Links
    <3>1. \A i \in Targets : slice[i] \in Int /\ f[i] = slice[i]
      BY <1>0, <2>1, SliceBounds DEF Cap, Numbers
    <3>2. f[0] = Runner(q)
      BY <1>1, <2>1 DEF Cap
    <3>3. SumFunctionOnSet(slice, Targets) = Allocated(q)
      BY DEF Allocated, SumFunction
    <3>4. \A i \in Targets : \E e \in Exits(q) : e.id = <<"stop", i>>
      BY <2>1, ExitIds
    <3> HIDE DEF f, slice
    <3>5. SumFunctionOnSet(f, Targets) = Allocated(q)
      BY <1>1, <3>1, <3>3, SumEqual
    <3>6. CASE Runner(q) > 0
      <4>1. \E e \in Exits(q) : e.id = <<"stop", 0>>
        BY <2>1, <3>6, ExitIds
      <4>2. Asked(Exits(q), "stop") = SumFunctionOnSet(f, Numbers)
        <5>1. \A i \in Numbers : \E e \in Exits(q) : e.id = <<"stop", i>>
          BY <3>4, <4>1 DEF Numbers
        <5>2. \A e \in Exits(q) : e.id[2] \in Numbers
          BY <1>0, ExitShape
        <5> QED
          BY <1>0, <5>1, <5>2, AskedByNumber DEF Kinds, f
      <4>3. SumFunctionOnSet(f, Numbers) = SumFunctionOnSet(f, Targets) + f[0]
        <5> HIDE DEF cap
        <5>1. \A i \in Targets \cup {0} : f[i] \in Int
          BY <1>2 DEF f, Numbers
        <5> QED
          BY <1>1, <5>1, SumAdd DEF Numbers
      <4> QED
        BY <1>0, <3>2, <3>5, <4>2, <4>3, SlicesAndRunner
    <3>7. CASE ~ Runner(q) > 0
      <4>1. ASSUME NEW e \in Exits(q), e.id[1] = "stop"
            PROVE  e.id[2] \in Targets
        BY <2>1, <3>7, <4>1 DEF Links, Exits, OcoExits, ExitIntent
      <4>2. Asked(Exits(q), "stop") = SumFunctionOnSet(f, Targets)
        BY <1>0, <1>1, <3>4, <4>1, AskedByNumber DEF Kinds, f
      <4> QED
        BY <1>0, <3>5, <3>7, <4>2, SlicesAndRunner
    <3> QED
      BY <3>6, <3>7
  <2>2. CASE ~ Links
    <3>1. \A i \in {0} : \E e \in Exits(q) : e.id = <<"stop", i>>
      BY <2>2, ExitIds
    <3>2. ASSUME NEW e \in Exits(q), e.id[1] = "stop" PROVE e.id[2] \in {0}
      BY <2>2, <3>2 DEF Links, Exits, ReduceOnlyExits, ExitIntent
    <3>3. {0} \in SUBSET Numbers
      BY <1>1
    <3>4. Asked(Exits(q), "stop") = SumFunctionOnSet(f, {0})
      BY <1>0, <3>1, <3>2, <3>3, AskedByNumber DEF Kinds
    <3>5. f[0] = QuantizeDown(q) /\ f[0] \in Nat
      BY <1>0, <1>1, <2>2, RoundedDown DEF Cap
    <3> HIDE DEF f
    <3>6. SumFunctionOnSet(f, {0}) = f[0]
      <4>1. IsFiniteSet({}) /\ 0 \notin {} /\ {} \cup {0} = {0}
        BY FS_EmptySet
      <4>2. \A i \in {} \cup {0} : f[i] \in Int
        BY <3>5
      <4>3. SumFunctionOnSet(f, {} \cup {0}) = SumFunctionOnSet(f, {}) + f[0]
        BY <4>1, <4>2, SumAdd
      <4>4. SumFunctionOnSet(f, {}) = 0
        BY SumEmpty
      <4> QED
        BY <3>5, <4>1, <4>3, <4>4
    <3> QED
      BY <3>4, <3>5, <3>6
  <2> QED
    BY <2>1, <2>2
<1> QED
  BY <1>3, <1>4

\* Theorem: whatever is confirmed, the stops that compile_exit_intents makes of
\* it add up to that quantity, rounded, and the targets to no more.
THEOREM CompiledSafety == Spec => []CompiledStopsCover
<1>1. CompiledStopsCover
  BY StopsCover
<1> QED
  BY <1>1, PTL

-----------------------------------------------------------------------------
(* The inductive invariant *)

Order == [status : {"absent", "working", "over"}, quantity : Nat,
          filled : Nat, group : Numbers]

TypesHold ==
    /\ native \in BOOLEAN /\ open \in BOOLEAN
    /\ entry \in Nat /\ cost \in Nat /\ position \in Int
    /\ exits \in [Ids -> Order]

\* While the entry may fill, nothing is compiled or sent.
Quiet == open => pending = {} /\ \A id \in Ids : exits[id] = Absent

\* What is pending was compiled from the entry as it is.
Fresh ==
    /\ pending \subseteq Exits(entry)
    /\ pending # {} => ValidAgainstEntry /\ Compiles(entry)

\* An order asks for no more than its id stands for, in its group.
RowOK(id) ==
    /\ exits[id].filled =< exits[id].quantity
    /\ exits[id].quantity =< Cap(entry, id)
    /\ IF exits[id].status = "absent" THEN exits[id] = Absent
       ELSE exits[id].group = GroupOf(id)
RowsOK == \A id \in Ids : RowOK(id)

\* What the stop and the target of a number have closed, and all of them.
Taken == [i \in Numbers |->
            exits[<<"stop", i>>].filled + exits[<<"target", i>>].filled]
Balance == position = entry - SumFunctionOnSet(Taken, Numbers)

\* A slice is closed once: what its two orders have filled, and what one that
\* works may still fill, fit into it.
SlicesOK ==
    Links => \A i \in Targets :
       /\ Taken[i] =< SliceOf(entry, i)
       /\ \A kind \in Kinds : Working(<<kind, i>>) =>
             Taken[i] + Remaining(<<kind, i>>) =< SliceOf(entry, i)

\* Without links reduce-only keeps the position.
ReduceOnlyOK == ~ native => position >= 0

Inv ==
    /\ TypesHold /\ Quiet /\ Fresh /\ RowsOK /\ Balance /\ SlicesOK
    /\ ReduceOnlyOK

\* The numbers of targets, zero, and the ids made of them.
LEMMA NumberFacts ==
    /\ 0 \notin Targets /\ IsFiniteSet(Targets) /\ Targets \subseteq Numbers
    /\ IsFiniteSet(Numbers) /\ Numbers = Targets \cup {0}
    /\ Numbers \subseteq Nat
    /\ Ids = Kinds \X Numbers
  BY TargetNumbers, FS_AddElement DEF Numbers, Ids, Kinds

\* Inv holds before the entry has filled.
LEMMA InitInv == Init => Inv
<1> SUFFICES ASSUME Init PROVE Inv
  OBVIOUS
<1>1. \A id \in Ids : exits[id] = Absent
  BY DEF Init
<1>2. Absent \in Order
  BY DEF Absent, Order, NoGroup, Numbers
<1>3. TypesHold /\ Quiet /\ Fresh /\ ReduceOnlyOK
  BY <1>2 DEF Init, TypesHold, Quiet, Fresh, ReduceOnlyOK
<1>4. RowsOK
  BY <1>1, CapNat DEF Init, RowsOK, RowOK, Absent
<1>5. \A i \in Numbers : Taken[i] = 0
  BY <1>1, NumberFacts DEF Taken, Absent, Kinds
<1>6. Balance
  <2>1. \A i \in Numbers : Taken[i] \in Int /\ Taken[i] = 0 * Taken[i]
    BY <1>5
  <2>2. SumFunctionOnSet(Taken, Numbers) = 0 * SumFunctionOnSet(Taken, Numbers)
    <3>1. IsFiniteSet(Numbers) /\ 0 \in Int
      BY NumberFacts
    <3> QED
      BY ONLY <2>1, <3>1, SumProduct
  <2>3. SumFunctionOnSet(Taken, Numbers) \in Int
    BY <2>1, NumberFacts, SumInt
  <2> QED
    BY <2>2, <2>3 DEF Init, Balance
<1>7. SlicesOK
  BY <1>1, <1>5, SliceBounds, NumberFacts
     DEF Init, SlicesOK, Working, Absent, Kinds
<1> QED
  BY <1>3, <1>4, <1>6, <1>7 DEF Inv

\* What an execution of an exit makes of every row.
LEMMA FillRows ==
    ASSUME Inv, NEW id \in Ids, NEW k \in 1..Remaining(id), ExitFill(id, k)
    PROVE  /\ exits' \in [Ids -> Order]
           /\ \A o \in Ids :
                /\ exits'[o].group = exits[o].group
                /\ exits'[o].filled
                      = exits[o].filled + (IF o = id THEN k ELSE 0)
                /\ exits'[o].quantity =< exits[o].quantity
                /\ exits'[o].filled =< exits'[o].quantity
                /\ exits'[o].status = "working" =>
                      /\ Working(o)
                      /\ exits'[o].quantity - exits'[o].filled
                            =< Remaining(o) - (IF o = id \/ o \in Linked(id)
                                               THEN k ELSE 0)
                /\ exits[o].status = "absent" => exits'[o] = exits[o]
                /\ exits'[o].status = "absent" => exits[o].status = "absent"
<1>1. exits \in [Ids -> Order] /\ RowsOK
  BY DEF Inv, TypesHold
<1>2. PICK cancel \in BOOLEAN :
         exits' = [o \in Ids |->
            IF o = id THEN Filled(id, k)
            ELSE IF o \notin Linked(id) THEN exits[o]
            ELSE IF cancel THEN [exits[o] EXCEPT !.status = "over"]
            ELSE Shrunk(o, k)]
  BY DEF ExitFill
<1>3. ASSUME NEW o \in Ids
      PROVE  /\ exits[o] \in Order /\ exits[o].filled =< exits[o].quantity
             /\ exits[o].filled \in Nat /\ exits[o].quantity \in Nat
  BY <1>1 DEF RowsOK, RowOK, Order
<1>4. k \in Nat /\ k >= 1 /\ k =< Remaining(id) /\ Working(id)
  BY <1>3 DEF Remaining, ExitFill
<1> SUFFICES ASSUME NEW o \in Ids
    PROVE  /\ exits'[o] \in Order
           /\ exits'[o].group = exits[o].group
           /\ exits'[o].filled = exits[o].filled + (IF o = id THEN k ELSE 0)
           /\ exits'[o].quantity =< exits[o].quantity
           /\ exits'[o].filled =< exits'[o].quantity
           /\ exits'[o].status = "working" =>
                 /\ Working(o)
                 /\ exits'[o].quantity - exits'[o].filled
                       =< Remaining(o) - (IF o = id \/ o \in Linked(id)
                                          THEN k ELSE 0)
           /\ exits[o].status = "absent" => exits'[o] = exits[o]
           /\ exits'[o].status = "absent" => exits[o].status = "absent"
  <2>1. exits' = [o \in Ids |-> exits'[o]]
    BY <1>2
  <2> QED
    BY <2>1
<1> DEFINE x == exits[o]
<1>5. /\ x \in Order /\ x.filled =< x.quantity
      /\ x.filled \in Nat /\ x.quantity \in Nat
  BY <1>3
<1>6. CASE o = id
  <2> DEFINE status == IF x.filled + k = x.quantity THEN "over" ELSE x.status
             y == [status |-> status, quantity |-> x.quantity,
                   filled |-> x.filled + k, group |-> x.group]
  <2>1. exits'[o] = y
    BY <1>2, <1>5, <1>6 DEF Filled, Order
  <2>2. x.status = "working" /\ x.filled + k =< x.quantity
    BY <1>4, <1>5, <1>6 DEF Working, Remaining
  <2>3. y \in Order
    BY <1>4, <1>5, <2>2 DEF Order
  <2> QED
    BY <1>4, <1>5, <1>6, <2>1, <2>2, <2>3 DEF Working, Remaining
<1>7. CASE o # id /\ o \notin Linked(id)
  <2>1. exits'[o] = x
    BY <1>2, <1>7
  <2> QED
    BY <1>5, <1>7, <2>1 DEF Working, Remaining
<1>8. CASE o # id /\ o \in Linked(id)
  <2>1. x.status = "working"
    BY <1>8 DEF Linked, Working
  <2> DEFINE over == [x EXCEPT !.status = "over"]
             less == [x EXCEPT !.quantity = @ - k]
  <2>2. over = [status |-> "over", quantity |-> x.quantity,
                filled |-> x.filled, group |-> x.group]
    BY <1>5 DEF Order
  <2>3. less = [status |-> "working", quantity |-> x.quantity - k,
                filled |-> x.filled, group |-> x.group]
    BY <1>5, <2>1 DEF Order
  <2>4. over \in Order
    BY <1>5, <2>2 DEF Order
  <2>5. exits'[o] = over \/ (exits'[o] = less /\ x.quantity > x.filled + k)
    BY <1>2, <1>8 DEF Shrunk
  <2> HIDE DEF over, less
  <2>6. CASE exits'[o] = over
    BY <1>5, <1>8, <2>1, <2>2, <2>4, <2>6
  <2>7. CASE exits'[o] = less /\ x.quantity > x.filled + k
    <3>1. x.quantity - k \in Nat /\ x.filled =< x.quantity - k
      BY <1>4, <1>5, <2>7
    <3>2. less \in Order
      BY <1>5, <2>3, <3>1 DEF Order
    <3> QED
      BY <1>4, <1>5, <1>8, <2>1, <2>3, <2>7, <3>1, <3>2 DEF Working, Remaining
  <2> QED
    BY <2>5, <2>6, <2>7
<1> QED
  BY <1>6, <1>7, <1>8

\* While the entry fills, there is nothing that its exits could disturb.
LEMMA EntryFillInv ==
    ASSUME Inv, NEW q \in Lots, NEW price \in EntryPrices, EntryFill(q, price)
    PROVE  Inv'
<1>1. q \in Nat /\ price \in Nat
  BY BracketAssumption
<1>2. /\ open /\ entry' = entry + q /\ cost' = cost + q * price
      /\ position' = position + q /\ open' = (entry + q < EntryQuantity)
      /\ native' = native /\ pending' = pending /\ exits' = exits
  BY DEF EntryFill
<1>3. TypesHold'
  BY <1>1, <1>2 DEF Inv, TypesHold
<1>4. /\ pending = {} /\ \A id \in Ids : exits[id] = Absent
      /\ entry \in Nat /\ entry' \in Nat /\ position \in Int
  BY <1>2, <1>3 DEF Inv, Quiet, TypesHold
<1>5. Quiet' /\ Fresh'
  BY <1>2, <1>4 DEF Quiet, Fresh
<1>6. Links' = Links /\ Taken' = Taken
  BY <1>2 DEF Links, Taken
<1>7. \A i \in Numbers : Taken[i] = 0
  BY <1>4, NumberFacts DEF Taken, Absent, Kinds
<1>8. RowsOK'
  <2>1. ASSUME NEW q2 \in Nat, NEW id \in Ids PROVE Cap(q2, id)' \in Nat
    <3>1. Cap(q2, id)' = Cap(q2, id)
      BY <1>2, <1>6 DEF Cap
    <3> QED
      BY <3>1, CapNat
  <2>2. ASSUME NEW id \in Ids PROVE RowOK(id)'
    <3>1. Cap(entry, id)' \in Nat
      <4>1. PICK n \in Nat : n = entry'
        BY <1>4
      <4>2. Cap(entry, id)' = Cap(n, id)'
        BY <4>1 DEF Cap, Runner, QuantizeDown, Allocated, SliceOf
      <4> QED
        BY <2>1, <4>2
    <3>2. exits'[id] = Absent
      BY <1>2, <1>4
    <3> QED
      BY <3>1, <3>2 DEF RowOK, Absent
  <2> QED
    BY <2>2 DEF RowsOK
<1>9. Balance'
  <2>1. SumFunctionOnSet(Taken, Numbers) \in Int
    <3>1. IsFiniteSet(Numbers) /\ \A i \in Numbers : Taken[i] \in Int
      BY <1>7, NumberFacts
    <3> QED
      BY ONLY <3>1, SumInt
  <2>2. position = entry - SumFunctionOnSet(Taken, Numbers)
    BY DEF Inv, Balance
  <2>3. position' = entry' - SumFunctionOnSet(Taken, Numbers)
    BY <1>1, <1>2, <1>4, <2>1, <2>2
  <2> QED
    BY <1>6, <2>3 DEF Balance
<1>10. SlicesOK'
  <2>1. ASSUME NEW i \in Targets PROVE SliceOf(entry', i) \in Nat
    BY <1>4, SliceBounds
  <2>2. ASSUME NEW id \in Ids PROVE ~ Working(id)'
    BY <1>2, <1>4 DEF Working, Absent
  <2> QED
    BY <1>6, <1>7, <2>1, <2>2, NumberFacts DEF SlicesOK
<1>11. ReduceOnlyOK'
  BY <1>1, <1>2, <1>4 DEF Inv, ReduceOnlyOK
<1> QED
  BY <1>3, <1>5, <1>8, <1>9, <1>10, <1>11 DEF Inv

\* A step that leaves the orders and the entry alone.
LEMMA IdleInv ==
    ASSUME Inv, UNCHANGED <<native, entry, cost, position, exits>>,
           open' \in BOOLEAN, Quiet', Fresh'
    PROVE  Inv'
<1>1. /\ native' = native /\ entry' = entry /\ cost' = cost
      /\ position' = position /\ exits' = exits
  OBVIOUS
<1>2. TypesHold'
  BY <1>1 DEF Inv, TypesHold
<1>3. Links' = Links /\ Taken' = Taken
  BY <1>1 DEF Links, Taken
<1>4. RowsOK'
  BY <1>1, <1>3 DEF Inv, RowsOK, RowOK, Cap, GroupOf
<1>5. Balance' /\ ReduceOnlyOK'
  BY <1>1, <1>3 DEF Inv, Balance, ReduceOnlyOK
<1>6. SlicesOK'
  BY <1>1, <1>3 DEF Inv, SlicesOK, Working, Remaining
<1> QED
  BY <1>2, <1>4, <1>5, <1>6 DEF Inv

\* The end of the entry finds nothing compiled.
LEMMA EntryEndsInv ==
    ASSUME Inv, EntryEnds
    PROVE  Inv'
<1>1. Quiet' /\ open' \in BOOLEAN
  BY DEF EntryEnds, Quiet
<1>2. Fresh'
  <2>1. pending = {} /\ pending' = {}
    BY DEF Inv, Quiet, EntryEnds
  <2> QED
    BY <2>1 DEF Fresh
<1> QED
  BY <1>1, <1>2, IdleInv DEF EntryEnds

\* Exits are compiled from the entry as it will stay.
LEMMA CompileInv ==
    ASSUME Inv, Compile, ~ Resizes
    PROVE  Inv'
<1>1. ~ open /\ open' = open /\ open \in BOOLEAN
  BY DEF Compile, Inv, TypesHold
<1>2. Quiet'
  BY <1>1 DEF Quiet
<1>3. Fresh'
  BY DEF Compile, Fresh, Exits, OcoExits, ReduceOnlyExits, ValidAgainstEntry
<1> QED
  BY <1>1, <1>2, <1>3, IdleInv DEF Compile

\* A crash of the host only loses what was pending.
LEMMA ForgetInv ==
    ASSUME Inv, Forget
    PROVE  Inv'
<1>1. Quiet' /\ open' \in BOOLEAN
  BY DEF Forget, Inv, Quiet, TypesHold
<1>2. Fresh'
  BY DEF Forget, Fresh
<1> QED
  BY <1>1, <1>2, IdleInv DEF Forget

\* An order that the venue accepts in a group finds the slice untouched.
LEMMA SendInv ==
    ASSUME Inv, NEW e \in pending, Send(e)
    PROVE  Inv'
<1>1. /\ native' = native /\ entry' = entry /\ cost' = cost /\ open' = open
      /\ position' = position /\ pending' = pending \ {e}
  BY DEF Send
<1>2. Quiet' /\ open' \in BOOLEAN
  BY <1>1 DEF Inv, Quiet, TypesHold
<1>3. Fresh'
  BY <1>1 DEF Inv, Fresh, ValidAgainstEntry, Exits, OcoExits, ReduceOnlyExits
<1>4. CASE UNCHANGED exits
  BY <1>1, <1>2, <1>3, <1>4, IdleInv
<1>5. ASSUME NEW status \in {"working", "over"}, Placed(e, status),
             exits[e.id] = Absent,
             status = "working" => ~ Executed(e.group)
      PROVE  Inv'
  <2>1. /\ entry \in Nat /\ exits \in [Ids -> Order] /\ e \in Exits(entry)
        /\ position \in Int
    BY DEF Inv, TypesHold, Fresh
  <2>2. /\ e.id \in Ids /\ e.quantity = Cap(entry, e.id)
        /\ e.group = GroupOf(e.id) /\ e.quantity \in Nat
        /\ e.group \in Numbers
    BY <2>1, ExitShape, CapNat, NumberFacts DEF GroupOf, NoGroup
  <2> DEFINE y == [status |-> status, quantity |-> e.quantity, filled |-> 0,
                   group |-> e.group]
  <2>3. exits' = [exits EXCEPT ![e.id] = y] /\ y \in Order
    BY <1>5, <2>2 DEF Placed, Order
  <2>4. /\ y.status = status /\ y.quantity = e.quantity /\ y.filled = 0
        /\ y.group = e.group
    OBVIOUS
  <2> HIDE DEF y
  <2>5. exits'[e.id] = y /\ \A o \in Ids \ {e.id} : exits'[o] = exits[o]
    BY <2>1, <2>2, <2>3
  <2>6. TypesHold'
    BY <1>1, <2>1, <2>2, <2>3 DEF Inv, TypesHold
  <2>7. \A o \in Ids : exits'[o].filled = exits[o].filled
    BY <1>5, <2>4, <2>5 DEF Absent
  <2>8. Links' = Links /\ Taken' = Taken
    <3>1. \A i \in Numbers : <<"stop", i>> \in Ids /\ <<"target", i>> \in Ids
      BY NumberFacts DEF Kinds
    <3> QED
      BY <1>1, <2>7, <3>1 DEF Links, Taken
  <2>9. RowsOK'
    <3>1. ASSUME NEW o \in Ids PROVE RowOK(o)'
      <4>1. Cap(entry, o)' = Cap(entry, o) /\ GroupOf(o)' = GroupOf(o)
        BY <1>1, <2>8 DEF Cap, GroupOf
      <4>2. CASE o = e.id
        BY <1>5, <2>2, <2>4, <2>5, <4>1, <4>2 DEF RowOK
      <4>3. CASE o # e.id
        BY <2>5, <4>1, <4>3 DEF Inv, RowsOK, RowOK
      <4> QED
        BY <4>2, <4>3
    <3> QED
      BY <3>1 DEF RowsOK
  <2>10. Balance' /\ ReduceOnlyOK'
    BY <1>1, <2>8 DEF Inv, Balance, ReduceOnlyOK
  <2>11. SlicesOK'
    <3>1. SUFFICES ASSUME Links, NEW i \in Targets
          PROVE  /\ Taken[i] =< SliceOf(entry, i)
                 /\ \A kind \in Kinds : Working(<<kind, i>>)' =>
                       Taken[i] + Remaining(<<kind, i>>)' =< SliceOf(entry, i)
      BY <1>1, <2>8 DEF SlicesOK
    <3>2. /\ Taken[i] =< SliceOf(entry, i)
          /\ \A kind \in Kinds : Working(<<kind, i>>) =>
                Taken[i] + Remaining(<<kind, i>>) =< SliceOf(entry, i)
      BY <3>1 DEF Inv, SlicesOK
    <3>3. ASSUME NEW kind \in Kinds, Working(<<kind, i>>)'
          PROVE  Taken[i] + Remaining(<<kind, i>>)' =< SliceOf(entry, i)
      <4> DEFINE o == <<kind, i>>
      <4>1. o \in Ids /\ o[2] = i /\ i # 0 /\ i \in Numbers
        BY NumberFacts
      <4>2. CASE o # e.id
        <5>1. exits'[o] = exits[o]
          BY <2>5, <4>1, <4>2
        <5> QED
          BY <3>2, <3>3, <5>1 DEF Working, Remaining
      <4>3. CASE o = e.id
        <5>1. ~ Executed(i) /\ e.quantity = SliceOf(entry, i)
          BY <1>5, <2>2, <2>4, <2>5, <3>1, <3>3, <4>1, <4>3
             DEF Working, GroupOf, Cap
        <5>2. ASSUME NEW k2 \in Kinds PROVE exits[<<k2, i>>].filled = 0
          <6>1. /\ <<k2, i>> \in Ids /\ RowOK(<<k2, i>>)
                /\ exits[<<k2, i>>] \in Order
            BY <2>1, <4>1, NumberFacts DEF Inv, RowsOK
          <6>2. exits[<<k2, i>>] = Absent \/ exits[<<k2, i>>].group = i
            BY <3>1, <6>1 DEF RowOK, GroupOf
          <6>3. exits[<<k2, i>>].filled \in Nat
            BY <6>1 DEF Order
          <6> QED
            BY <4>1, <5>1, <6>1, <6>2, <6>3 DEF Executed, NoGroup, Absent
        <5>3. Taken[i] = 0
          BY <4>1, <5>2 DEF Taken, Kinds
        <5>4. Remaining(<<kind, i>>)' = e.quantity
          BY <2>2, <2>4, <2>5, <4>3 DEF Remaining
        <5> QED
          BY <2>2, <5>1, <5>3, <5>4
      <4> QED
        BY <4>2, <4>3
    <3> QED
      BY <3>2, <3>3
  <2> QED
    BY <1>2, <1>3, <2>6, <2>9, <2>10, <2>11 DEF Inv
<1> QED
  BY <1>4, <1>5 DEF Send

\* An execution closes the same quantity of the position and of one number, and
\* takes it from whatever else works in the group.
LEMMA ExitFillInv ==
    ASSUME Inv, NEW id \in Ids, NEW k \in 1..Remaining(id), ExitFill(id, k)
    PROVE  Inv'
<1>1. /\ native' = native /\ entry' = entry /\ cost' = cost /\ open' = open
      /\ pending' = pending /\ position' = position - k
      /\ Working(id) /\ k =< Remaining(id) /\ (native \/ k =< position)
  BY DEF ExitFill
<1>2. /\ exits' \in [Ids -> Order] /\ exits \in [Ids -> Order]
      /\ entry \in Nat /\ position \in Int /\ k \in Nat
  BY FillRows DEF Inv, TypesHold
<1>3. TypesHold'
  BY <1>1, <1>2 DEF Inv, TypesHold
<1>4. ~ open
  BY <1>1 DEF Inv, Quiet, Working, Absent
<1>5. Quiet' /\ Fresh' /\ ReduceOnlyOK'
  BY <1>1, <1>2, <1>4 DEF Inv, Quiet, Fresh, ValidAgainstEntry, ReduceOnlyOK,
     Exits, OcoExits, ReduceOnlyExits
<1>6. Links' = Links
  BY <1>1 DEF Links
<1>7. RowsOK'
  <2>1. ASSUME NEW o \in Ids PROVE RowOK(o)'
    <3>1. Cap(entry, o)' = Cap(entry, o) /\ GroupOf(o)' = GroupOf(o)
      BY <1>1, <1>6 DEF Cap, GroupOf
    <3>2. RowOK(o) /\ Cap(entry, o) \in Nat
      BY <1>2, CapNat DEF Inv, RowsOK
    <3>3. exits[o] \in Order /\ exits'[o] \in Order
      BY <1>2
    <3>4. exits[o].quantity \in Nat /\ exits'[o].quantity \in Nat
      BY <3>3 DEF Order
    <3>5. /\ exits'[o].group = exits[o].group
          /\ exits'[o].quantity =< exits[o].quantity
          /\ exits'[o].filled =< exits'[o].quantity
          /\ exits[o].status = "absent" => exits'[o] = exits[o]
          /\ exits'[o].status = "absent" => exits[o].status = "absent"
      BY FillRows
    <3> QED
      BY <3>1, <3>2, <3>4, <3>5 DEF RowOK
  <2> QED
    BY <2>1 DEF RowsOK
<1> DEFINE c == id[2]
<1>8. /\ c \in Numbers /\ id[1] \in Kinds /\ id = <<id[1], c>>
      /\ \A i \in Numbers : /\ <<"stop", i>> \in Ids /\ <<"target", i>> \in Ids
                            /\ Taken[i] \in Nat /\ Taken'[i] \in Nat
                            /\ Taken'[i] = Taken[i] + (IF i = c THEN k ELSE 0)
  <2>1. c \in Numbers /\ id[1] \in Kinds /\ id = <<id[1], c>>
    BY NumberFacts
  <2>2. ASSUME NEW i \in Numbers
        PROVE  /\ <<"stop", i>> \in Ids /\ <<"target", i>> \in Ids
               /\ Taken[i] \in Nat /\ Taken'[i] \in Nat
               /\ Taken'[i] = Taken[i] + (IF i = c THEN k ELSE 0)
    <3> DEFINE a == <<"stop", i>>
               b == <<"target", i>>
    <3>1. a \in Ids /\ b \in Ids /\ a # b
      BY NumberFacts DEF Kinds
    <3>2. /\ exits[a].filled \in Nat /\ exits[b].filled \in Nat
          /\ exits'[a].filled = exits[a].filled + (IF a = id THEN k ELSE 0)
          /\ exits'[b].filled = exits[b].filled + (IF b = id THEN k ELSE 0)
      BY <1>2, <3>1, FillRows DEF Order
    <3>3. IF i = c THEN (a = id) # (b = id) ELSE a # id /\ b # id
      BY <2>1, <3>1 DEF Kinds
    <3>4. /\ Taken[i] = exits[a].filled + exits[b].filled
          /\ Taken'[i] = exits'[a].filled + exits'[b].filled
      BY DEF Taken
    <3> HIDE DEF a, b
    <3> QED
      BY <1>2, <3>1, <3>2, <3>3, <3>4 DEF a, b
  <2> QED
    BY <2>1, <2>2
<1>9. Balance'
  <2> DEFINE f == Taken
             g == Taken'
  <2> HIDE DEF c, f, g
  <2>0. \A i \in Numbers : f[i] \in Nat /\ g[i] \in Nat
                            /\ g[i] = f[i] + (IF i = c THEN k ELSE 0)
    BY <1>8 DEF f, g
  <2>1. /\ IsFiniteSet(Numbers) /\ c \in Numbers
        /\ \A i \in Numbers : f[i] \in Int /\ g[i] \in Int
        /\ \A i \in Numbers \ {c} : g[i] = f[i]
    BY <1>8, <2>0, NumberFacts
  <2>2. g[c] = f[c] + k /\ f[c] \in Int
    BY <2>0, <2>1
  <2> USE DEF f
  <2>3. position = entry - SumFunctionOnSet(f, Numbers)
    BY DEF Inv, Balance
  <2> HIDE DEF f
  <2>4. SumFunctionOnSet(g, Numbers)
           = SumFunctionOnSet(f, Numbers) - f[c] + g[c]
    BY ONLY <2>1, SumChange
  <2>5. SumFunctionOnSet(f, Numbers) \in Int
    BY ONLY <2>1, SumInt
  <2>6. position' = entry' - SumFunctionOnSet(g, Numbers)
    BY <1>1, <1>2, <2>2, <2>3, <2>4, <2>5
  <2> QED
    BY <2>6 DEF Balance, g
<1>10. SlicesOK'
  <2>1. SUFFICES ASSUME Links, NEW i \in Targets
        PROVE  /\ Taken'[i] =< SliceOf(entry, i)
               /\ \A kind \in Kinds : Working(<<kind, i>>)' =>
                     Taken'[i] + Remaining(<<kind, i>>)' =< SliceOf(entry, i)
    BY <1>1, <1>6 DEF SlicesOK
  <2>2. /\ Taken[i] =< SliceOf(entry, i)
        /\ \A kind \in Kinds : Working(<<kind, i>>) =>
              Taken[i] + Remaining(<<kind, i>>) =< SliceOf(entry, i)
    BY <2>1 DEF Inv, SlicesOK
  <2>3. i \in Numbers /\ SliceOf(entry, i) \in Nat /\ i # 0
    BY <1>2, NumberFacts, SliceBounds
  <2>4. /\ Taken[i] \in Nat /\ Taken'[i] \in Nat
        /\ Taken'[i] = Taken[i] + (IF i = c THEN k ELSE 0)
    BY <1>8, <2>3
  <2>5. Taken'[i] =< SliceOf(entry, i)
    <3>1. CASE i = c
      <4>1. Taken[i] + Remaining(id) =< SliceOf(entry, i)
        BY <1>1, <1>8, <2>2, <3>1
      <4>2. Remaining(id) \in Int
        <5>1. exits[id] \in Order
          BY <1>2
        <5> QED
          BY <5>1 DEF Order, Remaining
      <4> QED
        BY <1>1, <1>2, <2>3, <2>4, <3>1, <4>1, <4>2
    <3>2. CASE i # c
      BY <2>2, <2>4, <3>2
    <3> QED
      BY <3>1, <3>2
  <2>6. ASSUME NEW kind \in Kinds, Working(<<kind, i>>)'
        PROVE  Taken'[i] + Remaining(<<kind, i>>)' =< SliceOf(entry, i)
    <3> DEFINE o == <<kind, i>>
    <3>1. o \in Ids /\ o[2] = i
      BY <2>3, NumberFacts
    <3>2. exits[o] \in Order /\ exits'[o] \in Order
      BY <1>2, <3>1
    <3>3. /\ exits[o].quantity \in Nat /\ exits[o].filled \in Nat
          /\ exits'[o].quantity \in Nat /\ exits'[o].filled \in Nat
      BY <3>2 DEF Order
    <3>4. /\ Working(o)
          /\ exits'[o].quantity - exits'[o].filled
                =< Remaining(o) - (IF o = id \/ o \in Linked(id) THEN k ELSE 0)
      BY <2>6, <3>1, FillRows DEF Working
    <3>5. Remaining(o)' = exits'[o].quantity - exits'[o].filled
      BY DEF Remaining
    <3>6. Taken[i] + Remaining(o) =< SliceOf(entry, i)
      BY <2>2, <3>4
    <3>7. Remaining(o) \in Int
      BY <3>3 DEF Remaining
    <3>8. i = c => o = id \/ o \in Linked(id)
      <4>1. SUFFICES ASSUME i = c, o # id PROVE o \in Linked(id)
        OBVIOUS
      <4>2. exits[o].group = GroupOf(o) /\ exits[id].group = GroupOf(id)
        BY <1>1, <3>1, <3>4 DEF Inv, RowsOK, RowOK, Working
      <4>3. GroupOf(o) = i /\ GroupOf(id) = i
        BY <2>1, <3>1, <4>1 DEF GroupOf
      <4> QED
        BY <2>3, <3>1, <3>4, <4>1, <4>2, <4>3 DEF Linked, NoGroup
    <3> HIDE DEF o, c
    <3> QED
      BY <1>2, <2>3, <2>4, <3>3, <3>4, <3>5, <3>6, <3>7, <3>8 DEF o
  <2> QED
    BY <2>5, <2>6
<1> QED
  BY <1>3, <1>5, <1>7, <1>9, <1>10 DEF Inv

\* Inv is inductive when the host compiles for entries that have ended.
LEMMA StepInv ==
    ASSUME ~ Resizes, Inv, [Next]_vars
    PROVE  Inv'
<1>1. CASE UNCHANGED vars
  <2>1. /\ UNCHANGED <<native, entry, cost, position, exits>>
        /\ open' = open /\ pending' = pending
    BY <1>1 DEF vars
  <2>2. Quiet' /\ Fresh' /\ open' \in BOOLEAN
    BY <2>1 DEF Inv, TypesHold, Quiet, Fresh, ValidAgainstEntry, Exits,
       OcoExits, ReduceOnlyExits
  <2> QED
    BY <2>1, <2>2, IdleInv
<1>2. CASE \E q \in Lots, price \in EntryPrices : EntryFill(q, price)
  BY <1>2, EntryFillInv
<1>3. CASE EntryEnds
  BY <1>3, EntryEndsInv
<1>4. CASE Compile
  BY <1>4, CompileInv
<1>5. CASE \E e \in pending : Send(e)
  BY <1>5, SendInv
<1>6. CASE Forget
  BY <1>6, ForgetInv
<1>7. CASE \E id \in Ids : \E k \in 1..Remaining(id) : ExitFill(id, k)
  BY <1>7, ExitFillInv
<1> QED
  BY <1>1, <1>2, <1>3, <1>4, <1>5, <1>6, <1>7 DEF Next

\* Inv holds in every state.
LEMMA Invariance ==
    ASSUME ~ Resizes
    PROVE  Spec => []Inv
<1>1. Init => Inv
  BY InitInv
<1>2. Inv /\ [Next]_vars => Inv'
  BY StepInv
<1> QED
  BY <1>1, <1>2, PTL DEF Spec

-----------------------------------------------------------------------------
(* What the invariant implies *)

\* What may be closed under all numbers together is the rounded entry.
LEMMA InvNoReversal == Inv => NoReversal
<1> SUFFICES ASSUME Inv PROVE NoReversal
  OBVIOUS
<1>1. CASE ~ native
  BY <1>1 DEF Inv, ReduceOnlyOK, NoReversal
<1>2. CASE native
  <2> DEFINE part == [i \in Numbers |-> Cap(entry, <<"stop", i>>)]
             f == Taken
  <2>1. entry \in Nat /\ position \in Int /\ exits \in [Ids -> Order]
    BY DEF Inv, TypesHold
  <2>2. ASSUME NEW i \in Numbers
        PROVE  /\ f[i] \in Nat /\ part[i] \in Nat /\ f[i] =< part[i]
    <3> DEFINE a == <<"stop", i>>
               b == <<"target", i>>
    <3>1. a \in Ids /\ b \in Ids /\ a[2] = i /\ b[2] = i /\ a[1] = "stop"
          /\ b[1] = "target"
      BY NumberFacts DEF Kinds
    <3>2. RowOK(a) /\ RowOK(b) /\ exits[a] \in Order /\ exits[b] \in Order
      BY <2>1, <3>1 DEF Inv, RowsOK
    <3>3. /\ exits[a].filled \in Nat /\ exits[a].quantity \in Nat
          /\ exits[b].filled \in Nat /\ exits[b].quantity \in Nat
      BY <3>2 DEF Order
    <3>4. Cap(entry, a) \in Nat /\ Cap(entry, b) \in Nat
      BY <2>1, <3>1, CapNat
    <3>5. f[i] = exits[a].filled + exits[b].filled
      BY DEF Taken
    <3>6. exits[a].filled =< Cap(entry, a) /\ exits[b].filled =< Cap(entry, b)
      BY <3>2, <3>3, <3>4 DEF RowOK
    <3>7. CASE i \in Targets
      <4>1. Links
        BY <1>2, <3>7 DEF Links
      <4>2. f[i] =< SliceOf(entry, i)
        BY <3>7, <4>1 DEF Inv, SlicesOK
      <4>3. Cap(entry, a) = SliceOf(entry, i)
        BY <3>1, <3>7, <4>1 DEF Cap
      <4> QED
        BY <3>3, <3>4, <3>5, <4>2, <4>3
    <3>8. CASE i \notin Targets
      <4>1. Cap(entry, b) = 0
        BY <3>1, <3>8 DEF Cap
      <4> QED
        BY <3>3, <3>4, <3>5, <3>6, <4>1
    <3> QED
      BY <3>7, <3>8
  <2>3. SumFunctionOnSet(part, Numbers) =< QuantizeDown(entry)
    BY <2>1, CapsFit DEF Kinds
  <2>4. position = entry - SumFunctionOnSet(f, Numbers)
    BY DEF Inv, Balance
  <2> HIDE DEF part, f
  <2>5. /\ IsFiniteSet(Numbers)
        /\ \A i \in Numbers : f[i] \in Int /\ part[i] \in Int /\ f[i] =< part[i]
    BY <2>2, NumberFacts
  <2>6. SumFunctionOnSet(f, Numbers) =< SumFunctionOnSet(part, Numbers)
    BY ONLY <2>5, SumWeaklyMonotonic
  <2>7. /\ SumFunctionOnSet(f, Numbers) \in Int
        /\ SumFunctionOnSet(part, Numbers) \in Int
    BY ONLY <2>5, SumInt
  <2> QED
    BY <2>1, <2>3, <2>4, <2>6, <2>7, RoundedDown DEF NoReversal
<1> QED
  BY <1>1, <1>2

\* What is on order under all numbers together is within the rounded entry.
LEMMA InvWithinEntry == Inv => ExitsWithinEntry
<1> SUFFICES ASSUME Inv, NEW kind \in Kinds PROVE Ordered(kind) =< entry
  BY DEF ExitsWithinEntry, Kinds
<1> DEFINE D == {id \in Ids : id[1] = kind}
           b == [i \in Numbers |-> <<kind, i>>]
           g == [id \in D |-> exits[id].quantity]
           f == [i \in Numbers |-> exits[<<kind, i>>].quantity]
           cap == [i \in Numbers |-> Cap(entry, <<kind, i>>)]
           image == {b[i] : i \in Numbers}
<1>1. entry \in Nat /\ exits \in [Ids -> Order]
  BY DEF Inv, TypesHold
<1>2. \A i \in Numbers : f[i] \in Nat /\ cap[i] \in Nat /\ f[i] =< cap[i]
  <2> SUFFICES ASSUME NEW i \in Numbers
               PROVE  f[i] \in Nat /\ cap[i] \in Nat /\ f[i] =< cap[i]
    OBVIOUS
  <2>1. <<kind, i>> \in Ids
    BY NumberFacts
  <2>2. RowOK(<<kind, i>>) /\ exits[<<kind, i>>] \in Order
    BY <1>1, <2>1 DEF Inv, RowsOK
  <2>3. exits[<<kind, i>>].quantity \in Nat /\ Cap(entry, <<kind, i>>) \in Nat
    BY <1>1, <2>1, <2>2, CapNat DEF Order
  <2> QED
    BY <2>1, <2>2, <2>3 DEF RowOK
<1>3. D = image
  <2>1. ASSUME NEW id \in D PROVE id[2] \in Numbers /\ id = b[id[2]]
    BY NumberFacts
  <2>2. ASSUME NEW i \in Numbers PROVE b[i] \in D
    BY NumberFacts
  <2> HIDE DEF D, b
  <2> QED
    BY <2>1, <2>2
<1>4. Ordered(kind) = SumFunctionOnSet(g, D)
  BY DEF Ordered, SumFunction
<1>5. SumFunctionOnSet(cap, Numbers) =< QuantizeDown(entry)
  BY <1>1, CapsFit
<1>6. \A i \in Numbers : g[b[i]] = f[i]
  BY NumberFacts
<1>7. \A i, j \in Numbers : b[i] = b[j] => i = j
  OBVIOUS
<1>8. IsFiniteSet(Numbers)
  BY NumberFacts
<1> HIDE DEF D, b, f, g, cap
<1>9. SumFunctionOnSet(g, image) = SumFunctionOnSet(f, Numbers)
  <2>1. \A i \in Numbers : f[i] \in Int /\ g[b[i]] = f[i]
    BY <1>2, <1>6
  <2> QED
    BY ONLY <1>7, <1>8, <2>1, SumRenamed
<1>10. /\ SumFunctionOnSet(f, Numbers) =< SumFunctionOnSet(cap, Numbers)
       /\ SumFunctionOnSet(f, Numbers) \in Int
       /\ SumFunctionOnSet(cap, Numbers) \in Int
  <2>1. \A i \in Numbers : f[i] \in Int /\ cap[i] \in Int /\ f[i] =< cap[i]
    BY <1>2
  <2> QED
    BY ONLY <1>8, <2>1, SumWeaklyMonotonic, SumInt
<1>11. QuantizeDown(entry) \in Nat /\ QuantizeDown(entry) =< entry
  BY <1>1, RoundedDown
<1>12. Ordered(kind) = SumFunctionOnSet(f, Numbers)
  BY <1>3, <1>4, <1>9
<1> QED
  BY <1>1, <1>5, <1>10, <1>11, <1>12

\* Rounding moves a trigger by no more than half an increment from the side on
\* which the average price of the entry was found to be.
LEMMA InvTriggers == Inv => TriggersOnTheirSide
<1> SUFFICES ASSUME Inv, NEW e \in pending
    PROVE  LET loss == IF e.id[1] = "stop" THEN cost - e.price * entry
                       ELSE e.price * entry - cost
           IN  /\ -2 * loss < PriceIncrement * entry
               /\ e.price = Planned(e.id[1], e.id[2]) => loss > 0
  BY DEF TriggersOnTheirSide
<1>1. /\ entry \in Nat /\ cost \in Nat /\ e \in Exits(entry)
      /\ ValidAgainstEntry /\ Compiles(entry)
  BY DEF Inv, TypesHold, Fresh
<1>2. entry > 0
  BY <1>1, RoundedDown DEF Compiles
<1>3. /\ e.id[1] \in Kinds /\ e.id[2] \in Numbers
      /\ e.price = Trigger(e.id[1], e.id[2])
      /\ e.id[1] = "target" => e.id[2] \in Targets
  <2>1. e.id[1] = "target" => e.id[2] \in Targets
    BY <1>1 DEF Exits, OcoExits, ReduceOnlyExits, ExitIntent
  <2> QED
    BY <1>1, <2>1, ExitShape
<1> DEFINE v == Planned(e.id[1], e.id[2])
           p == e.price
<1>4. v \in Nat
  BY <1>3, BracketAssumption DEF Planned, Targets, Kinds
<1>5. /\ p \in Nat /\ 2 * p =< 2 * v + PriceIncrement
      /\ 2 * v - PriceIncrement < 2 * p /\ PriceIncrement \in Nat
  BY <1>3, <1>4, RoundedPrice, InstrumentAssumption DEF Trigger
<1>6. /\ e.id[1] = "stop" => v * entry < cost
      /\ e.id[1] = "target" => v * entry > cost
  BY <1>1, <1>3 DEF Planned, ValidAgainstEntry
<1> HIDE DEF v, p
<1>7. CASE e.id[1] = "stop"
  <2>1. 2 * (p * entry) =< 2 * (v * entry) + PriceIncrement * entry
    <3>1. (2 * p) * entry =< (2 * v + PriceIncrement) * entry
      BY <1>1, <1>4, <1>5
    <3> QED
      BY <1>1, <1>4, <1>5, <3>1
  <2>2. p * entry \in Int /\ v * entry \in Int /\ PriceIncrement * entry \in Int
    BY <1>1, <1>4, <1>5
  <2>3. -2 * (cost - p * entry) < PriceIncrement * entry
    BY <1>1, <1>6, <1>7, <2>1, <2>2
  <2>4. p = v => cost - p * entry > 0
    BY <1>1, <1>6, <1>7, <2>2
  <2> QED
    BY <1>7, <2>3, <2>4 DEF p, v
<1>8. CASE e.id[1] = "target"
  <2>1. 2 * (v * entry) - PriceIncrement * entry =< 2 * (p * entry)
    <3>1. (2 * v - PriceIncrement) * entry =< (2 * p) * entry
      BY <1>1, <1>4, <1>5
    <3> QED
      BY <1>1, <1>4, <1>5, <3>1
  <2>2. p * entry \in Int /\ v * entry \in Int /\ PriceIncrement * entry \in Int
    BY <1>1, <1>4, <1>5
  <2>3. -2 * (p * entry - cost) < PriceIncrement * entry
    BY <1>1, <1>6, <1>8, <2>1, <2>2
  <2>4. p = v => p * entry - cost > 0
    BY <1>1, <1>6, <1>8, <2>2
  <2> QED
    BY <1>8, <2>3, <2>4 DEF p, v
<1> QED
  BY <1>3, <1>7, <1>8 DEF Kinds

-----------------------------------------------------------------------------
(* The theorems *)

\* Theorem: a host that compiles the exits of entries that have ended never has
\* more on order than the entry, however often it compiles and sends them.
THEOREM ExitsSafety ==
    ASSUME ~ Resizes
    PROVE  Spec => []ExitsWithinEntry
  BY Invariance, InvWithinEntry, PTL

\* Theorem: the exits of a finished entry never turn the position around, in
\* whatever order the host sends and the venue executes them.
THEOREM ReversalSafety ==
    ASSUME ~ Resizes
    PROVE  Spec => []NoReversal
  BY Invariance, InvNoReversal, PTL

\* Theorem: every trigger that is sent is on its side of the average entry
\* price, or passes it by less than half a price increment.
THEOREM TriggerSafety ==
    ASSUME ~ Resizes
    PROVE  Spec => []TriggersOnTheirSide
  BY Invariance, InvTriggers, PTL

-----------------------------------------------------------------------------
(* The net-cost price *)

\* What is left is at most what was confirmed.
Held ==
    /\ entry \in 0..EntryQuantity /\ cost \in Nat
    /\ position \in Int /\ position =< entry

\* Exits only take from it.
LEMMA HeldAlways == Spec => []Held
<1>1. Init => Held
  BY BracketAssumption DEF Init, Held
<1>2. Held /\ [Next]_vars => Held'
  <2> SUFFICES ASSUME Held, [Next]_vars PROVE Held'
    OBVIOUS
  <2>1. ASSUME NEW q \in Lots, NEW price \in EntryPrices, EntryFill(q, price)
        PROVE  Held'
    <3>1. q \in Nat /\ price \in Nat
      BY BracketAssumption
    <3>2. q * price \in Nat
      BY <3>1
    <3> QED
      BY <2>1, <3>1, <3>2, BracketAssumption DEF Held, EntryFill
  <2>2. ASSUME NEW id \in Ids, NEW k \in 1..Remaining(id), ExitFill(id, k)
        PROVE  Held'
    <3>1. k \in Int /\ k >= 1
      OBVIOUS
    <3> QED
      BY <2>2, <3>1 DEF Held, ExitFill
  <2>3. ASSUME UNCHANGED <<entry, cost, position>> PROVE Held'
    BY <2>3 DEF Held
  <2> QED
    BY <2>1, <2>2, <2>3 DEF Next, vars, EntryEnds, Compile, Send, Forget
<1> QED
  BY <1>1, <1>2, PTL DEF Spec

\* What closing q of either side at price P realizes, when the fees are F, is
\* a multiple of how much better the price is than the net cost.
LEMMA BreakEven ==
    ASSUME NEW side \in {1, -1}, NEW D \in Nat \ {0}, NEW x \in Int,
           NEW y \in Int
    PROVE  side * x * D - y * D >= 0 <=> side * x >= y
<1> DEFINE z == side * x - y
<1>1. z \in Int /\ side * x * D - y * D = z * D
  OBVIOUS
<1> HIDE DEF z
<1>2. z * D >= 0 <=> z >= 0
  BY <1>1
<1> QED
  BY <1>1, <1>2 DEF z

(* Where the division of the fees leaves no rest, closing what is left of  *)
(* an entry realizes no loss exactly at net_cost_protective_price or       *)
(* better, for longs and shorts, after any partial exits, and also for a   *)
(* host that compiles exits while the entry still fills.                   *)
THEOREM NetCostSafety ==
    ASSUME \A q \in 1..EntryQuantity :
              \E m \in Nat : Parts = m * (q * Multiplier)
    PROVE  Spec => []NetCostBreaksEven
<1>1. ASSUME Held PROVE NetCostBreaksEven
  <2> SUFFICES ASSUME position > 0, NEW side \in {Buy, Sell},
                      NEW price \in ExitPrices,
                      NEW entryFees \in Fees, NEW exitFees \in Fees
      PROVE Closed(side, entryFees, exitFees, price) >= 0
              <=> side * (price * Parts)
                    >= side * NetCost(side, (cost * Parts) \div entry, position,
                                      entryFees, exitFees)
    BY DEF NetCostBreaksEven
  <2> DEFINE D == position * Multiplier
             A == (cost * Parts) \div entry
             P == price * Parts
             F == entryFees + exitFees
             held == [quantity |-> side * position, average |-> A,
                      realized |-> -entryFees * Parts, fees |-> entryFees]
  <2>1. /\ position \in 1..EntryQuantity /\ entry \in Nat \ {0} /\ cost \in Nat
        /\ Multiplier \in Nat \ {0} /\ Parts \in Nat \ {0}
        /\ price \in Nat /\ entryFees \in Nat /\ exitFees \in Nat
        /\ side \in {1, -1}
    BY <1>1, BracketAssumption, LedgerAssumption DEF Held, Buy, Sell
  <2>2. PICK m \in Nat : Parts = m * D
    BY <2>1
  <2>3. D \in Nat \ {0} /\ P \in Nat /\ F \in Nat /\ F * m \in Nat
    BY <2>1
  <2>4. A \in Int
    <3>1. cost * Parts \in Nat
      BY <2>1
    <3> QED
      BY <2>1, <3>1
  <2>5. (F * Parts) \div D = F * m
    <3> HIDE DEF D, F
    <3>1. F * Parts = (F * m) * D
      BY <2>2, <2>3
    <3> QED
      BY <2>3, <3>1, DivMultiple
  <2>6. NetCost(side, A, position, entryFees, exitFees) = A + side * (F * m)
    BY <2>5 DEF NetCost
  <2>7. Closed(side, entryFees, exitFees, price)
          = -entryFees * Parts + (P - A) * side * position * Multiplier
              - exitFees * Parts
    <3> DEFINE signed == (-side) * position
    <3>1. /\ OppositeSigns(side * position, signed)
          /\ Abs(side * position) = position /\ Abs(signed) = position
          /\ (IF side * position > 0 THEN 1 ELSE -1) = side
      BY <2>1 DEF OppositeSigns, SameSign, Abs
    <3>2. RealizedBy(held, signed, price)
            = (P - A) * side * position * Multiplier
      BY <2>1, <2>3, <2>4, <3>1 DEF RealizedBy, Lesser
    <3> QED
      BY <3>2 DEF Closed, ApplyFill
  <2>8. Closed(side, entryFees, exitFees, price)
          = side * (P - A) * D - (F * m) * D
    <3>1. -entryFees * Parts - exitFees * Parts = -((F * m) * D)
      <4>1. entryFees * Parts + exitFees * Parts = F * Parts
        BY <2>1
      <4> HIDE DEF D, F
      <4>2. F * Parts = (F * m) * D
        BY <2>2, <2>3
      <4>3. entryFees * Parts \in Int /\ exitFees * Parts \in Int
        BY <2>1
      <4> QED
        BY <2>1, <4>1, <4>2, <4>3
    <3>2. (P - A) * side * position * Multiplier = side * (P - A) * D
      <4> DEFINE x == P - A
      <4>1. x \in Int
        BY <2>3, <2>4
      <4>2. (x * side) * position * Multiplier
              = (x * side) * (position * Multiplier)
        BY <2>1, <4>1
      <4> QED
        BY <2>1, <4>1, <4>2
    <3> DEFINE a == entryFees * Parts
               b == exitFees * Parts
               c == side * (P - A) * D
               d == (F * m) * D
    <3>3. a \in Int /\ b \in Int /\ c \in Int /\ d \in Int
      <4>1. F * m \in Int /\ D \in Int /\ P - A \in Int
        BY <2>3, <2>4
      <4> HIDE DEF D, P, A, F
      <4> QED
        BY <2>1, <4>1
    <3>4. -entryFees * Parts = -a
      BY <2>1
    <3>5. Closed(side, entryFees, exitFees, price) = -a + c - b /\ -a - b = -d
      BY <2>7, <3>1, <3>2, <3>4
    <3> HIDE DEF a, b, c, d
    <3>6. Closed(side, entryFees, exitFees, price) = c - d
      BY <3>3, <3>5
    <3> QED
      BY <3>6 DEF c, d
  <2> DEFINE y == F * m
  <2> HIDE DEF A, P, F, D, y
  <2>9. side * (P - A) * D - y * D >= 0 <=> side * (P - A) >= y
    BY <2>1, <2>3, <2>4, BreakEven DEF y
  <2>10. side * (P - A) >= y <=> side * P >= side * (A + side * y)
    BY <2>1, <2>3, <2>4 DEF y
  <2> QED
    BY <2>6, <2>8, <2>9, <2>10 DEF y, P, A
<1> QED
  BY <1>1, HeldAlways, PTL

=============================================================================
