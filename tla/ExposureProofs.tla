--------------------------- MODULE ExposureProofs ---------------------------
(***************************************************************************)
(* Proofs about Exposure for all its constants: the types; that a caller   *)
(* that waits for its orders keeps the position within its limit and is    *)
(* never turned around by a reduce-only order; that the realized profit    *)
(* accounts for the cash; and that the daily loss freezes the position.    *)
(***************************************************************************)
EXTENDS Exposure, SumTheorems

USE LedgerAssumption, RiskAssumption, ExposureAssumption DEF Buy, Sell

\* The absolute value is a natural number.
LEMMA AbsType == \A n \in Int : Abs(n) \in Nat
  BY DEF Abs

(* The position after a fill is a position, apart from the sign of what    *)
(* Position.__post_init__ looks at.                                        *)
LEMMA ApplyFillType ==
  ASSUME NEW p \in Position, NEW side \in {Buy, Sell}, NEW k \in Nat \ {0},
         NEW price \in Nat, NEW fee \in Nat,
         Admissible(ApplyFill(p, side, k, price, fee))
  PROVE  /\ ApplyFill(p, side, k, price, fee) \in Position
         /\ ApplyFill(p, side, k, price, fee).quantity = p.quantity + side * k
<1> DEFINE signed == side * k
           after == ApplyFill(p, side, k, price, fee)
<1>1. signed \in Int /\ p.quantity \in Int /\ p.average \in Nat
  BY DEF Position
<1>2. AverageAfter(p, signed, price) \in Int
  <2>1. Abs(p.quantity) \in Nat /\ Abs(signed) \in Nat
    BY <1>1, AbsType
  <2>2. Abs(p.quantity) * p.average + Abs(signed) * price * Parts \in Int
    BY <1>1, <2>1
  <2>3. signed # 0 => Abs(p.quantity) + Abs(signed) > 0
    BY <1>1, <2>1 DEF Abs
  <2>4. signed # 0
    OBVIOUS
  <2>5. (Abs(p.quantity) * p.average + Abs(signed) * price * Parts)
          \div (Abs(p.quantity) + Abs(signed)) \in Int
    BY <2>1, <2>2, <2>3, <2>4
  <2>6. price * Parts \in Int
    OBVIOUS
  <2> QED
    BY <1>1, <2>5, <2>6 DEF AverageAfter
<1>3. RealizedBy(p, signed, price) \in Int
  <2>1. Lesser(Abs(p.quantity), Abs(signed)) \in Int
    BY <1>1, AbsType DEF Lesser
  <2>2. price * Parts - p.average \in Int
    BY <1>1
  <2> QED
    BY <2>1, <2>2 DEF RealizedBy
<1>4. after = [quantity |-> p.quantity + signed,
               average  |-> AverageAfter(p, signed, price),
               realized |-> p.realized + RealizedBy(p, signed, price)
                              - fee * Parts,
               fees     |-> p.fees + fee]
  BY DEF ApplyFill
<1>5. after.average \in Nat /\ after.fees \in Nat
  BY <1>2, <1>4 DEF Admissible, Position
<1> HIDE DEF after, signed
<1>6. after \in Position /\ after.quantity = p.quantity + signed
  <2>1. p.realized \in Int /\ fee * Parts \in Int
    BY DEF Position
  <2>2. p.realized + RealizedBy(p, signed, price) - fee * Parts \in Int
    BY <1>3, <2>1
  <2>3. AverageAfter(p, signed, price) \in Nat /\ p.fees + fee \in Nat
    BY <1>4, <1>5
  <2> QED
    BY <1>1, <1>4, <2>2, <2>3 DEF Position
<1> QED
  BY <1>6 DEF after, signed

-----------------------------------------------------------------------------
(* Types *)

Order ==
    [status : {"absent", "rejected", "open", "done"}, side : {Buy, Sell},
     quantity : Nat, filled : Nat, reduceOnly : BOOLEAN]

\* A filled or closed order is an order.
LEMMA FilledOrder ==
  ASSUME NEW r \in Order, NEW n \in Nat,
         NEW status \in {"absent", "rejected", "open", "done"}
  PROVE  [r EXCEPT !.filled = n, !.status = status] \in Order
  BY DEF Order

\* What a fill does, with the position ledger's rules for it.
LEMMA FillSteps ==
  ASSUME TypeOK, NEW o \in Ids, NEW price \in Prices,
         NEW k \in 1..orders[o].quantity, Fill(o, k, price)
  PROVE  \/ UNCHANGED <<honours, position, orders>>
         \/ /\ o \in Open /\ k \in Nat \ {0} /\ k <= Remaining(o)
            /\ honours /\ orders[o].reduceOnly => ClosesOnly(o, k)
            /\ position' \in Position
            /\ position'.quantity = position.quantity + orders[o].side * k
            /\ orders' = [orders EXCEPT ![o].filled = @ + k,
                 ![o].status = IF k = Remaining(o) THEN "done" ELSE @]
            /\ UNCHANGED honours
<1> DEFINE after == ApplyFill(position, orders[o].side, k, price, Fee)
<1>1. CASE Fee >= 0 /\ Admissible(after)
  <2>1. /\ position \in Position /\ orders[o].side \in {Buy, Sell}
        /\ k \in Nat \ {0} /\ price \in Nat /\ Fee \in Nat
    BY <1>1 DEF TypeOK
  <2>2. /\ after \in Position
        /\ after.quantity = position.quantity + orders[o].side * k
    BY <1>1, <2>1, ApplyFillType
  <2> QED
    BY <1>1, <2>1, <2>2 DEF Fill
<1>2. CASE ~ (Fee >= 0 /\ Admissible(after))
  BY <1>2 DEF Fill
<1> QED
  BY <1>1, <1>2

(* Every row has its type and no order is filled beyond its quantity.      *)
THEOREM TypeCorrect == Spec => []TypeOK
<1>1. Init => TypeOK
  BY DEF Init, TypeOK, Flat, Position, Absent
<1>2. TypeOK /\ [Next]_vars => TypeOK'
  <2> SUFFICES ASSUME TypeOK, [Next]_vars PROVE TypeOK'
    OBVIOUS
  <2>1. ASSUME NEW o \in Ids, NEW i \in Intents, Call(o, i) PROVE TypeOK'
    <3>1. PICK status \in {"open", "rejected"} :
             orders' = [orders EXCEPT ![o] =
               [status |-> status, side |-> i.side, quantity |-> i.quantity,
                filled |-> 0, reduceOnly |-> i.reduceOnly]]
      BY <2>1 DEF Call
    <3>2. /\ i.side \in {Buy, Sell} /\ i.quantity \in Nat
          /\ i.reduceOnly \in BOOLEAN
      BY DEF Intents
    <3>3. UNCHANGED <<honours, position, cash>>
      BY <2>1 DEF Call
    <3> QED
      BY <3>1, <3>2, <3>3 DEF TypeOK
  <2>2. ASSUME NEW o \in Ids, NEW price \in Prices,
               NEW k \in 1..orders[o].quantity, Fill(o, k, price)
        PROVE  TypeOK'
    <3>1. cash' \in Int
      <4>1. /\ orders[o].side \in Int /\ k \in Int /\ price \in Int
            /\ cash \in Int
        BY DEF TypeOK
      <4>2. orders[o].side * k * price * Multiplier + Fee \in Int
        BY <4>1
      <4>3. cash - (orders[o].side * k * price * Multiplier + Fee) * Parts
              \in Int
        BY <4>1, <4>2
      <4> QED
        BY <2>2, <4>3 DEF Fill
    <3>2. CASE UNCHANGED <<honours, position, orders>>
      BY <3>1, <3>2 DEF TypeOK
    <3>3. CASE /\ k \in Nat /\ k <= Remaining(o)
               /\ position' \in Position /\ UNCHANGED honours
               /\ orders' = [orders EXCEPT ![o].filled = @ + k,
                    ![o].status = IF k = Remaining(o) THEN "done" ELSE @]
      <4> DEFINE status == IF k = Remaining(o) THEN "done" ELSE orders[o].status
      <4>1. /\ orders \in [Ids -> Order] /\ orders[o] \in Order
            /\ status \in {"absent", "rejected", "open", "done"}
        BY DEF TypeOK, Order
      <4>2. orders' = [orders EXCEPT
              ![o] = [orders[o] EXCEPT !.filled = @ + k, !.status = status]]
        BY <3>3, <4>1 DEF Order
      <4> HIDE DEF status
      <4>3. [orders[o] EXCEPT !.filled = @ + k, !.status = status] \in Order
        <5>1. orders[o].filled + k \in Nat
          BY <3>3, <4>1 DEF Order
        <5> QED
          BY <4>1, <5>1, FilledOrder
      <4>4. orders' \in [Ids -> Order]
        BY <4>1, <4>2, <4>3
      <4>5. /\ orders'[o].filled = orders[o].filled + k
            /\ orders'[o].quantity = orders[o].quantity
            /\ \A x \in Ids \ {o} : orders'[x] = orders[x]
        BY <4>1, <4>2 DEF Order
      <4>6. orders[o].filled + k <= orders[o].quantity
        BY <3>3, <4>1 DEF Order, Remaining
      <4>7. \A x \in Ids : orders'[x].filled <= orders'[x].quantity
        BY <4>5, <4>6 DEF TypeOK
      <4> QED
        BY <3>1, <3>3, <4>4, <4>7 DEF TypeOK, Order
    <3> QED
      BY <2>2, <3>2, <3>3, FillSteps
  <2>3. ASSUME NEW o \in Ids, Close(o) PROVE TypeOK'
    BY <2>3 DEF TypeOK, Close
  <2>4. CASE UNCHANGED vars
    BY <2>4 DEF TypeOK, vars
  <2> QED
    BY <2>1, <2>2, <2>3, <2>4 DEF Next
<1> QED
  BY <1>1, <1>2, PTL DEF Spec

-----------------------------------------------------------------------------
(* Notional values *)

\* Multiplication is monotone.
LEMMA ProductMonotone ==
  ASSUME NEW a \in Nat, NEW b \in Nat, NEW c \in Nat, a <= b
  PROVE  a * c <= b * c
<1>1. b = a + (b - a) /\ b - a \in Nat
  OBVIOUS
<1>2. \A d \in Nat : (a + d) * c = a * c + d * c /\ d * c >= 0
  OBVIOUS
<1>3. a * c \in Int /\ (b - a) * c \in Int
  BY <1>1
<1> QED
  BY <1>1, <1>2, <1>3

\* The notional of a quantity at a price.
LEMMA NotionalIs ==
  ASSUME NEW price \in Nat, NEW q \in Int
  PROVE  Notional(price, q) = Abs(q) * (price * Multiplier)
<1> DEFINE c == price * Multiplier
<1>1. c \in Nat
  OBVIOUS
<1>2. price * q * Multiplier = q * c
  OBVIOUS
<1> HIDE DEF c
<1>3. CASE q >= 0
  <2>1. q * c >= 0
    BY <1>1, <1>3
  <2> QED
    BY <1>2, <1>3, <2>1 DEF Notional, Abs, c
<1>4. CASE q < 0
  <2>1. (-q) * c >= 0 /\ (-q) * c \in Int /\ q * c \in Int
    BY <1>1, <1>4
  <2>2. q * c = -((-q) * c)
    BY <1>1, <2>1
  <2>3. IF q * c < 0 THEN -(q * c) = (-q) * c ELSE q * c = (-q) * c
    BY <2>1, <2>2
  <2>4. Abs(q) = -q
    BY <1>4 DEF Abs
  <2>5. Notional(price, q) = (-q) * c
    BY <1>2, <2>3 DEF Notional, Abs
  <2> QED
    BY <2>4, <2>5 DEF c
<1> QED
  BY <1>3, <1>4

Fits(q) == \E price \in Prices : Notional(price, q) <= Limits.positionNotional

\* A smaller position fits where a larger one does.
LEMMA FitsBelow ==
  ASSUME NEW q \in Int, NEW r \in Int, Fits(r), Abs(q) <= Abs(r)
  PROVE  Fits(q)
<1>1. PICK price \in Prices : Notional(price, r) <= Limits.positionNotional
  BY DEF Fits
<1>2. price * Multiplier \in Nat /\ Abs(q) \in Nat /\ Abs(r) \in Nat
  BY AbsType
<1> DEFINE c == price * Multiplier
<1>3. /\ Notional(price, q) = Abs(q) * c
      /\ Notional(price, r) = Abs(r) * c
  BY NotionalIs
<1> HIDE DEF c
<1>4. /\ Abs(q) * c <= Abs(r) * c
      /\ Abs(q) * c \in Int /\ Abs(r) * c \in Int
  BY <1>2, ProductMonotone DEF c
<1> QED
  BY <1>1, <1>3, <1>4 DEF Fits

(* The position after a part of an order lies between the position before  *)
(* it and the one after the whole order.                                   *)
LEMMA FitsBetween ==
  ASSUME NEW q \in Int, NEW side \in {Buy, Sell}, NEW k \in Nat, NEW n \in Nat,
         k <= n, Fits(q), Fits(q + side * n)
  PROVE  Fits(q + side * k)
<1>1. Abs(q + side * k) <= Abs(q) \/ Abs(q + side * k) <= Abs(q + side * n)
  BY DEF Abs
<1> QED
  BY <1>1, FitsBelow

\* A flat position fits.
LEMMA FitsFlat == Fits(0)
<1>1. PICK price \in Prices : TRUE
  OBVIOUS
<1>2. Notional(price, 0) = 0
  BY NotionalIs DEF Abs
<1> QED
  BY <1>2 DEF Fits

-----------------------------------------------------------------------------
(* A caller that waits *)

\* Open orders are alone, unless they all reduce where the venue minds it.
Alone ==
    \A o, other \in Open :
       \/ o = other
       \/ honours /\ orders[o].reduceOnly /\ orders[other].reduceOnly

\* Where the venue does not mind, what is left of a reduce-only order still
\* is not more than the position it was approved to reduce.
RestReduces ==
    \A o \in Open :
       ~ honours /\ orders[o].reduceOnly =>
          /\ OppositeSigns(position.quantity, orders[o].side)
          /\ Remaining(o) <= Abs(position.quantity)

\* The position is within the limit, and will be when its open order fills.
RestFits ==
    /\ Fits(position.quantity)
    /\ \A o \in Open :
          ~ orders[o].reduceOnly =>
             Fits(position.quantity + orders[o].side * Remaining(o))

IInv == TypeOK /\ Alone /\ RestReduces /\ RestFits

\* The invariant holds at first, ...
LEMMA InitInv == Init => IInv
<1> SUFFICES ASSUME Init PROVE IInv
  OBVIOUS
<1>1. TypeOK
  BY DEF Init, TypeOK, Flat, Position, Absent
<1>2. Open = {} /\ position.quantity = 0
  BY DEF Init, Open, Absent, Flat
<1> QED
  BY <1>1, <1>2, FitsFlat DEF IInv, Alone, RestReduces, RestFits

\* ... a gateway call keeps it, ...
LEMMA CallInv ==
  ASSUME Waits = TRUE, IInv, TypeOK', NEW o \in Ids, NEW i \in Intents,
         Call(o, i)
  PROVE  IInv'
<1>1. PICK price \in Prices, account \in Accounts :
         /\ orders[o] = Absent /\ MayCall(i)
         /\ orders' = [orders EXCEPT ![o] =
              [status |-> IF Approved(i, Context(price, account)) THEN "open"
                          ELSE "rejected",
               side |-> i.side, quantity |-> i.quantity, filled |-> 0,
               reduceOnly |-> i.reduceOnly]]
         /\ UNCHANGED <<honours, position>>
  BY DEF Call
<1> DEFINE context == Context(price, account)
<1>2. context.price = price /\ context.position = position.quantity
  BY DEF Context
<1>3. /\ orders \in [Ids -> Order] /\ position.quantity \in Int
      /\ honours \in BOOLEAN
  BY DEF IInv, TypeOK, Order, Position
<1>4. i.side \in {Buy, Sell} /\ i.quantity \in Nat /\ i.reduceOnly \in BOOLEAN
  BY DEF Intents
<1>5. \A x \in Ids : x # o => orders'[x] = orders[x]
  BY <1>1, <1>3
<1>6. /\ orders'[o].side = i.side /\ orders'[o].reduceOnly = i.reduceOnly
      /\ orders'[o].quantity = i.quantity /\ orders'[o].filled = 0
      /\ orders'[o].status = "open" => Approved(i, context)
  BY <1>1, <1>3
<1> HIDE DEF context
<1>7. Open' \subseteq Open \cup {o} /\ Open \subseteq Ids \ {o}
  BY <1>1, <1>5 DEF Open, Absent
<1>8. o \in Open' => Approved(i, context)
  BY <1>6 DEF Open
<1>9. Remaining(o)' = i.quantity /\ \A x \in Open : Remaining(x)' = Remaining(x)
  BY <1>4, <1>5, <1>6, <1>7 DEF Remaining
<1>10. \/ Open = {}
       \/ honours /\ i.reduceOnly /\ \A x \in Open : orders[x].reduceOnly
  BY <1>1 DEF MayCall
<1>11. Alone'
  BY <1>1, <1>5, <1>6, <1>7, <1>10 DEF Alone
<1>12. RestReduces'
  <2>1. \A x \in Open : orders'[x] = orders[x] /\ Remaining(x)' = Remaining(x)
    BY <1>5, <1>7, <1>9
  <2>2. i.reduceOnly /\ o \in Open' =>
           /\ OppositeSigns(position.quantity, i.side)
           /\ i.quantity <= Abs(position.quantity)
    BY <1>2, <1>4, <1>8 DEF Approved, Reduces
  <2> QED
    BY <1>1, <1>6, <1>7, <1>9, <2>1, <2>2 DEF IInv, RestReduces
<1>13. RestFits'
  <2>1. \A x \in Open : orders'[x] = orders[x] /\ Remaining(x)' = Remaining(x)
    BY <1>5, <1>7, <1>9
  <2>2. ~ i.reduceOnly /\ o \in Open' =>
           Fits(position.quantity + i.side * i.quantity)
    BY <1>2, <1>4, <1>8 DEF Approved, WithinLimits, Projected, Fits
  <2> QED
    BY <1>1, <1>6, <1>7, <1>9, <2>1, <2>2 DEF IInv, RestFits
<1> QED
  BY <1>11, <1>12, <1>13 DEF IInv

\* What a fill leaves of the order and does to the position.
LEMMA FillEffect ==
  ASSUME TypeOK, NEW o \in Open, NEW k \in Nat \ {0}, k <= Remaining(o),
         orders' = [orders EXCEPT ![o].filled = @ + k,
                      ![o].status = IF k = Remaining(o) THEN "done" ELSE @]
  PROVE  /\ orders'[o].side = orders[o].side
         /\ orders'[o].reduceOnly = orders[o].reduceOnly
         /\ Remaining(o)' = Remaining(o) - k /\ Remaining(o) \in Nat
         /\ o \in Open' => k < Remaining(o)
         /\ \A x \in Ids \ {o} :
               orders'[x] = orders[x] /\ Remaining(x)' = Remaining(x)
         /\ Open' \subseteq Open
<1>1. o \in Ids /\ orders \in [Ids -> Order] /\ orders[o] \in Order
  BY DEF TypeOK, Open, Order
<1>2. orders[o].filled <= orders[o].quantity
  BY <1>1 DEF TypeOK
<1>3. /\ orders'[o].side = orders[o].side
      /\ orders'[o].reduceOnly = orders[o].reduceOnly
      /\ orders'[o].quantity = orders[o].quantity
      /\ orders'[o].filled = orders[o].filled + k
      /\ orders'[o].status =
            IF k = Remaining(o) THEN "done" ELSE orders[o].status
  BY <1>1 DEF Order
<1>4. \A x \in Ids \ {o} : orders'[x] = orders[x]
  BY <1>1
<1>5. Remaining(o) \in Nat /\ Remaining(o)' = Remaining(o) - k
  BY <1>1, <1>2, <1>3 DEF Order, Remaining
<1>6. o \in Open' => k # Remaining(o)
  BY <1>3 DEF Open
<1>7. \A x \in Ids \ {o} : Remaining(x)' = Remaining(x)
  BY <1>4 DEF Remaining
<1>8. Open' \subseteq Open
  BY <1>4 DEF Open
<1>9. k # Remaining(o) => k < Remaining(o)
  BY <1>5
<1> QED
  BY <1>3, <1>4, <1>5, <1>6, <1>7, <1>8, <1>9

\* A fill of a reduce-only order only closes.
LEMMA FillOfReduceOnly ==
  ASSUME IInv, NEW o \in Open, orders[o].reduceOnly, NEW k \in Nat \ {0},
         k <= Remaining(o), Remaining(o) \in Nat,
         honours => ClosesOnly(o, k),
         position'.quantity = position.quantity + orders[o].side * k
  PROVE  /\ Abs(position'.quantity) < Abs(position.quantity)
         /\ ~ OppositeSigns(position.quantity, position'.quantity)
         /\ position'.quantity # 0 =>
               OppositeSigns(position'.quantity, orders[o].side)
         /\ Abs(position'.quantity) = Abs(position.quantity) - k
<1>1. /\ position.quantity \in Int /\ orders[o].side \in {Buy, Sell}
  BY DEF IInv, TypeOK, Position, Open
<1>2. /\ OppositeSigns(position.quantity, orders[o].side)
      /\ k <= Abs(position.quantity)
  <2>1. CASE honours
    BY <2>1 DEF ClosesOnly
  <2>2. CASE ~ honours
    <3>1. Remaining(o) <= Abs(position.quantity)
      BY <2>2 DEF IInv, RestReduces
    <3> QED
      BY <1>1, <2>2, <3>1, AbsType DEF IInv, RestReduces
  <2> QED
    BY <2>1, <2>2
<1> QED
  BY <1>1, <1>2 DEF OppositeSigns, SameSign, Abs

\* ... a fill keeps it, ...
LEMMA FillInv ==
  ASSUME IInv, TypeOK', NEW o \in Ids, NEW price \in Prices,
         NEW k \in 1..orders[o].quantity, Fill(o, k, price)
  PROVE  IInv'
<1>1. CASE UNCHANGED <<honours, position, orders>>
  BY <1>1 DEF IInv, Alone, RestReduces, RestFits, Open, Remaining
<1>2. CASE /\ o \in Open /\ k \in Nat \ {0} /\ k <= Remaining(o)
           /\ honours /\ orders[o].reduceOnly => ClosesOnly(o, k)
           /\ position'.quantity = position.quantity + orders[o].side * k
           /\ orders' = [orders EXCEPT ![o].filled = @ + k,
                ![o].status = IF k = Remaining(o) THEN "done" ELSE @]
           /\ UNCHANGED honours
  <2>1. /\ orders'[o].side = orders[o].side
        /\ orders'[o].reduceOnly = orders[o].reduceOnly
        /\ Remaining(o)' = Remaining(o) - k /\ Remaining(o) \in Nat
        /\ o \in Open' => k < Remaining(o)
        /\ \A x \in Ids \ {o} :
              orders'[x] = orders[x] /\ Remaining(x)' = Remaining(x)
        /\ Open' \subseteq Open
    BY <1>2, FillEffect DEF IInv
  <2>2. /\ position.quantity \in Int /\ position'.quantity \in Int
        /\ orders[o].side \in {Buy, Sell} /\ Open \subseteq Ids
        /\ orders[o].reduceOnly \in BOOLEAN
    BY <1>2 DEF IInv, TypeOK, Position, Open
  <2>3. Alone'
    BY <1>2, <2>1, <2>2 DEF IInv, Alone
  <2>4. CASE orders[o].reduceOnly
    <3>1. /\ Abs(position'.quantity) < Abs(position.quantity)
          /\ position'.quantity # 0 =>
                OppositeSigns(position'.quantity, orders[o].side)
          /\ Abs(position'.quantity) = Abs(position.quantity) - k
      BY <1>2, <2>1, <2>4, FillOfReduceOnly
    <3>2. RestReduces'
      <4> SUFFICES ASSUME NEW x \in Open', ~ honours', orders'[x].reduceOnly
                   PROVE  /\ OppositeSigns(position'.quantity, orders'[x].side)
                          /\ Remaining(x)' <= Abs(position'.quantity)
        BY DEF RestReduces
      <4>1. x = o
        BY <1>2, <2>1 DEF IInv, Alone
      <4>2. Remaining(o) <= Abs(position.quantity) /\ k < Remaining(o)
        BY <1>2, <2>1, <2>4, <4>1 DEF IInv, RestReduces
      <4>3. Abs(position.quantity) \in Nat /\ Abs(position'.quantity) # 0
        BY <2>1, <2>2, <3>1, <4>2, AbsType
      <4>4. position'.quantity # 0
        BY <4>3 DEF Abs
      <4> QED
        BY <1>2, <2>1, <3>1, <4>1, <4>2, <4>3, <4>4
    <3>3. Fits(position'.quantity)
      <4>1. Abs(position.quantity) \in Nat /\ Abs(position'.quantity) \in Nat
        BY <2>2, AbsType
      <4>2. Abs(position'.quantity) <= Abs(position.quantity)
        BY <3>1, <4>1
      <4> QED
        BY <2>2, <4>2, FitsBelow DEF IInv, RestFits
    <3>4. \A x \in Open' : orders'[x].reduceOnly
      BY <1>2, <2>1, <2>2, <2>4 DEF IInv, Alone
    <3> QED
      BY <2>3, <3>2, <3>3, <3>4 DEF IInv, RestFits
  <2>5. CASE ~ orders[o].reduceOnly
    <3>1. Open' \subseteq {o}
      BY <1>2, <2>1, <2>5 DEF IInv, Alone
    <3>2. RestReduces'
      BY <2>1, <2>5, <3>1 DEF RestReduces
    <3>3. /\ Fits(position.quantity)
          /\ Fits(position.quantity + orders[o].side * Remaining(o))
      BY <1>2, <2>5 DEF IInv, RestFits
    <3>4. Fits(position'.quantity)
      BY <1>2, <2>1, <2>2, <3>3, FitsBetween
    <3>5. position'.quantity + orders'[o].side * Remaining(o)'
             = position.quantity + orders[o].side * Remaining(o)
      BY <1>2, <2>1, <2>2
    <3> QED
      BY <2>3, <3>1, <3>2, <3>3, <3>4, <3>5 DEF IInv, RestFits
  <2> QED
    BY <2>2, <2>4, <2>5
<1> QED
  BY <1>1, <1>2, FillSteps DEF IInv

\* ... and so does the end of an order.
LEMMA CloseInv ==
  ASSUME IInv, TypeOK', NEW o \in Ids, Close(o)
  PROVE  IInv'
<1>1. orders \in [Ids -> Order] /\ o \in Open
  BY DEF Close, IInv, TypeOK, Order
<1>2. Open' \subseteq Open \ {o}
  BY <1>1 DEF Close, Open, Order
<1>3. \A x \in Open' : orders'[x] = orders[x] /\ Remaining(x)' = Remaining(x)
  BY <1>1, <1>2 DEF Close, Remaining
<1>4. UNCHANGED <<honours, position>>
  BY DEF Close
<1> QED
  BY <1>2, <1>3, <1>4 DEF IInv, Alone, RestReduces, RestFits

\* The exposure invariant holds of a host that calls the gateway only while
\* nothing is open.
THEOREM Invariance == Waits = TRUE /\ Spec => []IInv
<1> SUFFICES ASSUME Waits = TRUE PROVE Spec => []IInv
  OBVIOUS
<1>1. IInv /\ TypeOK' /\ [Next]_vars => IInv'
  <2> SUFFICES ASSUME IInv, TypeOK', [Next]_vars PROVE IInv'
    OBVIOUS
  <2>1. ASSUME NEW o \in Ids, NEW i \in Intents, Call(o, i) PROVE IInv'
    BY <2>1, CallInv
  <2>2. ASSUME NEW o \in Ids, NEW price \in Prices,
               NEW k \in 1..orders[o].quantity, Fill(o, k, price)
        PROVE  IInv'
    BY <2>2, FillInv
  <2>3. ASSUME NEW o \in Ids, Close(o) PROVE IInv'
    BY <2>3, CloseInv
  <2>4. CASE UNCHANGED vars
    BY <2>4 DEF vars, IInv, Alone, RestReduces, RestFits, Open, Remaining
  <2> QED
    BY <2>1, <2>2, <2>3, <2>4 DEF Next
<1> QED
  BY <1>1, InitInv, TypeCorrect, PTL DEF Spec

(* However partial fills, reversals, cancellations and reduce-only orders  *)
(* follow one another, the position of a caller that waits stays within    *)
(* the position limit, for every limit, instrument and quantity.           *)
THEOREM LimitSafety == Waits = TRUE /\ Spec => []PositionWithinLimit
<1>1. IInv => PositionWithinLimit
  BY DEF IInv, RestFits, Fits, PositionWithinLimit
<1> QED
  BY <1>1, Invariance, PTL

(* Every fill of a reduce-only order brings the position of a caller that  *)
(* waits closer to zero and never across it, whether the venue honours the *)
(* flag or not.                                                            *)
THEOREM ReduceOnlySafety == Waits = TRUE /\ Spec => ReduceOnlyReduces
<1> DEFINE Step ==
      \A o \in Ids :
          orders[o].reduceOnly /\ orders'[o].filled > orders[o].filled =>
             /\ Abs(position'.quantity) < Abs(position.quantity)
             /\ ~ OppositeSigns(position.quantity, position'.quantity)
<1>1. IInv /\ [Next]_vars => Step
  <2> SUFFICES ASSUME IInv, [Next]_vars, NEW x \in Ids,
                      orders[x].reduceOnly, orders'[x].filled > orders[x].filled
               PROVE  /\ Abs(position'.quantity) < Abs(position.quantity)
                      /\ ~ OppositeSigns(position.quantity, position'.quantity)
    OBVIOUS
  <2>1. orders \in [Ids -> Order]
    BY DEF IInv, TypeOK, Order
  <2>2. orders[x] \in Order /\ ~ orders[x].filled > orders[x].filled
    BY <2>1 DEF Order
  <2>3. ASSUME NEW o \in Ids, NEW i \in Intents, Call(o, i) PROVE FALSE
    <3>1. orders'[x].filled = orders[x].filled
      BY <2>1, <2>3 DEF Call, Absent
    <3> QED
      BY <2>2, <3>1
  <2>4. ASSUME NEW o \in Ids, NEW price \in Prices,
               NEW k \in 1..orders[o].quantity, Fill(o, k, price)
        PROVE  /\ Abs(position'.quantity) < Abs(position.quantity)
               /\ ~ OppositeSigns(position.quantity, position'.quantity)
    <3>1. CASE UNCHANGED <<honours, position, orders>>
      BY <2>2, <3>1
    <3>2. CASE /\ o \in Open /\ k \in Nat \ {0} /\ k <= Remaining(o)
               /\ honours /\ orders[o].reduceOnly => ClosesOnly(o, k)
               /\ position'.quantity = position.quantity + orders[o].side * k
               /\ orders' = [orders EXCEPT ![o].filled = @ + k,
                    ![o].status = IF k = Remaining(o) THEN "done" ELSE @]
      <4>1. /\ Remaining(o) \in Nat
            /\ \A y \in Ids \ {o} : orders'[y] = orders[y]
        BY <3>2, FillEffect DEF IInv
      <4>2. x = o
        BY <2>2, <4>1
      <4> QED
        BY <3>2, <4>1, <4>2, FillOfReduceOnly
    <3> QED
      BY <2>4, <3>1, <3>2, FillSteps DEF IInv
  <2>5. ASSUME NEW o \in Ids, Close(o) PROVE FALSE
    <3>1. orders'[x].filled = orders[x].filled
      BY <2>1, <2>5 DEF Close, Order
    <3> QED
      BY <2>2, <3>1
  <2>6. CASE UNCHANGED vars
    BY <2>2, <2>6 DEF vars
  <2> QED
    BY <2>3, <2>4, <2>5, <2>6 DEF Next
<1>2. Step => [Step]_vars
  OBVIOUS
<1> QED
  BY <1>1, <1>2, Invariance, PTL DEF Spec, ReduceOnlyReduces

-----------------------------------------------------------------------------
(* Profit and cash *)

\* A number is its quotient and its rest.
LEMMA DivisionRest ==
  ASSUME NEW m \in Nat, NEW d \in Nat \ {0}
  PROVE  m = d * (m \div d) + (m % d) /\ m % d \in 0..(d-1) /\ m \div d \in Nat
  OBVIOUS

\* Whatever a fill does to a position, the cost of what is held and the profit
\* realized, in parts and without the multiplier, account for what it moved,
\* apart from what rounding an average cuts off.
Accounted(p, side, k, price) ==
    LET after == p.quantity + side * k
        average == AverageAfter(p, side * k, price)
    IN  /\ average \in Nat /\ (after = 0 <=> average = 0)
        /\ \E r \in Nat : \E profit \in Int :
             /\ r <= Abs(after)
             /\ RealizedBy(p, side * k, price) = profit * Multiplier
             /\ after * average - profit
                   = p.quantity * p.average + side * (k * (price * Parts))
                       - side * r

\* Every fill is accounted for.
LEMMA AverageStep ==
  ASSUME NEW p \in Position, p.quantity = 0 <=> p.average = 0,
         NEW side \in {1, -1}, NEW k \in Nat \ {0}, NEW price \in Nat \ {0}
  PROVE  Accounted(p, side, k, price)
<1> DEFINE q == p.quantity
           a == p.average
           s == side * k
           P == price * Parts
           b == AverageAfter(p, s, price)
<1>0. q \in Int /\ a \in Nat /\ (q = 0 <=> a = 0)
  BY DEF Position
<1>1. s \in Int /\ s # 0 /\ Abs(s) = k /\ P \in Nat \ {0}
  BY DEF Abs
<1>2. Abs(q) \in Nat /\ Abs(q) = (IF q < 0 THEN -q ELSE q)
  BY <1>0 DEF Abs
<1> DEFINE Goal ==
      /\ b \in Nat /\ (q + s = 0 <=> b = 0)
      /\ \E r \in Nat : \E profit \in Int :
           /\ r <= Abs(q + s)
           /\ RealizedBy(p, s, price) = profit * Multiplier
           /\ (q + s) * b - profit = q * a + side * (k * P) - side * r
<1> SUFFICES Goal
  BY DEF Accounted
<1>3. CASE q = 0
  <2>1. b = P
    BY <1>0, <1>1, <1>3 DEF AverageAfter
  <2>2. RealizedBy(p, s, price) = 0 * Multiplier
    BY <1>0, <1>1, <1>3 DEF RealizedBy, OppositeSigns, SameSign
  <2>3. (q + s) * b - 0 = q * a + side * (k * P) - side * 0
    BY <1>0, <1>1, <1>3, <2>1
  <2> HIDE DEF b, s, P, q, a
  <2> QED
    BY <1>0, <1>1, <1>3, <2>1, <2>2, <2>3, AbsType
<1>4. CASE SameSign(q, s)
  <2> DEFINE n == Abs(q)
             N == n * a + k * P
             S == n + k
             r == N % S
  <2>1. q = side * n /\ n \in Nat \ {0} /\ a \in Nat \ {0}
    BY <1>0, <1>1, <1>2, <1>4 DEF SameSign
  <2>2. /\ n * a \in Nat /\ k * P \in Nat \ {0} /\ N \in Nat /\ S \in Nat \ {0}
    BY <1>0, <1>1, <2>1
  <2>3. b = N \div S
    <3>1. q + s # 0 /\ q # 0 /\ ~ OppositeSigns(q, q + s)
      BY <1>0, <1>1, <1>4 DEF SameSign, OppositeSigns
    <3>2. Abs(s) * price * Parts = k * P
      BY <1>0, <1>1
    <3> QED
      BY <1>0, <1>1, <1>4, <3>1, <3>2 DEF AverageAfter
  <2>4. RealizedBy(p, s, price) = 0 * Multiplier
    BY <1>0, <1>1, <1>4 DEF RealizedBy, OppositeSigns, SameSign
  <2> HIDE DEF n
  <2>5. /\ N = S * (N \div S) + r /\ r \in 0..(S - 1) /\ N \div S \in Nat
    BY <2>2, DivisionRest
  <2>6. N \div S # 0
    <3>1. n * a >= n /\ k * P >= k
      BY <1>0, <1>1, <2>1
    <3>2. N >= S
      BY <2>1, <2>2, <3>1
    <3> QED
      BY <2>2, <2>5, <3>2
  <2>7. q + s = side * S /\ Abs(q + s) = S
    BY <1>0, <1>1, <2>1 DEF Abs
  <2>8. q * a = side * (n * a)
    BY <1>0, <2>1
  <2> HIDE DEF r, b, s, P, S
  <2>9. (q + s) * b = side * (N - r)
    <3>1. (side * S) * b = side * (S * b)
      BY <2>2, <2>3, <2>5
    <3> QED
      BY <2>2, <2>3, <2>5, <2>7, <3>1
  <2>10. (q + s) * b - 0 = q * a + side * (k * P) - side * r
    BY <2>2, <2>5, <2>8, <2>9
  <2>11. r \in Nat /\ r <= Abs(q + s)
    BY <2>2, <2>5, <2>7
  <2>12. b \in Nat /\ (q + s = 0 <=> b = 0)
    <3>1. q + s # 0
      BY <2>2, <2>7
    <3> QED
      BY <2>3, <2>5, <2>6, <3>1
  <2> QED
    BY <2>4, <2>10, <2>11, <2>12
<1>5. CASE q # 0 /\ ~ SameSign(q, s)
  <2> DEFINE n == Abs(q)
             m == Lesser(n, k)
             profit == side * (a * m) - side * (P * m)
  <2>1. q = -side * n /\ n \in Nat \ {0} /\ OppositeSigns(q, s)
    BY <1>0, <1>1, <1>2, <1>5 DEF SameSign, OppositeSigns
  <2>2. m \in Nat /\ m = IF n < k THEN n ELSE k
    BY <1>0, <1>1, <2>1 DEF Lesser
  <2>3. RealizedBy(p, s, price) = profit * Multiplier
    <3>1. RealizedBy(p, s, price) = (P - a) * (-side) * m * Multiplier
      BY <1>0, <1>1, <2>1 DEF RealizedBy, OppositeSigns, SameSign
    <3> HIDE DEF m, P, q, a
    <3>2. (P - a) * (-side) * m = profit
      BY <1>0, <1>1, <2>2
    <3> QED
      BY <3>1, <3>2
  <2>4. /\ profit \in Int
    <3> HIDE DEF m, P
    <3> QED
      BY <1>0, <1>1, <2>2
  <2>5. /\ n < k => b = P
        /\ n = k => b = 0
        /\ n > k => b = a
    BY <1>0, <1>1, <2>1 DEF AverageAfter, OppositeSigns, SameSign
  <2>6. q + s = side * (k - n)
    BY <1>0, <1>1, <2>1
  <2> HIDE DEF n, b, P, q, a
  <2>7. (q + s) * b - profit = q * a + side * (k * P) - side * 0
    <3>1. CASE n < k
      BY <1>0, <1>1, <2>1, <2>2, <2>5, <2>6, <3>1
    <3>2. CASE n = k
      BY <1>0, <1>1, <2>1, <2>2, <2>5, <2>6, <3>2
    <3>3. CASE n > k
      BY <1>0, <1>1, <2>1, <2>2, <2>5, <2>6, <3>3
    <3> QED
      BY <2>1, <3>1, <3>2, <3>3
  <2>8. b \in Nat /\ (q + s = 0 <=> b = 0)
    BY <1>0, <1>1, <2>1, <2>5, <2>6
  <2> HIDE DEF profit, s
  <2> QED
    BY <1>0, <1>1, <2>3, <2>4, <2>7, <2>8, AbsType
<1> QED
  BY <1>3, <1>4, <1>5

\* What all orders have filled.
FilledUnits == [o \in Ids |-> orders[o].filled]
Units == SumFunctionOnSet(FilledUnits, Ids)

Missing ==
    cash + position.quantity * position.average * Multiplier - position.realized

\* ProfitIsCash, the average of a flat position, and that a position is made of
\* filled units: an average is cut off by less than one part for each of them.
CashInv ==
    /\ TypeOK
    /\ position.quantity = 0 <=> position.average = 0
    /\ Units \in Nat /\ Abs(position.quantity) <= Units
    /\ -(Units * Units * Multiplier) <= Missing
    /\ Missing <= Units * Units * Multiplier

\* The invariant is about the filled quantities, the position and the cash.
LEMMA CashIdle ==
  ASSUME CashInv, TypeOK', UNCHANGED <<position, cash>>,
         \A o \in Ids : orders'[o].filled = orders[o].filled
  PROVE  CashInv'
<1>1. FilledUnits' = FilledUnits
  BY DEF FilledUnits
<1>2. Units' = Units /\ Missing' = Missing
  BY <1>1 DEF Units, Missing
<1> QED
  BY <1>2 DEF CashInv

\* A fill that adds to the position cuts off less than its size, and every other
\* one nothing: the bound grows faster than that.
LEMMA CashFill ==
  ASSUME IsFiniteSet(Ids), Fee >= 0, CashInv, TypeOK', NEW o \in Ids,
         NEW price \in Prices, NEW k \in 1..orders[o].quantity,
         Fill(o, k, price)
  PROVE  CashInv'
<1> DEFINE q == position.quantity
           a == position.average
           side == orders[o].side
           s == side * k
           b == AverageAfter(position, s, price)
           P == price * Parts
           M == Multiplier
<1>1. /\ orders \in [Ids -> Order] /\ orders[o] \in Order
      /\ q \in Int /\ a \in Nat /\ side \in {1, -1} /\ k \in Nat \ {0}
      /\ price \in Nat \ {0} /\ q = 0 <=> a = 0
      /\ position.realized \in Int /\ position.fees \in Nat /\ cash \in Int
      /\ position \in Position
  BY DEF CashInv, TypeOK, Order, Position
<1>2. /\ b \in Nat /\ (q + s = 0 <=> b = 0)
      /\ \E r \in Nat : \E profit \in Int :
           /\ r <= Abs(q + s)
           /\ RealizedBy(position, s, price) = profit * M
           /\ (q + s) * b - profit = q * a + side * (k * P) - side * r
  <2>1. Accounted(position, side, k, price)
    BY <1>1, AverageStep
  <2> QED
    BY <2>1 DEF Accounted
<1>3. PICK r \in Nat : \E profit \in Int :
         /\ r <= Abs(q + s)
         /\ RealizedBy(position, s, price) = profit * M
         /\ (q + s) * b - profit = q * a + side * (k * P) - side * r
  BY <1>2
<1>4. PICK profit \in Int :
         /\ r <= Abs(q + s)
         /\ RealizedBy(position, s, price) = profit * M
         /\ (q + s) * b - profit = q * a + side * (k * P) - side * r
  BY <1>3
<1> DEFINE after == ApplyFill(position, side, k, price, Fee)
<1>5. after = [quantity |-> q + s, average |-> b,
               realized |-> position.realized + profit * M - Fee * Parts,
               fees |-> position.fees + Fee]
  BY <1>4 DEF ApplyFill
<1>6. Admissible(after)
  BY <1>1, <1>2, <1>5 DEF Admissible
<1>7. /\ position' = after
      /\ orders' = [orders EXCEPT ![o].filled = @ + k,
                      ![o].status = IF k = Remaining(o) THEN "done" ELSE @]
      /\ cash' = cash - (side * k * price * M + Fee) * Parts
      /\ k <= Remaining(o) /\ o \in Open
  BY <1>6 DEF Fill
<1>8. Units' = Units + k /\ Units \in Nat
  <2> DEFINE f == FilledUnits
             g == FilledUnits'
  <2>1. \A x \in Ids : f[x] = orders[x].filled /\ g[x] = orders'[x].filled
    BY DEF FilledUnits
  <2>2. orders'[o].filled = orders[o].filled + k
    BY <1>1, <1>7 DEF Order
  <2>3. \A x \in Ids \ {o} : orders'[x] = orders[x]
    BY <1>1, <1>7
  <2>4. \A x \in Ids : orders[x].filled \in Nat
    BY <1>1 DEF Order
  <2> HIDE DEF f, g
  <2>5. /\ \A x \in Ids : f[x] \in Int /\ g[x] \in Int
        /\ \A x \in Ids \ {o} : g[x] = f[x]
        /\ g[o] = f[o] + k /\ f[o] \in Int
    BY <1>1, <2>1, <2>2, <2>3, <2>4
  <2>6. SumFunctionOnSet(g, Ids) = SumFunctionOnSet(f, Ids) - f[o] + g[o]
    BY ONLY <2>5, IsFiniteSet(Ids), o \in Ids, SumChange
  <2>7. Units' = SumFunctionOnSet(g, Ids) /\ Units = SumFunctionOnSet(f, Ids)
    BY DEF Units, f, g
  <2>8. Units \in Nat
    BY DEF CashInv
  <2> QED
    BY <1>1, <2>5, <2>6, <2>7, <2>8
<1>9. position'.quantity = q + s /\ position'.average = b
      /\ position'.realized = position.realized + profit * M - Fee * Parts
  BY <1>5, <1>7
<1>10. Abs(q + s) \in Nat /\ Abs(q + s) <= Units + k
  <2>1. Abs(q) <= Units
    BY DEF CashInv
  <2> QED
    BY <1>1, <1>8, <2>1 DEF Abs
<1>11. Missing' = Missing - side * (r * M)
  <2> DEFINE paid == side * (k * P)
             held == (q + s) * b
             was == q * a
  <2>1. side * k * price * M * Parts = paid * M
    BY <1>1
  <2>2. paid \in Int /\ held \in Int /\ was \in Int /\ s \in Int
    BY <1>1, <1>2
  <2>3. held - profit = was + paid - side * r
    BY <1>4
  <2>4. cash' = cash - paid * M - Fee * Parts
    <3> DEFINE w == side * k * price * M
    <3>1. w \in Int
      BY <1>1
    <3>2. cash' = cash - (w + Fee) * Parts
      BY <1>7
    <3> HIDE DEF w, paid
    <3>3. (w + Fee) * Parts = w * Parts + Fee * Parts
      BY <3>1
    <3> QED
      BY <1>1, <2>1, <2>2, <3>1, <3>2, <3>3 DEF w
  <2>5. /\ Missing = cash + was * M - position.realized
        /\ Missing' = cash' + held * M
                        - (position.realized + profit * M - Fee * Parts)
    BY <1>9 DEF Missing
  <2> HIDE DEF paid, held, was
  <2>6. held * M - profit * M - paid * M = was * M - side * (r * M)
    <3>1. (held - profit - paid) * M = (was - side * r) * M
      <4>1. side * r \in Int /\ held - profit - paid = was - side * r
        <5> DEFINE y == side * r
        <5>1. y \in Int
          BY <1>1
        <5> HIDE DEF y
        <5>2. held - profit = was + paid - y
          BY <2>3 DEF y
        <5>3. held - profit - paid = was - y
          BY <2>2, <5>1, <5>2
        <5> QED
          BY <5>1, <5>3 DEF y
      <4> QED
        BY <4>1
    <3>2. (held - profit - paid) * M = held * M - profit * M - paid * M
      BY <2>2
    <3>3. (was - side * r) * M = was * M - side * (r * M)
      BY <1>1, <2>2
    <3> QED
      BY <3>1, <3>2, <3>3
  <2>7. /\ held * M \in Int /\ profit * M \in Int /\ paid * M \in Int
        /\ was * M \in Int /\ side * (r * M) \in Int /\ Fee * Parts \in Int
    BY <1>1, <2>2
  <2> QED
    BY <1>1, <2>4, <2>5, <2>6, <2>7
<1>12. r * M + Units * Units * M <= (Units + k) * (Units + k) * M
  <2>1. r + Units * Units <= (Units + k) * (Units + k)
    <3>1. (Units + k) * (Units + k)
            = Units * Units + k * Units + k * (Units + k)
      BY <1>1, <1>8
    <3>2. k * (Units + k) >= Units + k /\ k * Units >= 0
      BY <1>1, <1>8
    <3>3. Units * Units \in Nat /\ k * Units \in Nat /\ k * (Units + k) \in Nat
      BY <1>1, <1>8
    <3> QED
      BY <1>1, <1>4, <1>8, <1>10, <3>1, <3>2, <3>3
  <2> DEFINE x == Units * Units
             y == (Units + k) * (Units + k)
  <2>2. x \in Nat /\ y \in Nat /\ r + x <= y
    BY <1>1, <1>8, <2>1
  <2> HIDE DEF x, y
  <2>3. r * M + x * M <= y * M
    BY <2>2
  <2> QED
    BY <2>3 DEF x, y
<1>13. /\ -(Units * Units * M) <= Missing /\ Missing <= Units * Units * M
       /\ Missing \in Int /\ Units * Units * M \in Nat
       /\ (Units + k) * (Units + k) * M \in Nat /\ r * M \in Nat
  <2>1. -(Units * Units * M) <= Missing /\ Missing <= Units * Units * M
    BY DEF CashInv
  <2>2. Missing \in Int
    <3>1. position.quantity * position.average * M \in Int
      BY <1>1
    <3> QED
      BY <1>1, <3>1 DEF Missing
  <2>3. M \in Nat /\ Units * Units \in Nat /\ (Units + k) * (Units + k) \in Nat
    BY <1>1, <1>8
  <2>4. /\ Units * Units * M \in Nat /\ (Units + k) * (Units + k) * M \in Nat
        /\ r * M \in Nat
    BY <1>4, <2>3
  <2> QED
    BY <2>1, <2>2, <2>4
<1>14. /\ -((Units + k) * (Units + k) * M) <= Missing'
       /\ Missing' <= (Units + k) * (Units + k) * M
  <2> DEFINE x == Units * Units * M
             y == (Units + k) * (Units + k) * M
             z == r * M
  <2>1. z + x <= y /\ x \in Nat /\ y \in Nat /\ z \in Nat
    BY <1>12, <1>13
  <2>2. Missing' = Missing - side * z /\ -x <= Missing /\ Missing <= x
    BY <1>11, <1>13
  <2> HIDE DEF x, y, z
  <2>3. -y <= Missing' /\ Missing' <= y
    BY <1>1, <1>13, <2>1, <2>2
  <2> QED
    BY <2>3 DEF y
<1> QED
  BY <1>1, <1>2, <1>8, <1>9, <1>10, <1>14 DEF CashInv

\* Nothing is held and nothing moved at first.
LEMMA CashInit ==
  ASSUME IsFiniteSet(Ids), Init
  PROVE  CashInv
<1> DEFINE f == FilledUnits
<1>1. TypeOK /\ position.quantity = 0 /\ position.average = 0
  BY DEF Init, TypeOK, Flat, Position, Absent
<1>2. Missing = 0
  BY <1>1 DEF Init, Missing, Flat
<1>3. Units = 0
  <2>1. /\ \A x \in Ids : f[x] \in Int
        /\ \A x \in Ids : f[x] = 0 * f[x]
    BY DEF Init, FilledUnits, Absent
  <2> HIDE DEF f
  <2>2. SumFunctionOnSet(f, Ids) = 0 * SumFunctionOnSet(f, Ids)
    <3>1. 0 \in Int
      OBVIOUS
    <3> QED
      BY ONLY <2>1, <3>1, IsFiniteSet(Ids), SumProduct
  <2>3. SumFunctionOnSet(f, Ids) \in Int
    BY ONLY <2>1, IsFiniteSet(Ids), SumInt
  <2> QED
    BY <2>2, <2>3 DEF Units, f
<1> QED
  BY <1>1, <1>2, <1>3 DEF CashInv, Abs

\* What ProfitIsCash says of the sum over the orders.
LEMMA CashInvProfit == CashInv => ProfitIsCash
<1> SUFFICES ASSUME CashInv PROVE ProfitIsCash
  OBVIOUS
<1>1. DOMAIN FilledUnits = Ids
  BY DEF FilledUnits
<1>2. Rounding = Units * Units * Multiplier
  BY <1>1 DEF Rounding, Units, FilledUnits, SumFunction, SumFunctionOnSet
<1>3. -(Units * Units * Multiplier) <= Missing
      /\ Missing <= Units * Units * Multiplier
  BY DEF CashInv
<1> QED
  BY <1>2, <1>3 DEF ProfitIsCash, Missing

(* Realized profit and the cost of the open position account for the cash  *)
(* that the fills moved and for their fees, up to the rounding of averages *)
(* and for every instrument, price and order size: apply_fill counts no    *)
(* profit twice or on the wrong side, also where a fill crosses zero.  A   *)
(* rebate, which BrokerOrderUpdate refuses, is not recorded at all.        *)
THEOREM ProfitSafety ==
  ASSUME IsFiniteSet(Ids), Fee >= 0
  PROVE  Spec => []ProfitIsCash
<1>1. ASSUME Init PROVE CashInv
  BY <1>1, CashInit
<1>2. ASSUME CashInv, TypeOK', [Next]_vars PROVE CashInv'
  <2>1. ASSUME NEW o \in Ids, NEW i \in Intents, Call(o, i) PROVE CashInv'
    <3>1. orders \in [Ids -> Order] /\ UNCHANGED <<position, cash>>
      BY <1>2, <2>1 DEF CashInv, TypeOK, Order, Call
    <3>2. \A x \in Ids : orders'[x].filled = orders[x].filled
      BY <2>1, <3>1 DEF Call, Absent
    <3> QED
      BY <1>2, <3>1, <3>2, CashIdle
  <2>2. ASSUME NEW o \in Ids, NEW price \in Prices,
               NEW k \in 1..orders[o].quantity, Fill(o, k, price)
        PROVE  CashInv'
    BY <1>2, <2>2, CashFill
  <2>3. ASSUME NEW o \in Ids, Close(o) PROVE CashInv'
    <3>1. orders \in [Ids -> Order] /\ UNCHANGED <<position, cash>>
      BY <1>2, <2>3 DEF CashInv, TypeOK, Order, Close
    <3>2. \A x \in Ids : orders'[x].filled = orders[x].filled
      BY <2>3, <3>1 DEF Close, Order
    <3> QED
      BY <1>2, <3>1, <3>2, CashIdle
  <2>4. CASE UNCHANGED vars
    BY <1>2, <2>4, CashIdle DEF vars
  <2> QED
    BY <1>2, <2>1, <2>2, <2>3, <2>4 DEF Next
<1> QED
  BY <1>1, <1>2, CashInvProfit, TypeCorrect, PTL DEF Spec

-----------------------------------------------------------------------------
(* The daily loss *)

(* From the daily loss on, a book without open orders keeps its position   *)
(* whatever is asked for: the risk check rejects every order then, the     *)
(* reduce-only ones too.                                                   *)
THEOREM FreezeSafety == Spec => LossLimitFreezes
<1> DEFINE Lost == Open = {} /\ position.realized <= -Limits.dailyLoss * Parts
           Step == Lost => position' = position /\ Open' = {}
<1>1. TypeOK /\ [Next]_vars => Step
  <2> SUFFICES ASSUME TypeOK, [Next]_vars, Lost
               PROVE  position' = position /\ Open' = {}
    OBVIOUS
  <2>1. ASSUME NEW o \in Ids, NEW i \in Intents, Call(o, i)
        PROVE  position' = position /\ Open' = {}
    <3>1. PICK price \in Prices, account \in Accounts :
             /\ orders' = [orders EXCEPT ![o] =
                  [status |-> IF Approved(i, Context(price, account))
                              THEN "open" ELSE "rejected",
                   side |-> i.side, quantity |-> i.quantity, filled |-> 0,
                   reduceOnly |-> i.reduceOnly]]
             /\ position' = position
      BY <2>1 DEF Call
    <3>2. ~ Approved(i, Context(price, account))
      <4> DEFINE context == Context(price, account)
                 limit == -Limits.dailyLoss * Parts
      <4>1. context.realizedToday = position.realized
        BY DEF Context
      <4>2. position.realized \in Int /\ limit \in Int
        BY DEF TypeOK, Position
      <4> HIDE DEF limit
      <4>3. ~ position.realized > limit
        BY <4>2 DEF limit
      <4> QED
        BY <4>1, <4>3 DEF Approved, LossAllows, limit
    <3>3. /\ orders'[o].status # "open"
          /\ \A x \in Ids \ {o} : orders'[x] = orders[x]
      BY <3>1, <3>2 DEF TypeOK
    <3> QED
      BY <3>1, <3>3 DEF Open
  <2>2. ASSUME NEW o \in Ids, NEW price \in Prices,
               NEW k \in 1..orders[o].quantity, Fill(o, k, price)
        PROVE  FALSE
    BY <2>2 DEF Fill
  <2>3. ASSUME NEW o \in Ids, Close(o) PROVE FALSE
    BY <2>3 DEF Close
  <2>4. CASE UNCHANGED vars
    BY <2>4 DEF vars, Open
  <2> QED
    BY <2>1, <2>2, <2>3, <2>4 DEF Next
<1>2. Step => [Step]_vars
  OBVIOUS
<1> QED
  BY <1>1, <1>2, TypeCorrect, PTL DEF Spec, LossLimitFreezes

=============================================================================
