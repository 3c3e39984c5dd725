--------------------------- MODULE PositionLedger ---------------------------
(***************************************************************************)
(* domain/positions.py: one position row and what a fill makes of it.      *)
(* Quantities are whole increments and prices whole ticks.  An average     *)
(* price and the profits that follow from it are counted in parts of a     *)
(* tick, Parts to one: the code divides decimals to a fixed number of      *)
(* digits, so an average is rounded and the last digit may be lost.        *)
(***************************************************************************)
EXTENDS Integers

CONSTANTS
    Multiplier,   \* contract_multiplier of the instrument
    Parts         \* the resolution of an average price

ASSUME LedgerAssumption == Multiplier \in Nat \ {0} /\ Parts \in Nat \ {0}

Buy  == 1
Sell == -1

Position == [quantity : Int, average : Nat, realized : Int, fees : Nat]

\* The position that FillProcessor.process creates when there is no row.
Flat == [quantity |-> 0, average |-> 0, realized |-> 0, fees |-> 0]

Abs(n) == IF n < 0 THEN -n ELSE n
Lesser(a, b) == IF a < b THEN a ELSE b
SameSign(a, b) == (a > 0 /\ b > 0) \/ (a < 0 /\ b < 0)
OppositeSigns(a, b) == SameSign(a, -b)

\* Position.__post_init__ does not raise.
Admissible(p) ==
    /\ p.quantity = 0 <=> p.average = 0
    /\ p.average >= 0
    /\ p.fees >= 0

\* Mutant: a fill across zero keeps the average of the side it closed.
AverageKept(p, signed, price) ==
    LET after == p.quantity + signed IN
    IF after = 0 THEN 0
    ELSE IF p.quantity = 0 THEN price * Parts
    ELSE IF SameSign(p.quantity, signed)
    THEN (Abs(p.quantity) * p.average + Abs(signed) * price * Parts)
           \div (Abs(p.quantity) + Abs(signed))
    ELSE p.average

\* The average entry price after a signed fill: an opening or crossing fill
\* starts it anew, an addition weighs it, a reduction leaves it alone.
AverageAfter(p, signed, price) ==
    LET after == p.quantity + signed IN
    IF after = 0 THEN 0
    ELSE IF p.quantity = 0 \/ OppositeSigns(p.quantity, after)
    THEN price * Parts
    ELSE IF SameSign(p.quantity, signed)
    THEN (Abs(p.quantity) * p.average + Abs(signed) * price * Parts)
           \div (Abs(p.quantity) + Abs(signed))
    ELSE p.average

\* Mutant: the whole fill is realized, also the part that opens the new side.
RealizedOfWhole(p, signed, price) ==
    IF OppositeSigns(p.quantity, signed)
    THEN (price * Parts - p.average) * (-signed) * Multiplier
    ELSE 0

\* The profit of the part of the position that a fill closes.
RealizedBy(p, signed, price) ==
    IF OppositeSigns(p.quantity, signed)
    THEN (price * Parts - p.average)
           * (IF p.quantity > 0 THEN 1 ELSE -1)
           * Lesser(Abs(p.quantity), Abs(signed)) * Multiplier
    ELSE 0

\* Position.apply_fill
ApplyFill(p, side, quantity, price, fee) ==
    LET signed == side * quantity IN
    [quantity |-> p.quantity + signed,
     average  |-> AverageAfter(p, signed, price),
     realized |-> p.realized + RealizedBy(p, signed, price) - fee * Parts,
     fees     |-> p.fees + fee]

=============================================================================
