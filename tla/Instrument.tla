----------------------------- MODULE Instrument -----------------------------
(***************************************************************************)
(* domain/instruments.py: how prices and quantities are brought onto the   *)
(* increments of an instrument.  Both are counted in a unit of which the   *)
(* increments are multiples.                                               *)
(***************************************************************************)
EXTENDS Integers

CONSTANTS PriceIncrement, QuantityIncrement

\* Instrument.__post_init__ does not raise.
ASSUME InstrumentAssumption ==
    PriceIncrement \in Nat \ {0} /\ QuantityIncrement \in Nat \ {0}

\* Instrument.quantize_price: to the nearest increment, halves up.
QuantizePrice(v) ==
    ((2 * v + PriceIncrement) \div (2 * PriceIncrement)) * PriceIncrement

\* Mutant: ROUND_UP.
QuantizeUp(q) ==
    ((q + QuantityIncrement - 1) \div QuantityIncrement) * QuantityIncrement

\* Instrument.quantize_quantity_down
QuantizeDown(q) == (q \div QuantityIncrement) * QuantityIncrement

=============================================================================
