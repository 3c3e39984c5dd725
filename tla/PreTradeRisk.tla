---------------------------- MODULE PreTradeRisk ----------------------------
(***************************************************************************)
(* application/risk.py over domain/instruments.py: the values of an order  *)
(* are validated against the instrument, then the limits are applied to    *)
(* the context that the caller read before it called the gateway.          *)
(***************************************************************************)
EXTENDS PositionLedger, Instrument

CONSTANTS
    MinimumQuantity, MinimumNotional,   \* of the instrument
    Limits    \* RiskLimits, the margin fraction in percent

\* Instrument.__post_init__ and RiskLimits.__post_init__ do not raise.
ASSUME RiskAssumption ==
    /\ MinimumQuantity \in Nat \ {0} /\ MinimumNotional \in Nat
    /\ Limits \in [orderNotional : Nat \ {0}, positionNotional : Nat \ {0},
                   marginPercent : 1..100, dailyLoss : Nat \ {0},
                   spread : Nat]

Notional(price, quantity) == Abs(price * quantity * Multiplier)

\* Instrument.validate_order_values does not raise.
ValidValues(quantity, price) ==
    /\ quantity > 0 /\ QuantizeDown(quantity) = quantity
    /\ quantity >= MinimumQuantity
    /\ price > 0 /\ QuantizePrice(price) = price
    /\ Notional(price, quantity) >= MinimumNotional

Projected(i, context) == context.position + i.side * i.quantity

\* Mutant: the direction of a reduce-only order is not looked at.
ReducesEitherWay(i, context) == i.quantity <= Abs(context.position)

\* A reduce-only order has a position to reduce and is not larger than it.
Reduces(i, context) ==
    /\ OppositeSigns(context.position, i.side)
    /\ i.quantity <= Abs(context.position)

\* Mutant: the limits are applied to the order alone.
OrderWithinLimits(i, context) ==
    Notional(context.price, i.quantity) <= Limits.orderNotional

WithinLimits(i, context) ==
    /\ Notional(context.price, i.quantity) <= Limits.orderNotional
    /\ Notional(context.price, Projected(i, context))
          <= Limits.positionNotional

MarginHolds(context) ==
    /\ 0 <= context.marginRequired
    /\ context.marginRequired <= context.buyingPower
    /\ context.equity > 0
    /\ context.marginRequired * 100 <= Limits.marginPercent * context.equity

\* Mutant: a reduce-only order may be sent whatever was lost today.
LossAllowsReducing(i, context) ==
    i.reduceOnly \/ context.realizedToday > -Limits.dailyLoss * Parts

\* The daily loss limit applies to reduce-only orders too.
LossAllows(i, context) == context.realizedToday > -Limits.dailyLoss * Parts

\* evaluate_order_risk approves the intent, which it was valid to evaluate.
Approved(i, context) ==
    /\ IF i.reduceOnly THEN Reduces(i, context)
       ELSE WithinLimits(i, context) /\ MarginHolds(context)
    /\ LossAllows(i, context)
    /\ context.spread <= Limits.spread

=============================================================================
