------------------------------ MODULE Exposure ------------------------------
(***************************************************************************)
(* The position of one book between the risk check of the gateway and the  *)
(* fills that the venue confirms.  Every order was checked against the     *)
(* position its caller read; the position moves later, fill by fill, when  *)
(* other orders may be open beside it.                                     *)
(*                                                                         *)
(* The caller that reads the position, the market and the margin is not    *)
(* part of the repository.  The one modelled here reads them immediately   *)
(* before the call; Waits says whether it waits for its open orders too.   *)
(***************************************************************************)
EXTENDS PreTradeRisk, Functions

CONSTANTS
    Ids,          \* client order ids
    Quantities,   \* quantities that are asked for
    Prices,       \* prices of the market, in ticks
    Accounts,     \* what the broker says of margin, equity and spread
    Fee,          \* the fee of every fill, negative for a rebate
    Waits         \* the caller lets its orders finish (see MayCall)

ASSUME ExposureAssumption ==
    /\ Quantities \subseteq Nat /\ Prices \subseteq Nat \ {0}
    /\ Prices # {}
    /\ Accounts \subseteq
         [marginRequired : Int, buyingPower : Int, equity : Int, spread : Nat]
    /\ Fee \in Int /\ Waits \in BOOLEAN

VARIABLES
    honours,    \* the venue enforces reduce-only itself, as CCXT venues do
    position,   \* the row of table positions
    orders,     \* client order id -> what became of the order
    cash        \* what the fills paid and earned, fees included, in parts

vars == <<honours, position, orders, cash>>

Absent ==
    [status |-> "absent", side |-> Buy, quantity |-> 0, filled |-> 0,
     reduceOnly |-> FALSE]

Init ==
    /\ honours \in BOOLEAN
    /\ position = Flat
    /\ orders = [o \in Ids |-> Absent]
    /\ cash = 0

Open == {o \in Ids : orders[o].status = "open"}

\* Mutant: a fill is compared with the quantity of the order alone.
RemainingAsOrdered(o) == orders[o].quantity

\* OrderLifecycle.remaining_quantity; apply_broker_update refuses a larger fill.
Remaining(o) == orders[o].quantity - orders[o].filled

Intents ==
    [side : {Buy, Sell}, quantity : Quantities, reduceOnly : BOOLEAN]

\* A caller that waits has no other order open, unless all of them only
\* reduce and the venue sees to that.
MayCall(i) ==
    \/ Open = {}
    \/ ~ Waits
    \/ honours /\ i.reduceOnly /\ \A o \in Open : orders[o].reduceOnly

Context(price, account) ==
    [price |-> price, position |-> position.quantity,
     realizedToday |-> position.realized,
     marginRequired |-> account.marginRequired,
     buyingPower |-> account.buyingPower, equity |-> account.equity,
     spread |-> account.spread]

\* OrderGateway.submit: risk rejects the order, or it is sent.  Values that
\* are not valid raise and leave nothing behind.
Call(o, i) ==
    \E price \in Prices, account \in Accounts :
       /\ orders[o] = Absent
       /\ MayCall(i)
       /\ ValidValues(i.quantity, price)
       /\ orders' = [orders EXCEPT ![o] =
            [status |-> IF Approved(i, Context(price, account)) THEN "open"
                        ELSE "rejected",
             side |-> i.side, quantity |-> i.quantity, filled |-> 0,
             reduceOnly |-> i.reduceOnly]]
       /\ UNCHANGED <<honours, position, cash>>

ClosesOnly(o, k) ==
    OppositeSigns(position.quantity, orders[o].side)
    /\ k <= Abs(position.quantity)

\* A fill the venue confirms.  Where it honours reduce-only, such an order
\* executes against the position alone.  The fill moves the cash, and the
\* tables unless FillProcessor.process raises: BrokerOrderUpdate refuses a
\* negative fee, Position a row that is not admissible.
Fill(o, k, price) ==
    /\ o \in Open
    /\ k <= Remaining(o)
    /\ honours /\ orders[o].reduceOnly => ClosesOnly(o, k)
    /\ cash' = cash - (orders[o].side * k * price * Multiplier + Fee) * Parts
    /\ LET after == ApplyFill(position, orders[o].side, k, price, Fee) IN
       IF Fee >= 0 /\ Admissible(after)
       THEN /\ position' = after
            /\ orders' = [orders EXCEPT ![o].filled = @ + k,
                 ![o].status = IF k = Remaining(o) THEN "done" ELSE @]
       ELSE UNCHANGED <<position, orders>>
    /\ UNCHANGED honours

\* The rest of an order is cancelled or expires.
Close(o) ==
    /\ o \in Open
    /\ orders' = [orders EXCEPT ![o].status = "done"]
    /\ UNCHANGED <<honours, position, cash>>

Next ==
    \/ \E o \in Ids, i \in Intents : Call(o, i)
    \/ \E o \in Ids, price \in Prices :
          \E k \in 1..orders[o].quantity : Fill(o, k, price)
    \/ \E o \in Ids : Close(o)

Spec == Init /\ [][Next]_vars

-----------------------------------------------------------------------------
(* Properties *)

TypeOK ==
    /\ honours \in BOOLEAN
    /\ position \in Position
    /\ orders \in [Ids -> [status : {"absent", "rejected", "open", "done"},
                           side : {Buy, Sell}, quantity : Nat, filled : Nat,
                           reduceOnly : BOOLEAN]]
    /\ \A o \in Ids : orders[o].filled <= orders[o].quantity
    /\ cash \in Int

\* What rounding can hide: an averaging fill loses less than one part for
\* each unit of the position, and every unit filled is at most one such fill.
Rounding ==
    LET units == SumFunction([o \in Ids |-> orders[o].filled])
    IN  units * units * Multiplier

(* Whatever additions, partial exits and reversals happened, the realized  *)
(* profit and the cost of what is still open account for every tick of     *)
(* cash that the fills moved, and for the fees: no profit is counted twice *)
(* or on the wrong side when a fill crosses zero, and no confirmed fill is *)
(* refused by the checks of Position itself (apply_fill, __post_init__).   *)
ProfitIsCash ==
    LET missing ==
          cash + position.quantity * position.average * Multiplier
            - position.realized
    IN  -Rounding <= missing /\ missing <= Rounding

(* The position never outgrows the position limit, valued at the lowest    *)
(* price there is: not by a partial fill, not by a reversal, and not by    *)
(* way of reduce-only orders, which pass no limit.                         *)
PositionWithinLimit ==
    \E price \in Prices :
       Notional(price, position.quantity) <= Limits.positionNotional

(* A fill of an order that was approved as reduce-only brings the position *)
(* closer to zero and never across it, also when several such orders are   *)
(* open at a venue that honours the flag.                                  *)
ReduceOnlyReduces ==
    [][\A o \in Ids :
          orders[o].reduceOnly /\ orders'[o].filled > orders[o].filled =>
             /\ Abs(position'.quantity) < Abs(position.quantity)
             /\ ~ OppositeSigns(position.quantity, position'.quantity)]_vars

(* Once the loss of the day has reached its limit and the open orders are  *)
(* gone, the position stays as it is: nothing adds to it, and not even a   *)
(* reduce-only order can close it.                                         *)
LossLimitFreezes ==
    [][Open = {} /\ position.realized <= -Limits.dailyLoss * Parts =>
          position' = position /\ Open' = {}]_vars

=============================================================================
