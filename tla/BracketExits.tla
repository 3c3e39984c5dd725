---------------------------- MODULE BracketExits ----------------------------
(***************************************************************************)
(* The protective stop and the take-profit targets of one bracket: what    *)
(* compile_exit_intents of domain/brackets.py makes of the confirmed fills *)
(* of the entry, again after every further fill, and what becomes of the   *)
(* exits once the host passes them to the gateway.  The entry is a buy; a  *)
(* sell is its mirror image.                                               *)
(***************************************************************************)
EXTENDS Instrument, PositionLedger, Sequences, FiniteSetsExt

CONSTANTS
    EntryQuantity,   \* quantity of the entry order
    EntryPrices,     \* what the entry is filled at
    StopPrice,       \* trigger_price of the protective stop
    TargetPrices,    \* trigger_price of each target
    Fractions,       \* close_fraction of each target, in parts of Whole
    Whole,
    Lots,            \* bound: quantities of one execution of the entry
    Fees,            \* allocated fees, and what an exit may cost
    ExitPrices,      \* prices at which what is left may be closed
    Resizes          \* the host compiles while the entry may still fill

Targets == DOMAIN Fractions

\* ProtectiveStop, TakeProfitTarget do not raise.
ValidExits ==
    /\ StopPrice > 0
    /\ \A i \in Targets : TargetPrices[i] > 0 /\ Fractions[i] \in 1..Whole

\* BracketPlan does not raise.
ValidPlan == SumFunction(Fractions) <= Whole

ASSUME BracketAssumption ==
    /\ EntryQuantity \in Nat \ {0} /\ EntryPrices \subseteq Nat \ {0}
    /\ StopPrice \in Nat /\ Whole \in Nat \ {0}
    /\ Fractions \in Seq(Nat) /\ TargetPrices \in [DOMAIN Fractions -> Nat]
    /\ ValidExits /\ ValidPlan
    /\ Lots \subseteq Nat \ {0}
    /\ Fees \subseteq Nat /\ ExitPrices \subseteq Nat \ {0}
    /\ Resizes \in BOOLEAN

VARIABLES
    native,     \* native_oco: the venue links orders of a group, as IBKR does;
                \* otherwise it honours reduce-only, as CCXT venues do
    entry,      \* confirmed filled quantity of the entry
    cost,       \* what it was filled at: entry times its average price
    open,       \* the entry may still fill
    position,   \* signed position that the fills add up to
    pending,    \* compiled exits that were not passed to the gateway yet
    exits       \* client order id -> the order under that id

vars == <<native, entry, cost, open, position, pending, exits>>

\* Client order ids: target 0 stands for the runner's and the full-size stop.
Ids == {"stop", "target"} \X (Targets \cup {0})

NoGroup == 0
Absent == [status |-> "absent", quantity |-> 0, filled |-> 0, group |-> NoGroup]

Init ==
    /\ native \in BOOLEAN
    /\ entry = 0 /\ cost = 0 /\ open = TRUE /\ position = 0
    /\ pending = {}
    /\ exits = [id \in Ids |-> Absent]

-----------------------------------------------------------------------------
(* compile_exit_intents *)

SliceOf(q, i) ==
    QuantizeDown((QuantizeDown(q) * Fractions[i]) \div Whole)

Allocated(q) == SumFunction([i \in Targets |-> SliceOf(q, i)])

\* Mutant: what the slices take is not subtracted.
RunnerOfAll(q) == QuantizeDown(q)

Runner(q) == QuantizeDown(QuantizeDown(q) - Allocated(q))

\* Mutant: the stop is compared with the best price of the entry.
ValidAgainstBest ==
    /\ StopPrice < Max(EntryPrices)
    /\ \A i \in Targets : TargetPrices[i] * entry > cost

\* validate_against_entry does not raise for the average price of the entry.
ValidAgainstEntry ==
    /\ StopPrice * entry < cost
    /\ \A i \in Targets : TargetPrices[i] * entry > cost
    /\ \A i, j \in Targets : i < j => TargetPrices[i] < TargetPrices[j]

\* compile_exit_intents raises otherwise, and no exit is made at all.
Compiles(q) ==
    /\ QuantizeDown(q) > 0
    /\ \A i \in Targets : SliceOf(q, i) > 0
    /\ QuantizePrice(StopPrice) > 0

\* The trigger_price that the plan gives an exit, and what an order gets of it.
Planned(kind, i) == IF kind = "stop" THEN StopPrice ELSE TargetPrices[i]
Trigger(kind, i) == QuantizePrice(Planned(kind, i))

ExitIntent(kind, i, q, g) ==
    [id |-> <<kind, i>>, quantity |-> q, group |-> g, price |-> Trigger(kind, i)]

\* Mutant: oca_group_id is not set.
NoSliceGroup(i) == NoGroup

\* oca_group_id: the stop and the target of one slice exclude each other.
SliceGroup(i) == i

OcoExits(q) ==
    {ExitIntent(kind, i, SliceOf(q, i), SliceGroup(i)) :
        kind \in {"stop", "target"}, i \in Targets}
    \cup {e \in {ExitIntent("stop", 0, Runner(q), NoGroup)} : e.quantity > 0}

ReduceOnlyExits(q) ==
    {ExitIntent("stop", 0, QuantizeDown(q), NoGroup)}
    \cup {ExitIntent("target", i, SliceOf(q, i), NoGroup) : i \in Targets}

Exits(q) ==
    IF native /\ Targets # {} THEN OcoExits(q) ELSE ReduceOnlyExits(q)

-----------------------------------------------------------------------------
(* net_cost_protective_price *)

\* Mutant: the fees are added on the long side and on the short side.
NetCostAbove(side, average, remaining, entryFees, exitFees) ==
    average + ((entryFees + exitFees) * Parts) \div (remaining * Multiplier)

\* The price, in parts, at which a position of one side earns its fees back.
NetCost(side, average, remaining, entryFees, exitFees) ==
    average
      + side * (((entryFees + exitFees) * Parts) \div (remaining * Multiplier))

-----------------------------------------------------------------------------
(* Actions *)

EntryFill(q, price) ==
    /\ open
    /\ entry + q <= EntryQuantity
    /\ entry' = entry + q
    /\ cost' = cost + q * price
    /\ position' = position + q
    /\ open' = (entry + q < EntryQuantity)
    /\ UNCHANGED <<native, pending, exits>>

\* The rest of the entry is cancelled.
EntryEnds ==
    /\ open
    /\ open' = FALSE
    /\ UNCHANGED <<native, entry, cost, position, pending, exits>>

\* compile_for_entry from the confirmed fills, as often as the host likes.
Compile ==
    /\ ~ open \/ Resizes
    /\ pending = {}
    /\ ValidAgainstEntry /\ Compiles(entry)
    /\ pending' = Exits(entry)
    /\ UNCHANGED <<native, entry, cost, open, position, exits>>

\* An order of a group that has executed is not accepted by the venue.
Executed(g) ==
    g # NoGroup /\ \E id \in Ids : exits[id].group = g /\ exits[id].filled > 0

Placed(e, status) ==
    exits' = [exits EXCEPT ![e.id] =
       [status |-> status, quantity |-> e.quantity, filled |-> 0,
        group |-> e.group]]

\* OrderGateway.submit, in any order: the venue takes the exit; or it, or risk,
\* rejects it and the id stays taken; or the call raises, as it does for an id
\* that is taken.  A host that dies forgets what is pending.
Send(e) ==
    /\ pending' = pending \ {e}
    /\ \/ /\ exits[e.id] = Absent
          /\ \/ ~ Executed(e.group) /\ Placed(e, "working")
             \/ Placed(e, "over")
       \/ UNCHANGED exits
    /\ UNCHANGED <<native, entry, cost, open, position>>

Forget ==
    /\ pending # {}
    /\ pending' = {}
    /\ UNCHANGED <<native, entry, cost, open, position, exits>>

Working(id) == exits[id].status = "working"
Remaining(id) == exits[id].quantity - exits[id].filled
Linked(id) ==
    {o \in Ids \ {id} : exits[id].group # NoGroup
                        /\ exits[o].group = exits[id].group /\ Working(o)}

Filled(id, k) ==
    LET x == exits[id] IN
    [x EXCEPT !.filled = @ + k,
              !.status = IF x.filled + k = x.quantity THEN "over" ELSE @]

\* What a fill of k leaves of a linked order: all linked orders are cancelled,
\* or reduced by what was filled.
Shrunk(id, k) ==
    LET x == exits[id] IN
    IF x.quantity > x.filled + k THEN [x EXCEPT !.quantity = @ - k]
    ELSE [x EXCEPT !.status = "over"]

\* A stop or a target executes.  Without groups, reduce-only keeps the fill
\* within the position.
ExitFill(id, k) ==
    /\ Working(id)
    /\ k <= Remaining(id)
    /\ native \/ k <= position
    /\ position' = position - k
    /\ \E cancel \in BOOLEAN :
          exits' = [o \in Ids |->
             IF o = id THEN Filled(id, k)
             ELSE IF o \notin Linked(id) THEN exits[o]
             ELSE IF cancel THEN [exits[o] EXCEPT !.status = "over"]
             ELSE Shrunk(o, k)]
    /\ UNCHANGED <<native, entry, cost, open, pending>>

Next ==
    \/ \E q \in Lots, price \in EntryPrices : EntryFill(q, price)
    \/ EntryEnds
    \/ Compile
    \/ \E e \in pending : Send(e)
    \/ Forget
    \/ \E id \in Ids : \E k \in 1..Remaining(id) : ExitFill(id, k)

Spec == Init /\ [][Next]_vars

-----------------------------------------------------------------------------
(* Properties *)

\* The quantity of the exits of one kind, among intents and among orders.
Asked(S, kind) ==
    SumFunction([e \in {e \in S : e.id[1] = kind} |-> e.quantity])
Ordered(kind) ==
    SumFunction([id \in {id \in Ids : id[1] = kind} |-> exits[id].quantity])

(* Whatever part of the entry is confirmed, the stops that are compiled    *)
(* from it protect exactly that quantity, rounded to the increment, and    *)
(* the targets do not close more than it: rounding slice by slice loses    *)
(* nothing to the runner.                                                  *)
CompiledStopsCover ==
    \A q \in 1..entry : Compiles(q) =>
       /\ Asked(Exits(q), "stop") = QuantizeDown(q)
       /\ Asked(Exits(q), "target") <= QuantizeDown(q)

(* However often exits are compiled again, after a crash or a refusal, and *)
(* whichever of them the gateway took before, their orders never add up to *)
(* more than the entry has confirmed: no stop and no target is sent twice. *)
ExitsWithinEntry ==
    Ordered("stop") <= entry /\ Ordered("target") <= entry

(* The exits never turn the position around, in whatever order stops and   *)
(* targets are sent, sent again and executed, on a venue that links the    *)
(* orders of a group as well as on one that honours reduce-only.           *)
NoReversal == position >= 0

(* Exits are compiled when the last fill has moved the average price of    *)
(* the entry, and then rounded: a stop is still below that average and a   *)
(* target above it if their triggers were aligned, and no trigger passes   *)
(* it by half an increment or more.                                        *)
TriggersOnTheirSide ==
    \A e \in pending :
       LET loss == IF e.id[1] = "stop" THEN cost - e.price * entry
                   ELSE e.price * entry - cost
       IN  /\ -2 * loss < PriceIncrement * entry
           /\ e.price = Planned(e.id[1], e.id[2]) => loss > 0

\* The position that is left, held from the average price of the entry, and
\* what closing it at a price realizes for good.
Closed(side, entryFees, exitFees, price) ==
    LET held == [quantity |-> side * position,
                 average  |-> (cost * Parts) \div entry,
                 realized |-> -entryFees * Parts, fees |-> entryFees]
    IN  ApplyFill(held, -side, position, price, exitFees).realized

(* The net-cost price is where the position ledger breaks even: closing    *)
(* what is left of the entry at a price loses nothing exactly when the     *)
(* price is the net-cost price or better, for longs and for shorts, after  *)
(* any partial exits.                                                      *)
NetCostBreaksEven ==
    position > 0 =>
       \A side \in {Buy, Sell}, price \in ExitPrices, entryFees, exitFees \in Fees :
          LET net == NetCost(side, (cost * Parts) \div entry, position,
                             entryFees, exitFees)
          IN  Closed(side, entryFees, exitFees, price) >= 0
                 <=> side * (price * Parts) >= side * net

=============================================================================
