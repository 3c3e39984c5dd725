---------------------------- MODULE TradePoller -----------------------------
(***************************************************************************)
(* poll_order_updates of brokers/ccxt_derivatives.py (brokers/ibkr.py has  *)
(* the same structure): first the trades the adapter has not seen, then    *)
(* the orders whose state changed, remembered in memory as they are read.  *)
(* The host passes the returned updates to FillProcessor.process in turn   *)
(* and goes on after one that raises.                                      *)
(***************************************************************************)
EXTENDS Store, Venue, SequencesExt

CONSTANTS
    FetchMayFail,   \* a request of a poll may fail unnoticed
    ListsClosed,    \* the exchange has fetchClosedOrders
    MinutesPass,    \* more than a minute may pass between a trade and the
                    \* first poll that reads one
    Instant,        \* trade id -> the millisecond the venue stamps on it
    Rebates         \* ids of trades whose fee is negative

ASSUME FetchAssumption ==
    /\ FetchMayFail \in BOOLEAN
    /\ ListsClosed \in BOOLEAN /\ MinutesPass \in BOOLEAN
    /\ DOMAIN Instant \subseteq Nat
    /\ \A x \in DOMAIN Instant : Instant[x] \in Nat

VARIABLES
    knownTrades,   \* _known_trade_ids
    knownStates,   \* _known_order_states: client id -> (status, filled)
    since,         \* where the last fetched window began, or _last_trade_ms
    polling,       \* TRUE between the two reads of one poll
    inbox          \* polled updates the host has not processed yet

pollerVars == <<knownTrades, knownStates, since, polling, inbox>>

PollerInit ==
    /\ knownTrades = {}
    /\ knownStates = [c \in ClientIds |-> None]
    /\ since = 0
    /\ polling = FALSE
    /\ inbox = << >>

TradeEvent(x) == <<"trade", x>>
StateEvent(o, status) == <<"order", o.brokerId, status, o.filled>>

TradeUpdate(t) ==
    [event |-> TradeEvent(t.id), execution |-> t.id, order |-> t.order,
     book |-> venue[t.order].intent.book, type |-> "PARTIAL_FILL",
     brokerId |-> venue[t.order].brokerId, quantity |-> t.quantity,
     cumulative |-> None]

StateUpdate(c, status) ==
    [event |-> StateEvent(venue[c], status), execution |-> None, order |-> c,
     book |-> venue[c].intent.book, type |-> UpdateType(status),
     brokerId |-> venue[c].brokerId, quantity |-> 0, cumulative |-> None]

\* What a request for S returns: each request of a poll swallows every
\* exception and goes on with an empty list.
Fetched(S) == IF FetchMayFail THEN {S, {}} ELSE {S}

\* Before a first trade was read, every fetch asks for the last minute: the
\* window moves with the clock, and trades fall out of it unread.
WindowStarts ==
    {since} \cup
    IF MinutesPass /\ knownTrades = {}
    THEN {n \in {Instant[t.id] + 1 : t \in trades} : n > since}
    ELSE {}

\* The window of the next fetch begins a millisecond after the last trade of
\* this one: another trade of that millisecond, or one that is listed late
\* under an earlier one, is outside for ever.
After(start, new) == Max({start} \cup {Instant[t.id] + 1 : t \in new})

\* fetch_my_trades: unseen trades inside the window, oldest first.  Every
\* trade is remembered before its update is made; BrokerOrderUpdate refuses a
\* negative fee, and the poll raises with the updates made so far.
PollTrades ==
    \E start \in WindowStarts :
    \E fetched \in Fetched({t \in trades : Instant[t.id] >= start}) :
       LET new == {t \in fetched : t.id \notin knownTrades}
           refused == {t.id : t \in new} \cap Rebates
           read == {t \in new : refused # {} => t.id <= Min(refused)}
       IN /\ ~ polling
          /\ inbox = << >>
          /\ knownTrades' = knownTrades \cup {t.id : t \in read}
          /\ since' = After(start, read)
          /\ IF refused = {}
             THEN /\ \E batch \in SetToSeqs(new) :
                        /\ \A m, n \in DOMAIN batch :
                              m < n => batch[m].id < batch[n].id
                        /\ inbox' =
                             [n \in DOMAIN batch |-> TradeUpdate(batch[n])]
                  /\ polling' = TRUE
             ELSE UNCHANGED <<inbox, polling>>
          /\ UNCHANGED <<knownStates, storeVars, venueVars>>

\* fetch_open_orders and fetch_closed_orders, which lists the closed orders of
\* the window only: some of them, or none.
FetchedOrders ==
    LET open == {c \in Listed : Working(c)} IN
    {open \cup closed : closed \in
        IF ListsClosed THEN SUBSET (Listed \ open) ELSE {{}}}
    \cup IF FetchMayFail THEN {{}} ELSE {}

State(c, status) == <<status, venue[c].filled>>

\* Changed states are remembered.  A partly or wholly filled order is reported
\* by its trades alone, but CCXT calls a partly filled order "open" and IBKR
\* "Submitted"; a status that is not Reportable is skipped.  The venue lists
\* the orders in any order.
PollOrders ==
    \E seen \in Looks, fetched \in FetchedOrders :
       LET changed == {c \in fetched : knownStates[c] # State(c, seen[c])}
       IN /\ polling
          /\ knownStates' = [c \in ClientIds |->
               IF c \in changed THEN State(c, seen[c]) ELSE knownStates[c]]
          /\ \E batch \in
                   SetToSeqs({c \in changed : seen[c] \in Reportable}) :
                inbox' = inbox \o [n \in DOMAIN batch |->
                                     StateUpdate(batch[n], seen[batch[n]])]
          /\ polling' = FALSE
          /\ UNCHANGED <<knownTrades, since, storeVars, venueVars>>

ProcessNext ==
    /\ ~ polling
    /\ inbox # << >>
    /\ ProcessUpdate(Head(inbox))
    /\ inbox' = Tail(inbox)
    /\ UNCHANGED <<knownTrades, knownStates, since, polling, venueVars>>

\* A new process knows nothing; the window of its first fetch is the last
\* minute, which may be too short for the trades before n.
PollerRestart(n) ==
    /\ knownTrades' = {}
    /\ knownStates' = [c \in ClientIds |-> None]
    /\ since' = n
    /\ polling' = FALSE
    /\ inbox' = << >>

=============================================================================
