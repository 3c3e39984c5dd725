---------------------------- MODULE TradingCore -----------------------------
(***************************************************************************)
(* The trading core: gateway calls, the polling adapter with the fill      *)
(* processor, reconciliation and the operator, over one database and one   *)
(* venue, with crashes of the process.                                     *)
(*                                                                         *)
(* Serial = TRUE is a host that runs one call at a time, as a program with *)
(* a single thread does; Serial = FALSE lets the calls overlap.            *)
(***************************************************************************)
EXTENDS OrderGateway, TradePoller, Reconciliation

CONSTANTS
    Serial,        \* the host runs one call at a time
    Cancellable,   \* client ids whose cancellation the host may request
    Closings,      \* how the venue may close an order by itself
    MaxCrashes,    \* bound on crashes of the process
    MaxSwitches,   \* bound on uses of the kill switch
    MaxReviews     \* bound on reconciliations, Unbounded for none

VARIABLES crashes, switches, reviews

countVars == <<crashes, switches, reviews>>

Unbounded == -1

vars == <<storeVars, readinessVars, venueVars, calls, pollerVars, review,
          countVars>>

ASSUME CoreAssumption ==
    /\ Serial \in BOOLEAN
    /\ Cancellable \subseteq ClientIds
    /\ Closings \subseteq {"CANCELED", "REJECTED", "EXPIRED"}
    /\ MaxCrashes \in Nat /\ MaxSwitches \in Nat
    /\ MaxReviews \in Nat \cup {Unbounded}

Init ==
    /\ StoreInit /\ ReadinessInit /\ VenueInit
    /\ GatewayInit /\ PollerInit /\ ReviewInit
    /\ crashes = 0 /\ switches = 0 /\ reviews = 0

\* The trade ids the venue uses: Instant bounds the number of trades.
Executions == DOMAIN Instant

\* A call of the host may start now.
MayStart ==
    Serial => /\ \A p \in Callers : ~ InCall(p)
              /\ ~ polling
              /\ review.pc = "idle"

-----------------------------------------------------------------------------
(* Actions *)

Evaluate(p) ==
    /\ \E i \in Intents : EvaluateReadiness(p, i)
    /\ UNCHANGED <<pollerVars, review, countVars>>

StartSubmit(p) ==
    /\ MayStart
    /\ BeginFails(p) \/ \E approved \in BOOLEAN : Begin(p, approved)
    /\ UNCHANGED <<pollerVars, review, countVars>>

Submit(p) == Continue(p) /\ UNCHANGED <<pollerVars, review, countVars>>

\* Trades, then orders: CCXT in two requests, IBKR as fills() and trades().
Poll ==
    /\ (MayStart /\ PollTrades) \/ PollOrders
    /\ UNCHANGED <<readinessVars, calls, review, countVars>>

Process ==
    /\ MayStart
    /\ ProcessNext
    /\ UNCHANGED <<readinessVars, calls, review, countVars>>

StartReview ==
    /\ MayStart
    /\ FetchPositions
    /\ \/ MaxReviews = Unbounded /\ UNCHANGED reviews
       \/ reviews < MaxReviews /\ reviews' = reviews + 1
    /\ UNCHANGED <<calls, pollerVars, crashes, switches>>

Review ==
    /\ ContinueReview
    /\ UNCHANGED <<calls, pollerVars, countVars>>

\* The host requests a cancellation: get_order, request_cancel, save_order in
\* one transaction.  What the venue makes of it is VenueClose or VenueFill.
AskCancel(c) ==
    /\ MayStart
    /\ Exists(c)
    /\ CanRequestCancel(orders[c])
    /\ SaveOrder(RequestCancel(orders[c]))
    /\ UNCHANGED <<positions, claimedEvents, claimedExecutions, journal,
                   readinessVars, venueVars, calls, pollerVars, review,
                   countVars>>

VenueStep ==
    /\ \E c \in {d \in ClientIds : Working(d)} :
          \/ /\ Cardinality(trades) + 1 \in Executions
             /\ \E q \in 1..venue[c].intent.quantity : VenueFill(c, q)
          \/ \E status \in Closings : VenueClose(c, status)
    /\ UNCHANGED <<storeVars, readinessVars, calls, pollerVars, review,
                   countVars>>

Operate ==
    /\ switches < MaxSwitches
    /\ SetKillSwitch(~ killSwitch)
    /\ switches' = switches + 1
    /\ UNCHANGED <<storeVars, venueVars, calls, pollerVars, review, crashes,
                   reviews>>

\* The process dies between two steps and starts again: the database stays.
Crash ==
    /\ crashes < MaxCrashes
    /\ crashes' = crashes + 1
    /\ calls' = [p \in Callers |-> Idle]
    /\ review' = ReviewIdle
    /\ \E n \in {0} \cup {Instant[t.id] + 1 : t \in trades} : PollerRestart(n)
    /\ UNCHANGED <<storeVars, readinessVars, venueVars, switches, reviews>>

Next ==
    \/ \E p \in Callers : Evaluate(p) \/ StartSubmit(p) \/ Submit(p)
    \/ Poll
    \/ Process
    \/ StartReview \/ Review
    \/ \E c \in Cancellable : AskCancel(c)
    \/ VenueStep
    \/ Operate
    \/ Crash

Spec == Init /\ [][Next]_vars

\* A call that has begun goes on, and the host polls, processes and reconciles
\* again and again: update_poll_interval_seconds and
\* reconciliation_interval_seconds of config.py.  A task waits for the others
\* in a serial host, so the start of one needs strong fairness.  Nothing is
\* assumed of the callers, the operator or the venue.
FairSpec ==
    /\ Spec
    /\ \A p \in Callers : WF_vars(Submit(p))
    /\ WF_vars(Review)
    /\ SF_vars(StartReview) /\ SF_vars(Poll) /\ SF_vars(Process)

-----------------------------------------------------------------------------
(* The abstract ledger that the core implements *)

\* Everything the adapter can report about an order with intent i.
ReportsOf(i) ==
    {[event |-> TradeEvent(x), execution |-> x, order |-> i.clientId,
      book |-> i.book, type |-> "PARTIAL_FILL", brokerId |-> b,
      quantity |-> q, cumulative |-> None] :
         x \in Executions, b \in BrokerIds, q \in 1..i.quantity}
    \cup
    {[event |-> <<"order", b, s, n>>, execution |-> None,
      order |-> i.clientId, book |-> i.book, type |-> UpdateType(s),
      brokerId |-> b, quantity |-> 0, cumulative |-> None] :
         b \in BrokerIds, n \in 0..i.quantity, s \in Reportable}

Reports == UNION {ReportsOf(i) : i \in Intents}

Ledger == INSTANCE OrderLedger WITH
    Updates <- Reports,
    EventKeys <- {u.event : u \in Reports},
    ExecutionKeys <- Executions

(* A host that runs one call at a time implements the order ledger: every  *)
(* step of a gateway call, a poll, a reconciliation, a crash or the venue  *)
(* is one transaction of OrderLedger or leaves the tables alone.           *)
ImplementsLedger == Ledger!Spec

-----------------------------------------------------------------------------
(* Types *)

VenueOrder ==
    [intent : Intents, brokerId : BrokerIds, filled : Nat,
     status : {"WORKING", "FILLED", "CANCELED", "REJECTED", "EXPIRED"}]

Trade == [id : Executions, order : ClientIds, quantity : Nat \ {0}]

Snapshot == [positions : BOOLEAN, orders : BOOLEAN, clear : BOOLEAN]

Call ==
    {Idle}
    \cup [pc : {"ready"}, intent : Intents, snapshot : Snapshot,
          lifecycle : {None}]
    \cup [pc : {"approved", "riskRefused", "sending", "answered"},
          intent : Intents, snapshot : Snapshot, lifecycle : Lifecycle]

(* The type invariant.  The tables hold rows, claims and journal entries   *)
(* of the ledger's types, None is never claimed as an execution, polled    *)
(* updates are reports the adapter can make, and the venue never fills     *)
(* more than an order asks for.                                            *)
TypeOK ==
    /\ Ledger!TypeOK
    /\ killSwitch \in BOOLEAN
    /\ reconciliation \in
         [positionsMatch : BOOLEAN, ordersMatch : BOOLEAN] \cup {None}
    /\ \A c \in ClientIds :
         venue[c] # None => /\ venue[c] \in VenueOrder
                            /\ venue[c].intent.clientId = c
                            /\ venue[c].filled <= venue[c].intent.quantity
    /\ trades \subseteq Trade
    /\ requests \in [ClientIds -> Nat]
    /\ calls \in [Callers -> Call]
    /\ knownTrades \subseteq Executions
    /\ since \in {0} \cup {Instant[t.id] + 1 : t \in trades}
    /\ polling \in BOOLEAN
    /\ \A n \in DOMAIN inbox : inbox[n] \in Reports
    /\ review.pc \in {"idle", "readLocal", "fetchOrders", "resolve", "record"}
    /\ review.pc = "idle" => review = ReviewIdle

-----------------------------------------------------------------------------
(* Properties *)

Applied == {t \in trades : t.id \in claimedExecutions}
AppliedIn(b) == {t \in Applied : venue[t.order].intent.book = b}
Signed(t) == venue[t.order].intent.side * t.quantity

(* A position is the sum of the venue's executions that were applied, each *)
(* once, whatever overlaps, crashes or is polled again: nothing is         *)
(* invented and nothing counted twice.                                     *)
PositionIsItsTrades ==
    /\ claimedExecutions = {t.id : t \in Applied}
    /\ \A b \in Books :
          positions[b] =
             SumFunctionOnSet([t \in AppliedIn(b) |-> Signed(t)], AppliedIn(b))

(* An order is written to the database before it is sent: the venue never  *)
(* holds an order the database does not know, also after a crash.          *)
WriteAhead == \A c \in ClientIds : requests[c] > 0 => Exists(c)

(* A client order id is sent to the broker at most once, however many      *)
(* callers use it and whatever the broker answered or a crash cut off: no  *)
(* unknown outcome is retried.                                             *)
SentOnce == \A c \in ClientIds : requests[c] <= 1

(* The order table never runs ahead of the venue: it holds no fill the     *)
(* venue did not make, and an order that is over locally is not live at    *)
(* the venue.                                                              *)
LocalBehindVenue ==
    \A c \in ClientIds : Exists(c) =>
       /\ orders[c].filled > 0 =>
             venue[c] # None /\ orders[c].filled <= venue[c].filled
       /\ StatusOf(c) \in Terminal => ~ Working(c)

(* Orders are not sent blindly: whatever a call was given and whatever     *)
(* happened since, some reconciliation was recorded before the first order *)
(* went out, reduce-only orders included.                                  *)
SentAfterReconciliation ==
    \A c \in ClientIds : requests[c] > 0 => reconciliation # None

\* No call is in progress or about to begin, c was not sent, and the kill
\* switch is set.
Stopped(c) ==
    /\ ~ killSwitch
    /\ \A p \in Callers : calls[p] = Idle
    /\ requests[c] = 0

ReduceOnly(c) == Exists(c) /\ orders[c].intent.reduceOnly

(* A kill switch set while no caller holds an earlier readiness snapshot   *)
(* keeps every exposure-raising order from the venue until the operator    *)
(* uses it again, whoever calls and whatever reconciliations come.         *)
KillSwitchHolds ==
    \A c \in ClientIds : \A n \in 0..MaxSwitches :
       [](Stopped(c) /\ switches = n =>
             [](switches = n => requests[c] = 0 \/ ReduceOnly(c)))

(* Every execution of the venue is applied in the end, also those of an    *)
(* order whose submission timed out and those that come while a poll, a    *)
(* submission or a reconciliation runs.                                    *)
FillsArrive ==
    \A x \in Executions :
       (\E t \in trades : t.id = x) ~> x \in claimedExecutions

(* An order whose outcome is unknown does not stay so: a fill, a polled    *)
(* state or a reconciliation settles it, whichever comes first.            *)
UnknownOutcomeIsResolved ==
    \A c \in ClientIds :
       StatusOf(c) = "RECONCILIATION_REQUIRED"
          ~> StatusOf(c) # "RECONCILIATION_REQUIRED"

(* Trading resumes: the differences that lag, timeouts and late fills make *)
(* between the two sides keep coming to an end, and a reconciliation       *)
(* records that positions and orders match again.                          *)
Reconverges ==
    []<>(/\ reconciliation # None
         /\ reconciliation.positionsMatch /\ reconciliation.ordersMatch)

-----------------------------------------------------------------------------
(* What the documents promise and the code does not keep *)

(* A terminal order never reopens.  tests/test_lifecycle.py tests it of    *)
(* transition(); here it is asked of the order table, to which the gateway *)
(* and the reconciliation save lifecycles they read or made earlier.       *)
TerminalNeverReopens ==
    [][\A c \in ClientIds : StatusOf(c) \in Terminal =>
          orders'[c] = orders[c]]_vars

(* A submission whose outcome a crash left unknown does not stay           *)
(* SUBMITTING: it is settled or enters RECONCILIATION_REQUIRED.            *)
SubmissionsSettle ==
    \A c \in ClientIds :
       StatusOf(c) = "SUBMITTING" ~> StatusOf(c) # "SUBMITTING"

(* An order recorded as rejected is not live at the venue: outcomes are    *)
(* not guessed from an HTTP status or the name of an exception class.      *)
RejectedIsNotLive ==
    \A c \in ClientIds : StatusOf(c) = "REJECTED" => ~ Working(c)

(* Fills are authoritative for positions: a fill that crosses a            *)
(* cancellation is applied in the end.                                     *)
CrossingFillsArrive == FillsArrive

=============================================================================
