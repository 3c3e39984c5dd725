------------------------- MODULE TradingCoreProofs -------------------------
(***************************************************************************)
(* Proofs about TradingCore for every set of orders, callers, identifiers, *)
(* outcomes and bounds: first for hosts whose calls overlap or not, then   *)
(* for a host that runs one call at a time, which implements OrderLedger,  *)
(* whose rows only advance and stay behind the venue.                      *)
(***************************************************************************)
EXTENDS TradingCore, StoreProofs

Keys == {u.event : u \in Reports}

-----------------------------------------------------------------------------
(* The steps *)

GatewayStep(p) ==
    /\ \/ \E i \in Intents : EvaluateReadiness(p, i)
       \/ BeginFails(p)
       \/ \E approved \in BOOLEAN : Begin(p, approved)
       \/ Continue(p)
    /\ UNCHANGED <<pollerVars, review>>

PollStep ==
    /\ PollTrades \/ PollOrders \/ ProcessNext
    /\ UNCHANGED <<readinessVars, calls, review>>

ReviewStep ==
    /\ FetchPositions \/ ContinueReview
    /\ UNCHANGED <<calls, pollerVars>>

CancelStep(c) ==
    /\ Exists(c)
    /\ CanRequestCancel(orders[c])
    /\ SaveOrder(RequestCancel(orders[c]))
    /\ UNCHANGED <<positions, claimedEvents, claimedExecutions, journal,
                   readinessVars, venueVars, calls, pollerVars, review>>

MarketStep(c) ==
    /\ Working(c)
    /\ \/ /\ Cardinality(trades) + 1 \in Executions
          /\ \E q \in 1..venue[c].intent.quantity : VenueFill(c, q)
       \/ \E status \in Closings : VenueClose(c, status)
    /\ UNCHANGED <<storeVars, readinessVars, calls, pollerVars, review>>

SwitchStep ==
    /\ SetKillSwitch(~ killSwitch)
    /\ UNCHANGED <<storeVars, venueVars, calls, pollerVars, review>>

CrashStep ==
    /\ calls' = [p \in Callers |-> Idle]
    /\ review' = ReviewIdle
    /\ \E n \in {0} \cup {Instant[t.id] + 1 : t \in trades} : PollerRestart(n)
    /\ UNCHANGED <<storeVars, readinessVars, venueVars>>

StutterStep ==
    UNCHANGED <<storeVars, readinessVars, venueVars, calls, pollerVars, review>>

\* Every step is one of these, whatever Serial is and the bounds are.
LEMMA StepCases ==
    ASSUME [Next]_vars
    PROVE  \/ \E p \in Callers : GatewayStep(p)
           \/ PollStep
           \/ ReviewStep
           \/ \E c \in Cancellable : CancelStep(c)
           \/ \E c \in ClientIds : MarketStep(c)
           \/ SwitchStep
           \/ CrashStep
           \/ StutterStep
<1>1. ASSUME NEW p \in Callers, Evaluate(p) \/ StartSubmit(p) \/ Submit(p)
      PROVE  GatewayStep(p)
  BY <1>1 DEF Evaluate, StartSubmit, Submit, GatewayStep
<1>2. CASE Poll \/ Process
  BY <1>2 DEF Poll, Process, PollStep
<1>3. CASE StartReview \/ Review
  BY <1>3 DEF StartReview, Review, ReviewStep
<1>4. ASSUME NEW c \in Cancellable, AskCancel(c)
      PROVE  CancelStep(c)
  BY <1>4 DEF AskCancel, CancelStep
<1>5. CASE VenueStep
  BY <1>5 DEF VenueStep, MarketStep
<1>6. CASE Operate
  BY <1>6 DEF Operate, SwitchStep
<1>7. CASE Crash
  BY <1>7 DEF Crash, CrashStep
<1>8. CASE UNCHANGED vars
  BY <1>8 DEF vars, StutterStep
<1> QED
  BY <1>1, <1>2, <1>3, <1>4, <1>5, <1>6, <1>7, <1>8 DEF Next

-----------------------------------------------------------------------------
(* The inductive invariant: types, and who may send what. *)

StoreTyped ==
    /\ orders \in [ClientIds -> Lifecycle \cup {None}]
    /\ \A c \in ClientIds : Exists(c) => orders[c].intent.clientId = c
    /\ positions \in [Books -> Int]
    /\ claimedEvents \subseteq Keys
    /\ claimedExecutions \subseteq Executions
    /\ journal \in Seq(Entry(Executions))

ReadyTyped ==
    /\ killSwitch \in BOOLEAN
    /\ reconciliation \in
         [positionsMatch : BOOLEAN, ordersMatch : BOOLEAN] \cup {None}

VenueTyped ==
    /\ venue \in [ClientIds -> VenueOrder \cup {None}]
    /\ \A c \in ClientIds :
          venue[c] # None => /\ venue[c].intent.clientId = c
                             /\ venue[c].filled <= venue[c].intent.quantity
    /\ requests \in [ClientIds -> Nat]

TradesTyped ==
    /\ IsFiniteSet(trades)
    /\ trades \subseteq Trade
    /\ \A t \in trades :
          /\ venue[t.order] # None
          /\ t.quantity <= venue[t.order].intent.quantity
          /\ t.id <= Cardinality(trades)
    /\ \A s, t \in trades : s.id = t.id => s = t

\* The lifecycle that a call in state x holds in memory.
InMemory(x) ==
    /\ x.pc \notin {"idle", "ready"} => x.lifecycle.intent = x.intent
    /\ x.pc \in {"approved", "sending"} => x.lifecycle = Submitting(x.intent)
    /\ x.pc = "riskRefused" => x.lifecycle = RiskRejected(x.intent)
    /\ x.pc = "answered" =>
         \E target \in {"SUBMITTED", "REJECTED", "RECONCILIATION_REQUIRED"},
            id \in BrokerIds \cup {None} :
            /\ (id # None) <=> (target = "SUBMITTED")
            /\ x.lifecycle = Transition(Submitting(x.intent), target, id)

CallsTyped ==
    /\ calls \in [Callers -> Call]
    /\ \A p \in Callers : InMemory(calls[p])

\* Update u reports trade t.
ReportsTrade(u, t) ==
    /\ u.execution = t.id /\ u.order = t.order /\ u.quantity = t.quantity
    /\ u.book = venue[t.order].intent.book

\* What the adapter can report of the venue as it is: no invented fills.
Genuine ==
    {u \in Reports : IsFill(u) => \E t \in trades : ReportsTrade(u, t)}

PollTyped ==
    /\ knownTrades \subseteq Executions
    /\ since \in {0} \cup {Instant[t.id] + 1 : t \in trades}
    /\ polling \in BOOLEAN
    /\ inbox \in Seq(Genuine)

\* An order as an adapter may see it: without fills it is never called partly
\* filled.
SeenOrder ==
    {o \in [intent : Intents, brokerId : BrokerIds, filled : Nat,
            status : OpenNames \cup {"PARTIALLY_FILLED"}] :
        o.filled = 0 => o.status \in OpenNames}

ReviewTyped ==
    /\ review = [pc |-> review.pc,
                 brokerPositions |-> review.brokerPositions,
                 localPositions |-> review.localPositions,
                 localOrders |-> review.localOrders,
                 brokerOrders |-> review.brokerOrders]
    /\ review.pc \in {"idle", "readLocal", "fetchOrders", "resolve", "record"}
    /\ review.pc = "idle" => review = ReviewIdle
    /\ review.localOrders \subseteq Lifecycle
    /\ \A l \in review.localOrders : Exists(l.intent.clientId)
    /\ review.brokerOrders \subseteq SeenOrder

\* The orders the venue lists are finitely many, however many there may be.
VenueFinite == IsFiniteSet({c \in ClientIds : venue[c] # None})

\* The client id of caller p's call.
Client(p) == calls[p].intent.clientId

\* An order has a row before it is sent, is sent by one caller at most, and
\* is at the venue only if it was sent.
Discipline ==
    /\ \A c \in ClientIds :
          /\ requests[c] <= 1
          /\ requests[c] > 0 => Exists(c)
          /\ venue[c] # None => requests[c] > 0
    /\ \A p \in Callers :
          /\ At(p, "sending") => Exists(Client(p)) /\ requests[Client(p)] = 0
          /\ At(p, "answered") => Exists(Client(p))
    /\ \A p, q \in Callers :
          At(p, "sending") /\ At(q, "sending") /\ Client(p) = Client(q) => p = q

CoreInv ==
    /\ StoreTyped
    /\ ReadyTyped
    /\ VenueTyped
    /\ VenueFinite
    /\ TradesTyped
    /\ CallsTyped
    /\ PollTyped
    /\ ReviewTyped
    /\ Discipline

\* An order at the venue has the fields and the types of a lifecycle.
LEMMA VenueOrderFacts ==
    /\ VenueOrder \subseteq Lifecycle
    /\ None \notin VenueOrder
    /\ \A o \in VenueOrder :
          /\ o.intent \in Intents /\ o.filled \in Nat /\ o.brokerId \in BrokerIds
          /\ o.intent.clientId \in ClientIds /\ o.intent.book \in Books
          /\ o.intent.quantity \in Nat \ {0} /\ o.intent.side \in {1, -1}
<1>1. VenueOrder \subseteq Lifecycle
  BY DEF VenueOrder, Lifecycle, Status
<1> QED
  BY <1>1, LifecycleFacts, NoneAssumption DEF VenueOrder

\* What a call holds at each of its program points.
LEMMA CallFacts ==
    ASSUME CallsTyped, NEW p \in Callers
    PROVE  /\ calls[p] \in Call
           /\ calls[p] = [pc |-> calls[p].pc, intent |-> calls[p].intent,
                          snapshot |-> calls[p].snapshot,
                          lifecycle |-> calls[p].lifecycle]
           /\ calls[p].pc \in {"idle", "ready", "approved", "riskRefused",
                               "sending", "answered"}
           /\ calls[p].pc # "idle" =>
                /\ calls[p].intent \in Intents /\ Client(p) \in ClientIds
                /\ calls[p].snapshot \in Snapshot
           /\ calls[p].pc \notin {"idle", "ready"} =>
                /\ calls[p].lifecycle \in Lifecycle
                /\ calls[p].lifecycle.intent = calls[p].intent
           /\ InMemory(calls[p])
<1>1. calls[p] \in Call /\ InMemory(calls[p])
  BY DEF CallsTyped
<1>2. \A i \in Intents : i.clientId \in ClientIds
  BY IntentsAssumption DEF Intent
<1>3. calls[p] = [pc |-> calls[p].pc, intent |-> calls[p].intent,
                  snapshot |-> calls[p].snapshot,
                  lifecycle |-> calls[p].lifecycle]
  BY <1>1 DEF Call, Idle
<1> QED
  BY <1>1, <1>2, <1>3 DEF Call, Idle, Client, InMemory

\* The venue finds an identifier for an order it does not have yet.
LEMMA FreshIdLemma ==
    ASSUME VenueTyped, NEW c \in ClientIds, venue[c] = None
    PROVE  FreshBrokerId \in BrokerIds
<1> DEFINE given == [d \in ClientIds |->
                        IF venue[d] = None THEN None ELSE venue[d].brokerId]
<1>1. given \in [ClientIds -> BrokerIds \cup {None}]
  BY VenueOrderFacts DEF VenueTyped
<1>2. given[c] = None
  OBVIOUS
<1> HIDE DEF given
<1>3. PICK b \in BrokerIds : \A d \in ClientIds : given[d] # b
  BY <1>1, <1>2, BrokerIdsAssumption
<1>4. \A d \in ClientIds : venue[d] # None => venue[d].brokerId # b
  BY <1>3 DEF given
<1> QED
  BY <1>4 DEF FreshBrokerId

\* What the adapter can report is an update as the fill processor takes it.
LEMMA ReportFacts ==
    ASSUME NEW u \in Reports
    PROVE  /\ u \in UpdateShape(Keys, Executions)
           /\ WellFormed(u)
           /\ u.event \in Keys
           /\ u.order \in ClientIds
           /\ u.book \in Books
           /\ u.quantity \in Nat
           /\ IsFill(u) => u.execution \in Executions
           /\ ~ IsFill(u) => u.execution = None
<1>1. PICK i \in Intents : u \in ReportsOf(i)
  BY DEF Reports
<1>2. i.clientId \in ClientIds /\ i.book \in Books /\ i.quantity \in Nat \ {0}
  BY IntentsAssumption DEF Intent
<1>3. u.event \in Keys
  BY DEF Keys
<1>4. None \notin Executions
  BY FetchAssumption, NoneAssumption DEF Executions
<1>5. CASE u \in {[event |-> TradeEvent(x), execution |-> x, order |-> i.clientId,
                   book |-> i.book, type |-> "PARTIAL_FILL", brokerId |-> b,
                   quantity |-> q, cumulative |-> None] :
                      x \in Executions, b \in BrokerIds, q \in 1..i.quantity}
  BY <1>2, <1>3, <1>4, <1>5
  DEF UpdateShape, WellFormed, IsFill, FillTypes, StatusTypes
<1>6. CASE u \in {[event |-> <<"order", b, s, n>>, execution |-> None,
                   order |-> i.clientId, book |-> i.book, type |-> UpdateType(s),
                   brokerId |-> b, quantity |-> 0, cumulative |-> None] :
                      b \in BrokerIds, n \in 0..i.quantity,
                      s \in Reportable}
  BY <1>2, <1>3, <1>6
  DEF UpdateShape, WellFormed, IsFill, FillTypes, StatusTypes, UpdateType,
      Reportable
<1> QED
  BY <1>1, <1>5, <1>6 DEF ReportsOf

-----------------------------------------------------------------------------
(* OrderGateway.submit *)

\* Saving a lifecycle writes one row.
LEMMA SaveOrderLemma ==
    ASSUME StoreTyped, NEW l \in Lifecycle, SaveOrder(l)
    PROVE  /\ orders' \in [ClientIds -> Lifecycle \cup {None}]
           /\ \A c \in ClientIds :
                 orders'[c] = IF c = l.intent.clientId THEN l ELSE orders[c]
           /\ \A c \in ClientIds : Exists(c)' => orders'[c].intent.clientId = c
           /\ \A c \in ClientIds : Exists(c) => Exists(c)'
           /\ l.intent.clientId \in ClientIds /\ Exists(l.intent.clientId)'
<1>1. l.intent.clientId \in ClientIds /\ l # None
  BY LifecycleFacts, NoneAssumption
<1>2. \A c \in ClientIds :
         orders'[c] = IF c = l.intent.clientId THEN l ELSE orders[c]
  BY <1>1 DEF StoreTyped, SaveOrder
<1> QED
  BY <1>1, <1>2 DEF StoreTyped, SaveOrder, Exists

\* The answers that do not end the call leave a lifecycle to be saved.
LEMMA AnsweredLemma ==
    ASSUME NEW l \in Lifecycle, NEW outcome \in Outcomes, outcome \notin Raises,
           outcome = "accepted" => FreshBrokerId \in BrokerIds
    PROVE  /\ Answered(l, outcome) \in Lifecycle
           /\ Answered(l, outcome).intent = l.intent
           /\ Answered(l, outcome).filled = l.filled
           /\ Answered(l, outcome).status =
                IF outcome = "accepted" THEN "SUBMITTED"
                ELSE IF outcome \in {"refused", "misreported"} THEN "REJECTED"
                ELSE "RECONCILIATION_REQUIRED"
           /\ \E target \in {"SUBMITTED", "REJECTED",
                             "RECONCILIATION_REQUIRED"},
                 id \in BrokerIds \cup {None} :
                 /\ (id # None) <=> (target = "SUBMITTED")
                 /\ Answered(l, outcome) = Transition(l, target, id)
<1> USE NoneAssumption
<1>1. outcome \in {"accepted", "refused", "misreported", "timedOut", "lost"}
  BY OutcomesAssumption
  DEF AllOutcomes, CcxtOutcomes, IbkrOutcomes, TradeStationOutcomes,
      TradovateOutcomes, Raises
<1>2. /\ "SUBMITTED" \in Status /\ "REJECTED" \in Status
      /\ "RECONCILIATION_REQUIRED" \in Status
  BY DEF Status
<1>3. CASE outcome = "accepted"
  <2>1. Answered(l, outcome) = Transition(l, "SUBMITTED", FreshBrokerId)
    BY <1>3 DEF Answered
  <2>2. FreshBrokerId \in BrokerIds /\ FreshBrokerId # None
    BY <1>3
  <2> HIDE DEF FreshBrokerId
  <2> QED
    <3> DEFINE a == Transition(l, "SUBMITTED", FreshBrokerId)
    <3>1. /\ a \in Lifecycle /\ a.intent = l.intent /\ a.filled = l.filled
          /\ a.status = "SUBMITTED"
      BY <1>2, <2>2, TransitionLemma
    <3>2. \E target \in {"SUBMITTED", "REJECTED", "RECONCILIATION_REQUIRED"},
             id \in BrokerIds \cup {None} :
             /\ (id # None) <=> (target = "SUBMITTED")
             /\ a = Transition(l, target, id)
      BY <2>2
    <3> HIDE DEF a
    <3> QED
      BY <1>3, <2>1, <3>1, <3>2 DEF a
<1>4. CASE outcome \in {"refused", "misreported"}
  <2>1. Answered(l, outcome) = Transition(l, "REJECTED", None)
    BY <1>4 DEF Answered
  <2> QED
    BY <1>2, <1>4, <2>1, TransitionLemma
<1>5. CASE outcome \in {"timedOut", "lost"}
  <2>1. Answered(l, outcome) = Transition(l, "RECONCILIATION_REQUIRED", None)
    BY <1>5 DEF Answered
  <2> QED
    BY <1>2, <1>5, <2>1, TransitionLemma
<1> QED
  BY <1>1, <1>3, <1>4, <1>5

\* A caller that is about to ask the broker has an order the venue lacks.
LEMMA SendingLemma ==
    ASSUME CoreInv, NEW p \in Callers, At(p, "sending")
    PROVE  /\ Client(p) \in ClientIds /\ Exists(Client(p))
           /\ requests[Client(p)] = 0 /\ venue[Client(p)] = None
           /\ FreshBrokerId \in BrokerIds
<1>1. Client(p) \in ClientIds
  BY CallFacts DEF CoreInv, At
<1>2. requests[Client(p)] = 0 /\ Exists(Client(p))
  BY DEF CoreInv, Discipline
<1>3. venue[Client(p)] = None
  BY <1>1, <1>2 DEF CoreInv, Discipline
<1> QED
  BY <1>1, <1>2, <1>3, FreshIdLemma DEF CoreInv

\* A gateway step keeps the types of the calls.
LEMMA GatewayCalls ==
    ASSUME CoreInv, NEW p \in Callers, GatewayStep(p)
    PROVE  CallsTyped'
<1> USE DEF At
<1>1. CallsTyped /\ Idle \in Call /\ InMemory(Idle)
  BY DEF CoreInv, Call, Idle, InMemory
<1>2. ASSUME NEW x \in Call, calls' = [calls EXCEPT ![p] = x], InMemory(x)
      PROVE  CallsTyped'
  BY <1>1, <1>2 DEF CallsTyped
<1>3. CASE Return(p)
  BY <1>1, <1>2, <1>3 DEF Return
<1>4. ASSUME NEW i \in Intents, EvaluateReadiness(p, i)
      PROVE  CallsTyped'
  <2> DEFINE x == [Idle EXCEPT !.pc = "ready", !.intent = i,
                               !.snapshot = EvaluatedReadiness]
  <2>1. EvaluatedReadiness \in Snapshot
    BY DEF CoreInv, ReadyTyped, EvaluatedReadiness, Snapshot
  <2>2. x \in Call /\ InMemory(x)
    BY <2>1 DEF Call, Idle, InMemory
  <2> QED
    BY <1>2, <1>4, <2>2 DEF EvaluateReadiness
<1>5. ASSUME NEW approved \in BOOLEAN, Begin(p, approved)
      PROVE  CallsTyped'
  <2> DEFINE x == [calls[p] EXCEPT
                !.pc = IF approved THEN "approved" ELSE "riskRefused",
                !.lifecycle = IF approved THEN Submitting(calls[p].intent)
                              ELSE RiskRejected(calls[p].intent)]
  <2>1. /\ calls[p] \in Call /\ calls[p].pc = "ready"
        /\ calls[p].intent \in Intents /\ calls[p].snapshot \in Snapshot
    BY <1>1, <1>5, CallFacts DEF Begin
  <2>2. x \in Call /\ x.lifecycle.intent = x.intent
    BY <2>1, NewLifecycleLemma DEF Call, Idle
  <2>4. /\ x.pc = IF approved THEN "approved" ELSE "riskRefused"
        /\ x.lifecycle = IF approved THEN Submitting(x.intent)
                         ELSE RiskRejected(x.intent)
    BY <2>1 DEF Call, Idle
  <2>3. calls' = [calls EXCEPT ![p] = x]
    BY <1>5 DEF Begin
  <2> HIDE DEF x
  <2>5. InMemory(x)
    BY <2>2, <2>4 DEF InMemory
  <2> QED
    BY <1>2, <2>2, <2>3, <2>5
<1>6. CASE SaveSubmitting(p)
  <2> DEFINE x == [calls[p] EXCEPT !.pc = "sending"]
  <2>1. /\ calls[p] \in Call /\ calls[p].pc = "approved"
        /\ calls[p].lifecycle.intent = calls[p].intent
        /\ calls[p].lifecycle = Submitting(calls[p].intent)
    BY <1>1, <1>6, CallFacts DEF SaveSubmitting, InMemory
  <2>2. x \in Call /\ x.lifecycle.intent = x.intent
        /\ x.pc = "sending" /\ x.lifecycle = Submitting(x.intent)
    BY <2>1 DEF Call, Idle
  <2>3. calls' = [calls EXCEPT ![p] = x]
    BY <1>6 DEF SaveSubmitting, Goto
  <2> HIDE DEF x
  <2>4. InMemory(x)
    BY <2>2 DEF InMemory
  <2> QED
    BY <1>2, <2>2, <2>3, <2>4
<1>7. ASSUME NEW outcome \in Outcomes, AskBroker(p, outcome),
             outcome \notin Raises
      PROVE  CallsTyped'
  <2> DEFINE y == Answered(calls[p].lifecycle, outcome)
             x == [calls[p] EXCEPT !.pc = "answered", !.lifecycle = y]
  <2>1. /\ calls[p].pc = "sending"
        /\ calls[p] = [pc |-> calls[p].pc, intent |-> calls[p].intent,
                       snapshot |-> calls[p].snapshot,
                       lifecycle |-> calls[p].lifecycle]
        /\ calls[p].intent \in Intents /\ calls[p].snapshot \in Snapshot
        /\ calls[p].lifecycle \in Lifecycle
        /\ calls[p].lifecycle.intent = calls[p].intent
        /\ calls[p].lifecycle = Submitting(calls[p].intent)
    BY <1>1, <1>7, CallFacts DEF AskBroker, InMemory
  <2>2. /\ y \in Lifecycle /\ y.intent = calls[p].intent
        /\ \E target \in {"SUBMITTED", "REJECTED", "RECONCILIATION_REQUIRED"},
              id \in BrokerIds \cup {None} :
              /\ (id # None) <=> (target = "SUBMITTED")
              /\ y = Transition(Submitting(calls[p].intent), target, id)
    BY <1>7, <2>1, SendingLemma, AnsweredLemma
  <2>4. calls' = [calls EXCEPT ![p] = x]
    BY <1>7 DEF AskBroker
  <2> HIDE DEF y
  <2>3. x \in Call /\ InMemory(x)
    <3>1. PICK i \in Intents, s \in Snapshot, l \in Lifecycle :
             calls[p] = [pc |-> "sending", intent |-> i, snapshot |-> s,
                         lifecycle |-> l]
      BY <2>1
    <3>2. x = [pc |-> "answered", intent |-> i, snapshot |-> s,
               lifecycle |-> y]
      <4> DEFINE a == [calls[p] EXCEPT !.pc = "answered"]
      <4>1. a = [pc |-> "answered", intent |-> i, snapshot |-> s,
                 lifecycle |-> l]
        BY <3>1
      <4> HIDE DEF a
      <4>2. [a EXCEPT !.lifecycle = y] =
               [pc |-> "answered", intent |-> i, snapshot |-> s,
                lifecycle |-> y]
        BY <4>1
      <4> QED
        BY <4>2 DEF a
    <3>3. calls[p].intent = i
      BY <3>1
    <3> HIDE DEF x
    <3>4. x \in Call
      BY <2>2, <3>2, <3>3 DEF Call
    <3>5. /\ x.pc = "answered" /\ x.intent = calls[p].intent
          /\ x.lifecycle = y
      BY <3>2, <3>3
    <3> QED
      BY <2>2, <3>4, <3>5 DEF InMemory
  <2> HIDE DEF x
  <2> QED
    BY <1>2, <2>3, <2>4
<1> QED
  BY <1>3, <1>4, <1>5, <1>6, <1>7
  DEF GatewayStep, Continue, BeginFails, SaveRiskRejection, ClientIdTaken,
      AskBroker, SaveOutcome

\* What a gateway step does to the tables: a row saved and one event, or
\* nothing.
LEMMA GatewayStore ==
    ASSUME CoreInv, NEW p \in Callers, GatewayStep(p)
    PROVE  /\ StoreTyped'
           /\ \A c \in ClientIds : Exists(c) => Exists(c)'
           /\ JournalQuiet
           /\ UNCHANGED <<positions, claimedEvents, claimedExecutions,
                          readinessVars, trades>>
<1> USE DEF At
<1>1. StoreTyped /\ CallsTyped
  BY DEF CoreInv
<1>2. CASE UNCHANGED storeVars
  <2>1. JournalQuiet
    BY <1>2, JournalUnchanged DEF storeVars
  <2>2. UNCHANGED <<readinessVars, trades>>
    BY DEF GatewayStep, Continue, EvaluateReadiness, BeginFails, Begin,
           SaveRiskRejection, ClientIdTaken, SaveSubmitting, AskBroker,
           SaveOutcome, venueVars
  <2> QED
    BY <1>1, <1>2, <2>1, <2>2 DEF storeVars, StoreTyped, Exists
<1>3. ASSUME NEW kind \in QuietKinds, calls[p].pc \notin {"idle", "ready"},
             SaveOrder(calls[p].lifecycle),
             journal' = Append(journal, OrderEvent(kind, Client(p))),
             UNCHANGED <<positions, claimedEvents, claimedExecutions,
                         readinessVars, venueVars>>
      PROVE  /\ StoreTyped'
             /\ \A c \in ClientIds : Exists(c) => Exists(c)'
             /\ JournalQuiet
             /\ UNCHANGED <<positions, claimedEvents, claimedExecutions,
                            readinessVars, trades>>
  <2>1. calls[p].lifecycle \in Lifecycle /\ Client(p) \in ClientIds
    BY <1>1, <1>3, CallFacts
  <2>2. JournalQuiet /\ journal' \in Seq(Entry(Executions))
    BY <1>1, <1>3, <2>1, OrderEventLemma DEF StoreTyped
  <2>3. /\ orders' \in [ClientIds -> Lifecycle \cup {None}]
        /\ \A c \in ClientIds : Exists(c)' => orders'[c].intent.clientId = c
        /\ \A c \in ClientIds : Exists(c) => Exists(c)'
    BY <1>1, <1>3, <2>1, SaveOrderLemma
  <2> QED
    BY <1>1, <1>3, <2>2, <2>3 DEF StoreTyped, venueVars
<1>4. CASE SaveRiskRejection(p)
  <2>1. "OrderRiskRejected" \in QuietKinds
    BY DEF QuietKinds, EventKinds
  <2> QED
    BY <1>3, <1>4, <2>1 DEF SaveRiskRejection, Client
<1>5. CASE SaveSubmitting(p)
  <2>1. "OrderSubmissionStarted" \in QuietKinds
    BY DEF QuietKinds, EventKinds
  <2> QED
    BY <1>3, <1>5, <2>1 DEF SaveSubmitting, Client
<1>6. CASE SaveOutcome(p)
  <2>1. \A s : OutcomeEvent(s) \in QuietKinds
    BY DEF OutcomeEvent, QuietKinds, EventKinds
  <2> QED
    BY <1>3, <1>6, <2>1 DEF SaveOutcome, Client
<1> QED
  BY <1>2, <1>4, <1>5, <1>6
  DEF GatewayStep, Continue, EvaluateReadiness, BeginFails, Begin,
      ClientIdTaken, AskBroker

\* The venue side of a gateway step: caller p hands over its order, or none.
LEMMA GatewayVenue ==
    ASSUME CoreInv, NEW p \in Callers, GatewayStep(p)
    PROVE  /\ VenueTyped'
           /\ \A c \in ClientIds : venue[c] # None => venue'[c] = venue[c]
           /\ \/ UNCHANGED <<venue, requests>>
              \/ /\ At(p, "sending") /\ calls'[p].pc \in {"idle", "answered"}
                 /\ calls'[p].pc = "answered" => Client(p)' = Client(p)
                 /\ requests' = [requests EXCEPT ![Client(p)] = @ + 1]
                 /\ \A c \in ClientIds :
                       c # Client(p) => venue'[c] = venue[c]
<1>1. VenueTyped /\ CallsTyped
  BY DEF CoreInv
<1>2. CASE UNCHANGED <<venue, requests>>
  BY <1>1, <1>2 DEF VenueTyped
<1>3. ASSUME NEW outcome \in Outcomes, AskBroker(p, outcome)
      PROVE  /\ VenueTyped'
             /\ \A c \in ClientIds : venue[c] # None => venue'[c] = venue[c]
             /\ At(p, "sending") /\ calls'[p].pc \in {"idle", "answered"}
             /\ calls'[p].pc = "answered" => Client(p)' = Client(p)
             /\ requests' = [requests EXCEPT ![Client(p)] = @ + 1]
             /\ \A c \in ClientIds : c # Client(p) => venue'[c] = venue[c]
  <2> DEFINE i == calls[p].intent
             o == [intent |-> i, brokerId |-> FreshBrokerId,
                   status |-> "WORKING", filled |-> 0]
  <2>1. /\ At(p, "sending") /\ i.clientId = Client(p) /\ i \in Intents
        /\ calls[p] \in Call /\ calls \in [Callers -> Call]
    BY <1>1, <1>3, CallFacts DEF AskBroker, Client, At, CallsTyped
  <2>2. /\ Client(p) \in ClientIds /\ venue[Client(p)] = None
        /\ FreshBrokerId \in BrokerIds
    BY <2>1, SendingLemma
  <2>3. o \in VenueOrder /\ o.filled <= o.intent.quantity
        /\ o.intent.clientId = Client(p)
    BY <2>1, <2>2, IntentsAssumption DEF VenueOrder, Intent
  <2>4. venue' = venue \/ venue' = [venue EXCEPT ![Client(p)] = o]
    BY <1>3, <2>1 DEF AskBroker, Receive
  <2>5. requests' = [requests EXCEPT ![Client(p)] = @ + 1]
    BY <1>3, <2>1 DEF AskBroker, CountRequest
  <2>6. /\ calls'[p].pc \in {"idle", "answered"}
        /\ calls'[p].pc = "answered" => calls'[p].intent = i
    BY <1>3, <2>1 DEF AskBroker, Return, Idle, Call
  <2> HIDE DEF o
  <2>7. VenueTyped'
    BY <1>1, <2>2, <2>3, <2>4, <2>5 DEF VenueTyped
  <2> QED
    BY <1>1, <2>1, <2>2, <2>4, <2>5, <2>6, <2>7 DEF VenueTyped, Client
<1> QED
  BY <1>2, <1>3
  DEF GatewayStep, Continue, EvaluateReadiness, BeginFails, Begin,
      SaveRiskRejection, ClientIdTaken, SaveSubmitting, SaveOutcome, venueVars

\* Discipline is kept by a step of one call that sends nothing.
LEMMA DisciplineKept ==
    ASSUME CoreInv, UNCHANGED <<venue, requests>>,
           \A c \in ClientIds : Exists(c) => Exists(c)',
           NEW p \in Callers, NEW x, calls' = [calls EXCEPT ![p] = x],
           x.pc = "sending" =>
             /\ x.intent.clientId \in ClientIds
             /\ ~ Exists(x.intent.clientId) /\ orders'[x.intent.clientId] # None,
           x.pc # "answered"
    PROVE  Discipline'
<1>1. /\ \A c \in ClientIds : /\ requests[c] <= 1
                              /\ requests[c] > 0 => Exists(c)
                              /\ venue[c] # None => requests[c] > 0
                              /\ requests[c] \in Nat
      /\ calls \in [Callers -> Call]
  BY DEF CoreInv, Discipline, CallsTyped, VenueTyped
<1>2. \A q \in Callers : calls'[q] = IF q = p THEN x ELSE calls[q]
  BY <1>1
<1>3. \A q \in Callers :
         /\ At(q, "sending") => Client(q) \in ClientIds /\ Exists(Client(q))
                                /\ requests[Client(q)] = 0
         /\ At(q, "answered") => Client(q) \in ClientIds /\ Exists(Client(q))
  BY CallFacts DEF CoreInv, Discipline, At
<1>4. \A q, r \in Callers :
         At(q, "sending") /\ At(r, "sending") /\ Client(q) = Client(r) => q = r
  BY DEF CoreInv, Discipline
<1>5. x.pc = "sending" => requests[x.intent.clientId] = 0
  BY <1>1
<1>6. ASSUME NEW q \in Callers
      PROVE  /\ At(q, "sending")' => /\ Exists(Client(q))'
                                     /\ requests'[Client(q)'] = 0
             /\ At(q, "answered")' => Exists(Client(q))'
  BY <1>2, <1>3, <1>5 DEF At, Client, Exists
<1>7. ASSUME NEW q \in Callers, NEW r \in Callers,
             At(q, "sending")', At(r, "sending")', Client(q)' = Client(r)'
      PROVE  q = r
  BY <1>2, <1>3, <1>4, <1>7 DEF At, Client
<1> QED
  BY <1>1, <1>6, <1>7 DEF Discipline

\* A gateway step keeps the discipline: the second lookup and the saving of
\* the row are one transaction, and only then is the broker asked.
LEMMA GatewayDiscipline ==
    ASSUME CoreInv, NEW p \in Callers, GatewayStep(p)
    PROVE  Discipline'
<1> USE DEF At
<1>1. /\ CallsTyped /\ VenueTyped /\ calls[p] \in Call
      /\ \A c \in ClientIds : Exists(c) => Exists(c)'
      /\ Idle.pc = "idle"
  BY GatewayStore, CallFacts DEF CoreInv, Idle
<1>2. ASSUME Return(p), UNCHANGED <<venue, requests>>
      PROVE  Discipline'
  BY <1>1, <1>2, DisciplineKept DEF Return
<1>3. ASSUME NEW i \in Intents, EvaluateReadiness(p, i)
      PROVE  Discipline'
  <2> DEFINE x == [Idle EXCEPT !.pc = "ready", !.intent = i,
                               !.snapshot = EvaluatedReadiness]
  <2>1. x.pc = "ready" /\ calls' = [calls EXCEPT ![p] = x]
    BY <1>3 DEF EvaluateReadiness, Idle
  <2>2. UNCHANGED <<venue, requests>>
    BY <1>3 DEF EvaluateReadiness, venueVars
  <2> HIDE DEF x
  <2> QED
    BY <1>1, <2>1, <2>2, DisciplineKept
<1>4. ASSUME NEW approved \in BOOLEAN, Begin(p, approved)
      PROVE  Discipline'
  <2> DEFINE x == [calls[p] EXCEPT
                !.pc = IF approved THEN "approved" ELSE "riskRefused",
                !.lifecycle = IF approved THEN Submitting(calls[p].intent)
                              ELSE RiskRejected(calls[p].intent)]
  <2>1. calls' = [calls EXCEPT ![p] = x] /\ UNCHANGED <<venue, requests>>
    BY <1>4 DEF Begin, venueVars
  <2>2. x.pc \in {"approved", "riskRefused"}
    BY <1>1, CallFacts
  <2> HIDE DEF x
  <2> QED
    BY <1>1, <2>1, <2>2, DisciplineKept
<1>5. CASE SaveSubmitting(p)
  <2> DEFINE x == [calls[p] EXCEPT !.pc = "sending"]
  <2>1. /\ calls' = [calls EXCEPT ![p] = x] /\ UNCHANGED <<venue, requests>>
        /\ calls[p].pc = "approved" /\ ~ Exists(calls[p].intent.clientId)
        /\ SaveOrder(calls[p].lifecycle)
    BY <1>5 DEF SaveSubmitting, Goto, venueVars
  <2>2. /\ calls[p].intent.clientId \in ClientIds
        /\ calls[p].lifecycle \in Lifecycle
        /\ calls[p].lifecycle.intent = calls[p].intent
    BY <1>1, <2>1, CallFacts DEF Client
  <2>3. orders'[calls[p].intent.clientId] # None
    BY <2>1, <2>2, SaveOrderLemma DEF CoreInv, Exists
  <2>4. x.pc = "sending" /\ x.intent = calls[p].intent
    BY <1>1 DEF Call, Idle
  <2> HIDE DEF x
  <2>5. orders'[x.intent.clientId] # None
    BY <2>3, <2>4
  <2> QED
    BY <1>1, <2>1, <2>2, <2>4, <2>5, DisciplineKept
<1>6. CASE At(p, "sending") /\ ~ UNCHANGED <<venue, requests>>
  <2>1. /\ calls'[p].pc \in {"idle", "answered"}
        /\ calls'[p].pc = "answered" => Client(p)' = Client(p)
        /\ requests' = [requests EXCEPT ![Client(p)] = @ + 1]
        /\ \A c \in ClientIds : c # Client(p) => venue'[c] = venue[c]
    BY <1>6, GatewayVenue
  <2>2. /\ Client(p) \in ClientIds /\ Exists(Client(p))
        /\ requests[Client(p)] = 0
    BY <1>6, SendingLemma
  <2>3. \A q \in Callers : q # p => calls'[q] = calls[q]
    BY <1>1, <1>6
    DEF GatewayStep, Continue, EvaluateReadiness, BeginFails, Begin,
        SaveRiskRejection, ClientIdTaken, SaveSubmitting, AskBroker,
        SaveOutcome, Return, Goto, CallsTyped
  <2>4. \A c \in ClientIds :
           requests'[c] = IF c = Client(p) THEN 1 ELSE requests[c]
    BY <1>1, <2>1, <2>2 DEF VenueTyped
  <2>5. \A q \in Callers :
           /\ At(q, "sending") => Client(q) \in ClientIds /\ Exists(Client(q))
                                  /\ requests[Client(q)] = 0
           /\ At(q, "answered") => Client(q) \in ClientIds /\ Exists(Client(q))
    BY CallFacts DEF CoreInv, Discipline
  <2>6. \A q, r \in Callers :
           At(q, "sending") /\ At(r, "sending") /\ Client(q) = Client(r) => q = r
    BY DEF CoreInv, Discipline
  <2>7. \A c \in ClientIds : /\ requests[c] <= 1
                             /\ requests[c] > 0 => Exists(c)
                             /\ venue[c] # None => requests[c] > 0
    BY DEF CoreInv, Discipline
  <2>8. \A c \in ClientIds : /\ requests'[c] <= 1
                             /\ requests'[c] > 0 => Exists(c)'
                             /\ venue'[c] # None => requests'[c] > 0
    BY <1>1, <2>1, <2>2, <2>4, <2>7
  <2>9. ASSUME NEW q \in Callers
        PROVE  /\ At(q, "sending")' => /\ q # p /\ At(q, "sending")
                                       /\ Client(q)' = Client(q)
               /\ At(q, "answered")' => /\ Client(q) \in ClientIds
                                        /\ Client(q)' = Client(q)
                                        /\ Exists(Client(q))
    BY <2>1, <2>2, <2>3, <2>5 DEF Client
  <2>10. ASSUME NEW q \in Callers
         PROVE  /\ At(q, "sending")' => /\ Exists(Client(q))'
                                        /\ requests'[Client(q)'] = 0
                /\ At(q, "answered")' => Exists(Client(q))'
    <3>1. ASSUME At(q, "sending")'
          PROVE  Exists(Client(q))' /\ requests'[Client(q)'] = 0
      <4>1. q # p /\ At(q, "sending") /\ Client(q)' = Client(q)
        BY <2>9, <3>1
      <4>2. Client(q) # Client(p) /\ Client(q) \in ClientIds
            /\ Exists(Client(q)) /\ requests[Client(q)] = 0
        BY <1>6, <2>5, <2>6, <4>1
      <4>3. Exists(Client(q))' <=> (orders'[Client(q)] # None)
        BY <4>1 DEF Exists
      <4>4. orders'[Client(q)] # None
        BY <1>1, <4>2 DEF Exists
      <4> QED
        BY <2>4, <4>1, <4>2, <4>3, <4>4
    <3>2. ASSUME At(q, "answered")'
          PROVE  Exists(Client(q))'
      <4>1. Client(q)' = Client(q) /\ Client(q) \in ClientIds
            /\ Exists(Client(q))
        BY <2>9, <3>2
      <4> QED
        BY <1>1, <4>1 DEF Exists
    <3> QED
      BY <3>1, <3>2
  <2>11. ASSUME NEW q \in Callers, NEW r \in Callers,
                At(q, "sending")', At(r, "sending")', Client(q)' = Client(r)'
         PROVE  q = r
    BY <2>6, <2>9, <2>11
  <2> QED
    BY <2>8, <2>10, <2>11 DEF Discipline
<1>7. ASSUME NEW outcome \in Outcomes, AskBroker(p, outcome)
      PROVE  Discipline'
  <2>1. ~ UNCHANGED requests
    <3>1. /\ requests' = [requests EXCEPT ![calls[p].intent.clientId] = @ + 1]
          /\ At(p, "sending")
      BY <1>7 DEF AskBroker, CountRequest
    <3>2. Client(p) \in ClientIds /\ requests[Client(p)] \in Nat
      BY <1>1, <3>1, SendingLemma DEF VenueTyped
    <3> QED
      BY <1>1, <3>1, <3>2 DEF VenueTyped, Client
  <2> QED
    BY <1>6, <1>7, <2>1 DEF AskBroker
<1> QED
  BY <1>2, <1>3, <1>4, <1>5, <1>7
  DEF GatewayStep, Continue, BeginFails, SaveRiskRejection, ClientIdTaken,
      SaveOutcome, venueVars

-----------------------------------------------------------------------------
(* What a step leaves alone *)

\* An order at the venue keeps its intent.
VenueKeeps ==
    \A c \in ClientIds :
       venue[c] # None => venue'[c] # None /\ venue'[c].intent = venue[c].intent

RowsStay == \A c \in ClientIds : Exists(c) => Exists(c)'

\* Trades are right while the venue forgets no order.
LEMMA TradesKept ==
    ASSUME TradesTyped, trades' = trades, VenueKeeps
    PROVE  TradesTyped'
<1>1. \A t \in trades : t.order \in ClientIds
  BY DEF TradesTyped, Trade
<1> QED
  BY <1>1 DEF TradesTyped, VenueKeeps

\* So is what was polled: a report stays genuine when trades are added.
LEMMA PollKept ==
    ASSUME PollTyped, TradesTyped, UNCHANGED pollerVars, VenueKeeps,
           trades \subseteq trades'
    PROVE  PollTyped'
<1>1. ASSUME NEW u \in Genuine PROVE u \in Genuine'
  <2>1. CASE ~ IsFill(u)
    BY <2>1 DEF Genuine
  <2>2. CASE IsFill(u)
    <3>1. PICK t \in trades : ReportsTrade(u, t)
      BY <2>2 DEF Genuine
    <3>2. /\ t.order \in ClientIds /\ t \in trades'
          /\ venue'[t.order].intent = venue[t.order].intent
      BY DEF TradesTyped, Trade, VenueKeeps
    <3> QED
      BY <3>1, <3>2 DEF Genuine, ReportsTrade
  <2> QED
    BY <2>1, <2>2
<1>2. inbox \in Seq(Genuine')
  BY <1>1, SeqMonotonic DEF PollTyped
<1> QED
  BY <1>2 DEF PollTyped, pollerVars

\* What a reconciliation has read stays well typed while rows stay.
LEMMA ReviewKept ==
    ASSUME ReviewTyped, UNCHANGED review, RowsStay
    PROVE  ReviewTyped'
<1>1. \A l \in review.localOrders : l.intent.clientId \in ClientIds
  BY LifecycleFacts DEF ReviewTyped
<1> QED
  BY <1>1 DEF ReviewTyped, RowsStay, Exists

\* The venue's orders stay finitely many unless one is added.
LEMMA FiniteKept ==
    ASSUME VenueFinite,
           \A c \in ClientIds : venue'[c] # None => venue[c] # None
    PROVE  VenueFinite'
<1>1. {c \in ClientIds : venue'[c] # None}
         \subseteq {c \in ClientIds : venue[c] # None}
  OBVIOUS
<1> QED
  BY <1>1, FS_Subset DEF VenueFinite

\* The calls stay as they are.
LEMMA CallsKept ==
    ASSUME CallsTyped, UNCHANGED calls
    PROVE  CallsTyped'
BY DEF CallsTyped

\* Discipline needs the calls, the requests and which orders exist where.
LEMMA DisciplineStays ==
    ASSUME CoreInv, UNCHANGED <<calls, requests>>, RowsStay,
           \A c \in ClientIds : venue'[c] # None => venue[c] # None
    PROVE  Discipline'
<1>1. \A p \in Callers : calls[p].pc # "idle" => Client(p) \in ClientIds
  BY CallFacts DEF CoreInv
<1> QED
  BY <1>1 DEF CoreInv, Discipline, RowsStay, Exists, At, Client

\* OrderGateway.submit keeps the invariant.
LEMMA GatewayInv ==
    ASSUME CoreInv, NEW p \in Callers, GatewayStep(p)
    PROVE  CoreInv'
<1>1. /\ StoreTyped' /\ RowsStay /\ trades' = trades
      /\ UNCHANGED readinessVars
  BY GatewayStore DEF RowsStay
<1>2. VenueTyped' /\ VenueKeeps
  BY GatewayVenue DEF VenueKeeps
<1>3. CallsTyped' /\ Discipline'
  BY GatewayCalls, GatewayDiscipline
<1>4. ReadyTyped'
  BY <1>1 DEF CoreInv, ReadyTyped, readinessVars
<1>5. UNCHANGED <<pollerVars, review>>
  BY DEF GatewayStep
<1>6. VenueFinite'
  <2> DEFINE listed == {c \in ClientIds : venue[c] # None}
  <2>1. {c \in ClientIds : venue'[c] # None} \subseteq listed \cup {Client(p)}
    BY GatewayVenue
  <2>2. IsFiniteSet(listed \cup {Client(p)})
    BY FS_AddElement DEF CoreInv, VenueFinite
  <2> QED
    BY <2>1, <2>2, FS_Subset DEF VenueFinite
<1> QED
  BY <1>1, <1>2, <1>3, <1>4, <1>5, <1>6, TradesKept, PollKept, ReviewKept
  DEF CoreInv

-----------------------------------------------------------------------------
(* The operator, the crash, the cancellation and the venue *)

\* The operator keeps the invariant.
LEMMA SwitchInv ==
    ASSUME CoreInv, SwitchStep \/ StutterStep
    PROVE  CoreInv'
<1>1. /\ UNCHANGED <<storeVars, venueVars, calls, pollerVars, review>>
      /\ UNCHANGED reconciliation /\ killSwitch' \in BOOLEAN
  BY DEF SwitchStep, StutterStep, SetKillSwitch, CoreInv, ReadyTyped,
         readinessVars
<1>2. /\ RowsStay /\ VenueKeeps /\ StoreTyped' /\ VenueTyped' /\ ReadyTyped'
      /\ UNCHANGED <<venue, trades, requests>>
  BY <1>1
  DEF storeVars, venueVars, RowsStay, VenueKeeps, Exists, CoreInv, StoreTyped,
      VenueTyped, ReadyTyped
<1> QED
  BY <1>1, <1>2, TradesKept, PollKept, ReviewKept, CallsKept,
     DisciplineStays, FiniteKept DEF CoreInv

\* A crash keeps the invariant: the poller starts empty, the tables stay.
LEMMA CrashInv ==
    ASSUME CoreInv, CrashStep
    PROVE  CoreInv'
<1>1. /\ UNCHANGED <<venue, trades, requests>>
      /\ UNCHANGED <<orders, positions, claimedEvents, claimedExecutions,
                     journal, killSwitch, reconciliation>>
  BY DEF CrashStep, storeVars, readinessVars, venueVars
<1>2. /\ RowsStay /\ VenueKeeps /\ StoreTyped' /\ VenueTyped' /\ ReadyTyped'
  BY <1>1
  DEF RowsStay, VenueKeeps, Exists, CoreInv, StoreTyped, VenueTyped, ReadyTyped
<1>3. CallsTyped'
  BY DEF CrashStep, CallsTyped, Call, Idle, InMemory
<1>4. \A p \in Callers : calls'[p].pc = "idle"
  BY DEF CrashStep, Idle
<1>5. Discipline'
  BY <1>1, <1>2, <1>4 DEF CoreInv, Discipline, RowsStay, At, Exists
<1>6. PollTyped'
  <2> DEFINE starts == {0} \cup {Instant[t.id] + 1 : t \in trades}
  <2>1. PICK n \in starts : PollerRestart(n)
    BY DEF CrashStep
  <2>2. starts = ({0} \cup {Instant[t.id] + 1 : t \in trades})'
    BY <1>1
  <2>3. << >> \in Seq(Genuine')
    OBVIOUS
  <2> HIDE DEF starts
  <2>4. since' \in starts /\ knownTrades' \subseteq Executions
        /\ polling' \in BOOLEAN /\ inbox' \in Seq(Genuine')
    BY <2>1, <2>3 DEF PollerRestart
  <2> QED
    BY <2>2, <2>4 DEF PollTyped
<1>7. ReviewTyped'
  BY DEF CrashStep, ReviewTyped, ReviewIdle
<1> QED
  BY <1>1, <1>2, <1>3, <1>5, <1>6, <1>7, TradesKept, FiniteKept DEF CoreInv

\* A request to cancel keeps the invariant.
LEMMA CancelInv ==
    ASSUME CoreInv, NEW c \in Cancellable, CancelStep(c)
    PROVE  CoreInv'
<1> DEFINE l == RequestCancel(orders[c])
<1>1. c \in ClientIds /\ orders[c] \in Lifecycle /\ orders[c].intent.clientId = c
  BY CoreAssumption DEF CancelStep, CoreInv, StoreTyped, Exists
<1>2. l \in Lifecycle /\ l.intent = orders[c].intent
  BY <1>1, TransitionLemma DEF RequestCancel, Status
<1> HIDE DEF l
<1>3. SaveOrder(l)
  BY DEF CancelStep, l
<1>4. /\ UNCHANGED <<venue, trades, requests>>
      /\ UNCHANGED <<positions, claimedEvents, claimedExecutions, journal,
                     killSwitch, reconciliation>>
      /\ UNCHANGED <<calls, pollerVars, review>>
  BY DEF CancelStep, readinessVars, venueVars
<1>5. StoreTyped' /\ RowsStay
  BY <1>2, <1>3, <1>4, SaveOrderLemma DEF CoreInv, StoreTyped, RowsStay
<1>6. VenueKeeps /\ VenueTyped' /\ ReadyTyped'
  BY <1>4 DEF VenueKeeps, CoreInv, VenueTyped, ReadyTyped
<1> QED
  BY <1>4, <1>5, <1>6, TradesKept, PollKept, ReviewKept, CallsKept,
     DisciplineStays, FiniteKept DEF CoreInv

\* A step of the venue keeps the invariant, forgets nothing, and gives a new
\* trade a new identifier.
LEMMA MarketInv ==
    ASSUME CoreInv, NEW c \in ClientIds, MarketStep(c)
    PROVE  /\ CoreInv' /\ VenueKeeps
           /\ \A d \in ClientIds : venue'[d] # None => venue[d] # None
           /\ trades \subseteq trades'
           /\ \A t \in trades' \ trades : t.id = Cardinality(trades) + 1
<1>1. /\ UNCHANGED <<orders, positions, claimedEvents, claimedExecutions,
                     journal, killSwitch, reconciliation>>
      /\ UNCHANGED <<calls, pollerVars, review, requests>>
  BY DEF MarketStep, storeVars, readinessVars, VenueFill, VenueClose
<1>2. StoreTyped' /\ ReadyTyped' /\ RowsStay
  BY <1>1 DEF CoreInv, StoreTyped, ReadyTyped, RowsStay, Exists
<1>3. /\ venue \in [ClientIds -> VenueOrder \cup {None}]
      /\ venue[c] \in VenueOrder /\ venue[c].status = "WORKING"
      /\ venue[c].filled <= venue[c].intent.quantity
      /\ venue[c].filled \in Nat /\ venue[c].intent.quantity \in Nat
      /\ IsFiniteSet(trades) /\ Cardinality(trades) \in Nat
  BY VenueOrderFacts, FS_CardinalityType
  DEF MarketStep, Working, CoreInv, VenueTyped, TradesTyped
<1>4. ASSUME NEW q \in 1..venue[c].intent.quantity, VenueFill(c, q),
             Cardinality(trades) + 1 \in Executions
      PROVE  /\ VenueTyped' /\ VenueKeeps /\ TradesTyped'
             /\ trades \subseteq trades'
             /\ \A t \in trades' \ trades : t.id = Cardinality(trades) + 1
             /\ \A d \in ClientIds : venue'[d] # None => venue[d] # None
  <2> DEFINE o == [venue[c] EXCEPT !.filled = @ + q,
                !.status = IF venue[c].filled + q = venue[c].intent.quantity
                           THEN "FILLED" ELSE @]
             n == Cardinality(trades) + 1
             t == [id |-> n, order |-> c, quantity |-> q]
  <2>1. /\ venue' = [venue EXCEPT ![c] = o] /\ trades' = trades \cup {t}
        /\ venue[c].filled + q <= venue[c].intent.quantity
    BY <1>3, <1>4 DEF VenueFill
  <2>2. o \in VenueOrder /\ o.intent = venue[c].intent
        /\ o.filled <= o.intent.quantity
    <3> DEFINE v == venue[c]
               a == [v EXCEPT !.filled = v.filled + q]
               s == IF v.filled + q = v.intent.quantity THEN "FILLED"
                    ELSE v.status
    <3>1. v \in VenueOrder /\ v.status = "WORKING" /\ v.filled + q \in Nat
          /\ v.filled + q <= v.intent.quantity
      BY <1>3, <2>1
    <3> HIDE DEF v
    <3>2. a \in VenueOrder /\ a.intent = v.intent /\ a.filled = v.filled + q
      BY <3>1 DEF VenueOrder
    <3>3. s \in {"WORKING", "FILLED"}
      BY <3>1
    <3> HIDE DEF a, s
    <3>4. /\ [a EXCEPT !.status = s] \in VenueOrder
          /\ [a EXCEPT !.status = s].intent = a.intent
          /\ [a EXCEPT !.status = s].filled = a.filled
      BY <3>2, <3>3 DEF VenueOrder
    <3>5. o = [a EXCEPT !.status = s]
      BY DEF a, s, v
    <3> QED
      BY <3>1, <3>2, <3>4, <3>5 DEF v
  <2>3. t \in Trade /\ t.id = n /\ t.order = c /\ t.quantity = q
    BY <1>4 DEF Trade
  <2> HIDE DEF o, t
  <2>4. VenueTyped' /\ VenueKeeps
        /\ \A d \in ClientIds : venue'[d] # None => venue[d] # None
    BY <1>1, <1>3, <2>1, <2>2, VenueOrderFacts
    DEF CoreInv, VenueTyped, VenueKeeps
  <2>0. n \in Nat /\ \A s \in trades : s.id \in Nat /\ s.order \in ClientIds
    BY <1>3, FetchAssumption DEF CoreInv, TradesTyped, Trade, Executions
  <2>5. t \notin trades /\ \A s \in trades : s.id < n
    <3>1. \A s \in trades : s.id < n
      BY <1>3, <2>0 DEF CoreInv, TradesTyped
    <3> HIDE DEF n
    <3> QED
      BY <2>0, <2>3, <3>1
  <2>6. IsFiniteSet(trades') /\ Cardinality(trades') = n
    BY <1>3, <2>1, <2>5, FS_AddElement
  <2>7. q <= venue[c].intent.quantity
    BY <1>3
  <2>8. TradesTyped'
    <3>1. ASSUME NEW s \in trades'
          PROVE  /\ venue'[s.order] # None /\ s.id <= n
                 /\ s.quantity <= venue'[s.order].intent.quantity
      <4>1. CASE s = t
        BY <1>3, <2>1, <2>2, <2>3, <2>7, <4>1, VenueOrderFacts
      <4>2. CASE s \in trades
        <5>1. s.order \in ClientIds /\ venue[s.order] # None /\ s.id <= n
              /\ s.quantity <= venue[s.order].intent.quantity
          BY <2>0, <2>5, <4>2 DEF CoreInv, TradesTyped
        <5> HIDE DEF n
        <5> QED
          BY <2>4, <5>1 DEF VenueKeeps
      <4> QED
        BY <2>1, <4>1, <4>2
    <3>2. ASSUME NEW s \in trades', NEW r \in trades', s.id = r.id
          PROVE  s = r
      BY <1>3, <2>1, <2>3, <2>5, <3>2 DEF CoreInv, TradesTyped, Trade
    <3>3. trades' \subseteq Trade
      BY <2>1, <2>3 DEF CoreInv, TradesTyped
    <3> QED
      BY <2>6, <3>1, <3>2, <3>3 DEF TradesTyped
  <2> QED
    BY <2>1, <2>3, <2>4, <2>8
<1>5. ASSUME NEW status \in Closings, VenueClose(c, status)
      PROVE  /\ VenueTyped' /\ VenueKeeps /\ TradesTyped'
             /\ trades \subseteq trades'
             /\ \A t \in trades' \ trades : t.id = Cardinality(trades) + 1
             /\ \A d \in ClientIds : venue'[d] # None => venue[d] # None
  <2> DEFINE o == [venue[c] EXCEPT !.status = status]
  <2>1. /\ venue' = [venue EXCEPT ![c] = o] /\ trades' = trades
    BY <1>3, <1>5 DEF VenueClose
  <2>2. o \in VenueOrder /\ o.intent = venue[c].intent
        /\ o.filled <= o.intent.quantity
    BY <1>3, <2>1, CoreAssumption DEF VenueOrder
  <2> HIDE DEF o
  <2>3. VenueTyped' /\ VenueKeeps
        /\ \A d \in ClientIds : venue'[d] # None => venue[d] # None
    BY <1>1, <1>3, <2>1, <2>2, VenueOrderFacts
    DEF CoreInv, VenueTyped, VenueKeeps
  <2> QED
    BY <2>1, <2>3, TradesKept DEF CoreInv
<1>6. /\ VenueTyped' /\ VenueKeeps /\ TradesTyped' /\ trades \subseteq trades'
      /\ \A t \in trades' \ trades : t.id = Cardinality(trades) + 1
      /\ \A d \in ClientIds : venue'[d] # None => venue[d] # None
  BY <1>4, <1>5 DEF MarketStep
<1> QED
  BY <1>1, <1>2, <1>6, PollKept, ReviewKept, CallsKept,
     DisciplineStays, FiniteKept DEF CoreInv

-----------------------------------------------------------------------------
(* ReconciliationService.reconcile *)

\* What reconcile makes of an order that it can prove.
LEMMA ResolutionLemma ==
    ASSUME ReviewTyped, NEW l \in review.localOrders, Provable(l)
    PROVE  /\ Resolution(l) \in Lifecycle
           /\ Resolution(l).intent = l.intent
           /\ Resolution(l).filled = l.filled
           /\ l \in Lifecycle
<1> DEFINE remote == ById(review.brokerOrders, l.intent.clientId)
<1>1. PICK o \in review.brokerOrders : o.intent.clientId = l.intent.clientId
  BY DEF Provable, Ids
<1>2. remote \in review.brokerOrders
  BY <1>1 DEF ById
<1>3. remote \in SeenOrder /\ l \in Lifecycle
  BY <1>2 DEF ReviewTyped
<1> HIDE DEF remote
<1>4. remote.status \in Status /\ remote.brokerId \in BrokerIds \cup {None}
  BY <1>3 DEF SeenOrder, OpenNames, Status
<1>5. Resolution(l) = Transition(l, remote.status, remote.brokerId)
  BY DEF Resolution, remote
<1> QED
  BY <1>3, <1>4, <1>5, TransitionLemma

\* The rows that reconcile writes are resolutions of lifecycles it has read.
LEMMA ResolveLemma ==
    ASSUME StoreTyped, ReviewTyped, ResolveUnknown
    PROVE  /\ \A c \in ClientIds :
                 \/ orders'[c] = orders[c]
                 \/ \E l \in review.localOrders :
                       /\ Provable(l) /\ l.intent.clientId = c
                       /\ orders'[c] = Resolution(l)
           /\ StoreTyped' /\ RowsStay
<1> DEFINE proved == {l \in review.localOrders : Provable(l)}
<1>1. orders' = [c \in ClientIds |->
                   IF c \in Ids(proved) THEN Resolution(ById(proved, c))
                   ELSE orders[c]]
  BY DEF ResolveUnknown
<1>2. ASSUME NEW c \in ClientIds, c \in Ids(proved)
      PROVE  /\ ById(proved, c) \in proved
             /\ ById(proved, c).intent.clientId = c
  BY <1>2 DEF Ids, ById
<1>3. \A c \in ClientIds :
         \/ orders'[c] = orders[c]
         \/ \E l \in review.localOrders : /\ Provable(l)
                                          /\ l.intent.clientId = c
                                          /\ orders'[c] = Resolution(l)
  BY <1>1, <1>2
<1>4. ASSUME NEW c \in ClientIds
      PROVE  /\ orders'[c] \in Lifecycle \cup {None}
             /\ Exists(c) => Exists(c)'
             /\ Exists(c)' => orders'[c].intent.clientId = c
  <2>1. CASE orders'[c] = orders[c]
    BY <2>1 DEF StoreTyped, Exists
  <2>2. CASE \E l \in review.localOrders : /\ Provable(l)
                                           /\ l.intent.clientId = c
                                           /\ orders'[c] = Resolution(l)
    BY <2>2, ResolutionLemma, NoneAssumption DEF Exists
  <2> QED
    BY <1>3, <2>1, <2>2
<1>5. orders' \in [ClientIds -> Lifecycle \cup {None}]
  BY <1>1, <1>4
<1> QED
  BY <1>3, <1>4, <1>5 DEF ResolveUnknown, StoreTyped, RowsStay

\* ReconciliationService.reconcile keeps the invariant.
LEMMA ReviewInv ==
    ASSUME CoreInv, ReviewStep
    PROVE  CoreInv'
<1>1. UNCHANGED <<venue, trades, requests>> /\ UNCHANGED <<calls, pollerVars>>
  BY DEF ReviewStep, FetchPositions, ContinueReview, ReadLocal,
         FetchOpenOrders, ResolveUnknown, Record, venueVars
<1>2. VenueKeeps /\ VenueTyped' /\ StoreTyped /\ ReviewTyped /\ VenueTyped
  BY <1>1 DEF CoreInv, VenueTyped, VenueKeeps
<1>3. ASSUME UNCHANGED storeVars
      PROVE  StoreTyped' /\ RowsStay
  BY <1>2, <1>3 DEF storeVars, StoreTyped, RowsStay, Exists
<1>4. ASSUME ResolveUnknown
      PROVE  StoreTyped' /\ RowsStay
  BY <1>2, <1>4, ResolveLemma
<1>5. StoreTyped' /\ RowsStay
  BY <1>3, <1>4
  DEF ReviewStep, FetchPositions, ContinueReview, ReadLocal, FetchOpenOrders,
      Record
<1>6. ReadyTyped'
  <2>1. ReadyTyped
    BY DEF CoreInv
  <2>2. CASE UNCHANGED readinessVars
    BY <2>1, <2>2 DEF ReadyTyped, readinessVars
  <2>3. CASE Record
    <3>1. /\ (review.localPositions = review.brokerPositions) \in BOOLEAN
          /\ (Ids(review.localOrders) = Ids(review.brokerOrders)) \in BOOLEAN
      OBVIOUS
    <3> QED
      BY <2>1, <2>3, <3>1 DEF ReadyTyped, Record
  <2> QED
    BY <2>2, <2>3
    DEF ReviewStep, FetchPositions, ContinueReview, ReadLocal,
        FetchOpenOrders, ResolveUnknown
<1>7. ReviewTyped'
  <2>1. CASE FetchPositions
    BY <2>1 DEF FetchPositions, ReviewIdle, ReviewTyped
  <2>2. CASE ReadLocal
    <3> DEFINE S == {orders[c] : c \in
                       {d \in ClientIds : Exists(d) /\ StatusOf(d) \notin Terminal}}
    <3>1. \A l \in S : l \in Lifecycle /\ Exists(l.intent.clientId)
      BY <1>2 DEF StoreTyped, Exists
    <3>2. review' = [review EXCEPT !.pc = "fetchOrders",
                       !.localPositions = positions, !.localOrders = S]
      BY <2>2 DEF ReadLocal
    <3>3. /\ review'.pc = "fetchOrders" /\ review'.localOrders = S
          /\ review'.brokerOrders = review.brokerOrders
          /\ review' = [pc |-> review'.pc,
                        brokerPositions |-> review'.brokerPositions,
                        localPositions |-> review'.localPositions,
                        localOrders |-> review'.localOrders,
                        brokerOrders |-> review'.brokerOrders]
      BY <1>2, <3>2 DEF ReviewTyped
    <3>4. UNCHANGED orders
      BY <2>2 DEF ReadLocal, storeVars
    <3> HIDE DEF S
    <3> QED
      BY <1>2, <3>1, <3>3, <3>4 DEF ReviewTyped, Exists
  <2>3. CASE FetchOpenOrders
    <3>0. PICK seen \in Looks :
             review' = [review EXCEPT !.pc = "resolve",
               !.brokerOrders = {[venue[c] EXCEPT !.status = seen[c]] :
                                    c \in {d \in ClientIds : Working(d)}}]
      BY <2>3 DEF FetchOpenOrders
    <3> DEFINE S == {[venue[c] EXCEPT !.status = seen[c]] :
                        c \in {d \in ClientIds : Working(d)}}
    <3>1. S \subseteq SeenOrder
      <4>1. ASSUME NEW c \in ClientIds, Working(c)
            PROVE  [venue[c] EXCEPT !.status = seen[c]] \in SeenOrder
        <5>1. venue[c] \in VenueOrder /\ venue[c].status = "WORKING"
          BY <1>2, <4>1 DEF VenueTyped, Working
        <5>2. seen[c] \in Names(venue[c])
          BY <4>1 DEF Looks, Listed, Working
        <5>3. /\ seen[c] \in OpenNames \cup {"PARTIALLY_FILLED"}
              /\ venue[c].filled = 0 => seen[c] \in OpenNames
          BY <5>1, <5>2, NamesAssumption DEF Names
        <5> QED
          BY <5>1, <5>3 DEF SeenOrder, VenueOrder
      <4> QED
        BY <4>1
    <3>2. review' = [review EXCEPT !.pc = "resolve", !.brokerOrders = S]
      BY <3>0
    <3>3. /\ review'.pc = "resolve" /\ review'.brokerOrders = S
          /\ review'.localOrders = review.localOrders
          /\ review' = [pc |-> review'.pc,
                        brokerPositions |-> review'.brokerPositions,
                        localPositions |-> review'.localPositions,
                        localOrders |-> review'.localOrders,
                        brokerOrders |-> review'.brokerOrders]
      BY <1>2, <3>2 DEF ReviewTyped
    <3>4. UNCHANGED orders
      BY <2>3 DEF FetchOpenOrders, storeVars
    <3> HIDE DEF S
    <3> QED
      BY <1>2, <3>1, <3>3, <3>4 DEF ReviewTyped, Exists
  <2>4. CASE ResolveUnknown
    <3>1. review' = [review EXCEPT !.pc = "record"]
      BY <2>4 DEF ResolveUnknown
    <3>2. /\ review'.pc = "record" /\ review'.localOrders = review.localOrders
          /\ review'.brokerOrders = review.brokerOrders
          /\ review' = [pc |-> review'.pc,
                        brokerPositions |-> review'.brokerPositions,
                        localPositions |-> review'.localPositions,
                        localOrders |-> review'.localOrders,
                        brokerOrders |-> review'.brokerOrders]
      BY <1>2, <3>1 DEF ReviewTyped
    <3>3. \A l \in review.localOrders : Exists(l.intent.clientId)'
      <4>1. \A l \in review.localOrders :
               l.intent.clientId \in ClientIds /\ Exists(l.intent.clientId)
        BY <1>2, LifecycleFacts DEF ReviewTyped
      <4> QED
        BY <1>5, <4>1 DEF RowsStay, Exists
    <3>4. \A l \in review'.localOrders : Exists(l.intent.clientId)'
      BY <3>2, <3>3 DEF Exists
    <3> QED
      BY <1>2, <3>2, <3>4 DEF ReviewTyped
  <2>5. CASE Record
    BY <2>5 DEF Record, ReviewIdle, ReviewTyped
  <2> QED
    BY <2>1, <2>2, <2>3, <2>4, <2>5 DEF ReviewStep, ContinueReview
<1> QED
  BY <1>1, <1>2, <1>5, <1>6, <1>7, TradesKept, PollKept, CallsKept,
     DisciplineStays, FiniteKept DEF CoreInv

-----------------------------------------------------------------------------
(* A poll *)

\* A trade of the venue as the adapter reports it.
LEMMA TradeUpdateLemma ==
    ASSUME CoreInv, NEW t \in trades
    PROVE  TradeUpdate(t) \in Genuine
<1> DEFINE i == venue[t.order].intent
<1>1. /\ t \in Trade /\ t.order \in ClientIds /\ venue[t.order] \in VenueOrder
      /\ t.quantity <= i.quantity /\ i.clientId = t.order
  BY DEF CoreInv, TradesTyped, VenueTyped, Trade
<1>2. /\ i \in Intents /\ i.quantity \in Nat /\ venue[t.order].brokerId \in BrokerIds
      /\ t.id \in Executions /\ t.quantity \in Nat \ {0}
  BY <1>1, VenueOrderFacts DEF Trade
<1>3. t.quantity \in 1..i.quantity
  BY <1>1, <1>2
<1>4. TradeUpdate(t) =
         [event |-> TradeEvent(t.id), execution |-> t.id, order |-> i.clientId,
          book |-> i.book, type |-> "PARTIAL_FILL",
          brokerId |-> venue[t.order].brokerId, quantity |-> t.quantity,
          cumulative |-> None]
  BY <1>1 DEF TradeUpdate
<1> HIDE DEF i
<1> DEFINE fills == {[event |-> TradeEvent(x), execution |-> x,
                      order |-> i.clientId, book |-> i.book,
                      type |-> "PARTIAL_FILL", brokerId |-> b, quantity |-> q,
                      cumulative |-> None] :
                        x \in Executions, b \in BrokerIds, q \in 1..i.quantity}
<1>5. TradeUpdate(t) \in ReportsOf(i)
  <2>1. TradeUpdate(t) \in fills
    BY <1>2, <1>3, <1>4
  <2> HIDE DEF fills
  <2>2. fills \subseteq ReportsOf(i)
    BY DEF ReportsOf, fills
  <2> QED
    BY <2>1, <2>2
<1>6. ReportsTrade(TradeUpdate(t), t)
  BY DEF TradeUpdate, ReportsTrade
<1> QED
  BY <1>2, <1>5, <1>6 DEF Reports, Genuine

\* An order of the venue under a status that the adapter reports.
LEMMA StateUpdateLemma ==
    ASSUME CoreInv, NEW c \in ClientIds, venue[c] # None, NEW s \in Reportable
    PROVE  StateUpdate(c, s) \in Genuine
<1> DEFINE i == venue[c].intent
           n == venue[c].filled
<1>1. /\ venue[c] \in VenueOrder /\ i.clientId = c /\ n <= i.quantity
  BY DEF CoreInv, VenueTyped
<1>2. /\ i \in Intents /\ i.quantity \in Nat /\ venue[c].brokerId \in BrokerIds
      /\ n \in Nat
  BY <1>1, VenueOrderFacts
<1>3. n \in 0..i.quantity
  BY <1>1, <1>2
<1>4. StateUpdate(c, s) =
         [event |-> <<"order", venue[c].brokerId, s, n>>, execution |-> None,
          order |-> i.clientId, book |-> i.book, type |-> UpdateType(s),
          brokerId |-> venue[c].brokerId, quantity |-> 0, cumulative |-> None]
  BY <1>1 DEF StateUpdate, StateEvent
<1> HIDE DEF i, n
<1> DEFINE report(b, x, m) ==
             [event |-> <<"order", b, x, m>>, execution |-> None,
              order |-> i.clientId, book |-> i.book, type |-> UpdateType(x),
              brokerId |-> b, quantity |-> 0, cumulative |-> None]
           states == {report(b, x, m) :
                        b \in BrokerIds, m \in 0..i.quantity,
                        x \in Reportable}
<1>5. StateUpdate(c, s) \in ReportsOf(i)
  <2>1. StateUpdate(c, s) = report(venue[c].brokerId, s, n)
    BY <1>4
  <2>2. states \subseteq ReportsOf(i)
    BY DEF ReportsOf
  <2> HIDE DEF report
  <2>3. report(venue[c].brokerId, s, n) \in states
    BY <1>2, <1>3
  <2> QED
    BY <2>1, <2>2, <2>3
<1>6. ~ IsFill(StateUpdate(c, s))
  BY <1>4 DEF IsFill, FillTypes, UpdateType, Reportable
<1> QED
  BY <1>2, <1>5, <1>6 DEF Reports, Genuine

\* The window moves to just after a trade, or stays.
LEMMA AfterLemma ==
    ASSUME CoreInv, NEW start \in WindowStarts, NEW read \in SUBSET trades
    PROVE  After(start, read) \in {0} \cup {Instant[t.id] + 1 : t \in trades}
<1> DEFINE S == {start} \cup {Instant[t.id] + 1 : t \in read}
           f == [t \in read |-> Instant[t.id] + 1]
<1>1. \A t \in trades : Instant[t.id] \in Nat
  BY FetchAssumption DEF CoreInv, TradesTyped, Trade, Executions
<1>2. start \in {0} \cup {Instant[t.id] + 1 : t \in trades} /\ start \in Nat
  BY <1>1 DEF CoreInv, PollTyped, WindowStarts
<1>3. \E e \in S : \A x \in S : e >= x
  <2>1. CASE read = {}
    BY <1>2, <2>1
  <2>2. CASE read # {}
    <3>1. IsFiniteSet(read) /\ \A t \in read : f[t] \in Int
      BY <1>1, FS_Subset DEF CoreInv, TradesTyped
    <3>2. PICK m \in read : \A t \in read : f[t] =< f[m]
      BY <2>2, <3>1, LargestValue
    <3>3. \A t \in read : Instant[t.id] + 1 =< Instant[m.id] + 1
      BY <3>2
    <3>4. Instant[m.id] \in Nat /\ Instant[m.id] + 1 \in S
      BY <1>1
    <3>5. CASE start =< Instant[m.id] + 1
      BY <1>1, <1>2, <3>3, <3>4, <3>5
    <3>6. CASE ~ (start =< Instant[m.id] + 1)
      <4>1. \A t \in read : Instant[t.id] \in Nat
        BY <1>1
      <4>2. \A t \in read : Instant[t.id] + 1 =< start
        BY <1>2, <3>3, <3>4, <3>6, <4>1
      <4> QED
        BY <1>2, <4>1, <4>2
    <3> QED
      BY <3>5, <3>6
  <2> QED
    BY <2>1, <2>2
<1>4. After(start, read) \in S
  BY <1>3 DEF After, Max
<1> QED
  BY <1>2, <1>4

\* What fetch_my_trades adds to the inbox reports trades of the venue.
LEMMA PollTradesInv ==
    ASSUME CoreInv, PollTrades
    PROVE  PollTyped'
<1>0. PICK start \in WindowStarts :
         \E fetched \in Fetched({t \in trades : Instant[t.id] >= start}) :
           LET new == {t \in fetched : t.id \notin knownTrades}
               refused == {t.id : t \in new} \cap Rebates
               read == {t \in new : refused # {} => t.id <= Min(refused)}
           IN /\ ~ polling
              /\ inbox = << >>
              /\ knownTrades' = knownTrades \cup {t.id : t \in read}
              /\ since' = After(start, read)
              /\ IF refused = {}
                 THEN /\ \E batch \in SetToSeqs(new) :
                            /\ \A m, n \in DOMAIN batch :
                                  m < n => batch[m].id < batch[n].id
                            /\ inbox' =
                                 [n \in DOMAIN batch |-> TradeUpdate(batch[n])]
                      /\ polling' = TRUE
                 ELSE UNCHANGED <<inbox, polling>>
              /\ UNCHANGED <<knownStates, storeVars, venueVars>>
  BY DEF PollTrades
<1>1. PICK fetched \in Fetched({t \in trades : Instant[t.id] >= start}) :
         LET new == {t \in fetched : t.id \notin knownTrades}
             refused == {t.id : t \in new} \cap Rebates
             read == {t \in new : refused # {} => t.id <= Min(refused)}
         IN /\ ~ polling
            /\ inbox = << >>
            /\ knownTrades' = knownTrades \cup {t.id : t \in read}
            /\ since' = After(start, read)
            /\ IF refused = {}
               THEN /\ \E batch \in SetToSeqs(new) :
                          /\ \A m, n \in DOMAIN batch :
                                m < n => batch[m].id < batch[n].id
                          /\ inbox' =
                               [n \in DOMAIN batch |-> TradeUpdate(batch[n])]
                    /\ polling' = TRUE
               ELSE UNCHANGED <<inbox, polling>>
            /\ UNCHANGED <<knownStates, storeVars, venueVars>>
  BY <1>0
<1> DEFINE new == {t \in fetched : t.id \notin knownTrades}
           refused == {t.id : t \in new} \cap Rebates
           read == {t \in new : refused # {} => t.id <= Min(refused)}
<1>2. new \in SUBSET trades /\ read \in SUBSET trades
  BY DEF Fetched
<1>3. /\ knownTrades' = knownTrades \cup {t.id : t \in read}
      /\ since' = After(start, read)
      /\ trades' = trades
  BY <1>1 DEF venueVars
<1>4. polling' \in BOOLEAN
  BY <1>1 DEF CoreInv, PollTyped
<1>5. inbox' = inbox
      \/ \E batch \in SetToSeqs(new) :
            inbox' = [n \in DOMAIN batch |-> TradeUpdate(batch[n])]
  BY <1>1
<1> HIDE DEF new, read
<1>6. since' \in {0} \cup {Instant[t.id] + 1 : t \in trades'}
  BY <1>2, <1>3, AfterLemma
<1>7. knownTrades' \subseteq Executions
  BY <1>2, <1>3 DEF CoreInv, PollTyped, TradesTyped, Trade
<1>8. inbox' \in Seq(Genuine)
  <2>1. CASE inbox' = inbox
    BY <2>1 DEF CoreInv, PollTyped
  <2>2. ASSUME NEW batch \in SetToSeqs(new),
               inbox' = [n \in DOMAIN batch |-> TradeUpdate(batch[n])]
        PROVE  inbox' \in Seq(Genuine)
    <3>1. IsFiniteSet(new) /\ Cardinality(new) \in Nat
      BY <1>2, FS_Subset, FS_CardinalityType DEF CoreInv, TradesTyped
    <3>2. batch \in [1..Cardinality(new) -> new]
      BY <2>2 DEF SetToSeqs
    <3>3. \A n \in 1..Cardinality(new) : TradeUpdate(batch[n]) \in Genuine
      BY <1>2, <3>2, TradeUpdateLemma
    <3>4. inbox' \in [1..Cardinality(new) -> Genuine]
      BY <2>2, <3>2, <3>3
    <3> QED
      BY <3>1, <3>4, SeqDef
  <2> QED
    BY <1>5, <2>1, <2>2
<1>9. Genuine' = Genuine
  BY <1>1 DEF Genuine, ReportsTrade, venueVars
<1> QED
  BY <1>4, <1>6, <1>7, <1>8, <1>9 DEF PollTyped

\* What the fetched orders add to the inbox reports no fill.
LEMMA PollOrdersInv ==
    ASSUME CoreInv, PollOrders
    PROVE  PollTyped'
<1>1. PICK seen \in Looks, fetched \in FetchedOrders :
         LET changed == {c \in fetched : knownStates[c] # State(c, seen[c])}
         IN /\ \E batch \in SetToSeqs({c \in changed : seen[c] \in Reportable}) :
                  inbox' = inbox \o [n \in DOMAIN batch |->
                                       StateUpdate(batch[n], seen[batch[n]])]
            /\ polling' = FALSE
            /\ UNCHANGED <<knownTrades, since, storeVars, venueVars>>
  BY DEF PollOrders
<1> DEFINE S == {c \in {c \in fetched : knownStates[c] # State(c, seen[c])} :
                    seen[c] \in Reportable}
<1>2. S \in SUBSET Listed /\ \A c \in S : seen[c] \in Reportable
  BY DEF FetchedOrders
<1>3. PICK batch \in SetToSeqs(S) :
         inbox' = inbox \o [n \in DOMAIN batch |->
                              StateUpdate(batch[n], seen[batch[n]])]
  BY <1>1
<1>4. IsFiniteSet(S) /\ Cardinality(S) \in Nat
  <2>1. IsFiniteSet(Listed)
    BY DEF CoreInv, VenueFinite, Listed
  <2> HIDE DEF S
  <2> QED
    BY <1>2, <2>1, FS_Subset, FS_CardinalityType
<1>5. batch \in [1..Cardinality(S) -> S]
  BY <1>3 DEF SetToSeqs
<1>6. \A n \in 1..Cardinality(S) :
         StateUpdate(batch[n], seen[batch[n]]) \in Genuine
  <2>1. \A c \in S : StateUpdate(c, seen[c]) \in Genuine
    BY <1>2, StateUpdateLemma DEF Listed
  <2> HIDE DEF S
  <2> QED
    BY <1>5, <2>1
<1> HIDE DEF S
<1> DEFINE more == [n \in DOMAIN batch |->
                      StateUpdate(batch[n], seen[batch[n]])]
<1>7. more \in [1..Cardinality(S) -> Genuine]
  BY <1>5, <1>6
<1>8. more \in Seq(Genuine)
  BY <1>4, <1>7, SeqDef
<1> HIDE DEF more
<1>9. inbox' \in Seq(Genuine)
  BY <1>3, <1>8, ConcatProperties DEF CoreInv, PollTyped, more
<1>10. Genuine' = Genuine
  BY <1>1 DEF Genuine, ReportsTrade, venueVars
<1> QED
  BY <1>1, <1>9, <1>10 DEF CoreInv, PollTyped, venueVars

-----------------------------------------------------------------------------
(* FillProcessor.process *)

\* Nothing but an event key is written.
Ignored == UNCHANGED <<orders, positions, claimedExecutions, journal>>

\* Update u moves its order on.
Moves(u) ==
    /\ Exists(u.order)
    /\ UpdateAccepted(orders[u.order], u)
    /\ orders' = [orders EXCEPT ![u.order] = ApplyUpdate(orders[u.order], u)]

\* Update u reports a status: no execution, no position.
MovesStatus(u) ==
    /\ Moves(u)
    /\ ~ IsFill(u)
    /\ JournalQuiet
    /\ UNCHANGED <<positions, claimedExecutions>>

\* Update u reports a new execution, which is applied, claimed and journalled.
MovesFill(u) ==
    LET l == orders[u.order] IN
    /\ Moves(u)
    /\ IsFill(u)
    /\ u.execution \notin claimedExecutions
    /\ JournalFill(Len(journal) + 1, FillEvent(u, l))
    /\ positions' = [positions EXCEPT ![u.book] = @ + l.intent.side * u.quantity]
    /\ claimedExecutions' = claimedExecutions \cup {u.execution}

\* FillProcessor.process ignores an update, moves a status, or moves a fill
\* with its position, its claim and its journal entry.
LEMMA ProcessLemma ==
    ASSUME StoreTyped, NEW u \in Reports, ProcessUpdate(u)
    PROVE  /\ StoreTyped'
           /\ RowsStay
           /\ Ignored \/ MovesStatus(u) \/ MovesFill(u)
<1> DEFINE l == orders[u.order]
<1>1. /\ u \in UpdateShape(Keys, Executions) /\ WellFormed(u)
      /\ u.event \in Keys /\ u.order \in ClientIds /\ u.book \in Books
      /\ u.quantity \in Nat
      /\ IsFill(u) => u.execution \in Executions
      /\ ~ IsFill(u) => u.execution = None
      /\ None \notin Executions
  BY ReportFacts, FetchAssumption, NoneAssumption DEF Executions
<1>2. CASE Ignored /\ claimedEvents' \in {claimedEvents,
                                          claimedEvents \cup {u.event}}
  BY <1>1, <1>2 DEF Ignored, StoreTyped, RowsStay, Exists
<1>3. CASE CommitUpdate(u)
  <2>1. /\ Fresh(u) /\ Exists(u.order) /\ UpdateAccepted(l, u)
        /\ SaveOrder(ApplyUpdate(l, u))
        /\ positions' = PositionAfter(l, u)
        /\ journal' = Append(journal,
             IF IsFill(u) THEN FillEvent(u, l)
             ELSE OrderEvent("BrokerOrderUpdateApplied", u.order))
        /\ claimedEvents' = claimedEvents \cup {u.event}
        /\ claimedExecutions' =
             IF u.execution = None THEN claimedExecutions
             ELSE claimedExecutions \cup {u.execution}
    BY <1>3 DEF CommitUpdate, ClaimedBy
  <2>2. l \in Lifecycle /\ l.intent.clientId = u.order
    BY <1>1, <2>1 DEF StoreTyped, Exists
  <2>3. ApplyUpdate(l, u) \in Lifecycle /\ ApplyUpdate(l, u).intent = l.intent
    BY <1>1, <2>1, <2>2, ApplyUpdateLemma
  <2>4. Moves(u)
    BY <2>1, <2>2, <2>3 DEF Moves, SaveOrder
  <2>5. /\ orders' \in [ClientIds -> Lifecycle \cup {None}]
        /\ \A c \in ClientIds : Exists(c)' => orders'[c].intent.clientId = c
        /\ RowsStay
    BY <2>1, <2>3, SaveOrderLemma DEF RowsStay
  <2>6. claimedEvents' \subseteq Keys /\ claimedExecutions' \subseteq Executions
    <3>1. u.event \in Keys /\ u.execution \in Executions \cup {None}
      BY <1>1
    <3>2. claimedEvents \subseteq Keys /\ claimedExecutions \subseteq Executions
      BY DEF StoreTyped
    <3>3. /\ claimedEvents' = claimedEvents \cup {u.event}
          /\ claimedExecutions' =
               IF u.execution = None THEN claimedExecutions
               ELSE claimedExecutions \cup {u.execution}
      BY <2>1
    <3> QED
      BY <3>1, <3>2, <3>3
  <2>7. CASE ~ IsFill(u)
    <3>1. "BrokerOrderUpdateApplied" \in QuietKinds
      BY DEF QuietKinds, EventKinds
    <3>2. JournalQuiet /\ journal' \in Seq(Entry(Executions))
      BY <1>1, <2>1, <2>7, <3>1, OrderEventLemma DEF StoreTyped
    <3>3. UNCHANGED <<positions, claimedExecutions>>
      BY <1>1, <2>1, <2>7 DEF PositionAfter
    <3> QED
      BY <2>4, <2>5, <2>6, <2>7, <3>2, <3>3 DEF StoreTyped, MovesStatus
  <2>8. CASE IsFill(u)
    <3> DEFINE e == FillEvent(u, l)
    <3>1. /\ l.intent.side \in Int /\ u.quantity \in Int
          /\ l.intent.side * u.quantity \in Int /\ positions[u.book] \in Int
      <4>1. l.intent.side \in {1, -1}
        BY <2>2, LifecycleFacts
      <4>0. \A k \in Nat : k \in Int /\ 1 * k \in Int /\ (-1) * k \in Int
        OBVIOUS
      <4>2. u.quantity \in Nat /\ u.quantity \in Int
            /\ 1 * u.quantity \in Int /\ (-1) * u.quantity \in Int
        BY <1>1, <4>0
      <4> QED
        BY <1>1, <4>1, <4>2 DEF StoreTyped
    <3>2. e \in Entry(Executions) /\ e.kind = "OrderFillApplied"
      <4> DEFINE q == l.intent.side * u.quantity
                 x == positions[u.book] + q
      <4>1. e = [kind |-> "OrderFillApplied", order |-> u.order,
                 execution |-> u.execution, book |-> u.book,
                 quantity |-> q, position |-> x]
        BY DEF FillEvent
      <4>2. q \in Int /\ x \in Int
        BY <3>1
      <4>3. u.order \in ClientIds /\ u.book \in Books
            /\ u.execution \in Executions
        BY <1>1, <2>8
      <4> HIDE DEF q, x
      <4> QED
        BY <4>1, <4>2, <4>3 DEF Entry, EventKinds
    <3>3. journal' = Append(journal, e)
      BY <2>1, <2>8
    <3> HIDE DEF e
    <3>4. /\ JournalFill(Len(journal) + 1, e)
          /\ journal' \in Seq(Entry(Executions))
      BY <3>2, <3>3, FillEventLemma DEF StoreTyped
    <3>5. positions' = [positions EXCEPT
                          ![u.book] = @ + l.intent.side * u.quantity]
      BY <2>1, <2>8 DEF PositionAfter
    <3>6. positions' \in [Books -> Int]
      BY <1>1, <3>1, <3>5 DEF StoreTyped
    <3>7. /\ claimedExecutions' = claimedExecutions \cup {u.execution}
          /\ u.execution \notin claimedExecutions
      <4>1. u.execution # None
        BY <1>1, <2>8
      <4> QED
        BY <2>1, <4>1 DEF Fresh
    <3> QED
      BY <2>4, <2>5, <2>6, <2>8, <3>4, <3>5, <3>6, <3>7
      DEF StoreTyped, MovesFill, e
  <2> QED
    BY <2>7, <2>8
<1> QED
  BY <1>2, <1>3
  DEF ProcessUpdate, IgnoreDuplicateEvent, IgnoreDuplicateExecution,
      RollBackUpdate, Ignored, storeVars

\* What a poll step does to the tables.
PollStore ==
    \/ Ignored
    \/ \E n \in DOMAIN inbox : MovesStatus(inbox[n]) \/ MovesFill(inbox[n])

\* A poll and the processing of an update keep the invariant.
LEMMA PollInv ==
    ASSUME CoreInv, PollStep
    PROVE  CoreInv' /\ PollStore
<1>1. /\ UNCHANGED <<venue, trades, requests, killSwitch, reconciliation>>
      /\ UNCHANGED calls /\ UNCHANGED review
  BY DEF PollStep, PollTrades, PollOrders, ProcessNext, venueVars,
         readinessVars
<1>2. VenueKeeps /\ VenueTyped' /\ ReadyTyped' /\ TradesTyped'
  BY <1>1, TradesKept DEF CoreInv, VenueTyped, ReadyTyped, VenueKeeps
<1>3. CASE PollTrades \/ PollOrders
  <2>1. UNCHANGED storeVars
    BY <1>3 DEF PollTrades, PollOrders
  <2>2. PollStore /\ StoreTyped' /\ RowsStay
    BY <2>1 DEF storeVars, PollStore, Ignored, CoreInv, StoreTyped, RowsStay,
                Exists
  <2> QED
    BY <1>1, <1>2, <1>3, <2>2, PollTradesInv, PollOrdersInv, ReviewKept,
       CallsKept, DisciplineStays, FiniteKept DEF CoreInv
<1>4. CASE ProcessNext
  <2>1. inbox \in Seq(Genuine) /\ inbox # << >>
    BY <1>4 DEF ProcessNext, CoreInv, PollTyped
  <2>2. /\ inbox[1] \in Reports /\ 1 \in DOMAIN inbox /\ Head(inbox) = inbox[1]
        /\ Tail(inbox) \in Seq(Genuine)
    <3>1. /\ inbox[1] \in Genuine /\ 1 \in DOMAIN inbox
          /\ Head(inbox) = inbox[1] /\ Tail(inbox) \in Seq(Genuine)
      BY <2>1, HeadTailProperties, LenProperties, ElementOfSeq
    <3> QED
      BY <3>1 DEF Genuine
  <2>3. ProcessUpdate(inbox[1]) /\ inbox' = Tail(inbox)
        /\ UNCHANGED <<knownTrades, since, polling>>
    BY <1>4, <2>2 DEF ProcessNext
  <2>4. StoreTyped' /\ RowsStay
        /\ (Ignored \/ MovesStatus(inbox[1]) \/ MovesFill(inbox[1]))
    BY <2>2, <2>3, ProcessLemma DEF CoreInv
  <2>5. PollTyped'
    <3>1. Genuine' = Genuine
      BY <1>1 DEF Genuine, ReportsTrade
    <3> QED
      BY <1>1, <2>2, <2>3, <3>1 DEF CoreInv, PollTyped
  <2>6. PollStore
    BY <2>2, <2>4 DEF PollStore
  <2> QED
    BY <1>1, <1>2, <2>4, <2>5, <2>6, ReviewKept, CallsKept, DisciplineStays,
       FiniteKept DEF CoreInv
<1> QED
  BY <1>3, <1>4 DEF PollStep

-----------------------------------------------------------------------------
(* The invariant holds *)

\* What the host has polled and not yet processed.
LEMMA InboxFacts ==
    ASSUME CoreInv, NEW n \in DOMAIN inbox
    PROVE  /\ inbox[n] \in Reports
           /\ IsFill(inbox[n]) => \E t \in trades : ReportsTrade(inbox[n], t)
<1>1. inbox[n] \in Genuine
  BY ElementOfSeq, LenProperties DEF CoreInv, PollTyped
<1> QED
  BY <1>1 DEF Genuine

\* The invariant holds of empty tables.
LEMMA CoreInit ==
    ASSUME Init
    PROVE  CoreInv
<1> USE DEF Init
<1>1. StoreTyped
  BY DEF StoreInit, StoreTyped, Exists
<1>2. ReadyTyped
  BY DEF ReadinessInit, ReadyTyped
<1>3. VenueTyped
  BY DEF VenueInit, VenueTyped
<1>4. VenueFinite
  <2>1. {c \in ClientIds : venue[c] # None} = {}
    BY DEF VenueInit
  <2> QED
    BY <2>1, FS_EmptySet DEF VenueFinite
<1>5. TradesTyped
  BY FS_EmptySet DEF VenueInit, TradesTyped
<1>6. \A p \in Callers : calls[p].pc = "idle"
  BY DEF GatewayInit, Idle
<1>7. CallsTyped
  BY <1>6 DEF GatewayInit, CallsTyped, Call, InMemory
<1>8. PollTyped
  <2>1. << >> \in Seq(Genuine)
    OBVIOUS
  <2>2. /\ inbox = << >> /\ since = 0 /\ knownTrades = {} /\ polling = FALSE
    BY DEF PollerInit
  <2>3. /\ inbox \in Seq(Genuine) /\ knownTrades \subseteq Executions
        /\ since \in {0} \cup {Instant[t.id] + 1 : t \in trades}
        /\ polling \in BOOLEAN
    BY <2>1, <2>2
  <2> QED
    BY <2>3 DEF PollTyped
<1>9. ReviewTyped
  BY DEF ReviewInit, ReviewTyped, ReviewIdle
<1>10. Discipline
  BY <1>6 DEF VenueInit, Discipline, At
<1> QED
  BY <1>1, <1>2, <1>3, <1>4, <1>5, <1>7, <1>8, <1>9, <1>10 DEF CoreInv

\* Every step keeps it.
LEMMA CoreStep ==
    ASSUME CoreInv, [Next]_vars
    PROVE  CoreInv'
BY StepCases, GatewayInv, PollInv, ReviewInv, CancelInv, MarketInv, SwitchInv,
   CrashInv

\* It always holds.
LEMMA CoreAlways == Spec => []CoreInv
<1>1. Init => CoreInv
  BY CoreInit
<1>2. CoreInv /\ [Next]_vars => CoreInv'
  BY CoreStep
<1> QED
  BY <1>1, <1>2, PTL DEF Spec

(* The types of the trading core: the tables, the calls in progress, the   *)
(* venue, the poller and the reconciliation hold what their program points *)
(* say, and no order is filled beyond its quantity at the venue.           *)
THEOREM TypesHold == Spec => []TypeOK
<1>1. CoreInv => TypeOK
  <2> SUFFICES ASSUME CoreInv PROVE TypeOK
    OBVIOUS
  <2>1. Ledger!TypeOK
    BY DEF Ledger!TypeOK, Ledger!Exists, Ledger!Lifecycle, Ledger!Status,
           Ledger!EventKinds, Lifecycle, Status, Entry, EventKinds, Keys,
           Exists, CoreInv, StoreTyped
  <2>2. \A n \in DOMAIN inbox : inbox[n] \in Reports
    BY InboxFacts
  <2>3. \A c \in ClientIds : venue[c] # None => venue[c] \in VenueOrder
    BY DEF CoreInv, VenueTyped
  <2> QED
    BY <2>1, <2>2, <2>3
    DEF TypeOK, CoreInv, ReadyTyped, VenueTyped, TradesTyped, CallsTyped,
        PollTyped, ReviewTyped
<1> QED
  BY <1>1, CoreAlways, PTL

(* OrderGateway.submit saves the order before it asks the broker: whatever *)
(* is at the venue, or on its way, has a row that a restart finds.         *)
THEOREM RowBeforeRequest == Spec => []WriteAhead
<1>1. CoreInv => WriteAhead
  BY DEF CoreInv, Discipline, WriteAhead
<1> QED
  BY <1>1, CoreAlways, PTL

(* No client order id is sent twice: not by callers that race for it, not  *)
(* after an unknown outcome, not after a crash.                            *)
THEOREM NeverSentTwice == Spec => []SentOnce
<1>1. CoreInv => SentOnce
  BY DEF CoreInv, Discipline, SentOnce
<1> QED
  BY <1>1, CoreAlways, PTL

-----------------------------------------------------------------------------
(* SentAfterReconciliation *)

\* Until a reconciliation was recorded, no snapshot finds positions
\* reconciled, no call gets past its guard and nothing is sent.
Unreconciled ==
    /\ \A p \in Callers :
          \/ At(p, "idle")
          \/ At(p, "ready") /\ ~ calls[p].snapshot.positions
    /\ \A c \in ClientIds : requests[c] = 0

Reconciled == reconciliation = None => Unreconciled

\* The first order past the guard comes after the first recorded
\* reconciliation.
LEMMA ReconciledStep ==
    ASSUME CoreInv, Reconciled, [Next]_vars
    PROVE  Reconciled'
<1> USE DEF At
<1> SUFFICES ASSUME reconciliation' = None PROVE Unreconciled'
  BY DEF Reconciled
<1>1. /\ reconciliation' = reconciliation \/ Record
      /\ CallsTyped /\ requests \in [ClientIds -> Nat]
  BY StepCases
  DEF CoreInv, VenueTyped, GatewayStep, EvaluateReadiness, BeginFails, Begin,
      Continue, SaveRiskRejection, ClientIdTaken, SaveSubmitting, AskBroker,
      SaveOutcome, PollStep, ReviewStep, FetchPositions, ContinueReview,
      ReadLocal, FetchOpenOrders, ResolveUnknown, CancelStep, MarketStep,
      SwitchStep, SetKillSwitch, CrashStep, StutterStep, readinessVars
<1>2. ~ Record
  <2> DEFINE a == review.localPositions = review.brokerPositions
             b == Ids(review.localOrders) = Ids(review.brokerOrders)
  <2>1. a \in BOOLEAN /\ b \in BOOLEAN
    OBVIOUS
  <2>2. Record => reconciliation' = [positionsMatch |-> a, ordersMatch |-> b]
    BY DEF Record
  <2> HIDE DEF a, b
  <2> QED
    BY <2>1, <2>2, ReconciliationAssumption
<1>3. reconciliation = None /\ Unreconciled
  BY <1>1, <1>2 DEF Reconciled
<1>4. ASSUME NEW p \in Callers, GatewayStep(p)
      PROVE  Unreconciled'
  <2>1. calls[p].pc = "ready" => ~ calls[p].snapshot.positions
    BY <1>3 DEF Unreconciled
  <2>2. calls[p].pc \in {"idle", "ready"}
    BY <1>3 DEF Unreconciled
  <2>3. ASSUME NEW x, calls' = [calls EXCEPT ![p] = x], requests' = requests,
               \/ x.pc = "idle"
               \/ x.pc = "ready" /\ ~ x.snapshot.positions
        PROVE  Unreconciled'
    BY <1>1, <1>3, <2>3 DEF Unreconciled, CallsTyped
  <2>4. ASSUME NEW i \in Intents, EvaluateReadiness(p, i)
        PROVE  Unreconciled'
    <3> DEFINE x == [Idle EXCEPT !.pc = "ready", !.intent = i,
                                 !.snapshot = EvaluatedReadiness]
    <3>1. x.pc = "ready" /\ x.snapshot = EvaluatedReadiness
      BY DEF Idle
    <3>2. ~ EvaluatedReadiness.positions
      BY <1>3 DEF EvaluatedReadiness
    <3>3. calls' = [calls EXCEPT ![p] = x] /\ requests' = requests
      BY <2>4 DEF EvaluateReadiness, venueVars
    <3> HIDE DEF x
    <3> QED
      BY <2>3, <3>1, <3>2, <3>3
  <2>5. ASSUME BeginFails(p)
        PROVE  Unreconciled'
    <3>1. Idle.pc = "idle" /\ calls' = [calls EXCEPT ![p] = Idle]
          /\ requests' = requests
      BY <2>5 DEF BeginFails, Return, Idle, venueVars
    <3> QED
      BY <1>1, <1>3, <3>1 DEF Unreconciled, CallsTyped
  <2>6. ~ \E approved \in BOOLEAN : Begin(p, approved)
    BY <2>1 DEF Begin, ExposureAllowed
  <2>7. ~ Continue(p)
    BY <2>2
    DEF Continue, SaveRiskRejection, ClientIdTaken, SaveSubmitting, AskBroker,
        SaveOutcome
  <2> QED
    BY <1>4, <2>4, <2>5, <2>6, <2>7 DEF GatewayStep
<1>5. CASE UNCHANGED <<calls, requests>>
  BY <1>3, <1>5 DEF Unreconciled
<1>6. CASE CrashStep
  BY <1>3, <1>6 DEF CrashStep, Unreconciled, Idle, venueVars
<1> QED
  BY <1>4, <1>5, <1>6, StepCases
  DEF PollStep, PollTrades, PollOrders, ProcessNext, ReviewStep,
      FetchPositions, ContinueReview, ReadLocal, FetchOpenOrders,
      ResolveUnknown, Record, CancelStep, MarketStep, VenueFill, VenueClose,
      SwitchStep, StutterStep, venueVars

(* Nothing is sent before the account was reconciled once: the readiness   *)
(* guard of OrderGateway.submit reads a snapshot that is as old as the     *)
(* caller likes, but no snapshot taken before has positions reconciled.    *)
THEOREM NothingSentBlindly == Spec => []SentAfterReconciliation
<1>1. Init => Reconciled
  BY DEF Init, GatewayInit, VenueInit, Idle, At, Reconciled, Unreconciled
<1>2. CoreInv /\ Reconciled /\ [Next]_vars => Reconciled'
  BY ReconciledStep
<1>3. CoreInv /\ Reconciled => SentAfterReconciliation
  BY DEF CoreInv, VenueTyped, Reconciled, Unreconciled,
         SentAfterReconciliation
<1> QED
  BY <1>1, <1>2, <1>3, CoreAlways, PTL DEF Spec

-----------------------------------------------------------------------------
(* The journal *)

\* Positions and claims do not move, and the journal gains no fill.
Still == JournalQuiet /\ UNCHANGED <<positions, claimedExecutions>>

\* A step applies one polled execution, or moves no position.
LEMMA StepEffect ==
    ASSUME CoreInv, [Next]_vars
    PROVE  Still \/ \E n \in DOMAIN inbox : PollStep /\ MovesFill(inbox[n])
<1>1. ASSUME UNCHANGED <<positions, claimedExecutions, journal>>
      PROVE  Still
  BY <1>1, JournalUnchanged DEF Still
<1>2. ASSUME NEW p \in Callers, GatewayStep(p)
      PROVE  Still
  BY <1>2, GatewayStore DEF Still
<1>3. CASE PollStep
  BY <1>1, <1>3, PollInv DEF PollStore, Ignored, MovesStatus, Still
<1>4. CASE \/ ReviewStep \/ SwitchStep \/ CrashStep \/ StutterStep
           \/ \E c \in Cancellable : CancelStep(c)
           \/ \E c \in ClientIds : MarketStep(c)
  BY <1>1, <1>4
  DEF ReviewStep, FetchPositions, ContinueReview, ReadLocal, FetchOpenOrders,
      ResolveUnknown, Record, CancelStep, MarketStep, SwitchStep, CrashStep,
      StutterStep, storeVars
<1> QED
  BY <1>2, <1>3, <1>4, StepCases

\* What a fill of the inbox is.
LEMMA FillFacts ==
    ASSUME CoreInv, NEW n \in DOMAIN inbox, MovesFill(inbox[n])
    PROVE  /\ inbox[n] \in Reports
           /\ inbox[n].order \in ClientIds /\ inbox[n].book \in Books
           /\ orders[inbox[n].order] \in Lifecycle
           /\ orders[inbox[n].order].intent.side * inbox[n].quantity \in Int
           /\ inbox[n].execution \in Executions
<1>1. inbox[n] \in Reports
  BY InboxFacts
<1>2. /\ inbox[n].order \in ClientIds /\ inbox[n].book \in Books
      /\ inbox[n].quantity \in Nat /\ inbox[n].execution \in Executions
  BY <1>1, ReportFacts DEF MovesFill
<1>3. orders[inbox[n].order] \in Lifecycle
  BY <1>2 DEF MovesFill, Moves, CoreInv, StoreTyped, Exists
<1>4. orders[inbox[n].order].intent.side \in {1, -1}
  BY <1>3, LifecycleFacts
<1>5. 1 * inbox[n].quantity \in Int /\ (-1) * inbox[n].quantity \in Int
  BY <1>2
<1> QED
  BY <1>1, <1>2, <1>3, <1>4, <1>5

\* Every step keeps the two properties of the journal.
LEMMA JournalStep ==
    ASSUME CoreInv, ExecutionsCountedOnce, JournalReplaysPositions, [Next]_vars
    PROVE  ExecutionsCountedOnce' /\ JournalReplaysPositions'
<1>1. CASE Still
  BY <1>1, CountedOnceQuiet, ReplayQuiet DEF Still
<1>2. ASSUME NEW n \in DOMAIN inbox, MovesFill(inbox[n])
      PROVE  ExecutionsCountedOnce' /\ JournalReplaysPositions'
  <2> DEFINE u == inbox[n]
             q == orders[u.order].intent.side * u.quantity
             e == FillEvent(u, orders[u.order])
  <2>1. /\ JournalFill(Len(journal) + 1, e)
        /\ positions' = [positions EXCEPT ![u.book] = @ + q]
        /\ claimedExecutions' = claimedExecutions \cup {u.execution}
        /\ u.execution \notin claimedExecutions
    BY <1>2 DEF MovesFill
  <2>2. /\ e.execution = u.execution /\ e.book = u.book /\ e.quantity = q
        /\ e.position = positions[u.book] + q
    BY DEF FillEvent
  <2>3. q \in Int /\ u.book \in Books /\ positions \in [Books -> Int]
    BY <1>2, FillFacts DEF CoreInv, StoreTyped
  <2> HIDE DEF e, q
  <2>4. ExecutionsCountedOnce'
    BY <2>1, <2>2, CountedOnceFill
  <2>5. JournalReplaysPositions'
    BY <2>1, <2>2, <2>3, ReplayFill
  <2> QED
    BY <2>4, <2>5
<1> QED
  BY <1>1, <1>2, StepEffect

\* They always hold.
LEMMA JournalAlways ==
    Spec => [](ExecutionsCountedOnce /\ JournalReplaysPositions)
<1>1. Init => ExecutionsCountedOnce /\ JournalReplaysPositions
  BY CountedOnceInit, ReplayInit DEF Init, StoreInit
<1>2. /\ CoreInv /\ ExecutionsCountedOnce /\ JournalReplaysPositions
      /\ [Next]_vars
      => (ExecutionsCountedOnce /\ JournalReplaysPositions)'
  BY JournalStep
<1> QED
  BY <1>1, <1>2, CoreAlways, PTL DEF Spec

(* However polls, submissions, reconciliations and crashes interleave, an  *)
(* execution is applied once and claimed only with its effect.             *)
THEOREM CountedOnceUnderOverlap == Spec => []ExecutionsCountedOnce
BY JournalAlways, PTL

(* However they interleave, the audit journal reproduces the positions.    *)
THEOREM ReplayUnderOverlap == Spec => []JournalReplaysPositions
BY JournalAlways, PTL

-----------------------------------------------------------------------------
(* PositionIsItsTrades *)

\* Someone takes i for the intent of order c: its row, unless it says that
\* the order was rejected, the venue, a caller that sends it or has sent it,
\* or a reconciliation that has read the row.
Claim(c, i) ==
    \/ Exists(c) /\ StatusOf(c) # "REJECTED" /\ orders[c].intent = i
    \/ venue[c] # None /\ venue[c].intent = i
    \/ \E p \in Callers : /\ At(p, "sending") \/ At(p, "answered")
                          /\ calls[p].intent = i /\ i.clientId = c
    \/ \E l \in review.localOrders : l.intent = i /\ i.clientId = c

\* They all mean the same intent, although callers may use one client id for
\* different intents.
OneIntent ==
    \A c \in ClientIds : \A i, j \in Intents : Claim(c, i) /\ Claim(c, j) => i = j

\* A claim is on an order that has a row.
LEMMA ClaimFacts ==
    ASSUME CoreInv, NEW c \in ClientIds, NEW i, Claim(c, i)
    PROVE  Exists(c) /\ i.clientId = c
<1>1. CASE Exists(c) /\ orders[c].intent = i
  BY <1>1 DEF CoreInv, StoreTyped
<1>2. CASE venue[c] # None /\ venue[c].intent = i
  BY <1>2 DEF CoreInv, VenueTyped, Discipline
<1>3. ASSUME NEW p \in Callers, At(p, "sending") \/ At(p, "answered"),
             calls[p].intent = i, i.clientId = c
      PROVE  Exists(c)
  BY <1>3 DEF CoreInv, Discipline, Client
<1>4. ASSUME NEW l \in review.localOrders, l.intent = i, i.clientId = c
      PROVE  Exists(c)
  BY <1>4 DEF CoreInv, ReviewTyped
<1> QED
  BY <1>1, <1>2, <1>3, <1>4 DEF Claim

\* An accepted update leaves a rejected order as it is.
LEMMA RejectedStays ==
    ASSUME NEW l \in Lifecycle, NEW u \in Reports, UpdateAccepted(l, u),
           l.status = "REJECTED"
    PROVE  ~ IsFill(u) /\ ApplyUpdate(l, u) = l
<1>1. "REJECTED" \in Terminal
  BY DEF Terminal
<1>2. \A t : CanTransition(l, t) => t = "REJECTED"
  BY <1>1, TerminalLemma DEF CanTransition
<1>3. FillTarget(l, u) # "REJECTED"
  BY DEF FillTarget
<1> QED
  BY <1>2, <1>3 DEF UpdateAccepted, FillAccepted, ApplyUpdate, Transition

\* A row that is rewritten by a status or a fill keeps its claim.
LEMMA MovedClaim ==
    ASSUME CoreInv, NEW u \in Reports, Moves(u), NEW c \in ClientIds,
           Exists(c)', orders'[c].status # "REJECTED"
    PROVE  /\ Exists(c) /\ StatusOf(c) # "REJECTED"
           /\ orders'[c].intent = orders[c].intent
<1> DEFINE l == orders[u.order]
<1>1. /\ u \in UpdateShape(Keys, Executions) /\ WellFormed(u)
      /\ u.order \in ClientIds
  BY ReportFacts
<1>2. /\ Exists(u.order) /\ UpdateAccepted(l, u) /\ l \in Lifecycle
      /\ \A d \in ClientIds :
            orders'[d] = IF d = u.order THEN ApplyUpdate(l, u) ELSE orders[d]
  BY <1>1 DEF Moves, CoreInv, StoreTyped, Exists
<1>3. CASE c # u.order
  BY <1>2, <1>3 DEF Exists, StatusOf
<1>4. CASE c = u.order
  <2>1. ApplyUpdate(l, u).intent = l.intent
    BY <1>1, <1>2, ApplyUpdateLemma
  <2>2. l.status # "REJECTED"
    BY <1>2, <1>4, RejectedStays
  <2> QED
    BY <1>2, <1>4, <2>1, <2>2 DEF StatusOf
<1> QED
  BY <1>3, <1>4

\* A step adds no claim, except that a caller begins to send an order nobody
\* has a claim on.
LEMMA ClaimStep ==
    ASSUME CoreInv, [Next]_vars, NEW c \in ClientIds
    PROVE  \/ \A i : Claim(c, i)' => Claim(c, i)
           \/ \E j : /\ \A i : Claim(c, i)' => i = j
                     /\ ~ Exists(c)
<1> USE DEF At
<1>1. /\ CoreInv'
      /\ StoreTyped /\ VenueTyped /\ CallsTyped /\ ReviewTyped
  BY CoreStep DEF CoreInv
<1>2. ASSUME NEW i, Claim(c, i)', UNCHANGED review, UNCHANGED venue,
             ~ \E p \in Callers :
                  /\ calls'[p].pc \in {"sending", "answered"}
                  /\ calls'[p] # calls[p],
             Exists(c)' /\ StatusOf(c)' # "REJECTED" /\ orders'[c].intent = i
                => Claim(c, i)
      PROVE  Claim(c, i)
  BY <1>2 DEF Claim
<1>3. ASSUME NEW p \in Callers, GatewayStep(p)
      PROVE  \/ \A i : Claim(c, i)' => Claim(c, i)
             \/ \E j : (\A i : Claim(c, i)' => i = j) /\ ~ Exists(c)
  <2>1. UNCHANGED review /\ calls \in [Callers -> Call] /\ Idle.pc = "idle"
    BY <1>1, <1>3 DEF GatewayStep, CallsTyped, Idle
  <2>2. ASSUME NEW x, calls' = [calls EXCEPT ![p] = x],
               x.pc \notin {"sending", "answered"}, UNCHANGED venue,
               \A i : Exists(c)' /\ StatusOf(c)' # "REJECTED"
                         /\ orders'[c].intent = i => Claim(c, i)
        PROVE  \A i : Claim(c, i)' => Claim(c, i)
    <3>1. ~ \E q \in Callers : /\ calls'[q].pc \in {"sending", "answered"}
                               /\ calls'[q] # calls[q]
      BY <2>1, <2>2
    <3> QED
      BY <1>2, <2>1, <2>2, <3>1
  <2>3. ASSUME UNCHANGED orders, NEW i, Exists(c)' /\ StatusOf(c)' # "REJECTED"
                                        /\ orders'[c].intent = i
        PROVE  Claim(c, i)
    BY <2>3 DEF Claim, Exists, StatusOf
  <2>4. CASE BeginFails(p) \/ ClientIdTaken(p)
    <3>1. calls' = [calls EXCEPT ![p] = Idle] /\ UNCHANGED <<orders, venue>>
      BY <2>4 DEF BeginFails, ClientIdTaken, Return, storeVars, venueVars
    <3> QED
      BY <2>1, <2>2, <2>3, <3>1
  <2>5. ASSUME NEW i \in Intents, EvaluateReadiness(p, i)
        PROVE  \A j : Claim(c, j)' => Claim(c, j)
    <3> DEFINE x == [Idle EXCEPT !.pc = "ready", !.intent = i,
                                 !.snapshot = EvaluatedReadiness]
    <3>1. x.pc = "ready" /\ calls' = [calls EXCEPT ![p] = x]
          /\ UNCHANGED <<orders, venue>>
      BY <2>5 DEF EvaluateReadiness, Idle, storeVars, venueVars
    <3> HIDE DEF x
    <3> QED
      BY <2>2, <2>3, <3>1
  <2>6. ASSUME NEW approved \in BOOLEAN, Begin(p, approved)
        PROVE  \A j : Claim(c, j)' => Claim(c, j)
    <3> DEFINE x == [calls[p] EXCEPT
                  !.pc = IF approved THEN "approved" ELSE "riskRefused",
                  !.lifecycle = IF approved THEN Submitting(calls[p].intent)
                                ELSE RiskRejected(calls[p].intent)]
    <3>1. calls' = [calls EXCEPT ![p] = x] /\ UNCHANGED <<orders, venue>>
      BY <2>6 DEF Begin, storeVars, venueVars
    <3>2. x.pc \in {"approved", "riskRefused"}
      BY <1>1, CallFacts
    <3> HIDE DEF x
    <3> QED
      BY <2>2, <2>3, <3>1, <3>2
  <2>7. CASE SaveRiskRejection(p) \/ SaveOutcome(p)
    <3> DEFINE l == calls[p].lifecycle
    <3>1. /\ SaveOrder(l) /\ calls' = [calls EXCEPT ![p] = Idle]
          /\ UNCHANGED venue
          /\ calls[p].pc \in {"riskRefused", "answered"}
          /\ SaveRiskRejection(p) => calls[p].pc = "riskRefused"
      BY <2>7 DEF SaveRiskRejection, SaveOutcome, Return, venueVars
    <3>2. l \in Lifecycle /\ l.intent = calls[p].intent
      BY <1>1, <3>1, CallFacts
    <3>3. \A d \in ClientIds :
             orders'[d] = IF d = l.intent.clientId THEN l ELSE orders[d]
      BY <1>1, <3>1, <3>2, SaveOrderLemma
    <3>4. CASE calls[p].pc = "answered"
      <4>1. ASSUME NEW i, Exists(c)' /\ StatusOf(c)' # "REJECTED"
                          /\ orders'[c].intent = i
            PROVE  Claim(c, i)
        <5>1. CASE c = l.intent.clientId
          BY <3>2, <3>3, <3>4, <4>1, <5>1 DEF Claim
        <5>2. CASE c # l.intent.clientId
          BY <3>3, <4>1, <5>2 DEF Claim, Exists, StatusOf
        <5> QED
          BY <5>1, <5>2
      <4> QED
        BY <2>1, <2>2, <3>1, <4>1
    <3>5. CASE calls[p].pc = "riskRefused"
      <4>1. l.status = "REJECTED"
        <5>1. calls[p].intent \in Intents /\ InMemory(calls[p])
          BY <1>1, <3>5, CallFacts
        <5>2. l = RiskRejected(calls[p].intent)
          BY <3>5, <5>1 DEF InMemory
        <5> QED
          BY <5>1, <5>2, NewLifecycleLemma
      <4>2. ASSUME NEW i, Exists(c)' /\ StatusOf(c)' # "REJECTED"
                          /\ orders'[c].intent = i
            PROVE  Claim(c, i)
        BY <3>3, <4>1, <4>2 DEF Claim, Exists, StatusOf
      <4> QED
        BY <2>1, <2>2, <3>1, <4>2
    <3> QED
      BY <3>1, <3>4, <3>5
  <2>8. CASE SaveSubmitting(p)
    <3> DEFINE x == [calls[p] EXCEPT !.pc = "sending"]
    <3>1. /\ calls' = [calls EXCEPT ![p] = x] /\ UNCHANGED venue
          /\ calls[p].pc = "approved" /\ ~ Exists(Client(p))
          /\ SaveOrder(calls[p].lifecycle)
      BY <2>8 DEF SaveSubmitting, Goto, venueVars, Client
    <3>2. /\ calls[p].lifecycle \in Lifecycle
          /\ calls[p].lifecycle.intent = calls[p].intent
          /\ Client(p) \in ClientIds
      BY <1>1, <3>1, CallFacts
    <3>3. x.intent = calls[p].intent /\ x.pc = "sending"
      BY <1>1, <2>1 DEF Call, Idle
    <3> HIDE DEF x
    <3>4. \A d \in ClientIds :
             orders'[d] = IF d = Client(p) THEN calls[p].lifecycle
                          ELSE orders[d]
      BY <1>1, <3>1, <3>2, SaveOrderLemma DEF Client
    <3>5. \A q \in Callers : calls'[q] = IF q = p THEN x ELSE calls[q]
      BY <2>1, <3>1
    <3>6. CASE c = Client(p)
      <4>1. \A i : ~ Claim(c, i)
        BY <3>1, <3>6, ClaimFacts
      <4>2. ASSUME NEW i, Claim(c, i)' PROVE i = calls[p].intent
        <5>1. /\ ~ (venue[c] # None /\ venue[c].intent = i)
              /\ ~ \E l \in review.localOrders : l.intent = i /\ i.clientId = c
              /\ ~ \E q \in Callers : /\ calls[q].pc \in {"sending", "answered"}
                                      /\ calls[q].intent = i /\ i.clientId = c
          BY <4>1 DEF Claim
        <5>2. orders'[c].intent = calls[p].intent
          BY <3>2, <3>4, <3>6
        <5>3. venue' = venue /\ review' = review
          BY <2>1, <3>1
        <5>4. CASE orders'[c].intent = i
          BY <5>2, <5>4
        <5>5. ASSUME NEW q \in Callers, calls'[q].pc \in {"sending", "answered"},
                     calls'[q].intent = i, i.clientId = c
              PROVE  i = calls[p].intent
          <6>1. CASE q = p
            BY <3>3, <3>5, <5>5, <6>1
          <6>2. CASE q # p
            <7>1. calls'[q] = calls[q]
              BY <3>5, <6>2
            <7> QED
              BY <5>1, <5>5, <7>1
          <6> QED
            BY <6>1, <6>2
        <5>6. \/ orders'[c].intent = i
              \/ venue'[c] # None /\ venue'[c].intent = i
              \/ \E q \in Callers : /\ calls'[q].pc \in {"sending", "answered"}
                                     /\ calls'[q].intent = i /\ i.clientId = c
              \/ \E l \in review'.localOrders : l.intent = i /\ i.clientId = c
          BY <4>2 DEF Claim
        <5> QED
          BY <5>1, <5>3, <5>4, <5>5, <5>6
      <4> QED
        BY <3>1, <3>6, <4>2
    <3>7. CASE c # Client(p)
      <4>1. ASSUME NEW i, Claim(c, i)' PROVE Claim(c, i)
        <5>1. Client(p) = calls[p].intent.clientId
          BY DEF Client
        <5>2. orders'[c] = orders[c]
          BY <3>4, <3>7
        <5> QED
          BY <2>1, <3>1, <3>3, <3>5, <3>7, <4>1, <5>1, <5>2
          DEF Claim, Exists, StatusOf
      <4> QED
        BY <4>1
    <3> QED
      BY <3>6, <3>7
  <2>9. ASSUME NEW outcome \in Outcomes, AskBroker(p, outcome)
        PROVE  \A i : Claim(c, i)' => Claim(c, i)
    <3>1. /\ calls[p].pc = "sending" /\ UNCHANGED orders
          /\ \A q \in Callers : q # p => calls'[q] = calls[q]
      BY <2>1, <2>9 DEF AskBroker, Return, storeVars
    <3>2. calls'[p].pc \in {"sending", "answered"} =>
             calls'[p].intent = calls[p].intent
      BY <2>1, <2>9 DEF AskBroker, Return, Idle, Call
    <3>3. venue'[c] # None /\ venue[c] = None =>
             /\ c = calls[p].intent.clientId
             /\ venue'[c].intent = calls[p].intent
      BY <1>1, <2>9 DEF AskBroker, Receive, VenueTyped
    <3>4. venue[c] # None => venue'[c] = venue[c]
      BY <1>3, GatewayVenue
    <3>5. ASSUME NEW i, Claim(c, i)' PROVE Claim(c, i)
      BY <2>1, <3>1, <3>2, <3>3, <3>4, <3>5 DEF Claim, Exists, StatusOf
    <3> QED
      BY <3>5
  <2> QED
    BY <1>3, <2>4, <2>5, <2>6, <2>7, <2>8, <2>9 DEF GatewayStep, Continue
<1>4. ASSUME UNCHANGED <<calls, review, venue>>,
             \A i : Exists(c)' /\ StatusOf(c)' # "REJECTED"
                      /\ orders'[c].intent = i => Claim(c, i)
      PROVE  \A i : Claim(c, i)' => Claim(c, i)
  BY <1>2, <1>4
<1>5. ASSUME UNCHANGED orders, NEW i, Exists(c)' /\ StatusOf(c)' # "REJECTED"
                                      /\ orders'[c].intent = i
      PROVE  Claim(c, i)
  BY <1>5 DEF Claim, Exists, StatusOf
<1>6. CASE PollStep
  <2>1. UNCHANGED <<calls, review, venue>>
    BY <1>6 DEF PollStep, PollTrades, PollOrders, ProcessNext, venueVars
  <2>2. UNCHANGED orders \/ \E u \in Reports : Moves(u)
    <3>1. \A n \in DOMAIN inbox : inbox[n] \in Reports
      BY InboxFacts
    <3> QED
      BY <1>6, <3>1, PollInv DEF PollStore, Ignored, MovesStatus, MovesFill
  <2>3. ASSUME NEW u \in Reports, Moves(u), NEW i, Exists(c)',
               StatusOf(c)' # "REJECTED", orders'[c].intent = i
        PROVE  Claim(c, i)
    BY <2>3, MovedClaim DEF Claim, StatusOf
  <2> QED
    BY <1>4, <1>5, <2>1, <2>2, <2>3
<1>7. CASE ReviewStep
  <2>1. UNCHANGED <<calls, venue>>
    BY <1>7 DEF ReviewStep, FetchPositions, ContinueReview, ReadLocal,
                FetchOpenOrders, ResolveUnknown, Record, venueVars
  <2>2. ASSUME NEW i, Exists(c)' /\ StatusOf(c)' # "REJECTED"
                      /\ orders'[c].intent = i
        PROVE  Claim(c, i)
    <3>1. CASE ResolveUnknown
      <4>1. CASE orders'[c] = orders[c]
        BY <2>2, <4>1 DEF Claim, Exists, StatusOf
      <4>2. ASSUME NEW l \in review.localOrders, Provable(l),
                   l.intent.clientId = c, orders'[c] = Resolution(l)
            PROVE  Claim(c, i)
        BY <1>1, <2>2, <4>2, ResolutionLemma DEF Claim
      <4> QED
        BY <1>1, <3>1, <4>1, <4>2, ResolveLemma
    <3>2. CASE UNCHANGED storeVars
      BY <1>5, <2>2, <3>2 DEF storeVars
    <3> QED
      BY <1>7, <3>1, <3>2 DEF ReviewStep, FetchPositions, ContinueReview,
                              ReadLocal, FetchOpenOrders, Record
  <2>3. ASSUME NEW l \in review'.localOrders, l.intent.clientId = c
        PROVE  Claim(c, l.intent)
    <3>1. CASE l \in review.localOrders
      BY <2>3, <3>1 DEF Claim
    <3>2. CASE ReadLocal
      <4>1. PICK d \in ClientIds :
               Exists(d) /\ StatusOf(d) \notin Terminal /\ l = orders[d]
        BY <1>1, <2>3, <3>2 DEF ReadLocal, ReviewTyped
      <4>2. d = c /\ StatusOf(c) # "REJECTED"
        BY <1>1, <2>3, <4>1 DEF StoreTyped, Terminal
      <4> QED
        BY <4>1, <4>2 DEF Claim
    <3>3. CASE FetchPositions \/ Record
      <4>1. review'.localOrders = {}
        <5>1. CASE FetchPositions
          <6> DEFINE a == [ReviewIdle EXCEPT !.pc = "readLocal"]
          <6>1. review' = [a EXCEPT !.brokerPositions =
                             [b \in Books |-> VenuePosition(b)]]
            BY <5>1 DEF FetchPositions
          <6>2. a = [pc |-> "readLocal", brokerPositions |-> None,
                     localPositions |-> None, localOrders |-> {},
                     brokerOrders |-> {}]
            BY DEF ReviewIdle
          <6> HIDE DEF a
          <6> QED
            BY <6>1, <6>2
        <5>2. CASE Record
          BY <5>2 DEF Record, ReviewIdle
        <5> QED
          BY <3>3, <5>1, <5>2
      <4> QED
        BY <2>3, <4>1
    <3>4. CASE FetchOpenOrders \/ ResolveUnknown
      <4>1. review'.localOrders = review.localOrders
        BY <1>1, <3>4 DEF FetchOpenOrders, ResolveUnknown, ReviewTyped
      <4> QED
        BY <2>3, <3>1, <4>1
    <3> QED
      BY <1>7, <3>2, <3>3, <3>4 DEF ReviewStep, ContinueReview
  <2>4. ASSUME NEW i, Claim(c, i)' PROVE Claim(c, i)
    BY <2>1, <2>2, <2>3, <2>4 DEF Claim
  <2> QED
    BY <2>4
<1>8. ASSUME NEW d \in Cancellable, CancelStep(d)
      PROVE  \A i : Claim(c, i)' => Claim(c, i)
  <2> DEFINE l == RequestCancel(orders[d])
  <2>1. /\ UNCHANGED <<calls, review, venue>> /\ SaveOrder(l)
        /\ Exists(d) /\ d \in ClientIds /\ orders[d].status # "REJECTED"
    BY <1>8, CoreAssumption DEF CancelStep, CanRequestCancel, venueVars
  <2>2. orders[d] \in Lifecycle /\ orders[d].intent.clientId = d
    BY <1>1, <2>1 DEF StoreTyped, Exists
  <2>3. l \in Lifecycle /\ l.intent = orders[d].intent
    BY <2>2, TransitionLemma DEF RequestCancel, Status
  <2> HIDE DEF l
  <2>4. orders'[c] = IF c = d THEN l ELSE orders[c]
    BY <1>1, <2>1, <2>2, <2>3, SaveOrderLemma
  <2>5. ASSUME NEW i, Exists(c)' /\ StatusOf(c)' # "REJECTED"
                      /\ orders'[c].intent = i
        PROVE  Claim(c, i)
    BY <2>1, <2>3, <2>4, <2>5 DEF Claim, Exists, StatusOf
  <2> QED
    BY <1>4, <2>1, <2>5
<1>9. ASSUME NEW d \in ClientIds, MarketStep(d)
      PROVE  \A i : Claim(c, i)' => Claim(c, i)
  <2>1. UNCHANGED <<orders, calls, review>>
    BY <1>9 DEF MarketStep, storeVars
  <2>2. venue'[c] # None => venue[c] # None /\ venue'[c].intent = venue[c].intent
    BY <1>9, MarketInv DEF VenueKeeps
  <2> QED
    BY <2>1, <2>2 DEF Claim, Exists, StatusOf
<1>10. CASE SwitchStep \/ StutterStep
  BY <1>4, <1>5, <1>10 DEF SwitchStep, StutterStep, storeVars, venueVars
<1>11. CASE CrashStep
  BY <1>11 DEF CrashStep, Idle, ReviewIdle, storeVars, venueVars, Claim, Exists,
               StatusOf
<1> QED
  BY <1>3, <1>6, <1>7, <1>8, <1>9, <1>10, <1>11, StepCases

\* Every step keeps one intent per order.
LEMMA OneIntentStep ==
    ASSUME CoreInv, OneIntent, [Next]_vars
    PROVE  OneIntent'
<1> SUFFICES ASSUME NEW c \in ClientIds, NEW i \in Intents, NEW j \in Intents,
                    Claim(c, i)', Claim(c, j)'
             PROVE  i = j
  BY DEF OneIntent
<1> QED
  BY ClaimStep DEF OneIntent

\* At first nobody claims anything.
LEMMA OneIntentInit ==
    ASSUME Init
    PROVE  OneIntent
<1> SUFFICES ASSUME NEW c \in ClientIds, NEW i \in Intents
             PROVE  ~ Claim(c, i)
  BY DEF OneIntent
<1> QED
  BY DEF Init, StoreInit, VenueInit, GatewayInit, ReviewInit, ReviewIdle, Idle,
         Claim, Exists, At

\* A step forgets no order and no trade of the venue, and a new trade has a
\* new identifier.
LEMMA VenueForward ==
    ASSUME CoreInv, [Next]_vars
    PROVE  /\ VenueKeeps /\ trades \subseteq trades'
           /\ \A t \in trades' \ trades : t.id = Cardinality(trades) + 1
<1>1. ASSUME UNCHANGED <<venue, trades>>
      PROVE  /\ VenueKeeps /\ trades \subseteq trades'
             /\ \A t \in trades' \ trades : t.id = Cardinality(trades) + 1
  BY <1>1 DEF VenueKeeps
<1>2. ASSUME NEW p \in Callers, GatewayStep(p)
      PROVE  VenueKeeps /\ trades' = trades
  BY <1>2, GatewayVenue, GatewayStore DEF VenueKeeps
<1>3. CASE PollStep \/ ReviewStep
  BY <1>1, <1>3
  DEF PollStep, PollTrades, PollOrders, ProcessNext, ReviewStep, FetchPositions,
      ContinueReview, ReadLocal, FetchOpenOrders, ResolveUnknown, Record,
      venueVars
<1>4. CASE \/ SwitchStep \/ CrashStep \/ StutterStep
           \/ \E c \in Cancellable : CancelStep(c)
  BY <1>1, <1>4 DEF SwitchStep, CrashStep, StutterStep, CancelStep, venueVars
<1> QED
  BY <1>2, <1>3, <1>4, StepCases, MarketInv

\* What a trade adds to the position of its book.
LEMMA SignedFacts ==
    ASSUME CoreInv, NEW t \in trades
    PROVE  /\ t.order \in ClientIds /\ venue[t.order] # None
           /\ venue[t.order].intent \in Intents
           /\ venue[t.order].intent.book \in Books
           /\ t.quantity \in Nat /\ Signed(t) \in Int
<1>1. /\ t.order \in ClientIds /\ venue[t.order] # None
      /\ venue[t.order] \in VenueOrder /\ t.quantity \in Nat
  BY DEF CoreInv, TradesTyped, VenueTyped, Trade
<1>2. /\ venue[t.order].intent.side \in {1, -1}
      /\ venue[t.order].intent \in Intents
      /\ venue[t.order].intent.book \in Books
  BY <1>1, VenueOrderFacts
<1>3. \A k \in Nat : 1 * k \in Int /\ (-1) * k \in Int
  OBVIOUS
<1> QED
  BY <1>1, <1>2, <1>3 DEF Signed

\* While no execution is claimed, none is applied: a new trade is unclaimed.
LEMMA AppliedStays ==
    ASSUME CoreInv, claimedExecutions = {t.id : t \in Applied}, [Next]_vars,
           UNCHANGED claimedExecutions
    PROVE  Applied' = Applied
<1>1. /\ trades \subseteq trades'
      /\ \A t \in trades' \ trades : t.id = Cardinality(trades) + 1
  BY VenueForward
<1>2. Cardinality(trades) \in Nat /\ \A t \in trades : t.id <= Cardinality(trades)
                                                      /\ t.id \in Nat
  BY FS_CardinalityType, FetchAssumption
  DEF CoreInv, TradesTyped, Trade, Executions
<1>3. ASSUME NEW t \in trades' \ trades PROVE t.id \notin claimedExecutions
  <2>1. t.id = Cardinality(trades) + 1
    BY <1>1
  <2>2. \A x \in claimedExecutions : x \in Nat /\ x <= Cardinality(trades)
    BY <1>2 DEF Applied
  <2> QED
    BY <1>2, <2>1, <2>2
<1> QED
  BY <1>1, <1>3 DEF Applied

\* Nothing applied: the venue may trade on.
LEMMA PositionStays ==
    ASSUME CoreInv, PositionIsItsTrades, [Next]_vars,
           UNCHANGED <<positions, claimedExecutions>>
    PROVE  PositionIsItsTrades'
<1>1. /\ trades \subseteq trades' /\ VenueKeeps
      /\ \A t \in trades' \ trades : t.id = Cardinality(trades) + 1
  BY VenueForward
<1>2. \A t \in trades : t.order \in ClientIds /\ venue[t.order] # None
                        /\ venue'[t.order].intent = venue[t.order].intent
  BY <1>1, SignedFacts DEF VenueKeeps
<1>3. Applied' = Applied
  BY AppliedStays DEF PositionIsItsTrades
<1>4. Applied \subseteq trades
  BY DEF Applied
<1>5. ASSUME NEW b \in Books
      PROVE  positions'[b] =
                SumFunctionOnSet([t \in AppliedIn(b) |-> Signed(t)],
                                 AppliedIn(b))'
  <2>1. AppliedIn(b)' = AppliedIn(b)
    BY <1>2, <1>3, <1>4 DEF AppliedIn
  <2>2. [t \in AppliedIn(b) |-> Signed(t)]' = [t \in AppliedIn(b) |-> Signed(t)]
    <3>1. \A t \in AppliedIn(b) : t \in trades
      BY <1>4 DEF AppliedIn
    <3> QED
      BY <1>2, <2>1, <3>1 DEF Signed
  <2> QED
    BY <2>1, <2>2 DEF PositionIsItsTrades
<1> QED
  BY <1>3, <1>5 DEF PositionIsItsTrades

\* A fill is applied: it is the trade of that number, on the side on which the
\* venue has the order.
LEMMA PositionMoves ==
    ASSUME CoreInv, OneIntent, PositionIsItsTrades, PollStep,
           NEW n \in DOMAIN inbox, MovesFill(inbox[n])
    PROVE  PositionIsItsTrades'
<1> DEFINE u == inbox[n]
           l == orders[u.order]
<1>1. /\ u \in Reports /\ u.order \in ClientIds /\ u.book \in Books
      /\ l \in Lifecycle
  BY FillFacts
<1>2. PICK t \in trades : ReportsTrade(u, t)
  BY InboxFacts DEF MovesFill
<1>3. /\ Exists(u.order) /\ UpdateAccepted(l, u) /\ IsFill(u)
      /\ u.execution \notin claimedExecutions
      /\ positions' = [positions EXCEPT ![u.book] = @ + l.intent.side * u.quantity]
      /\ claimedExecutions' = claimedExecutions \cup {u.execution}
  BY DEF MovesFill, Moves
<1>4. /\ u.execution = t.id /\ u.order = t.order /\ u.quantity = t.quantity
      /\ u.book = venue[t.order].intent.book
  BY <1>2 DEF ReportsTrade
<1>5. UNCHANGED <<venue, trades>>
  BY DEF PollStep, PollTrades, PollOrders, ProcessNext, venueVars
<1> HIDE DEF u, l
<1>6. l.intent = venue[t.order].intent
  <2>1. l.status # "REJECTED"
    BY <1>1, <1>3, RejectedStays
  <2>2. Claim(u.order, l.intent)
    BY <1>3, <2>1 DEF Claim, StatusOf, l
  <2>3. Claim(u.order, venue[t.order].intent)
    BY <1>4, SignedFacts DEF Claim
  <2>4. l.intent \in Intents /\ venue[t.order].intent \in Intents
    BY <1>1, SignedFacts, LifecycleFacts
  <2> QED
    BY <1>1, <2>2, <2>3, <2>4 DEF OneIntent
<1>7. l.intent.side * u.quantity = Signed(t)
  BY <1>4, <1>6 DEF Signed
<1>8. Applied' = Applied \cup {t} /\ t \notin Applied /\ Applied \subseteq trades
  BY <1>3, <1>4, <1>5 DEF Applied, CoreInv, TradesTyped
<1>9. {x.id : x \in Applied'} = {x.id : x \in Applied} \cup {t.id}
  BY <1>8
<1>10. claimedExecutions' = {x.id : x \in Applied'}
  BY <1>3, <1>4, <1>9 DEF PositionIsItsTrades
<1>11. positions \in [Books -> Int]
  BY DEF CoreInv, StoreTyped
<1>12. ASSUME NEW b \in Books
       PROVE  positions'[b] =
                 SumFunctionOnSet([x \in AppliedIn(b) |-> Signed(x)],
                                  AppliedIn(b))'
  <2> DEFINE S == AppliedIn(b)
             T == AppliedIn(b)'
             f == [x \in S |-> Signed(x)]
             g == [x \in T |-> Signed(x)]
  <2>1. g = [x \in AppliedIn(b) |-> Signed(x)]'
    BY <1>5 DEF Signed
  <2>2. /\ IsFiniteSet(S) /\ S \subseteq trades
        /\ \A x \in trades : Signed(x) \in Int
    <3>1. S \subseteq trades
      BY DEF AppliedIn, Applied
    <3> QED
      BY <3>1, SignedFacts, FS_Subset DEF CoreInv, TradesTyped
  <2>3. positions[b] = SumFunctionOnSet(f, S)
    BY DEF PositionIsItsTrades
  <2>4. CASE b # u.book
    <3>1. T = S
      BY <1>4, <1>5, <1>8, <2>4 DEF AppliedIn
    <3>2. positions'[b] = positions[b]
      BY <1>3, <1>11, <2>4
    <3> HIDE DEF S, T, f, g
    <3>3. f = g
      BY <3>1 DEF f, g
    <3> QED
      BY <2>1, <2>3, <3>1, <3>2, <3>3 DEF T
  <2>5. CASE b = u.book
    <3>1. T = S \cup {t} /\ t \notin S
      BY <1>4, <1>5, <1>8, <2>5 DEF AppliedIn
    <3>2. positions'[b] = positions[b] + Signed(t)
      BY <1>3, <1>7, <1>11, <2>5
    <3>3. \A x \in S : f[x] = Signed(x) /\ g[x] = Signed(x)
      BY <3>1
    <3>4. g[t] = Signed(t) /\ t \in trades
      BY <3>1
    <3>5. (\A x \in S : f[x] \in Int /\ g[x] = f[x])
          /\ (\A x \in S \cup {t} : g[x] \in Int)
      BY <2>2, <3>3, <3>4
    <3> HIDE DEF S, T, f, g
    <3>6. SumFunctionOnSet(g, S) = SumFunctionOnSet(f, S)
      BY <2>2, <3>5, SumEqual
    <3>7. SumFunctionOnSet(g, S \cup {t}) = SumFunctionOnSet(g, S) + g[t]
      BY <2>2, <3>1, <3>5, SumAdd
    <3> QED
      BY <2>1, <2>3, <3>1, <3>2, <3>4, <3>6, <3>7 DEF T
  <2> QED
    BY <2>4, <2>5
<1> QED
  BY <1>10, <1>12 DEF PositionIsItsTrades

\* At first there is nothing to sum.
LEMMA PositionInit ==
    ASSUME Init
    PROVE  PositionIsItsTrades
<1>1. Applied = {} /\ claimedExecutions = {} /\ \A b \in Books : positions[b] = 0
  BY DEF Init, StoreInit, VenueInit, Applied
<1>2. {t.id : t \in Applied} = {} /\ \A b : AppliedIn(b) = {}
  BY <1>1 DEF AppliedIn
<1> QED
  BY <1>1, <1>2, SumEmpty DEF PositionIsItsTrades

\* Every order means one intent, and positions are trades.
LEMMA PositionAlways == Spec => [](OneIntent /\ PositionIsItsTrades)
<1>1. Init => OneIntent /\ PositionIsItsTrades
  BY OneIntentInit, PositionInit
<1>2. CoreInv /\ OneIntent /\ PositionIsItsTrades /\ [Next]_vars
         => (OneIntent /\ PositionIsItsTrades)'
  BY OneIntentStep, StepEffect, PositionStays, PositionMoves DEF Still
<1> QED
  BY <1>1, <1>2, CoreAlways, PTL DEF Spec

(* A position is the sum of the executions the venue made and the host     *)
(* applied, whatever overlaps: FillProcessor.process adds an execution     *)
(* with the side of the row it finds, and although callers may race for a  *)
(* client id with different intents and a late rejection may overwrite the *)
(* row, a row that takes fills has the intent that was sent.               *)
THEOREM PositionsAreTrades == Spec => []PositionIsItsTrades
BY PositionAlways, PTL

-----------------------------------------------------------------------------
(* KillSwitchHolds *)

\* A call in state x can send nothing but a reduce-only order.
Calm(x) ==
    \/ x.pc = "idle"
    \/ x.pc = "ready" /\ ~ x.snapshot.clear
    \/ x.pc \notin {"idle", "ready"} /\ x.intent.reduceOnly

\* Order c was sent or is about to be.
Active(c) ==
    requests[c] > 0 \/ \E p \in Callers : At(p, "sending") /\ Client(p) = c

\* The row of order c is reduce-only, and so is every copy of it that a
\* reconciliation may save yet.
Reducing(c) ==
    /\ ReduceOnly(c)
    /\ \A l \in review.localOrders : l.intent.clientId = c => l.intent.reduceOnly

\* The kill switch is set, and what goes out all the same is reduce-only.
Held(c) ==
    /\ ~ killSwitch
    /\ \A p \in Callers : Calm(calls[p])
    /\ Active(c) => Reducing(c)

\* The operator's uses of the switch are counted, and nothing else moves it.
LEMMA SwitchCount ==
    ASSUME [Next]_vars
    PROVE  \/ UNCHANGED <<switches, killSwitch>>
           \/ switches' = switches + 1
BY DEF Next, Evaluate, EvaluateReadiness, StartSubmit, BeginFails, Begin,
       Submit, Continue, SaveRiskRejection, ClientIdTaken, SaveSubmitting,
       AskBroker, SaveOutcome, Poll, Process, StartReview, FetchPositions,
       Review, ContinueReview, ReadLocal, FetchOpenOrders, ResolveUnknown,
       Record, AskCancel, VenueStep, Operate, Crash, countVars, readinessVars,
       vars

\* A saved row of a reduce-only intent leaves order c as reduce-only as it was.
LEMMA ReducingSaved ==
    ASSUME CoreInv, NEW c \in ClientIds, NEW l \in Lifecycle, SaveOrder(l),
           UNCHANGED review, Reducing(c),
           l.intent.clientId = c => l.intent.reduceOnly
    PROVE  Reducing(c)'
<1>1. /\ \A d \in ClientIds :
            orders'[d] = IF d = l.intent.clientId THEN l ELSE orders[d]
      /\ l # None
  BY SaveOrderLemma, NoneAssumption DEF CoreInv
<1> QED
  BY <1>1 DEF Reducing, ReduceOnly, Exists

\* A step of the gateway: no call gets past the guard with an order that is
\* not reduce-only.
LEMMA HeldGateway ==
    ASSUME CoreInv, NEW c \in ClientIds, Held(c), NEW p \in Callers,
           GatewayStep(p)
    PROVE  Held(c)'
<1> USE DEF At
<1>1. /\ UNCHANGED <<review, killSwitch>> /\ ~ killSwitch
      /\ calls \in [Callers -> Call] /\ CallsTyped /\ Calm(calls[p])
      /\ Idle.pc = "idle" /\ Calm(Idle) /\ requests \in [ClientIds -> Nat]
  BY GatewayStore
  DEF GatewayStep, CoreInv, CallsTyped, VenueTyped, Held, Calm, Idle,
      readinessVars
<1>2. ASSUME NEW x, calls' = [calls EXCEPT ![p] = x], Calm(x),
             Active(c)' => Reducing(c)'
      PROVE  Held(c)'
  BY <1>1, <1>2 DEF Held
<1>3. ASSUME NEW x, calls' = [calls EXCEPT ![p] = x], x.pc # "sending",
             UNCHANGED requests, Active(c)'
      PROVE  Active(c)
  BY <1>1, <1>3 DEF Active, Client
<1>4. ASSUME UNCHANGED orders, Active(c)
      PROVE  Reducing(c)'
  BY <1>1, <1>4 DEF Held, Reducing, ReduceOnly, Exists
<1>5. ASSUME NEW i \in Intents, EvaluateReadiness(p, i)
      PROVE  Held(c)'
  <2> DEFINE x == [Idle EXCEPT !.pc = "ready", !.intent = i,
                               !.snapshot = EvaluatedReadiness]
  <2>1. x.pc = "ready" /\ x.snapshot = EvaluatedReadiness
    BY DEF Idle
  <2>2. ~ EvaluatedReadiness.clear
    BY <1>1 DEF EvaluatedReadiness
  <2>3. calls' = [calls EXCEPT ![p] = x] /\ UNCHANGED <<orders, requests>>
    BY <1>5 DEF EvaluateReadiness, venueVars, storeVars
  <2> HIDE DEF x
  <2>4. Calm(x)
    BY <2>1, <2>2 DEF Calm
  <2> QED
    BY <1>2, <1>3, <1>4, <2>1, <2>3, <2>4
<1>6. CASE BeginFails(p) \/ ClientIdTaken(p)
  <2>1. calls' = [calls EXCEPT ![p] = Idle] /\ UNCHANGED <<orders, requests>>
    BY <1>6 DEF BeginFails, ClientIdTaken, Return, venueVars, storeVars
  <2> QED
    BY <1>1, <1>2, <1>3, <1>4, <2>1
<1>7. ASSUME NEW approved \in BOOLEAN, Begin(p, approved)
      PROVE  Held(c)'
  <2> DEFINE x == [calls[p] EXCEPT
                !.pc = IF approved THEN "approved" ELSE "riskRefused",
                !.lifecycle = IF approved THEN Submitting(calls[p].intent)
                              ELSE RiskRejected(calls[p].intent)]
  <2>1. calls' = [calls EXCEPT ![p] = x] /\ UNCHANGED <<orders, requests>>
    BY <1>7 DEF Begin, venueVars, storeVars
  <2>2. x.pc \in {"approved", "riskRefused"} /\ x.intent = calls[p].intent
    BY <1>1, CallFacts
  <2>3. calls[p].intent.reduceOnly
    BY <1>1, <1>7 DEF Begin, ExposureAllowed, Calm
  <2> HIDE DEF x
  <2>4. Calm(x)
    BY <2>2, <2>3 DEF Calm
  <2> QED
    BY <1>2, <1>3, <1>4, <2>1, <2>2, <2>4
<1>8. CASE SaveRiskRejection(p) \/ SaveOutcome(p)
  <2> DEFINE l == calls[p].lifecycle
  <2>1. /\ SaveOrder(l) /\ calls' = [calls EXCEPT ![p] = Idle]
        /\ UNCHANGED requests /\ calls[p].pc \in {"riskRefused", "answered"}
    BY <1>8 DEF SaveRiskRejection, SaveOutcome, Return, venueVars
  <2>2. l \in Lifecycle /\ l.intent.reduceOnly
    BY <1>1, <2>1, CallFacts DEF Calm
  <2> HIDE DEF l
  <2>3. Active(c) => Reducing(c)'
    BY <1>1, <2>1, <2>2, ReducingSaved DEF Held
  <2> QED
    BY <1>1, <1>2, <1>3, <2>1, <2>3
<1>9. CASE SaveSubmitting(p)
  <2> DEFINE x == [calls[p] EXCEPT !.pc = "sending"]
             l == calls[p].lifecycle
  <2>1. /\ calls' = [calls EXCEPT ![p] = x] /\ UNCHANGED requests
        /\ calls[p].pc = "approved" /\ ~ Exists(Client(p)) /\ SaveOrder(l)
    BY <1>9 DEF SaveSubmitting, Goto, venueVars, Client
  <2>2. /\ l \in Lifecycle /\ l.intent = calls[p].intent
        /\ Client(p) \in ClientIds /\ l.intent.reduceOnly
    BY <1>1, <2>1, CallFacts DEF Calm
  <2>3. x.intent = calls[p].intent /\ x.pc = "sending"
    BY <1>1 DEF Call, Idle
  <2> HIDE DEF x, l
  <2>4. Calm(x)
    BY <2>2, <2>3 DEF Calm
  <2>5. CASE c # Client(p)
    <3>1. Active(c)' => Active(c)
      BY <1>1, <2>1, <2>3, <2>5 DEF Active, Client
    <3>2. Active(c) => Reducing(c)'
      BY <1>1, <2>1, <2>2, ReducingSaved DEF Held
    <3> QED
      BY <1>2, <2>1, <2>4, <3>1, <3>2
  <2>6. CASE c = Client(p)
    <3>1. /\ orders'[c] = l /\ l # None
      BY <2>1, <2>2, <2>6, SaveOrderLemma, NoneAssumption DEF CoreInv, Client
    <3>2. \A k \in review.localOrders : k.intent.clientId # c
      BY <2>1, <2>6 DEF CoreInv, ReviewTyped
    <3>3. Reducing(c)'
      BY <1>1, <2>2, <3>1, <3>2 DEF Reducing, ReduceOnly, Exists
    <3> QED
      BY <1>2, <2>1, <2>4, <3>3
  <2> QED
    BY <2>5, <2>6
<1>10. ASSUME NEW outcome \in Outcomes, AskBroker(p, outcome)
       PROVE  Held(c)'
  <2>1. /\ calls[p].pc = "sending" /\ UNCHANGED orders
        /\ Client(p) \in ClientIds /\ calls[p].intent.reduceOnly
    BY <1>1, <1>10, CallFacts DEF AskBroker, storeVars, Calm
  <2>2. /\ \A q \in Callers : q # p => calls'[q] = calls[q]
        /\ calls'[p].pc \in {"idle", "answered"}
        /\ calls'[p].pc = "answered" => calls'[p].intent = calls[p].intent
    BY <1>1, <1>10 DEF AskBroker, Return, Idle, Call
  <2>3. requests' = [requests EXCEPT ![Client(p)] = @ + 1]
    BY <1>10 DEF AskBroker, CountRequest, Client
  <2>4. \A q \in Callers : Calm(calls'[q])
    BY <2>1, <2>2 DEF Held, Calm
  <2>5. Active(c)' => Active(c)
    <3>1. CASE c = Client(p)
      BY <2>1, <3>1 DEF Active
    <3>2. CASE c # Client(p)
      <4>1. requests'[c] = requests[c]
        BY <1>1, <2>1, <2>3, <3>2
      <4> QED
        BY <2>2, <4>1 DEF Active, Client
    <3> QED
      BY <3>1, <3>2
  <2> QED
    BY <1>1, <1>4, <2>1, <2>4, <2>5 DEF Held
<1> QED
  BY <1>5, <1>6, <1>7, <1>8, <1>9, <1>10 DEF GatewayStep, Continue

\* The other actors: they start no submission, and keep the intents of rows.
LEMMA HeldElsewhere ==
    ASSUME CoreInv, NEW c \in ClientIds, Held(c), [Next]_vars,
           UNCHANGED killSwitch, \A p \in Callers : ~ GatewayStep(p)
    PROVE  Held(c)'
<1> USE DEF At
<1>1. StoreTyped /\ ReviewTyped
  BY DEF CoreInv
<1>2. ASSUME UNCHANGED <<calls, requests>>, Reducing(c) => Reducing(c)'
      PROVE  Held(c)'
  BY <1>2 DEF Held, Active, Client
<1>3. ASSUME UNCHANGED <<orders, review>>
      PROVE  Reducing(c) => Reducing(c)'
  BY <1>3 DEF Reducing, ReduceOnly, Exists
<1>4. CASE PollStep
  <2>1. UNCHANGED <<calls, requests, review>>
    BY <1>4 DEF PollStep, PollTrades, PollOrders, ProcessNext, venueVars
  <2>2. UNCHANGED orders \/ \E u \in Reports : Moves(u)
    <3>1. \A n \in DOMAIN inbox : inbox[n] \in Reports
      BY InboxFacts
    <3> QED
      BY <1>4, <3>1, PollInv DEF PollStore, Ignored, MovesStatus, MovesFill
  <2>3. ASSUME NEW u \in Reports, Moves(u), Reducing(c)
        PROVE  Reducing(c)'
    <3> DEFINE l == orders[u.order]
    <3>1. /\ u \in UpdateShape(Keys, Executions) /\ WellFormed(u)
          /\ u.order \in ClientIds
      BY ReportFacts
    <3>2. /\ UpdateAccepted(l, u) /\ l \in Lifecycle
          /\ \A d \in ClientIds :
                orders'[d] = IF d = u.order THEN ApplyUpdate(l, u) ELSE orders[d]
      BY <1>1, <2>3, <3>1 DEF Moves, StoreTyped, Exists
    <3>3. /\ ApplyUpdate(l, u).intent = l.intent
          /\ ApplyUpdate(l, u) \in Lifecycle
      BY <3>1, <3>2, ApplyUpdateLemma
    <3> QED
      BY <2>1, <2>3, <3>2, <3>3, NoneAssumption DEF Reducing, ReduceOnly, Exists
  <2> QED
    BY <1>2, <1>3, <2>1, <2>2, <2>3
<1>5. CASE ReviewStep
  <2>1. UNCHANGED <<calls, requests>>
    BY <1>5 DEF ReviewStep, FetchPositions, ContinueReview, ReadLocal,
                FetchOpenOrders, ResolveUnknown, Record, venueVars
  <2>2. CASE ResolveUnknown
    <3>1. review'.localOrders = review.localOrders
      BY <1>1, <2>2 DEF ResolveUnknown, ReviewTyped
    <3>2. ASSUME NEW l \in review.localOrders, Provable(l),
                 l.intent.clientId = c, orders'[c] = Resolution(l),
                 Reducing(c)
          PROVE  ReduceOnly(c)'
      BY <1>1, <3>2, ResolutionLemma, NoneAssumption
      DEF Reducing, ReduceOnly, Exists
    <3>3. Reducing(c) => ReduceOnly(c)'
      BY <1>1, <2>2, <3>2, ResolveLemma DEF Reducing, ReduceOnly, Exists
    <3> QED
      BY <1>2, <2>1, <3>1, <3>3 DEF Reducing
  <2>3. CASE ReadLocal
    <3>1. UNCHANGED orders
      BY <2>3 DEF ReadLocal, storeVars
    <3>2. \A l \in review'.localOrders : \E d \in ClientIds :
             Exists(d) /\ l = orders[d]
      BY <1>1, <2>3 DEF ReadLocal, ReviewTyped
    <3>3. \A l \in review'.localOrders :
             l.intent.clientId = c => Exists(c) /\ l = orders[c]
      BY <1>1, <3>2 DEF StoreTyped
    <3> QED
      BY <1>2, <2>1, <3>1, <3>3 DEF Reducing, ReduceOnly, Exists
  <2>4. CASE FetchOpenOrders
    <3>1. review'.localOrders = review.localOrders /\ UNCHANGED orders
      BY <1>1, <2>4 DEF FetchOpenOrders, ReviewTyped, storeVars
    <3> QED
      BY <1>2, <2>1, <3>1 DEF Reducing, ReduceOnly, Exists
  <2>5. CASE FetchPositions \/ Record
    <3>1. UNCHANGED orders
      BY <2>5 DEF FetchPositions, Record, storeVars
    <3>2. review'.localOrders = {}
      <4>1. CASE FetchPositions
        <5> DEFINE a == [ReviewIdle EXCEPT !.pc = "readLocal"]
        <5>1. review' = [a EXCEPT !.brokerPositions =
                           [b \in Books |-> VenuePosition(b)]]
          BY <4>1 DEF FetchPositions
        <5>2. a = [pc |-> "readLocal", brokerPositions |-> None,
                   localPositions |-> None, localOrders |-> {},
                   brokerOrders |-> {}]
          BY DEF ReviewIdle
        <5> HIDE DEF a
        <5> QED
          BY <5>1, <5>2
      <4>2. CASE Record
        BY <4>2 DEF Record, ReviewIdle
      <4> QED
        BY <2>5, <4>1, <4>2
    <3> QED
      BY <1>2, <2>1, <3>1, <3>2 DEF Reducing, ReduceOnly, Exists
  <2> QED
    BY <1>5, <2>2, <2>3, <2>4, <2>5 DEF ReviewStep, ContinueReview
<1>6. ASSUME NEW d \in Cancellable, CancelStep(d)
      PROVE  Held(c)'
  <2> DEFINE l == RequestCancel(orders[d])
  <2>1. /\ UNCHANGED <<calls, review, requests>> /\ SaveOrder(l)
        /\ Exists(d) /\ d \in ClientIds
    BY <1>6, CoreAssumption DEF CancelStep, venueVars
  <2>2. orders[d] \in Lifecycle /\ orders[d].intent.clientId = d
    BY <1>1, <2>1 DEF StoreTyped, Exists
  <2>3. l \in Lifecycle /\ l.intent = orders[d].intent
    BY <2>2, TransitionLemma DEF RequestCancel, Status
  <2> HIDE DEF l
  <2>4. Reducing(c) => Reducing(c)'
    BY <2>1, <2>2, <2>3, ReducingSaved DEF Reducing, ReduceOnly
  <2> QED
    BY <1>2, <2>1, <2>4
<1>7. ASSUME NEW d \in ClientIds, MarketStep(d)
      PROVE  Held(c)'
  <2>1. UNCHANGED <<calls, requests, orders, review>>
    BY <1>7 DEF MarketStep, VenueFill, VenueClose, storeVars
  <2> QED
    BY <1>2, <1>3, <2>1
<1>8. CASE StutterStep
  <2>1. UNCHANGED <<calls, requests, orders, review>>
    BY <1>8 DEF StutterStep, storeVars, venueVars
  <2> QED
    BY <1>2, <1>3, <2>1
<1>9. ~ SwitchStep
  BY DEF SwitchStep, SetKillSwitch, CoreInv, ReadyTyped
<1>10. CASE CrashStep
  <2>1. /\ UNCHANGED <<requests, orders>> /\ review'.localOrders = {}
        /\ \A p \in Callers : calls'[p].pc = "idle"
    BY <1>10 DEF CrashStep, ReviewIdle, Idle, storeVars, venueVars
  <2> QED
    BY <2>1 DEF Held, Calm, Active, Client, Reducing, ReduceOnly, Exists
<1> QED
  BY <1>4, <1>5, <1>6, <1>7, <1>8, <1>9, <1>10, StepCases

\* The operator has used the switch again, or order c is still held back.
HeldSince(c, n) ==
    \/ switches > n
    \/ /\ switches = n
       /\ Held(c)

\* What is held once is held until the switch is used again.
LEMMA HeldFrom ==
    ASSUME NEW c \in ClientIds, NEW n \in Nat
    PROVE  Spec => []((Stopped(c) /\ switches = n) =>
                      [](switches = n => requests[c] = 0 \/ ReduceOnly(c)))
<1>1. Init => switches \in Nat
  BY DEF Init
<1>2. switches \in Nat /\ [Next]_vars => (switches \in Nat)'
  BY SwitchCount
<1>3. CoreInv /\ Stopped(c) /\ switches = n => HeldSince(c, n)
  BY DEF Stopped, HeldSince, Held, Calm, Active, Idle, At, CoreInv, VenueTyped
<1>4. CoreInv /\ switches \in Nat /\ HeldSince(c, n) /\ [Next]_vars
      => HeldSince(c, n)'
  <2> SUFFICES ASSUME CoreInv, switches \in Nat, HeldSince(c, n), [Next]_vars
               PROVE  HeldSince(c, n)'
    OBVIOUS
  <2>1. CASE switches' = switches + 1
    BY <2>1 DEF HeldSince
  <2>2. CASE UNCHANGED <<switches, killSwitch>> /\ switches > n
    BY <2>2 DEF HeldSince
  <2>3. CASE UNCHANGED <<switches, killSwitch>> /\ switches = n /\ Held(c)
    <3>1. Held(c)'
      BY <2>3, HeldGateway, HeldElsewhere
    <3> QED
      BY <2>3, <3>1 DEF HeldSince
  <2> QED
    BY <2>1, <2>2, <2>3, SwitchCount DEF HeldSince
<1>5. CoreInv /\ HeldSince(c, n) => (switches = n => requests[c] = 0 \/ ReduceOnly(c))
  BY DEF HeldSince, Held, Active, Reducing, CoreInv, VenueTyped
<1> QED
  BY <1>1, <1>2, <1>3, <1>4, <1>5, CoreAlways, PTL DEF Spec

(* Once the kill switch is set while no caller holds an earlier snapshot,  *)
(* nothing but reduce-only orders goes out until the operator uses the     *)
(* switch again: the guard of OrderGateway.submit lets no other order of   *)
(* a later snapshot past, and no row is overwritten by a lifecycle of      *)
(* another intent that would hide what was sent.                           *)
THEOREM KillSwitchStops == Spec => KillSwitchHolds
<1>1. ASSUME NEW c \in ClientIds, NEW n \in 0..MaxSwitches
      PROVE  Spec => []((Stopped(c) /\ switches = n) =>
                        [](switches = n => requests[c] = 0 \/ ReduceOnly(c)))
  BY HeldFrom, CoreAssumption
<1> QED
  BY <1>1 DEF KillSwitchHolds

-----------------------------------------------------------------------------
(* Where a row comes from *)

\* Caller p has a lifecycle in memory that it may save.
Saves(p) == calls[p].pc \in {"approved", "riskRefused", "answered"}

\* What may stand in the row of order c after a step.
RowStays(c) == orders'[c] = orders[c]
RowSaved(c) ==
    \E p \in Callers :
       Saves(p) /\ Client(p) = c /\ orders'[c] = calls[p].lifecycle
RowResolved(c) ==
    /\ review.pc = "resolve"
    /\ \E l \in review.localOrders :
          Provable(l) /\ l.intent.clientId = c /\ orders'[c] = Resolution(l)
RowCancels(c) ==
    /\ Exists(c) /\ CanRequestCancel(orders[c])
    /\ orders'[c] = RequestCancel(orders[c])
RowMoves(c) ==
    \E n \in DOMAIN inbox :
       /\ inbox[n].order = c
       /\ MovesStatus(inbox[n]) \/ MovesFill(inbox[n])
       /\ orders'[c] = ApplyUpdate(orders[c], inbox[n])

\* A row stays, or it is written by one of the five.
LEMMA RowStep ==
    ASSUME CoreInv, [Next]_vars, NEW c \in ClientIds
    PROVE  \/ RowStays(c) \/ RowSaved(c) \/ RowResolved(c) \/ RowCancels(c)
           \/ RowMoves(c)
<1>1. ASSUME NEW p \in Callers, GatewayStep(p)
      PROVE  RowStays(c) \/ RowSaved(c)
  <2>1. ASSUME SaveOrder(calls[p].lifecycle), Saves(p)
        PROVE  RowStays(c) \/ RowSaved(c)
    <3>1. /\ calls[p].lifecycle \in Lifecycle
          /\ calls[p].lifecycle.intent.clientId = Client(p)
      BY <2>1, CallFacts DEF CoreInv, Saves, Client
    <3>2. \A d \in ClientIds :
             orders'[d] = IF d = Client(p) THEN calls[p].lifecycle ELSE orders[d]
      BY <2>1, <3>1, SaveOrderLemma DEF CoreInv
    <3> QED
      BY <2>1, <3>2 DEF RowStays, RowSaved
  <2> QED
    BY <1>1, <2>1
    DEF GatewayStep, Continue, EvaluateReadiness, BeginFails, Begin,
        SaveRiskRejection, ClientIdTaken, SaveSubmitting, AskBroker,
        SaveOutcome, Saves, storeVars, RowStays, At
<1>2. CASE PollStep
  <2>1. CASE Ignored
    BY <2>1 DEF Ignored, RowStays
  <2>2. ASSUME NEW n \in DOMAIN inbox,
               MovesStatus(inbox[n]) \/ MovesFill(inbox[n])
        PROVE  RowStays(c) \/ RowMoves(c)
    <3>1. inbox[n] \in Reports
      BY InboxFacts
    <3>2. inbox[n].order \in ClientIds
      BY <3>1, ReportFacts
    <3>3. orders' = [orders EXCEPT ![inbox[n].order] =
                       ApplyUpdate(orders[inbox[n].order], inbox[n])]
      BY <2>2 DEF MovesStatus, MovesFill, Moves
    <3> QED
      BY <2>2, <3>2, <3>3 DEF RowStays, RowMoves, CoreInv, StoreTyped
  <2> QED
    BY <1>2, <2>1, <2>2, PollInv DEF PollStore
<1>3. CASE ReviewStep
  <2>1. CASE ResolveUnknown
    BY <2>1, ResolveLemma DEF ResolveUnknown, CoreInv, RowStays, RowResolved
  <2> QED
    BY <1>3, <2>1
    DEF ReviewStep, FetchPositions, ContinueReview, ReadLocal, FetchOpenOrders,
        Record, storeVars, RowStays
<1>4. ASSUME NEW d \in Cancellable, CancelStep(d)
      PROVE  RowStays(c) \/ RowCancels(c)
  <2> DEFINE l == RequestCancel(orders[d])
  <2>1. d \in ClientIds /\ orders[d] \in Lifecycle /\ orders[d].intent.clientId = d
    BY <1>4, CoreAssumption DEF CancelStep, CoreInv, StoreTyped, Exists
  <2>2. l \in Lifecycle /\ l.intent = orders[d].intent
    BY <2>1, TransitionLemma DEF RequestCancel, Status
  <2> HIDE DEF l
  <2>3. SaveOrder(l)
    BY <1>4 DEF CancelStep, l
  <2>4. orders'[c] = IF c = d THEN l ELSE orders[c]
    BY <2>1, <2>2, <2>3, SaveOrderLemma DEF CoreInv
  <2> QED
    BY <1>4, <2>4 DEF CancelStep, RowStays, RowCancels, l
<1>5. CASE \/ SwitchStep \/ CrashStep \/ StutterStep
           \/ \E d \in ClientIds : MarketStep(d)
  BY <1>5 DEF SwitchStep, CrashStep, StutterStep, MarketStep, storeVars, RowStays
<1> QED
  BY <1>1, <1>2, <1>3, <1>4, <1>5, StepCases

\* A reconciliation remembers rows: those it has read, or reads now.
LEMMA ReadStep ==
    ASSUME CoreInv, [Next]_vars
    PROVE  \A l \in review'.localOrders :
              \/ l \in review.localOrders
              \/ UNCHANGED storeVars /\ \E c \in ClientIds : Exists(c) /\ l = orders[c]
<1>1. CASE UNCHANGED review
  BY <1>1
<1>2. CASE review' = ReviewIdle
  BY <1>2 DEF ReviewIdle
<1>3. CASE FetchPositions
  <2> DEFINE a == [ReviewIdle EXCEPT !.pc = "readLocal"]
  <2>1. review' = [a EXCEPT !.brokerPositions = [b \in Books |-> VenuePosition(b)]]
    BY <1>3 DEF FetchPositions
  <2>2. a = [pc |-> "readLocal", brokerPositions |-> None,
             localPositions |-> None, localOrders |-> {}, brokerOrders |-> {}]
    BY DEF ReviewIdle
  <2> HIDE DEF a
  <2>3. review'.localOrders = {}
    BY <2>1, <2>2
  <2> QED
    BY <2>3
<1>4. CASE ReadLocal
  <2>1. /\ UNCHANGED storeVars
        /\ review'.localOrders =
             {orders[c] : c \in
                {d \in ClientIds : Exists(d) /\ StatusOf(d) \notin Terminal}}
    BY <1>4 DEF ReadLocal, CoreInv, ReviewTyped
  <2> QED
    BY <2>1
<1>5. CASE FetchOpenOrders \/ ResolveUnknown
  BY <1>5 DEF FetchOpenOrders, ResolveUnknown, CoreInv, ReviewTyped
<1> QED
  BY <1>1, <1>2, <1>3, <1>4, <1>5, StepCases
  DEF GatewayStep, PollStep, ReviewStep, ContinueReview, Record, CancelStep,
      MarketStep, SwitchStep, CrashStep, StutterStep

-----------------------------------------------------------------------------
(* StatusAgreesWithFills *)

\* Every lifecycle that is stored, or may be saved, agrees with its fills.
RowsSound ==
    /\ \A c \in ClientIds : Exists(c) => RowOK(orders[c])
    /\ \A l \in review.localOrders : RowOK(l)

\* The lifecycles that calls hold do.
LEMMA SavedSound ==
    ASSUME CallsTyped, NEW p \in Callers, Saves(p)
    PROVE  RowOK(calls[p].lifecycle) /\ calls[p].lifecycle.filled = 0
<1> DEFINE i == calls[p].intent
           l == calls[p].lifecycle
<1>1. i \in Intents /\ InMemory(calls[p])
  BY CallFacts DEF Saves
<1>2. RowOK(RiskRejected(i)) /\ RowOK(Submitting(i))
  BY <1>1, NewRowLemma
<1>3. /\ Submitting(i) \in Lifecycle /\ Submitting(i).status = "SUBMITTING"
      /\ Submitting(i).filled = 0 /\ RiskRejected(i).filled = 0
  BY <1>1, NewLifecycleLemma
<1>4. CASE calls[p].pc # "answered"
  BY <1>1, <1>2, <1>3, <1>4 DEF Saves, InMemory
<1>5. ASSUME NEW target \in {"SUBMITTED", "REJECTED", "RECONCILIATION_REQUIRED"},
             NEW id \in BrokerIds \cup {None}, (id # None) <=> (target = "SUBMITTED"),
             l = Transition(Submitting(i), target, id)
      PROVE  RowOK(l) /\ l.filled = 0
  <2>1. target \in Status /\ target \in Unfilled \ {"SUBMITTING"}
    BY DEF Status, Unfilled
  <2>2. RowOK(Transition(Submitting(i), target, id))
    BY <1>2, <1>3, <1>5, <2>1, TransitionRowLemma
  <2>3. Transition(Submitting(i), target, id).filled = 0
    BY <1>3, <2>1, TransitionLemma
  <2> QED
    BY <1>5, <2>2, <2>3
<1> QED
  BY <1>1, <1>4, <1>5 DEF InMemory

\* A resolution turns an unknown outcome into an open order without fills.
LEMMA ResolvedSound ==
    ASSUME ReviewTyped, NEW l \in review.localOrders, RowOK(l), Provable(l)
    PROVE  /\ RowOK(Resolution(l)) /\ Advances(l, Resolution(l))
           /\ Resolution(l).status \in {"SUBMITTED", "ACKNOWLEDGED", "WORKING"}
<1> DEFINE remote == ById(review.brokerOrders, l.intent.clientId)
<1>1. PICK o \in review.brokerOrders : o.intent.clientId = l.intent.clientId
  BY DEF Provable, Ids
<1>2. remote \in review.brokerOrders
  BY <1>1 DEF ById
<1>3. /\ l \in Lifecycle /\ remote \in SeenOrder
      /\ l.status = "RECONCILIATION_REQUIRED"
      /\ remote.filled = l.filled /\ remote.status \in Settling
  BY <1>2 DEF ReviewTyped, Provable
<1> HIDE DEF remote
<1>4. remote.status \in {"SUBMITTED", "ACKNOWLEDGED", "WORKING"}
  BY <1>3 DEF RowOK, Unfilled, SeenOrder, OpenNames, Settling
<1>5. /\ remote.status \in Status /\ remote.status \in Unfilled \ {"SUBMITTING"}
      /\ remote.status # "RECONCILIATION_REQUIRED"
      /\ remote.brokerId \in BrokerIds \cup {None}
  BY <1>3, <1>4 DEF Status, Unfilled, SeenOrder
<1>6. Resolution(l) = Transition(l, remote.status, remote.brokerId)
  BY DEF Resolution, remote
<1> QED
  BY <1>3, <1>4, <1>5, <1>6, TransitionRowLemma, TransitionLemma

\* An applied update leaves a row that agrees with its fills.
LEMMA MovedSound ==
    ASSUME CoreInv, NEW n \in DOMAIN inbox, Moves(inbox[n]),
           RowOK(orders[inbox[n].order])
    PROVE  LET l == orders[inbox[n].order] IN
           RowOK(ApplyUpdate(l, inbox[n])) /\ Advances(l, ApplyUpdate(l, inbox[n]))
<1>1. inbox[n] \in Reports
  BY InboxFacts
<1>2. /\ inbox[n] \in UpdateShape(Keys, Executions) /\ WellFormed(inbox[n])
      /\ inbox[n].order \in ClientIds
  BY <1>1, ReportFacts
<1>3. /\ orders[inbox[n].order] \in Lifecycle
      /\ UpdateAccepted(orders[inbox[n].order], inbox[n])
  BY <1>2 DEF Moves, CoreInv, StoreTyped, Exists
<1> QED
  BY <1>2, <1>3, FillRowLemma, ReportRowLemma

\* Whoever writes a row writes one that agrees with its fills.
LEMMA SoundStep ==
    ASSUME CoreInv, RowsSound, [Next]_vars
    PROVE  RowsSound'
<1>1. ASSUME NEW c \in ClientIds, Exists(c)'
      PROVE  RowOK(orders'[c])
  <2>1. CASE RowStays(c)
    BY <1>1, <2>1 DEF RowStays, RowsSound, Exists
  <2>2. CASE RowSaved(c)
    BY <2>2, SavedSound DEF RowSaved, CoreInv
  <2>3. CASE RowResolved(c)
    BY <2>3, ResolvedSound DEF RowResolved, RowsSound, CoreInv
  <2>4. CASE RowCancels(c)
    <3>1. /\ orders[c] \in Lifecycle /\ RowOK(orders[c])
          /\ "PENDING_CANCEL" \in Status
          /\ CanRequestCancel(orders[c])
          /\ orders'[c] = Transition(orders[c], "PENDING_CANCEL", None)
      BY <2>4 DEF RowCancels, RowsSound, CoreInv, StoreTyped, Exists, Status,
                  RequestCancel
    <3> QED
      BY <3>1, TransitionRowLemma
  <2>5. CASE RowMoves(c)
    <3>1. PICK n \in DOMAIN inbox :
             /\ inbox[n].order = c
             /\ MovesStatus(inbox[n]) \/ MovesFill(inbox[n])
             /\ orders'[c] = ApplyUpdate(orders[c], inbox[n])
      BY <2>5 DEF RowMoves
    <3>2. Moves(inbox[n]) /\ Exists(c)
      BY <3>1 DEF MovesStatus, MovesFill, Moves
    <3> QED
      BY <3>1, <3>2, MovedSound DEF RowsSound
  <2> QED
    BY <2>1, <2>2, <2>3, <2>4, <2>5, RowStep
<1>2. ASSUME NEW l \in review'.localOrders PROVE RowOK(l)
  BY <1>2, ReadStep DEF RowsSound
<1> QED
  BY <1>1, <1>2 DEF RowsSound

\* Stored rows and those in the hands of a reconciliation are always sound.
LEMMA SoundAlways == Spec => []RowsSound
<1>1. Init => RowsSound
  BY DEF Init, StoreInit, ReviewInit, ReviewIdle, RowsSound, Exists
<1>2. CoreInv /\ RowsSound /\ [Next]_vars => RowsSound'
  BY SoundStep
<1> QED
  BY <1>1, <1>2, CoreAlways, PTL DEF Spec

(* A row agrees with its fills although calls overlap: what a late save    *)
(* brings back is stale, but it is a row that was sound when it was read,  *)
(* and a resolution or an update makes a sound row of it.                  *)
THEOREM AgreementUnderOverlap == Spec => []Ledger!StatusAgreesWithFills
<1>1. CoreInv /\ RowsSound => Ledger!StatusAgreesWithFills
  BY DEF Ledger!StatusAgreesWithFills, Ledger!StatusOf, Ledger!Exists, Exists,
         StatusOf, RowsSound, RowOK, Unfilled, CoreInv, StoreTyped
<1> QED
  BY <1>1, CoreAlways, SoundAlways, PTL

-----------------------------------------------------------------------------
(* Fills: a row counts trades that were applied, the venue counts its own. *)

Quantities == [t \in Trade |-> t.quantity]
Filled(S) == SumFunctionOnSet(Quantities, S)
TradesOf(c) == {t \in trades : t.order = c}
AppliedTo(c) == {t \in Applied : t.order = c}

\* Lifecycle l counts no more than what was applied to its order.
Backed(l) == l.filled <= Filled(AppliedTo(l.intent.clientId))

\* The venue's orders count their trades, and close when they are filled.
VenueCounts ==
    \A c \in ClientIds : venue[c] # None =>
       /\ venue[c].filled = Filled(TradesOf(c))
       /\ Working(c) => venue[c].filled < venue[c].intent.quantity

\* So do the rows, and what a reconciliation has read of them.
RowsBacked ==
    /\ \A c \in ClientIds : Exists(c) => Backed(orders[c])
    /\ \A l \in review.localOrders : Backed(l)

\* Sums over sets of trades.
LEMMA FilledFacts ==
    ASSUME TradesTyped, NEW S \in SUBSET trades
    PROVE  /\ IsFiniteSet(S) /\ Filled(S) \in Nat
           /\ \A t \in S : Quantities[t] = t.quantity /\ t.quantity \in Nat \ {0}
           /\ \A R \in SUBSET S : Filled(R) <= Filled(S)
<1>1. IsFiniteSet(S)
  BY FS_Subset DEF TradesTyped
<1>2. \A t \in S : /\ t \in Trade /\ Quantities[t] = t.quantity
                   /\ t.quantity \in Nat \ {0}
  BY DEF TradesTyped, Trade, Quantities
<1> HIDE DEF Quantities
<1>3. Filled(S) \in Nat
  BY <1>1, <1>2, SumNat DEF Filled
<1>4. ASSUME NEW R \in SUBSET S PROVE Filled(R) <= Filled(S)
  BY <1>1, <1>2, SumSubset DEF Filled
<1> QED
  BY <1>1, <1>2, <1>3, <1>4

\* One trade more.
LEMMA FilledAdd ==
    ASSUME NEW S, IsFiniteSet(S), NEW t, t \notin S, S \cup {t} \subseteq Trade
    PROVE  Filled(S \cup {t}) = Filled(S) + t.quantity
<1>1. /\ \A x \in S \cup {t} : Quantities[x] \in Int
      /\ Quantities[t] = t.quantity
  BY DEF Trade, Quantities
<1> HIDE DEF Quantities
<1> QED
  BY <1>1, SumAdd DEF Filled

\* The venue side of a step that is not the market's: orders come without a
\* fill, and none changes.
LEMMA VenueElsewhere ==
    ASSUME CoreInv, [Next]_vars
    PROVE  \/ \E c \in ClientIds : MarketStep(c)
           \/ /\ trades' = trades
              /\ \A c \in ClientIds :
                    \/ venue'[c] = venue[c]
                    \/ /\ venue[c] = None /\ venue'[c] # None
                       /\ venue'[c].filled = 0 /\ venue'[c].status = "WORKING"
<1>1. ASSUME NEW p \in Callers, GatewayStep(p)
      PROVE  /\ trades' = trades
             /\ \A c \in ClientIds :
                   \/ venue'[c] = venue[c]
                   \/ /\ venue[c] = None /\ venue'[c] # None
                      /\ venue'[c].filled = 0 /\ venue'[c].status = "WORKING"
  <2>1. trades' = trades
    BY <1>1, GatewayStore
  <2>2. CASE UNCHANGED venue
    BY <2>1, <2>2
  <2>3. ASSUME NEW outcome \in Outcomes, AskBroker(p, outcome)
        PROVE  \A c \in ClientIds :
                   \/ venue'[c] = venue[c]
                   \/ /\ venue[c] = None /\ venue'[c] # None
                      /\ venue'[c].filled = 0 /\ venue'[c].status = "WORKING"
    <3> DEFINE i == calls[p].intent
               o == [intent |-> i, brokerId |-> FreshBrokerId,
                     status |-> "WORKING", filled |-> 0]
    <3>1. venue[Client(p)] = None /\ Client(p) \in ClientIds
      BY <2>3, SendingLemma DEF AskBroker
    <3>2. venue' = venue \/ venue' = [venue EXCEPT ![Client(p)] = o]
      BY <2>3 DEF AskBroker, Receive, Client
    <3>3. o.filled = 0 /\ o.status = "WORKING"
      OBVIOUS
    <3> HIDE DEF o
    <3>4. \A c \in ClientIds : \/ venue'[c] = venue[c]
                               \/ c = Client(p) /\ venue'[c] = o
      BY <3>1, <3>2 DEF CoreInv, VenueTyped
    <3>5. venue' \in [ClientIds -> VenueOrder \cup {None}]
      BY <1>1, GatewayVenue DEF VenueTyped
    <3>6. CASE venue' = venue
      BY <3>6
    <3>7. CASE venue' = [venue EXCEPT ![Client(p)] = o]
      <4>1. o # None
        <5>1. o = [intent |-> i, brokerId |-> FreshBrokerId,
                   status |-> "WORKING", filled |-> 0]
          BY DEF o
        <5>2. i \in Intents /\ FreshBrokerId \in BrokerIds
          BY <2>3, SendingLemma, CallFacts DEF AskBroker, CoreInv, At
        <5>3. o \in VenueOrder
          BY <5>1, <5>2 DEF VenueOrder
        <5> QED
          BY <5>3, VenueOrderFacts
      <4> QED
        BY <3>1, <3>3, <3>4, <4>1
    <3> QED
      BY <3>2, <3>6, <3>7
  <2> QED
    BY <1>1, <2>1, <2>2, <2>3
    DEF GatewayStep, Continue, EvaluateReadiness, BeginFails, Begin,
        SaveRiskRejection, ClientIdTaken, SaveSubmitting, SaveOutcome, venueVars
<1>2. CASE \/ PollStep \/ ReviewStep \/ SwitchStep \/ CrashStep \/ StutterStep
           \/ \E c \in Cancellable : CancelStep(c)
  BY <1>2
  DEF PollStep, PollTrades, PollOrders, ProcessNext, ReviewStep, FetchPositions,
      ContinueReview, ReadLocal, FetchOpenOrders, ResolveUnknown, Record,
      SwitchStep, CrashStep, StutterStep, CancelStep, venueVars
<1> QED
  BY <1>1, <1>2, StepCases

\* What the market does to an order.
LEMMA MarketEffect ==
    ASSUME CoreInv, NEW c \in ClientIds, MarketStep(c)
    PROVE  /\ \A d \in ClientIds \ {c} : venue'[d] = venue[d]
           /\ venue'[c].intent = venue[c].intent
           /\ \/ /\ trades' = trades
                 /\ venue'[c].filled = venue[c].filled
                 /\ venue'[c].status \in {"CANCELED", "REJECTED", "EXPIRED"}
              \/ \E t \in trades' :
                    /\ t \notin trades /\ trades' = trades \cup {t}
                    /\ t.order = c
                    /\ venue'[c].filled = venue[c].filled + t.quantity
                    /\ venue'[c].status =
                         IF venue[c].filled + t.quantity =
                               venue[c].intent.quantity
                         THEN "FILLED" ELSE "WORKING"
<1>1. /\ venue \in [ClientIds -> VenueOrder \cup {None}]
      /\ venue[c] \in VenueOrder /\ venue[c].status = "WORKING"
      /\ venue[c].filled \in Nat
      /\ IsFiniteSet(trades) /\ Cardinality(trades) \in Nat
  BY VenueOrderFacts, FS_CardinalityType
  DEF MarketStep, Working, CoreInv, VenueTyped, TradesTyped
<1>2. ASSUME NEW q \in 1..venue[c].intent.quantity, VenueFill(c, q)
      PROVE  /\ \A d \in ClientIds \ {c} : venue'[d] = venue[d]
             /\ venue'[c].intent = venue[c].intent
             /\ \E t \in trades' :
                    /\ t \notin trades /\ trades' = trades \cup {t}
                    /\ t.order = c
                    /\ venue'[c].filled = venue[c].filled + t.quantity
                    /\ venue'[c].status =
                         IF venue[c].filled + t.quantity =
                               venue[c].intent.quantity
                         THEN "FILLED" ELSE "WORKING"
  <2> DEFINE v == venue[c]
             a == [v EXCEPT !.filled = v.filled + q]
             s == IF v.filled + q = v.intent.quantity THEN "FILLED"
                  ELSE v.status
             o == [a EXCEPT !.status = s]
             t == [id |-> Cardinality(trades) + 1, order |-> c, quantity |-> q]
  <2>1. venue' = [venue EXCEPT ![c] = o] /\ trades' = trades \cup {t}
    BY <1>1, <1>2 DEF VenueFill
  <2>2. v \in VenueOrder /\ v.status = "WORKING"
    BY <1>1
  <2> HIDE DEF v
  <2>3. a \in VenueOrder /\ a.intent = v.intent /\ a.filled = v.filled + q
    <3>1. v.filled + q \in Nat
      BY <1>1 DEF v
    <3> QED
      BY <2>2, <3>1 DEF VenueOrder
  <2>4. s = IF v.filled + q = v.intent.quantity THEN "FILLED" ELSE "WORKING"
    BY <2>2
  <2> HIDE DEF a, s
  <2>5. o.intent = a.intent /\ o.filled = a.filled /\ o.status = s
    BY <2>3 DEF VenueOrder
  <2>6. t.id = Cardinality(trades) + 1 /\ t.order = c /\ t.quantity = q
    OBVIOUS
  <2> HIDE DEF o, t
  <2>7. venue'[c] = o /\ \A d \in ClientIds \ {c} : venue'[d] = venue[d]
    BY <1>1, <2>1
  <2>8. t \notin trades
    <3>1. \A x \in trades : x.id \in Nat /\ x.id <= Cardinality(trades)
      BY FetchAssumption DEF CoreInv, TradesTyped, Trade, Executions
    <3> QED
      BY <1>1, <2>6, <3>1
  <2>9. /\ venue'[c].intent = v.intent
        /\ venue'[c].filled = v.filled + t.quantity
        /\ venue'[c].status = IF v.filled + t.quantity = v.intent.quantity
                              THEN "FILLED" ELSE "WORKING"
    BY <2>3, <2>4, <2>5, <2>6, <2>7
  <2>10. t \in trades' /\ t.order = c
    BY <2>1, <2>6
  <2> QED
    BY <2>1, <2>7, <2>8, <2>9, <2>10 DEF v
<1>3. ASSUME NEW status \in Closings, VenueClose(c, status)
      PROVE  /\ \A d \in ClientIds \ {c} : venue'[d] = venue[d]
             /\ venue'[c].intent = venue[c].intent
             /\ trades' = trades
             /\ venue'[c].filled = venue[c].filled
             /\ venue'[c].status \in {"CANCELED", "REJECTED", "EXPIRED"}
  <2> DEFINE o == [venue[c] EXCEPT !.status = status]
  <2>1. venue' = [venue EXCEPT ![c] = o] /\ trades' = trades
    BY <1>1, <1>3 DEF VenueClose
  <2>2. /\ o.intent = venue[c].intent /\ o.filled = venue[c].filled
        /\ o.status = status
    BY <1>1 DEF VenueOrder
  <2> HIDE DEF o
  <2> QED
    BY <1>1, <2>1, <2>2, CoreAssumption
<1> QED
  BY <1>2, <1>3 DEF MarketStep

\* The venue's fills are its trades.
LEMMA VenueCountsStep ==
    ASSUME CoreInv, VenueCounts, [Next]_vars
    PROVE  VenueCounts'
<1>1. TradesTyped /\ VenueTyped /\ TradesTyped' /\ VenueTyped'
  BY CoreStep DEF CoreInv
<1>2. \A d \in ClientIds : venue[d] = None => TradesOf(d) = {}
  BY <1>1 DEF TradesTyped, TradesOf
<1>3. Filled({}) = 0
  BY SumEmpty DEF Filled
<1>4. ASSUME trades' = trades, NEW d \in ClientIds
      PROVE  TradesOf(d)' = TradesOf(d)
  BY <1>4 DEF TradesOf
<1> SUFFICES ASSUME NEW d \in ClientIds, venue'[d] # None
             PROVE  /\ venue'[d].filled = Filled(TradesOf(d)')
                    /\ venue'[d].status = "WORKING" =>
                         venue'[d].filled < venue'[d].intent.quantity
  BY DEF VenueCounts, Working, Filled
<1>5. /\ venue'[d].filled \in Nat /\ venue'[d].intent.quantity \in Nat \ {0}
      /\ venue'[d].filled <= venue'[d].intent.quantity
  BY <1>1, VenueOrderFacts DEF VenueTyped
<1>6. CASE venue'[d] = venue[d] /\ TradesOf(d)' = TradesOf(d)
  BY <1>6 DEF VenueCounts, Working
<1>7. CASE \E c \in ClientIds : MarketStep(c)
  <2>1. PICK c \in ClientIds : MarketStep(c)
    BY <1>7
  <2>2. CASE d # c
    <3>1. venue'[d] = venue[d]
      BY <2>1, <2>2, MarketEffect
    <3>2. trades' = trades \/ \E t \in trades' :
             trades' = trades \cup {t} /\ t.order = c
      BY <2>1, MarketEffect
    <3>3. TradesOf(d)' = TradesOf(d)
      BY <2>2, <3>2 DEF TradesOf
    <3> QED
      BY <1>6, <3>1, <3>3
  <2>3. CASE d = c
    <3>1. Working(d) /\ venue[d].filled = Filled(TradesOf(d))
      BY <2>1, <2>3 DEF VenueCounts, MarketStep, Working
    <3>2. CASE /\ trades' = trades
               /\ venue'[c].filled = venue[c].filled
               /\ venue'[c].status \in {"CANCELED", "REJECTED", "EXPIRED"}
      BY <1>4, <2>3, <3>1, <3>2
    <3>3. ASSUME NEW t \in trades', t \notin trades, trades' = trades \cup {t},
                 t.order = c, venue'[c].filled = venue[c].filled + t.quantity,
                 venue'[c].intent = venue[c].intent,
                 venue'[c].status =
                    IF venue[c].filled + t.quantity = venue[c].intent.quantity
                    THEN "FILLED" ELSE "WORKING"
          PROVE  /\ venue'[d].filled = Filled(TradesOf(d)')
                 /\ venue'[d].status = "WORKING" =>
                      venue'[d].filled < venue'[d].intent.quantity
      <4>1. TradesOf(d)' = TradesOf(d) \cup {t} /\ t \notin TradesOf(d)
            /\ TradesOf(d) \in SUBSET trades'
        BY <2>3, <3>3 DEF TradesOf
      <4>2. IsFiniteSet(TradesOf(d)) /\ TradesOf(d) \cup {t} \subseteq Trade
        BY <1>1, <4>1, FS_Subset DEF TradesTyped, TradesOf
      <4>3. Filled(TradesOf(d) \cup {t}) = Filled(TradesOf(d)) + t.quantity
        BY <4>1, <4>2, FilledAdd
      <4> QED
        BY <1>5, <2>3, <3>1, <3>3, <4>1, <4>3
    <3> QED
      BY <2>1, <3>2, <3>3, MarketEffect
  <2> QED
    BY <2>2, <2>3
<1>8. CASE /\ trades' = trades
           /\ \A c \in ClientIds :
                 \/ venue'[c] = venue[c]
                 \/ /\ venue[c] = None /\ venue'[c] # None
                    /\ venue'[c].filled = 0 /\ venue'[c].status = "WORKING"
  BY <1>2, <1>3, <1>4, <1>5, <1>6, <1>8
<1> QED
  BY <1>7, <1>8, VenueElsewhere

\* What a new row counts, while nothing is applied.
LEMMA RowCounts ==
    ASSUME CoreInv, [Next]_vars, ~ \E n \in DOMAIN inbox : MovesFill(inbox[n]),
           NEW c \in ClientIds, Exists(c)'
    PROVE  \/ orders'[c].filled = 0
           \/ Exists(c) /\ orders'[c].filled = orders[c].filled
           \/ \E l \in review.localOrders :
                 l.intent.clientId = c /\ orders'[c].filled = l.filled
<1>1. CASE RowStays(c)
  BY <1>1 DEF RowStays, Exists
<1>2. CASE RowSaved(c)
  BY <1>2, SavedSound DEF RowSaved, CoreInv
<1>3. CASE RowResolved(c)
  BY <1>3, ResolutionLemma DEF RowResolved, CoreInv
<1>4. CASE RowCancels(c)
  <2>1. orders[c] \in Lifecycle /\ Exists(c)
    BY <1>4 DEF RowCancels, CoreInv, StoreTyped, Exists
  <2>2. RequestCancel(orders[c]).filled = orders[c].filled
    BY <2>1, TransitionLemma DEF RequestCancel, Status
  <2> QED
    BY <1>4, <2>1, <2>2 DEF RowCancels
<1>5. CASE RowMoves(c)
  <2>1. PICK n \in DOMAIN inbox :
           /\ inbox[n].order = c
           /\ MovesStatus(inbox[n])
           /\ orders'[c] = ApplyUpdate(orders[c], inbox[n])
    BY <1>5 DEF RowMoves
  <2>2. inbox[n] \in Reports
    BY InboxFacts
  <2>3. /\ inbox[n] \in UpdateShape(Keys, Executions) /\ WellFormed(inbox[n])
        /\ ~ IsFill(inbox[n]) /\ Exists(c) /\ UpdateAccepted(orders[c], inbox[n])
    BY <2>1, <2>2, ReportFacts DEF MovesStatus, Moves
  <2>4. orders[c] \in Lifecycle /\ inbox[n].quantity = 0
    BY <2>3 DEF CoreInv, StoreTyped, Exists, WellFormed
  <2>5. ApplyUpdate(orders[c], inbox[n]).filled = orders[c].filled
    BY <2>3, <2>4, LifecycleFacts, ApplyUpdateLemma
  <2> QED
    BY <2>1, <2>3, <2>5
<1> QED
  BY <1>1, <1>2, <1>3, <1>4, <1>5, RowStep

\* Rows and what was read of them stay backed.
LEMMA BackedStep ==
    ASSUME CoreInv, OneIntent, PositionIsItsTrades, RowsBacked, [Next]_vars
    PROVE  RowsBacked'
<1>1. /\ CoreInv' /\ StoreTyped /\ StoreTyped' /\ ReviewTyped /\ TradesTyped
      /\ \A c \in ClientIds : AppliedTo(c) \in SUBSET trades
  BY CoreStep DEF CoreInv, AppliedTo, Applied
<1>2. \A c \in ClientIds : Filled(AppliedTo(c)) \in Nat
  BY <1>1, FilledFacts
<1>3. ASSUME NEW l, l.intent.clientId \in ClientIds, Backed(l),
             Applied' = Applied
      PROVE  Backed(l)'
  BY <1>3 DEF Backed, AppliedTo, Filled
<1>4. \A l \in review.localOrders : l.intent.clientId \in ClientIds
  BY <1>1, LifecycleFacts DEF ReviewTyped
<1>5. CASE ~ \E n \in DOMAIN inbox : MovesFill(inbox[n])
  <2>1. Applied' = Applied
    BY <1>5, StepEffect, AppliedStays DEF Still, PositionIsItsTrades
  <2>2. ASSUME NEW c \in ClientIds, Exists(c)'
        PROVE  orders'[c].filled <= Filled(AppliedTo(c))
    <3>1. Exists(c) => /\ orders[c].filled <= Filled(AppliedTo(c))
                       /\ orders[c].intent.clientId = c
      BY <1>1 DEF RowsBacked, Backed, StoreTyped
    <3>2. \A l \in review.localOrders :
             l.intent.clientId = c => l.filled <= Filled(AppliedTo(c))
      BY DEF RowsBacked, Backed
    <3> QED
      BY <1>2, <1>5, <2>2, <3>1, <3>2, RowCounts
  <2>3. ASSUME NEW c \in ClientIds, Exists(c)'
        PROVE  Backed(orders[c])'
    <3>1. orders'[c].intent.clientId = c
      BY <1>1, <2>3 DEF StoreTyped
    <3> QED
      BY <2>1, <2>2, <2>3, <3>1 DEF Backed, AppliedTo, Filled
  <2>4. ASSUME NEW l \in review'.localOrders PROVE Backed(l)'
    <3>1. CASE l \in review.localOrders
      BY <1>3, <1>4, <2>1, <3>1 DEF RowsBacked
    <3>2. ASSUME NEW c \in ClientIds, Exists(c), l = orders[c] PROVE Backed(l)'
      BY <1>1, <1>3, <2>1, <3>2 DEF RowsBacked, StoreTyped
    <3> QED
      BY <2>4, <3>1, <3>2, ReadStep
  <2> QED
    BY <2>3, <2>4 DEF RowsBacked
<1>6. ASSUME NEW n \in DOMAIN inbox, MovesFill(inbox[n]), PollStep
      PROVE  RowsBacked'
  <2> DEFINE u == inbox[n]
             l == orders[u.order]
  <2>1. /\ u \in Reports /\ u.order \in ClientIds /\ l \in Lifecycle
        /\ u \in UpdateShape(Keys, Executions) /\ WellFormed(u)
    BY <1>6, FillFacts, ReportFacts
  <2>2. PICK t \in trades : ReportsTrade(u, t)
    BY <1>6, InboxFacts DEF MovesFill
  <2>3. /\ Exists(u.order) /\ UpdateAccepted(l, u)
        /\ orders' = [orders EXCEPT ![u.order] = ApplyUpdate(l, u)]
        /\ claimedExecutions' = claimedExecutions \cup {u.execution}
        /\ u.execution \notin claimedExecutions
    BY <1>6 DEF MovesFill, Moves
  <2>4. u.execution = t.id /\ u.order = t.order /\ u.quantity = t.quantity
    BY <2>2 DEF ReportsTrade
  <2>5. ApplyUpdate(l, u).filled = l.filled + t.quantity
        /\ ApplyUpdate(l, u).intent = l.intent
    BY <2>1, <2>3, <2>4, ApplyUpdateLemma
  <2>6. \A c \in ClientIds :
           orders'[c] = IF c = u.order THEN ApplyUpdate(l, u) ELSE orders[c]
    BY <1>1, <2>1, <2>3 DEF StoreTyped
  <2>7. UNCHANGED trades
    BY <1>6 DEF PollStep, PollTrades, PollOrders, ProcessNext, venueVars
  <2> HIDE DEF u, l
  <2>8. Applied' = Applied \cup {t} /\ t \notin Applied
    BY <2>3, <2>4, <2>7, <1>1 DEF Applied, TradesTyped
  <2>9. \A c \in ClientIds :
           AppliedTo(c)' = IF c = u.order THEN AppliedTo(c) \cup {t}
                           ELSE AppliedTo(c)
    BY <2>4, <2>8 DEF AppliedTo
  <2>10. Filled(AppliedTo(u.order) \cup {t}) =
            Filled(AppliedTo(u.order)) + t.quantity
    <3>1. /\ IsFiniteSet(AppliedTo(u.order)) /\ t \notin AppliedTo(u.order)
          /\ AppliedTo(u.order) \cup {t} \subseteq Trade
      BY <1>1, <2>1, <2>8, FilledFacts DEF AppliedTo, TradesTyped
    <3> QED
      BY <3>1, FilledAdd
  <2>11. t.quantity \in Nat
    BY <1>1 DEF TradesTyped, Trade
  <2>12. ASSUME NEW x, x.intent.clientId \in ClientIds, x.filled \in Nat, Backed(x)
         PROVE  Backed(x)'
    <3>1. x.filled <= Filled(AppliedTo(x.intent.clientId)')
      BY <1>2, <2>1, <2>9, <2>10, <2>11, <2>12 DEF Backed
    <3> QED
      BY <3>1 DEF Backed, Filled
  <2>13. ASSUME NEW c \in ClientIds, Exists(c)' PROVE Backed(orders[c])'
    <3>1. CASE c # u.order
      <4>1. /\ Exists(c) /\ Backed(orders[c]) /\ orders[c].filled \in Nat
            /\ orders[c].intent.clientId = c /\ orders'[c] = orders[c]
        BY <1>1, <2>6, <2>13, <3>1, LifecycleFacts DEF RowsBacked, StoreTyped, Exists
      <4> QED
        BY <2>9, <3>1, <4>1 DEF Backed, Filled
    <3>2. CASE c = u.order
      <4>1. /\ l.filled <= Filled(AppliedTo(c)) /\ l.filled \in Nat
            /\ l.intent.clientId = c
        BY <1>1, <2>1, <2>3, <3>2, LifecycleFacts DEF RowsBacked, StoreTyped, Backed, l
      <4>2. orders'[c].filled <= Filled(AppliedTo(c)')
            /\ orders'[c].intent.clientId = c
        <5>1. AppliedTo(c)' = AppliedTo(c) \cup {t}
          BY <2>9, <3>2
        <5>2. Filled(AppliedTo(c) \cup {t}) = Filled(AppliedTo(c)) + t.quantity
          BY <2>10, <3>2
        <5>3. /\ orders'[c] = ApplyUpdate(l, u)
              /\ orders'[c].filled = l.filled + t.quantity
              /\ orders'[c].intent.clientId = c
          BY <2>5, <2>6, <3>2, <4>1
        <5>4. Filled(AppliedTo(c)) \in Nat
          BY <1>2
        <5> QED
          BY <2>11, <4>1, <5>1, <5>2, <5>3, <5>4
      <4> QED
        BY <4>2 DEF Backed, Filled
    <3> QED
      BY <3>1, <3>2
  <2>14. ASSUME NEW x \in review'.localOrders PROVE Backed(x)'
    <3>1. x \in review.localOrders
      BY <1>6, <2>14 DEF PollStep
    <3> QED
      BY <1>1, <1>4, <2>12, <3>1, LifecycleFacts DEF RowsBacked, ReviewTyped
  <2> QED
    BY <2>13, <2>14 DEF RowsBacked
<1>7. CASE \E n \in DOMAIN inbox : MovesFill(inbox[n])
  <2>1. ~ Still
    BY <1>7 DEF Still, MovesFill
  <2> QED
    BY <1>6, <2>1, StepEffect
<1> QED
  BY <1>5, <1>7

\* What is booked as filled was traded.
LEMMA BackedAlways == Spec => [](VenueCounts /\ RowsBacked)
<1>1. Init => VenueCounts /\ RowsBacked
  BY DEF Init, StoreInit, VenueInit, ReviewInit, ReviewIdle, VenueCounts,
         RowsBacked, Exists
<1>2. /\ CoreInv /\ VenueCounts /\ RowsBacked
      /\ OneIntent /\ PositionIsItsTrades /\ [Next]_vars
      => (VenueCounts /\ RowsBacked)'
  BY VenueCountsStep, BackedStep
<1> QED
  BY <1>1, <1>2, CoreAlways, PositionAlways, PTL DEF Spec

\* No row counts a fill the venue did not make.
FillsAreReal ==
    \A c \in ClientIds : Exists(c) /\ orders[c].filled > 0 =>
       venue[c] # None /\ orders[c].filled <= venue[c].filled

\* What was applied to an order is among what the venue traded for it.
LEMMA BackedIsReal ==
    ASSUME CoreInv, VenueCounts, RowsBacked
    PROVE  FillsAreReal
<1> SUFFICES ASSUME NEW c \in ClientIds, Exists(c), orders[c].filled > 0
             PROVE  venue[c] # None /\ orders[c].filled <= venue[c].filled
  BY DEF FillsAreReal
<1>1. /\ orders[c].filled <= Filled(AppliedTo(c)) /\ orders[c].filled \in Nat
  BY LifecycleFacts DEF CoreInv, StoreTyped, RowsBacked, Backed, Exists
<1>2. /\ AppliedTo(c) \subseteq TradesOf(c) /\ TradesOf(c) \subseteq trades
      /\ TradesTyped
  BY DEF AppliedTo, Applied, TradesOf, CoreInv
<1>3. /\ Filled(AppliedTo(c)) <= Filled(TradesOf(c))
      /\ Filled(AppliedTo(c)) \in Nat /\ Filled(TradesOf(c)) \in Nat
  BY <1>2, FilledFacts
<1>4. TradesOf(c) # {}
  BY <1>1, <1>3, SumEmpty DEF Filled
<1>5. venue[c] # None
  BY <1>4 DEF TradesOf, CoreInv, TradesTyped
<1> QED
  BY <1>1, <1>3, <1>5 DEF VenueCounts

(* The order table holds no fill the venue did not make, although calls    *)
(* overlap and a save may bring back a row that was read before a fill:    *)
(* what is brought back counts less.                                       *)
THEOREM NoInventedFill == Spec => []FillsAreReal
BY BackedIsReal, CoreAlways, BackedAlways, PTL

-----------------------------------------------------------------------------
(* What one call at a time gives: no row is saved that was read before     *)
(* another call wrote it.                                                  *)

OneAtATime ==
    /\ \A p, q \in Callers : InCall(p) /\ InCall(q) => p = q
    /\ polling \/ review.pc # "idle" => \A p \in Callers : ~ InCall(p)
    /\ polling => review.pc = "idle"

\* What a call or a reconciliation remembers of a row is what the row says.
InStep ==
    /\ \A p \in Callers :
          /\ calls[p].pc \in {"approved", "riskRefused"} => ~ Exists(Client(p))
          /\ calls[p].pc \in {"sending", "answered"} =>
                orders[Client(p)] = Submitting(calls[p].intent)
    /\ review.pc \in {"fetchOrders", "resolve"} =>
          \A l \in review.localOrders : orders[l.intent.clientId] = l

\* Nobody is in a call, and no reconciliation runs.
Free ==
    /\ \A p \in Callers : ~ InCall(p)
    /\ review.pc = "idle"

\* While nobody is in a call there is nothing to keep in step.
LEMMA FreeLemma ==
    ASSUME ReviewTyped, Free
    PROVE  OneAtATime /\ InStep
<1>1. review = ReviewIdle
  BY DEF ReviewTyped, Free
<1> QED
  BY <1>1 DEF Free, InCall, OneAtATime, InStep, ReviewIdle

\* The gateway: callers take turns, and the caller whose turn it is knows
\* its row.
LEMMA AloneGateway ==
    ASSUME Serial, CoreInv, OneAtATime, InStep, NEW p \in Callers,
           Evaluate(p) \/ StartSubmit(p) \/ Submit(p)
    PROVE  OneAtATime' /\ InStep'
<1> USE DEF At
<1>1. /\ UNCHANGED <<review, polling>> /\ CallsTyped /\ ReviewTyped
      /\ calls \in [Callers -> Call] /\ Idle.pc = "idle"
  BY DEF Evaluate, StartSubmit, Submit, pollerVars, CoreInv, CallsTyped, Idle
<1>2. ASSUME NEW x, calls' = [calls EXCEPT ![p] = x],
             x.pc \in {"idle", "ready"}, UNCHANGED orders
      PROVE  OneAtATime' /\ InStep'
  BY <1>1, <1>2 DEF OneAtATime, InStep, InCall, Client, Exists
<1>3. ASSUME NEW x, calls' = [calls EXCEPT ![p] = x],
             ~ polling, review.pc = "idle",
             \A q \in Callers : InCall(q) => q = p,
             x.pc \in {"approved", "riskRefused"} =>
                orders'[x.intent.clientId] = None,
             x.pc \in {"sending", "answered"} =>
                orders'[x.intent.clientId] = Submitting(x.intent)
      PROVE  OneAtATime' /\ InStep'
  <2>1. review = ReviewIdle
    BY <1>1, <1>3 DEF ReviewTyped
  <2> QED
    BY <1>1, <1>3, <2>1
    DEF OneAtATime, InStep, InCall, Client, Exists, ReviewIdle
<1>4. ASSUME NEW i \in Intents, EvaluateReadiness(p, i)
      PROVE  OneAtATime' /\ InStep'
  <2> DEFINE x == [Idle EXCEPT !.pc = "ready", !.intent = i,
                               !.snapshot = EvaluatedReadiness]
  <2>1. x.pc = "ready"
    BY DEF Idle
  <2>2. calls' = [calls EXCEPT ![p] = x] /\ UNCHANGED orders
    BY <1>4 DEF EvaluateReadiness, storeVars
  <2> HIDE DEF x
  <2> QED
    BY <1>2, <2>1, <2>2
<1>5. CASE BeginFails(p) \/ ClientIdTaken(p)
  <2>1. calls' = [calls EXCEPT ![p] = Idle] /\ UNCHANGED orders
    BY <1>5 DEF BeginFails, ClientIdTaken, Return, storeVars
  <2> QED
    BY <1>1, <1>2, <2>1
<1>6. ASSUME NEW approved \in BOOLEAN, Begin(p, approved), MayStart
      PROVE  OneAtATime' /\ InStep'
  <2> DEFINE x == [calls[p] EXCEPT
                !.pc = IF approved THEN "approved" ELSE "riskRefused",
                !.lifecycle = IF approved THEN Submitting(calls[p].intent)
                              ELSE RiskRejected(calls[p].intent)]
  <2>1. calls' = [calls EXCEPT ![p] = x] /\ UNCHANGED orders
    BY <1>6 DEF Begin, storeVars
  <2>2. x.pc \in {"approved", "riskRefused"} /\ x.intent = calls[p].intent
    BY <1>1, CallFacts
  <2>3. orders[calls[p].intent.clientId] = None
    BY <1>6 DEF Begin, Exists
  <2> HIDE DEF x
  <2> QED
    BY <1>3, <1>6, <2>1, <2>2, <2>3 DEF MayStart
<1>7. ASSUME Continue(p)
      PROVE  OneAtATime' /\ InStep'
  <2>1. InCall(p) /\ ~ polling /\ review.pc = "idle"
        /\ \A q \in Callers : InCall(q) => q = p
    BY <1>7 DEF Continue, SaveRiskRejection, ClientIdTaken, SaveSubmitting,
                AskBroker, SaveOutcome, InCall, OneAtATime
  <2>2. CASE SaveRiskRejection(p) \/ SaveOutcome(p)
    <3>1. calls' = [calls EXCEPT ![p] = Idle]
      BY <2>2 DEF SaveRiskRejection, SaveOutcome, Return
    <3> QED
      BY <1>1, <1>3, <2>1, <3>1
  <2>3. CASE SaveSubmitting(p)
    <3> DEFINE x == [calls[p] EXCEPT !.pc = "sending"]
               l == calls[p].lifecycle
    <3>1. /\ calls' = [calls EXCEPT ![p] = x] /\ SaveOrder(l)
          /\ calls[p].pc = "approved"
      BY <2>3 DEF SaveSubmitting, Goto
    <3>2. x.intent = calls[p].intent /\ x.pc = "sending"
      BY <1>1 DEF Call, Idle
    <3>3. /\ l \in Lifecycle /\ l.intent = calls[p].intent
          /\ l = Submitting(calls[p].intent)
      BY <1>1, <3>1, CallFacts DEF InMemory
    <3> HIDE DEF x, l
    <3>4. orders'[x.intent.clientId] = Submitting(x.intent)
      BY <3>1, <3>2, <3>3, SaveOrderLemma DEF CoreInv
    <3> QED
      BY <1>3, <2>1, <3>1, <3>2, <3>4
  <2>4. ASSUME NEW outcome \in Outcomes, AskBroker(p, outcome)
        PROVE  OneAtATime' /\ InStep'
    <3>1. /\ calls[p].pc = "sending" /\ UNCHANGED orders
          /\ orders[calls[p].intent.clientId] = Submitting(calls[p].intent)
      BY <2>4 DEF AskBroker, storeVars, InStep, Client
    <3>2. CASE Return(p)
      BY <1>1, <1>2, <3>1, <3>2 DEF Return
    <3>3. CASE outcome \notin Raises
      <4> DEFINE x == [calls[p] EXCEPT !.pc = "answered",
                          !.lifecycle = Answered(calls[p].lifecycle, outcome)]
      <4>1. calls' = [calls EXCEPT ![p] = x]
        BY <2>4, <3>3 DEF AskBroker
      <4>2. x.pc = "answered" /\ x.intent = calls[p].intent
        BY <1>1 DEF Call, Idle
      <4> HIDE DEF x
      <4> QED
        BY <1>3, <2>1, <3>1, <4>1, <4>2
    <3> QED
      BY <2>4, <3>2, <3>3 DEF AskBroker
  <2> QED
    BY <1>5, <1>7, <2>2, <2>3, <2>4 DEF Continue
<1> QED
  BY <1>4, <1>5, <1>6, <1>7 DEF Evaluate, StartSubmit, Submit

\* The others start while nobody is in a call, and a reconciliation that runs
\* has the tables for itself.
LEMMA AloneElsewhere ==
    ASSUME Serial, CoreInv, OneAtATime, InStep,
           \/ Poll \/ Process \/ StartReview \/ Review \/ VenueStep \/ Operate
           \/ Crash \/ UNCHANGED vars
           \/ \E c \in Cancellable : AskCancel(c)
    PROVE  OneAtATime' /\ InStep'
<1> USE DEF At
<1>1. CoreInv' /\ ReviewTyped
  BY CoreStep DEF Next, CoreInv
<1>2. ASSUME Free' PROVE OneAtATime' /\ InStep'
  <2>1. (ReviewTyped /\ Free => OneAtATime /\ InStep)'
    BY FreeLemma, PTL
  <2> QED
    BY <1>1, <1>2, <2>1 DEF CoreInv
<1>3. ASSUME UNCHANGED <<orders, calls, review, polling>>
      PROVE  OneAtATime' /\ InStep'
  BY <1>3 DEF OneAtATime, InStep, InCall, Client, Exists
<1>4. CASE Poll
  <2>1. UNCHANGED <<calls, review>>
    BY <1>4 DEF Poll
  <2>2. Free
    BY <1>4 DEF Poll, MayStart, PollOrders, Free, OneAtATime
  <2> QED
    BY <1>2, <2>1, <2>2 DEF Free, InCall
<1>5. CASE Process \/ \E c \in Cancellable : AskCancel(c)
  BY <1>2, <1>5 DEF Process, AskCancel, MayStart, Free, InCall
<1>6. CASE StartReview
  <2> DEFINE a == [ReviewIdle EXCEPT !.pc = "readLocal"]
  <2>1. review' = [a EXCEPT !.brokerPositions = [b \in Books |-> VenuePosition(b)]]
    BY <1>6 DEF StartReview, FetchPositions
  <2>2. a = [pc |-> "readLocal", brokerPositions |-> None,
             localPositions |-> None, localOrders |-> {}, brokerOrders |-> {}]
    BY DEF ReviewIdle
  <2> HIDE DEF a
  <2>3. review'.pc = "readLocal" /\ review'.brokerOrders = {}
    BY <2>1, <2>2
  <2>4. UNCHANGED <<calls, polling, orders>> /\ Free /\ ~ polling
    BY <1>6 DEF StartReview, FetchPositions, MayStart, Free, pollerVars,
                storeVars
  <2> QED
    BY <2>3, <2>4 DEF Free, OneAtATime, InStep, InCall
<1>7. CASE Review
  <2>1. /\ UNCHANGED <<calls, polling>> /\ ~ polling
        /\ \A p \in Callers : ~ InCall(p)
    BY <1>7 DEF Review, ContinueReview, ReadLocal, FetchOpenOrders,
                ResolveUnknown, Record, pollerVars, OneAtATime
  <2>2. ASSUME review'.pc \in {"fetchOrders", "resolve"} =>
                  \A l \in review'.localOrders : orders'[l.intent.clientId] = l
        PROVE  OneAtATime' /\ InStep'
    BY <2>1, <2>2 DEF OneAtATime, InStep, InCall
  <2>3. CASE ReadLocal
    <3>1. /\ UNCHANGED orders
          /\ review'.localOrders =
               {orders[c] : c \in
                  {d \in ClientIds : Exists(d) /\ StatusOf(d) \notin Terminal}}
      BY <1>1, <2>3 DEF ReadLocal, ReviewTyped, storeVars
    <3> QED
      BY <2>2, <3>1 DEF InStep, CoreInv, StoreTyped
  <2>4. CASE FetchOpenOrders
    <3>1. /\ UNCHANGED orders /\ review.pc = "fetchOrders"
          /\ review'.localOrders = review.localOrders
      BY <1>1, <2>4 DEF FetchOpenOrders, ReviewTyped, storeVars
    <3> QED
      BY <2>2, <3>1 DEF InStep
  <2>5. CASE ResolveUnknown
    BY <1>1, <2>2, <2>5 DEF ResolveUnknown, ReviewTyped, InStep
  <2>6. CASE Record
    BY <2>2, <2>6 DEF Record, ReviewIdle
  <2> QED
    BY <1>7, <2>3, <2>4, <2>5, <2>6 DEF Review, ContinueReview
<1>8. CASE VenueStep \/ Operate \/ UNCHANGED vars
  BY <1>3, <1>8 DEF VenueStep, Operate, vars, storeVars, pollerVars
<1>9. CASE Crash
  BY <1>2, <1>9 DEF Crash, Free, InCall, ReviewIdle, Idle
<1> QED
  BY <1>4, <1>5, <1>6, <1>7, <1>8, <1>9

\* One call at a time, always.
LEMMA AloneAlways == Serial /\ Spec => [](CoreInv /\ OneAtATime /\ InStep)
<1> SUFFICES ASSUME Serial PROVE Spec => [](CoreInv /\ OneAtATime /\ InStep)
  OBVIOUS
<1>1. Init => CoreInv /\ OneAtATime /\ InStep
  <2>1. Init => Free
    BY DEF Init, GatewayInit, ReviewInit, ReviewIdle, Idle, Free, InCall
  <2> QED
    BY <2>1, CoreInit, FreeLemma DEF CoreInv
<1>2. CoreInv /\ OneAtATime /\ InStep /\ [Next]_vars
      => (CoreInv /\ OneAtATime /\ InStep)'
  BY CoreStep, AloneGateway, AloneElsewhere DEF Next
<1> QED
  BY <1>1, <1>2, PTL DEF Spec

-----------------------------------------------------------------------------
(* The ledger's transactions *)

\* The operators that the ledger and the core share mean the same in both.
LEMMA SharedOperators ==
    /\ Ledger!StoreInit <=> StoreInit
    /\ Ledger!storeVars = storeVars /\ Ledger!storeVars' = storeVars'
    /\ \A c : Ledger!Exists(c) = Exists(c) /\ Ledger!StatusOf(c) = StatusOf(c)
    /\ \A l, t, id : Ledger!Transition(l, t, id) = Transition(l, t, id)
    /\ \A i : /\ Ledger!RiskRejected(i) = RiskRejected(i)
              /\ Ledger!Submitting(i) = Submitting(i)
    /\ \A k, c : Ledger!OrderEvent(k, c) = OrderEvent(k, c)
    /\ \A t : Ledger!OutcomeEvent(t) = OutcomeEvent(t)
<1>1. Ledger!StoreInit <=> StoreInit
  BY DEF Ledger!StoreInit, StoreInit
<1>2. Ledger!storeVars = storeVars /\ Ledger!storeVars' = storeVars'
  BY DEF Ledger!storeVars, storeVars
<1>3. \A c : Ledger!Exists(c) = Exists(c) /\ Ledger!StatusOf(c) = StatusOf(c)
  BY DEF Ledger!Exists, Exists, Ledger!StatusOf, StatusOf
<1>4. \A l, t, id : Ledger!Transition(l, t, id) = Transition(l, t, id)
  BY DEF Ledger!Transition, Transition, Ledger!WithStatus, WithStatus
<1>5. \A i : Ledger!NewLifecycle(i) = NewLifecycle(i)
  BY DEF Ledger!NewLifecycle, NewLifecycle
<1>6. \A i : /\ Ledger!RiskRejected(i) = RiskRejected(i)
             /\ Ledger!Submitting(i) = Submitting(i)
  BY <1>4, <1>5
  DEF Ledger!RiskRejected, RiskRejected, Ledger!Submitting, Submitting
<1>7. \A k, c : Ledger!OrderEvent(k, c) = OrderEvent(k, c)
  BY DEF Ledger!OrderEvent, OrderEvent
<1>8. \A t : Ledger!OutcomeEvent(t) = OutcomeEvent(t)
  BY DEF Ledger!OutcomeEvent, OutcomeEvent
<1> QED
  BY <1>1, <1>2, <1>3, <1>4, <1>6, <1>7, <1>8

\* So do the transactions of the order gateway's lifecycle, ...
LEMMA SharedSaves ==
    ASSUME NEW l
    PROVE  /\ Ledger!SaveOrder(l) <=> SaveOrder(l)
           /\ Ledger!CanRequestCancel(l) <=> CanRequestCancel(l)
           /\ Ledger!RequestCancel(l) = RequestCancel(l)
BY SharedOperators
DEF Ledger!SaveOrder, SaveOrder, Ledger!CanRequestCancel, CanRequestCancel,
    Ledger!RequestCancel, RequestCancel

\* ... and that of the fill processor.
LEMMA SharedProcessing ==
    ASSUME NEW u, ProcessUpdate(u)
    PROVE  Ledger!ProcessUpdate(u)
<1>1. \A v : Ledger!IsFill(v) <=> IsFill(v)
  BY DEF Ledger!IsFill, IsFill, Ledger!FillTypes, FillTypes
<1>2. \A l, v : Ledger!FillTarget(l, v) = FillTarget(l, v)
  BY DEF Ledger!FillTarget, FillTarget, Ledger!NewFilled, NewFilled
<1>3. \A l, t : Ledger!CanTransition(l, t) <=> CanTransition(l, t)
  BY DEF Ledger!CanTransition, CanTransition, Ledger!Allowed, Allowed
<1>4. \A l, v : Ledger!UpdateAccepted(l, v) <=> UpdateAccepted(l, v)
  BY <1>1, <1>2, <1>3
  DEF Ledger!UpdateAccepted, UpdateAccepted, Ledger!IdentityMatches,
      IdentityMatches, Ledger!FillAccepted, FillAccepted, Ledger!NewFilled,
      NewFilled
<1>5. \A l, v : Ledger!ApplyUpdate(l, v) = ApplyUpdate(l, v)
  BY <1>1, <1>2, SharedOperators
  DEF Ledger!ApplyUpdate, ApplyUpdate, Ledger!WithStatus, WithStatus,
      Ledger!NewFilled, NewFilled
<1>6. \A l, v : /\ Ledger!PositionAfter(l, v) = PositionAfter(l, v)
                /\ Ledger!FillEvent(v, l) = FillEvent(v, l)
  BY <1>1 DEF Ledger!PositionAfter, PositionAfter, Ledger!FillEvent, FillEvent
<1>7. CASE IgnoreDuplicateEvent(u)
  BY <1>7, SharedOperators
  DEF IgnoreDuplicateEvent, Ledger!IgnoreDuplicateEvent, Ledger!ProcessUpdate
<1>8. CASE IgnoreDuplicateExecution(u)
  BY <1>8 DEF IgnoreDuplicateExecution, Ledger!IgnoreDuplicateExecution,
              Ledger!ProcessUpdate
<1>9. CASE RollBackUpdate(u)
  BY <1>4, <1>9, SharedOperators
  DEF RollBackUpdate, Ledger!RollBackUpdate, Ledger!ProcessUpdate, Fresh,
      Ledger!Fresh
<1>10. CASE CommitUpdate(u)
  <2>1. Ledger!CommitUpdate(u)
    BY <1>1, <1>4, <1>5, <1>6, <1>10, SharedOperators, SharedSaves
    DEF CommitUpdate, Ledger!CommitUpdate, Fresh, Ledger!Fresh, ClaimedBy,
        Ledger!ClaimedBy
  <2> QED
    BY <2>1 DEF Ledger!ProcessUpdate
<1> QED
  BY <1>7, <1>8, <1>9, <1>10 DEF ProcessUpdate

\* The gateway: each step that writes is one of the ledger's transactions.
LEMMA GatewayRefines ==
    ASSUME CoreInv, InStep, NEW p \in Callers, GatewayStep(p)
    PROVE  Ledger!Next \/ UNCHANGED storeVars
<1> USE DEF At
<1> DEFINE i == calls[p].intent
           l == calls[p].lifecycle
<1>1. CallsTyped
  BY DEF CoreInv
<1>2. CASE SaveRiskRejection(p)
  <2>1. calls[p].pc = "riskRefused"
    BY <1>2 DEF SaveRiskRejection
  <2>2. i \in Intents /\ l = RiskRejected(i) /\ ~ Exists(i.clientId)
    BY <1>1, <2>1, CallFacts DEF InMemory, InStep, Client
  <2>3. Ledger!RejectByRisk(i)
    BY <1>2, <2>2, SharedOperators, SharedSaves
    DEF SaveRiskRejection, Ledger!RejectByRisk
  <2> QED
    BY <2>2, <2>3 DEF Ledger!Next
<1>3. CASE SaveSubmitting(p)
  <2>1. calls[p].pc = "approved"
    BY <1>3 DEF SaveSubmitting
  <2>2. i \in Intents /\ l = Submitting(i)
    BY <1>1, <2>1, CallFacts DEF InMemory
  <2>3. Ledger!StartSubmission(i)
    BY <1>3, <2>2, SharedOperators, SharedSaves
    DEF SaveSubmitting, Ledger!StartSubmission
  <2> QED
    BY <2>2, <2>3 DEF Ledger!Next
<1>4. CASE SaveOutcome(p)
  <2>1. calls[p].pc = "answered"
    BY <1>4 DEF SaveOutcome
  <2>2. i \in Intents /\ InMemory(calls[p]) /\ i.clientId \in ClientIds
    BY <1>1, <2>1, CallFacts DEF Client
  <2>3. PICK t \in {"SUBMITTED", "REJECTED", "RECONCILIATION_REQUIRED"},
             id \in BrokerIds \cup {None} :
               /\ (id # None) <=> (t = "SUBMITTED")
               /\ l = Transition(Submitting(i), t, id)
    BY <2>1, <2>2 DEF InMemory
  <2>4. orders[i.clientId] = Submitting(i) /\ Exists(i.clientId)
    BY <2>1, <2>2, NewLifecycleLemma, NoneAssumption
    DEF InStep, Client, Exists
  <2>5. l.status = t /\ StatusOf(i.clientId) = "SUBMITTING"
    <3>1. Submitting(i) \in Lifecycle /\ Submitting(i).status = "SUBMITTING"
      BY <2>2, NewLifecycleLemma
    <3>2. t \in Status
      BY DEF Status
    <3>3. Transition(Submitting(i), t, id).status = t
      BY <3>1, <3>2, TransitionLemma
    <3> QED
      BY <2>3, <2>4, <3>1, <3>3 DEF StatusOf
  <2>6. Ledger!FinishSubmission(i.clientId, t, id)
    BY <1>4, <2>3, <2>4, <2>5, SharedOperators, SharedSaves
    DEF SaveOutcome, Ledger!FinishSubmission
  <2> QED
    BY <2>2, <2>3, <2>6 DEF Ledger!Next
<1>5. CASE UNCHANGED storeVars
  BY <1>5
<1> QED
  BY <1>2, <1>3, <1>4, <1>5
  DEF GatewayStep, EvaluateReadiness, BeginFails, Begin, Continue,
      ClientIdTaken, AskBroker

\* The reconciliation: it settles the rows as they are.
LEMMA ResolveRefines ==
    ASSUME CoreInv, InStep, RowsSound, ResolveUnknown
    PROVE  Ledger!Next \/ UNCHANGED storeVars
<1> DEFINE proved == {l \in review.localOrders : Provable(l)}
           S == {c \in ClientIds : c \in Ids(proved)}
           remote(c) == ById(review.brokerOrders, c)
           target == [c \in S |-> remote(c).status]
           id == [c \in S |-> remote(c).brokerId]
<1>1. ReviewTyped /\ review.pc = "resolve"
  BY DEF CoreInv, ResolveUnknown
<1>2. ASSUME NEW c \in S
      PROVE  /\ ById(proved, c) = orders[c]
             /\ Provable(orders[c]) /\ orders[c] \in review.localOrders
             /\ orders[c].intent.clientId = c
  <2>1. ById(proved, c) \in proved /\ ById(proved, c).intent.clientId = c
    BY DEF Ids, ById
  <2> HIDE DEF proved
  <2>2. ById(proved, c) \in review.localOrders /\ Provable(ById(proved, c))
    BY <2>1 DEF proved
  <2> QED
    BY <1>1, <2>1, <2>2 DEF InStep
<1>3. ASSUME NEW c \in S
      PROVE  remote(c) \in review.brokerOrders
  <2>1. c \in Ids(review.brokerOrders)
    BY <1>2 DEF Provable
  <2> QED
    BY <2>1 DEF Ids, ById
<1>4. ASSUME NEW c \in S
      PROVE  target[c] \in Ledger!ResolvableUnfilled /\ id[c] \in BrokerIds
  <2>1. remote(c) \in SeenOrder
    BY <1>1, <1>3 DEF ReviewTyped
  <2>2. /\ orders[c].status = "RECONCILIATION_REQUIRED" /\ RowOK(orders[c])
        /\ remote(c).filled = orders[c].filled /\ remote(c).status \in Settling
    BY <1>2 DEF Provable, RowsSound
  <2>3. target[c] = remote(c).status /\ id[c] = remote(c).brokerId
    OBVIOUS
  <2> HIDE DEF remote, target, id
  <2> QED
    BY <2>1, <2>2, <2>3
    DEF SeenOrder, RowOK, Unfilled, OpenNames, Settling,
        Ledger!ResolvableUnfilled
<1>5. target \in [S -> Ledger!ResolvableUnfilled] /\ id \in [S -> BrokerIds]
  BY <1>4
<1>6. \A c \in S : StatusOf(c) = "RECONCILIATION_REQUIRED"
  <2> SUFFICES ASSUME NEW c \in S PROVE StatusOf(c) = "RECONCILIATION_REQUIRED"
    OBVIOUS
  <2>1. orders[c].status = "RECONCILIATION_REQUIRED" /\ Exists(c)
    BY <1>1, <1>2 DEF Provable, ReviewTyped
  <2> QED
    BY <2>1 DEF StatusOf
<1>7. orders' = [c \in ClientIds |->
                   IF c \in S THEN Transition(orders[c], target[c], id[c])
                   ELSE orders[c]]
  <2>1. orders' = [c \in ClientIds |->
                     IF c \in Ids(proved) THEN Resolution(ById(proved, c))
                     ELSE orders[c]]
    BY DEF ResolveUnknown
  <2>2. \A c \in S : Resolution(orders[c]) = Transition(orders[c], target[c], id[c])
    BY <1>2 DEF Resolution
  <2> QED
    BY <1>2, <2>1, <2>2
<1> HIDE DEF S, target, id
<1>8. CASE S = {}
  BY <1>7, <1>8 DEF CoreInv, StoreTyped, ResolveUnknown, storeVars
<1>9. CASE S # {}
  <2>1. Ledger!Resolve(S, target, id)
    BY <1>6, <1>7, <1>9, SharedOperators DEF Ledger!Resolve, ResolveUnknown
  <2>2. S \in SUBSET ClientIds
    BY DEF S
  <2> QED
    BY <1>5, <2>1, <2>2 DEF Ledger!Next
<1> QED
  BY <1>8, <1>9

\* Every step is a transaction of the ledger or leaves the tables alone.
LEMMA StepRefines ==
    ASSUME CoreInv, InStep, RowsSound, [Next]_vars
    PROVE  Ledger!Next \/ UNCHANGED storeVars
<1>1. CASE PollStep
  <2>1. CASE ProcessNext
    <3>1. 1 \in DOMAIN inbox /\ Head(inbox) = inbox[1]
      BY <2>1, HeadTailProperties, LenProperties
      DEF ProcessNext, CoreInv, PollTyped
    <3>2. Head(inbox) \in Reports
      BY <3>1, InboxFacts
    <3>3. Ledger!ProcessUpdate(Head(inbox))
      BY <2>1, SharedProcessing DEF ProcessNext
    <3> QED
      BY <3>2, <3>3 DEF Ledger!Next
  <2> QED
    BY <1>1, <2>1 DEF PollStep, PollTrades, PollOrders
<1>2. CASE ReviewStep
  BY <1>2, ResolveRefines
  DEF ReviewStep, FetchPositions, ContinueReview, ReadLocal, FetchOpenOrders,
      Record
<1>3. ASSUME NEW c \in Cancellable, CancelStep(c)
      PROVE  Ledger!Next
  <2>1. Ledger!AskCancel(c)
    BY <1>3, SharedOperators, SharedSaves DEF CancelStep, Ledger!AskCancel
  <2> QED
    BY <2>1, CoreAssumption DEF Ledger!Next
<1>4. CASE \/ SwitchStep \/ CrashStep \/ StutterStep
           \/ \E c \in ClientIds : MarketStep(c)
  BY <1>4 DEF SwitchStep, CrashStep, StutterStep, MarketStep
<1> QED
  BY <1>1, <1>2, <1>3, <1>4, StepCases, GatewayRefines

(* ImplementsLedger, of every host that runs one call at a time: whatever  *)
(* the venue does, whatever answers are lost and wherever the process      *)
(* crashes, what reaches the tables is a sequence of whole transactions of *)
(* OrderLedger on rows as they are.                                        *)
THEOREM SerialHostImplementsLedger == Serial /\ Spec => ImplementsLedger
<1>1. Init => Ledger!Init
  BY SharedOperators DEF Init, Ledger!Init
<1>2. CoreInv /\ OneAtATime /\ InStep /\ RowsSound /\ [Next]_vars
      => [Ledger!Next]_(Ledger!storeVars)
  BY StepRefines, SharedOperators
<1> QED
  BY <1>1, <1>2, AloneAlways, SoundAlways, PTL
  DEF Spec, ImplementsLedger, Ledger!Spec

-----------------------------------------------------------------------------
(* Rows only advance *)

\* With one call at a time every save continues the row it replaces.
LEMMA RowAdvances ==
    ASSUME CoreInv, InStep, RowsSound, [Next]_vars,
           NEW c \in ClientIds, Exists(c)
    PROVE  Advances(orders[c], orders'[c])
<1>1. orders[c] \in Lifecycle /\ RowOK(orders[c]) /\ orders[c] # None
  BY DEF CoreInv, StoreTyped, RowsSound, Exists
<1>2. CASE RowStays(c)
  BY <1>1, <1>2, LifecycleFacts DEF RowStays, Advances
<1>3. CASE RowSaved(c)
  <2>1. PICK p \in Callers :
           Saves(p) /\ Client(p) = c /\ orders'[c] = calls[p].lifecycle
    BY <1>3 DEF RowSaved
  <2>2. /\ calls[p].pc = "answered" /\ calls[p].intent \in Intents
        /\ orders[c] = Submitting(calls[p].intent) /\ InMemory(calls[p])
    BY <2>1, CallFacts DEF Saves, InStep, CoreInv
  <2>3. PICK target \in {"SUBMITTED", "REJECTED", "RECONCILIATION_REQUIRED"},
             id \in BrokerIds \cup {None} :
             /\ (id # None) <=> (target = "SUBMITTED")
             /\ calls[p].lifecycle = Transition(orders[c], target, id)
    BY <2>2 DEF InMemory
  <2>4. orders[c].status = "SUBMITTING" /\ target \in Status
        /\ target \in Unfilled \ {"SUBMITTING"}
    BY <2>2, NewLifecycleLemma DEF Status, Unfilled
  <2> QED
    BY <1>1, <2>1, <2>3, <2>4, TransitionRowLemma
<1>4. CASE RowResolved(c)
  <2>1. PICK l \in review.localOrders :
           Provable(l) /\ l.intent.clientId = c /\ orders'[c] = Resolution(l)
    BY <1>4 DEF RowResolved
  <2>2. orders[c] = l
    BY <1>4, <2>1 DEF RowResolved, InStep
  <2> QED
    BY <2>1, <2>2, ResolvedSound DEF RowsSound, CoreInv
<1>5. CASE RowCancels(c)
  <2>1. /\ "PENDING_CANCEL" \in Status /\ CanRequestCancel(orders[c])
        /\ orders'[c] = Transition(orders[c], "PENDING_CANCEL", None)
    BY <1>5 DEF RowCancels, Status, RequestCancel
  <2> QED
    BY <1>1, <2>1, TransitionRowLemma
<1>6. CASE RowMoves(c)
  <2>1. PICK n \in DOMAIN inbox :
           /\ inbox[n].order = c
           /\ MovesStatus(inbox[n]) \/ MovesFill(inbox[n])
           /\ orders'[c] = ApplyUpdate(orders[c], inbox[n])
    BY <1>6 DEF RowMoves
  <2>2. Moves(inbox[n])
    BY <2>1 DEF MovesStatus, MovesFill
  <2> QED
    BY <1>1, <2>1, <2>2, MovedSound
<1> QED
  BY <1>2, <1>3, <1>4, <1>5, <1>6, RowStep

(* A terminal row is never written again by a host that runs one call at a *)
(* time: no reconciliation, late answer or late update brings an order     *)
(* back to life.  With overlapping calls one can.                          *)
THEOREM TerminalIsFinal == Serial /\ Spec => TerminalNeverReopens
<1>1. ASSUME CoreInv, InStep, RowsSound, [Next]_vars
      PROVE  [\A c \in ClientIds : StatusOf(c) \in Terminal =>
                 orders'[c] = orders[c]]_vars
  <2> SUFFICES ASSUME NEW c \in ClientIds, StatusOf(c) \in Terminal
               PROVE  orders'[c] = orders[c]
    OBVIOUS
  <2>1. Exists(c)
    BY <1>1, NoneAssumption DEF StatusOf, Exists, Terminal
  <2> QED
    BY <1>1, <2>1, RowAdvances DEF Advances, StatusOf
<1> QED
  BY <1>1, AloneAlways, SoundAlways, PTL DEF Spec, TerminalNeverReopens

-----------------------------------------------------------------------------
(* LocalBehindVenue *)

Closed == {"CANCELED", "REJECTED", "EXPIRED"}

\* Reports that the adapter made of an order that was over say so truly.
Truthful ==
    {u \in Reports : u.type \in Closed => venue[u.order] # None /\ ~ Working(u.order)}

\* An order that a row or an unprocessed report calls closed does not work at
\* the venue, and one whose submission was rejected never came there.
ClosedIsOver ==
    /\ \A c \in ClientIds :
          Exists(c) /\ StatusOf(c) \in Closed => ~ Working(c)
    /\ inbox \in Seq(Truthful)
    /\ \A p \in Callers :
          At(p, "answered") /\ calls[p].lifecycle.status = "REJECTED"
             => venue[Client(p)] = None

\* The venue forgets no order and does not take up one that is over.
LEMMA OverStays ==
    ASSUME CoreInv, [Next]_vars, NEW c \in ClientIds, venue[c] # None
    PROVE  venue'[c] # None /\ (~ Working(c) => ~ Working(c)')
<1>1. venue'[c] # None
  BY VenueForward DEF VenueKeeps
<1>2. ASSUME NEW d \in ClientIds, MarketStep(d), ~ Working(c)
      PROVE  ~ Working(c)'
  <2>1. c # d
    BY <1>2 DEF MarketStep
  <2>2. venue'[c] = venue[c]
    BY <1>2, <2>1, MarketEffect
  <2> QED
    BY <1>2, <2>2 DEF Working
<1> QED
  BY <1>1, <1>2, VenueElsewhere DEF Working

\* An order comes to the venue when a caller sends it.
LEMMA Arrival ==
    ASSUME CoreInv, [Next]_vars, NEW c \in ClientIds,
           venue[c] = None, venue'[c] # None
    PROVE  \E p \in Callers : /\ At(p, "sending") /\ Client(p) = c
                              /\ UNCHANGED <<orders, inbox>>
<1>1. ASSUME NEW p \in Callers, GatewayStep(p)
      PROVE  At(p, "sending") /\ Client(p) = c /\ UNCHANGED <<orders, inbox>>
  <2>1. venue' # venue
    OBVIOUS
  <2>2. \E outcome \in Outcomes : AskBroker(p, outcome)
    BY <1>1, <2>1
    DEF GatewayStep, Continue, EvaluateReadiness, BeginFails, Begin,
        SaveRiskRejection, ClientIdTaken, SaveSubmitting, SaveOutcome, venueVars
  <2>3. At(p, "sending") /\ (c # Client(p) => venue'[c] = venue[c])
    BY <1>1, <2>1, GatewayVenue
  <2> QED
    BY <1>1, <2>2, <2>3 DEF AskBroker, storeVars, GatewayStep, pollerVars
<1>2. ~ \E d \in ClientIds : MarketStep(d)
  BY MarketInv
<1>3. CASE \/ PollStep \/ ReviewStep \/ SwitchStep \/ CrashStep \/ StutterStep
           \/ \E d \in Cancellable : CancelStep(d)
  BY <1>3
  DEF PollStep, PollTrades, PollOrders, ProcessNext, ReviewStep, FetchPositions,
      ContinueReview, ReadLocal, FetchOpenOrders, ResolveUnknown, Record,
      SwitchStep, CrashStep, StutterStep, CancelStep, venueVars
<1> QED
  BY <1>1, <1>2, <1>3, StepCases

\* What the adapter reports of an order is true.
LEMMA ReportIsTrue ==
    ASSUME CoreInv, NEW seen \in Looks, NEW c \in Listed, seen[c] \in Reportable
    PROVE  StateUpdate(c, seen[c]) \in Truthful
<1>1. c \in ClientIds /\ venue[c] # None /\ seen[c] \in Names(venue[c])
  BY DEF Listed, Looks
<1>2. StateUpdate(c, seen[c]) \in Reports
  BY <1>1, StateUpdateLemma DEF Genuine
<1>3. StateUpdate(c, seen[c]).order = c
      /\ StateUpdate(c, seen[c]).type = UpdateType(seen[c])
  BY DEF StateUpdate
<1>4. venue[c].status = "WORKING" =>
         seen[c] \in OpenNames \cup {"PARTIALLY_FILLED"}
  BY <1>1, NamesAssumption DEF Names
<1>5. venue[c].status = "WORKING" => StateUpdate(c, seen[c]).type \notin Closed
  BY <1>3, <1>4 DEF UpdateType, OpenNames, Closed
<1> QED
  BY <1>1, <1>2, <1>3, <1>5 DEF Truthful, Working

\* A report stays true.
LEMMA TrueStays ==
    ASSUME CoreInv, [Next]_vars, NEW u \in Truthful
    PROVE  u \in Truthful'
<1>1. u \in Reports /\ u.order \in ClientIds
  BY ReportFacts DEF Truthful
<1> QED
  BY <1>1, OverStays DEF Truthful

\* What has been polled is true.
LEMMA InboxTrue ==
    ASSUME CoreInv, inbox \in Seq(Truthful), [Next]_vars
    PROVE  inbox' \in Seq(Truthful')
<1>1. \A S : inbox' \in Seq(Truthful) => inbox' \in Seq(Truthful')
  <2>1. Truthful \subseteq Truthful'
    BY TrueStays
  <2> QED
    BY <2>1, SeqMonotonic
<1> SUFFICES inbox' \in Seq(Truthful)
  BY <1>1
<1>2. CASE UNCHANGED inbox
  BY <1>2
<1>6. CASE inbox' = << >>
  <2> HIDE DEF Truthful
  <2>1. << >> \in Seq(Truthful)
    BY EmptySeq
  <2> QED
    BY <1>6, <2>1
<1>3. CASE PollTrades
  <2>0. PICK start \in WindowStarts :
           \E fetched \in Fetched({t \in trades : Instant[t.id] >= start}) :
             inbox' = inbox
             \/ \E batch \in SetToSeqs({t \in fetched : t.id \notin knownTrades}) :
                   inbox' = [n \in DOMAIN batch |-> TradeUpdate(batch[n])]
    BY <1>3 DEF PollTrades
  <2>1. PICK fetched \in Fetched({t \in trades : Instant[t.id] >= start}) :
           inbox' = inbox
           \/ \E batch \in SetToSeqs({t \in fetched : t.id \notin knownTrades}) :
                 inbox' = [n \in DOMAIN batch |-> TradeUpdate(batch[n])]
    BY <2>0
  <2> DEFINE new == {t \in fetched : t.id \notin knownTrades}
  <2>2. new \in SUBSET trades
    BY DEF Fetched
  <2>3. \A t \in trades : TradeUpdate(t) \in Truthful
    <3>1. \A t \in trades : TradeUpdate(t) \in Reports
      BY TradeUpdateLemma DEF Genuine
    <3>2. \A t \in trades : TradeUpdate(t).type \notin Closed
      BY DEF TradeUpdate, Closed
    <3> QED
      BY <3>1, <3>2 DEF Truthful
  <2>4. IsFiniteSet(new) /\ Cardinality(new) \in Nat
    BY <2>2, FS_Subset, FS_CardinalityType DEF CoreInv, TradesTyped
  <2>5. ASSUME NEW batch \in SetToSeqs(new),
               inbox' = [n \in DOMAIN batch |-> TradeUpdate(batch[n])]
        PROVE  inbox' \in Seq(Truthful)
    <3> HIDE DEF new
    <3>1. batch \in [1..Cardinality(new) -> new]
      BY <2>5 DEF SetToSeqs
    <3>2. inbox' \in [1..Cardinality(new) -> Truthful]
      BY <2>2, <2>3, <2>5, <3>1
    <3> QED
      BY <2>4, <3>2, SeqDef
  <2> QED
    BY <2>1, <2>5
<1>4. CASE PollOrders
  <2>1. PICK seen \in Looks, fetched \in FetchedOrders :
           \E batch \in
                 SetToSeqs({c \in {c \in fetched :
                                       knownStates[c] # State(c, seen[c])} :
                              seen[c] \in Reportable}) :
              inbox' = inbox \o [n \in DOMAIN batch |->
                                   StateUpdate(batch[n], seen[batch[n]])]
    BY <1>4 DEF PollOrders
  <2> DEFINE S == {c \in {c \in fetched : knownStates[c] # State(c, seen[c])} :
                      seen[c] \in Reportable}
  <2>2. S \in SUBSET Listed /\ \A c \in S : seen[c] \in Reportable
    BY DEF FetchedOrders
  <2>3. PICK batch \in SetToSeqs(S) :
           inbox' = inbox \o [n \in DOMAIN batch |->
                                StateUpdate(batch[n], seen[batch[n]])]
    BY <2>1
  <2>4. IsFiniteSet(S) /\ Cardinality(S) \in Nat
    <3>1. IsFiniteSet(Listed)
      BY DEF CoreInv, VenueFinite, Listed
    <3> HIDE DEF S
    <3> QED
      BY <2>2, <3>1, FS_Subset, FS_CardinalityType
  <2>5. batch \in [1..Cardinality(S) -> S]
    BY <2>3 DEF SetToSeqs
  <2>6. \A c \in S : StateUpdate(c, seen[c]) \in Truthful
    BY <2>2, ReportIsTrue
  <2> HIDE DEF S
  <2> DEFINE more == [n \in DOMAIN batch |->
                        StateUpdate(batch[n], seen[batch[n]])]
  <2>7. more \in [1..Cardinality(S) -> Truthful]
    BY <2>5, <2>6
  <2>8. more \in Seq(Truthful)
    BY <2>4, <2>7, SeqDef
  <2> HIDE DEF more
  <2> QED
    BY <2>3, <2>8, ConcatProperties DEF more
<1>5. CASE ProcessNext
  BY <1>5, HeadTailProperties DEF ProcessNext
<1> QED
  BY <1>2, <1>3, <1>4, <1>5, <1>6, StepCases
  DEF GatewayStep, PollStep, ReviewStep, CancelStep, MarketStep, SwitchStep,
      CrashStep, StutterStep, pollerVars, PollerRestart

\* A row that is over came there truly.
LEMMA ClosedRow ==
    ASSUME Serial, "misreported" \notin Outcomes, CoreInv, OneAtATime, InStep,
           RowsSound, ClosedIsOver, [Next]_vars,
           NEW c \in ClientIds, Exists(c)', orders'[c].status \in Closed
    PROVE  ~ Working(c)'
<1> USE DEF At
<1>1. SUFFICES ASSUME venue'[c] # None PROVE ~ Working(c)'
  BY DEF Working
<1>2. CASE venue[c] = None
  <2>1. PICK p \in Callers : /\ calls[p].pc = "sending" /\ Client(p) = c
                             /\ UNCHANGED orders
    BY <1>1, <1>2, Arrival
  <2>2. orders'[c] = Submitting(calls[p].intent) /\ calls[p].intent \in Intents
    BY <2>1, CallFacts DEF InStep, CoreInv
  <2> QED
    BY <2>2, NewLifecycleLemma DEF Closed
<1>3. ASSUME venue[c] # None, ~ Working(c)
      PROVE  ~ Working(c)'
  BY <1>3, OverStays
<1>4. ASSUME Working(c) PROVE FALSE
  <2>1. Exists(c) /\ orders[c].status \notin Closed
    BY <1>4 DEF CoreInv, Discipline, ClosedIsOver, StatusOf, Working
  <2>2. CASE RowStays(c)
    BY <2>1, <2>2 DEF RowStays
  <2>3. CASE RowSaved(c)
    <3>1. PICK p \in Callers :
             Saves(p) /\ Client(p) = c /\ orders'[c] = calls[p].lifecycle
      BY <2>3 DEF RowSaved
    <3>2. calls[p].pc = "answered"
      BY <2>1, <3>1 DEF Saves, InStep
    <3>3. calls[p].lifecycle.status # "REJECTED"
      BY <1>4, <3>1, <3>2 DEF ClosedIsOver, Working
    <3>4. /\ calls[p].intent \in Intents /\ InMemory(calls[p])
          /\ calls[p].lifecycle \in Lifecycle
      BY <3>2, CallFacts DEF CoreInv
    <3>5. PICK target \in {"SUBMITTED", "REJECTED", "RECONCILIATION_REQUIRED"},
               id \in BrokerIds \cup {None} :
             calls[p].lifecycle = Transition(Submitting(calls[p].intent), target, id)
      BY <3>2, <3>4 DEF InMemory
    <3>6. Submitting(calls[p].intent) \in Lifecycle /\ target \in Status
          /\ Submitting(calls[p].intent).status = "SUBMITTING"
      BY <3>4, NewLifecycleLemma DEF Status
    <3>7. calls[p].lifecycle.status = target
      BY <3>5, <3>6, TransitionLemma
    <3> QED
      BY <3>1, <3>3, <3>7 DEF Closed
  <2>4. CASE RowResolved(c)
    <3>1. orders'[c].status \in {"SUBMITTED", "ACKNOWLEDGED", "WORKING"}
      BY <2>4, ResolvedSound DEF RowResolved, RowsSound, CoreInv
    <3> QED
      BY <3>1 DEF Closed
  <2>5. CASE RowCancels(c)
    <3>1. orders[c] \in Lifecycle /\ "PENDING_CANCEL" \in Status
      BY <2>1 DEF CoreInv, StoreTyped, Exists, Status
    <3>2. orders'[c].status = "PENDING_CANCEL"
      BY <2>5, <3>1, TransitionLemma DEF RowCancels, RequestCancel
    <3> QED
      BY <3>2 DEF Closed
  <2>6. CASE RowMoves(c)
    <3>1. PICK n \in DOMAIN inbox :
             /\ inbox[n].order = c
             /\ MovesStatus(inbox[n]) \/ MovesFill(inbox[n])
             /\ orders'[c] = ApplyUpdate(orders[c], inbox[n])
      BY <2>6 DEF RowMoves
    <3>2. inbox[n] \in Reports /\ inbox[n] \in Truthful
      <4>1. inbox[n] \in Truthful
        <5> HIDE DEF Truthful
        <5> QED
          BY ElementOfSeq, LenProperties DEF ClosedIsOver
      <4> QED
        BY <4>1 DEF Truthful
    <3>3. /\ inbox[n] \in UpdateShape(Keys, Executions) /\ WellFormed(inbox[n])
          /\ orders[c] \in Lifecycle /\ UpdateAccepted(orders[c], inbox[n])
      BY <2>1, <3>1, <3>2, ReportFacts
      DEF CoreInv, StoreTyped, Exists, MovesStatus, MovesFill, Moves
    <3>4. orders'[c].status = IF IsFill(inbox[n]) THEN FillTarget(orders[c], inbox[n])
                              ELSE inbox[n].type
      BY <3>1, <3>3, ApplyUpdateLemma
    <3>5. FillTarget(orders[c], inbox[n]) \notin Closed
      BY DEF FillTarget, Closed
    <3>6. inbox[n].type \notin Closed
      BY <1>4, <3>1, <3>2 DEF Truthful
    <3> QED
      BY <3>4, <3>5, <3>6
  <2> QED
    BY <2>2, <2>3, <2>4, <2>5, <2>6, RowStep
<1> QED
  BY <1>2, <1>3, <1>4

\* A rejected submission did not reach the venue.
LEMMA RefusedIsAbsent ==
    ASSUME Serial, "misreported" \notin Outcomes, CoreInv, OneAtATime, InStep,
           ClosedIsOver, [Next]_vars, NEW p \in Callers,
           calls'[p].pc = "answered", calls'[p].lifecycle.status = "REJECTED"
    PROVE  venue'[Client(p)'] = None
<1> USE DEF At
<1>1. CASE calls'[p] = calls[p]
  <2>1. venue[Client(p)] = None /\ Client(p) \in ClientIds /\ Client(p)' = Client(p)
    BY <1>1, CallFacts DEF ClosedIsOver, Client, CoreInv
  <2>2. ~ \E q \in Callers : calls[q].pc = "sending"
    BY <1>1 DEF OneAtATime, InCall
  <2> QED
    BY <2>1, <2>2, Arrival
<1>2. ASSUME calls'[p] # calls[p]
      PROVE  venue'[Client(p)'] = None
  <2>1. PICK q \in Callers : GatewayStep(q)
    BY <1>2, StepCases
    DEF PollStep, ReviewStep, CancelStep, MarketStep, SwitchStep, CrashStep,
        StutterStep, Idle
  <2>2. PICK outcome \in Outcomes : AskBroker(p, outcome) /\ outcome \notin Raises
    <3>1. calls \in [Callers -> Call] /\ calls[p] \in Call /\ calls[q] \in Call
      BY DEF CoreInv, CallsTyped
    <3>2. CASE \E i \in Intents : EvaluateReadiness(q, i)
      <4>1. PICK i \in Intents : EvaluateReadiness(q, i)
        BY <3>2
      <4> DEFINE x == [Idle EXCEPT !.pc = "ready", !.intent = i,
                                   !.snapshot = EvaluatedReadiness]
      <4>2. calls' = [calls EXCEPT ![q] = x]
        BY <4>1 DEF EvaluateReadiness
      <4>3. x.pc = "ready"
        BY DEF Idle
      <4> HIDE DEF x
      <4> QED
        BY <1>2, <3>1, <4>2, <4>3
    <3>3. CASE BeginFails(q) \/ SaveRiskRejection(q) \/ ClientIdTaken(q) \/ SaveOutcome(q)
      BY <1>2, <3>1, <3>3 DEF BeginFails, SaveRiskRejection, ClientIdTaken,
                              SaveOutcome, Return, Idle
    <3>4. CASE \E approved \in BOOLEAN : Begin(q, approved)
      <4>1. PICK approved \in BOOLEAN : Begin(q, approved)
        BY <3>4
      <4> DEFINE x == [calls[q] EXCEPT
                !.pc = IF approved THEN "approved" ELSE "riskRefused",
                !.lifecycle = IF approved THEN Submitting(calls[q].intent)
                              ELSE RiskRejected(calls[q].intent)]
      <4>2. calls' = [calls EXCEPT ![q] = x]
        BY <4>1 DEF Begin
      <4>3. x.pc \in {"approved", "riskRefused"}
        BY <3>1 DEF Call, Idle
      <4> HIDE DEF x
      <4> QED
        BY <1>2, <3>1, <4>2, <4>3
    <3>5. CASE SaveSubmitting(q)
      <4> DEFINE x == [calls[q] EXCEPT !.pc = "sending"]
      <4>1. calls' = [calls EXCEPT ![q] = x]
        BY <3>5 DEF SaveSubmitting, Goto
      <4>2. x.pc = "sending"
        BY <3>1 DEF Call, Idle
      <4> HIDE DEF x
      <4> QED
        BY <1>2, <3>1, <4>1, <4>2
    <3>6. ASSUME NEW outcome \in Outcomes, AskBroker(q, outcome)
          PROVE  q = p /\ outcome \notin Raises
      BY <1>2, <3>1, <3>6 DEF AskBroker, Return, Idle
    <3> QED
      BY <2>1, <3>2, <3>3, <3>4, <3>5, <3>6 DEF GatewayStep, Continue
  <2> DEFINE x == [calls[p] EXCEPT !.pc = "answered",
                      !.lifecycle = Answered(calls[p].lifecycle, outcome)]
  <2>3. /\ calls' = [calls EXCEPT ![p] = x] /\ calls[p].pc = "sending"
        /\ outcome \notin ReachesVenue => UNCHANGED venue
    BY <2>2 DEF AskBroker
  <2>4. /\ venue[Client(p)] = None /\ FreshBrokerId \in BrokerIds
        /\ calls[p].lifecycle \in Lifecycle /\ calls \in [Callers -> Call]
    BY <2>3, SendingLemma, CallFacts DEF CoreInv, CallsTyped
  <2>5. x.intent = calls[p].intent
        /\ x.lifecycle = Answered(calls[p].lifecycle, outcome)
    BY <2>4 DEF Call, Idle
  <2> HIDE DEF x
  <2>6. Client(p)' = Client(p) /\ Answered(calls[p].lifecycle, outcome).status = "REJECTED"
    BY <2>3, <2>4, <2>5 DEF Client
  <2>7. outcome = "refused"
    BY <2>2, <2>4, <2>6, AnsweredLemma
  <2> QED
    BY <2>3, <2>4, <2>6, <2>7 DEF ReachesVenue
<1> QED
  BY <1>1, <1>2

\* Whatever a serial host does next, what it calls over is over.
LEMMA ClosedStep ==
    ASSUME Serial, "misreported" \notin Outcomes, CoreInv, OneAtATime, InStep,
           RowsSound, ClosedIsOver, [Next]_vars
    PROVE  ClosedIsOver'
<1>1. inbox' \in Seq(Truthful')
  BY InboxTrue DEF ClosedIsOver
<1>2. ASSUME NEW c \in ClientIds, Exists(c)', StatusOf(c)' \in Closed
      PROVE  ~ Working(c)'
  BY <1>2, ClosedRow DEF StatusOf, Exists
<1>3. ASSUME NEW p \in Callers, At(p, "answered")',
             calls'[p].lifecycle.status = "REJECTED"
      PROVE  venue'[Client(p)'] = None
  BY <1>3, RefusedIsAbsent DEF At
<1> QED
  BY <1>1, <1>2, <1>3 DEF ClosedIsOver

\* An order whose row is filled is filled at the venue.
LEMMA FilledIsOver ==
    ASSUME CoreInv, OneIntent, VenueCounts, RowsBacked, RowsSound,
           NEW c \in ClientIds, Exists(c), StatusOf(c) = "FILLED"
    PROVE  ~ Working(c)
<1>1. SUFFICES ASSUME Working(c) PROVE FALSE
  OBVIOUS
<1>2. /\ orders[c] \in Lifecycle /\ RowOK(orders[c]) /\ orders[c].status = "FILLED"
      /\ venue[c] \in VenueOrder /\ venue[c] # None
  BY <1>1 DEF CoreInv, StoreTyped, VenueTyped, RowsSound, StatusOf, Exists, Working
<1>3. /\ orders[c].filled = orders[c].intent.quantity
      /\ orders[c].intent \in Intents /\ venue[c].intent \in Intents
      /\ orders[c].intent.quantity \in Nat \ {0} /\ venue[c].filled \in Nat
  BY <1>2, LifecycleFacts, VenueOrderFacts, IntentsAssumption DEF RowOK, Intent
<1>4. orders[c].intent = venue[c].intent
  <2>1. Claim(c, orders[c].intent) /\ Claim(c, venue[c].intent)
    BY <1>2 DEF Claim, StatusOf
  <2> QED
    BY <1>3, <2>1 DEF OneIntent
<1>5. orders[c].filled <= venue[c].filled
  BY <1>3, BackedIsReal DEF FillsAreReal
<1>6. venue[c].filled < venue[c].intent.quantity
  BY <1>1, <1>2 DEF VenueCounts
<1> QED
  BY <1>3, <1>4, <1>5, <1>6

(* The order table of a host that runs one call at a time never runs ahead *)
(* of the venue, as long as no adapter reports a rejection of an order     *)
(* that the venue took: what is filled locally was traded, and what is     *)
(* over locally does not work there.  The excluded outcome is that of the  *)
(* run guessed_rejection, which breaks it.                                 *)
THEOREM LocalNeverAhead ==
    Serial /\ "misreported" \notin Outcomes /\ Spec => []LocalBehindVenue
<1> SUFFICES ASSUME Serial, "misreported" \notin Outcomes
             PROVE  Spec => []LocalBehindVenue
  OBVIOUS
<1>1. Init => ClosedIsOver
  BY DEF Init, StoreInit, PollerInit, GatewayInit, Idle, ClosedIsOver, Exists, At
<1>2. /\ CoreInv /\ OneAtATime /\ InStep /\ RowsSound
      /\ ClosedIsOver /\ [Next]_vars
      => ClosedIsOver'
  BY ClosedStep
<1>3. /\ CoreInv /\ OneIntent /\ VenueCounts /\ RowsBacked /\ RowsSound
      /\ ClosedIsOver
      => LocalBehindVenue
  <2> SUFFICES ASSUME CoreInv, OneIntent, VenueCounts, RowsBacked, RowsSound,
                      ClosedIsOver, NEW c \in ClientIds, Exists(c)
               PROVE  /\ orders[c].filled > 0 =>
                           venue[c] # None /\ orders[c].filled <= venue[c].filled
                      /\ StatusOf(c) \in Terminal => ~ Working(c)
    BY DEF LocalBehindVenue
  <2>1. FillsAreReal
    BY BackedIsReal
  <2> QED
    BY <2>1, FilledIsOver DEF FillsAreReal, ClosedIsOver, Terminal, Closed
<1> QED
  BY <1>1, <1>2, <1>3, AloneAlways, SoundAlways, BackedAlways, PositionAlways,
     PTL DEF Spec

=============================================================================
