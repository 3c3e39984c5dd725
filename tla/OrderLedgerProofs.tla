-------------------------- MODULE OrderLedgerProofs --------------------------
(***************************************************************************)
(* Proofs about OrderLedger and the hash chain of its journal, for every   *)
(* set of intents, books, identifiers and updates.                         *)
(***************************************************************************)
EXTENDS OrderLedger, AuditChain, StoreProofs

-----------------------------------------------------------------------------
(* The order state machine *)

\* What an accepted update makes of an order.
LEMMA UpdateLemma ==
    ASSUME NEW l \in Lifecycle, NEW u \in Updates, UpdateAccepted(l, u)
    PROVE  /\ ApplyUpdate(l, u) \in Lifecycle
           /\ ApplyUpdate(l, u).intent = l.intent
           /\ ApplyUpdate(l, u).filled = l.filled + u.quantity
           /\ ApplyUpdate(l, u).status =
                IF IsFill(u) THEN FillTarget(l, u) ELSE u.type
           /\ l.brokerId # None =>
                ApplyUpdate(l, u).brokerId = l.brokerId
BY UpdatesAssumption, ApplyUpdateLemma

-----------------------------------------------------------------------------
(* Every step is one of three: nothing but an event claim, a row written   *)
(* without touching exposure, or one execution applied.                    *)

RowsOK == \A c \in ClientIds : Exists(c) => RowOK(orders[c])

\* The step writes row l of order c, which may stand where the old one stood.
RowWrite(c, l) ==
    /\ c \in ClientIds
    /\ l \in Lifecycle
    /\ l.intent.clientId = c
    /\ RowOK(l)
    /\ Exists(c) => Advances(orders[c], l)
    /\ orders' = [orders EXCEPT ![c] = l]

ClaimStep ==
    /\ UNCHANGED <<orders, positions, claimedExecutions, journal>>
    /\ claimedEvents' \subseteq EventKeys

QuietStep(c, l) ==
    /\ RowWrite(c, l)
    /\ l.filled = IF Exists(c) THEN orders[c].filled ELSE 0
    /\ UNCHANGED <<positions, claimedExecutions>>
    /\ claimedEvents' \subseteq EventKeys
    /\ \/ journal' = journal
       \/ \E kind \in QuietKinds :
             journal' = Append(journal, OrderEvent(kind, c))

\* The step rewrites several rows, without touching exposure or journal.
RowsStep ==
    /\ UNCHANGED <<positions, claimedExecutions, journal>>
    /\ claimedEvents' \subseteq EventKeys
    /\ orders' \in [ClientIds -> Lifecycle \cup {None}]
    /\ \A c \in ClientIds : orders'[c] # None =>
          orders'[c].intent.clientId = c /\ RowOK(orders'[c])
    /\ \A c \in ClientIds : orders[c] # None =>
          /\ Advances(orders[c], orders'[c])
          /\ orders'[c].filled = orders[c].filled
    /\ \A c \in ClientIds : orders[c] = None => orders'[c] = None

FillStep(u) ==
    /\ Exists(u.order)
    /\ IsFill(u)
    /\ RowWrite(u.order, ApplyUpdate(orders[u.order], u))
    /\ ApplyUpdate(orders[u.order], u).filled =
          orders[u.order].filled + u.quantity
    /\ u.book \in Books
    /\ u.book = orders[u.order].intent.book
    /\ u.execution \in ExecutionKeys \ claimedExecutions
    /\ claimedEvents' \subseteq EventKeys
    /\ claimedExecutions' = claimedExecutions \cup {u.execution}
    /\ LET signed == orders[u.order].intent.side * u.quantity IN
         /\ signed \in Int
         /\ positions' = [positions EXCEPT ![u.book] = @ + signed]
    /\ journal' = Append(journal, FillEvent(u, orders[u.order]))

\* A step that saves a row, leaves exposure alone and journals the order event.
LEMMA QuietStepIntro ==
    ASSUME TypeOK, NEW c \in ClientIds, NEW l \in Lifecycle,
           NEW kind \in QuietKinds,
           l.intent.clientId = c, RowOK(l), SaveOrder(l),
           Exists(c) => Advances(orders[c], l),
           l.filled = IF Exists(c) THEN orders[c].filled ELSE 0,
           UNCHANGED <<positions, claimedExecutions>>,
           claimedEvents' \subseteq EventKeys,
           \/ journal' = journal
           \/ journal' = Append(journal, OrderEvent(kind, c))
    PROVE  QuietStep(c, l)
<1>1. RowWrite(c, l)
  BY DEF RowWrite, SaveOrder
<1>2. QED
  BY <1>1 DEF QuietStep

\* A risk rejection writes one row.
LEMMA RejectByRiskStep ==
    ASSUME TypeOK, NEW i \in Intents, RejectByRisk(i)
    PROVE  \E c \in ClientIds, l \in Lifecycle : QuietStep(c, l)
<1> DEFINE r == RiskRejected(i)
<1>1. /\ r \in Lifecycle /\ r.intent = i /\ r.filled = 0 /\ RowOK(r)
      /\ i.clientId \in ClientIds
  BY NewRowLemma, NewLifecycleLemma
<1> HIDE DEF r
<1>2. /\ ~ Exists(i.clientId)
      /\ SaveOrder(r)
      /\ journal' =
           Append(journal, OrderEvent("OrderRiskRejected", i.clientId))
      /\ UNCHANGED <<positions, claimedEvents, claimedExecutions>>
  BY DEF RejectByRisk, r
<1>3. claimedEvents' \subseteq EventKeys /\ "OrderRiskRejected" \in QuietKinds
  BY <1>2 DEF TypeOK, QuietKinds, EventKinds
<1>4. QuietStep(i.clientId, r)
  BY <1>1, <1>2, <1>3, QuietStepIntro
<1>5. QED
  BY <1>1, <1>4

\* So does the start of a submission, ...
LEMMA StartSubmissionStep ==
    ASSUME TypeOK, NEW i \in Intents, StartSubmission(i)
    PROVE  \E c \in ClientIds, l \in Lifecycle : QuietStep(c, l)
<1>1. /\ Submitting(i) \in Lifecycle /\ Submitting(i).intent = i
      /\ Submitting(i).filled = 0
      /\ RowOK(Submitting(i)) /\ i.clientId \in ClientIds
  BY NewRowLemma, NewLifecycleLemma
<1>2. /\ ~ Exists(i.clientId)
      /\ SaveOrder(Submitting(i))
      /\ journal' =
           Append(journal, OrderEvent("OrderSubmissionStarted", i.clientId))
      /\ UNCHANGED <<positions, claimedEvents, claimedExecutions>>
  BY DEF StartSubmission
<1>3. /\ claimedEvents' \subseteq EventKeys
      /\ "OrderSubmissionStarted" \in QuietKinds
  BY <1>2 DEF TypeOK, QuietKinds, EventKinds
<1>4. QuietStep(i.clientId, Submitting(i))
  BY <1>1, <1>2, <1>3, QuietStepIntro
<1>5. QED
  BY <1>1, <1>4

\* The old row of an order that exists.
LEMMA OldRow ==
    ASSUME TypeOK, RowsOK, NEW c \in ClientIds, Exists(c)
    PROVE  /\ orders[c] \in Lifecycle
           /\ orders[c].intent.clientId = c
           /\ RowOK(orders[c])
BY DEF TypeOK, RowsOK, Exists

\* ... its outcome, ...
LEMMA FinishSubmissionStep ==
    ASSUME TypeOK, RowsOK, NEW c \in ClientIds,
           NEW id \in BrokerIds \cup {None},
           NEW t \in {"SUBMITTED", "REJECTED", "RECONCILIATION_REQUIRED"},
           FinishSubmission(c, t, id)
    PROVE  \E l \in Lifecycle : QuietStep(c, l)
<1> DEFINE m == Transition(orders[c], t, id)
<1>1. Exists(c) /\ orders[c].status = "SUBMITTING"
  BY DEF FinishSubmission, StatusOf
<1>2. t \in Status /\ orders[c] \in Lifecycle
  BY <1>1, OldRow DEF Status
<1>3. t = "RECONCILIATION_REQUIRED" => id = None
  BY DEF FinishSubmission
<1>4. RowOK(m) /\ Advances(orders[c], m)
  BY <1>1, <1>2, <1>3, OldRow, TransitionRowLemma DEF Unfilled
<1>5. m \in Lifecycle /\ m.intent.clientId = c /\ m.filled = orders[c].filled
  BY <1>1, <1>2, OldRow, TransitionLemma
<1>6. OutcomeEvent(t) \in QuietKinds
  BY DEF OutcomeEvent, QuietKinds, EventKinds
<1> HIDE DEF m
<1>7. /\ SaveOrder(m)
      /\ journal' = Append(journal, OrderEvent(OutcomeEvent(t), c))
      /\ UNCHANGED <<positions, claimedEvents, claimedExecutions>>
  BY DEF FinishSubmission, m
<1>8. QuietStep(c, m)
  BY <1>1, <1>4, <1>5, <1>6, <1>7, QuietStepIntro DEF TypeOK
<1>9. QED
  BY <1>5, <1>8

\* (A reconciliation writes several rows and no journal entry.)
LEMMA ResolveStep ==
    ASSUME TypeOK, RowsOK, NEW S \in SUBSET ClientIds,
           NEW id \in [S -> BrokerIds],
           NEW t \in [S -> ResolvableUnfilled], Resolve(S, t, id)
    PROVE  RowsStep
<1> DEFINE m(c) == Transition(orders[c], t[c], id[c])
<1>1. ASSUME NEW c \in S
      PROVE  /\ Exists(c) /\ m(c) \in Lifecycle /\ RowOK(m(c))
             /\ m(c).intent.clientId = c /\ m(c).filled = orders[c].filled
             /\ Advances(orders[c], m(c))
  <2>1. Exists(c) /\ orders[c].status = "RECONCILIATION_REQUIRED"
    BY <1>1 DEF Resolve, StatusOf
  <2>2. /\ t[c] \in Status
        /\ t[c] \in (Unfilled \ {"SUBMITTING"}) \cup {"CANCELED", "EXPIRED"}
        /\ t[c] # "RECONCILIATION_REQUIRED"
        /\ id[c] \in BrokerIds
    BY <1>1 DEF Status, Unfilled, ResolvableUnfilled
  <2>3. orders[c] \in Lifecycle /\ orders[c].intent.clientId = c
        /\ RowOK(orders[c])
    BY <1>1, <2>1, OldRow
  <2>4. RowOK(m(c)) /\ Advances(orders[c], m(c))
    BY <2>1, <2>2, <2>3, TransitionRowLemma
  <2>5. QED
    BY <2>1, <2>2, <2>3, <2>4, TransitionLemma
<1>2. orders' = [c \in ClientIds |-> IF c \in S THEN m(c) ELSE orders[c]]
  BY DEF Resolve
<1> HIDE DEF m
<1>3. ASSUME NEW c \in ClientIds \ S PROVE orders'[c] = orders[c]
  BY <1>2, <1>3
<1>4. ASSUME NEW c \in S PROVE orders'[c] = m(c)
  BY <1>2, <1>4
<1>5. /\ UNCHANGED <<positions, claimedExecutions, journal>>
      /\ claimedEvents' \subseteq EventKeys
  BY DEF Resolve, TypeOK
<1>6. ASSUME NEW c \in ClientIds, c \notin S, Exists(c)
      PROVE  Advances(orders[c], orders[c]) /\ orders[c] \in Lifecycle
  BY <1>6, OldRow, LifecycleFacts, NoneAssumption DEF Advances
<1>7. orders' \in [ClientIds -> Lifecycle \cup {None}]
  BY <1>1, <1>2 DEF TypeOK
<1>8. \A c \in ClientIds : orders'[c] # None =>
         orders'[c].intent.clientId = c /\ RowOK(orders'[c])
  BY <1>1, <1>3, <1>4, OldRow DEF Exists
<1>9. \A c \in ClientIds : orders[c] # None =>
         /\ Advances(orders[c], orders'[c])
         /\ orders'[c].filled = orders[c].filled
  BY <1>1, <1>3, <1>4, <1>6 DEF Exists
<1>10. \A c \in ClientIds : orders[c] = None => orders'[c] = None
  BY <1>1, <1>3 DEF Exists
<1>11. QED
  BY <1>5, <1>7, <1>8, <1>9, <1>10 DEF RowsStep

\* ... and a request to cancel.
LEMMA AskCancelStep ==
    ASSUME TypeOK, RowsOK, NEW c \in ClientIds, AskCancel(c)
    PROVE  \E l \in Lifecycle : QuietStep(c, l)
<1> DEFINE m == Transition(orders[c], "PENDING_CANCEL", None)
<1>1. Exists(c) /\ CanRequestCancel(orders[c])
  BY DEF AskCancel
<1>2. "PENDING_CANCEL" \in Status
  BY DEF Status
<1>3. orders[c] \in Lifecycle /\ orders[c].intent.clientId = c
      /\ RowOK(orders[c])
  BY <1>1, OldRow
<1>4. RowOK(m) /\ Advances(orders[c], m)
  BY <1>1, <1>2, <1>3, TransitionRowLemma
<1>5. m \in Lifecycle /\ m.intent.clientId = c /\ m.filled = orders[c].filled
  BY <1>2, <1>3, TransitionLemma
<1> HIDE DEF m
<1>6. /\ SaveOrder(m)
      /\ UNCHANGED <<positions, claimedEvents, claimedExecutions, journal>>
  BY DEF AskCancel, RequestCancel, m
<1>7. claimedEvents' \subseteq EventKeys /\ "OrderSubmitted" \in QuietKinds
  BY <1>6 DEF TypeOK, QuietKinds, EventKinds
<1>8. QuietStep(c, m)
  BY <1>1, <1>4, <1>5, <1>6, <1>7, QuietStepIntro
<1>9. QED
  BY <1>5, <1>8

\* The fields of a well-formed update.
LEMMA UpdateFacts ==
    ASSUME NEW u \in Updates
    PROVE  /\ u.event \in EventKeys
           /\ u.order \in ClientIds
           /\ u.book \in Books
           /\ u.quantity \in Nat
           /\ IsFill(u) => u.execution \in ExecutionKeys /\ u.quantity > 0
           /\ ~ IsFill(u) => u.execution = None /\ u.quantity = 0
           /\ None \notin ExecutionKeys
BY UpdatesAssumption DEF UpdateShape, WellFormed

\* A committed update moves a status, or applies a fill.
LEMMA CommitUpdateStep ==
    ASSUME TypeOK, RowsOK, NEW u \in Updates, CommitUpdate(u)
    PROVE  \/ \E l \in Lifecycle : QuietStep(u.order, l)
           \/ FillStep(u)
<1> DEFINE o == orders[u.order]
           m == ApplyUpdate(o, u)
<1> USE UpdateFacts
<1>1. Exists(u.order) /\ UpdateAccepted(o, u)
  BY DEF CommitUpdate
<1>2. o \in Lifecycle /\ o.intent.clientId = u.order /\ RowOK(o)
  BY <1>1, OldRow
<1>3. /\ m \in Lifecycle /\ m.intent = o.intent
      /\ m.filled = o.filled + u.quantity
  BY <1>1, <1>2, UpdateLemma
<1>4. RowOK(m) /\ Advances(o, m)
  BY <1>1, <1>2, UpdatesAssumption, FillRowLemma, ReportRowLemma
<1>5. SaveOrder(m) /\ claimedEvents' \subseteq EventKeys
  BY DEF CommitUpdate, TypeOK
<1>6. CASE IsFill(u)
  <2>1. o.intent.side * u.quantity \in Int
    <3>1. o.intent.side \in {1, -1} /\ u.quantity \in Nat
      BY <1>2, LifecycleFacts
    <3>2. QED
      BY <3>1
  <2>2. RowWrite(u.order, m)
    BY <1>2, <1>3, <1>4, <1>5 DEF RowWrite, SaveOrder
  <2>3. /\ u.execution \in ExecutionKeys \ claimedExecutions
        /\ claimedExecutions' = claimedExecutions \cup {u.execution}
        /\ positions' =
             [positions EXCEPT ![u.book] = @ + o.intent.side * u.quantity]
        /\ journal' = Append(journal, FillEvent(u, o))
    BY <1>6 DEF CommitUpdate, ClaimedBy, Fresh, PositionAfter
  <2>4. u.book = o.intent.book
    BY <1>1 DEF UpdateAccepted, IdentityMatches
  <2>5. QED
    BY <1>1, <1>3, <1>5, <1>6, <2>1, <2>2, <2>3, <2>4 DEF FillStep
<1>7. CASE ~ IsFill(u)
  <2>1. m.filled = o.filled
    BY <1>2, <1>3, <1>7, LifecycleFacts
  <2>2. /\ UNCHANGED <<positions, claimedExecutions>>
        /\ journal' = Append(journal,
             OrderEvent("BrokerOrderUpdateApplied", u.order))
    BY <1>7 DEF CommitUpdate, ClaimedBy, PositionAfter
  <2>3. "BrokerOrderUpdateApplied" \in QuietKinds
    BY DEF QuietKinds, EventKinds
  <2> HIDE DEF m
  <2>4. QuietStep(u.order, m)
    BY <1>1, <1>2, <1>3, <1>4, <1>5, <2>1, <2>2, <2>3, QuietStepIntro
  <2>5. QED
    BY <1>3, <2>4
<1>8. QED
  BY <1>6, <1>7

\* Every transaction is one of four kinds.
LEMMA StepLemma ==
    ASSUME TypeOK, RowsOK, [Next]_storeVars
    PROVE  \/ ClaimStep
           \/ \E c \in ClientIds, l \in Lifecycle : QuietStep(c, l)
           \/ RowsStep
           \/ \E u \in Updates : FillStep(u)
<1>1. ASSUME NEW i \in Intents, RejectByRisk(i) \/ StartSubmission(i)
      PROVE  \E c \in ClientIds, l \in Lifecycle : QuietStep(c, l)
  BY <1>1, RejectByRiskStep, StartSubmissionStep
<1>2. ASSUME NEW c \in ClientIds, NEW id \in BrokerIds \cup {None},
             NEW t \in {"SUBMITTED", "REJECTED", "RECONCILIATION_REQUIRED"},
             FinishSubmission(c, t, id)
      PROVE  \E l \in Lifecycle : QuietStep(c, l)
  BY <1>2, FinishSubmissionStep
<1>3. ASSUME NEW S \in SUBSET ClientIds, NEW id \in [S -> BrokerIds],
             NEW t \in [S -> ResolvableUnfilled], Resolve(S, t, id)
      PROVE  RowsStep
  BY <1>3, ResolveStep
<1>4. ASSUME NEW c \in ClientIds, AskCancel(c)
      PROVE  \E l \in Lifecycle : QuietStep(c, l)
  BY <1>4, AskCancelStep
<1>5. ASSUME NEW u \in Updates, ProcessUpdate(u)
      PROVE  \/ ClaimStep
             \/ \E l \in Lifecycle : QuietStep(u.order, l)
             \/ FillStep(u)
  <2>1. CASE IgnoreDuplicateEvent(u)
    BY <2>1 DEF IgnoreDuplicateEvent, ClaimStep, storeVars, TypeOK
  <2>2. CASE IgnoreDuplicateExecution(u)
    BY <2>2, UpdateFacts DEF IgnoreDuplicateExecution, ClaimStep, TypeOK
  <2>3. CASE RollBackUpdate(u)
    BY <2>3 DEF RollBackUpdate, ClaimStep, storeVars, TypeOK
  <2>4. CASE CommitUpdate(u)
    BY <2>4, CommitUpdateStep
  <2>5. QED
    BY <1>5, <2>1, <2>2, <2>3, <2>4 DEF ProcessUpdate
<1>6. CASE UNCHANGED storeVars
  BY <1>6 DEF ClaimStep, storeVars, TypeOK
<1>7. QED
  BY <1>1, <1>2, <1>3, <1>4, <1>5, <1>6, UpdateFacts DEF Next

-----------------------------------------------------------------------------
(* The rows *)

\* The effect of writing one row on the others.
LEMMA RowWriteLemma ==
    ASSUME TypeOK, RowsOK, NEW c, NEW l, RowWrite(c, l)
    PROVE  /\ orders' \in [ClientIds -> Lifecycle \cup {None}]
           /\ \A d \in ClientIds : orders'[d] # None =>
                 orders'[d].intent.clientId = d /\ RowOK(orders'[d])
           /\ \A d \in ClientIds : orders[d] # None =>
                 Advances(orders[d], orders'[d])
<1>1. /\ orders \in [ClientIds -> Lifecycle \cup {None}]
      /\ \A d \in ClientIds : orders[d] # None =>
            /\ orders[d] \in Lifecycle
            /\ orders[d].intent.clientId = d
            /\ RowOK(orders[d])
  BY DEF TypeOK, RowsOK, Exists
<1>2. /\ c \in ClientIds /\ l \in Lifecycle /\ l.intent.clientId = c
      /\ RowOK(l)
      /\ orders[c] # None => Advances(orders[c], l)
      /\ orders' = [orders EXCEPT ![c] = l]
  BY DEF RowWrite, Exists
<1>3. \A d \in ClientIds : orders'[d] = IF d = c THEN l ELSE orders[d]
  BY <1>1, <1>2
<1>4. \A d \in ClientIds : orders[d] # None => Advances(orders[d], orders[d])
  BY <1>1, LifecycleFacts, NoneAssumption DEF Advances
<1>5. QED
  BY <1>1, <1>2, <1>3, <1>4

\* A position moved by an integer.
LEMMA PositionTypeLemma ==
    ASSUME TypeOK, NEW u \in Updates, FillStep(u)
    PROVE  /\ positions' \in [Books -> Int]
           /\ FillEvent(u, orders[u.order]) \in Entry(ExecutionKeys)
<1>1. /\ u.book \in Books
      /\ orders[u.order].intent.side * u.quantity \in Int
      /\ positions' = [positions EXCEPT ![u.book] =
                         @ + orders[u.order].intent.side * u.quantity]
      /\ u.execution \in ExecutionKeys
      /\ positions \in [Books -> Int]
  BY DEF FillStep, TypeOK
<1>2. positions[u.book] + orders[u.order].intent.side * u.quantity \in Int
  BY <1>1
<1>3. QED
  BY <1>1, <1>2, UpdateFacts DEF FillEvent, Entry, EventKinds

Inv == TypeOK /\ RowsOK

\* The invariant holds of empty tables, ...
LEMMA InitInv == Init => Inv
<1>1. ASSUME Init PROVE Inv
  BY <1>1 DEF Init, StoreInit, Inv, TypeOK, RowsOK, Exists
<1>2. QED
  BY <1>1

\* ... every transaction keeps it, ...
LEMMA StepInv == ASSUME Inv, [Next]_storeVars PROVE Inv'
<1>1. TypeOK /\ RowsOK
  BY DEF Inv
<1>2. /\ journal \in Seq(Entry(ExecutionKeys))
      /\ claimedExecutions \subseteq ExecutionKeys
      /\ positions \in [Books -> Int]
  BY <1>1 DEF TypeOK, Entry
<1>3. CASE ClaimStep
  BY <1>1, <1>3 DEF ClaimStep, Inv, TypeOK, RowsOK, Exists
<1>4. ASSUME NEW c \in ClientIds, NEW l \in Lifecycle, QuietStep(c, l)
      PROVE  Inv'
  <2>1. RowWrite(c, l)
    BY <1>4 DEF QuietStep
  <2>2. journal' \in Seq(Entry(ExecutionKeys))
    <3>1. \A kind \in QuietKinds : OrderEvent(kind, c) \in Entry(ExecutionKeys)
      BY DEF OrderEvent, Entry, QuietKinds
    <3>2. QED
      BY <1>2, <1>4, <3>1, AppendProperties DEF QuietStep
  <2>3. /\ positions' = positions
        /\ claimedExecutions' = claimedExecutions
        /\ claimedEvents' \subseteq EventKeys
    BY <1>4 DEF QuietStep
  <2>4. QED
    BY <1>1, <1>2, <2>1, <2>2, <2>3, RowWriteLemma
    DEF Inv, TypeOK, RowsOK, Exists, Entry
<1>5. ASSUME NEW u \in Updates, FillStep(u)
      PROVE  Inv'
  <2>1. RowWrite(u.order, ApplyUpdate(orders[u.order], u))
    BY <1>5 DEF FillStep
  <2>2. journal' \in Seq(Entry(ExecutionKeys))
    BY <1>1, <1>2, <1>5, PositionTypeLemma, AppendProperties DEF FillStep
  <2>3. /\ positions' \in [Books -> Int]
        /\ claimedExecutions' \subseteq ExecutionKeys
        /\ claimedEvents' \subseteq EventKeys
    BY <1>1, <1>2, <1>5, PositionTypeLemma DEF FillStep
  <2>4. QED
    BY <1>1, <2>1, <2>2, <2>3, RowWriteLemma
    DEF Inv, TypeOK, RowsOK, Exists, Entry
<1>6. CASE RowsStep
  BY <1>1, <1>6 DEF RowsStep, Inv, TypeOK, RowsOK, Exists
<1>7. QED
  BY <1>1, <1>3, <1>4, <1>5, <1>6, StepLemma

\* ... and so it always holds.
LEMMA InvHolds == Spec => []Inv
BY InitInv, StepInv, PTL DEF Spec

(* The tables are well typed: every row is stored under its own client id. *)
THEOREM TypeCorrect == Spec => []TypeOK
BY InvHolds, PTL DEF Inv

(* StatusAgreesWithFills holds of every stored order whatever updates      *)
(* arrive, in whatever order and however often.                            *)
THEOREM StatusAgreement == Spec => []StatusAgreesWithFills
<1>1. Inv => StatusAgreesWithFills
  BY DEF Inv, RowsOK, RowOK, StatusAgreesWithFills, Unfilled
<1>2. QED
  BY <1>1, InvHolds, PTL

(* OrderOnlyAdvances: terminal rows are frozen, fills are never taken back *)
(* and a broker identifier is kept.                                        *)
THEOREM Advancement == Spec => OrderOnlyAdvances
<1> DEFINE Step == \A c \in ClientIds :
                      Exists(c) => Advances(orders[c], orders'[c])
<1>1. ASSUME Inv, [Next]_storeVars PROVE [Step]_storeVars
  <2>1. TypeOK /\ RowsOK
    BY <1>1 DEF Inv
  <2>2. CASE ClaimStep
    <3>1. \A c \in ClientIds : Exists(c) =>
             orders'[c] = orders[c] /\ orders[c] \in Lifecycle
      BY <2>1, <2>2, OldRow DEF ClaimStep
    <3>2. QED
      BY <3>1, LifecycleFacts, NoneAssumption DEF Advances
  <2>3. ASSUME NEW c, NEW l, RowWrite(c, l) PROVE Step
    BY <2>1, <2>3, RowWriteLemma DEF Exists
  <2>4. CASE RowsStep
    BY <2>4 DEF RowsStep, Exists
  <2>5. QED
    BY <1>1, <2>1, <2>2, <2>3, <2>4, StepLemma DEF QuietStep, FillStep
<1>2. QED
  BY <1>1, InvHolds, PTL DEF Spec, OrderOnlyAdvances

-----------------------------------------------------------------------------
(* The journal *)

\* A step that applies no execution.
Quiet ==
    /\ JournalQuiet
    /\ UNCHANGED <<positions, claimedExecutions>>

\* All kinds but the fill leave the journal's fills alone.
LEMMA QuietLemma ==
    ASSUME TypeOK
    PROVE  /\ ClaimStep => Quiet
           /\ RowsStep => Quiet
           /\ \A c \in ClientIds : \A l : QuietStep(c, l) => Quiet
<1>1. journal \in Seq(Entry(ExecutionKeys))
  BY DEF TypeOK, Entry
<1>2. QED
  BY <1>1, JournalUnchanged, OrderEventLemma
  DEF Quiet, ClaimStep, RowsStep, QuietStep

\* What a fill journals.
LEMMA FillStepLemma ==
    ASSUME TypeOK, NEW u \in Updates, FillStep(u)
    PROVE  LET e == FillEvent(u, orders[u.order])
               q == orders[u.order].intent.side * u.quantity
           IN /\ JournalFill(Len(journal) + 1, e)
              /\ e.execution = u.execution /\ e.order = u.order
              /\ e.book = u.book /\ e.book \in Books
              /\ q \in Int /\ e.quantity = q
              /\ e.position = positions[u.book] + q
<1> DEFINE e == FillEvent(u, orders[u.order])
           q == orders[u.order].intent.side * u.quantity
<1>1. e \in Entry(ExecutionKeys)
  BY PositionTypeLemma
<1>2. /\ e.kind = "OrderFillApplied" /\ e.execution = u.execution
      /\ e.book = u.book /\ e.order = u.order
      /\ e.quantity = q /\ e.position = positions[u.book] + q
  BY DEF FillEvent
<1>3. /\ journal \in Seq(Entry(ExecutionKeys))
      /\ journal' = Append(journal, e)
      /\ u.book \in Books /\ q \in Int
  BY DEF FillStep, TypeOK, Entry
<1> HIDE DEF e, q
<1>4. JournalFill(Len(journal) + 1, e)
  BY <1>1, <1>2, <1>3, FillEventLemma
<1>5. QED
  BY <1>2, <1>3, <1>4 DEF e, q

(* ExecutionsCountedOnce, whatever duplicates the brokers send.            *)
THEOREM ExecutionsOnce == Spec => []ExecutionsCountedOnce
<1>1. Init => ExecutionsCountedOnce
  BY CountedOnceInit DEF Init, StoreInit
<1>2. ASSUME Inv, ExecutionsCountedOnce, [Next]_storeVars
      PROVE  ExecutionsCountedOnce'
  <2>1. TypeOK /\ RowsOK
    BY <1>2 DEF Inv
  <2>2. CASE Quiet
    BY <1>2, <2>2, CountedOnceQuiet DEF Quiet
  <2>3. ASSUME NEW u \in Updates, FillStep(u)
        PROVE  ExecutionsCountedOnce'
    <3> DEFINE e == FillEvent(u, orders[u.order])
    <3>1. JournalFill(Len(journal) + 1, e) /\ e.execution = u.execution
      BY <2>1, <2>3, FillStepLemma
    <3>2. /\ u.execution \notin claimedExecutions
          /\ claimedExecutions' = claimedExecutions \cup {u.execution}
      BY <2>3 DEF FillStep
    <3> HIDE DEF e
    <3>3. QED
      BY <1>2, <3>1, <3>2, CountedOnceFill
  <2>4. QED
    BY <1>2, <2>1, <2>2, <2>3, StepLemma, QuietLemma
<1>3. QED
  BY <1>1, <1>2, InvHolds, PTL DEF Spec

(* JournalReplaysPositions: the audit journal reproduces every position.   *)
THEOREM JournalReplay == Spec => []JournalReplaysPositions
<1>1. Init => JournalReplaysPositions
  BY ReplayInit DEF Init, StoreInit
<1>2. ASSUME Inv, JournalReplaysPositions, [Next]_storeVars
      PROVE  JournalReplaysPositions'
  <2>1. TypeOK /\ RowsOK
    BY <1>2 DEF Inv
  <2>2. CASE Quiet
    BY <1>2, <2>2, ReplayQuiet DEF Quiet
  <2>3. ASSUME NEW u \in Updates, FillStep(u)
        PROVE  JournalReplaysPositions'
    <3> DEFINE e == FillEvent(u, orders[u.order])
               q == orders[u.order].intent.side * u.quantity
    <3>1. /\ JournalFill(Len(journal) + 1, e)
          /\ e.book = u.book /\ e.book \in Books
          /\ q \in Int /\ e.quantity = q /\ e.position = positions[u.book] + q
      BY <2>1, <2>3, FillStepLemma
    <3>2. /\ positions' = [positions EXCEPT ![u.book] = @ + q]
          /\ positions \in [Books -> Int]
      BY <2>1, <2>3 DEF FillStep, TypeOK
    <3> HIDE DEF e, q
    <3>3. QED
      BY <1>2, <3>1, <3>2, ReplayFill
  <2>4. QED
    BY <1>2, <2>1, <2>2, <2>3, StepLemma, QuietLemma
<1>3. QED
  BY <1>1, <1>2, InvHolds, PTL DEF Spec

(* ExposureNeedsNewExecution: duplicates and reports move no exposure.     *)
THEOREM ExposureSafety == Spec => ExposureNeedsNewExecution
<1> DEFINE Step ==
      claimedExecutions' = claimedExecutions =>
        /\ positions' = positions
        /\ \A c \in ClientIds :
              Exists(c) => orders'[c].filled = orders[c].filled
<1>1. ASSUME Inv, [Next]_storeVars PROVE [Step]_storeVars
  <2>1. TypeOK /\ RowsOK
    BY <1>1 DEF Inv
  <2>2. CASE ClaimStep
    BY <2>2 DEF ClaimStep
  <2>3. ASSUME NEW c \in ClientIds, NEW l, QuietStep(c, l) PROVE Step
    BY <2>1, <2>3 DEF QuietStep, RowWrite, TypeOK, Exists
  <2>4. ASSUME NEW u \in Updates, FillStep(u) PROVE Step
    BY <2>4 DEF FillStep
  <2>5. CASE RowsStep
    BY <2>5 DEF RowsStep, Exists
  <2>6. QED
    BY <1>1, <2>1, <2>2, <2>3, <2>4, <2>5, StepLemma
<1>2. QED
  BY <1>1, InvHolds, PTL DEF Spec, ExposureNeedsNewExecution

-----------------------------------------------------------------------------
(* The filled quantity of an order *)

\* What the order table has filled of order c, nothing before it has a row.
FilledOf(c) == IF Exists(c) THEN orders[c].filled ELSE 0

\* The quantities of the fill entries of order c.
FillSizes(c) == [n \in FillsOf(c) |-> Magnitude(journal[n].quantity)]

\* OrderFilledIsItsExecutions, and that an order without a row has no entry.
RowsAreEntries ==
    \A c \in ClientIds :
       FilledOf(c) = SumFunctionOnSet(FillSizes(c), FillsOf(c))

\* The fill entries of an order are finitely many.
LEMMA FillsOfFacts ==
    ASSUME TypeOK, NEW c
    PROVE  /\ IsFiniteSet(FillsOf(c))
           /\ FillsOf(c) \subseteq FillEntries
           /\ \A n \in FillsOf(c) : FillSizes(c)[n] \in Int
<1>1. /\ FillsOf(c) \subseteq FillEntries
      /\ FillEntries \subseteq 1..Len(journal)
      /\ Len(journal) \in Nat
      /\ \A n \in FillEntries : journal[n].quantity \in Int
  <2>1. journal \in Seq(Entry(ExecutionKeys))
    BY DEF TypeOK, Entry
  <2>2. QED
    BY <2>1, JournalFacts DEF FillsOf, Entry
<1>2. IsFiniteSet(FillsOf(c))
  <2>1. 1 \in Int /\ Len(journal) \in Int
    BY <1>1
  <2>2. IsFiniteSet(1..Len(journal))
    BY <2>1, FS_Interval
  <2>3. FillsOf(c) \subseteq 1..Len(journal)
    BY <1>1
  <2> QED
    BY <2>2, <2>3, FS_Subset
<1>3. \A n \in FillsOf(c) : FillSizes(c)[n] \in Int
  <2>1. ASSUME NEW n \in FillsOf(c) PROVE Magnitude(journal[n].quantity) \in Int
    <3>1. journal[n].quantity \in Int
      BY <1>1
    <3> QED
      BY <3>1 DEF Magnitude
  <2> QED
    BY <2>1 DEF FillSizes
<1> QED
  BY <1>1, <1>2, <1>3

\* A step that keeps fill entries and filled quantities keeps their agreement.
LEMMA RowsAreEntriesStays ==
    ASSUME TypeOK, RowsAreEntries, JournalQuiet,
           \A c \in ClientIds : FilledOf(c)' = FilledOf(c)
    PROVE  RowsAreEntries'
<1>1. SUFFICES ASSUME NEW c \in ClientIds
               PROVE  FilledOf(c)' =
                        SumFunctionOnSet(FillSizes(c)', FillsOf(c)')
  BY DEF RowsAreEntries
<1>2. FillsOf(c)' = FillsOf(c) /\ FillsOf(c) \subseteq FillEntries
  BY DEF FillsOf, JournalQuiet
<1>3. FillSizes(c)' = FillSizes(c)
  BY <1>2 DEF FillSizes, JournalQuiet
<1> QED
  BY <1>1, <1>2, <1>3 DEF RowsAreEntries

\* One more fill entry of order d, and as much more in its row.
LEMMA RowsAreEntriesFill ==
    ASSUME TypeOK, TypeOK', RowsAreEntries,
           NEW d \in ClientIds, NEW k, NEW q \in Nat,
           k \notin FillEntries, FillEntries' = FillEntries \cup {k},
           \A n \in FillEntries : journal'[n] = journal[n],
           journal'[k].order = d, Magnitude(journal'[k].quantity) = q,
           \A c \in ClientIds :
              FilledOf(c)' = FilledOf(c) + IF c = d THEN q ELSE 0,
           \A c \in ClientIds : FilledOf(c) \in Nat
    PROVE  RowsAreEntries'
<1>1. SUFFICES ASSUME NEW c \in ClientIds
               PROVE  FilledOf(c)' =
                        SumFunctionOnSet(FillSizes(c)', FillsOf(c)')
  BY DEF RowsAreEntries
<1>2. FillsOf(c) \subseteq FillEntries
  BY DEF FillsOf
<1>3. FilledOf(c) = SumFunctionOnSet(FillSizes(c), FillsOf(c))
  BY DEF RowsAreEntries
<1>4. CASE c # d
  <2>1. FillsOf(c)' = FillsOf(c)
    BY <1>4 DEF FillsOf
  <2>2. FillSizes(c)' = FillSizes(c)
    BY <1>2, <2>1 DEF FillSizes
  <2> QED
    BY <1>3, <1>4, <2>1, <2>2
<1>5. CASE c = d
  <2>1. FillsOf(c)' = FillsOf(c) \cup {k} /\ k \notin FillsOf(c)
    BY <1>2, <1>5 DEF FillsOf
  <2>2. /\ \A n \in FillsOf(c) : FillSizes(c)'[n] = FillSizes(c)[n]
        /\ FillSizes(c)'[k] = q
    BY <1>2, <2>1 DEF FillSizes
  <2> DEFINE g == FillSizes(c)'
             S == FillsOf(c)
  <2>3. IsFiniteSet(S) /\ \A n \in S : FillSizes(c)[n] \in Int
    BY FillsOfFacts
  <2>4. \A n \in S \cup {k} : g[n] \in Int
    BY <2>2, <2>3
  <2>5. \A n \in S : FillSizes(c)[n] \in Int /\ g[n] = FillSizes(c)[n]
    BY <2>2, <2>3
  <2>6. g[k] = q /\ k \notin S /\ FillsOf(c)' = S \cup {k}
    BY <2>1, <2>2
  <2> HIDE DEF g, S
  <2>7. SumFunctionOnSet(g, S \cup {k}) = SumFunctionOnSet(g, S) + g[k]
    BY <2>3, <2>4, <2>6, SumAdd
  <2>8. SumFunctionOnSet(g, S) = SumFunctionOnSet(FillSizes(c), S)
    BY <2>3, <2>5, SumEqual
  <2>9. SumFunctionOnSet(FillSizes(c), S) = FilledOf(c)
    BY <1>3 DEF S
  <2>10. FilledOf(c)' = FilledOf(c) + q
    BY <1>5
  <2> QED
    BY <2>6, <2>7, <2>8, <2>9, <2>10 DEF g
<1> QED
  BY <1>4, <1>5

\* What each kind of step does to the filled quantities.
LEMMA FilledOfStep ==
    ASSUME Inv
    PROVE  /\ \A c \in ClientIds : FilledOf(c) \in Nat
           /\ ClaimStep => \A c \in ClientIds : FilledOf(c)' = FilledOf(c)
           /\ \A d, l : QuietStep(d, l) =>
                 \A c \in ClientIds : FilledOf(c)' = FilledOf(c)
           /\ RowsStep => \A c \in ClientIds : FilledOf(c)' = FilledOf(c)
           /\ \A u \in Updates : FillStep(u) =>
                 \A c \in ClientIds :
                    FilledOf(c)' =
                       FilledOf(c) + IF c = u.order THEN u.quantity ELSE 0
<1>1. /\ orders \in [ClientIds -> Lifecycle \cup {None}]
      /\ TypeOK
      /\ None \notin Lifecycle
      /\ \A l \in Lifecycle : l.filled \in Nat
  BY LifecycleFacts, NoneAssumption DEF Inv, TypeOK
<1>2. \A c \in ClientIds : FilledOf(c) \in Nat
  BY <1>1 DEF FilledOf, Exists
<1>3. ClaimStep => \A c \in ClientIds : FilledOf(c)' = FilledOf(c)
  BY DEF ClaimStep, FilledOf, Exists
<1>4. ASSUME NEW d, NEW l, QuietStep(d, l), NEW c \in ClientIds
      PROVE  FilledOf(c)' = FilledOf(c)
  <2>1. /\ orders'[c] = IF c = d THEN l ELSE orders[c]
        /\ l # None
        /\ l.filled = IF orders[d] # None THEN orders[d].filled ELSE 0
    BY <1>1, <1>4 DEF QuietStep, RowWrite, Exists
  <2> QED
    BY <2>1 DEF FilledOf, Exists
<1>5. RowsStep => \A c \in ClientIds : FilledOf(c)' = FilledOf(c)
  BY DEF RowsStep, FilledOf, Exists, Advances
<1>6. ASSUME NEW u \in Updates, FillStep(u), NEW c \in ClientIds
      PROVE  FilledOf(c)' =
               FilledOf(c) + IF c = u.order THEN u.quantity ELSE 0
  <2> DEFINE l == ApplyUpdate(orders[u.order], u)
  <2>1. /\ RowWrite(u.order, l)
        /\ l.filled = orders[u.order].filled + u.quantity
        /\ orders[u.order] # None
    BY <1>6 DEF FillStep, Exists
  <2> HIDE DEF l
  <2>2. /\ orders'[c] = IF c = u.order THEN l ELSE orders[c]
        /\ l # None
    BY <1>1, <2>1 DEF RowWrite
  <2> QED
    BY <1>2, <2>1, <2>2 DEF FilledOf, Exists
<1> QED
  BY <1>2, <1>3, <1>4, <1>5, <1>6

\* The magnitude of a signed quantity.
LEMMA MagnitudeSigned ==
    ASSUME NEW s \in {1, -1}, NEW q \in Nat
    PROVE  Magnitude(s * q) = q
BY DEF Magnitude

(* OrderFilledIsItsExecutions: the order row and the journal tell the same *)
(* fills of an order, whatever was applied, ignored or rolled back.        *)
THEOREM FilledIsExecutions == Spec => []OrderFilledIsItsExecutions
<1>1. Init => RowsAreEntries
  <2>1. SUFFICES ASSUME Init PROVE RowsAreEntries
    OBVIOUS
  <2>2. ASSUME NEW c \in ClientIds PROVE FilledOf(c) = 0 /\ FillsOf(c) = {}
    BY <2>1 DEF Init, StoreInit, FilledOf, Exists, FillsOf, FillEntries
  <2> QED
    BY <2>2, SumEmpty DEF RowsAreEntries
<1>2. ASSUME Inv, Inv', RowsAreEntries, [Next]_storeVars PROVE RowsAreEntries'
  <2>1. TypeOK /\ RowsOK /\ TypeOK'
    BY <1>2 DEF Inv
  <2>2. CASE Quiet /\ \A c \in ClientIds : FilledOf(c)' = FilledOf(c)
    BY <1>2, <2>1, <2>2, RowsAreEntriesStays DEF Quiet
  <2>3. ASSUME NEW u \in Updates, FillStep(u) PROVE RowsAreEntries'
    <3> DEFINE e == FillEvent(u, orders[u.order])
               k == Len(journal) + 1
    <3>1. /\ FillEntries' = FillEntries \cup {k}
          /\ k \notin FillEntries
          /\ \A n \in FillEntries : journal'[n] = journal[n]
          /\ journal'[k] = e
      BY <2>1, <2>3, FillStepLemma DEF JournalFill
    <3>2. e.order = u.order /\ Magnitude(e.quantity) = u.quantity
      <4>1. orders[u.order].intent.side \in {1, -1}
        BY <2>1, <2>3, OldRow, UpdateFacts, LifecycleFacts DEF FillStep
      <4>2. QED
        BY <4>1, UpdateFacts, MagnitudeSigned DEF FillEvent
    <3>3. \A c \in ClientIds :
             FilledOf(c)' = FilledOf(c) + IF c = u.order THEN u.quantity ELSE 0
      BY <1>2, <2>3, FilledOfStep
    <3>4. \A c \in ClientIds : FilledOf(c) \in Nat
      BY <1>2, FilledOfStep
    <3>5. u.order \in ClientIds /\ u.quantity \in Nat
      BY UpdateFacts
    <3> HIDE DEF e, k
    <3>6. QED
      BY <1>2, <2>1, <3>1, <3>2, <3>3, <3>4, <3>5, RowsAreEntriesFill
  <2>4. QED
    BY <1>2, <2>1, <2>2, <2>3, StepLemma, QuietLemma, FilledOfStep
<1>3. RowsAreEntries => OrderFilledIsItsExecutions
  BY DEF RowsAreEntries, OrderFilledIsItsExecutions, FilledOf, FillSizes
<1> QED
  BY <1>1, <1>2, <1>3, InvHolds, PTL DEF Spec

-----------------------------------------------------------------------------
(* Positions and orders *)

\* A transaction that applies no fill keeps every book in balance.
LEMMA BooksBalanceQuiet ==
    ASSUME Inv, BooksBalance, NEW d \in ClientIds, NEW l, QuietStep(d, l)
    PROVE  BooksBalance'
<1>1. /\ orders \in [ClientIds -> Lifecycle \cup {None}]
      /\ l \in Lifecycle /\ l # None
      /\ orders' = [orders EXCEPT ![d] = l]
      /\ \A c \in ClientIds : orders'[c] = IF c = d THEN l ELSE orders[c]
      /\ positions' = positions
  BY NoneAssumption DEF QuietStep, RowWrite, Inv, TypeOK
<1>2. CASE Exists(d)
  <2>1. l.intent = orders[d].intent /\ l.filled = orders[d].filled
    BY <1>2 DEF QuietStep, RowWrite, Advances
  <2> QED
    BY <1>1, <1>2, <2>1, BooksBalanceStays DEF Exists, Recorded
<1>3. CASE ~ Exists(d)
  <2>1. l.filled = 0
    BY <1>3 DEF QuietStep
  <2> QED
    BY <1>1, <1>3, <2>1, BooksBalanceNew DEF RowsTyped
<1> QED
  BY <1>2, <1>3

\* A fill moves a position and the filled quantity of its order alike.
LEMMA BooksBalanceApplied ==
    ASSUME Inv, BooksBalance, NEW u \in Updates, FillStep(u)
    PROVE  BooksBalance'
<1> DEFINE d == u.order
           l == ApplyUpdate(orders[d], u)
<1>1. /\ d \in ClientIds /\ Exists(d)
      /\ l.filled = orders[d].filled + u.quantity
      /\ l.intent = orders[d].intent
      /\ l \in Lifecycle
      /\ orders' = [orders EXCEPT ![d] = l]
      /\ u.book = l.intent.book
      /\ positions' = [positions EXCEPT ![l.intent.book] =
                          @ + l.intent.side * u.quantity]
  BY DEF FillStep, RowWrite, Advances
<1>2. /\ orders \in [ClientIds -> Lifecycle \cup {None}]
      /\ positions \in [Books -> Int]
      /\ u.quantity \in Nat
  BY UpdateFacts DEF Inv, TypeOK
<1> HIDE DEF l, d
<1> QED
  BY <1>1, <1>2, BooksBalanceFill DEF RowsTyped

(* PositionsMatchOrders: the order table and the position table tell the   *)
(* same exposure, however many orders and books there are.                 *)
THEOREM PositionsAreOrders == Spec => []PositionsMatchOrders
<1>1. Init => BooksBalance
  <2>1. SUFFICES ASSUME Init PROVE BooksBalance
    OBVIOUS
  <2>2. Recorded = {} /\ \A b : OrdersIn(b) = {}
    BY <2>1 DEF Init, StoreInit, Recorded, OrdersIn, Exists
  <2>3. \A b \in Books : positions[b] = 0
    BY <2>1 DEF Init, StoreInit
  <2>4. IsFiniteSet({})
    BY FS_EmptySet
  <2> QED
    BY <2>2, <2>3, <2>4, SumEmpty DEF BooksBalance, Balanced
<1>2. ASSUME Inv, BooksBalance, [Next]_storeVars PROVE BooksBalance'
  <2>1. TypeOK /\ RowsOK
    BY <1>2 DEF Inv
  <2>2. CASE ClaimStep
    BY <1>2, <2>2, BooksBalanceStays DEF ClaimStep, Exists
  <2>3. ASSUME NEW c \in ClientIds, NEW l, QuietStep(c, l)
        PROVE  BooksBalance'
    BY <1>2, <2>3, BooksBalanceQuiet
  <2>4. ASSUME NEW u \in Updates, FillStep(u) PROVE BooksBalance'
    BY <1>2, <2>4, BooksBalanceApplied
  <2>5. CASE RowsStep
    BY <1>2, <2>5, BooksBalanceStays DEF RowsStep, Exists, Recorded, Advances
  <2> QED
    BY <1>2, <2>1, <2>2, <2>3, <2>4, <2>5, StepLemma
<1>3. BooksBalance => PositionsMatchOrders
  BY DEF BooksBalance, Balanced, SignedFills, PositionsMatchOrders
<1> QED
  BY <1>1, <1>2, <1>3, InvHolds, PTL DEF Spec

-----------------------------------------------------------------------------
(* The hash chain *)

\* Numbers up to N have a largest: take one above which are the fewest.
LEMMA LargestNumber ==
    ASSUME NEW N \in Nat, NEW s \in SUBSET (1..N), s # {}
    PROVE  Max(s) \in s /\ \A y \in s : y <= Max(s)
<1> DEFINE Above(x) == {y \in s : y > x}
           T == {Above(x) : x \in s}
           S == s
<1>0. T \in SUBSET (SUBSET S)
  OBVIOUS
<1>1. T # {}
  OBVIOUS
<1>2. IsFiniteSet(S)
  <2>1. IsFiniteSet(1..N)
    BY FS_Interval
  <2> QED
    BY <2>1, FS_Subset
<1> HIDE DEF T, S
<1>3. PICK t \in T : \A u \in T : u \subseteq t => u = t
  BY ONLY <1>0, <1>1, <1>2, SmallestSubset
<1> USE DEF T, S
<1>4. PICK x \in s : t = Above(x)
  BY <1>3
<1>5. ASSUME NEW y \in s, y > x PROVE FALSE
  <2>1. Above(y) \in T
    OBVIOUS
  <2>4. \A z \in s : z > y => z > x
    BY <1>5
  <2>5. Above(y) \subseteq t
    BY <1>4, <2>4
  <2>2. y \in Above(x) /\ y \notin Above(y)
    BY <1>5
  <2> QED
    BY <2>1, <2>2, <2>5, <1>3, <1>4
<1>6. x \in s /\ \A y \in s : x >= y
  BY <1>5
<1> QED
  BY <1>6 DEF Max

\* h is the fold that FoldLeft computes, on the sets of numbers in s.
Folding(h, s) ==
    h = [t \in SUBSET s |->
           IF t = {} THEN << >>
           ELSE AppendEvent(h[t \ {Max(t)}], journal[Max(t)])]

\* There is such a fold: a smallest set without one has a largest element,
\* and the fold without it extends.
LEMMA FoldingExists ==
    ASSUME NEW N \in Nat
    PROVE  \E h : Folding(h, 1..N)
<1> DEFINE S == 1..N
           T == {t \in SUBSET S : ~ \E h : Folding(h, t)}
<1>1. SUFFICES ASSUME T # {} PROVE FALSE
  OBVIOUS
<1>0. T \in SUBSET (SUBSET S)
  OBVIOUS
<1>00. IsFiniteSet(S)
  BY FS_Interval
<1> HIDE DEF T, S
<1>2. PICK t \in T : \A u \in T : u \subseteq t => u = t
  BY ONLY <1>0, <1>00, <1>1, SmallestSubset
<1> USE DEF T, S
<1>3. t \in SUBSET (1..N) /\ ~ \E h : Folding(h, t)
  BY <1>2
<1>4. \A u \in SUBSET (1..N) : u \subseteq t /\ u # t => \E h : Folding(h, u)
  BY <1>2
<1> HIDE DEF T, S
<1>5. CASE t = {}
  <2> DEFINE h == [u \in SUBSET t |-> << >>]
  <2>1. Folding(h, t)
    BY <1>5 DEF Folding
  <2> QED
    BY <1>3, <2>1
<1>6. CASE t # {}
  <2> DEFINE y == Max(t)
  <2>1. y \in t /\ \A x \in t : x <= y
    BY <1>3, <1>6, LargestNumber
  <2> HIDE DEF y
  <2>2. PICK h : Folding(h, t \ {y})
    BY <1>3, <1>4, <2>1
  <2> DEFINE Next1(g, u) == IF u = {} THEN << >>
                            ELSE AppendEvent(g[u \ {Max(u)}], journal[Max(u)])
             g == [u \in SUBSET t |->
                     IF y \in u THEN AppendEvent(h[u \ {y}], journal[y])
                     ELSE h[u]]
  <2>3. ASSUME NEW u \in SUBSET t PROVE g[u] = Next1(g, u)
    <3>1. CASE y \in u
      <4>1. Max(u) = y
        <5>1. Max(u) \in u /\ \A x \in u : x <= Max(u)
          BY <1>3, <3>1, LargestNumber
        <5>2. Max(u) \in t /\ y \in t
          BY <5>1, <2>1
        <5>3. y <= Max(u) /\ Max(u) <= y
          BY <5>1, <5>2, <2>1, <3>1
        <5>4. \A x \in t : x \in Nat
          BY <1>3
        <5>5. Max(u) \in Nat /\ y \in Nat
          BY <5>2, <5>4
        <5> QED
          BY <5>3, <5>5
      <4>2. u \ {y} \in SUBSET t /\ y \notin u \ {y} /\ u # {}
        BY <3>1
      <4>3. /\ g[u] = AppendEvent(h[u \ {y}], journal[y])
            /\ g[u \ {y}] = h[u \ {y}]
        BY <3>1, <4>2
      <4> HIDE DEF g
      <4> QED
        BY <4>1, <4>2, <4>3
    <3>2. CASE y \notin u
      <4>1. u \in SUBSET (t \ {y}) /\ u \ {Max(u)} \in SUBSET t
            /\ y \notin u \ {Max(u)}
        BY <3>2
      <4>2. g[u] = h[u] /\ g[u \ {Max(u)}] = h[u \ {Max(u)}]
        BY <3>2, <4>1
      <4>3. h[u] = Next1(h, u)
        BY <4>1, <2>2 DEF Folding
      <4> HIDE DEF g
      <4> QED
        BY <4>2, <4>3
    <3> QED
      BY <3>1, <3>2
  <2>4. g = [u \in SUBSET t |-> g[u]]
    OBVIOUS
  <2> HIDE DEF g
  <2>5. g = [u \in SUBSET t |-> Next1(g, u)]
    BY <2>3, <2>4
  <2>6. Folding(g, t)
    BY <2>5 DEF Folding
  <2> QED
    BY <1>3, <2>6
<1> QED
  BY <1>5, <1>6

\* The row that append_event inserts for entry n.
ChainRow(n) ==
    [content  |-> journal[n],
     previous |-> SubSeq(journal, 1, n - 1),
     hash     |-> SubSeq(journal, 1, n)]

\* The first n rows.
Chain(n) == [k \in 1..n |-> ChainRow(k)]

\* Every row is linked to all rows before it.
LEMMA ChainGrows ==
    ASSUME NEW X, journal \in Seq(Entry(X)), NEW n \in 0..(Len(journal) - 1)
    PROVE  AppendEvent(Chain(n), journal[n + 1]) = Chain(n + 1)
<1>1. Len(journal) \in Nat /\ n \in Nat /\ n + 1 \in 1..Len(journal)
  BY LenProperties
<1>2. Chain(n) \in Seq({ChainRow(k) : k \in 1..n}) /\ Len(Chain(n)) = n
  <2> DEFINE R == {ChainRow(k) : k \in 1..n}
  <2>1. Chain(n) \in [1..n -> R]
    BY DEF Chain
  <2> HIDE DEF R
  <2>4. n \in Nat
    BY <1>1
  <2>5. Seq(R) = UNION {[1..m -> R] : m \in Nat}
    BY SeqDef
  <2>2. Chain(n) \in Seq(R)
    BY ONLY <2>1, <2>4, <2>5
  <2>3. DOMAIN Chain(n) = 1..n
    BY DEF Chain
  <2> QED
    BY <1>1, <2>2, <2>3, LenProperties DEF R
<1>3. LastHash(Chain(n)) = SubSeq(journal, 1, n)
  <2>1. CASE n = 0
    <3>1. Chain(n) = << >>
      BY <2>1, <1>2, EmptySeq
    <3>2. SubSeq(journal, 1, n) = << >>
      BY <2>1, SubSeqEmpty
    <3> QED
      BY <3>1, <3>2 DEF LastHash, Genesis
  <2>2. CASE n # 0
    <3>1. Chain(n) # << >> /\ Chain(n)[n] = ChainRow(n)
      BY <1>1, <1>2, <2>2 DEF Chain
    <3> QED
      BY <1>2, <3>1 DEF LastHash, Last, ChainRow
  <2> QED
    BY <2>1, <2>2
<1>4. Digest(journal[n + 1], SubSeq(journal, 1, n)) = SubSeq(journal, 1, n + 1)
  BY <1>1 DEF Digest
<1>5. Row(journal[n + 1], SubSeq(journal, 1, n)) = ChainRow(n + 1)
  BY <1>1, <1>4 DEF Row, ChainRow
<1>6. Append(Chain(n), ChainRow(n + 1)) = Chain(n + 1)
  BY <1>1, <1>2 DEF Chain
<1> QED
  BY <1>3, <1>5, <1>6 DEF AppendEvent

\* What the fold of the community modules makes of the journal.
LEMMA EventsAreChain ==
    ASSUME NEW X, journal \in Seq(Entry(X))
    PROVE  Events = Chain(Len(journal))
<1> DEFINE N == Len(journal)
           Step(g) == [t \in SUBSET (1..N) |->
                         IF t = {} THEN << >>
                         ELSE AppendEvent(g[t \ {Max(t)}], journal[Max(t)])]
           iter == CHOOSE g : g = Step(g)
<1>1. N \in Nat /\ DOMAIN journal = 1..N
  BY LenProperties
<1>2. Events = iter[1..N]
  BY <1>1 DEF Events, FoldLeft, MapThenFoldSet
<1>3. \E g : g = Step(g)
  <2> HIDE DEF N
  <2> QED
    BY <1>1, FoldingExists DEF Folding
<1>4. iter = Step(iter)
  <2> HIDE DEF Step
  <2> QED
    BY <1>3
<1> HIDE DEF iter, N
<1> DEFINE S == 1..N
           T == {t \in SUBSET S :
                   \E n \in 0..N : t = 1..n /\ iter[t] # Chain(n)}
<1>50. T \in SUBSET (SUBSET S)
  OBVIOUS
<1>5. T = {}
  <2>1. SUFFICES ASSUME T # {} PROVE FALSE
    OBVIOUS
  <2>2. IsFiniteSet(S)
    BY <1>1, FS_Interval
  <2> HIDE DEF T, S
  <2>3. PICK t \in T : \A u \in T : u \subseteq t => u = t
    BY ONLY <2>1, <2>2, <1>50, SmallestSubset
  <2> USE DEF T, S
  <2>4. PICK n \in 0..N : t = 1..n /\ iter[t] # Chain(n)
    BY <2>3
  <2>5. t \in SUBSET (1..N)
    BY <2>3
  <2>6. CASE n = 0
    <3>1. t = {}
      BY <2>4, <2>6
    <3>2. Chain(n) = << >>
      BY <2>6 DEF Chain
    <3>3. iter[t] = << >>
      BY <3>1, <1>4, <2>5
    <3> QED
      BY <2>4, <3>2, <3>3
  <2>7. CASE n # 0
    <3>1. n \in Nat /\ n - 1 \in 0..N /\ n \in t /\ t # {}
      <4>1. n \in Nat /\ n - 1 \in 0..N /\ n \in 1..n
        BY <1>1, <2>7
      <4> QED
        BY <4>1, <2>4
    <3>2. Max(t) = n
      <4>1. Max(t) \in t /\ \A y \in t : y <= Max(t)
        BY <1>1, <2>5, <3>1, LargestNumber
      <4> QED
        BY <4>1, <3>1, <2>4
    <3>3. t \ {n} = 1..(n - 1)
      BY <2>4, <3>1
    <3>4. t \ {n} \notin T
      BY <2>3, <3>1
    <3>5. iter[t \ {n}] = Chain(n - 1)
      BY <3>1, <3>3, <3>4, <2>5
    <3>6. iter[t] = AppendEvent(iter[t \ {n}], journal[n])
      BY <1>4, <2>5, <3>1, <3>2
    <3>7. AppendEvent(Chain(n - 1), journal[(n - 1) + 1]) = Chain((n - 1) + 1)
      BY <1>1, <3>1, <2>7, ChainGrows DEF N
    <3>8. (n - 1) + 1 = n
      BY <3>1
    <3> QED
      BY <2>4, <3>5, <3>6, <3>7, <3>8
  <2> QED
    BY <2>6, <2>7
<1>6. iter[1..N] = Chain(N)
  <2>1. 1..N \notin T
    BY <1>5
  <2> QED
    BY <2>1, <1>1
<1> QED
  BY <1>2, <1>6 DEF N

\* A function on 1..m is a sequence of m elements.
LEMMA FunctionIsSequence ==
    ASSUME NEW rows, NEW m \in Nat, rows = [k \in 1..m |-> rows[k]]
    PROVE  \E S : rows \in Seq(S) /\ Len(rows) = m
<1> DEFINE R == {rows[k] : k \in 1..m}
<1>1. rows \in [1..m -> R] /\ DOMAIN rows = 1..m
  OBVIOUS
<1> HIDE DEF R
<1>2. Seq(R) = UNION {[1..k -> R] : k \in Nat}
  BY SeqDef
<1>3. rows \in Seq(R)
  BY ONLY <1>1, <1>2, m \in Nat
<1>4. Len(rows) = m
  BY <1>1, <1>3, LenProperties
<1> QED
  BY <1>3, <1>4

\* The hash that row k has to refer to.
HashBefore(rows, k) == IF k = 1 THEN Genesis ELSE rows[k - 1].hash

\* Row k is not what verify_audit_chain expects there.
FaultAt(rows, k) ==
    \/ rows[k].previous # HashBefore(rows, k)
    \/ rows[k].hash # Digest(rows[k].content, rows[k].previous)

\* The last of the rows before row k is the one before it.
LEMMA HashBeforeLemma ==
    ASSUME NEW S, NEW rows \in Seq(S), NEW k \in 1..Len(rows)
    PROVE  LastHash(SubSeq(rows, 1, k - 1)) = HashBefore(rows, k)
<1>1. Len(rows) \in Nat /\ k \in Nat
  BY LenProperties
<1>2. CASE k = 1
  BY <1>2, SubSeqEmpty DEF LastHash, HashBefore
<1>3. CASE k # 1
  <2>1. /\ Len(SubSeq(rows, 1, k - 1)) = k - 1
        /\ SubSeq(rows, 1, k - 1)[k - 1] = rows[k - 1]
    BY <1>1, <1>3, SubSeqProperties
  <2>2. SubSeq(rows, 1, k - 1) # << >>
    BY <1>1, <1>3, <2>1, EmptySeq
  <2> QED
    BY <1>3, <2>1, <2>2 DEF LastHash, HashBefore, Last
<1> QED
  BY <1>2, <1>3

\* verify_audit_chain finds every fault, and only faults.
LEMMA VerifiesLemma ==
    ASSUME NEW S, NEW rows \in Seq(S)
    PROVE  Verifies(rows) <=> \A k \in 1..Len(rows) : ~ FaultAt(rows, k)
<1>1. DOMAIN rows = 1..Len(rows)
  BY LenProperties
<1> QED
  BY <1>1, HashBeforeLemma DEF Verifies, FaultAt

\* A fault is found, and stays when another row is inserted.
LEMMA FaultStays ==
    ASSUME NEW rows, NEW m \in Nat, rows = [k \in 1..m |-> rows[k]],
           NEW k \in 1..m, FaultAt(rows, k), NEW x
    PROVE  ~ Verifies(rows) /\ ~ Verifies(AppendEvent(rows, x))
<1>1. PICK S : rows \in Seq(S) /\ Len(rows) = m
  BY FunctionIsSequence
<1> DEFINE r == Row(x, LastHash(rows))
           more == Append(rows, r)
<1>2. rows \in Seq(S \cup {r})
  BY <1>1, SeqMonotonic
<1>3. /\ more \in Seq(S \cup {r}) /\ Len(more) = m + 1
      /\ \A n \in 1..m : more[n] = rows[n]
  <2> HIDE DEF r
  <2> QED
    BY <1>1, <1>2, AppendProperties
<1> HIDE DEF more, r
<1>4. k \in 1..Len(more) /\ more[k] = rows[k]
  BY <1>3
<1>5. k # 1 => more[k - 1] = rows[k - 1]
  BY <1>3
<1>6. FaultAt(more, k)
  BY <1>4, <1>5 DEF FaultAt, HashBefore
<1>7. ~ Verifies(more)
  BY <1>3, <1>4, <1>6, VerifiesLemma
<1>8. ~ Verifies(rows)
  BY <1>1, VerifiesLemma
<1> QED
  BY <1>7, <1>8 DEF AppendEvent, more, r

\* The rows of the chain, and the lengths of what their hashes cover.
LEMMA ChainFacts ==
    ASSUME NEW X, journal \in Seq(Entry(X))
    PROVE  LET N == Len(journal) IN
           /\ N \in Nat
           /\ Chain(N) = [k \in 1..N |-> Chain(N)[k]]
           /\ \A k \in 1..N :
                 /\ Chain(N)[k] = ChainRow(k)
                 /\ Chain(N)[k].content = journal[k]
                 /\ journal[k] \in Entry(X)
                 /\ Chain(N)[k].previous = SubSeq(journal, 1, k - 1)
                 /\ Chain(N)[k].hash = SubSeq(journal, 1, k)
                 /\ SubSeq(journal, 1, k) \in Seq(Entry(X))
                 /\ SubSeq(journal, 1, k - 1) \in Seq(Entry(X))
                 /\ Len(SubSeq(journal, 1, k)) = k
                 /\ Len(SubSeq(journal, 1, k - 1)) = k - 1
                 /\ SubSeq(journal, 1, k)
                       = Append(SubSeq(journal, 1, k - 1), journal[k])
<1> DEFINE N == Len(journal)
<1>1. N \in Nat
  BY LenProperties
<1>2. Chain(N) = [k \in 1..N |-> Chain(N)[k]]
  BY DEF Chain
<1>3. ASSUME NEW k \in 1..N
      PROVE  /\ Chain(N)[k] = ChainRow(k)
             /\ Chain(N)[k].content = journal[k]
             /\ journal[k] \in Entry(X)
             /\ Chain(N)[k].previous = SubSeq(journal, 1, k - 1)
             /\ Chain(N)[k].hash = SubSeq(journal, 1, k)
             /\ SubSeq(journal, 1, k) \in Seq(Entry(X))
             /\ SubSeq(journal, 1, k - 1) \in Seq(Entry(X))
             /\ Len(SubSeq(journal, 1, k)) = k
             /\ Len(SubSeq(journal, 1, k - 1)) = k - 1
             /\ SubSeq(journal, 1, k)
                   = Append(SubSeq(journal, 1, k - 1), journal[k])
  <2>1. Chain(N)[k] = ChainRow(k)
    BY DEF Chain
  <2>2. journal[k] \in Entry(X)
    BY ElementOfSeq
  <2>3. /\ SubSeq(journal, 1, k) \in Seq(Entry(X))
        /\ SubSeq(journal, 1, k - 1) \in Seq(Entry(X))
        /\ Len(SubSeq(journal, 1, k)) = k
        /\ Len(SubSeq(journal, 1, k - 1)) = k - 1
    BY <1>1, SubSeqProperties
  <2>4. SubSeq(journal, 1, k) = Append(SubSeq(journal, 1, k - 1), journal[k])
    BY <1>1
  <2> QED
    BY <2>1, <2>2, <2>3, <2>4 DEF ChainRow
<1> QED
  BY <1>1, <1>2, <1>3

\* The whole chain verifies.
LEMMA WholeChain ==
    ASSUME NEW X, journal \in Seq(Entry(X))
    PROVE  Verifies(Chain(Len(journal)))
<1> DEFINE N == Len(journal)
           rows == Chain(N)
<1>1. N \in Nat /\ rows = [k \in 1..N |-> rows[k]]
  BY ChainFacts
<1>2. PICK S : rows \in Seq(S) /\ Len(rows) = N
  BY <1>1, FunctionIsSequence
<1>3. ASSUME NEW k \in 1..N PROVE ~ FaultAt(rows, k)
  <2>1. rows[k].previous = HashBefore(rows, k)
    <3>1. CASE k = 1
      <4>1. SubSeq(journal, 1, k - 1) = << >>
        BY <3>1, SubSeqEmpty
      <4> QED
        BY <3>1, <4>1, ChainFacts DEF HashBefore, Genesis
    <3>2. CASE k # 1
      <4>1. k - 1 \in 1..N
        BY <1>1, <3>2
      <4> QED
        BY <3>2, <4>1, ChainFacts DEF HashBefore
    <3> QED
      BY <3>1, <3>2
  <2>2. rows[k].hash = Digest(rows[k].content, rows[k].previous)
    BY ChainFacts DEF Digest
  <2> QED
    BY <2>1, <2>2 DEF FaultAt
<1> HIDE DEF rows, N
<1>4. Verifies(rows)
  BY <1>2, <1>3, VerifiesLemma
<1> QED
  BY <1>4 DEF rows, N

\* The content of a row, and the row, as the damage leaves them.
PutContent(row, content) == [row EXCEPT !.content = content]

\* The row with another content.
LEMMA PutContentLemma ==
    ASSUME NEW a, NEW b, NEW c, NEW content, NEW row,
           row = [content |-> a, previous |-> b, hash |-> c]
    PROVE  PutContent(row, content)
              = [content |-> content, previous |-> b, hash |-> c]
BY DEF PutContent

\* A content that was altered is another content.
LEMMA AlteredDiffers ==
    ASSUME NEW X, NEW e \in Entry(X)
    PROVE  Altered(e) # e /\ Altered(e) \in Entry(X)
<1>1. e.quantity \in Int /\ Altered(e).quantity = e.quantity + 1
  BY DEF Entry, Altered
<1>2. Altered(e) \in Entry(X)
  BY DEF Entry, Altered
<1> QED
  BY <1>1, <1>2

\* The damage to a table that says what the journal says.
LEMMA DamageIsFault ==
    ASSUME NEW X, journal \in Seq(Entry(X)),
           NEW rows \in Damaged(Chain(Len(journal)))
    PROVE  \E m \in Nat : /\ rows = [k \in 1..m |-> rows[k]]
                          /\ \E k \in 1..m : FaultAt(rows, k)
<1> DEFINE N == Len(journal)
           old == Chain(N)
<1>1. /\ N \in Nat
      /\ old = [k \in 1..N |-> old[k]]
      /\ \A k \in 1..N :
            /\ old[k] = ChainRow(k)
            /\ old[k].content = journal[k]
            /\ journal[k] \in Entry(X)
            /\ old[k].previous = SubSeq(journal, 1, k - 1)
            /\ old[k].hash = SubSeq(journal, 1, k)
            /\ SubSeq(journal, 1, k) \in Seq(Entry(X))
            /\ SubSeq(journal, 1, k - 1) \in Seq(Entry(X))
            /\ Len(SubSeq(journal, 1, k)) = k
            /\ Len(SubSeq(journal, 1, k - 1)) = k - 1
            /\ SubSeq(journal, 1, k)
                  = Append(SubSeq(journal, 1, k - 1), journal[k])
  BY ChainFacts
<1>2. DOMAIN old = 1..N
  BY DEF Chain
<1>3. PICK S : old \in Seq(S) /\ Len(old) = N
  BY <1>1, FunctionIsSequence
<1>4. \/ \E n \in 1..N : rows = [old EXCEPT ![n].content = Altered(@)]
      \/ \E n \in (1..N) \ {N} : \/ rows = RemoveAt(old, n)
                                 \/ rows = Rewritten(old, n)
                                 \/ rows = Swapped(old, n)
  BY <1>2, <1>3 DEF Damaged
<1>5. \A k \in 1..N : old[k] = [content |-> old[k].content,
                                previous |-> old[k].previous,
                                hash |-> old[k].hash]
  BY <1>1 DEF ChainRow
<1> HIDE DEF old, N
\* What row k refers to, by its number of rows.
<1>6. ASSUME NEW k \in 1..N, k # 1 PROVE k - 1 \in 1..N
  BY <1>1, <1>6
<1>7. ASSUME NEW n \in 1..N, rows = [old EXCEPT ![n].content = Altered(@)]
      PROVE  \E k \in 1..N : FaultAt(rows, k)
  <2>1. rows[n] = PutContent(old[n], Altered(old[n].content))
    BY <1>2, <1>7 DEF PutContent
  <2>2. /\ rows[n].content = Altered(journal[n])
        /\ rows[n].previous = SubSeq(journal, 1, n - 1)
        /\ rows[n].hash = Append(SubSeq(journal, 1, n - 1), journal[n])
    <3>1. rows[n] = [content  |-> Altered(journal[n]),
                     previous |-> old[n].previous, hash |-> old[n].hash]
      BY <2>1, <1>1, <1>5, PutContentLemma
    <3>2. /\ old[n].previous = SubSeq(journal, 1, n - 1)
          /\ old[n].hash = SubSeq(journal, 1, n)
          /\ SubSeq(journal, 1, n)
                = Append(SubSeq(journal, 1, n - 1), journal[n])
      BY <1>1
    <3> QED
      BY <3>1, <3>2
  <2>3. Altered(journal[n]) # journal[n] /\ Altered(journal[n]) \in Entry(X)
    BY <1>1, AlteredDiffers
  <2>4. Append(SubSeq(journal, 1, n - 1), journal[n])
           # Append(SubSeq(journal, 1, n - 1), Altered(journal[n]))
    BY <1>1, <2>3, AppendProperties
  <2> QED
    BY <2>2, <2>4 DEF FaultAt, Digest
<1>8. ASSUME NEW n \in 1..N, n # N, rows = Rewritten(old, n)
      PROVE  \E k \in 1..N : FaultAt(rows, k)
  <2>1. n \in Nat /\ n + 1 \in 1..N /\ n + 1 # 1 /\ (n + 1) - 1 = n
    BY <1>1, <1>8
  <2>2. /\ rows[n + 1] = old[n + 1]
        /\ rows[n] = Row(Altered(journal[n]), SubSeq(journal, 1, n - 1))
    <3>1. /\ old[n].content = journal[n]
          /\ old[n].previous = SubSeq(journal, 1, n - 1)
      BY <1>1
    <3>2. rows = [old EXCEPT ![n] = Row(Altered(journal[n]),
                                        SubSeq(journal, 1, n - 1))]
      BY <1>8, <3>1 DEF Rewritten
    <3> QED
      BY <1>2, <3>2, <2>1
  <2>3. HashBefore(rows, n + 1)
           = Append(SubSeq(journal, 1, n - 1), Altered(journal[n]))
    BY <2>1, <2>2 DEF HashBefore, Row, Digest
  <2>4. rows[n + 1].previous = Append(SubSeq(journal, 1, n - 1), journal[n])
    <3>1. rows[n + 1].previous = SubSeq(journal, 1, (n + 1) - 1)
      BY <1>1, <2>1, <2>2
    <3> QED
      BY <1>1, <2>1, <3>1
  <2>5. Altered(journal[n]) # journal[n] /\ Altered(journal[n]) \in Entry(X)
    BY <1>1, AlteredDiffers
  <2>6. Append(SubSeq(journal, 1, n - 1), journal[n])
           # Append(SubSeq(journal, 1, n - 1), Altered(journal[n]))
    BY <1>1, <2>5, AppendProperties
  <2> QED
    BY <2>1, <2>3, <2>4, <2>6 DEF FaultAt
\* In the last two cases row n refers to n rows, which do not come before it.
<1>9. ASSUME NEW n \in 1..N, n # N, rows[n] = old[n + 1],
             n # 1 => rows[n - 1] = old[n - 1]
      PROVE  FaultAt(rows, n)
  <2>1. n \in Nat /\ n + 1 \in 1..N /\ (n + 1) - 1 = n
    BY <1>1, <1>9
  <2>2. rows[n].previous = SubSeq(journal, 1, n)
    <3>1. rows[n].previous = SubSeq(journal, 1, (n + 1) - 1)
      BY <1>1, <1>9, <2>1
    <3> QED
      BY <2>1, <3>1
  <2>3. Len(rows[n].previous) = n
    BY <1>1, <2>2
  <2>4. CASE n = 1
    <3>1. HashBefore(rows, n) = << >> /\ Len(<< >>) = 0
      BY <2>4 DEF HashBefore, Genesis
    <3>2. Len(rows[n].previous) # Len(<< >>)
      BY ONLY <2>3, <2>4, <3>1
    <3>3. rows[n].previous # << >>
      BY ONLY <3>2, Zenon
    <3>4. rows[n].previous # HashBefore(rows, n)
      BY ONLY <3>1, <3>3, Zenon
    <3> QED
      BY <3>4 DEF FaultAt
  <2>5. CASE n # 1
    <3>1. HashBefore(rows, n) = SubSeq(journal, 1, n - 1)
      BY <1>1, <1>6, <1>9, <2>5 DEF HashBefore
    <3>2. Len(SubSeq(journal, 1, n - 1)) = n - 1
      BY <1>1
    <3> QED
      BY <2>1, <2>3, <3>1, <3>2 DEF FaultAt
  <2> QED
    BY <2>4, <2>5
<1>10. ASSUME NEW n \in 1..N, n # N, rows = Swapped(old, n)
       PROVE  \E k \in 1..N : FaultAt(rows, k)
  <2>1. n \in Nat /\ n + 1 \in 1..N /\ n + 1 # n /\ n - 1 # n /\ n - 1 # n + 1
    BY <1>1, <1>10
  <2>2. rows[n] = old[n + 1]
    BY <1>2, <1>10, <2>1 DEF Swapped
  <2>3. n # 1 => rows[n - 1] = old[n - 1]
    BY <1>2, <1>6, <1>10, <2>1 DEF Swapped
  <2> QED
    BY <1>9, <1>10, <2>2, <2>3
<1>11. ASSUME NEW n \in 1..N, n # N, rows = RemoveAt(old, n)
       PROVE  /\ rows = [k \in 1..(N - 1) |-> rows[k]]
              /\ \E k \in 1..(N - 1) : FaultAt(rows, k)
  <2> DEFINE head == SubSeq(old, 1, n - 1)
             tail == SubSeq(old, n + 1, N)
  <2>1. /\ head \in Seq(S) /\ Len(head) = n - 1
        /\ \A k \in 1..(n - 1) : head[k] = old[k]
    BY <1>1, <1>3, SubSeqProperties
  <2>2. /\ tail \in Seq(S) /\ Len(tail) = N - n
        /\ \A k \in 1..(N - n) : tail[k] = old[n + k]
    <3>1. n + 1 \in 1..(N + 1) /\ N \in (n + 1 - 1)..N /\ n \in Nat
      BY <1>1
    <3>5. n + 1 \in Int /\ N \in Int /\ \A i \in (n + 1)..N : old[i] \in S
      BY <1>1, <1>3, <3>1, ElementOfSeq
    <3>2. /\ tail \in Seq(S)
          /\ Len(tail) = IF n + 1 <= N THEN N - (n + 1) + 1 ELSE 0
          /\ \A k \in 1..(N - (n + 1) + 1) : tail[k] = old[(n + 1) + k - 1]
      BY <3>5, SubSeqProperties
    <3>3. N - (n + 1) + 1 = N - n /\ n + 1 <= N
      BY <1>1, <1>11, <3>1
    <3>4. \A k \in 1..(N - n) : (n + 1) + k - 1 = n + k
      BY <1>1, <3>1
    <3> QED
      BY <3>2, <3>3, <3>4
  <2>3. rows = head \o tail
    BY <1>3, <1>11 DEF RemoveAt
  <2> HIDE DEF head, tail
  <2>4. /\ rows \in Seq(S) /\ Len(rows) = N - 1
        /\ \A k \in 1..(N - 1) :
              rows[k] = IF k <= n - 1 THEN head[k] ELSE tail[k - (n - 1)]
    <3>1. /\ rows \in Seq(S) /\ Len(rows) = Len(head) + Len(tail)
          /\ \A k \in 1..(Len(head) + Len(tail)) :
                rows[k] = IF k <= Len(head) THEN head[k]
                          ELSE tail[k - Len(head)]
      BY <2>1, <2>2, <2>3, ConcatProperties
    <3>2. Len(head) + Len(tail) = N - 1
      BY <1>1, <2>1, <2>2
    <3> QED
      BY <3>1, <3>2, <2>1
  <2>5. rows = [k \in 1..(N - 1) |-> rows[k]]
    BY <2>4, LenProperties
  <2>6. n \in 1..(N - 1) /\ ~ n <= n - 1 /\ n - (n - 1) = 1 /\ 1 \in 1..(N - n)
    BY <1>1, <1>11
  <2>7. rows[n] = old[n + 1]
    BY <2>2, <2>4, <2>6
  <2>8. n # 1 => rows[n - 1] = old[n - 1]
    <3>1. SUFFICES ASSUME n # 1 PROVE rows[n - 1] = old[n - 1]
      OBVIOUS
    <3>2. n - 1 \in 1..(N - 1) /\ n - 1 <= n - 1 /\ n - 1 \in 1..(n - 1)
      <4>1. n \in Nat /\ n >= 2 /\ n <= N /\ n # N
        BY <1>1, <1>11, <3>1
      <4> QED
        BY <1>1, <4>1
    <3> QED
      BY <2>1, <2>4, <3>2
  <2>9. FaultAt(rows, n)
    BY <1>9, <1>11, <2>7, <2>8
  <2> QED
    BY <2>5, <2>6, <2>9
<1>12. \/ \E n \in 1..N : rows = [old EXCEPT ![n].content = Altered(@)]
       \/ \E n \in (1..N) \ {N} : \/ rows = Rewritten(old, n)
                                  \/ rows = Swapped(old, n)
       => rows = [k \in 1..N |-> rows[k]]
  BY <1>2 DEF Rewritten, Swapped
<1>13. N = 0 \/ N - 1 \in Nat
  BY <1>1
<1>14. CASE \E n \in (1..N) \ {N} : rows = RemoveAt(old, n)
  <2>1. N - 1 \in Nat
    BY <1>13, <1>14
  <2> QED
    BY <1>11, <1>14, <2>1
<1> QED
  BY <1>1, <1>4, <1>7, <1>8, <1>10, <1>12, <1>14

\* Every transaction keeps the journal a sequence of entries, so the chain
\* that is computed from it verifies, and damaged it does not.
LEMMA ChainOfJournal ==
    ASSUME NEW X, journal \in Seq(Entry(X))
    PROVE  ChainTellsDamage
<1>1. Events = Chain(Len(journal))
  BY EventsAreChain
<1>2. Verifies(Events)
  BY <1>1, WholeChain
<1>3. ASSUME NEW rows \in Damaged(Events), NEW x
      PROVE  ~ Verifies(rows) /\ ~ Verifies(AppendEvent(rows, x))
  <2>1. PICK m \in Nat : /\ rows = [k \in 1..m |-> rows[k]]
                         /\ \E k \in 1..m : FaultAt(rows, k)
    BY <1>1, <1>3, DamageIsFault
  <2> QED
    BY <2>1, FaultStays
<1> QED
  BY <1>2, <1>3 DEF ChainTellsDamage

(* ChainTellsDamage: however many events the services wrote, the table     *)
(* verifies, and no longer once the content of a row was changed, or a row *)
(* before the last was removed, exchanged with the next one or rewritten   *)
(* with a fresh digest; nor does the next event repair it.                 *)
THEOREM DamageIsTold == Spec => []ChainTellsDamage
<1>1. Inv => ChainTellsDamage
  <2>1. SUFFICES ASSUME Inv PROVE ChainTellsDamage
    OBVIOUS
  <2>2. journal \in Seq(Entry(ExecutionKeys))
    BY <2>1 DEF Inv, TypeOK, Entry
  <2> QED
    BY <2>2, ChainOfJournal
<1> QED
  BY <1>1, InvHolds, PTL

=============================================================================
