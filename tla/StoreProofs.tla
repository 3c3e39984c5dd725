---------------------------- MODULE StoreProofs -----------------------------
(***************************************************************************)
(* Lemmas about one order row, the journal and the claims, whoever writes  *)
(* them: what the proofs about OrderLedger and TradingCore share.          *)
(***************************************************************************)
EXTENDS Store, SumTheorems, SequenceTheorems

-----------------------------------------------------------------------------
(* The order state machine *)

\* The fields of a lifecycle.
LEMMA LifecycleFacts ==
    ASSUME NEW l \in Lifecycle
    PROVE  /\ l.filled \in Nat
           /\ l.intent \in Intents
           /\ l.intent.quantity \in Nat \ {0}
           /\ l.intent.clientId \in ClientIds
           /\ l.intent.book \in Books
           /\ l.intent.side \in {1, -1}
           /\ l.status \in Status
           /\ l.brokerId \in BrokerIds \cup {None}
BY IntentsAssumption DEF Lifecycle, Intent, Buy, Sell

\* A transition keeps the intent and the fills and stores the broker id given.
LEMMA TransitionLemma ==
    ASSUME NEW l \in Lifecycle, NEW t \in Status,
           NEW id \in BrokerIds \cup {None}
    PROVE  /\ Transition(l, t, id) \in Lifecycle
           /\ Transition(l, t, id).intent = l.intent
           /\ Transition(l, t, id).filled = l.filled
           /\ Transition(l, t, id).status = t
           /\ id = None => Transition(l, t, id).brokerId = l.brokerId
           /\ Transition(l, t, id).brokerId \in {l.brokerId, id}
BY DEF Transition, WithStatus, Lifecycle

\* Nothing follows a terminal status.
LEMMA TerminalLemma ==
    ASSUME NEW s \in Terminal, NEW t
    PROVE  <<s, t>> \notin Allowed
BY DEF Terminal, Allowed

\* The two lifecycles in which a new intent is first saved.
LEMMA NewLifecycleLemma ==
    ASSUME NEW i \in Intents
    PROVE  /\ i.clientId \in ClientIds
           /\ RiskRejected(i) \in Lifecycle
           /\ RiskRejected(i).intent = i
           /\ RiskRejected(i).filled = 0
           /\ RiskRejected(i).status = "REJECTED"
           /\ Submitting(i) \in Lifecycle
           /\ Submitting(i).intent = i
           /\ Submitting(i).filled = 0
           /\ Submitting(i).status = "SUBMITTING"
           /\ Submitting(i).brokerId = None
<1> DEFINE n == NewLifecycle(i)
           a == Transition(n, "RISK_APPROVED", None)
<1>1. n \in Lifecycle /\ i.clientId \in ClientIds
  BY IntentsAssumption DEF NewLifecycle, Lifecycle, Status, Intent
<1>2. n.intent = i /\ n.filled = 0 /\ n.brokerId = None
  BY DEF NewLifecycle
<1>3. /\ RiskRejected(i) \in Lifecycle /\ RiskRejected(i).intent = i
      /\ RiskRejected(i).filled = 0 /\ RiskRejected(i).status = "REJECTED"
  <2> HIDE DEF n
  <2>1. RiskRejected(i) = Transition(n, "REJECTED", None)
    BY DEF RiskRejected, n
  <2>2. QED
    BY <1>1, <1>2, <2>1, TransitionLemma DEF Status
<1>4. /\ a \in Lifecycle /\ a.intent = i /\ a.filled = 0
      /\ a.brokerId = None
  BY <1>1, <1>2, TransitionLemma DEF Status
<1>5. /\ Submitting(i) \in Lifecycle /\ Submitting(i).intent = i
      /\ Submitting(i).filled = 0 /\ Submitting(i).brokerId = None
      /\ Submitting(i).status = "SUBMITTING"
  <2> HIDE DEF a
  <2>1. Submitting(i) = Transition(a, "SUBMITTING", None)
    BY DEF Submitting, a
  <2>2. QED
    BY <1>4, <2>1, TransitionLemma DEF Status
<1>6. QED
  BY <1>1, <1>3, <1>5

\* What an accepted update makes of an order.
LEMMA ApplyUpdateLemma ==
    ASSUME NEW l \in Lifecycle, NEW E, NEW X, NEW u \in UpdateShape(E, X),
           WellFormed(u), UpdateAccepted(l, u)
    PROVE  /\ ApplyUpdate(l, u) \in Lifecycle
           /\ ApplyUpdate(l, u).intent = l.intent
           /\ ApplyUpdate(l, u).filled = l.filled + u.quantity
           /\ ApplyUpdate(l, u).status =
                IF IsFill(u) THEN FillTarget(l, u) ELSE u.type
           /\ l.brokerId # None =>
                ApplyUpdate(l, u).brokerId = l.brokerId
<1> USE NoneAssumption
<1>1. /\ u.quantity \in Nat
      /\ u.brokerId \in BrokerIds \cup {None}
      /\ u.type \in FillTypes \cup StatusTypes
      /\ l.filled \in Nat
  BY DEF UpdateShape, Lifecycle
<1>2. l.brokerId # None => u.brokerId \in {None, l.brokerId}
  BY DEF UpdateAccepted, IdentityMatches
<1>3. CASE IsFill(u)
  <2>1. FillTarget(l, u) \in Status
    BY DEF FillTarget, Status
  <2>2. l.filled + u.quantity \in Nat
    BY <1>1
  <2>3. QED
    BY <1>1, <1>2, <1>3, <2>1, <2>2
    DEF ApplyUpdate, WithStatus, NewFilled, Lifecycle
<1>4. CASE ~ IsFill(u)
  <2>1. u.type \in Status
    BY <1>1, <1>4 DEF IsFill, FillTypes, StatusTypes, Status
  <2>2. u.quantity = 0
    BY <1>4 DEF WellFormed
  <2>3. QED
    BY <1>1, <1>2, <1>4, <2>1, <2>2, TransitionLemma DEF ApplyUpdate
<1>5. QED
  BY <1>3, <1>4

-----------------------------------------------------------------------------
(* One row of the order table *)

\* Statuses an order has only before its first fill.
Unfilled ==
    {"SUBMITTING", "SUBMITTED", "ACKNOWLEDGED", "WORKING", "REJECTED",
     "RECONCILIATION_REQUIRED"}

\* What is true of every stored row: the inductive form of
\* StatusAgreesWithFills.
RowOK(l) ==
    /\ l.filled <= l.intent.quantity
    /\ l.status = "FILLED" <=> l.filled = l.intent.quantity
    /\ l.status = "PARTIALLY_FILLED" => l.filled > 0
    /\ l.status \in Unfilled => l.filled = 0
    /\ l.status \notin {"PLANNED", "RISK_APPROVED"}
    /\ l.status \in {"SUBMITTING", "RECONCILIATION_REQUIRED"}
          => l.brokerId = None

\* An accepted fill of an order that agrees with its fills.
LEMMA FillRowLemma ==
    ASSUME NEW l \in Lifecycle, RowOK(l), NEW E, NEW X,
           NEW u \in UpdateShape(E, X), WellFormed(u), IsFill(u),
           UpdateAccepted(l, u)
    PROVE  RowOK(ApplyUpdate(l, u)) /\ Advances(l, ApplyUpdate(l, u))
<1> USE LifecycleFacts
<1> DEFINE m == ApplyUpdate(l, u)
<1>1. /\ u.quantity \in Nat \ {0}
  BY DEF UpdateShape, WellFormed
<1>2. /\ m.intent = l.intent
      /\ m.filled = l.filled + u.quantity
      /\ m.status = FillTarget(l, u)
      /\ l.brokerId # None => m.brokerId = l.brokerId
      /\ m \in Lifecycle
  BY ApplyUpdateLemma
<1>3. m.filled <= l.intent.quantity /\ CanTransition(l, FillTarget(l, u))
  BY <1>2 DEF UpdateAccepted, FillAccepted, NewFilled
<1>4. m.status \in {"FILLED", "PENDING_CANCEL", "PARTIALLY_FILLED"}
  BY <1>2 DEF FillTarget
<1>5. RowOK(m)
  BY <1>1, <1>2, <1>3, <1>4 DEF RowOK, FillTarget, NewFilled, Unfilled
<1>6. l.status \notin Terminal
  <2>1. SUFFICES ASSUME l.status \in Terminal PROVE FALSE
    OBVIOUS
  <2>2. m.status = l.status
    BY <1>2, <1>3, <2>1, TerminalLemma DEF CanTransition
  <2>3. l.status = "FILLED"
    BY <1>4, <2>1, <2>2 DEF Terminal
  <2>4. QED
    BY <1>1, <1>2, <1>3, <2>3 DEF RowOK
<1>7. m # None
  BY <1>2, NoneAssumption
<1>8. QED
  BY <1>1, <1>2, <1>5, <1>6, <1>7 DEF Advances

\* An accepted report without a fill.
LEMMA ReportRowLemma ==
    ASSUME NEW l \in Lifecycle, RowOK(l), NEW E, NEW X,
           NEW u \in UpdateShape(E, X), WellFormed(u), ~ IsFill(u),
           UpdateAccepted(l, u)
    PROVE  RowOK(ApplyUpdate(l, u)) /\ Advances(l, ApplyUpdate(l, u))
<1> USE LifecycleFacts
<1> DEFINE m == ApplyUpdate(l, u)
<1>1. u.quantity = 0 /\ u.type \in StatusTypes
  BY DEF UpdateShape, WellFormed, IsFill
<1>2. /\ m.intent = l.intent
      /\ m.filled = l.filled
      /\ m.status = u.type
      /\ l.brokerId # None => m.brokerId = l.brokerId
      /\ m \in Lifecycle
  BY <1>1, ApplyUpdateLemma
<1>3. CASE u.type = l.status
  <2>1. m = l
    BY <1>3 DEF ApplyUpdate, Transition
  <2>2. QED
    BY <1>2, <2>1, NoneAssumption DEF Advances
<1>4. CASE u.type # l.status
  <2>1. <<l.status, u.type>> \in Allowed
    BY <1>4 DEF UpdateAccepted, CanTransition
  <2>2. l.status \notin Terminal
    BY <2>1, TerminalLemma
  <2>3. RowOK(m)
    BY <1>1, <1>2, <2>1, <2>2
    DEF RowOK, Unfilled, StatusTypes, Allowed, Terminal
  <2>4. QED
    BY <1>2, <2>2, <2>3, NoneAssumption DEF Advances
<1>5. QED
  BY <1>3, <1>4

\* A cancel request, a resolution and a submission outcome.
LEMMA TransitionRowLemma ==
    ASSUME NEW l \in Lifecycle, RowOK(l), NEW t \in Status,
           NEW id \in BrokerIds \cup {None},
           \/ CanRequestCancel(l) /\ t = "PENDING_CANCEL" /\ id = None
           \/ /\ l.status \in {"SUBMITTING", "RECONCILIATION_REQUIRED"}
              /\ t \in (Unfilled \ {"SUBMITTING"}) \cup {"CANCELED", "EXPIRED"}
              /\ t = "RECONCILIATION_REQUIRED" => id = None
    PROVE  RowOK(Transition(l, t, id)) /\ Advances(l, Transition(l, t, id))
<1> USE LifecycleFacts
<1> DEFINE m == Transition(l, t, id)
<1>1. /\ m \in Lifecycle
      /\ m.intent = l.intent
      /\ m.filled = l.filled
      /\ m.status = t
      /\ id = None => m.brokerId = l.brokerId
  BY TransitionLemma
<1>2. RowOK(m)
  BY <1>1 DEF RowOK, Unfilled, CanRequestCancel
<1>3. l.status \notin Terminal
  BY DEF CanRequestCancel, Terminal
<1>4. QED
  BY <1>1, <1>2, <1>3, NoneAssumption DEF Advances, CanRequestCancel, RowOK

\* The two rows in which an order first appears are sound.
LEMMA NewRowLemma ==
    ASSUME NEW i \in Intents
    PROVE  RowOK(RiskRejected(i)) /\ RowOK(Submitting(i))
<1>1. i.quantity \in Nat \ {0}
  BY IntentsAssumption DEF Intent
<1>2. QED
  BY <1>1, NewLifecycleLemma DEF RowOK, Unfilled

-----------------------------------------------------------------------------
(* The journal *)

\* The audit events about orders, for executions with keys in X.
Entry(X) ==
    [kind : EventKinds, order : ClientIds, execution : X \cup {None},
     book : Books \cup {None}, quantity : Int, position : Int]

\* The kinds of audit events that report no execution.
QuietKinds == EventKinds \ {"OrderFillApplied"}

\* The step keeps the fill entries and what they say.
JournalQuiet ==
    /\ FillEntries' = FillEntries
    /\ \A n \in FillEntries : journal'[n] = journal[n]

\* The step appends e to the fill entries, under number k.
JournalFill(k, e) ==
    /\ FillEntries' = FillEntries \cup {k}
    /\ k \in Nat
    /\ \A n \in FillEntries : n \in Nat /\ n < k /\ journal'[n] = journal[n]
    /\ journal'[k] = e

\* Appending an entry keeps the earlier ones in place.
LEMMA AppendLemma ==
    ASSUME NEW X, journal \in Seq(Entry(X)), NEW e \in Entry(X),
           journal' = Append(journal, e)
    PROVE  /\ Len(journal) \in Nat
           /\ Len(journal') = Len(journal) + 1
           /\ \A n \in 1..Len(journal) : journal'[n] = journal[n]
           /\ journal'[Len(journal) + 1] = e
           /\ 1..Len(journal') = 1..Len(journal) \cup {Len(journal) + 1}
           /\ journal' \in Seq(Entry(X))
<1>1. /\ Len(journal) \in Nat
      /\ Len(journal') = Len(journal) + 1
      /\ \A n \in 1..Len(journal) : journal'[n] = journal[n]
      /\ journal'[Len(journal) + 1] = e
      /\ journal' \in Seq(Entry(X))
  BY AppendProperties, LenProperties
<1>2. QED
  BY <1>1

\* The fill entries are entries of the journal.
LEMMA JournalFacts ==
    ASSUME NEW X, journal \in Seq(Entry(X))
    PROVE  /\ Len(journal) \in Nat
           /\ FillEntries \subseteq 1..Len(journal)
           /\ \A n \in FillEntries : journal[n] \in Entry(X)
BY LenProperties, ElementOfSeq DEF FillEntries

\* A journal that stays gains no fill.
LEMMA JournalUnchanged ==
    ASSUME journal' = journal
    PROVE  JournalQuiet
BY DEF JournalQuiet, FillEntries

\* Nor does one that gains an event about an order.
LEMMA OrderEventLemma ==
    ASSUME NEW X, journal \in Seq(Entry(X)), NEW c \in ClientIds,
           NEW kind \in QuietKinds,
           journal' = Append(journal, OrderEvent(kind, c))
    PROVE  JournalQuiet /\ journal' \in Seq(Entry(X))
<1> DEFINE e == OrderEvent(kind, c)
<1>1. e \in Entry(X) /\ e.kind # "OrderFillApplied"
  BY DEF OrderEvent, Entry, QuietKinds
<1> HIDE DEF e
<1>2. journal' = Append(journal, e)
  BY DEF e
<1>3. QED
  BY <1>1, <1>2, AppendLemma DEF FillEntries, JournalQuiet

\* A fill event is a new fill entry, after all others.
LEMMA FillEventLemma ==
    ASSUME NEW X, journal \in Seq(Entry(X)), NEW e \in Entry(X),
           e.kind = "OrderFillApplied", journal' = Append(journal, e)
    PROVE  JournalFill(Len(journal) + 1, e) /\ journal' \in Seq(Entry(X))
<1>1. /\ FillEntries' = FillEntries \cup {Len(journal) + 1}
      /\ journal' \in Seq(Entry(X))
  BY AppendLemma DEF FillEntries
<1>2. \A n \in FillEntries : n \in Nat /\ n < Len(journal) + 1
                             /\ journal'[n] = journal[n]
  BY AppendLemma DEF FillEntries
<1>3. Len(journal) + 1 \in Nat /\ journal'[Len(journal) + 1] = e
  BY AppendLemma
<1>4. QED
  BY <1>1, <1>2, <1>3 DEF JournalFill

-----------------------------------------------------------------------------
(* ExecutionsCountedOnce *)

\* ExecutionsCountedOnce: it holds of empty tables, ...
LEMMA CountedOnceInit ==
    ASSUME journal = << >>, claimedExecutions = {}
    PROVE  ExecutionsCountedOnce
<1>1. FillEntries = {}
  BY DEF FillEntries
<1>2. QED
  BY <1>1 DEF ExecutionsCountedOnce

\* ... of a step that applies nothing, ...
LEMMA CountedOnceQuiet ==
    ASSUME ExecutionsCountedOnce, JournalQuiet,
           claimedExecutions' = claimedExecutions
    PROVE  ExecutionsCountedOnce'
BY DEF ExecutionsCountedOnce, JournalQuiet

\* ... and of one that claims an execution together with its entry.
LEMMA CountedOnceFill ==
    ASSUME ExecutionsCountedOnce, NEW k, NEW e, JournalFill(k, e),
           e.execution \notin claimedExecutions,
           claimedExecutions' = claimedExecutions \cup {e.execution}
    PROVE  ExecutionsCountedOnce'
<1>1. /\ FillEntries' = FillEntries \cup {k}
      /\ k \notin FillEntries
      /\ \A n \in FillEntries : journal'[n] = journal[n]
      /\ journal'[k].execution = e.execution
  BY DEF JournalFill
<1>2. {journal'[n].execution : n \in FillEntries'} =
         {journal[n].execution : n \in FillEntries} \cup {e.execution}
  BY <1>1
<1>3. \A n \in FillEntries : journal[n].execution # e.execution
  BY DEF ExecutionsCountedOnce
<1>4. claimedExecutions' = {journal'[n].execution : n \in FillEntries'}
  BY <1>2 DEF ExecutionsCountedOnce
<1>5. ASSUME NEW m \in FillEntries', NEW n \in FillEntries',
             journal'[m].execution = journal'[n].execution
      PROVE  m = n
  BY <1>1, <1>3, <1>5 DEF ExecutionsCountedOnce
<1>6. QED
  BY <1>4, <1>5 DEF ExecutionsCountedOnce

-----------------------------------------------------------------------------
(* JournalReplaysPositions *)

\* The part of JournalReplaysPositions that speaks of book b.
Replays(b) ==
    /\ FillsIn(b) = {} => positions[b] = 0
    /\ \A n \in FillsIn(b) :
          /\ (\A m \in FillsIn(b) : n <= m) =>
                journal[n].position = journal[n].quantity
          /\ \A m \in FillsIn(b) : NextFill(b, m, n) =>
                journal[n].position = journal[m].position + journal[n].quantity
          /\ (\A m \in FillsIn(b) : m <= n) =>
                positions[b] = journal[n].position

\* JournalReplaysPositions speaks of each book by itself.
LEMMA ReplaysEverywhere ==
    /\ JournalReplaysPositions <=> \A b \in Books : Replays(b)
    /\ JournalReplaysPositions' <=> \A b \in Books : Replays(b)'
BY DEF Replays, JournalReplaysPositions

\* Book b is replayed as before when its fill entries and position stay.
LEMMA ReplaysStays ==
    ASSUME NEW b, Replays(b), FillsIn(b)' = FillsIn(b),
           \A n \in FillsIn(b) : journal'[n] = journal[n],
           positions'[b] = positions[b]
    PROVE  Replays(b)'
BY DEF Replays, NextFill

\* A fill of book b, journalled as entry k after all others, is replayed.
LEMMA ReplaysFill ==
    ASSUME NEW b, Replays(b), NEW k \in Nat, NEW q \in Int,
           positions[b] \in Int,
           \A n \in FillsIn(b) : n \in Nat /\ n < k,
           FillsIn(b)' = FillsIn(b) \cup {k},
           \A n \in FillsIn(b) : journal'[n] = journal[n],
           journal'[k].quantity = q,
           journal'[k].position = positions[b] + q,
           positions'[b] = positions[b] + q
    PROVE  Replays(b)'
<1>1. ASSUME NEW n \in FillsIn(b)'
      PROVE  /\ (\A m \in FillsIn(b)' : n <= m) =>
                   journal'[n].position = journal'[n].quantity
             /\ \A m \in FillsIn(b)' : NextFill(b, m, n)' =>
                   journal'[n].position =
                      journal'[m].position + journal'[n].quantity
             /\ (\A m \in FillsIn(b)' : m <= n) =>
                   positions'[b] = journal'[n].position
  <2>1. CASE n = k
    <3>1. (\A m \in FillsIn(b)' : n <= m) => FillsIn(b) = {}
      BY <2>1
    <3>2. ASSUME NEW m \in FillsIn(b)', NextFill(b, m, n)'
          PROVE  positions[b] = journal[m].position /\ m \in FillsIn(b)
      <4>1. m \in FillsIn(b) /\ \A j \in FillsIn(b) : j <= m
        BY <2>1, <3>2 DEF NextFill
      <4>2. QED
        BY <4>1 DEF Replays
    <3>3. FillsIn(b) = {} => positions[b] = 0
      BY DEF Replays
    <3>4. QED
      BY <2>1, <3>1, <3>2, <3>3
  <2>2. CASE n # k
    <3>1. n \in FillsIn(b) /\ n \in Nat /\ n < k
      BY <2>2
    <3>2. (\A m \in FillsIn(b)' : n <= m) => \A m \in FillsIn(b) : n <= m
      OBVIOUS
    <3>3. ASSUME NEW m \in FillsIn(b)', NextFill(b, m, n)'
          PROVE  m \in FillsIn(b) /\ NextFill(b, m, n)
      BY <3>1, <3>3 DEF NextFill
    <3>4. ~ \A m \in FillsIn(b)' : m <= n
      BY <3>1
    <3>5. QED
      BY <3>1, <3>2, <3>3, <3>4 DEF Replays
  <2>3. QED
    BY <2>1, <2>2
<1>2. FillsIn(b)' # {}
  OBVIOUS
<1>3. QED
  BY <1>1, <1>2 DEF Replays

\* It holds of empty tables, ...
LEMMA ReplayInit ==
    ASSUME journal = << >>, \A b \in Books : positions[b] = 0
    PROVE  JournalReplaysPositions
<1>1. FillEntries = {}
  BY DEF FillEntries
<1>2. QED
  BY <1>1 DEF FillsIn, JournalReplaysPositions

\* ... of a step that moves no position, ...
LEMMA ReplayQuiet ==
    ASSUME JournalReplaysPositions, JournalQuiet, positions' = positions
    PROVE  JournalReplaysPositions'
<1>1. SUFFICES ASSUME NEW b \in Books PROVE Replays(b)'
  BY ReplaysEverywhere
<1>2. FillsIn(b)' = FillsIn(b) /\ FillsIn(b) \subseteq FillEntries
  BY DEF FillsIn, JournalQuiet
<1>3. QED
  BY <1>2, ReplaysEverywhere, ReplaysStays DEF JournalQuiet

\* ... and of a fill whose entry records the position after it.
LEMMA ReplayFill ==
    ASSUME JournalReplaysPositions, NEW k, NEW e, JournalFill(k, e),
           e.book \in Books, NEW q \in Int, e.quantity = q,
           positions \in [Books -> Int], e.position = positions[e.book] + q,
           positions' = [positions EXCEPT ![e.book] = @ + q]
    PROVE  JournalReplaysPositions'
<1>1. SUFFICES ASSUME NEW b \in Books PROVE Replays(b)'
  BY ReplaysEverywhere
<1>2. Replays(b)
  BY ReplaysEverywhere
<1>3. /\ FillEntries' = FillEntries \cup {k}
      /\ k \in Nat
      /\ \A n \in FillEntries : n \in Nat /\ n < k /\ journal'[n] = journal[n]
      /\ journal'[k] = e
      /\ FillsIn(b) \subseteq FillEntries
  BY DEF JournalFill, FillsIn
<1>4. CASE b # e.book
  <2>1. FillsIn(b)' = FillsIn(b)
    BY <1>3, <1>4 DEF FillsIn
  <2>2. positions'[b] = positions[b]
    BY <1>4
  <2>3. QED
    BY <1>2, <1>3, <2>1, <2>2, ReplaysStays
<1>5. CASE b = e.book
  <2>1. FillsIn(b)' = FillsIn(b) \cup {k}
    BY <1>3, <1>5 DEF FillsIn
  <2>2. positions[b] \in Int /\ positions'[b] = positions[b] + q
    BY <1>5
  <2>3. journal'[k].quantity = q /\ journal'[k].position = positions[b] + q
    BY <1>3, <1>5
  <2>4. QED
    BY <1>2, <1>3, <2>1, <2>2, <2>3, ReplaysFill
<1>6. QED
  BY <1>4, <1>5

-----------------------------------------------------------------------------
(* Positions and orders *)

\* Orders are typed as the table holds them.
RowsTyped == orders \in [ClientIds -> Lifecycle \cup {None}]

Recorded == {c \in ClientIds : Exists(c)}
SignedFills(b) == [c \in OrdersIn(b) |-> SignedFill(c)]

Balanced(b) == positions[b] = SumFunctionOnSet(SignedFills(b), OrdersIn(b))

\* PositionsMatchOrders, and that there is something to sum: in every state
\* only finitely many orders have a row.
BooksBalance == IsFiniteSet(Recorded) /\ \A b \in Books : Balanced(b)

\* The orders of a book are finitely many, with an integer each.
LEMMA OrdersInFacts ==
    ASSUME RowsTyped, IsFiniteSet(Recorded), NEW b
    PROVE  /\ IsFiniteSet(OrdersIn(b))
           /\ \A c \in OrdersIn(b) :
                 /\ c \in ClientIds /\ Exists(c)
                 /\ SignedFill(c) \in Int /\ SignedFills(b)[c] = SignedFill(c)
<1>1. OrdersIn(b) \subseteq Recorded
  BY DEF OrdersIn, Recorded
<1>2. IsFiniteSet(OrdersIn(b))
  BY <1>1, FS_Subset
<1>3. ASSUME NEW c \in OrdersIn(b)
      PROVE  /\ c \in ClientIds /\ Exists(c)
             /\ SignedFill(c) \in Int /\ SignedFills(b)[c] = SignedFill(c)
  <2>1. c \in ClientIds /\ orders[c] \in Lifecycle
    BY <1>3 DEF OrdersIn, RowsTyped, Exists
  <2>2. orders[c].intent.side \in {1, -1} /\ orders[c].filled \in Nat
    BY <2>1, LifecycleFacts
  <2>3. SignedFill(c) \in Int
    BY <2>2 DEF SignedFill
  <2> QED
    BY <1>3, <2>1, <2>3 DEF SignedFills, OrdersIn
<1> QED
  BY <1>2, <1>3

\* A book whose orders and their fills stay is balanced as before.
LEMMA BalancedStays ==
    ASSUME NEW b, Balanced(b), OrdersIn(b)' = OrdersIn(b),
           \A c \in OrdersIn(b) : SignedFill(c)' = SignedFill(c),
           positions'[b] = positions[b]
    PROVE  Balanced(b)'
<1>1. SignedFills(b)' = SignedFills(b)
  BY DEF SignedFills
<1> QED
  BY <1>1 DEF Balanced

\* A new order has filled nothing.
LEMMA BalancedNew ==
    ASSUME RowsTyped, IsFiniteSet(Recorded), NEW b, Balanced(b),
           NEW d, d \notin OrdersIn(b),
           OrdersIn(b)' = OrdersIn(b) \cup {d}, SignedFill(d)' = 0,
           \A c \in OrdersIn(b) : SignedFill(c)' = SignedFill(c),
           positions'[b] = positions[b]
    PROVE  Balanced(b)'
<1> DEFINE g == SignedFills(b)'
           f == SignedFills(b)
           S == OrdersIn(b)
<1>1. /\ g[d] = 0
      /\ \A c \in S : f[c] \in Int /\ g[c] = f[c]
      /\ IsFiniteSet(S)
      /\ d \notin S
  BY OrdersInFacts DEF SignedFills
<1>2. OrdersIn(b)' = S \cup {d}
  OBVIOUS
<1>3. positions[b] = SumFunctionOnSet(f, S)
  BY DEF Balanced
<1>4. Balanced(b)' <=> positions'[b] = SumFunctionOnSet(g, OrdersIn(b)')
  BY DEF Balanced
<1> HIDE DEF g, f, S
<1>5. \A c \in S \cup {d} : g[c] \in Int
  BY <1>1
<1>6. SumFunctionOnSet(g, S \cup {d}) = SumFunctionOnSet(g, S) + g[d]
  BY <1>1, <1>5, SumAdd
<1>7. SumFunctionOnSet(g, S) = SumFunctionOnSet(f, S)
  BY <1>1, SumEqual
<1>8. SumFunctionOnSet(f, S) \in Int
  BY <1>1, SumInt
<1>9. SumFunctionOnSet(g, S \cup {d}) = positions[b]
  BY <1>1, <1>3, <1>6, <1>7, <1>8
<1> QED
  BY <1>2, <1>4, <1>9

\* An execution of q, signed, moves its order and the position of its book.
LEMMA BalancedFill ==
    ASSUME RowsTyped, IsFiniteSet(Recorded), NEW b, Balanced(b),
           NEW d \in OrdersIn(b), NEW q \in Int,
           OrdersIn(b)' = OrdersIn(b), SignedFill(d)' = SignedFill(d) + q,
           \A c \in OrdersIn(b) : c # d => SignedFill(c)' = SignedFill(c),
           positions'[b] = positions[b] + q
    PROVE  Balanced(b)'
<1> DEFINE g == SignedFills(b)'
           f == SignedFills(b)
           S == OrdersIn(b)
<1>1. /\ g[d] = f[d] + q
      /\ \A c \in S \ {d} : g[c] = f[c]
      /\ \A c \in S : f[c] \in Int
      /\ IsFiniteSet(S)
      /\ d \in S
  BY OrdersInFacts DEF SignedFills
<1>2. positions[b] = SumFunctionOnSet(f, S)
  BY DEF Balanced
<1>3. Balanced(b)' <=> positions'[b] = SumFunctionOnSet(g, S)
  BY DEF Balanced
<1> HIDE DEF g, f, S
<1>4. \A c \in S : f[c] \in Int /\ g[c] \in Int
  BY <1>1
<1>5. SumFunctionOnSet(g, S) = SumFunctionOnSet(f, S) - f[d] + g[d]
  BY <1>1, <1>4, SumChange
<1>6. SumFunctionOnSet(f, S) \in Int /\ f[d] \in Int
  BY <1>1, SumInt
<1> QED
  BY <1>1, <1>2, <1>3, <1>5, <1>6

\* A step that rewrites no row's intent or fills, and adds no row.
LEMMA BooksBalanceStays ==
    ASSUME BooksBalance, positions' = positions,
           \A c \in ClientIds : Exists(c)' <=> Exists(c),
           \A c \in Recorded : /\ orders'[c].intent = orders[c].intent
                               /\ orders'[c].filled = orders[c].filled
    PROVE  BooksBalance'
<1>1. Recorded' = Recorded
  BY DEF Recorded
<1>2. ASSUME NEW b \in Books PROVE Balanced(b)'
  <2>1. OrdersIn(b)' = OrdersIn(b) /\ OrdersIn(b) \subseteq Recorded
    BY DEF OrdersIn, Recorded
  <2>2. \A c \in OrdersIn(b) : SignedFill(c)' = SignedFill(c)
    BY <2>1 DEF SignedFill
  <2> QED
    BY <2>1, <2>2, BalancedStays DEF BooksBalance
<1> QED
  BY <1>1, <1>2 DEF BooksBalance

\* A new row has filled nothing.
LEMMA BooksBalanceNew ==
    ASSUME RowsTyped, BooksBalance, NEW d \in ClientIds, ~ Exists(d),
           NEW l \in Lifecycle, l.filled = 0,
           orders' = [orders EXCEPT ![d] = l], positions' = positions
    PROVE  BooksBalance'
<1>1. /\ l # None
      /\ \A c \in ClientIds : orders'[c] = IF c = d THEN l ELSE orders[c]
  BY NoneAssumption DEF RowsTyped
<1>2. Recorded' = Recorded \cup {d}
  BY <1>1 DEF Recorded, Exists
<1>3. IsFiniteSet(Recorded')
  BY <1>2, FS_AddElement DEF BooksBalance
<1>4. l.intent.side \in {1, -1}
  BY LifecycleFacts
<1>5. ASSUME NEW b \in Books PROVE Balanced(b)'
  <2>1. OrdersIn(b)' = OrdersIn(b) \cup (IF l.intent.book = b THEN {d} ELSE {})
    BY <1>1 DEF OrdersIn, Exists
  <2>2. d \notin OrdersIn(b) /\ OrdersIn(b) \subseteq ClientIds
    BY DEF OrdersIn
  <2>3. SignedFill(d)' = 0
    BY <1>1, <1>4 DEF SignedFill
  <2>4. \A c \in OrdersIn(b) : SignedFill(c)' = SignedFill(c)
    BY <1>1, <2>2 DEF SignedFill
  <2>5. IsFiniteSet(Recorded) /\ Balanced(b) /\ positions'[b] = positions[b]
    BY DEF BooksBalance
  <2>6. CASE l.intent.book = b
    BY <2>1, <2>2, <2>3, <2>4, <2>5, <2>6, BalancedNew
  <2>7. CASE l.intent.book # b
    BY <2>1, <2>4, <2>5, <2>7, BalancedStays
  <2> QED
    BY <2>6, <2>7
<1> QED
  BY <1>3, <1>5 DEF BooksBalance

\* A fill moves a position and the filled quantity of its order alike.
LEMMA BooksBalanceFill ==
    ASSUME RowsTyped, positions \in [Books -> Int], BooksBalance,
           NEW d \in ClientIds, Exists(d), NEW l \in Lifecycle, NEW q \in Nat,
           l.filled = orders[d].filled + q, l.intent = orders[d].intent,
           orders' = [orders EXCEPT ![d] = l],
           positions' = [positions EXCEPT ![l.intent.book] =
                            @ + l.intent.side * q]
    PROVE  BooksBalance'
<1> DEFINE side == orders[d].intent.side
           book == orders[d].intent.book
<1>1. /\ l # None
      /\ \A c \in ClientIds : orders'[c] = IF c = d THEN l ELSE orders[c]
      /\ \A b \in Books : positions'[b] =
            IF b = book THEN positions[b] + side * q ELSE positions[b]
  BY NoneAssumption DEF RowsTyped
<1>2. Recorded' = Recorded
  BY <1>1 DEF Recorded, Exists
<1>3. side \in {1, -1} /\ orders[d].filled \in Nat
  BY LifecycleFacts DEF Exists, RowsTyped
<1>4. ASSUME NEW b \in Books PROVE Balanced(b)'
  <2>1. OrdersIn(b)' = OrdersIn(b)
    BY <1>1 DEF OrdersIn, Exists
  <2>2. /\ IsFiniteSet(Recorded) /\ Balanced(b)
        /\ OrdersIn(b) \subseteq ClientIds
    BY DEF BooksBalance, OrdersIn
  <2>3. \A c \in OrdersIn(b) : c # d => SignedFill(c)' = SignedFill(c)
    BY <1>1, <2>2 DEF SignedFill
  <2>4. CASE b = book
    <3>1. d \in OrdersIn(b)
      BY <2>4 DEF OrdersIn
    <3>2. SignedFill(d)' = side * (orders[d].filled + q)
      BY <1>1 DEF SignedFill
    <3>3. SignedFill(d) = side * orders[d].filled
      BY DEF SignedFill
    <3>4. positions'[b] = positions[b] + side * q
      BY <1>1, <2>4
    <3> HIDE DEF side
    <3>5. /\ side * (orders[d].filled + q) =
               side * orders[d].filled + side * q
          /\ side * q \in Int
      <4>1. side = 1 \/ side = -1
        BY <1>3
      <4> QED
        BY <1>3, <4>1
    <3> QED
      BY <2>1, <2>2, <2>3, <3>1, <3>2, <3>3, <3>4, <3>5, BalancedFill
  <2>5. CASE b # book
    <3>1. d \notin OrdersIn(b)
      BY <2>5 DEF OrdersIn
    <3> QED
      BY <1>1, <2>1, <2>2, <2>3, <2>5, <3>1, BalancedStays
  <2> QED
    BY <2>4, <2>5
<1> QED
  BY <1>2, <1>4 DEF BooksBalance

=============================================================================
