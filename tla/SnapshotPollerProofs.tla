------------------------ MODULE SnapshotPollerProofs ------------------------
(***************************************************************************)
(* NeverAheadOfVenue, proved of any number of orders and books, any        *)
(* quantities, any number of restarts, and of both kinds of adapter: the   *)
(* one that subtracts what it last saw and the one that subtracts zero.    *)
(***************************************************************************)
EXTENDS SnapshotPoller, StoreProofs

\* An order as the venue has it.
VenueOrder ==
    [intent : Intents, brokerId : BrokerIds, filled : Nat,
     status : {"WORKING", "FILLED", "CANCELED", "REJECTED", "EXPIRED"}]

SnapshotShape == [status : Status, filled : Nat]

Executions == BrokerIds \X Nat
Keys == ({"execution"} \X Executions)
            \cup ({"order"} \X BrokerIds \X SnapshotShape)

\* The updates that say what is still true of the venue: their order exists
\* there, and has filled the cumulative quantity that a fill reports, or more.
Truthful ==
    {u \in UpdateShape(Keys, Executions) :
        /\ WellFormed(u)
        /\ Exists(u.order)
        /\ IsFill(u) => /\ u.cumulative \in Nat
                        /\ u.cumulative <= venue[u.order].filled}

\* The rows of an order here and at the venue.
RowsAgree(c) ==
    /\ Exists(c) <=> venue[c] # None
    /\ Exists(c) => /\ orders[c].intent.clientId = c
                    /\ orders[c].filled <= venue[c].filled

PollerInv ==
    /\ RowsTyped
    /\ positions \in [Books -> Int]
    /\ venue \in [ClientIds -> VenueOrder \cup {None}]
    /\ known \in [ClientIds -> SnapshotShape \cup {None}]
    /\ \A c \in ClientIds : RowsAgree(c)
    /\ updates \in Seq(Truthful)
    /\ BooksBalance

\* An order at the venue has the fields and the types of a lifecycle.
LEMMA VenueOrderFacts ==
    ASSUME NEW o \in VenueOrder
    PROVE  /\ o # None
           /\ o.intent \in Intents /\ o.intent.book \in Books
           /\ o.intent.clientId \in ClientIds
           /\ o.filled \in Nat /\ o.brokerId \in BrokerIds
<1>1. o \in Lifecycle
  BY DEF VenueOrder, Lifecycle, Status
<1> QED
  BY <1>1, LifecycleFacts, NoneAssumption DEF VenueOrder

\* The venue finds an identifier for an order it does not have yet.
LEMMA FreshIdLemma ==
    ASSUME venue \in [ClientIds -> VenueOrder \cup {None}],
           NEW c \in ClientIds, venue[c] = None
    PROVE  FreshBrokerId \in BrokerIds
<1> DEFINE given == [d \in ClientIds |->
                        IF venue[d] = None THEN None ELSE venue[d].brokerId]
<1>1. given \in [ClientIds -> BrokerIds \cup {None}]
  BY VenueOrderFacts
<1>2. given[c] = None
  OBVIOUS
<1> HIDE DEF given
<1>3. PICK b \in BrokerIds : \A d \in ClientIds : given[d] # b
  BY <1>1, <1>2, BrokerIdsAssumption
<1>4. \A d \in ClientIds : venue[d] # None => venue[d].brokerId # b
  BY <1>3 DEF given
<1> QED
  BY <1>4 DEF FreshBrokerId

\* SetToSeq lists the elements of a finite set.
LEMMA SetToSeqLemma ==
    ASSUME NEW S, IsFiniteSet(S)
    PROVE  /\ Cardinality(S) \in Nat
           /\ SetToSeq(S) \in [1..Cardinality(S) -> S]
<1>1. /\ Cardinality(S) \in Nat
      /\ ExistsBijection(1..Cardinality(S), S)
  BY FS_CardinalityType
<1>2. PICK f \in [1..Cardinality(S) -> S] : IsInjective(f)
  BY <1>1 DEF ExistsBijection, Bijection, Injection, IsInjective
<1> QED
  BY <1>1, <1>2 DEF SetToSeq

-----------------------------------------------------------------------------
(* Updates *)

\* What a look at the venue shows of an order is a snapshot of the right type.
LEMMA LookLemma ==
    ASSUME PollerInv, NEW seen \in Looks, NEW c \in Listed
    PROVE  /\ c \in ClientIds /\ venue[c] \in VenueOrder /\ Exists(c)
           /\ seen[c] \in OpenNames \cup FinalNames \cup {"PARTIALLY_FILLED"}
           /\ Snapshot(seen, c) \in SnapshotShape
<1>1. c \in ClientIds /\ venue[c] \in VenueOrder /\ Exists(c)
  BY DEF Listed, PollerInv, RowsAgree
<1>2. seen[c] \in Names(venue[c])
  BY DEF Looks
<1>3. seen[c] \in OpenNames \cup FinalNames \cup {"PARTIALLY_FILLED"}
  BY <1>1, <1>2, NamesAssumption DEF Names, VenueOrder, FinalNames
<1>4. seen[c] \in Status /\ venue[c].filled \in Nat
  BY <1>1, <1>3, VenueOrderFacts DEF Status, OpenNames, FinalNames
<1> QED
  BY <1>1, <1>3, <1>4 DEF Snapshot, SnapshotShape

\* The orders of which a poll makes updates.
Told(seen) ==
    {c \in Changed(seen) : IF ReportsFill(seen, c) THEN Increment(c) > 0
                           ELSE seen[c] \in Reportable}

Report(seen, c) ==
    IF ReportsFill(seen, c) THEN FillUpdate(seen, c) ELSE StatusUpdate(seen, c)

\* What a poll makes of an order at the venue is a truthful update.
LEMMA UpdateLemma ==
    ASSUME PollerInv, NEW seen \in Looks, NEW c \in Told(seen)
    PROVE  Report(seen, c) \in Truthful
<1>1. /\ c \in ClientIds /\ venue[c] \in VenueOrder /\ Exists(c)
      /\ venue[c].filled \in Nat /\ venue[c].brokerId \in BrokerIds
      /\ venue[c].intent.book \in Books
      /\ Snapshot(seen, c) \in SnapshotShape
  BY LookLemma, VenueOrderFacts DEF Told, Changed
<1>2. ExecutionKey(c) \in Executions /\ ExecutionKey(c) # None
  BY <1>1, PollerAssumption DEF ExecutionKey, Executions
<1>3. PreviousFilled(c) \in Nat
  BY <1>1 DEF PreviousFilled, PollerInv, SnapshotShape
<1>4. CASE ReportsFill(seen, c)
  <2>1. Increment(c) \in Nat \ {0}
    BY <1>1, <1>3, <1>4 DEF Increment, Told
  <2>2. <<"execution", ExecutionKey(c)>> \in Keys
    BY <1>2 DEF Keys
  <2> DEFINE u == FillUpdate(seen, c)
  <2>3. u \in UpdateShape(Keys, Executions)
    BY <1>1, <1>2, <2>1, <2>2 DEF FillUpdate, UpdateShape, FillTypes
  <2>4. u \in Truthful
    BY <1>1, <1>2, <2>1, <2>3
    DEF FillUpdate, Truthful, WellFormed, IsFill, FillTypes
  <2> QED
    BY <1>4, <2>4 DEF Report
<1>5. CASE ~ ReportsFill(seen, c)
  <2>1. UpdateType(seen[c]) \in StatusTypes
    BY <1>5 DEF Told, Reportable, UpdateType, StatusTypes
  <2>2. <<"order", venue[c].brokerId, Snapshot(seen, c)>> \in Keys
    BY <1>1 DEF Keys
  <2> DEFINE u == StatusUpdate(seen, c)
  <2>3. u \in UpdateShape(Keys, Executions)
    BY <1>1, <2>1, <2>2 DEF StatusUpdate, UpdateShape
  <2>4. u \in Truthful
    BY <1>1, <2>1, <2>3
    DEF StatusUpdate, Truthful, WellFormed, IsFill, FillTypes, StatusTypes
  <2> QED
    BY <1>5, <2>4 DEF Report
<1> QED
  BY <1>4, <1>5

\* Rows that stay or appear, and venue fills that only grow, keep true what
\* the waiting updates say.
LEMMA TruthfulGrows ==
    ASSUME PollerInv,
           \A c \in ClientIds : Exists(c) =>
              /\ Exists(c)'
              /\ venue'[c].filled >= venue[c].filled
              /\ venue'[c].filled \in Nat
    PROVE  Seq(Truthful) \subseteq Seq(Truthful)'
<1>1. ASSUME NEW u \in Truthful PROVE u \in Truthful'
  <2>1. u \in UpdateShape(Keys, Executions) /\ u.order \in ClientIds
    BY DEF Truthful, UpdateShape
  <2>2. venue[u.order].filled \in Nat
    BY <2>1, VenueOrderFacts DEF Truthful, PollerInv, RowsAgree
  <2> QED
    BY <2>1, <2>2 DEF Truthful
<1>2. Truthful \subseteq Truthful'
  BY <1>1
<1> QED
  BY <1>2, SeqDef

\* Steps that write none of the three tables.
LEMMA TablesStay ==
    ASSUME PollerInv, UNCHANGED <<orders, positions, venue>>
    PROVE  /\ RowsTyped' /\ BooksBalance'
           /\ positions' \in [Books -> Int]
           /\ venue' \in [ClientIds -> VenueOrder \cup {None}]
           /\ \A c \in ClientIds : RowsAgree(c)'
           /\ Truthful' = Truthful
<1>1. Truthful' = Truthful
  BY DEF Truthful, Exists
<1>2. BooksBalance' /\ RowsTyped'
  BY BooksBalanceStays DEF Exists, PollerInv, RowsTyped, Recorded
<1>3. \A c \in ClientIds : RowsAgree(c)'
  BY DEF PollerInv, RowsAgree, Exists
<1> QED
  BY <1>1, <1>2, <1>3 DEF PollerInv

-----------------------------------------------------------------------------
(* The actions *)

\* An accepted order stands in both tables, with nothing filled.
LEMMA AcceptInv ==
    ASSUME PollerInv, NEW i \in Intents, Accept(i)
    PROVE  PollerInv'
<1> DEFINE c == i.clientId
           id == FreshBrokerId
           l == Transition(Submitting(i), "SUBMITTED", id)
           o == [intent |-> i, brokerId |-> id, status |-> "WORKING",
                 filled |-> 0]
<1>1. c \in ClientIds /\ ~ Exists(c) /\ venue[c] = None
  BY NewLifecycleLemma DEF Accept, PollerInv, RowsAgree
<1>2. id \in BrokerIds
  BY <1>1, FreshIdLemma DEF PollerInv
<1> HIDE DEF id
<1>3. l \in Lifecycle /\ l.intent = i /\ l.filled = 0 /\ l # None
  <2> DEFINE r == Submitting(i)
  <2>1. r \in Lifecycle /\ r.intent = i /\ r.filled = 0
    BY NewLifecycleLemma
  <2>2. "SUBMITTED" \in Status /\ id \in BrokerIds \cup {None}
    BY <1>2 DEF Status
  <2>3. l = Transition(r, "SUBMITTED", id)
    OBVIOUS
  <2> HIDE DEF r, l
  <2> QED
    BY <2>1, <2>2, <2>3, TransitionLemma, NoneAssumption
<1>4. o \in VenueOrder /\ o # None /\ o.filled = 0
  BY <1>2, VenueOrderFacts DEF VenueOrder
<1>5. /\ orders' = [orders EXCEPT ![l.intent.clientId] = l]
      /\ venue' = [venue EXCEPT ![c] = o]
      /\ UNCHANGED <<positions, known, updates>>
  BY DEF Accept, Receive, SaveOrder, id
<1> HIDE DEF l, o
<1>6. /\ orders' = [orders EXCEPT ![c] = l]
      /\ RowsTyped'
      /\ venue' \in [ClientIds -> VenueOrder \cup {None}]
      /\ \A d \in ClientIds :
            /\ orders'[d] = IF d = c THEN l ELSE orders[d]
            /\ venue'[d] = IF d = c THEN o ELSE venue[d]
  BY <1>1, <1>3, <1>4, <1>5 DEF PollerInv, RowsTyped
<1>7. \A d \in ClientIds : RowsAgree(d)'
  BY <1>1, <1>3, <1>4, <1>6 DEF PollerInv, RowsAgree, Exists
<1>8. BooksBalance'
  BY <1>1, <1>3, <1>5, <1>6, BooksBalanceNew DEF PollerInv
<1>9. \A d \in ClientIds : Exists(d) =>
         /\ Exists(d)'
         /\ venue'[d].filled >= venue[d].filled
         /\ venue'[d].filled \in Nat
  BY <1>1, <1>6, VenueOrderFacts DEF PollerInv, RowsAgree, Exists
<1>10. updates' \in Seq(Truthful)'
  BY <1>5, <1>9, TruthfulGrows DEF PollerInv
<1> QED
  BY <1>5, <1>6, <1>7, <1>8, <1>10 DEF PollerInv

\* What a poll remembers has the type of a snapshot.
LEMMA RememberLemma ==
    ASSUME PollerInv, NEW seen \in Looks, NEW S \in SUBSET Changed(seen),
           Remember(seen, S)
    PROVE  known' \in [ClientIds -> SnapshotShape \cup {None}]
<1>1. \A c \in S : Snapshot(seen, c) \in SnapshotShape
  BY LookLemma DEF Changed
<1> QED
  BY <1>1 DEF Remember, PollerInv

\* A poll touches neither table and lists truthful updates.
LEMMA PollInv ==
    ASSUME PollerInv, Poll
    PROVE  PollerInv'
<1>1. PICK seen \in Looks :
         LET batch == SetToSeq(Told(seen)) IN
         /\ Remember(seen, Changed(seen))
         /\ updates' = [n \in DOMAIN batch |-> Report(seen, batch[n])]
         /\ UNCHANGED <<storeVars, venueVars>>
  BY DEF Poll, Told, Report
<1> DEFINE S == Told(seen)
           batch == SetToSeq(S)
<1>2. \A c \in S : Report(seen, c) \in Truthful
  BY UpdateLemma
<1>3. IsFiniteSet(S)
  <2>1. S \subseteq Recorded
    BY LookLemma DEF Told, Changed, Recorded, Listed
  <2> QED
    BY <2>1, FS_Subset DEF PollerInv, BooksBalance
<1>4. known' \in [ClientIds -> SnapshotShape \cup {None}]
  BY <1>1, RememberLemma
<1>5. updates' = [n \in DOMAIN batch |-> Report(seen, batch[n])]
  BY <1>1
<1> HIDE DEF S
<1>6. Cardinality(S) \in Nat /\ batch \in [1..Cardinality(S) -> S]
  BY <1>3, SetToSeqLemma
<1> HIDE DEF batch
<1>7. updates' \in [1..Cardinality(S) -> Truthful]
  BY <1>2, <1>5, <1>6
<1>8. updates' \in Seq(Truthful)
  BY <1>6, <1>7, SeqDef
<1>9. UNCHANGED <<orders, positions, venue>>
  BY <1>1 DEF storeVars, venueVars
<1> QED
  BY <1>4, <1>8, <1>9, TablesStay DEF PollerInv

\* A poll that raises remembers what it read and does nothing else.
LEMMA PollRaisesInv ==
    ASSUME PollerInv, PollRaises
    PROVE  PollerInv'
<1>1. PICK seen \in Looks : \E read \in SUBSET Changed(seen) :
         Remember(seen, read)
  BY DEF PollRaises
<1>2. known' \in [ClientIds -> SnapshotShape \cup {None}]
  BY <1>1, RememberLemma
<1>3. UNCHANGED <<orders, positions, venue, updates>>
  BY DEF PollRaises, storeVars, venueVars
<1> QED
  BY <1>2, <1>3, TablesStay DEF PollerInv

\* The venue changes order c and no other, and what it filled stays filled.
VenueMoves(c) ==
    /\ \A d \in ClientIds : d # c => venue'[d] = venue[d]
    /\ venue' \in [ClientIds -> VenueOrder \cup {None}]
    /\ venue'[c] \in VenueOrder
    /\ venue'[c].filled >= venue[c].filled

\* The venue fills or closes an order, and never takes a fill back.
LEMMA VenueInv ==
    ASSUME PollerInv, VenueStep
    PROVE  PollerInv'
<1>1. PICK c \in ClientIds :
         /\ Working(c)
         /\ \/ \E q \in 1..venue[c].intent.quantity : VenueFill(c, q)
            \/ \E status \in Closings : VenueClose(c, status)
  BY DEF VenueStep
<1>2. UNCHANGED <<storeVars, known, updates>>
  BY DEF VenueStep
<1>3. venue[c] \in VenueOrder /\ venue[c].filled \in Nat
  BY <1>1, VenueOrderFacts DEF Working, PollerInv
<1>4. VenueMoves(c)
  <2>1. ASSUME NEW q \in 1..venue[c].intent.quantity, VenueFill(c, q)
        PROVE  VenueMoves(c)
    <3> DEFINE n == venue[c].filled + q
               s == IF n = venue[c].intent.quantity THEN "FILLED"
                    ELSE venue[c].status
               a == [venue[c] EXCEPT !.filled = n, !.status = s]
    <3>1. venue' = [venue EXCEPT ![c] = a]
      BY <2>1 DEF VenueFill
    <3>2. q \in Nat
      BY <1>3, IntentsAssumption DEF VenueOrder, Intent
    <3>3. n \in Nat /\ n >= venue[c].filled
      BY <1>3, <3>2
    <3>4. s \in {"WORKING", "FILLED", "CANCELED", "REJECTED", "EXPIRED"}
      BY <1>3 DEF VenueOrder
    <3> HIDE DEF n, s
    <3> DEFINE f == [venue[c] EXCEPT !.filled = n]
    <3>5. f \in VenueOrder /\ f.filled = n
      BY <1>3, <3>3 DEF VenueOrder
    <3>6. a = [f EXCEPT !.status = s]
      BY <1>3 DEF VenueOrder
    <3> HIDE DEF f
    <3>7. [f EXCEPT !.status = s] \in VenueOrder
          /\ [f EXCEPT !.status = s].filled = n
      BY <3>4, <3>5 DEF VenueOrder
    <3> HIDE DEF a
    <3> QED
      BY <1>3, <3>1, <3>3, <3>6, <3>7 DEF PollerInv, VenueMoves
  <2>2. ASSUME NEW status \in Closings, VenueClose(c, status)
        PROVE  VenueMoves(c)
    <3> DEFINE a == [venue[c] EXCEPT !.status = status]
    <3>1. venue' = [venue EXCEPT ![c] = a]
      BY <2>2 DEF VenueClose
    <3>2. a \in VenueOrder /\ a.filled = venue[c].filled
      BY <1>3, PollerAssumption DEF VenueOrder
    <3> HIDE DEF a
    <3> QED
      BY <1>3, <3>1, <3>2 DEF PollerInv, VenueMoves
  <2> QED
    BY <1>1, <2>1, <2>2
<1>5. /\ RowsTyped' /\ BooksBalance'
      /\ \A d \in ClientIds : Exists(d)' <=> Exists(d)
  BY <1>2, BooksBalanceStays
  DEF Exists, PollerInv, RowsTyped, Recorded, storeVars
<1>6. \A d \in ClientIds : Exists(d) =>
         /\ venue'[d].filled >= venue[d].filled
         /\ venue'[d].filled \in Nat /\ venue[d].filled \in Nat
         /\ orders[d].filled \in Nat
  BY <1>4, VenueOrderFacts, LifecycleFacts
  DEF PollerInv, RowsAgree, RowsTyped, Exists, VenueMoves
<1>7. \A d \in ClientIds : RowsAgree(d)'
  <2>1. ASSUME NEW d \in ClientIds PROVE RowsAgree(d)'
    <3>1. venue'[d] # None <=> venue[d] # None
      BY <1>3, <1>4, VenueOrderFacts DEF VenueMoves
    <3>2. orders'[d] = orders[d] /\ RowsAgree(d)
      BY <1>2 DEF storeVars, PollerInv
    <3> QED
      BY <1>5, <1>6, <3>1, <3>2 DEF RowsAgree
  <2> QED
    BY <2>1
<1>8. updates' \in Seq(Truthful)'
  BY <1>2, <1>5, <1>6, TruthfulGrows DEF PollerInv
<1> QED
  BY <1>2, <1>4, <1>5, <1>7, <1>8
  DEF PollerInv, storeVars, VenueMoves

\* A fill is applied only if the cumulative quantity it names, which the
\* venue has filled, is what the order then has.
LEMMA ProcessInv ==
    ASSUME PollerInv, Process
    PROVE  PollerInv'
<1> DEFINE u == Head(updates)
           d == u.order
           l == orders[d]
           m == ApplyUpdate(l, u)
<1>1. /\ ProcessUpdate(u)
      /\ updates # << >> /\ updates' = Tail(updates)
      /\ known' = known /\ venue' = venue
  BY DEF Process, venueVars
<1>2. u \in Truthful /\ Tail(updates) \in Seq(Truthful)
  BY <1>1, HeadTailProperties DEF PollerInv
<1>3. u \in UpdateShape(Keys, Executions) /\ WellFormed(u) /\ d \in ClientIds
  BY <1>2 DEF Truthful, UpdateShape
<1>4. CASE UNCHANGED <<orders, positions>>
  BY <1>1, <1>2, <1>4, TablesStay DEF PollerInv
<1>5. CASE CommitUpdate(u)
  <2>1. /\ Exists(d) /\ UpdateAccepted(l, u)
        /\ orders' = [orders EXCEPT ![m.intent.clientId] = m]
        /\ positions' = PositionAfter(l, u)
    BY <1>5 DEF CommitUpdate, SaveOrder
  <2>2. l \in Lifecycle /\ l.intent.clientId = d
    BY <1>3, <2>1 DEF PollerInv, RowsTyped, RowsAgree, Exists
  <2>3. /\ m \in Lifecycle /\ m.intent = l.intent
        /\ m.filled = l.filled + u.quantity
    BY <1>3, <2>1, <2>2, ApplyUpdateLemma
  <2>4. u.quantity \in Nat /\ l.filled \in Nat /\ u.book = l.intent.book
        /\ l.intent.book \in Books /\ l.intent.side \in {1, -1}
    BY <1>3, <2>1, <2>2, LifecycleFacts
    DEF UpdateShape, UpdateAccepted, IdentityMatches
  <2>5. venue[d].filled \in Nat /\ l.filled <= venue[d].filled
    BY <1>3, <2>1, VenueOrderFacts DEF PollerInv, RowsAgree
  <2>6. m.filled <= venue[d].filled
    <3>1. CASE IsFill(u)
      BY <1>2, <2>1, <2>3, <3>1, NoneAssumption
      DEF UpdateAccepted, FillAccepted, NewFilled, Truthful
    <3>2. CASE ~ IsFill(u)
      BY <1>3, <2>3, <2>4, <2>5, <3>2 DEF WellFormed
    <3> QED
      BY <3>1, <3>2
  <2>7. /\ orders' = [orders EXCEPT ![d] = m]
        /\ m # None
    BY <2>1, <2>2, <2>3, NoneAssumption
  <2>8. positions' \in [Books -> Int]
    BY <2>1, <2>4 DEF PositionAfter, PollerInv
  <2>9. BooksBalance'
    <3>1. CASE IsFill(u)
      <4>1. positions' = [positions EXCEPT ![m.intent.book] =
                             @ + m.intent.side * u.quantity]
        BY <2>1, <2>3, <2>4, <3>1 DEF PositionAfter
      <4> HIDE DEF m
      <4> QED
        BY <1>3, <2>1, <2>3, <2>4, <2>7, <4>1, BooksBalanceFill
        DEF PollerInv
    <3>2. CASE ~ IsFill(u)
      <4>1. positions' = positions /\ m.filled = l.filled
        BY <1>3, <2>1, <2>3, <2>4, <3>2 DEF PositionAfter, WellFormed
      <4> HIDE DEF m
      <4> QED
        BY <1>3, <2>1, <2>3, <2>7, <4>1, BooksBalanceStays
        DEF PollerInv, RowsTyped, Exists, Recorded
    <3> QED
      BY <3>1, <3>2
  <2> HIDE DEF m
  <2>10. RowsTyped'
    BY <1>3, <2>3, <2>7 DEF PollerInv, RowsTyped
  <2>11. \A c \in ClientIds : RowsAgree(c)' /\ (Exists(c)' <=> Exists(c))
    <3>1. \A c \in ClientIds : orders'[c] = IF c = d THEN m ELSE orders[c]
      BY <1>3, <2>7 DEF PollerInv, RowsTyped
    <3> QED
      BY <1>1, <2>1, <2>2, <2>3, <2>6, <2>7, <3>1
      DEF PollerInv, RowsAgree, Exists
  <2>12. updates' \in Seq(Truthful)'
    <3>1. Truthful' = Truthful
      BY <1>1, <2>11 DEF Truthful, UpdateShape
    <3> QED
      BY <1>1, <1>2, <3>1
  <2> QED
    BY <1>1, <2>8, <2>9, <2>10, <2>11, <2>12 DEF PollerInv
<1> QED
  BY <1>1, <1>4, <1>5
  DEF ProcessUpdate, IgnoreDuplicateEvent, IgnoreDuplicateExecution,
      RollBackUpdate, storeVars

-----------------------------------------------------------------------------
(* The theorem *)

\* The invariant holds at the start.
LEMMA PollerInit == Init => PollerInv
<1>1. SUFFICES ASSUME Init PROVE PollerInv
  OBVIOUS
<1>2. Recorded = {} /\ \A b : OrdersIn(b) = {}
  BY <1>1 DEF Init, StoreInit, Recorded, OrdersIn, Exists
<1>3. BooksBalance
  BY <1>1, <1>2, FS_EmptySet, SumEmpty
  DEF BooksBalance, Balanced, Init, StoreInit
<1>4. updates \in Seq(Truthful)
  BY <1>1 DEF Init
<1> QED
  BY <1>1, <1>3, <1>4
  DEF Init, StoreInit, VenueInit, NothingKnown, PollerInv, RowsTyped,
      RowsAgree, Exists

\* A restart forgets what was seen and what was not yet processed.
LEMMA RestartInv ==
    ASSUME PollerInv, Restart
    PROVE  PollerInv'
<1>1. /\ known' = NothingKnown /\ updates' = << >>
      /\ UNCHANGED <<orders, positions, venue>>
  BY DEF Restart, storeVars, venueVars
<1>2. /\ known' \in [ClientIds -> SnapshotShape \cup {None}]
      /\ updates' \in Seq(Truthful)'
  BY <1>1 DEF NothingKnown
<1> QED
  BY <1>1, <1>2, TablesStay DEF PollerInv

(* NeverAheadOfVenue: differences of snapshots, with or without a memory   *)
(* of the last one and however often the adapter restarts, never count a   *)
(* fill the venue did not make, and positions are what the rows filled.    *)
THEOREM NeverAhead == Spec => []NeverAheadOfVenue
<1>1. ASSUME PollerInv, [Next]_vars PROVE PollerInv'
  <2>1. CASE UNCHANGED vars
    <3>1. UNCHANGED <<orders, positions, venue, known, updates>>
      BY <2>1 DEF vars, storeVars, venueVars
    <3> QED
      BY <1>1, <3>1, TablesStay DEF PollerInv
  <2> QED
    BY <1>1, <2>1, AcceptInv, PollInv, PollRaisesInv, ProcessInv, VenueInv,
        RestartInv
    DEF Next
<1>2. PollerInv => NeverAheadOfVenue
  BY DEF PollerInv, RowsAgree, NeverAheadOfVenue, BooksBalance, Balanced,
         SignedFills, PositionsMatchOrders
<1> QED
  BY <1>1, <1>2, PollerInit, PTL DEF Spec

=============================================================================
