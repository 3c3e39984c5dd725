--------------------------- MODULE SnapshotPoller ---------------------------
(***************************************************************************)
(* poll_order_updates of brokers/tradestation.py and brokers/tradovate.py: *)
(* these adapters see of every order its status and its cumulative filled  *)
(* quantity only, and make fills out of the difference between two polls.  *)
(* Orders are submitted and accepted in one step here: what may happen in  *)
(* between is the subject of TradingCore.                                  *)
(***************************************************************************)
EXTENDS Store, Venue, SequencesExt

CONSTANTS
    Remembers,       \* TRUE: tradovate, which subtracts what it last saw
                     \* FALSE: tradestation, which subtracts zero
    PricesMayMiss,   \* an order with fills may come without an average price
    Closings,        \* how the venue may close an order by itself
    MaxRestarts      \* bound on restarts of the process

ASSUME PollerAssumption ==
    /\ Remembers \in BOOLEAN /\ PricesMayMiss \in BOOLEAN
    /\ Closings \subseteq {"CANCELED", "REJECTED", "EXPIRED"}
    /\ MaxRestarts \in Nat
    /\ None \notin BrokerIds \X Nat

VARIABLES
    known,    \* _known_states: client id -> the snapshot last seen, or None
    updates,  \* polled updates the host has not processed yet
    restarts,
    missed    \* history: client ids whose further fills the adapter has lost
              \* track of, see FillsTakenUp; no action depends on it

vars == <<storeVars, venueVars, known, updates, restarts, missed>>

NothingKnown == [c \in ClientIds |-> None]

Init ==
    /\ StoreInit /\ VenueInit
    /\ known = NothingKnown
    /\ updates = << >>
    /\ restarts = 0
    /\ missed = {}

-----------------------------------------------------------------------------
(* Snapshots: seen is the look that the poll takes at the venue *)

Snapshot(seen, c) == [status |-> seen[c], filled |-> venue[c].filled]

ReportsFill(seen, c) == seen[c] \in {"PARTIALLY_FILLED", "FILLED"}

\* Mutant: what was seen before is forgotten.
PreviousFilledZero(c) == 0

PreviousFilled(c) ==
    IF Remembers /\ known[c] # None THEN known[c].filled ELSE 0

Increment(c) == venue[c].filled - PreviousFilled(c)

\* Without an identifier from the venue, the cumulative quantity names the
\* execution.
ExecutionKey(c) == <<venue[c].brokerId, venue[c].filled>>

FillUpdate(seen, c) ==
    [event |-> <<"execution", ExecutionKey(c)>>, execution |-> ExecutionKey(c),
     order |-> c, book |-> venue[c].intent.book,
     type |-> IF seen[c] = "FILLED" THEN "FILL" ELSE "PARTIAL_FILL",
     brokerId |-> venue[c].brokerId, quantity |-> Increment(c),
     cumulative |-> venue[c].filled]

StatusUpdate(seen, c) ==
    [event |-> <<"order", venue[c].brokerId, Snapshot(seen, c)>>,
     execution |-> None, order |-> c, book |-> venue[c].intent.book,
     type |-> UpdateType(seen[c]), brokerId |-> venue[c].brokerId,
     quantity |-> 0, cumulative |-> None]

Changed(seen) == {c \in Listed : known[c] # Snapshot(seen, c)}

\* The snapshots of S are remembered.
Remember(seen, S) ==
    known' = [c \in ClientIds |-> IF c \in S THEN Snapshot(seen, c) ELSE known[c]]

-----------------------------------------------------------------------------
(* Actions *)

\* OrderGateway.submit of an order that the broker accepts.
Accept(i) ==
    /\ ~ Exists(i.clientId)
    /\ Receive(i) /\ CountRequest(i)
    /\ SaveOrder(Transition(Submitting(i), "SUBMITTED", FreshBrokerId))
    /\ journal' = journal \o
         <<OrderEvent("OrderSubmissionStarted", i.clientId),
           OrderEvent("OrderSubmitted", i.clientId)>>
    /\ UNCHANGED <<positions, claimedEvents, claimedExecutions, trades, known,
                   updates, restarts, missed>>

\* Changed snapshots are remembered.  One that shows no new fill, and one whose
\* status is not Reportable, makes no update.
Poll ==
    \E seen \in Looks :
       LET batch == SetToSeq({c \in Changed(seen) :
                       IF ReportsFill(seen, c) THEN Increment(c) > 0
                       ELSE seen[c] \in Reportable})
       IN /\ updates = << >>
          /\ Remember(seen, Changed(seen))
          /\ updates' = [n \in DOMAIN batch |->
               IF ReportsFill(seen, batch[n]) THEN FillUpdate(seen, batch[n])
               ELSE StatusUpdate(seen, batch[n])]
          /\ missed' = missed \cup {c \in Changed(seen) :
               ~ ReportsFill(seen, c) /\ Increment(c) > 0}
          /\ UNCHANGED <<storeVars, venueVars, restarts>>

\* A fill without a price makes BrokerOrderUpdate raise: what was read up to
\* it stays remembered, and the updates made of it are lost.
PollRaises ==
    /\ PricesMayMiss
    /\ updates = << >>
    /\ \E seen \in Looks : \E read \in SUBSET Changed(seen) :
          /\ \E c \in read : ReportsFill(seen, c) /\ Increment(c) > 0
          /\ Remember(seen, read)
          /\ missed' = missed \cup {c \in read : Increment(c) > 0}
    /\ UNCHANGED <<storeVars, venueVars, updates, restarts>>

\* The host processes the updates in turn and goes on after one that raises.
Process ==
    /\ updates # << >>
    /\ ProcessUpdate(Head(updates))
    /\ updates' = Tail(updates)
    /\ UNCHANGED <<venueVars, known, restarts, missed>>

VenueStep ==
    /\ \E c \in {d \in ClientIds : Working(d)} :
          \/ \E q \in 1..venue[c].intent.quantity : VenueFill(c, q)
          \/ \E status \in Closings : VenueClose(c, status)
    /\ UNCHANGED <<storeVars, known, updates, restarts, missed>>

\* What the rows hold by now will be counted again with the fills to come.
Restart ==
    /\ restarts < MaxRestarts
    /\ restarts' = restarts + 1
    /\ known' = NothingKnown
    /\ updates' = << >>
    /\ missed' = missed \cup {c \in ClientIds : Exists(c) /\ orders[c].filled > 0}
    /\ UNCHANGED <<storeVars, venueVars>>

Next ==
    \/ \E i \in Intents : Accept(i)
    \/ Poll
    \/ PollRaises
    \/ Process
    \/ VenueStep
    \/ Restart

Spec == Init /\ [][Next]_vars

\* The host polls and processes again and again
\* (update_poll_interval_seconds), and a poll that raised remembers what made
\* it raise, so that not every one does; the venue need not do anything.
FairSpec == Spec /\ WF_vars(Poll) /\ WF_vars(Process)

-----------------------------------------------------------------------------
(* Properties *)

(* Differences of snapshots never count a fill that was not made, however  *)
(* many fills fall between two polls and also when a restarted adapter     *)
(* reports everything from the beginning: the order row stays behind the   *)
(* venue, and positions are what the order rows filled.                    *)
NeverAheadOfVenue ==
    /\ \A c \in ClientIds :
          Exists(c) => orders[c].filled <= venue[c].filled
    /\ PositionsMatchOrders

CaughtUp(c) == venue[c] # None => Exists(c) /\ orders[c].filled >= venue[c].filled

(* An order takes up what the venue filled in the end, in however many     *)
(* steps it was filled and polled, and also across a restart that finds    *)
(* nothing applied yet, unless the adapter lost track of the order: it saw *)
(* a new quantity under a status that is no fill (working, canceled, or    *)
(* one it skips), it read the fill in a poll that raised, or it forgot, by *)
(* a restart, a fill that was already applied.                             *)
FillsTakenUp == \A c \in ClientIds : []<>(CaughtUp(c) \/ c \in missed)

(* The same without exception, asked of an adapter that does not remember  *)
(* what it saw: a confirmed fill moves the position.                       *)
ConfirmedFillsTakenUp == \A c \in ClientIds : []<>CaughtUp(c)

=============================================================================
