------------------------------- MODULE Venue --------------------------------
(***************************************************************************)
(* The venue behind a broker adapter.  It is not part of the repository:   *)
(* it is modelled from what ports/broker.py and the adapters expect of it. *)
(* It accepts orders, fills them in any steps, and closes them for its own *)
(* reasons at any time.                                                    *)
(***************************************************************************)
EXTENDS OrderLifecycle, FiniteSetsExt

CONSTANTS
    UnfilledNames,   \* what adapters call an open order that has no fill
    PartialNames     \* what adapters call an open order that has fills

\* status_from_text: PENDING_CANCEL, and RECONCILIATION_REQUIRED for a text it
\* does not know.  An order that is over comes under a text that it knows.
OpenNames ==
    {"SUBMITTED", "ACKNOWLEDGED", "WORKING", "PENDING_CANCEL",
     "RECONCILIATION_REQUIRED"}
FinalNames == {"FILLED", "CANCELED", "REJECTED", "EXPIRED"}

ASSUME NamesAssumption ==
    /\ UnfilledNames # {} /\ UnfilledNames \subseteq OpenNames
    /\ PartialNames # {}
    /\ PartialNames \subseteq OpenNames \cup {"PARTIALLY_FILLED"}

\* The venue does not run out of identifiers: while an order is without one,
\* one is unused.
ASSUME BrokerIdsAssumption ==
    \A given \in [ClientIds -> BrokerIds \cup {None}] :
       (\E c \in ClientIds : given[c] = None) =>
          \E b \in BrokerIds : \A c \in ClientIds : given[c] # b

VARIABLES
    venue,     \* client id -> order at the venue, None if it has none
    trades,    \* the executions the venue reports
    requests   \* client id -> submission requests sent for it

venueVars == <<venue, trades, requests>>

VenueInit ==
    /\ venue = [c \in ClientIds |-> None]
    /\ trades = {}
    /\ requests = [c \in ClientIds |-> 0]

\* The statuses under which an adapter may see order o.
Names(o) ==
    IF o.status # "WORKING" THEN {o.status}
    ELSE IF o.filled = 0 THEN UnfilledNames ELSE PartialNames

\* One look at all orders of the venue: the status each of them is seen under.
\* The same order may be called otherwise at the next look.
Listed == {c \in ClientIds : venue[c] # None}
Looks ==
    {seen \in [Listed -> UnfilledNames \cup PartialNames \cup FinalNames] :
        \A c \in Listed : seen[c] \in Names(venue[c])}

\* The type of the update that reports a status without a fill.  A status that
\* is not Reportable makes no update.
Reportable ==
    {"SUBMITTED", "ACKNOWLEDGED", "WORKING", "CANCELED", "REJECTED", "EXPIRED"}
UpdateType(status) == IF status = "SUBMITTED" THEN "ACKNOWLEDGED" ELSE status

Working(c) == venue[c] # None /\ venue[c].status = "WORKING"

\* Identifiers are opaque: which unused one the venue takes does not matter.
FreshBrokerId ==
    CHOOSE b \in BrokerIds :
       \A c \in ClientIds : venue[c] # None => venue[c].brokerId # b

\* The venue receives a submission and lists the order.
Receive(i) ==
    venue' = [venue EXCEPT ![i.clientId] =
       [intent |-> i, brokerId |-> FreshBrokerId, status |-> "WORKING",
        filled |-> 0]]

CountRequest(i) == requests' = [requests EXCEPT ![i.clientId] = @ + 1]

\* An execution of q: the order closes as filled when nothing remains.
VenueFill(c, q) ==
    /\ Working(c)
    /\ LET o == venue[c] IN
         /\ o.filled + q <= o.intent.quantity
         /\ venue' = [venue EXCEPT
              ![c].filled = @ + q,
              ![c].status =
                 IF o.filled + q = o.intent.quantity THEN "FILLED" ELSE @]
         /\ trades' = trades \cup
              {[id |-> Cardinality(trades) + 1, order |-> c, quantity |-> q]}
    /\ UNCHANGED requests

\* A cancellation, an expiry, or a rejection after acceptance.
VenueClose(c, status) ==
    /\ Working(c)
    /\ status = "REJECTED" => venue[c].filled = 0
    /\ venue' = [venue EXCEPT ![c].status = status]
    /\ UNCHANGED <<trades, requests>>

\* The signed position that the venue holds in book b.
VenuePosition(b) ==
    MapThenSumSet(LAMBDA c : venue[c].intent.side * venue[c].filled,
       {c \in ClientIds : venue[c] # None /\ venue[c].intent.book = b})

=============================================================================
