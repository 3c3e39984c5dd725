# Combination: a TLA+ model of the trading core

Combination is a live-order service: it takes order intents from a host
program, sends them to a broker under readiness and risk gates, turns what the
broker reports into order rows and positions, and reconciles the two sides. The
code is `src/src/sentinel_combination` (about 5,000 lines of Python); everything
else of the repository is documentation, tests and validation scripts.

The modules here are translated from that code. TLC checks them on small
instances. TLAPS proves, for every value of the constants: the properties of the
order ledger; those of the composed core with calls that overlap and crashes
anywhere, and that a host which runs one call at a time implements the ledger;
what a bracket's exits may close; the position limit, the reduce-only rule and
the accounting of profit behind the risk check; that fills made from snapshots
never exceed the venue's; and what overlapping saves can do to a settings file.

## 1. Inventory

Paths are relative to `src/src/sentinel_combination`.

| Component | State it keeps | Operations | Correct when |
| --- | --- | --- | --- |
| Order lifecycle: `application/lifecycle.py`, `domain/orders.py`, `domain/enums.py` | none: an immutable `OrderLifecycle` value | `transition`, `request_cancel`, `apply_broker_update` | terminal is final, FILLED exactly when nothing remains, fills never shrink |
| Durable store: `storage/sqlite.py` | SQLite tables: orders, positions, claimed events, claimed executions, events, kill switch, reconciliation, brackets | one `BEGIN IMMEDIATE` transaction per use | commits whole or rolls back whole; the event journal explains the tables |
| Fill processor: `application/fills.py` | none | `process`, one transaction | an execution counts once, together with its position and event |
| Position ledger: `domain/positions.py` | none: an immutable `Position` | `apply_fill` | signed quantity, average price and realized PnL fit the fills |
| Order gateway: `application/order_gateway.py`, `ports/broker.py` | one call's local variables | `submit`: up to three transactions around a broker call | written before sent, sent at most once, no unknown outcome guessed or retried |
| Readiness: `application/readiness.py` | reads the kill switch and the reconciliation row | `evaluate_readiness`, `require_exposure_readiness` | no exposure is added while a gate is shut |
| Reconciliation: `application/reconciliation.py` | one call's local variables | `reconcile`: two broker reads, then transactions | unknown outcomes get settled from evidence; the two sides converge |
| CCXT and IBKR polling: `brokers/ccxt_derivatives.py`, `brokers/ibkr.py` | known trades and order states, in memory | `poll_order_updates` | no fill is lost or invented |
| TradeStation and Tradovate polling: `brokers/tradestation.py`, `brokers/tradovate.py`, `brokers/common.py` | last snapshot of each order, in memory | `poll_order_updates` from cumulative quantities | increments add up to what the venue filled |
| HTTP transport: `brokers/http_base.py` | a session and a lock | `_request` | an answer becomes the right exception |
| Pre-trade risk: `application/risk.py`, `domain/instruments.py` | none | `evaluate_order_risk` | limits hold for what is actually sent |
| Brackets: `domain/brackets.py`, `application/brackets.py` | none that a service keeps | validate, compile exits, net-cost price | exits never exceed the confirmed entry and stay on their side of it |
| Audit chain: `storage/sqlite.py`, `domain/events.py` | table events with hashes | `append_event`, `verify_audit_chain` | a changed or missing event is noticed |
| General API: `archive_general_api.py`, `general_api_cli.py` | a settings file, shared by a backend and command lines | load, save, register, authenticated requests | the file always loads; updates are lost to overlapping saves only; a registration lands whole |
| Registry, catalogue, configuration, command line, validation scripts | none to speak of | parsing, printing, factories | no behaviour over time |

**How they interact.** A host (not in the repository: nothing in `src` starts a
thread or a loop, and only tests call these services together) evaluates
readiness and passes the snapshot into `OrderGateway.submit`. The gateway writes
the order as SUBMITTING, calls the broker adapter, and writes the outcome. The
host polls the adapter and hands every returned update to
`FillProcessor.process`. From time to time it calls
`ReconciliationService.reconcile`, whose recorded result is one of the gates
that readiness reads. All of them share the SQLite database, each transaction on
a connection of its own. The venue fills, cancels and expires orders whenever it
likes. The General API client is a program of its own inside the package: it
shares no state with the services above, only its settings file with other
processes of its kind.

**What is hard.** The gateway, the processor and the reconciliation each read
the database, do something else, and write a lifecycle computed from the old
read. A submission can end in seven ways, several of which leave the two sides
in disagreement. The adapters remember in memory what they have already
reported, and remember it before the host has processed it. A crash may fall
between any two transactions. Risk judges an order against a position that
earlier orders are still changing. Averages, slices and triggers are rounded
before they are used. `PROJECT.json` lists each of these hazards at its
line, with the properties that answer to it.

## 2. Modules

```
OrderLifecycle            pure rules: Status, Allowed, ApplyUpdate
   |-- Store              tables and FillProcessor.process, one atomic step
   |     |-- StoreProofs        lemmas about rows, journal and claims
   |     |-- OrderLedger        abstract: every call is one transaction
   |     |-- AuditChain         the journal as a chain of hashed rows
   |     |     OrderLedger + AuditChain -> MCOrderLedger, OrderLedgerProofs
   |     |-- Readiness          gates and kill switch
   |-- Venue              external: orders, executions, closings
Readiness + Venue -> OrderGateway       submit as six steps
Readiness + Venue -> Reconciliation     reconcile as five steps
Store + Venue     -> TradePoller        CCXT polling and the host's inbox
OrderGateway + TradePoller + Reconciliation -> TradingCore -> MCTradingCore
TradingCore + StoreProofs -> TradingCoreProofs
Store + Venue -> SnapshotPoller -> MCSnapshotPoller
SnapshotPoller + StoreProofs -> SnapshotPollerProofs
Instrument, PositionLedger              increments; one position row
   |-- PreTradeRisk -> Exposure         the risk check, and what then fills
   |                     |-- ExposureProofs, MCExposure
   |-- BracketExits -> MCBracketExits   exits of one bracket
   |     |-- BracketExitsProofs
GeneralApi                              the settings file of the Archive client
   |-- GeneralApiProofs, MCGeneralApi
SumTheorems               sums over finite sets, for all the proofs
```

**OrderLifecycle.** `Lifecycle` is the set of records an `OrderLifecycle` can
be; `Allowed` is the transition table `_ALLOWED`; `UpdateAccepted` is the
conjunction of every refusal in `apply_broker_update`, and `ApplyUpdate` is what
it returns otherwise. Quantities are naturals. Average prices, fees, reasons and
timestamps are left out, since no branch reads them.

**Store.** One variable for each table. `ProcessUpdate` has the four ways out of
`FillProcessor.process`: duplicate event, duplicate execution (which commits the
claim of the new event key), refusal (which rolls everything back), commit.

**AuditChain.** `Events` is the table events that `append_event` makes of the
journal, row after row; `Verifies` is `verify_audit_chain`. The hash is
injective: the digest of a row stands for the sequence of contents it covers.
`Damaged` lists what may happen to one row of the file.

**OrderLedger.** The abstract specification of what the tables promise when
every call runs alone: risk rejection, start and end of a submission,
resolution, cancellation request, broker update.

**Venue.** External. It holds orders, executions and the number of requests
received for each client id. `Names` are the statuses under which an adapter may
see an order, and `Looks` the readings of one request: `status_from_text` makes
WORKING of CCXT's "open", SUBMITTED of IBKR's "Submitted" (also when a part is
filled), PENDING_CANCEL of a pending cancellation and RECONCILIATION_REQUIRED of
a text it does not know. Two looks may call the same order differently. An order
that is over is assumed to come under a text that the adapter knows: one that
does not is reported by no poller, and reconciliation finds it open if the venue
lists it. `Reportable` are the statuses of which a poller makes an update.

**OrderGateway.** `submit`, split where another actor can come in:
`ready -> approved -> sending -> answered -> idle`. `snapshot` is the readiness
passed in, `lifecycle` the local variable that is saved at the end.
`BeginFails` is every way to raise before the first write: the wrong instrument,
the readiness guard, a client id in use, and a risk check that refuses the
numbers it is given.
`AskBroker` has one outcome per exception path of the adapters;
`CcxtOutcomes`, `IbkrOutcomes`, `TradeStationOutcomes` and `TradovateOutcomes`
say which adapter can end a submission how.

**Readiness.** The kill switch and the recorded reconciliation. The remaining
gates (connection, entitlements, market data age, ...) only add refusals and are
taken as open, which allows more behaviour.

**Reconciliation.** `reconcile` as `FetchPositions`, `ReadLocal`,
`FetchOpenOrders`, `ResolveUnknown`, `Record`. `review` holds the local
variables. `Provable` includes the list of statuses that settle an unknown
outcome (`Settling`): an order seen as PENDING_CANCEL, or under an unknown text,
stays unresolved.

**TradePoller.** `poll_order_updates` in two reads, trades before orders, each
remembered as it is read, and the host's list of updates not processed yet.
`Fetched` is the swallowed exception. `Instant` gives every trade its
millisecond and `since` is where the fetched window begins: one millisecond
after the last trade (`After`), or, after a restart, which leaves the adapter
knowing nothing, a recent instant. As long as no trade was read the window is
the last minute and moves with the clock: with `MinutesPass` trades may fall out
of it unread (`WindowStarts`). The domain of `Instant` bounds the number of
trades. A trade with a negative fee (`Rebates`) makes the poll raise once the
trade is already known. Closed orders are listed only by exchanges that have
`fetchClosedOrders` (`ListsClosed`), and only those of the window, of which
`FetchedOrders` takes any part. A status that is not `Reportable` is remembered
and skipped.

**TradingCore.** The composition, with the operator and crashes. `Serial` says
whether the host runs one call at a time or lets calls overlap.

**SnapshotPoller.** The two adapters that see cumulative quantities only.
`Remembers` distinguishes Tradovate, which subtracts what it saw last, from
TradeStation, which subtracts zero. A poll remembers every changed snapshot
(`Remember`) and makes an update of some of them: none of a fill that adds
nothing, and none of a status that is not `Reportable`. `PollRaises` is a poll
that meets a fill without an average price (`PricesMayMiss`):
`BrokerOrderUpdate` refuses it, what was read up to it stays remembered, and the
updates made so far are lost. `missed` is a history variable: the orders whose
further fills the adapter can no longer report rightly, since the quantity it
remembers, or has forgotten, is not the one the row counts.

**Instrument** and **PositionLedger.** `quantize_price` (nearest, halves up) and
`quantize_quantity_down`; `Position.apply_fill` with `AverageAfter` and
`RealizedBy` for its four cases (open, add, reduce, cross zero), and
`Admissible` for the checks of the constructor. The code divides decimals to 28
digits; the model counts averages in `Parts` of a tick and rounds down, so that
the effect of rounding is there to be seen.

**PreTradeRisk.** `Approved` is `evaluate_order_risk` returning an approval,
one operator per group of limits; `ValidValues` is `validate_order_values`,
which raises instead of deciding.

**Exposure.** One book, with callers that read position, market and margin and
go through the risk check (`Call`), and a venue that fills what was approved in
parts (`Fill`, which is also the fill's transaction: `apply_fill` may refuse) or
closes it. The caller is not in the repository; `Waits` says whether it lets its
open orders finish first (`MayCall`). `honours` says whether the venue enforces
reduce-only itself: CCXT venues are asked to, the IBKR adapter drops the flag
(`brokers/ibkr.py:117-158`). `cash` is a history variable: what the fills moved.

**BracketExits.** `compile_exit_intents` as operators on the confirmed quantity
(`SliceOf`, `Runner`, `OcoExits`, `ReduceOnlyExits`) and price (`Planned`, the
target's or the stop's price, which `ValidAgainstEntry` compares with
`cost / entry`, the average of the fills, and `Trigger`, that price rounded), and a
host that compiles, sends each exit through the gateway in any order, forgets
some of them in a crash, and compiles again. `native` says which of the two
modes the venue calls for. The venue is assumed to refuse an order of a group
that has executed, and to honour reduce-only where the mode relies on it, as the
comment at `domain/brackets.py:202` demands. `NetCost` is
`net_cost_protective_price`, judged by the position ledger.

**GeneralApi.** `file` is the settings file, `pc` and `work` where each process
stands. `save` is three steps: read and merge (`Merge`), write the temporary
file (`Write`), `os.replace` (`Replace`); `Fail` ends it in between. `Register`,
`Answer` and `SaveRegistration` are `register` with Archive's answer between
its load and its save. `TakePath`, `TakeQuery`, `TakeRun` and `Send` are the
separate loads of one request. `Normalized` is what `validate` makes of a
setting: texts are stripped, so that `Blanks` counts as an empty text, and an
empty address or role becomes the default. `Valid` says that it does not raise,
which an address outside `Urls` makes it do. `Environment` gives every process
its overrides for each bot name (`Overridable`); they are read for the bot that
the file names, and `Legal` says that they leave the settings valid for it. `fresh` is a history variable: no other process replaced the
file since the operation began.

**StoreProofs** and **SumTheorems** hold lemmas that several proofs share: what
each lifecycle operator does to a row, what each kind of journal entry does to
the replayed positions, when the order table still adds up to the positions, and
the sums of a function over a finite set. The other
proof modules hold the theorems of section 4.

Operators whose comment begins with "Mutant:" are mistakes one could make in the
code. `PROJECT.json` pairs every checked property with one that breaks it; no
specification uses them.

## 3. Runs

| Run | Instance | What it shows |
| --- | --- | --- |
| `order_ledger` | buy 3 and sell 1 in one book; nine updates: an execution under two event keys, an overfill, a wrong book, cumulative quantities that fit or not by order of arrival, cancel, reject | tables, claims and journal agree whatever arrives in whatever order and however often; the hash chain verifies after every transaction and no longer once a row is changed, removed or exchanged |
| `core_serial` | one order of 2 whose trades share a millisecond and the second of which is a rebate, six of the seven outcomes, failing polls, a window that moves on, cancellation, three ways of closing, one crash, any number of reviews; an unfilled order reads as ACKNOWLEDGED or under an unknown text, a partly filled one as WORKING or PENDING_CANCEL | a serial host implements `OrderLedger`; a local fill or terminal status is never ahead of the venue |
| `core_two_orders` | entry and reduce-only exit, timeouts, kill switch used once, two reviews; a working order reads as SUBMITTED and closed orders are not listed (IBKR) | the same refinement when one reconciliation resolves two orders; nothing is sent before a first reconciliation; the kill switch holds |
| `core_overlap` | two callers with one client id, overlapping polls, reviews and a crash | what overlap cannot break: claims, positions, journal, written before sent, sent once |
| `core_liveness` | one order of 2, accepted or timed out, fair polling and reviews; an unfilled order reads as SUBMITTED or WORKING, a partly filled one as WORKING or PENDING_CANCEL | every fill is applied, unknown outcomes get settled, the sides match again and again |
| `snapshot_orders` | buy 3 and sell 1, the adapter subtracts what it saw, one restart, cancellations, fair polling; a partly filled order reads as PARTIALLY_FILLED, WORKING or PENDING_CANCEL, with or without a price | fills made from snapshots never exceed the venue's; every fill is counted in the end, unless the adapter lost track of the order in one of the ways that `FillsTakenUp` names |
| `bracket_exits` | an entry of up to 7 in lots of 3 and 4 at two prices, increments of 2, two targets of one half, a stop that is valid at one average price and not at the other, both modes, longs and shorts for the net-cost price | the stops cover what was confirmed; exits compiled and sent again never exceed the entry or reverse the position; aligned triggers stay on their side of the average entry price and others pass it by less than half an increment; the net-cost price is where the ledger breaks even |
| `exposure` | three orders of 1, 2 or 4, two aligned prices and one that is not, four accounts, venues that honour reduce-only and venues that do not | realized profit and open cost account for the cash of the fills; a caller that waits keeps the position within its limit and reduce-only orders reduce; after the daily loss nothing moves, not even to close |
| `general_api` | a backend and a command line with overrides for a participant and, under another bot name, a token, for an address and, under the other name, a participant of blanks; ten patches that change settings or are refused; two issued tokens | the file loads for everyone whose own variables are legal; a setting is lost only to an overlapping save or an override; token and participant land together; a request goes out with the settings in force |
| `reopened_order`, `stuck_submission`, `lost_fill` | small | section 5 |

**Bounds.** An order of quantity 2 or 3 is enough for a
partial fill, a completing fill and, with a third, an overfill; a fill of each
kind can fall before, between and after the steps of every other call. One crash
suffices since a crash leaves nothing but the tables and `since`, which any
state reached without a crash may also have. Two reviews suffice for overlap: one
to open the gate and one to race; `core_serial` and the liveness runs bound
neither. One use of the kill switch sets it. One restart (`MaxRestarts`) of the
snapshot poller falls anywhere between its polls; three units are the fewest of
which a part can be filled before the restart and two more after it. With an entry of 7 and an
increment of 2 the confirmed quantity, the slices and the runner are rounded or
not in every combination, and lots of 3 and 4 at two prices give averages on
both sides of the stop. In `exposure` three units at the lower price fill the
position limit, a reversal from 2 to -2 passes it, one unit at the lower price
is below the minimum notional and one losing round trip reaches the daily loss;
three orders are enough for two to overlap with a third's check. In
`general_api` two processes suffice since a save is disturbed by one other save,
and `MaxIssued` = 2 lets both register. `bracket_exits` and `exposure` are not
checked for deadlock: a bracket whose entry ended without a fill is over, and so
is a book whose orders are all done. The callers of `core_overlap` are interchangeable and reduced by
symmetry, and so are the order ids of `exposure`, where the fold over them is
symmetric too; neither checks liveness. Integers are Python's and do not
overflow.

**What `core_serial` leaves out.** The outcome `misreported`, where an adapter
reports a rejection of an order the venue took: with it the fills of a rejected
order are refused (section 5). `LocalNeverAhead` is proved under the same
restriction, and `SerialHostImplementsLedger` without it.

**What `core_liveness` leaves out.** Its trades have a millisecond each and no
rebates. With `Instant <- TiedInstants` the second trade of the millisecond is
never fetched, and with `Rebates = {1}` or `{2}` the trade is known before the
poll raises: both make `FillsArrive` fail. Every request of a poll succeeds
(`FetchMayFail = FALSE`), and no minute passes between a trade and the first
poll that reads one (`MinutesPass = FALSE`): a window that moves on leaves the
trades before it unread. An order is never seen under a text that the adapter
does not know: as long as it is, an unknown outcome is not resolved. The losses
that these conditions exclude break no other property: `LocalBehindVenue` and
`ImplementsLedger` allow the local side to lag for ever.

**What `FillsTakenUp` excepts.** `missed` names the orders of which a snapshot
adapter loses fills. A new cumulative quantity is remembered although it makes
no fill update: because the order is still called WORKING, because it was
canceled, or because the status is skipped (`brokers/tradovate.py:284-286`); the
next increment is then smaller than the cumulative quantity demands, and
`apply_broker_update` refuses it. A poll raises on a fill without a price. Or a
restart forgets what was already applied, and the first increment is too large.
The run contains all three, and shows that nothing else loses a fill.

**What `exposure` assumes.** A caller that waits for its open orders
(`Waits = TRUE`), since nothing in the repository reserves what an open order
may still add: `PositionWithinLimit` and `ReduceOnlyReduces` say nothing of
orders that overlap. Fees are not negative. The profit of the day that the
caller passes in is the profit of the book so far: the model has one day.

**Fairness.** `FairSpec` assumes that a call that has begun goes on (weak
fairness of `Submit` and `Review`), and that the host polls, processes and
reconciles again and again. `config.py:43-44` gives the intervals
(`update_poll_interval_seconds`, `reconciliation_interval_seconds`); the loop
itself is the host's and therefore an assumption of this model. The starts of
tasks have strong fairness because in a serial host they are enabled only while
no other call runs. Nothing is assumed of callers, operator or venue.
`core_liveness` leaves out crashes, cancellations and requests that the venue
never got: such an order is not listed, and `reconcile` by design leaves it for
a person. In `snapshot_orders` polls are fair and the venue is not: a poll that
raised has remembered what made it raise, so that not every poll does.

## 4. Proofs

Every theorem holds for all values of the constants that satisfy the named
assumptions of the modules. These say what the code itself guarantees
(`IntentsAssumption`, `UpdatesAssumption`, `RiskAssumption`,
`InstrumentAssumption`, `BracketAssumption` and `LedgerAssumption`: what the
constructors and validators refuse cannot be a value), that the flags and bounds
have their types (`CoreAssumption`, `FetchAssumption`, `NamesAssumption`,
`OutcomesAssumption`, `ExposureAssumption`, `PollerAssumption`,
`IssuedAssumption`), that `None` is no value of the kind it stands in for
(`NoneAssumption`, `ReconciliationAssumption`, `PollerAssumption`), that the
venue does not run out of order identifiers (`BrokerIdsAssumption`), and that
`_base` passes `validate` (`BaseAssumption`), that a text of blanks and the empty
text are no address and a text is no number (`BlanksAssumption`), and that the
environment overrides no other settings than those `load` reads from it
(`EnvironmentAssumption`). `NamesAssumption` includes that a final order comes
under a text that the adapter knows. Sets of
callers, client ids, intents, books, trades and accounts may be infinite and the
bounds on crashes, reviews and uses of the switch any number, except where a
theorem says otherwise.

| Module | Theorems | Of |
| --- | --- | --- |
| `OrderLedgerProofs` | `TypeCorrect`, `StatusAgreement`, `Advancement`, `ExecutionsOnce`, `JournalReplay`, `ExposureSafety`, `FilledIsExecutions`, `PositionsAreOrders`, `DamageIsTold` | every property of `OrderLedger` and `AuditChain` that `order_ledger` checks |
| `TradingCoreProofs` | `TypesHold`, `RowBeforeRequest`, `NeverSentTwice`, `NothingSentBlindly`, `CountedOnceUnderOverlap`, `ReplayUnderOverlap`, `PositionsAreTrades`, `KillSwitchStops`, `AgreementUnderOverlap`, `NoInventedFill`; `SerialHostImplementsLedger`, `TerminalIsFinal`, `LocalNeverAhead` | `TradingCore`, whether calls overlap or not; the last three with `Serial`, and `LocalNeverAhead` without the outcome `misreported` |
| `SnapshotPollerProofs` | `NeverAhead` | `SnapshotPoller`, for adapters that remember and adapters that do not |
| `BracketExitsProofs` | `CompiledSafety`, `NetCostSafety`; `ExitsSafety`, `ReversalSafety`, `TriggerSafety` | `BracketExits`; the last three with `~ Resizes` |
| `ExposureProofs` | `TypeCorrect`, `FreezeSafety`; `LimitSafety`, `ReduceOnlySafety`; `ProfitSafety` | `Exposure`; the middle two with `Waits = TRUE`, the last one for finitely many orders and `Fee >= 0` |
| `GeneralApiProofs` | `NobodyLockedOut`, `SettingsStay`, `RegistrationsLand`, `RequestsAreCurrent` | every property of `GeneralApi` that `general_api` checks |

**Order ledger.** `StatusAgreesWithFills` is not inductive: nothing in it says
that a SUBMITTED or ACKNOWLEDGED order has no fill, which is what keeps a
resolution from recording a status that disagrees with earlier fills, nor that a
SUBMITTING order has no broker identifier yet, without which recording the
answer could replace one. `RowOK` adds both, and `Inv == TypeOK /\ RowsOK` is
inductive. The lemmas of `StoreProofs` about the lifecycle operators show that
each keeps `RowOK` and advances the row. `StepLemma` then sorts the steps into
four kinds, which is all that the remaining proofs need to know: one that at
most claims an event key, one that writes a single row and an event without a
fill, one that writes rows only, and one that applies a new execution. Only the
last kind changes one of the sums that `FilledIsExecutions` and
`PositionsAreOrders` are about, and it changes both sides by the same amount.

**Hash chain.** `Events` is a fold over the journal. `EventsAreChain` says what
it computes: row n carries entry n, refers to the first n - 1 entries and covers
the first n (`ChainRow`). Then `verify_audit_chain` fails at a row exactly where
`FaultAt` holds, and every kind of damage makes such a row, by the length of
what a row refers to or by the last entry that its hash covers. A row inserted
later changes nothing before it (`FaultStays`).

**Sums.** `SumTheorems` proves what the fold of the community modules does:
adding an element, changing one value, comparing two functions, restricting to a
subset. Induction over finite sets is usually stated with an operator parameter;
here it is the first-order fact that the proper-subset order on a finite set is
well founded, so that a set of counterexamples has a smallest one
(`SmallestSubset`).

**Trading core.** `CoreInv` says what every variable holds at every program
point, and `Discipline`: an order is saved before it is sent, one caller at most
is about to send it, and what is at the venue was sent. The types alone are not
inductive. A call that overwrites a row, for example, keeps the table well typed
only because of what the call holds in memory at that point (`InMemory`), and a
new trade has a free number only because trades and fills at the venue are
counted together. `StepCases` splits a step by actor, and each actor has a lemma
that it keeps `CoreInv`. On that rest:

- `NothingSentBlindly`: until a reconciliation is recorded no snapshot shows
  one, so no call passes the guard (`Reconciled`).
- `CountedOnceUnderOverlap`, `ReplayUnderOverlap`: a step applies one polled
  execution together with its claim and journal entry, or moves no position.
- `PositionsAreTrades`: an execution is applied with the side and book of the
  row that is found, which another caller may have written. `OneIntent` is what
  makes it right: whoever still counts on an order (a row that is not REJECTED,
  the venue, a caller that sends it, a review that has read it) means the same
  intent, though callers may use one client id for different ones.
- `KillSwitchStops`: `Held` follows a moment without calls. Every later call has
  a snapshot with the switch set, or a reduce-only intent, and no review holds a
  copy of the row with another intent.
- `AgreementUnderOverlap`: overlapping calls may bring a stale row back, but one
  that was sound when it was read (`RowsSound`, over rows, calls and reviews).
- An order that a review or a poll has read is `SeenOrder`: the venue's, under
  one of the `Names` it may have, which need not be the one the next look gives.
- `NoInventedFill`: rows, and copies of them, count at most what was applied to
  their order (`RowsBacked`), which is at most what the venue counts
  (`VenueCounts`).

**One call at a time.** `OneAtATime` and `InStep` (what a call or a review
remembers of a row is what the row says) turn every step of the core into one
step of `OrderLedger` or a stutter; `SerialHostImplementsLedger` goes through
the actors one by one. A resolution needs `RowsSound` there, since an adapter
may call a partly filled order WORKING or ACKNOWLEDGED. With them a save never meets a newer row, which is
`TerminalIsFinal`; run `reopened_order` shows that it is false of overlapping
calls. `LocalNeverAhead` adds `ClosedIsOver` to `NoInventedFill`: an order that
a row, an answer in memory or an unprocessed report calls closed no longer works
at the venue. Its hypothesis is needed, as `GuessedRejection.cfg` shows.

**Brackets.** `CompiledSafety` is arithmetic: slices are rounded down one by
one, so together they are at most the rounded quantity, and the runner's stop
gets exactly the rest (`SlicesAndRunner`). For the properties of the sent orders
`Inv` adds that an order never asks for more than its identifier stands for
(`RowsOK`), that the position is the entry less what the exits closed
(`Balance`), and, where the venue links orders, that what a stop and its target
have closed and what one that works may still close fit into their slice
(`SlicesOK`). TLC checked `Inv` on the instance of `bracket_exits` first.
`~ Resizes` says that exits are compiled once the entry is over; section 5 shows
what happens otherwise. The attempt to prove `TriggersOnTheirSide` showed that
it was misstated: it took any exit with the same rounded trigger for the one it
spoke of. It now names the exit's own `Planned` price. `NetCostSafety` assumes
that `Parts` is fine enough for the fees to be divided exactly by every quantity
that may be left; otherwise the price is rounded and the statement false by one
part.

**Exposure.** The limit and the reduce-only rule are not inductive: nothing in
them bounds what an order that was approved earlier may still do. `IInv` adds
three facts. `Alone`: an open order that may add to the position, or that the
venue does not hold to reduce-only, is the only one open. `RestReduces`: what
remains of a reduce-only order fits into the position it closes, where the venue
does not see to that. `RestFits`: the position within the limit is still so
after all that remains of an open order has filled. A partial fill then leaves
the position between two quantities that are both within the limit
(`FitsBetween`), which is where monotonicity of the notional, a non-linear fact
given in its own lemma, comes in. `Waits = TRUE` is needed: `Alone` is what a
caller that does not wait breaks.

`ProfitSafety` needs no caller that waits. `AverageStep` accounts for one fill
in each of the cases of `apply_fill`: the cost of what is held, less the profit
realized, moves by what the fill moved, apart from a rest of the division that
is at most the new position. `CashInv` adds to `ProfitIsCash` that a flat
position has no average, so that no fill is refused (`Admissible`), and that the
position is at most the number of units filled, so that the rests cut off by k
more units are covered by what the square of that number grows by.
`FreezeSafety` follows from the types: with the loss at its limit the risk check
rejects, and without open orders nothing fills.

**Snapshots.** `NeverAhead` has two parts. That no row counts more than the
venue filled needs to be true of updates that still wait, too: `Truthful` says
that the cumulative quantity of each is one that the venue has reached, which
further fills only make truer. `apply_broker_update` accepts a fill only if what
it adds leads to that quantity, so it does not matter for safety what the
adapter subtracted, or that a restart made it forget. The second part, that the
positions are what the order table adds up to (`BooksBalance`), goes through the
lemmas that the ledger uses, since both share `ProcessUpdate`.

**Settings file.** `ApiInv` says that the file is absent or `Sound` (normalized
and legal, so that overrides that are `Legal` leave it legal), and of each process
where it stands (`Standing`): what it is going to write is `Sound`; while
`fresh` holds, each setting of it is the file's, the patch's or an override
(`Explained`), and participant and run that it took from the file are still in
force. A step of one process leaves the others standing, because the only step
that changes the file ends their `fresh`. TLC checked `ApiInv` on the instance
of `general_api` first.

**Only model-checked.** Liveness under fairness, which is out of the prover's
reach: `FillsArrive`, `UnknownOutcomeIsResolved`, `Reconverges`, `FillsTakenUp`
and the like. Of the safety properties that the passing runs check every one is
proved, some under the conditions named in the table.

## 5. Where the code and its documents differ

Each is the counterexample of a run whose name is given.

1. `reopened_order`. `reconcile` saves lifecycles it read in an earlier
   transaction; if a fill completed the order meanwhile, FILLED becomes WORKING
   with nothing filled, against "terminal-state immutability"
   (`docs/LIVE_ONLY_BUILD_PLAN.md:688`). It needs overlapping calls: a serial
   host cannot bring it about (`TerminalIsFinal`).
2. `stuck_submission`. After a crash during the broker call the order stays
   SUBMITTING, fills for it are refused and reconciliation skips it, against "No
   unknown submission outcome may be guessed as rejected or retried
   automatically. It enters `reconciliation_required`"
   (`docs/LIVE_ONLY_BUILD_PLAN.md:66`).
3. `lost_fill`. A fill that falls between the two requests of a poll, just before
   the cancellation, is processed after CANCELED, refused, and never offered
   again, against "Confirmed fills are authoritative for position changes"
   (`docs/ARCHITECTURE.md:30`).

Reading the code showed related facts, each of which a change of constants
shows; they have no run of their own.

- A 5xx answer is recorded as a rejection although the order may be live
  (`brokers/http_base.py:68`): `GuessedRejection.cfg` with `MCTradingCore`.
- The TradeStation adapter reports the cumulative quantity as the increment of
  every fill (`brokers/tradestation.py:304`); the second one is refused and
  lost: `SecondFill.cfg` with `MCSnapshotPoller`. The Tradovate adapter loses
  fills that it first sees under Working, under a pending cancellation or an
  unknown text, or without a price, and forgets on restart what it subtracted:
  `ConfirmedFillsTakenUp` in place of `FillsTakenUp` in `SnapshotOrders.cfg`.
- TradeStation and Tradovate declare neither a link between the orders of a group
  nor reduce-only (`brokers/tradestation.py:53-58`, `brokers/tradovate.py:50-55`),
  so `NoReversal` says nothing about them: it assumes the one or the other, as
  the comment at `domain/brackets.py:202` does.
- An order that is over but comes under a text the adapter does not know is
  reported by no poller, and stays open locally.
- A blank `api_token` passes the test for an empty one
  (`archive_general_api.py:173`), is stripped, and clears the saved token. A save
  of `bot_id` changes which variables other processes read, and can leave one
  of them unable to load the file.
- Two reduce-only orders judged against one position reverse it at a venue that
  does not enforce the flag: `ReducedTwice.cfg` with `MCExposure`.
- The second trade of a millisecond, and a trade with a rebate, are never
  applied (section 3). With a fee of -1 in `Exposure.cfg`, `ProfitIsCash` fails
  for the same reason.
- A stop that is not aligned to the price increment is compared with the entry
  price first and rounded afterwards (`domain/brackets.py:130-135`), and may end
  up on the entry price or above it; `TriggersOnTheirSide` says by how much.
- `submit` trusts the readiness snapshot it is given however old it is, which is
  why `KillSwitchHolds` speaks only of callers that hold none, and readiness
  trusts the recorded reconciliation however old it is (`checked_at` is never
  compared with the time), which is why `SentAfterReconciliation` asks for no
  more than one.
- A resolution writes no audit event; rows cut off at the end of the journal go
  unnoticed, which is why `Damaged` leaves the last row alone.
- With `Resizes = TRUE`, `EntryQuantity = 4`, `QuantityIncrement = 1` and
  `Lots = {1, 2}` in `BracketExits.cfg` a host that compiles exits while the
  entry still fills, and dies between sending the runner's stop and the slices,
  ends with stops for more than the entry: the next compilation makes larger
  slices and a smaller runner, whose id is taken by the larger one.
- The IBKR adapter reads the commission of an execution once, when it first sees
  it (`brokers/ibkr.py:296`); a report that arrives later is not taken up.
- `_number` accepts NaN, which is not below any minimum
  (`archive_general_api.py:76-83`).

## 6. Not modelled, and the plan

Left out on purpose: symbol mapping, payloads, logins, market data, printing
and the validation campaigns (pure input and output); configuration, registry
and catalogue (static tables and a factory: no behaviour over time); bracket
rows and trailing rules, which nothing in the program reads. Simplified: inside
`TradingCore` the risk decision is either answer, and `Exposure` treats the
decision by itself; the audit event of a reconciliation names no order and is
omitted; the requests of the General API client differ only in their paths and
are one.

Planned, in this order:

| Module | Of | Proofs |
| --- | --- | --- |
| FillTransaction | statement-level `process` | that it implements `ProcessUpdate` |

To check a run: `tlc -workers 2 -config CoreSerial.cfg MCTradingCore`; a proof:
`tlapm OrderLedgerProofs.tla`, and likewise `SumTheorems`, `StoreProofs`,
`TradingCoreProofs`, `SnapshotPollerProofs`, `BracketExitsProofs`,
`ExposureProofs` and `GeneralApiProofs`.
