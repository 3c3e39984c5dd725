---------------------------- MODULE OrderGateway ----------------------------
(***************************************************************************)
(* application/order_gateway.py: OrderGateway.submit as the steps between  *)
(* which other calls, the venue and crashes may come.  A caller first      *)
(* evaluates readiness and then passes the snapshot in.                    *)
(*                                                                         *)
(*   idle -> ready        evaluate_readiness                               *)
(*   ready -> approved    readiness guard, first lookup of the client id,  *)
(*         or riskRefused risk decision                                    *)
(*   approved -> sending  second lookup, order saved as SUBMITTING         *)
(*   sending -> answered  broker.submit_order                              *)
(*   answered -> idle     the outcome is saved                             *)
(*   riskRefused -> idle  the rejection is saved                           *)
(***************************************************************************)
EXTENDS Readiness, Venue

CONSTANTS
    Callers,   \* concurrent users of the gateway
    Outcomes   \* what broker.submit_order may do, a subset of AllOutcomes

\* accepted:        the venue has the order and says so
\* refused:         BrokerRejected, the venue does not have it
\* timedOut:        BrokerUnknownOutcome, the venue has it
\* lost:            BrokerUnknownOutcome, the venue does not have it
\* failed:          another exception, the venue does not have it (an expired
\*                  login: BrokerAuthenticationError)
\* failedAfter:     another exception, the venue has it (an unreadable answer)
\* misreported:     BrokerRejected although the venue has it (HTTP 5xx)
CcxtOutcomes ==
    {"accepted", "refused", "timedOut", "lost", "failed", "misreported"}
IbkrOutcomes == {"accepted", "refused", "timedOut", "lost"}
TradeStationOutcomes ==
    {"accepted", "refused", "timedOut", "lost", "failed", "failedAfter",
     "misreported"}
TradovateOutcomes == TradeStationOutcomes
AllOutcomes ==
    CcxtOutcomes \cup IbkrOutcomes \cup TradeStationOutcomes
       \cup TradovateOutcomes
ReachesVenue == {"accepted", "timedOut", "failedAfter", "misreported"}
Raises == {"failed", "failedAfter"}

ASSUME OutcomesAssumption == Outcomes \subseteq AllOutcomes

VARIABLE calls   \* caller -> the submit call it is in

Idle ==
    [pc |-> "idle", intent |-> None, snapshot |-> None, lifecycle |-> None]

GatewayInit == calls = [p \in Callers |-> Idle]

At(p, pc) == calls[p].pc = pc
Goto(p, pc) == calls' = [calls EXCEPT ![p].pc = pc]

Return(p) == calls' = [calls EXCEPT ![p] = Idle]

EvaluateReadiness(p, i) ==
    /\ At(p, "idle")
    /\ calls' = [calls EXCEPT ![p] =
         [Idle EXCEPT !.pc = "ready", !.intent = i,
                      !.snapshot = EvaluatedReadiness]]
    /\ UNCHANGED <<storeVars, readinessVars, venueVars>>

\* The call raises before anything is written: the instrument is another one,
\* PermissionError, the client id is taken, or evaluate_order_risk raises over
\* what the caller gave, which it may do whatever the guard said.
BeginFails(p) ==
    /\ At(p, "ready")
    /\ Return(p)
    /\ UNCHANGED <<storeVars, readinessVars, venueVars>>

\* The guard and the lookup pass; evaluate_order_risk decides from what the
\* caller gave.
Begin(p, approved) ==
    /\ At(p, "ready")
    /\ ExposureAllowed(calls[p].intent, calls[p].snapshot)
    /\ ~ Exists(calls[p].intent.clientId)
    /\ LET i == calls[p].intent IN
       calls' = [calls EXCEPT
         ![p].pc = IF approved THEN "approved" ELSE "riskRefused",
         ![p].lifecycle = IF approved THEN Submitting(i) ELSE RiskRejected(i)]
    /\ UNCHANGED <<storeVars, readinessVars, venueVars>>

\* The rejection is saved without looking the client id up again.
SaveRiskRejection(p) ==
    /\ At(p, "riskRefused")
    /\ SaveOrder(calls[p].lifecycle)
    /\ journal' = Append(journal,
         OrderEvent("OrderRiskRejected", calls[p].intent.clientId))
    /\ Return(p)
    /\ UNCHANGED <<positions, claimedEvents, claimedExecutions,
                   readinessVars, venueVars>>

ClientIdTaken(p) ==
    /\ At(p, "approved")
    /\ Exists(calls[p].intent.clientId)
    /\ Return(p)
    /\ UNCHANGED <<storeVars, readinessVars, venueVars>>

\* Mutant: the second lookup of the client id is dropped.
SaveSubmittingUnchecked(p) ==
    /\ At(p, "approved")
    /\ SaveOrder(calls[p].lifecycle)
    /\ journal' = Append(journal,
         OrderEvent("OrderSubmissionStarted", calls[p].intent.clientId))
    /\ Goto(p, "sending")
    /\ UNCHANGED <<positions, claimedEvents, claimedExecutions,
                   readinessVars, venueVars>>

\* Mutant: the order stays in memory until the broker has answered.
SubmitBeforeSaving(p) ==
    /\ At(p, "approved")
    /\ ~ Exists(calls[p].intent.clientId)
    /\ Goto(p, "sending")
    /\ UNCHANGED <<storeVars, readinessVars, venueVars>>

SaveSubmitting(p) ==
    /\ At(p, "approved")
    /\ ~ Exists(calls[p].intent.clientId)
    /\ SaveOrder(calls[p].lifecycle)
    /\ journal' = Append(journal,
         OrderEvent("OrderSubmissionStarted", calls[p].intent.clientId))
    /\ Goto(p, "sending")
    /\ UNCHANGED <<positions, claimedEvents, claimedExecutions,
                   readinessVars, venueVars>>

\* Mutant: an unknown outcome is guessed to be a rejection.
AnsweredGuessing(l, outcome) ==
    IF outcome = "accepted" THEN Transition(l, "SUBMITTED", FreshBrokerId)
    ELSE Transition(l, "REJECTED", None)

\* The lifecycle in memory after the broker's answer.
Answered(l, outcome) ==
    CASE outcome = "accepted" -> Transition(l, "SUBMITTED", FreshBrokerId)
      [] outcome \in {"refused", "misreported"} ->
           Transition(l, "REJECTED", None)
      [] outcome \in {"timedOut", "lost"} ->
           Transition(l, "RECONCILIATION_REQUIRED", None)

\* broker.submit_order.  An exception that submit does not catch ends the
\* call, and the order stays as the second transaction saved it.
AskBroker(p, outcome) ==
    LET i == calls[p].intent IN
    /\ At(p, "sending")
    /\ IF outcome \in ReachesVenue THEN Receive(i) ELSE UNCHANGED venue
    /\ CountRequest(i)
    /\ IF outcome \in Raises THEN Return(p)
       ELSE calls' = [calls EXCEPT
              ![p].pc = "answered",
              ![p].lifecycle = Answered(calls[p].lifecycle, outcome)]
    /\ UNCHANGED <<storeVars, readinessVars, trades>>

\* The lifecycle in memory is saved whatever the stored row says by now.
SaveOutcome(p) ==
    /\ At(p, "answered")
    /\ SaveOrder(calls[p].lifecycle)
    /\ journal' = Append(journal,
         OrderEvent(OutcomeEvent(calls[p].lifecycle.status),
                    calls[p].intent.clientId))
    /\ Return(p)
    /\ UNCHANGED <<positions, claimedEvents, claimedExecutions,
                   readinessVars, venueVars>>

\* The steps inside a submit call that has begun.
Continue(p) ==
    \/ SaveRiskRejection(p)
    \/ ClientIdTaken(p)
    \/ SaveSubmitting(p)
    \/ \E outcome \in Outcomes : AskBroker(p, outcome)
    \/ SaveOutcome(p)

InCall(p) == calls[p].pc \notin {"idle", "ready"}

=============================================================================
