----------------------------- MODULE Readiness ------------------------------
(***************************************************************************)
(* application/readiness.py over the two tables it reads: the kill switch  *)
(* and the last recorded reconciliation.  The other inputs of a readiness  *)
(* snapshot (connection, freshness, margin path, ...) only add refusals    *)
(* and are taken as satisfied.                                             *)
(***************************************************************************)
EXTENDS Store

VARIABLES
    killSwitch,       \* table kill_switch: TRUE when it is clear
    reconciliation    \* table reconciliations: the last row, or None

readinessVars == <<killSwitch, reconciliation>>

\* None is not a recorded reconciliation either.
ASSUME ReconciliationAssumption ==
    None \notin [positionsMatch : BOOLEAN, ordersMatch : BOOLEAN]

ReadinessInit == killSwitch = TRUE /\ reconciliation = None

\* Mutant: an account that was never reconciled counts as reconciled.
EvaluatedOptimistically ==
    [positions |-> reconciliation = None \/ reconciliation.positionsMatch,
     orders    |-> reconciliation = None \/ reconciliation.ordersMatch,
     clear     |-> killSwitch]

\* The part of a ReadinessSnapshot that changes: evaluate_readiness.
EvaluatedReadiness ==
    [positions |-> reconciliation # None /\ reconciliation.positionsMatch,
     orders    |-> reconciliation # None /\ reconciliation.ordersMatch,
     clear     |-> killSwitch]

\* Mutant: the kill switch is not part of the decision.
ExposureAllowedWhileKilled(i, snapshot) ==
    /\ snapshot.positions
    /\ ~ i.reduceOnly => snapshot.orders

\* require_exposure_readiness does not raise: a reduce-only order needs
\* reconciled positions, any other order needs everything.
ExposureAllowed(i, snapshot) ==
    /\ snapshot.positions
    /\ ~ i.reduceOnly => snapshot.orders /\ snapshot.clear

\* set_kill_switch, by the operator in any process.
SetKillSwitch(clear) ==
    /\ killSwitch' = clear
    /\ UNCHANGED reconciliation

=============================================================================
