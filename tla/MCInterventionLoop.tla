------------------------- MODULE MCInterventionLoop -------------------------
(***************************************************************************)
(* InterventionLoop for TLC: which rows are created, and the backoff as    *)
(* the executor computes it.                                               *)
(***************************************************************************)
EXTENDS InterventionLoop, TLC

CONSTANT RetryBase   \* api.securityOutboxRetryBaseMs, in ticks

MCBackoff == [n \in 1..MaxAttempts |-> RetryBase * 2^(n - 1)]

DemoHold == [mode |-> "DEMO", type |-> "HOLD_PROTECTED_ACTION"]
DemoWarn == [mode |-> "DEMO", type |-> "WARN"]
DemoStepUp == [mode |-> "DEMO", type |-> "REQUIRE_STEP_UP"]
ProductionHold == [mode |-> "PRODUCTION", type |-> "HOLD_PROTECTED_ACTION"]

AllKinds == {DemoHold, DemoWarn, DemoStepUp, ProductionHold}
DemoHoldOnly == {DemoHold}

ProcSymmetry == Permutations(Procs)
=============================================================================
