-------------------------- MODULE MCSecurityOutbox --------------------------
(***************************************************************************)
(* SecurityOutbox for TLC: the backoff as markFailed computes it.          *)
(***************************************************************************)
EXTENDS SecurityOutbox

CONSTANT RetryBase   \* api.securityOutboxRetryBaseMs, in ticks

MCBackoff == [n \in 1..MaxAttempts |-> RetryBase * 2^(n - 1)]
=============================================================================
