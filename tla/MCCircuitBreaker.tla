-------------------------- MODULE MCCircuitBreaker --------------------------
(***************************************************************************)
(* CircuitBreaker with the retries of a role for each kind of bad answer.  *)
(***************************************************************************)
EXTENDS CircuitBreaker

CONSTANTS incomplete, parse_error

MCQualityKinds == {incomplete, parse_error}

MCQualityRetries == [kind \in MCQualityKinds |-> IF kind = incomplete THEN 1 ELSE 0]
=============================================================================
