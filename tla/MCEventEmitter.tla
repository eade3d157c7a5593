--------------------------- MODULE MCEventEmitter ---------------------------
(* An instance of EventEmitter for TLC: a subscriber of both events that is  *)
(* tried twice and has a callback, and a listener of dead letters.           *)
EXTENDS EventEmitter

CONSTANTS twice, dlq, e1, e2

Patterns == {<<e1, twice>>, <<e2, twice>>}

Twice == [s \in Subscribers |-> IF s = twice THEN 2 ELSE 1]
=============================================================================
