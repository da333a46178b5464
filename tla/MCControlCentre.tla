--------------------------- MODULE MCControlCentre ---------------------------
(***************************************************************************)
(* A small instance of ControlCentre for TLC: the operator's page, which   *)
(* sends what the operator types into it, and a client that sends          *)
(* anything.                                                               *)
(***************************************************************************)
EXTENDS ControlCentre

CONSTANTS op, x, s1, c1

SomeKinds == {"agent", "change", "proof", "lock", "unlock"}

FromPage ==
    {f \in Forms :
        /\ f.kind # "unlock" => f.token
        /\ f.kind \in Fresh \cup {"unlock"} => f.pass = "right"}
Either   == [r \in {op, x} |-> IF r = op THEN FromPage ELSE Forms]

\* base_backoff is one tick, max_backoff two.
Doubling == [k \in 1..MaxFailures |-> IF 2 ^ (k - 1) < MaxBackoff THEN 2 ^ (k - 1) ELSE MaxBackoff]
=============================================================================
