------------------------- MODULE MCReleasePipeline -------------------------
(* Instances of ReleasePipeline for TLC. *)
EXTENDS ReleasePipeline

Budget(calls, expiries, faults, outages, crashes) ==
    [calls |-> calls, expiries |-> expiries, faults |-> faults,
     outages |-> outages, crashes |-> crashes]

\* A request and two outages, or two requests that overlap.
Working == {Budget(1, 0, 0, 2, 0), Budget(2, 0, 0, 0, 0)}

TwoOutages == {Budget(0, 0, 0, 2, 0)}

\* A request with a failed call, a passed deadline and an outage; a crash with a failed
\* call and an outage, or with a request; two requests and an outage.
Failing == {Budget(1, 1, 1, 1, 0), Budget(0, 0, 1, 1, 1), Budget(1, 0, 0, 0, 1), Budget(2, 0, 0, 1, 0)}

OneCrash == {Budget(0, 0, 0, 0, 1)}
Nothing  == {Budget(0, 0, 0, 0, 0)}
=============================================================================
