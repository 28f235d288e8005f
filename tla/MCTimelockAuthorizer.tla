---------------------- MODULE MCTimelockAuthorizer ----------------------
(* A small instance of TimelockAuthorizer for TLC.  One  unit of time stands *)
(* for the five days a delay change waits at least.                        *)
EXTENDS TimelockAuthorizer

CONSTANTS dao, multisig, eoa, pause, vault

\* Delays to be lowered, and raised.
MixedDelays ==
    [k \in Kinds |-> [a \in Actions |->
        IF k = "perform" THEN (IF a = SetAuthorizer THEN 2 ELSE 1)
        ELSE IF a = pause THEN 1 ELSE 0]]

AllDelays == {<<k, pause>> : k \in Kinds} \cup {<<"perform", SetAuthorizer>>}
Anybody == {{}}

EoaMayPause == {<<pause, eoa, vault>>}
=============================================================================
