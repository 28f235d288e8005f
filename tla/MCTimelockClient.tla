--------------------------- MODULE MCTimelockClient ---------------------------
(* A small instance of TimelockClient for TLC. *)
EXTENDS TimelockClient

CONSTANTS dao, eoa, pause, vault

\* setAuthorizer's delay is as long as the longest.
PauseWaits ==
    [k \in Kinds |-> [a \in Actions |->
        IF k = "perform" /\ a = SetAuthorizer THEN 2
        ELSE IF k = "grant" THEN 0 ELSE IF a = pause THEN 2 ELSE 0]]

PauseDelays == {<<k, pause>> : k \in Kinds}
Anybody == {{}}
OneExecutor == {eoa}
EoaMayPause == {<<pause, eoa, vault>>}
EoaGrants == {<<pause, eoa, EVERYWHERE>>}
EoaRevokes == {<<eoa, vault>>}
===============================================================================
