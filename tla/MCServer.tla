------------------------------ MODULE MCServer ------------------------------
(* An instance of Server for TLC. *)
EXTENDS Server

Req(m, n, p) == [serviceMethod |-> m, seq |-> n, param |-> p]

\* The two requests of receiveFromDDS.
Get0 == Req("Service.getRadarStatus", 0, "GetRadarStatusRequest")
Set1 == Req("Service.setRadarStatus", 1, "SetRadarStatusRequest")

\* A request with the argument of the other method, and one as testClient makes
\* it, whose method is not in the table.
Mismatched2 == Req("Service.setRadarStatus", 2, "GetRadarStatusRequest")
Unknown3 == Req("GetRadarStatus", 3, "GetRadarStatusRequest")

MCBatches == {Get0, Set1, Mismatched2, Unknown3} \X {Get0, Set1, Mismatched2, Unknown3}
=============================================================================
