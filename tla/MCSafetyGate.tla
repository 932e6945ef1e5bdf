---------------------------- MODULE MCSafetyGate ----------------------------
(* SafetyGate on small instances: a win and a loss of one unit. *)
EXTENDS SafetyGate

MCPnls == {-1, 1}
=============================================================================
