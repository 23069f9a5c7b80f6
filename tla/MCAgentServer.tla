---------------------------- MODULE MCAgentServer ----------------------------
(***************************************************************************)
(* An instance of AgentServer for TLC: one client besides the UI thread,   *)
(* which leaves and calls again, so that its connections queue up; two     *)
(* plans and a review list that is full with one.                          *)
(***************************************************************************)
EXTENDS AgentServer

CONSTANTS c1, p1, p2

OneClient == {c1}
MCPlan == {p1, p2}
=============================================================================
