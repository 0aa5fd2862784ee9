-------------------------- MODULE MCInvestigationAgent --------------------------
(* Two parallel calls over two tools: one that returns two items, and the    *)
(* timeline.                                                                 *)
EXTENDS InvestigationAgent, TLC

CONSTANTS activity, timeline, a, b, e

MCReturns == (activity :> <<a, b>>) @@ (timeline :> <<e>>)
=============================================================================
