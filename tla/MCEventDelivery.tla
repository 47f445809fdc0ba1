-------------------------- MODULE MCEventDelivery --------------------------
(***************************************************************************)
(* EventDelivery for TLC: the agent task and one monitored task, each      *)
(* submitting up to three events, with room for one event per queue so    *)
(* that a full queue is reached.                                           *)
(***************************************************************************)
EXTENDS EventDelivery

CONSTANTS a, u

MCTasks == {a, u}
MCAgent == {a}
MCMaxSeq == 3
MCQCap == 1
=============================================================================
