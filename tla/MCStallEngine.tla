--------------------------- MODULE MCStallEngine ---------------------------
(* Instance of StallEngine for TLC: two tasks stalling concurrently, two     *)
(* request ids so that a task stalls again after another stall ended, and   *)
(* a continuation cap of 2 so that the cap is reached.  The timeouts are    *)
(* pinned to one value: the engine does not depend on them.                 *)
EXTENDS StallEngine, TLC

CONSTANTS t1, t2

MCTasks == {t1, t2}
MCOne == {t1}
MCMaxReq == 2
MCMaxContinue == 2
MCTimeout == 1
MCReqTimeouts == {1}
\* With the timeouts pinned, DEFAULT_TIMEOUT and CONTINUE_TIMEOUT change
\* nothing; requests select among the two flags the engine reads.
MCIocFlags == {"STALL_MODE_SET", "DEFAULT_DENY"}
MCSymmetry == Permutations(MCTasks)

=============================================================================
