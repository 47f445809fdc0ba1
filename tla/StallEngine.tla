---------------------------- MODULE StallEngine ----------------------------
(***************************************************************************)
(* The stall engine: a hook's task publishes a stalling event in the stall *)
(* table (dynsec_wait_event_timeout), then waits on the entry for a        *)
(* user-space response, a timeout, a signal or a continuation              *)
(* (do_stall_interruptible), while the agent resolves entries by request   *)
(* id and an administrator changes the configuration (handle_stall_ioc).   *)
(*                                                                         *)
(* The stall table operations insert, resolve and remove live in code      *)
(* that is not under src/ and are modelled from spec section 4.2.  Time is *)
(* abstract: a wait round may expire at any moment; the timeout values     *)
(* that size the rounds are not part of the state.                         *)
(***************************************************************************)
EXTENDS Naturals, FiniteSets, StallConfig

CONSTANTS
    Tasks,          \* tasks that run a stalling hook
    MaxReq,         \* bound on the request ids handed out by insert
    MaxContinue     \* MAX_CONTINUE_RESPONSES

ASSUME EngineAssumption ==
    /\ Tasks # {}
    /\ MaxReq \in Nat \ {0}
    /\ MaxContinue \in Nat \ {0}

Ids == 1..MaxReq
NoReq == 0
\* DYNSEC_RESPONSE_ALLOW, DYNSEC_RESPONSE_EPERM, DYNSEC_RESPONSE_CONTINUE
Responses == {"ALLOW", "DENY", "CONTINUE"}
\* DYNSEC_STALL_MODE_STALL and the released mode set by resolve
Modes == {"STALL", "RELEASED"}
\* what the hook returns: 0 or -EPERM ("NONE" before the first stall)
Verdicts == {"NONE", "ALLOW", "DENY"}
\* how the last stall of a task ended (ghost, for the properties)
Outcomes == {"none", "insert_failed", "disabled", "expired", "verdict", "cap"}

VARIABLES
    pc,         \* task -> "idle" | "inserted" | "retry" | "wait"
    req,        \* task -> request id of its stall entry
    dflt,       \* task -> default_reponse, read from entry->response
    cont,       \* task -> continue_count
    verdict,    \* task -> value the hook returned for its last stall
    nextId,     \* next request id insert hands out
    tbl,        \* ids whose entry is linked in the stall table
    ent,        \* id -> [mode, response] of its stall entry
    freed,      \* ids whose entry has been kfree'd
    outcome,    \* ghost: task -> how its last stall ended
    denied,     \* ghost: ids the agent has answered DENY
    rounds,     \* ghost: task -> wait rounds its last stall started
    dfl,        \* ghost: id -> configured default when it was inserted
    offDuring   \* ghost: task -> stall mode was turned off while it waited

engineVars == <<pc, req, dflt, cont, verdict, nextId, tbl, ent, freed>>
ghostVars == <<outcome, denied, rounds, dfl, offDuring>>
vars == <<engineVars, ghostVars, cfgVars>>

Stalling(t) == pc[t] # "idle"

\* The default response stall_tbl_insert puts in a fresh entry (spec 4.1 2).
ConfiguredDefault == IF denyOnTimeout THEN "DENY" ELSE "ALLOW"

\* *response = -EPERM only for an EPERM response; anything else leaves 0.
ToVerdict(r) == IF r = "DENY" THEN "DENY" ELSE "ALLOW"

\* The content of an entry slot that holds no entry.
EmptyEntry == [mode |-> "STALL", response |-> "ALLOW"]

Init ==
    /\ ConfigInit
    /\ pc = [t \in Tasks |-> "idle"]
    /\ req = [t \in Tasks |-> NoReq]
    /\ dflt = [t \in Tasks |-> "ALLOW"]
    /\ cont = [t \in Tasks |-> 0]
    /\ verdict = [t \in Tasks |-> "NONE"]
    /\ nextId = 1
    /\ tbl = {}
    /\ ent = [i \in Ids |-> EmptyEntry]
    /\ freed = {}
    /\ outcome = [t \in Tasks |-> "none"]
    /\ denied = {}
    /\ rounds = [t \in Tasks |-> 0]
    /\ dfl = [i \in Ids |-> "ALLOW"]
    /\ offDuring = [t \in Tasks |-> FALSE]

\* Mutant: insert hands out the same request id again.
StartStallReuseId(t) ==
    /\ pc[t] = "idle"
    /\ nextId <= MaxReq
    /\ tbl' = tbl \cup {nextId}
    /\ ent' = [ent EXCEPT ![nextId] = [mode |-> "STALL",
                                       response |-> ConfiguredDefault]]
    /\ dfl' = [dfl EXCEPT ![nextId] = ConfiguredDefault]
    /\ req' = [req EXCEPT ![t] = nextId]
    /\ pc' = [pc EXCEPT ![t] = "inserted"]
    /\ cont' = [cont EXCEPT ![t] = 0]
    /\ verdict' = [verdict EXCEPT ![t] = "NONE"]
    /\ outcome' = [outcome EXCEPT ![t] = "none"]
    /\ offDuring' = [offDuring EXCEPT ![t] = FALSE]
    /\ rounds' = [rounds EXCEPT ![t] = 0]
    /\ UNCHANGED <<nextId, dflt, freed, denied, cfgVars>>

(***************************************************************************)
(* dynsec_wait_event_timeout up to the insert: *response = 0, then         *)
(* stall_tbl_insert publishes the event and a fresh entry (mode STALL,     *)
(* response the configured default) under the shard lock.  An insert      *)
(* error frees the event and returns it; the hook then keeps ret = 0.      *)
(***************************************************************************)
StartStall(t) ==
    /\ pc[t] = "idle"
    /\ nextId <= MaxReq
    /\ \/ /\ tbl' = tbl \cup {nextId}
          /\ ent' = [ent EXCEPT ![nextId] = [mode |-> "STALL",
                                             response |-> ConfiguredDefault]]
          /\ dfl' = [dfl EXCEPT ![nextId] = ConfiguredDefault]
          /\ req' = [req EXCEPT ![t] = nextId]
          /\ nextId' = nextId + 1
          /\ pc' = [pc EXCEPT ![t] = "inserted"]
          /\ cont' = [cont EXCEPT ![t] = 0]
          /\ verdict' = [verdict EXCEPT ![t] = "NONE"]
          /\ outcome' = [outcome EXCEPT ![t] = "none"]
          /\ offDuring' = [offDuring EXCEPT ![t] = FALSE]
          /\ rounds' = [rounds EXCEPT ![t] = 0]
          /\ UNCHANGED <<dflt, freed, denied>>
       \/ /\ verdict' = [verdict EXCEPT ![t] = "ALLOW"]
          /\ outcome' = [outcome EXCEPT ![t] = "insert_failed"]
          /\ UNCHANGED <<pc, req, dflt, cont, nextId, tbl, ent, freed,
                         denied, rounds, dfl, offDuring>>
    /\ UNCHANGED cfgVars

(***************************************************************************)
(* do_stall_interruptible's prologue: default_reponse = entry->response,   *)
(* read without the entry lock after the entry was published, and the     *)
(* first round's timeout from the configuration.                           *)
(***************************************************************************)
Prologue(t) ==
    /\ pc[t] = "inserted"
    /\ dflt' = [dflt EXCEPT ![t] = ent[req[t]].response]
    /\ pc' = [pc EXCEPT ![t] = "retry"]
    /\ UNCHANGED <<req, cont, verdict, nextId, tbl, ent, freed>>
    /\ UNCHANGED <<ghostVars, cfgVars>>

\* The ghost count of rounds stops one past the cap, so that it stays finite
\* even for code that never reaches the cap.
CountRound(n) == IF n <= MaxContinue THEN n + 1 ELSE n

(***************************************************************************)
(* The retry label: with stall mode off or bypass on, return -ECHILD at    *)
(* once, before stall_tbl_remove_entry; dynsec_wait_event_timeout then     *)
(* kfree's the entry and returns 0, so the hook returns *response = 0.     *)
(* Otherwise start a wait round.                                           *)
(***************************************************************************)
Retry(t) ==
    /\ pc[t] = "retry"
    /\ \/ /\ ~stallMode \/ bypassMode
          /\ pc' = [pc EXCEPT ![t] = "idle"]
          /\ freed' = freed \cup {req[t]}
          /\ ent' = [ent EXCEPT ![req[t]] = EmptyEntry]
          /\ verdict' = [verdict EXCEPT ![t] = "ALLOW"]
          /\ outcome' = [outcome EXCEPT ![t] = "disabled"]
          /\ dflt' = [dflt EXCEPT ![t] = "ALLOW"]
          /\ cont' = [cont EXCEPT ![t] = 0]
          /\ UNCHANGED rounds
       \/ /\ stallMode /\ ~bypassMode
          /\ pc' = [pc EXCEPT ![t] = "wait"]
          /\ rounds' = [rounds EXCEPT ![t] = CountRound(@)]
          /\ UNCHANGED <<freed, verdict, outcome, dflt, cont, ent>>
    /\ UNCHANGED <<req, nextId, tbl>>
    /\ UNCHANGED <<denied, dfl, offDuring, cfgVars>>

(***************************************************************************)
(* The common exit: *response = -EPERM iff the response is EPERM,          *)
(* stall_tbl_remove_entry unlinks the entry, kfree frees it (its content   *)
(* and the waiter's locals are gone), and the hook returns *response.      *)
(***************************************************************************)
Finish(t, resp, how) ==
    /\ pc' = [pc EXCEPT ![t] = "idle"]
    /\ verdict' = [verdict EXCEPT ![t] = ToVerdict(resp)]
    /\ outcome' = [outcome EXCEPT ![t] = how]
    /\ tbl' = tbl \ {req[t]}
    /\ freed' = freed \cup {req[t]}
    /\ ent' = [ent EXCEPT ![req[t]] = EmptyEntry]
    /\ dflt' = [dflt EXCEPT ![t] = "ALLOW"]
    /\ cont' = [cont EXCEPT ![t] = 0]
    /\ UNCHANGED rounds

\* Mutant: the timed-out round reads the current configured default.
ExpireCurrentDefault(t) ==
    /\ pc[t] = "wait"
    /\ ent[req[t]].mode = "STALL"
    /\ Finish(t, ConfiguredDefault, "expired")
    /\ UNCHANGED <<req, nextId, denied, dfl, offDuring, cfgVars>>

(***************************************************************************)
(* wait_event_interruptible_timeout returns < 0 (signal) or 0 (timeout):   *)
(* local_response is the default captured in the prologue.  The macro      *)
(* tests the condition before the signal and after the timer, so it        *)
(* returns one of these only while entry->mode is STALL.                   *)
(***************************************************************************)
Expire(t) ==
    /\ pc[t] = "wait"
    /\ ent[req[t]].mode = "STALL"
    /\ Finish(t, dflt[t], "expired")
    /\ UNCHANGED <<req, nextId, denied, dfl, offDuring, cfgVars>>

\* Mutant: the cap is tested one continuation early (count + 1 before the test).
WakeCapOneEarly(t) ==
    LET r == ent[req[t]].response IN
    /\ pc[t] = "wait"
    /\ ent[req[t]].mode = "RELEASED"
    /\ \/ /\ r # "CONTINUE"
          /\ Finish(t, r, "verdict")
       \/ /\ r = "CONTINUE"
          /\ cont[t] + 2 < MaxContinue
          /\ cont' = [cont EXCEPT ![t] = @ + 1]
          /\ ent' = [ent EXCEPT ![req[t]] = [mode |-> "STALL", response |-> @.response]]
          /\ pc' = [pc EXCEPT ![t] = "retry"]
          /\ UNCHANGED <<dflt, verdict, outcome, tbl, freed, rounds>>
       \/ /\ r = "CONTINUE"
          /\ ~(cont[t] + 2 < MaxContinue)
          /\ Finish(t, r, "cap")
    /\ UNCHANGED <<req, nextId, denied, dfl, offDuring, cfgVars>>

\* Mutant: continue_count is not incremented on a continuation.
WakeNoCount(t) ==
    LET r == ent[req[t]].response IN
    /\ pc[t] = "wait"
    /\ ent[req[t]].mode = "RELEASED"
    /\ \/ /\ r # "CONTINUE"
          /\ Finish(t, r, "verdict")
       \/ /\ r = "CONTINUE"
          /\ cont[t] + 1 < MaxContinue
          /\ ent' = [ent EXCEPT ![req[t]] = [mode |-> "STALL", response |-> @.response]]
          /\ pc' = [pc EXCEPT ![t] = "retry"]
          /\ UNCHANGED <<dflt, cont, verdict, outcome, tbl, freed, rounds>>
       \/ /\ r = "CONTINUE"
          /\ ~(cont[t] + 1 < MaxContinue)
          /\ Finish(t, r, "cap")
    /\ UNCHANGED <<req, nextId, denied, dfl, offDuring, cfgVars>>

\* Mutant: the continuation cap is tested with <= instead of <.
WakeCapOffByOne(t) ==
    LET r == ent[req[t]].response IN
    /\ pc[t] = "wait"
    /\ ent[req[t]].mode = "RELEASED"
    /\ \/ /\ r # "CONTINUE"
          /\ Finish(t, r, "verdict")
       \/ /\ r = "CONTINUE"
          /\ cont[t] + 1 <= MaxContinue
          /\ cont' = [cont EXCEPT ![t] = @ + 1]
          /\ ent' = [ent EXCEPT ![req[t]] = [mode |-> "STALL", response |-> @.response]]
          /\ pc' = [pc EXCEPT ![t] = "retry"]
          /\ UNCHANGED <<dflt, verdict, outcome, tbl, freed, rounds>>
       \/ /\ r = "CONTINUE"
          /\ ~(cont[t] + 1 <= MaxContinue)
          /\ Finish(t, r, "cap")
    /\ UNCHANGED <<req, nextId, denied, dfl, offDuring, cfgVars>>

(***************************************************************************)
(* The wait condition entry->mode != STALL became true: under entry->lock  *)
(* copy the response and re-arm mode = STALL.  A CONTINUE counts one       *)
(* continuation and loops to retry while continue_count < MAX; at the cap  *)
(* ret = -ECHILD and local_response stays CONTINUE.  Any other response   *)
(* ends the stall.                                                         *)
(***************************************************************************)
Wake(t) ==
    LET r == ent[req[t]].response IN
    /\ pc[t] = "wait"
    /\ ent[req[t]].mode = "RELEASED"
    /\ \/ /\ r # "CONTINUE"
          /\ Finish(t, r, "verdict")
       \/ /\ r = "CONTINUE"
          /\ cont[t] + 1 < MaxContinue
          /\ cont' = [cont EXCEPT ![t] = @ + 1]
          /\ ent' = [ent EXCEPT ![req[t]] = [mode |-> "STALL", response |-> @.response]]
          /\ pc' = [pc EXCEPT ![t] = "retry"]
          /\ UNCHANGED <<dflt, verdict, outcome, tbl, freed, rounds>>
       \/ /\ r = "CONTINUE"
          /\ ~(cont[t] + 1 < MaxContinue)
          /\ Finish(t, r, "cap")
    /\ UNCHANGED <<req, nextId, denied, dfl, offDuring, cfgVars>>

(***************************************************************************)
(* The agent's response {id, response, timeout} (spec 4.2 resolve): the    *)
(* entry is looked up under the shard lock; when linked, its response is   *)
(* overwritten, mode = RELEASED and the waiter is woken.  A response to an *)
(* id that is no longer linked is accepted and changes nothing.  A linked  *)
(* entry that was already kfree'd (see Retry) is written through freed     *)
(* memory, whose content the model does not track.                         *)
(***************************************************************************)
Resolve(id, r) ==
    /\ id \in tbl \ freed
    /\ ent' = [ent EXCEPT ![id] = [mode |-> "RELEASED", response |-> r]]
    /\ denied' = IF r = "DENY" THEN denied \cup {id} ELSE denied
    /\ UNCHANGED <<pc, req, dflt, cont, verdict, nextId, tbl, freed>>
    /\ UNCHANGED <<outcome, rounds, dfl, offDuring, cfgVars>>

\* A control request, with the ghost record of stalls it disabled mid-wait.
Configure ==
    /\ ConfigNext
    /\ offDuring' = [t \in Tasks |->
                        offDuring[t] \/ (Stalling(t) /\ stallMode /\ ~stallMode')]
    /\ UNCHANGED <<engineVars, outcome, denied, rounds, dfl>>

Next ==
    \/ \E t \in Tasks :
          \/ StartStall(t)
          \/ Prologue(t)
          \/ Retry(t)
          \/ Expire(t)
          \/ Wake(t)
    \/ \E id \in Ids, r \in Responses : Resolve(id, r)
    \/ Configure

(***************************************************************************)
(* A task in a hook runs whenever it is runnable: its wait is bounded by a *)
(* kernel timer and resolve wakes it, so each of its steps is weakly fair. *)
(* The agent and the administrator are not obliged to do anything.        *)
(***************************************************************************)
Fairness ==
    \A t \in Tasks :
        /\ WF_vars(Prologue(t))
        /\ WF_vars(Retry(t))
        /\ WF_vars(Expire(t))
        /\ WF_vars(Wake(t))

Spec == Init /\ [][Next]_vars /\ Fairness

-----------------------------------------------------------------------------
(* Properties *)

\* Type of every variable; while a task stalls its continue_count stays
\* below MAX_CONTINUE_RESPONSES.
TypeOK ==
    /\ ConfigTypeOK
    /\ pc \in [Tasks -> {"idle", "inserted", "retry", "wait"}]
    /\ req \in [Tasks -> {NoReq} \cup Ids]
    /\ dflt \in [Tasks -> Responses]
    /\ cont \in [Tasks -> 0..MaxContinue - 1]
    /\ verdict \in [Tasks -> Verdicts]
    /\ nextId \in 1..MaxReq + 1
    /\ tbl \subseteq Ids
    /\ ent \in [Ids -> [mode : Modes, response : Responses]]
    /\ freed \subseteq Ids
    /\ outcome \in [Tasks -> Outcomes]
    /\ denied \subseteq Ids
    /\ rounds \in [Tasks -> 0..MaxContinue]
    /\ dfl \in [Ids -> {"ALLOW", "DENY"}]
    /\ offDuring \in [Tasks -> BOOLEAN]

(***************************************************************************)
(* Spec section 8: every stalled task owns exactly one live, linked entry, *)
(* no two stalled tasks share a request id, and every live linked entry    *)
(* has a task waiting on it (insert, the waiter's exit paths and remove    *)
(* agree on who owns an entry).                                            *)
(***************************************************************************)
EntryOwnership ==
    /\ \A t \in Tasks : Stalling(t) => req[t] \in tbl \ freed
    /\ \A t, u \in Tasks :
          t # u /\ Stalling(t) /\ Stalling(u) => req[t] # req[u]
    /\ \A id \in tbl \ freed : \E t \in Tasks : Stalling(t) /\ req[t] = id

(***************************************************************************)
(* A hook denies an operation only when the agent answered DENY to that    *)
(* very request, or default-deny was configured when it was inserted:      *)
(* responses are routed by request id, a late answer to an old request     *)
(* never reaches a newer one, and a configuration change after the insert  *)
(* does not turn a timeout into a denial.                                  *)
(***************************************************************************)
DenyJustified ==
    \A t \in Tasks :
        verdict[t] = "DENY" => req[t] \in denied \/ dfl[req[t]] = "DENY"

(***************************************************************************)
(* Scenario 7: an agent that answers CONTINUE every time holds the task    *)
(* for exactly MAX_CONTINUE_RESPONSES rounds: a stall that ends at the cap *)
(* has started that many wait rounds at the retry label, each ended by a   *)
(* CONTINUE read under the entry lock.  The count is kept by Retry and the *)
(* cap is decided by Wake, so an off-by-one in either direction of the     *)
(* test continue_count < MAX_CONTINUE_RESPONSES breaks it.                 *)
(***************************************************************************)
ContinueCapExact ==
    \A t \in Tasks : outcome[t] = "cap" => rounds[t] = MaxContinue

(***************************************************************************)
(* Every stall ends, whatever the agent does: the timer bounds each round  *)
(* and MAX_CONTINUE_RESPONSES bounds the rounds an agent answering         *)
(* CONTINUE can add.                                                       *)
(***************************************************************************)
StallTerminates ==
    \A t \in Tasks : Stalling(t) ~> ~Stalling(t)

-----------------------------------------------------------------------------
(* Properties the code is checked against and does not satisfy *)

(***************************************************************************)
(* Spec 4.1 step 5 and section 8: remove is called on every exit path      *)
(* before the entry is freed, so no linked entry is ever freed memory.     *)
(***************************************************************************)
NoDanglingEntry ==
    tbl \cap freed = {}

(***************************************************************************)
(* Spec 4.1 step 4: a wait that times out or is interrupted ends with the  *)
(* default response configured when the entry was inserted.               *)
(***************************************************************************)
TimeoutYieldsDefault ==
    \A t \in Tasks :
        ~Stalling(t) /\ outcome[t] = "expired"
            => verdict[t] = dfl[req[t]]

(***************************************************************************)
(* Spec 4.1 step 4 and scenario 7: a stall that reaches the continuation   *)
(* cap ends with DENY.                                                     *)
(***************************************************************************)
ContinueCapDenies ==
    \A t \in Tasks : outcome[t] = "cap" => verdict[t] = "DENY"

(***************************************************************************)
(* Spec section 5: turning stall mode off aborts every in-flight stall     *)
(* with ALLOW.                                                             *)
(***************************************************************************)
DisableAbortsStalls ==
    \A t \in Tasks : ~Stalling(t) /\ offDuring[t] => verdict[t] = "ALLOW"

=============================================================================
