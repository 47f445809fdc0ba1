------------------------- MODULE StallEngineProofs -------------------------
(***************************************************************************)
(* Proofs about the stall engine, for every set of tasks, every bound on   *)
(* request ids and every continuation cap.                                 *)
(***************************************************************************)
EXTENDS StallEngine, StallConfigProofs, TLAPS

USE EngineAssumption, ConfigAssumption

(***************************************************************************)
(* TypeOK is not inductive by itself: a step reads ent[req[t]] for a task  *)
(* in a stall, which is typed only if that task's req is an issued id, and *)
(* the rounds a stall starts stay within the cap only because each round   *)
(* but the current one ended in a counted continuation.                    *)
(***************************************************************************)
ReqValid == \A t \in Tasks : Stalling(t) => req[t] \in Ids

RoundsCount ==
    \A t \in Tasks :
        /\ pc[t] \in {"inserted", "retry"} => rounds[t] = cont[t]
        /\ pc[t] = "wait" => rounds[t] = cont[t] + 1

TypeInv == TypeOK /\ ReqValid /\ RoundsCount

LEMMA InitTypeInv == Init => TypeInv
BY DEF Init, TypeInv, TypeOK, ReqValid, RoundsCount, Stalling, ConfigInit, ConfigTypeOK,
       EmptyEntry, Ids, Responses, Modes, Verdicts, Outcomes

\* The content of a slot with no entry, and a hook's verdict, are typed.
LEMMA SlotTypes ==
    /\ EmptyEntry \in [mode : Modes, response : Responses]
    /\ \A r \in Responses : ToVerdict(r) \in Verdicts
BY DEF EmptyEntry, ToVerdict, Modes, Responses, Verdicts

LEMMA StartStallTypeInv ==
    ASSUME TypeInv, NEW t \in Tasks, StartStall(t)
    PROVE  TypeInv'
<1>1. ConfiguredDefault \in Responses \cap {"ALLOW", "DENY"}
  BY DEF ConfiguredDefault, Responses, TypeInv, TypeOK, ConfigTypeOK
<1>2. CASE /\ tbl' = tbl \cup {nextId}
           /\ ent' = [ent EXCEPT ![nextId] = [mode |-> "STALL",
                                              response |-> ConfiguredDefault]]
           /\ dfl' = [dfl EXCEPT ![nextId] = ConfiguredDefault]
           /\ req' = [req EXCEPT ![t] = nextId]
           /\ nextId' = nextId + 1
           /\ pc' = [pc EXCEPT ![t] = "inserted"]
           /\ cont' = [cont EXCEPT ![t] = 0]
           /\ verdict' = [verdict EXCEPT ![t] = "NONE"]
           /\ outcome' = [outcome EXCEPT ![t] = "none"]
           /\ offDuring' = [offDuring EXCEPT ![t] = FALSE]
           /\ rounds' = [rounds EXCEPT ![t] = 0]
           /\ UNCHANGED <<dflt, freed, denied>>
  BY <1>1, <1>2 DEF StartStall, cfgVars, TypeInv, TypeOK, ReqValid, RoundsCount, Stalling,
                    ConfigTypeOK, Ids, Modes, Verdicts, Outcomes
<1>3. CASE /\ verdict' = [verdict EXCEPT ![t] = "ALLOW"]
           /\ outcome' = [outcome EXCEPT ![t] = "insert_failed"]
           /\ UNCHANGED <<pc, req, dflt, cont, nextId, tbl, ent, freed,
                          denied, rounds, dfl, offDuring>>
  BY <1>3 DEF StartStall, cfgVars, TypeInv, TypeOK, ReqValid, RoundsCount, Stalling,
              ConfigTypeOK, Verdicts, Outcomes
<1>4. QED
  BY <1>2, <1>3 DEF StartStall

LEMMA PrologueTypeInv ==
    ASSUME TypeInv, NEW t \in Tasks, Prologue(t)
    PROVE  TypeInv'
BY DEF Prologue, TypeInv, TypeOK, ReqValid, RoundsCount, Stalling, ConfigTypeOK, ghostVars,
       cfgVars

LEMMA RetryTypeInv ==
    ASSUME TypeInv, NEW t \in Tasks, Retry(t)
    PROVE  TypeInv'
<1>1. req[t] \in Ids
  BY DEF Retry, TypeInv, ReqValid, RoundsCount, Stalling
<1>2. CASE /\ ~stallMode \/ bypassMode
           /\ pc' = [pc EXCEPT ![t] = "idle"]
           /\ freed' = freed \cup {req[t]}
           /\ ent' = [ent EXCEPT ![req[t]] = EmptyEntry]
           /\ verdict' = [verdict EXCEPT ![t] = "ALLOW"]
           /\ outcome' = [outcome EXCEPT ![t] = "disabled"]
           /\ dflt' = [dflt EXCEPT ![t] = "ALLOW"]
           /\ cont' = [cont EXCEPT ![t] = 0]
           /\ UNCHANGED rounds
  BY <1>1, <1>2, SlotTypes DEF Retry, cfgVars, TypeInv, TypeOK, ReqValid, RoundsCount,
                               Stalling, ConfigTypeOK, Responses, Verdicts,
                               Outcomes
<1>3. CASE /\ stallMode /\ ~bypassMode
           /\ pc' = [pc EXCEPT ![t] = "wait"]
           /\ rounds' = [rounds EXCEPT ![t] = CountRound(@)]
           /\ UNCHANGED <<freed, verdict, outcome, dflt, cont, ent>>
  <2>1. rounds[t] = cont[t] /\ cont[t] \in 0..MaxContinue - 1
    BY DEF Retry, TypeInv, TypeOK, RoundsCount
  <2>2. CountRound(rounds[t]) = cont[t] + 1
    BY <2>1 DEF CountRound
  <2>. QED
    BY <1>1, <1>3, <2>1, <2>2 DEF Retry, cfgVars, TypeInv, TypeOK, ReqValid,
                                  RoundsCount, Stalling, ConfigTypeOK
<1>4. QED
  BY <1>2, <1>3 DEF Retry

\* Finish(t, resp, how) keeps the types of everything it writes.
LEMMA FinishTypeInv ==
    ASSUME TypeInv, NEW t \in Tasks, Stalling(t),
           NEW resp \in Responses, NEW how \in Outcomes,
           Finish(t, resp, how),
           UNCHANGED <<req, nextId, denied, dfl, offDuring, cfgVars>>
    PROVE  TypeInv'
<1>1. req[t] \in Ids
  BY DEF TypeInv, ReqValid
<1>2. ToVerdict(resp) \in Verdicts /\ EmptyEntry \in [mode : Modes, response : Responses]
  BY SlotTypes
<1>3. QED
  BY <1>1, <1>2 DEF Finish, TypeInv, TypeOK, ReqValid, RoundsCount, Stalling, ConfigTypeOK,
                    cfgVars, Responses

LEMMA ExpireTypeInv ==
    ASSUME TypeInv, NEW t \in Tasks, Expire(t)
    PROVE  TypeInv'
BY FinishTypeInv DEF Expire, TypeInv, TypeOK, Stalling, Outcomes

LEMMA WakeTypeInv ==
    ASSUME TypeInv, NEW t \in Tasks, Wake(t)
    PROVE  TypeInv'
<1> DEFINE r == ent[req[t]].response
<1>1. r \in Responses /\ Stalling(t)
  BY DEF Wake, TypeInv, TypeOK, ReqValid, RoundsCount, Stalling
<1>2. CASE r # "CONTINUE" /\ Finish(t, r, "verdict")
  BY <1>1, <1>2, FinishTypeInv DEF Wake, Outcomes
<1>3. CASE /\ r = "CONTINUE"
           /\ cont[t] + 1 < MaxContinue
           /\ cont' = [cont EXCEPT ![t] = @ + 1]
           /\ ent' = [ent EXCEPT ![req[t]] = [mode |-> "STALL", response |-> @.response]]
           /\ pc' = [pc EXCEPT ![t] = "retry"]
           /\ UNCHANGED <<dflt, verdict, outcome, tbl, freed, rounds>>
  BY <1>3 DEF Wake, cfgVars, TypeInv, TypeOK, ReqValid, RoundsCount, Stalling, ConfigTypeOK, Ids,
              Modes, Responses
<1>4. CASE r = "CONTINUE" /\ ~(cont[t] + 1 < MaxContinue) /\ Finish(t, r, "cap")
  BY <1>1, <1>4, FinishTypeInv DEF Wake, Outcomes
<1>5. QED
  BY <1>2, <1>3, <1>4 DEF Wake

LEMMA ResolveTypeInv ==
    ASSUME TypeInv, NEW id \in Ids, NEW r \in Responses, Resolve(id, r)
    PROVE  TypeInv'
BY DEF Resolve, cfgVars, TypeInv, TypeOK, ReqValid, RoundsCount, Stalling, ConfigTypeOK, Ids,
       Modes, Responses

LEMMA ConfigureTypeInv ==
    ASSUME TypeInv, Configure
    PROVE  TypeInv'
<1>1. ConfigTypeOK'
  BY StallIocTypeOK DEF Configure, ConfigNext, TypeInv, TypeOK
<1>2. QED
  BY <1>1 DEF Configure, TypeInv, TypeOK, ReqValid, RoundsCount, Stalling, engineVars

LEMMA NextTypeInv == TypeInv /\ [Next]_vars => TypeInv'
<1> SUFFICES ASSUME TypeInv, [Next]_vars PROVE TypeInv'
  OBVIOUS
<1>1. ASSUME NEW t \in Tasks, StartStall(t) PROVE TypeInv'
  BY <1>1, StartStallTypeInv
<1>2. ASSUME NEW t \in Tasks, Prologue(t) PROVE TypeInv'
  BY <1>2, PrologueTypeInv
<1>3. ASSUME NEW t \in Tasks, Retry(t) PROVE TypeInv'
  BY <1>3, RetryTypeInv
<1>4. ASSUME NEW t \in Tasks, Expire(t) PROVE TypeInv'
  BY <1>4, ExpireTypeInv
<1>5. ASSUME NEW t \in Tasks, Wake(t) PROVE TypeInv'
  BY <1>5, WakeTypeInv
<1>6. ASSUME NEW id \in Ids, NEW r \in Responses, Resolve(id, r) PROVE TypeInv'
  BY <1>6, ResolveTypeInv
<1>7. CASE Configure
  BY <1>7, ConfigureTypeInv
<1>8. CASE UNCHANGED vars
  BY <1>8 DEF vars, engineVars, ghostVars, cfgVars, TypeInv, TypeOK, ReqValid, RoundsCount,
              Stalling, ConfigTypeOK
<1>9. QED
  BY <1>1, <1>2, <1>3, <1>4, <1>5, <1>6, <1>7, <1>8 DEF Next

(***************************************************************************)
(* Every variable of the engine keeps its type; in particular a stalled    *)
(* task's continue_count stays below MAX_CONTINUE_RESPONSES (the cap test  *)
(* of do_stall_interruptible) and the configuration stays clamped.         *)
(***************************************************************************)
THEOREM TypeCorrect == Spec => []TypeOK
<1>1. Init => TypeInv
  BY InitTypeInv
<1>2. TypeInv /\ [Next]_vars => TypeInv'
  BY NextTypeInv
<1>3. TypeInv => TypeOK
  BY DEF TypeInv
<1>4. QED
  BY <1>1, <1>2, <1>3, PTL DEF Spec

-----------------------------------------------------------------------------
(***************************************************************************)
(* The safety invariants.  Neither EntryOwnership nor DenyJustified is     *)
(* inductive alone: insert must hand out an id that no entry, freed entry  *)
(* or task holds yet (IdsIssued), and a denial must be traced back through *)
(* the default captured in the prologue and the response stored in the    *)
(* entry (DenySources), which needs that the captured default is ALLOW     *)
(* before the prologue runs (DfltReset).                                   *)
(***************************************************************************)
IdsIssued ==
    /\ tbl \cup freed \subseteq 1..nextId - 1
    /\ \A t \in Tasks : req[t] \in 0..nextId - 1

DfltReset == \A t \in Tasks : pc[t] \in {"idle", "inserted"} => dflt[t] = "ALLOW"

\* The agent answered DENY to id, or default-deny was on when id was inserted.
Justified(id) == id \in denied \/ dfl[id] = "DENY"

DenySources ==
    /\ \A id \in Ids : ent[id].response = "DENY" => Justified(id)
    /\ \A t \in Tasks : dflt[t] = "DENY" => req[t] \in Ids /\ Justified(req[t])
    /\ \A t \in Tasks : verdict[t] = "DENY" => req[t] \in Ids /\ Justified(req[t])

SafetyInv == TypeInv /\ IdsIssued /\ DfltReset /\ EntryOwnership /\ DenySources

LEMMA InitSafetyInv == Init => SafetyInv
<1> SUFFICES ASSUME Init PROVE SafetyInv
  OBVIOUS
<1>1. TypeInv
  BY InitTypeInv
<1>2. QED
  BY <1>1 DEF Init, SafetyInv, IdsIssued, DfltReset, EntryOwnership, DenySources,
              Stalling, EmptyEntry, NoReq

LEMMA StartStallSafety ==
    ASSUME SafetyInv, NEW t \in Tasks, StartStall(t)
    PROVE  SafetyInv'
<1>1. TypeInv'
  BY StartStallTypeInv DEF SafetyInv
<1>2. CASE /\ tbl' = tbl \cup {nextId}
           /\ ent' = [ent EXCEPT ![nextId] = [mode |-> "STALL",
                                              response |-> ConfiguredDefault]]
           /\ dfl' = [dfl EXCEPT ![nextId] = ConfiguredDefault]
           /\ req' = [req EXCEPT ![t] = nextId]
           /\ nextId' = nextId + 1
           /\ pc' = [pc EXCEPT ![t] = "inserted"]
           /\ cont' = [cont EXCEPT ![t] = 0]
           /\ verdict' = [verdict EXCEPT ![t] = "NONE"]
           /\ outcome' = [outcome EXCEPT ![t] = "none"]
           /\ offDuring' = [offDuring EXCEPT ![t] = FALSE]
           /\ rounds' = [rounds EXCEPT ![t] = 0]
           /\ UNCHANGED <<dflt, freed, denied>>
  <2> USE <1>2
  <2>1. pc[t] = "idle" /\ nextId \in Ids
    BY DEF StartStall, SafetyInv, TypeInv, TypeOK, Ids
  <2>2. nextId \notin tbl \cup freed /\ \A u \in Tasks : req[u] # nextId
    BY DEF SafetyInv, IdsIssued
  <2>3. IdsIssued'
    BY <2>1 DEF SafetyInv, IdsIssued, TypeInv, TypeOK, Ids
  <2>4. DfltReset'
    BY <2>1 DEF SafetyInv, DfltReset, TypeInv, TypeOK
  <2>5. EntryOwnership'
    <3>1. \A u \in Tasks : Stalling(u)' => req'[u] \in tbl' \ freed'
      BY <2>1, <2>2 DEF SafetyInv, EntryOwnership, Stalling, TypeInv, TypeOK
    <3>2. \A u, v \in Tasks :
             u # v /\ Stalling(u)' /\ Stalling(v)' => req'[u] # req'[v]
      BY <2>1, <2>2 DEF SafetyInv, EntryOwnership, Stalling, TypeInv, TypeOK
    <3>3. \A id \in tbl' \ freed' : \E u \in Tasks : Stalling(u)' /\ req'[u] = id
      <4> SUFFICES ASSUME NEW id \in tbl' \ freed'
                   PROVE  \E u \in Tasks : Stalling(u)' /\ req'[u] = id
        OBVIOUS
      <4>1. CASE id = nextId
        BY <4>1, <2>1 DEF Stalling, SafetyInv, TypeInv, TypeOK
      <4>2. CASE id # nextId
        <5>1. PICK u \in Tasks : Stalling(u) /\ req[u] = id
          BY <4>2 DEF SafetyInv, EntryOwnership
        <5>2. u # t
          BY <5>1, <2>1 DEF Stalling
        <5>3. QED
          BY <5>1, <5>2 DEF Stalling, SafetyInv, TypeInv, TypeOK
      <4>3. QED
        BY <4>1, <4>2
    <3>4. QED
      BY <3>1, <3>2, <3>3 DEF EntryOwnership
  <2>6. DenySources'
    <3>1. ConfiguredDefault \in {"ALLOW", "DENY"}
      BY DEF ConfiguredDefault
    <3>2. \A id \in Ids : ent'[id].response = "DENY" => Justified(id)'
      <4> SUFFICES ASSUME NEW id \in Ids PROVE
                     ent'[id].response = "DENY" => Justified(id)'
        OBVIOUS
      <4>1. CASE id = nextId
        <5>1. ent'[id].response = ConfiguredDefault /\ dfl'[id] = ConfiguredDefault
          BY <4>1, <2>1 DEF SafetyInv, TypeInv, TypeOK
        <5>2. QED
          BY <5>1 DEF Justified
      <4>2. CASE id # nextId
        BY <4>2 DEF SafetyInv, DenySources, Justified, TypeInv, TypeOK
      <4>3. QED
        BY <4>1, <4>2
    <3>3. (\A u \in Tasks : dflt[u] = "DENY" => req[u] \in Ids /\ Justified(req[u]))'
      BY <2>1, <2>2 DEF SafetyInv, DenySources, DfltReset, Justified, TypeInv,
                        TypeOK, Ids
    <3>4. (\A u \in Tasks : verdict[u] = "DENY" => req[u] \in Ids /\ Justified(req[u]))'
      BY <2>1, <2>2 DEF SafetyInv, DenySources, Justified, TypeInv, TypeOK, Ids
    <3>5. QED
      BY <3>2, <3>3, <3>4 DEF DenySources
  <2>7. QED
    BY <1>1, <2>3, <2>4, <2>5, <2>6 DEF SafetyInv
<1>3. CASE /\ verdict' = [verdict EXCEPT ![t] = "ALLOW"]
           /\ outcome' = [outcome EXCEPT ![t] = "insert_failed"]
           /\ UNCHANGED <<pc, req, dflt, cont, nextId, tbl, ent, freed,
                          denied, rounds, dfl, offDuring>>
  BY <1>1, <1>3 DEF SafetyInv, IdsIssued, DfltReset, EntryOwnership, Stalling,
                    DenySources, Justified, TypeInv, TypeOK
<1>4. QED
  BY <1>2, <1>3 DEF StartStall

LEMMA PrologueSafety ==
    ASSUME SafetyInv, NEW t \in Tasks, Prologue(t)
    PROVE  SafetyInv'
<1>1. TypeInv'
  BY PrologueTypeInv DEF SafetyInv
<1>2. req[t] \in Ids
  BY DEF Prologue, SafetyInv, TypeInv, ReqValid, Stalling
<1>3. dflt'[t] = "DENY" => Justified(req[t])
  BY <1>2 DEF Prologue, SafetyInv, DenySources
<1>4. QED
  BY <1>1, <1>2, <1>3 DEF Prologue, SafetyInv, IdsIssued, DfltReset, EntryOwnership,
                          Stalling, DenySources, Justified, TypeInv, TypeOK,
                          ghostVars, cfgVars

\* Taking a task out of its stall, with its entry freed and its slot and
\* locals reset, keeps the ownership and the sources of denials.
LEMMA ReleaseOwnership ==
    ASSUME SafetyInv, NEW t \in Tasks, Stalling(t),
           pc' = [pc EXCEPT ![t] = "idle"],
           tbl' \subseteq tbl, tbl' \ {req[t]} = tbl \ {req[t]},
           freed' = freed \cup {req[t]},
           UNCHANGED <<req, nextId>>
    PROVE  EntryOwnership' /\ IdsIssued'
<1>1. req[t] \in tbl \ freed /\ req[t] \in 1..nextId - 1
  BY DEF SafetyInv, EntryOwnership, IdsIssued
<1>2. \A u \in Tasks : u # t /\ Stalling(u) => req[u] # req[t]
  BY DEF SafetyInv, EntryOwnership
<1>3. \A u \in Tasks : Stalling(u)' => u # t /\ Stalling(u)
  BY DEF Stalling, SafetyInv, TypeInv, TypeOK
<1>4. (\A u \in Tasks : Stalling(u) => req[u] \in tbl \ freed)'
  BY <1>2, <1>3 DEF SafetyInv, EntryOwnership
<1>5. (\A u, v \in Tasks : u # v /\ Stalling(u) /\ Stalling(v) => req[u] # req[v])'
  BY <1>3 DEF SafetyInv, EntryOwnership
<1>6. (\A id \in tbl \ freed : \E u \in Tasks : Stalling(u) /\ req[u] = id)'
  <2> SUFFICES ASSUME NEW id \in tbl' \ freed'
               PROVE  \E u \in Tasks : Stalling(u)' /\ req'[u] = id
    OBVIOUS
  <2>1. id \in tbl \ freed /\ id # req[t]
    OBVIOUS
  <2>2. PICK u \in Tasks : Stalling(u) /\ req[u] = id
    BY <2>1 DEF SafetyInv, EntryOwnership
  <2>3. u # t
    BY <2>1, <2>2
  <2>4. QED
    BY <2>2, <2>3 DEF Stalling, SafetyInv, TypeInv, TypeOK
<1>7. IdsIssued'
  BY <1>1 DEF SafetyInv, IdsIssued
<1>8. QED
  BY <1>4, <1>5, <1>6, <1>7 DEF EntryOwnership

LEMMA FinishSafety ==
    ASSUME SafetyInv, NEW t \in Tasks, Stalling(t),
           NEW resp \in Responses, NEW how \in Outcomes,
           resp = "DENY" => Justified(req[t]),
           Finish(t, resp, how),
           UNCHANGED <<req, nextId, denied, dfl, offDuring, cfgVars>>
    PROVE  SafetyInv'
<1>1. TypeInv'
  BY FinishTypeInv DEF SafetyInv
<1>2. req[t] \in Ids
  BY DEF SafetyInv, TypeInv, ReqValid
<1>3. EntryOwnership' /\ IdsIssued'
  BY ReleaseOwnership DEF Finish
<1>4. DfltReset'
  BY DEF Finish, SafetyInv, DfltReset, TypeInv, TypeOK
<1>5. DenySources'
  <2>1. ToVerdict(resp) = "DENY" => resp = "DENY"
    BY DEF ToVerdict
  <2>2. EmptyEntry.response = "ALLOW"
    BY DEF EmptyEntry
  <2>3. QED
    BY <1>2, <2>1, <2>2 DEF Finish, SafetyInv, DenySources, Justified, TypeInv,
                            TypeOK
<1>6. QED
  BY <1>1, <1>3, <1>4, <1>5 DEF SafetyInv

LEMMA RetrySafety ==
    ASSUME SafetyInv, NEW t \in Tasks, Retry(t)
    PROVE  SafetyInv'
<1>1. TypeInv'
  BY RetryTypeInv DEF SafetyInv
<1>2. req[t] \in Ids /\ Stalling(t)
  BY DEF Retry, SafetyInv, TypeInv, ReqValid, Stalling
<1>3. CASE /\ ~stallMode \/ bypassMode
           /\ pc' = [pc EXCEPT ![t] = "idle"]
           /\ freed' = freed \cup {req[t]}
           /\ ent' = [ent EXCEPT ![req[t]] = EmptyEntry]
           /\ verdict' = [verdict EXCEPT ![t] = "ALLOW"]
           /\ outcome' = [outcome EXCEPT ![t] = "disabled"]
           /\ dflt' = [dflt EXCEPT ![t] = "ALLOW"]
           /\ cont' = [cont EXCEPT ![t] = 0]
           /\ UNCHANGED rounds
  <2>1. EntryOwnership' /\ IdsIssued'
    BY <1>2, <1>3, ReleaseOwnership DEF Retry
  <2>2. EmptyEntry.response = "ALLOW"
    BY DEF EmptyEntry
  <2>3. DfltReset' /\ DenySources'
    BY <1>2, <1>3, <2>2 DEF Retry, SafetyInv, DfltReset, DenySources, Justified,
                            TypeInv, TypeOK
  <2>4. QED
    BY <1>1, <2>1, <2>3 DEF SafetyInv
<1>4. CASE /\ stallMode /\ ~bypassMode
           /\ pc' = [pc EXCEPT ![t] = "wait"]
           /\ rounds' = [rounds EXCEPT ![t] = CountRound(@)]
           /\ UNCHANGED <<freed, verdict, outcome, dflt, cont, ent>>
  BY <1>1, <1>2, <1>4 DEF Retry, SafetyInv, IdsIssued, DfltReset, EntryOwnership,
                          Stalling, DenySources, Justified, TypeInv, TypeOK
<1>5. QED
  BY <1>3, <1>4 DEF Retry

LEMMA ExpireSafety ==
    ASSUME SafetyInv, NEW t \in Tasks, Expire(t)
    PROVE  SafetyInv'
<1>1. Stalling(t) /\ dflt[t] \in Responses
  BY DEF Expire, Stalling, SafetyInv, TypeInv, TypeOK
<1>2. dflt[t] = "DENY" => Justified(req[t])
  BY DEF SafetyInv, DenySources
<1>3. QED
  BY <1>1, <1>2, FinishSafety DEF Expire, Outcomes

LEMMA WakeSafety ==
    ASSUME SafetyInv, NEW t \in Tasks, Wake(t)
    PROVE  SafetyInv'
<1> DEFINE r == ent[req[t]].response
<1>1. Stalling(t) /\ req[t] \in Ids /\ r \in Responses
  BY DEF Wake, Stalling, SafetyInv, TypeInv, TypeOK, ReqValid
<1>2. r = "DENY" => Justified(req[t])
  BY <1>1 DEF SafetyInv, DenySources
<1>3. CASE r # "CONTINUE" /\ Finish(t, r, "verdict")
  BY <1>1, <1>2, <1>3, FinishSafety DEF Wake, Outcomes
<1>4. CASE r = "CONTINUE" /\ ~(cont[t] + 1 < MaxContinue) /\ Finish(t, r, "cap")
  BY <1>1, <1>4, FinishSafety DEF Wake, Outcomes
<1>5. CASE /\ r = "CONTINUE"
           /\ cont[t] + 1 < MaxContinue
           /\ cont' = [cont EXCEPT ![t] = @ + 1]
           /\ ent' = [ent EXCEPT ![req[t]] = [mode |-> "STALL", response |-> @.response]]
           /\ pc' = [pc EXCEPT ![t] = "retry"]
           /\ UNCHANGED <<dflt, verdict, outcome, tbl, freed, rounds>>
  <2>1. TypeInv'
    BY WakeTypeInv DEF SafetyInv
  <2>2. \A id \in Ids : ent'[id].response = ent[id].response
    BY <1>1, <1>5 DEF SafetyInv, TypeInv, TypeOK
  <2>3. IdsIssued'
    BY <1>5 DEF Wake, SafetyInv, IdsIssued
  <2>4. DfltReset'
    BY <1>5 DEF Wake, SafetyInv, DfltReset
  <2>5. EntryOwnership'
    BY <1>1, <1>5 DEF Wake, SafetyInv, EntryOwnership, Stalling, TypeInv, TypeOK
  <2>6. DenySources'
    BY <1>5, <2>2 DEF Wake, SafetyInv, DenySources, Justified
  <2>7. QED
    BY <2>1, <2>3, <2>4, <2>5, <2>6 DEF SafetyInv
<1>6. QED
  BY <1>3, <1>4, <1>5 DEF Wake

LEMMA ResolveSafety ==
    ASSUME SafetyInv, NEW id \in Ids, NEW r \in Responses, Resolve(id, r)
    PROVE  SafetyInv'
<1>1. TypeInv'
  BY ResolveTypeInv DEF SafetyInv
<1>2. (\A i \in Ids : ent[i].response = "DENY" => Justified(i))'
  BY DEF Resolve, SafetyInv, DenySources, Justified, TypeInv, TypeOK
<1>3. QED
  BY <1>1, <1>2 DEF Resolve, SafetyInv, IdsIssued, DfltReset, EntryOwnership,
                    Stalling, DenySources, Justified

LEMMA ConfigureSafety ==
    ASSUME SafetyInv, Configure
    PROVE  SafetyInv'
<1>1. TypeInv'
  BY ConfigureTypeInv DEF SafetyInv
<1>2. QED
  BY <1>1 DEF Configure, engineVars, SafetyInv, IdsIssued, DfltReset,
              EntryOwnership, Stalling, DenySources, Justified

LEMMA NextSafety == SafetyInv /\ [Next]_vars => SafetyInv'
<1> SUFFICES ASSUME SafetyInv, [Next]_vars PROVE SafetyInv'
  OBVIOUS
<1>1. ASSUME NEW t \in Tasks, StartStall(t) PROVE SafetyInv'
  BY <1>1, StartStallSafety
<1>2. ASSUME NEW t \in Tasks, Prologue(t) PROVE SafetyInv'
  BY <1>2, PrologueSafety
<1>3. ASSUME NEW t \in Tasks, Retry(t) PROVE SafetyInv'
  BY <1>3, RetrySafety
<1>4. ASSUME NEW t \in Tasks, Expire(t) PROVE SafetyInv'
  BY <1>4, ExpireSafety
<1>5. ASSUME NEW t \in Tasks, Wake(t) PROVE SafetyInv'
  BY <1>5, WakeSafety
<1>6. ASSUME NEW id \in Ids, NEW r \in Responses, Resolve(id, r) PROVE SafetyInv'
  BY <1>6, ResolveSafety
<1>7. CASE Configure
  BY <1>7, ConfigureSafety
<1>8. CASE UNCHANGED vars
  <2>1. TypeInv'
    BY <1>8, NextTypeInv DEF SafetyInv
  <2>2. QED
    BY <1>8, <2>1 DEF vars, engineVars, ghostVars, SafetyInv, IdsIssued,
                      DfltReset, EntryOwnership, Stalling, DenySources, Justified
<1>9. QED
  BY <1>1, <1>2, <1>3, <1>4, <1>5, <1>6, <1>7, <1>8 DEF Next

(***************************************************************************)
(* Every stalled task owns exactly one live entry linked in the stall      *)
(* table, no two stalled tasks share a request id, and no live linked      *)
(* entry is orphaned: insert's monotonic ids, the waiter's exits and       *)
(* remove agree on ownership for any number of tasks and ids.              *)
(***************************************************************************)
THEOREM OwnershipInvariant == Spec => []EntryOwnership
<1>1. Init => SafetyInv
  BY InitSafetyInv
<1>2. SafetyInv /\ [Next]_vars => SafetyInv'
  BY NextSafety
<1>3. SafetyInv => EntryOwnership
  BY DEF SafetyInv
<1>4. QED
  BY <1>1, <1>2, <1>3, PTL DEF Spec

(***************************************************************************)
(* A hook returns -EPERM only when the agent answered DENY to that very    *)
(* request or default-deny was configured when it was inserted, whatever  *)
(* the interleaving of responses, timeouts and control requests.           *)
(***************************************************************************)
THEOREM DenyJustifiedInvariant == Spec => []DenyJustified
<1>1. Init => SafetyInv
  BY InitSafetyInv
<1>2. SafetyInv /\ [Next]_vars => SafetyInv'
  BY NextSafety
<1>3. SafetyInv => DenyJustified
  BY DEF SafetyInv, DenySources, Justified, DenyJustified
<1>4. QED
  BY <1>1, <1>2, <1>3, PTL DEF Spec
-----------------------------------------------------------------------------
(***************************************************************************)
(* The continuation cap.  ContinueCapExact is not inductive alone: a task  *)
(* that stalls must not carry the outcome of its previous stall, since     *)
(* Retry counts its rounds while outcome is left as it is.                 *)
(***************************************************************************)
OutcomeCleared == \A t \in Tasks : Stalling(t) => outcome[t] = "none"

CapInv == TypeInv /\ OutcomeCleared /\ ContinueCapExact

LEMMA InitCapInv == Init => CapInv
BY InitTypeInv DEF Init, CapInv, OutcomeCleared, ContinueCapExact, Stalling

\* Finish records how the stall ended; the count is kept for the cap.
LEMMA FinishCap ==
    ASSUME CapInv, NEW t \in Tasks, NEW resp, NEW how,
           how = "cap" => rounds[t] = MaxContinue,
           Finish(t, resp, how), TypeInv'
    PROVE  CapInv'
<1>1. OutcomeCleared'
  BY DEF Finish, CapInv, OutcomeCleared, Stalling, TypeInv, TypeOK
<1>2. ContinueCapExact'
  BY DEF Finish, CapInv, ContinueCapExact, TypeInv, TypeOK
<1>. QED
  BY <1>1, <1>2 DEF CapInv

LEMMA StartStallCap ==
    ASSUME CapInv, NEW t \in Tasks, StartStall(t)
    PROVE  CapInv'
<1>1. TypeInv'
  BY StartStallTypeInv DEF CapInv
<1>. QED
  BY <1>1 DEF StartStall, CapInv, OutcomeCleared, ContinueCapExact, Stalling,
              TypeInv, TypeOK

LEMMA PrologueCap ==
    ASSUME CapInv, NEW t \in Tasks, Prologue(t)
    PROVE  CapInv'
<1>1. TypeInv'
  BY PrologueTypeInv DEF CapInv
<1>. QED
  BY <1>1 DEF Prologue, ghostVars, CapInv, OutcomeCleared, ContinueCapExact,
              Stalling, TypeInv, TypeOK

\* A round starts only in a stall, whose outcome is still "none".
LEMMA RetryCap ==
    ASSUME CapInv, NEW t \in Tasks, Retry(t)
    PROVE  CapInv'
<1>1. TypeInv'
  BY RetryTypeInv DEF CapInv
<1>2. outcome[t] = "none"
  BY DEF Retry, CapInv, OutcomeCleared, Stalling
<1>. QED
  BY <1>1, <1>2 DEF Retry, CapInv, OutcomeCleared, ContinueCapExact, Stalling,
                    TypeInv, TypeOK

LEMMA ExpireCap ==
    ASSUME CapInv, NEW t \in Tasks, Expire(t)
    PROVE  CapInv'
BY ExpireTypeInv, FinishCap DEF Expire, CapInv

\* At the cap the current round is the MAX_CONTINUE_RESPONSES-th.
LEMMA WakeCap ==
    ASSUME CapInv, NEW t \in Tasks, Wake(t)
    PROVE  CapInv'
<1> DEFINE r == ent[req[t]].response
<1>1. TypeInv'
  BY WakeTypeInv DEF CapInv
<1>2. pc[t] = "wait" /\ rounds[t] = cont[t] + 1 /\ cont[t] \in 0..MaxContinue - 1
  BY DEF Wake, CapInv, TypeInv, TypeOK, RoundsCount
<1>3. CASE r # "CONTINUE" /\ Finish(t, r, "verdict")
  BY <1>1, <1>3, FinishCap
<1>4. CASE r = "CONTINUE" /\ ~(cont[t] + 1 < MaxContinue) /\ Finish(t, r, "cap")
  <2>1. rounds[t] = MaxContinue
    BY <1>2, <1>4
  <2>. QED
    BY <1>1, <1>4, <2>1, FinishCap
<1>5. CASE /\ r = "CONTINUE"
           /\ cont[t] + 1 < MaxContinue
           /\ cont' = [cont EXCEPT ![t] = @ + 1]
           /\ ent' = [ent EXCEPT ![req[t]] = [mode |-> "STALL", response |-> @.response]]
           /\ pc' = [pc EXCEPT ![t] = "retry"]
           /\ UNCHANGED <<dflt, verdict, outcome, tbl, freed, rounds>>
  <2>1. \A u \in Tasks : Stalling(u)' => Stalling(u)
    BY <1>2, <1>5 DEF Stalling, CapInv, TypeInv, TypeOK
  <2>2. OutcomeCleared'
    BY <1>5, <2>1 DEF CapInv, OutcomeCleared
  <2>3. ContinueCapExact'
    BY <1>5 DEF CapInv, ContinueCapExact
  <2>. QED
    BY <1>1, <2>2, <2>3 DEF CapInv
<1>. QED
  BY <1>3, <1>4, <1>5 DEF Wake

LEMMA ResolveCap ==
    ASSUME CapInv, NEW id \in Ids, NEW r \in Responses, Resolve(id, r)
    PROVE  CapInv'
<1>1. TypeInv'
  BY ResolveTypeInv DEF CapInv
<1>. QED
  BY <1>1 DEF Resolve, CapInv, OutcomeCleared, ContinueCapExact, Stalling

LEMMA ConfigureCap ==
    ASSUME CapInv, Configure
    PROVE  CapInv'
<1>1. TypeInv'
  BY ConfigureTypeInv DEF CapInv
<1>. QED
  BY <1>1 DEF Configure, engineVars, CapInv, OutcomeCleared, ContinueCapExact,
              Stalling

LEMMA NextCap == CapInv /\ [Next]_vars => CapInv'
<1> SUFFICES ASSUME CapInv, [Next]_vars PROVE CapInv'
  OBVIOUS
<1>1. ASSUME NEW t \in Tasks, StartStall(t) PROVE CapInv'
  BY <1>1, StartStallCap
<1>2. ASSUME NEW t \in Tasks, Prologue(t) PROVE CapInv'
  BY <1>2, PrologueCap
<1>3. ASSUME NEW t \in Tasks, Retry(t) PROVE CapInv'
  BY <1>3, RetryCap
<1>4. ASSUME NEW t \in Tasks, Expire(t) PROVE CapInv'
  BY <1>4, ExpireCap
<1>5. ASSUME NEW t \in Tasks, Wake(t) PROVE CapInv'
  BY <1>5, WakeCap
<1>6. ASSUME NEW id \in Ids, NEW r \in Responses, Resolve(id, r) PROVE CapInv'
  BY <1>6, ResolveCap
<1>7. CASE Configure
  BY <1>7, ConfigureCap
<1>8. CASE UNCHANGED vars
  <2>1. TypeInv'
    BY <1>8, NextTypeInv DEF CapInv
  <2>. QED
    BY <1>8, <2>1 DEF vars, engineVars, ghostVars, CapInv, OutcomeCleared,
                      ContinueCapExact, Stalling
<1>9. QED
  BY <1>1, <1>2, <1>3, <1>4, <1>5, <1>6, <1>7, <1>8 DEF Next

(***************************************************************************)
(* For every continuation cap, a stall of do_stall_interruptible that ends *)
(* at the cap has run exactly MAX_CONTINUE_RESPONSES wait rounds: the test *)
(* continue_count < MAX_CONTINUE_RESPONSES after the increment lets        *)
(* neither one round too many nor one too few.                             *)
(***************************************************************************)
THEOREM ContinueCapExactInvariant == Spec => []ContinueCapExact
<1>1. Init => CapInv
  BY InitCapInv
<1>2. CapInv /\ [Next]_vars => CapInv'
  BY NextCap
<1>3. CapInv => ContinueCapExact
  BY DEF CapInv
<1>4. QED
  BY <1>1, <1>2, <1>3, PTL DEF Spec
=============================================================================
