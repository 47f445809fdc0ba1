------------------------- MODULE StallConfigProofs -------------------------
(***************************************************************************)
(* Proofs about the stall configuration: the clamps of handle_stall_ioc    *)
(* keep both timeouts in range for every value of the constants.           *)
(***************************************************************************)
EXTENDS StallConfig, TLAPS

(***************************************************************************)
(* The DEFAULT_TIMEOUT clamp of handle_stall_ioc lands every requested     *)
(* value in [MIN_WAIT_TIMEOUT_MS, MAX_WAIT_TIMEOUT_MS].                    *)
(***************************************************************************)
LEMMA ClampWaitRange ==
    ASSUME NEW t \in Nat
    PROVE  ClampWait(t) \in MinWait..MaxWait
BY ConfigAssumption DEF ClampWait

(***************************************************************************)
(* The CONTINUE_TIMEOUT clamp, given a stall timeout in range, lands every *)
(* requested value in [MIN_WAIT_TIMEOUT_MS, MAX_EXTENDED_TIMEOUT_MS].      *)
(***************************************************************************)
LEMMA ClampContinueRange ==
    ASSUME NEW t \in Nat, NEW w \in MinWait..MaxWait
    PROVE  ClampContinue(t, w) \in MinWait..MaxExtended
BY ConfigAssumption DEF ClampContinue

(***************************************************************************)
(* One control request keeps the configuration well typed.                 *)
(***************************************************************************)
LEMMA StallIocTypeOK ==
    ASSUME ConfigTypeOK,
           NEW flags \in SUBSET IocFlags, NEW mode \in BOOLEAN,
           NEW deny \in BOOLEAN, NEW wait \in ReqTimeouts,
           NEW cont \in ReqTimeouts,
           StallIoc(flags, mode, wait, cont, deny)
    PROVE  ConfigTypeOK'
<1> DEFINE newWait == IF "DEFAULT_TIMEOUT" \in flags THEN ClampWait(wait)
                                                     ELSE stallTimeout
<1>1. newWait \in MinWait..MaxWait
  BY ClampWaitRange, ConfigAssumption DEF ConfigTypeOK
<1>2. stallTimeout' = newWait
  BY DEF StallIoc
<1>3. continueTimeout' \in MinWait..MaxExtended
  <2>1. CASE "CONTINUE_TIMEOUT" \in flags
    <3>1. continueTimeout' = ClampContinue(cont, newWait)
      BY <2>1 DEF StallIoc
    <3>2. QED
      BY <1>1, <3>1, ClampContinueRange, ConfigAssumption
  <2>2. CASE "CONTINUE_TIMEOUT" \notin flags
    BY <2>2 DEF StallIoc, ConfigTypeOK
  <2>3. QED
    BY <2>1, <2>2
<1>4. QED
  BY <1>1, <1>2, <1>3 DEF StallIoc, ConfigTypeOK

(***************************************************************************)
(* Spec section 8: whatever control requests arrive, the stall timeout     *)
(* stays in [MIN_WAIT, MAX_WAIT] and the continuation timeout in           *)
(* [MIN_WAIT, MAX_EXTENDED] (handle_stall_ioc's clamps).                   *)
(***************************************************************************)
THEOREM ConfigTypeCorrect == ConfigSpec => []ConfigTypeOK
<1>1. ConfigInit => ConfigTypeOK
  BY ConfigAssumption DEF ConfigInit, ConfigTypeOK
<1>2. ConfigTypeOK /\ [ConfigNext]_cfgVars => ConfigTypeOK'
  <2> SUFFICES ASSUME ConfigTypeOK, [ConfigNext]_cfgVars
               PROVE  ConfigTypeOK'
    OBVIOUS
  <2>1. CASE ConfigNext
    BY <2>1, StallIocTypeOK DEF ConfigNext
  <2>2. CASE UNCHANGED cfgVars
    BY <2>2 DEF cfgVars, ConfigTypeOK
  <2>3. QED
    BY <2>1, <2>2
<1>3. QED
  BY <1>1, <1>2, PTL DEF ConfigSpec
=============================================================================
