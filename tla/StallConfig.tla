---------------------------- MODULE StallConfig ----------------------------
(***************************************************************************)
(* The stall configuration (global_config) and the control request that   *)
(* mutates it, handle_stall_ioc in the stall request code.                 *)
(*                                                                         *)
(* Timeouts are milliseconds.  The stall engine reads stall_mode,          *)
(* bypass_mode and the default-deny switch on every wait round; the        *)
(* timeouts only size the waits, which the engine treats as abstract.     *)
(***************************************************************************)
EXTENDS Naturals

CONSTANTS
    MinWait,        \* MIN_WAIT_TIMEOUT_MS
    MaxWait,        \* MAX_WAIT_TIMEOUT_MS
    MaxExtended,    \* MAX_EXTENDED_TIMEOUT_MS
    InitWait,       \* stall_timeout at module load
    InitContinue,   \* stall_timeout_continue at module load
    ReqTimeouts     \* timeout values a control request may carry

ASSUME ConfigAssumption ==
    /\ MinWait \in Nat /\ MaxWait \in Nat /\ MaxExtended \in Nat
    /\ MinWait <= MaxWait
    /\ MaxWait <= MaxExtended
    /\ InitWait \in MinWait..MaxWait
    /\ InitContinue \in InitWait..MaxExtended
    /\ ReqTimeouts \subseteq Nat

VARIABLES
    stallMode,        \* global_config.stall_mode # DEFAULT_DISABLED
    bypassMode,       \* bypass_mode_enabled(); set by no code under src/
    denyOnTimeout,    \* global_config.stall_timeout_deny # DEFAULT_DISABLED
    stallTimeout,     \* global_config.stall_timeout
    continueTimeout   \* global_config.stall_timeout_continue

cfgVars == <<stallMode, bypassMode, denyOnTimeout, stallTimeout, continueTimeout>>

\* The sub-settings a request's flags word can select (all other bits are
\* masked off by handle_stall_ioc).
IocFlags == {"STALL_MODE_SET", "DEFAULT_TIMEOUT", "CONTINUE_TIMEOUT", "DEFAULT_DENY"}

ConfigInit ==
    /\ stallMode \in BOOLEAN
    /\ bypassMode \in BOOLEAN
    /\ denyOnTimeout \in BOOLEAN
    /\ stallTimeout = InitWait
    /\ continueTimeout = InitContinue

\* Mutant: the request is capped at the maximum but never raised to the minimum.
ClampWaitNoMin(t) ==
    IF t < MaxWait THEN t ELSE MaxWait

\* DYNSEC_STALL_DEFAULT_TIMEOUT: start from the maximum, take the request
\* when it is below the maximum, then raise it to the minimum.
ClampWait(t) ==
    LET capped == IF t < MaxWait THEN t ELSE MaxWait
    IN  IF capped < MinWait THEN MinWait ELSE capped

\* DYNSEC_STALL_CONTINUE_TIMEOUT: at least the (possibly just updated)
\* stall timeout, at most the extended maximum.
ClampContinue(t, wait) ==
    LET atLeast == IF t > wait THEN t ELSE wait
    IN  IF atLeast > MaxExtended THEN MaxExtended ELSE atLeast

(***************************************************************************)
(* handle_stall_ioc by a CAP_SYS_ADMIN caller with a non-empty flags word  *)
(* (the EINVAL and EPERM returns change nothing).  The four blocks run in  *)
(* order under the config lock: the continue clamp reads the stall timeout *)
(* the same request may just have written.  Turning stall mode on or off   *)
(* also clears the task and inode caches, which are not modelled here.    *)
(***************************************************************************)
StallIoc(flags, mode, wait, cont, deny) ==
    LET newWait == IF "DEFAULT_TIMEOUT" \in flags THEN ClampWait(wait)
                                                  ELSE stallTimeout
    IN
    /\ flags # {}
    /\ stallMode' = IF "STALL_MODE_SET" \in flags THEN mode ELSE stallMode
    /\ stallTimeout' = newWait
    /\ continueTimeout' = IF "CONTINUE_TIMEOUT" \in flags
                            THEN ClampContinue(cont, newWait)
                            ELSE continueTimeout
    /\ denyOnTimeout' = IF "DEFAULT_DENY" \in flags THEN deny ELSE denyOnTimeout
    /\ UNCHANGED bypassMode

ConfigNext ==
    \E flags \in SUBSET IocFlags, mode, deny \in BOOLEAN,
       wait, cont \in ReqTimeouts :
        StallIoc(flags, mode, wait, cont, deny)

ConfigSpec == ConfigInit /\ [][ConfigNext]_cfgVars

(***************************************************************************)
(* Type of the configuration.  The timeout ranges are spec section 8:      *)
(* whatever sequence of control requests arrives, the clamps of            *)
(* handle_stall_ioc keep the stall timeout in [MIN_WAIT, MAX_WAIT] and the *)
(* continuation timeout in [MIN_WAIT, MAX_EXTENDED].                       *)
(***************************************************************************)
ConfigTypeOK ==
    /\ stallMode \in BOOLEAN
    /\ bypassMode \in BOOLEAN
    /\ denyOnTimeout \in BOOLEAN
    /\ stallTimeout \in MinWait..MaxWait
    /\ continueTimeout \in MinWait..MaxExtended

(***************************************************************************)
(* Spec section 3/8: for every configuration the continuation timeout is   *)
(* at least the stall timeout.  handle_stall_ioc enforces it only when the *)
(* request also sets the continuation timeout.                             *)
(***************************************************************************)
ContinueNotShorter ==
    stallTimeout <= continueTimeout

=============================================================================
