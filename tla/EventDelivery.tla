--------------------------- MODULE EventDelivery ---------------------------
(***************************************************************************)
(* The hook adapters (the LSM hooks, tracepoints and kprobe of the event   *)
(* collector) and the two delivery queues they feed.                       *)
(*                                                                         *)
(* Every hook decides report_flags, builds an event and then either calls  *)
(* the stall engine (the event is published and the task blocks until the *)
(* engine returns) or hands the event to enqueue_nonstall_event /          *)
(* enqueue_nonstall_event_low_pri and returns at once.  The agent reads    *)
(* events with the queue's dequeue: the normal queue before the            *)
(* low-priority one, FIFO within each (spec 4.2).                          *)
(*                                                                         *)
(* An event is abstracted to its task, the task's submission number and    *)
(* the class of operation the properties tell apart.  A hook path that     *)
(* ends without an event (hook disabled, a filter, the table disabled, a   *)
(* failed fill) leaves this state unchanged: it is a stuttering step.  The *)
(* verdict a stalled task gets is the stall engine's concern              *)
(* (StallEngine); here the engine returns at some point.                   *)
(***************************************************************************)
EXTENDS Naturals, Sequences, SequencesExt

CONSTANTS
    Tasks,            \* tasks that run hooks
    Agent,            \* tasks in the connected tgid (task_in_connected_tgid)
    MaxSeq,           \* bound on the events one task submits
    QCap,             \* events each delivery queue holds before it is full
    MmapReportMisc,   \* mmap_report_misc
    MmapStallMisc,    \* mmap_stall_misc
    MmapStallOnExec,  \* mmap_stall_on_exec
    MmapStallOnLdso,  \* mmap_stall_on_ldso
    FreeRefused       \* the caller frees an event its queue refused

ASSUME DeliveryAssumption ==
    /\ Agent \subseteq Tasks
    /\ MaxSeq \in Nat \ {0}
    /\ QCap \in Nat \ {0}
    /\ {MmapReportMisc, MmapStallMisc, MmapStallOnExec, MmapStallOnLdso}
          \subseteq BOOLEAN
    /\ FreeRefused \in BOOLEAN

VARIABLES
    pc,        \* task -> "run" | "stalled" | "exited" | "freed"
    nseq,      \* task -> events it has submitted
    normalQ,   \* the normal-priority delivery FIFO
    lowQ,      \* the low-priority delivery FIFO
    delivered, \* events in the order the agent read them
    stallCls,  \* task -> class of the operation it is stalled on, or "none"
    freedEv    \* task -> its events freed by the hook after a refused enqueue

vars == <<pc, nseq, normalQ, lowQ, delivered, stallCls, freedEv>>

\* What the properties tell operations apart by.
Classes == {"fs", "open", "open_stream", "open_nonotify_ro", "exec_map",
            "ldso_map", "misc_map", "notify", "exit", "task_free", "setattr_nochange"}

Events == [task : Tasks, seq : 1..MaxSeq]

NewEvent(t) == [task |-> t, seq |-> nseq[t] + 1]

Init ==
    /\ pc = [t \in Tasks |-> "run"]
    /\ nseq = [t \in Tasks |-> 0]
    /\ normalQ = <<>>
    /\ lowQ = <<>>
    /\ delivered = <<>>
    /\ stallCls = [t \in Tasks |-> "none"]
    /\ freedEv = [t \in Tasks |-> 0]

\* report_flags of a hook that stalls unless the caller is the agent:
\* "if (task_in_connected_tgid(current)) SELF else STALL".
SelfOrStall(t) ==
    IF t \in Agent THEN {"AUDIT", "SELF"} ELSE {"AUDIT", "STALL"}

\* report_flags of a hook that never stalls.
AuditOnly(t) ==
    IF t \in Agent THEN {"AUDIT", "SELF"} ELSE {"AUDIT"}

(***************************************************************************)
(* enqueue_nonstall_event[_low_pri](stall_tbl, event): the event is        *)
(* appended when its queue has room.  On a full queue the call returns 0   *)
(* and the event is the caller's to free (spec 4.2).  Every hook of        *)
(* part_000 discards the result with (void); the hooks of hooks.c test it  *)
(* and call free_dynsec_event.  FreeRefused selects the caller.            *)
(***************************************************************************)
\* Mutant: the queue's high-water mark is not checked.
EnqueueNoCap(e, low) ==
    /\ normalQ' = IF ~low THEN Append(normalQ, e) ELSE normalQ
    /\ lowQ' = IF low THEN Append(lowQ, e) ELSE lowQ

Enqueue(e, low) ==
    /\ normalQ' = IF ~low /\ Len(normalQ) < QCap THEN Append(normalQ, e) ELSE normalQ
    /\ lowQ' = IF low /\ Len(lowQ) < QCap THEN Append(lowQ, e) ELSE lowQ

\* The queue the event is handed to is full: enqueue returns 0.
Refused(low) == Len(IF low THEN lowQ ELSE normalQ) >= QCap

(***************************************************************************)
(* The common tail of a hook once the event is filled in: a STALL event    *)
(* goes to dynsec_wait_event_timeout, whose stall_tbl_insert publishes it  *)
(* for delivery (spec 4.1 step 2, lossless for stalled events) and blocks  *)
(* the task; any other event is enqueued and the task goes on to `after`.  *)
(***************************************************************************)
Submit(t, flags, cls, low, after) ==
    LET e == NewEvent(t) IN
    /\ nseq[t] < MaxSeq
    /\ nseq' = [nseq EXCEPT ![t] = @ + 1]
    /\ IF "STALL" \in flags
         THEN /\ normalQ' = Append(normalQ, e)
              /\ pc' = [pc EXCEPT ![t] = "stalled"]
              /\ stallCls' = [stallCls EXCEPT ![t] = cls]
              /\ UNCHANGED <<lowQ, freedEv>>
         ELSE /\ Enqueue(e, low)
              /\ freedEv' = IF FreeRefused /\ Refused(low)
                               THEN [freedEv EXCEPT ![t] = @ + 1] ELSE freedEv
              /\ pc' = [pc EXCEPT ![t] = after]
              /\ UNCHANGED stallCls
    /\ UNCHANGED delivered

\* The file-system hooks that stall: report SELF or STALL, then submit.
StallableHook(t) ==
    /\ pc[t] = "run"
    /\ Submit(t, SelfOrStall(t), "fs", FALSE, "run")

ExecHook(t)    == StallableHook(t)   \* dynsec_bprm_set_creds
UnlinkHook(t)  == StallableHook(t)   \* dynsec_inode_unlink
RmdirHook(t)   == StallableHook(t)   \* dynsec_inode_rmdir
RenameHook(t)  == StallableHook(t)   \* dynsec_inode_rename
MkdirHook(t)   == StallableHook(t)   \* dynsec_inode_mkdir
CreateHook(t)  == StallableHook(t)   \* dynsec_inode_create
LinkHook(t)    == StallableHook(t)   \* dynsec_inode_link
SymlinkHook(t) == StallableHook(t)   \* dynsec_inode_symlink

(***************************************************************************)
(* dynsec_inode_setattr's filter: of ia_valid keep MODE, UID, GID and      *)
(* SIZE; drop a field whose new value equals the inode's; drop SIZE unless *)
(* it truncates a non-empty file to 0.  A request is the fields it sets,   *)
(* the ones among mode/uid/gid equal to the inode's, and the two sizes.    *)
(***************************************************************************)
AttrFields == {"MODE", "UID", "GID", "SIZE"}
AttrReqs == [valid : SUBSET AttrFields, same : SUBSET {"MODE", "UID", "GID"},
             size : 0..1, isize : 0..1]

\* Mutant: SIZE is kept whenever the new size differs from the inode's.
SetattrMaskAnySize(a) ==
    (a.valid \ a.same) \ (IF a.size # a.isize THEN {} ELSE {"SIZE"})

SetattrMask(a) ==
    LET sizeDropped == a.size # 0 \/ a.size = a.isize
    IN  (a.valid \ a.same) \ (IF sizeDropped THEN {"SIZE"} ELSE {})

\* Spec 4.6's SETATTR row: mode, uid or gid changes, or a non-empty file is
\* truncated to 0.
SpecSetattrReported(a) ==
    \/ (a.valid \cap {"MODE", "UID", "GID"}) \ a.same # {}
    \/ "SIZE" \in a.valid /\ a.size = 0 /\ a.isize # 0

\* The event's class records whether the spec calls the request a change.
SetattrHook(t) ==
    \E a \in AttrReqs :
        /\ SetattrMask(a) # {}
        /\ pc[t] = "run"
        /\ Submit(t, SelfOrStall(t),
                  IF SpecSetattrReported(a) THEN "fs" ELSE "setattr_nochange",
                  FALSE, "run")

(***************************************************************************)
(* dynsec_file_open: start from AUDIT, clear STALL for FMODE_STREAM and    *)
(* for a no-notify open without write access, then, for a regular file,   *)
(* assign report_flags = STALL; the agent's own opens get SELF and lose   *)
(* STALL.  Non-regular files end the hook.                                 *)
(***************************************************************************)
\* Mutant: the agent's own opens get SELF but keep STALL.
OpenFlagsNoSelfClear(t, stream, nonotifyRO) ==
    IF t \in Agent THEN {"STALL", "SELF"} ELSE {"STALL"}

OpenFlags(t, stream, nonotifyRO) ==
    LET f0 == {"AUDIT"}
        f1 == IF stream THEN f0 \ {"STALL"} ELSE f0
        f2 == IF nonotifyRO THEN f1 \ {"STALL"} ELSE f1
        f3 == {"STALL"}
    IN  IF t \in Agent THEN (f3 \cup {"SELF"}) \ {"STALL"} ELSE f3

OpenHook(t) ==
    \E stream, nonotifyRO \in BOOLEAN :
        /\ pc[t] = "run"
        /\ Submit(t, OpenFlags(t, stream, nonotifyRO),
                  IF stream THEN "open_stream"
                  ELSE IF nonotifyRO THEN "open_nonotify_ro" ELSE "open",
                  FALSE, "run")

\* The hooks that only notify, on the normal queue.
NotifyHook(t) ==
    /\ pc[t] = "run"
    /\ Submit(t, AuditOnly(t), "notify", FALSE, "run")

CloseHook(t)   == NotifyHook(t)   \* dynsec_file_free_security
TracemeHook(t) == NotifyHook(t)   \* dynsec_ptrace_traceme
PtraceHook(t)  == NotifyHook(t)   \* dynsec_ptrace_access_check
KillHook(t)    == NotifyHook(t)   \* dynsec_task_kill
ForkHook(t)    == NotifyHook(t)   \* dynsec_sched_process_fork_tp

\* dynsec_wake_up_new_task: a CLONE event on the low-priority queue.
KprobeCloneHook(t) ==
    /\ pc[t] = "run"
    /\ Submit(t, AuditOnly(t), "notify", TRUE, "run")

(***************************************************************************)
(* dynsec_mmap_file for a PROT_EXEC mapping.  During an exec or for an     *)
(* FMODE_EXEC file: STALL when mmap_stall_on_exec and MAP_EXECUTABLE,      *)
(* else STALL when mmap_stall_on_ldso; normal priority.  Otherwise STALL   *)
(* when mmap_stall_misc, else the hook ends unless mmap_report_misc; low   *)
(* priority.  The agent never stalls on its own mappings.                  *)
(***************************************************************************)
MmapFlags(t, execve, mapExec) ==
    LET f == IF execve
               THEN IF (MmapStallOnExec /\ mapExec) \/ MmapStallOnLdso
                      THEN {"AUDIT", "STALL"} ELSE {"AUDIT"}
               ELSE IF MmapStallMisc THEN {"AUDIT", "STALL"} ELSE {"AUDIT"}
    IN  IF t \in Agent THEN (f \cup {"SELF"}) \ {"STALL"} ELSE f

MmapHook(t) ==
    \E execve, mapExec \in BOOLEAN :
        /\ pc[t] = "run"
        /\ execve \/ MmapStallMisc \/ MmapReportMisc
        /\ Submit(t, MmapFlags(t, execve, mapExec),
                  IF ~execve THEN "misc_map"
                  ELSE IF mapExec THEN "exec_map" ELSE "ldso_map",
                  ~execve, "run")

(***************************************************************************)
(* __dynsec_task_exit: the process exit tracepoint sends EXIT on the low-  *)
(* priority queue; the free hook and tracepoint send TASK_FREE on the      *)
(* normal queue.  When the table is disabled no event is sent, but the     *)
(* task still exits or is freed.                                           *)
(***************************************************************************)
ExitTp(t) ==
    /\ pc[t] = "run"
    /\ \/ Submit(t, {"AUDIT"}, "exit", TRUE, "exited")
       \/ /\ pc' = [pc EXCEPT ![t] = "exited"]
          /\ UNCHANGED <<nseq, normalQ, lowQ, delivered, stallCls, freedEv>>

TaskFree(t) ==
    /\ pc[t] = "exited"
    /\ \/ Submit(t, {"AUDIT"}, "task_free", FALSE, "freed")
       \/ /\ pc' = [pc EXCEPT ![t] = "freed"]
          /\ UNCHANGED <<nseq, normalQ, lowQ, delivered, stallCls, freedEv>>

\* The stall engine returns (verdict, timeout or abort) and the hook returns.
StallReturn(t) ==
    /\ pc[t] = "stalled"
    /\ pc' = [pc EXCEPT ![t] = "run"]
    /\ stallCls' = [stallCls EXCEPT ![t] = "none"]
    /\ UNCHANGED <<nseq, normalQ, lowQ, delivered, freedEv>>

\* The agent's read: the head of the normal queue, else of the low one.
Dequeue ==
    \/ /\ normalQ # <<>>
       /\ delivered' = Append(delivered, Head(normalQ))
       /\ normalQ' = Tail(normalQ)
       /\ UNCHANGED lowQ
    \/ /\ normalQ = <<>>
       /\ lowQ # <<>>
       /\ delivered' = Append(delivered, Head(lowQ))
       /\ lowQ' = Tail(lowQ)
       /\ UNCHANGED normalQ

\* Every task freed and every queue drained: nothing is left to happen.
Finished ==
    /\ \A t \in Tasks : pc[t] = "freed"
    /\ normalQ = <<>> /\ lowQ = <<>>
    /\ UNCHANGED vars

Next ==
    \/ \E t \in Tasks :
          \/ ExecHook(t) \/ UnlinkHook(t) \/ RmdirHook(t) \/ RenameHook(t)
          \/ SetattrHook(t) \/ MkdirHook(t) \/ CreateHook(t) \/ LinkHook(t)
          \/ SymlinkHook(t) \/ OpenHook(t) \/ CloseHook(t) \/ TracemeHook(t)
          \/ PtraceHook(t) \/ KillHook(t) \/ ForkHook(t) \/ KprobeCloneHook(t)
          \/ MmapHook(t) \/ ExitTp(t) \/ TaskFree(t) \/ StallReturn(t)
    \/ /\ Dequeue
       /\ UNCHANGED <<pc, nseq, stallCls, freedEv>>
    \/ Finished

Spec == Init /\ [][Next]_vars

-----------------------------------------------------------------------------
\* Type of every variable.
TypeOK ==
    /\ pc \in [Tasks -> {"run", "stalled", "exited", "freed"}]
    /\ nseq \in [Tasks -> 0..MaxSeq]
    /\ normalQ \in Seq(Events)
    /\ lowQ \in Seq(Events) /\ Len(lowQ) <= QCap
    /\ delivered \in Seq(Events)
    /\ stallCls \in [Tasks -> Classes \cup {"none"}]
    /\ freedEv \in [Tasks -> 0..MaxSeq]

(***************************************************************************)
(* The agent never blocks on its own operations: whatever hook a task of   *)
(* the connected tgid runs, report_flags loses STALL, so the task is never *)
(* waiting for a verdict only it could give (scenario 5, self-origin       *)
(* bypass).  The open and mmap hooks build report_flags in several steps,  *)
(* the last of which must clear STALL for the agent.                       *)
(***************************************************************************)
NoSelfStall ==
    \A t \in Agent : pc[t] # "stalled"

(***************************************************************************)
(* dynsec_inode_setattr's redundant-field filter keeps every request the   *)
(* spec (4.6) calls redundant from stalling the task: no task waits for a  *)
(* verdict on a setattr that changes neither mode, uid nor gid and does    *)
(* not truncate a non-empty file.                                          *)
(***************************************************************************)
NoStallOnRedundantSetattr ==
    \A t \in Tasks : stallCls[t] # "setattr_nochange"

(***************************************************************************)
(* Spec 5: events of one task appear in the delivery stream in the order   *)
(* the task submitted them.                                                *)
(***************************************************************************)
PerTaskOrder ==
    \A i, j \in 1..Len(delivered) :
        i < j /\ delivered[i].task = delivered[j].task
            => delivered[i].seq < delivered[j].seq

(***************************************************************************)
(* Spec 4.2: every event a task submitted is on a queue, delivered, or     *)
(* freed by its hook after the queue refused it; none is lost with its     *)
(* memory still allocated.                                                 *)
(***************************************************************************)
OfTask(s, t) == Len(SelectSeq(s, LAMBDA e : e.task = t))

EventsAccounted ==
    \A t \in Tasks :
        nseq[t] = OfTask(normalQ, t) + OfTask(lowQ, t) + OfTask(delivered, t)
                  + freedEv[t]

(***************************************************************************)
(* Spec 4.6: an open with a no-notify flag and no write access is not      *)
(* worth a stall; dynsec_file_open clears STALL for it.                    *)
(***************************************************************************)
NoNotifyOpenNotStalled ==
    \A t \in Tasks :
        stallCls[t] # "open_nonotify_ro"

=============================================================================
