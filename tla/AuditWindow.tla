---------------------------- MODULE AuditWindow ----------------------------
(***************************************************************************)
(* One observation round of internal/pipeline/pipeline.go: exercise(), the *)
(* helper that restarts the unit, runs the scenario, stops the unit and    *)
(* returns the AVC denials recorded in between, against the audit channel  *)
(* it observes them through.                                               *)
(*                                                                         *)
(* The channel has three stages.  The kernel queues a record (or drops it  *)
(* and counts it as lost, or says nothing because auditing is disabled),   *)
(* auditd takes records off the queue in order, and appends them to        *)
(* /var/log/audit/audit.log.  The backlog of `auditctl -s` only measures   *)
(* the first hop: a dequeued record may still be unwritten.  The log may   *)
(* be rotated (new inode) or truncated in place (same inode).              *)
(*                                                                         *)
(* Every remote command of exercise() is one step, so the channel, the     *)
(* unit and the administrator of the verifier move between any two of      *)
(* them.  A record is identified by its position in the stream; a size in  *)
(* bytes is a number of records.                                           *)
(***************************************************************************)
EXTENDS Integers, Sequences, FiniteSets

CONSTANTS
  StartProbes,     (* polls for the start sentinel (10 in the code)          *)
  DrainProbes,     (* polls for an empty backlog (5 in the code)             *)
  EndProbes,       (* polls for the end sentinel (10 in the code)            *)
  MaxRounds,       (* bound: calls of exercise() against one persistent log  *)
  MaxDenials,      (* bound: denials one process records                     *)
  MaxLost,         (* bound: records the kernel drops                        *)
  MaxDisruptions,  (* bound: rotations, truncations, toggles, foreign records *)
  InPlaceTruncation (* whether log maintenance may truncate the file in place  *)

ASSUME ProbesAssumption ==
  /\ StartProbes \in Nat \ {0}
  /\ DrainProbes \in Nat \ {0}
  /\ EndProbes \in Nat \ {0}

ASSUME BoundsAssumption ==
  /\ MaxRounds \in Nat
  /\ MaxDenials \in Nat
  /\ MaxLost \in Nat
  /\ MaxDisruptions \in Nat
  /\ InPlaceTruncation \in BOOLEAN

VARIABLES
  \* the verifier
  rec,          (* every record the kernel queued, in order                  *)
  handed,       (* how many of them auditd has dequeued                      *)
  flushed,      (* how many of them auditd has written                       *)
  base,         (* how many written records precede the current file content *)
  inode,        (* inode of the current file                                 *)
  lost,         (* kernel counter of dropped records                         *)
  enabled,      (* audit_enabled # 0                                         *)
  unit,         (* the exercised systemd unit                                *)
  disruptions,  (* how much of MaxDisruptions is used                        *)
  \* exercise()
  pc, round, probes, before, offset, startInode, lost0, exOK, window,
  result, outcome,
  \* history: what exercise() cannot see
  startPos,     (* records written when the offset was taken                 *)
  established,  (* the start barrier was seen                                *)
  unseen,       (* a denial of this round never entered the stream           *)
  swapped,      (* the policy was reloaded while the unit ran                *)
  truncated,    (* the file was truncated after the offset was taken         *)
  failedBefore  (* some earlier round ended in an error                      *)

channelVars == <<rec, handed, flushed, base, inode, lost, enabled>>
localVars   == <<probes, before, offset, startInode, lost0, exOK, window, result>>
historyVars == <<startPos, established, unseen, swapped, truncated, failedBefore>>
vars == <<channelVars, unit, disruptions, pc, round, localVars, outcome, historyVars>>

Kinds == {"load", "start", "avc", "target", "refused", "end", "config"}
Record(k, t) == [kind |-> k, tag |-> t]
Foreign == 0

Labels == {"idle", "countStart", "emitStart", "waitStart", "statPre",
           "statusPre", "restart", "starting", "exercise", "recapture", "stop",
           "checkStopped", "drain", "emitEnd", "waitEnd", "statPost",
           "readSlice", "statRead", "statusPost", "parse"}

Size == flushed - base

\* Positions of the denials the process of this round has put in the stream.
OwnDenials == {i \in DOMAIN rec : rec[i] = Record("avc", round)}
\* Positions of other domains' denials against the app's types.
TargetDenials == {i \in DOMAIN rec : rec[i].kind = "target"}
\* Positions of this round's end sentinel: the nonce makes it unique to a round.
Sentinels == {i \in DOMAIN rec : rec[i] = Record("end", round)}
\* The start sentinel's text is constant per target: grep counts every round's.
StartCount == Cardinality({i \in (base + 1)..flushed : rec[i].kind = "start"})
StartWritten == \E i \in 1..startPos : rec[i] = Record("start", round)

-----------------------------------------------------------------------------
(* Ways a record is produced. *)

Queue(k, t) == rec' = Append(rec, Record(k, t)) /\ UNCHANGED lost
Drop        == lost < MaxLost /\ lost' = lost + 1 /\ UNCHANGED rec

\* The kernel is asked for a record: queued, dropped, or suppressed.
Emit(k, t) ==
  \/ enabled /\ Queue(k, t)
  \/ enabled /\ Drop
  \/ ~enabled /\ UNCHANGED <<rec, lost>>

Disrupt == disruptions < MaxDisruptions /\ disruptions' = disruptions + 1

Init ==
  /\ rec = <<>> /\ handed = 0 /\ flushed = 0 /\ base = 0 /\ inode = 0
  /\ lost = 0 /\ enabled = TRUE /\ unit = "stopped" /\ disruptions = 0
  /\ pc = "idle" /\ round = 0 /\ probes = 0 /\ before = 0 /\ offset = 0
  /\ startInode = 0 /\ lost0 = 0 /\ exOK = FALSE /\ window = {} /\ result = {}
  /\ outcome = "none" /\ startPos = 0 /\ established = FALSE
  /\ unseen = FALSE /\ swapped = FALSE /\ truncated = FALSE
  /\ failedBefore = FALSE

-----------------------------------------------------------------------------
(* exercise(), one remote command per step. *)

Goto(l) == pc' = l /\ UNCHANGED outcome
Return(o) == pc' = "idle" /\ outcome' = o
ToolFrame == UNCHANGED <<handed, flushed, base, inode, enabled, disruptions>>

\* The caller loads the module and edits the permissive list, then calls us.
BeginRound ==
  /\ pc = "idle" /\ unit = "stopped" /\ round < MaxRounds
  /\ Emit("load", round + 1)
  /\ round' = round + 1
  /\ pc' = "countStart" /\ outcome' = "none"
  /\ failedBefore' = (failedBefore \/ outcome \in {"failed", "reloaded"})
  /\ established' = FALSE /\ unseen' = FALSE /\ swapped' = FALSE
  /\ truncated' = FALSE /\ window' = {} /\ result' = {} /\ exOK' = FALSE
  /\ UNCHANGED <<unit, probes, before, offset, startInode, lost0, startPos>>
  /\ ToolFrame

\* grep -Fc of the start sentinel; -1 when the command or its output is unusable.
CountStart ==
  /\ pc = "countStart"
  /\ before' \in {StartCount, -1}
  /\ Goto("emitStart")
  /\ UNCHANGED <<rec, lost, unit, round, probes, offset, startInode, lost0,
                 exOK, window, result, historyVars>>
  /\ ToolFrame

EmitStart ==
  /\ pc = "emitStart"
  /\ \/ Emit("start", round) /\ Goto(IF before >= 0 THEN "waitStart" ELSE "statPre")
     \/ UNCHANGED <<rec, lost>> /\ Goto("statPre")
  /\ probes' = 0
  /\ UNCHANGED <<unit, round, before, offset, startInode, lost0, exOK, window,
                 result, historyVars>>
  /\ ToolFrame

\* Best effort: after the last probe the round goes on without the barrier.
\* Mutant: any start sentinel will do, also one of an earlier round.
WaitStartPresence ==
  /\ pc = "waitStart"
  /\ \/ StartCount > 0 /\ established' = TRUE /\ Goto("statPre") /\ UNCHANGED probes
     \/ /\ probes' = probes + 1
        /\ Goto(IF probes' < StartProbes THEN "waitStart" ELSE "statPre")
        /\ UNCHANGED established
  /\ UNCHANGED <<rec, lost, unit, round, before, offset, startInode, lost0, exOK,
                 window, result, startPos, unseen, swapped, truncated, failedBefore>>
  /\ ToolFrame

WaitStart ==
  /\ pc = "waitStart"
  /\ \/ /\ StartCount > before
        /\ established' = TRUE
        /\ Goto("statPre") /\ UNCHANGED probes
     \/ /\ probes' = probes + 1
        /\ Goto(IF probes' < StartProbes THEN "waitStart" ELSE "statPre")
        /\ UNCHANGED established
  /\ UNCHANGED <<rec, lost, unit, round, before, offset, startInode, lost0, exOK,
                 window, result, startPos, unseen, swapped, truncated, failedBefore>>
  /\ ToolFrame

\* Mutant: the offset points at the last byte instead of past it.
StatPreOffByOne ==
  /\ pc = "statPre"
  /\ offset' = Size - 1 /\ startInode' = inode /\ startPos' = flushed
  /\ truncated' = FALSE /\ Goto("statusPre")
  /\ UNCHANGED <<rec, lost, unit, round, probes, before, lost0, exOK, window,
                 result, established, unseen, swapped, failedBefore>>
  /\ ToolFrame

StatPre ==
  /\ pc = "statPre"
  /\ \/ /\ offset' = Size /\ startInode' = inode /\ startPos' = flushed
        /\ truncated' = FALSE /\ Goto("statusPre")
     \/ Return("failed") /\ UNCHANGED <<offset, startInode, startPos, truncated>>
  /\ UNCHANGED <<rec, lost, unit, round, probes, before, lost0, exOK, window,
                 result, established, unseen, swapped, failedBefore>>
  /\ ToolFrame

StatusPre ==
  /\ pc = "statusPre"
  /\ \/ enabled /\ lost0' = lost /\ Goto("restart")
     \/ Return("failed") /\ UNCHANGED lost0
  /\ UNCHANGED <<rec, lost, unit, round, probes, before, offset, startInode, exOK,
                 window, result, historyVars>>
  /\ ToolFrame

\* systemctl reset-failed (its own failure returns), then restart is issued.
Restart ==
  /\ pc = "restart"
  /\ \/ unit' = "running" /\ Goto("starting")
     \/ Return("failed") /\ UNCHANGED unit
  /\ UNCHANGED <<rec, lost, round, localVars, historyVars>>
  /\ ToolFrame

\* restart answers: on failure the scenario is skipped, the unit is stopped.
RestartAnswer ==
  /\ pc = "starting"
  /\ exOK' \in BOOLEAN
  /\ Goto(IF exOK' THEN "exercise" ELSE "stop")
  /\ UNCHANGED <<rec, lost, unit, round, probes, before, offset, startInode, lost0,
                 window, result, historyVars>>
  /\ ToolFrame

\* captureRunInfo and the scenario; its exit status is the answer.
RunExercise ==
  /\ pc = "exercise"
  /\ exOK' \in BOOLEAN
  /\ Goto(IF exOK' THEN "recapture" ELSE "stop")
  /\ UNCHANGED <<rec, lost, unit, round, probes, before, offset, startInode, lost0,
                 window, result, historyVars>>
  /\ ToolFrame

\* The process must still be the captured one; otherwise stop it (best effort)
\* and fail.
Recapture ==
  /\ pc = "recapture"
  /\ \/ Goto("stop") /\ UNCHANGED unit
     \/ Return("failed") /\ unit' \in {"stopped", unit}
  /\ UNCHANGED <<rec, lost, round, localVars, historyVars>>
  /\ ToolFrame

Stop ==
  /\ pc = "stop"
  /\ unit' \in {"stopped", unit}
  /\ Goto("checkStopped")
  /\ UNCHANGED <<rec, lost, round, localVars, historyVars>>
  /\ ToolFrame

\* Mutant: any answer of is-active counts as stopped.
CheckStoppedAnyState ==
  /\ pc = "checkStopped" /\ Goto("drain")
  /\ probes' = 0
  /\ UNCHANGED <<rec, lost, unit, round, before, offset, startInode, lost0, exOK,
                 window, result, historyVars>>
  /\ ToolFrame

\* Only an explicit inactive/failed answer counts as stopped.
CheckStopped ==
  /\ pc = "checkStopped"
  /\ \/ unit = "stopped" /\ Goto("drain")
     \/ Return("failed")
  /\ probes' = 0
  /\ UNCHANGED <<rec, lost, unit, round, before, offset, startInode, lost0, exOK,
                 window, result, historyVars>>
  /\ ToolFrame

Drain ==
  /\ pc = "drain"
  /\ \/ handed = Len(rec) /\ Goto("emitEnd") /\ UNCHANGED probes
     \/ /\ probes' = probes + 1
        /\ IF probes' < DrainProbes THEN Goto("drain") ELSE Return("failed")
  /\ UNCHANGED <<rec, lost, unit, round, before, offset, startInode, lost0, exOK,
                 window, result, historyVars>>
  /\ ToolFrame

EmitEnd ==
  /\ pc = "emitEnd"
  /\ \/ Emit("end", round) /\ Goto("waitEnd")
     \/ Return("failed") /\ UNCHANGED <<rec, lost>>
  /\ probes' = 0
  /\ UNCHANGED <<unit, round, before, offset, startInode, lost0, exOK, window,
                 result, historyVars>>
  /\ ToolFrame

\* Mutant: the end sentinel is awaited without counting the probes.
WaitEndForever ==
  /\ pc = "waitEnd"
  /\ \/ /\ \E i \in (base + 1)..flushed : rec[i] = Record("end", round)
        /\ Goto("statPost")
     \/ Goto("waitEnd")
  /\ UNCHANGED <<rec, lost, unit, round, localVars, historyVars>>
  /\ ToolFrame

WaitEnd ==
  /\ pc = "waitEnd"
  /\ \/ /\ \E i \in (base + 1)..flushed : rec[i] = Record("end", round)
        /\ Goto("statPost") /\ UNCHANGED probes
     \/ /\ probes' = probes + 1
        /\ IF probes' < EndProbes THEN Goto("waitEnd") ELSE Return("failed")
  /\ UNCHANGED <<rec, lost, unit, round, before, offset, startInode, lost0, exOK,
                 window, result, historyVars>>
  /\ ToolFrame

\* Rotation gives a new inode, truncation a size below the offset.
StatPost ==
  /\ pc = "statPost"
  /\ \/ inode = startInode /\ Size >= offset /\ Goto("readSlice")
     \/ Return("failed")
  /\ UNCHANGED <<rec, lost, unit, round, localVars, historyVars>>
  /\ ToolFrame

\* Mutant: the whole file is read, not the part past the offset.
ReadSliceWholeFile ==
  /\ pc = "readSlice"
  /\ \E e \in Sentinels :
       /\ Sentinels \cap ((base + 1)..flushed) = {e}
       /\ window' = (base + 1)..(e - 1)
       /\ Goto("statRead")
  /\ UNCHANGED <<rec, lost, unit, round, probes, before, offset, startInode, lost0,
                 exOK, result, historyVars>>
  /\ ToolFrame

\* tail from the offset of whatever file is there now; the sentinel must occur
\* exactly once in the slice, which is cut there.
ReadSlice ==
  /\ pc = "readSlice"
  /\ \/ \E e \in Sentinels :
          /\ Sentinels \cap ((base + offset + 1)..flushed) = {e}
          /\ window' = (base + offset + 1)..(e - 1)
          /\ Goto("statRead")
     \/ Return("failed") /\ UNCHANGED window
  /\ UNCHANGED <<rec, lost, unit, round, probes, before, offset, startInode, lost0,
                 exOK, result, historyVars>>
  /\ ToolFrame

StatRead ==
  /\ pc = "statRead"
  /\ \/ inode = startInode /\ Goto("statusPost")
     \/ Return("failed")
  /\ UNCHANGED <<rec, lost, unit, round, localVars, historyVars>>
  /\ ToolFrame

\* Mutant: the kernel's loss counter is not compared.
StatusPostIgnoresLoss ==
  /\ pc = "statusPost"
  /\ enabled /\ Goto("parse")
  /\ UNCHANGED <<rec, lost, unit, round, localVars, historyVars>>
  /\ ToolFrame

StatusPost ==
  /\ pc = "statusPost"
  /\ \/ enabled /\ lost <= lost0 /\ Goto("parse")
     \/ Return("failed")
  /\ UNCHANGED <<rec, lost, unit, round, localVars, historyVars>>
  /\ ToolFrame

\* The unit's denials, and anybody's against the app's own types.
Reported(r) == r.kind = "target" \/ (r.kind = "avc" /\ r.tag # Foreign)

InWindow(k) == \E i \in window : rec[i].kind = k

\* Mutant: MAC_POLICY_LOAD records in the window are not looked for.
ParseIgnoresReload ==
  /\ pc = "parse"
  /\ \/ /\ InWindow("config") \/ InWindow("refused")
        /\ Return("failed") /\ UNCHANGED result
     \/ /\ ~InWindow("config") /\ ~InWindow("refused")
        /\ result' = {i \in window : Reported(rec[i])}
        /\ Return("ok")
  /\ UNCHANGED <<rec, lost, unit, round, probes, before, offset, startInode, lost0,
                 exOK, window, historyVars>>
  /\ ToolFrame

\* The four checks on the slice in the code's order, then what is reported, whichever
\* round it comes from.
Parse ==
  /\ pc = "parse"
  /\ \/ InWindow("config") /\ Return("failed") /\ UNCHANGED result
     \/ /\ ~InWindow("config") /\ InWindow("load")
        /\ Return("reloaded") /\ UNCHANGED result
     \/ /\ ~InWindow("config") /\ ~InWindow("load") /\ InWindow("refused")
        /\ Return("failed") /\ UNCHANGED result
     \/ /\ ~InWindow("config") /\ ~InWindow("load") /\ ~InWindow("refused")
        /\ result' = {i \in window : Reported(rec[i])}
        /\ Return("ok")
  /\ UNCHANGED <<rec, lost, unit, round, probes, before, offset, startInode, lost0,
                 exOK, window, historyVars>>
  /\ ToolFrame

Tool ==
  \/ BeginRound \/ CountStart \/ EmitStart \/ WaitStart \/ StatPre \/ StatusPre
  \/ Restart \/ RestartAnswer \/ RunExercise \/ Recapture \/ Stop \/ CheckStopped
  \/ Drain \/ EmitEnd \/ WaitEnd \/ StatPost \/ ReadSlice \/ StatRead
  \/ StatusPost \/ Parse

-----------------------------------------------------------------------------
(* The verifier: unit, kernel, auditd, administrator. *)

ToolUnchanged == UNCHANGED <<pc, round, localVars, outcome>>

\* The unit is denied something: recorded, dropped or suppressed.
UnitDenial ==
  /\ unit = "running"
  /\ Cardinality(OwnDenials) < MaxDenials
  /\ Emit("avc", round)
  /\ unseen' = (unseen \/ rec' = rec)
  /\ UNCHANGED <<handed, flushed, base, inode, enabled, unit, disruptions,
                 startPos, established, swapped, truncated, failedBefore>>
  /\ ToolUnchanged

\* SELINUX_ERR: the kernel refuses the transition into the unit's domain.
TransitionRefused ==
  /\ pc = "starting" /\ Disrupt
  /\ Emit("refused", round)
  /\ UNCHANGED <<handed, flushed, base, inode, enabled, unit, historyVars>>
  /\ ToolUnchanged

\* Another domain's denial, against the app's types (init_t refused to execute an
\* entrypoint) or not, or a second copy of the sentinel (an execve audit rule
\* records the command line that carries it).
ForeignRecord ==
  /\ Disrupt
  /\ \/ Emit("avc", Foreign) \/ Emit("target", Foreign)
     \/ pc \in {"waitEnd", "statPost"} /\ Emit("end", round)
  /\ UNCHANGED <<handed, flushed, base, inode, enabled, unit, historyVars>>
  /\ ToolUnchanged

\* A policy load by anyone else: MAC_POLICY_LOAD.
ForeignLoad ==
  /\ Disrupt
  /\ Emit("load", Foreign)
  /\ swapped' = (swapped \/ unit = "running")
  /\ UNCHANGED <<handed, flushed, base, inode, enabled, unit, startPos,
                 established, unseen, truncated, failedBefore>>
  /\ ToolUnchanged

\* auditctl -e 0 / -e 1: the kernel logs every transition of audit_enabled.
ToggleAudit ==
  /\ Disrupt
  /\ enabled' = ~enabled
  /\ Queue("config", Foreign) \/ Drop
  /\ UNCHANGED <<handed, flushed, base, inode, unit, historyVars>>
  /\ ToolUnchanged

HandOver ==
  /\ handed < Len(rec)
  /\ handed' = handed + 1
  /\ UNCHANGED <<rec, flushed, base, inode, lost, enabled, unit, disruptions, historyVars>>
  /\ ToolUnchanged

Flush ==
  /\ flushed < handed
  /\ flushed' = flushed + 1
  /\ UNCHANGED <<rec, handed, base, inode, lost, enabled, unit, disruptions, historyVars>>
  /\ ToolUnchanged

\* auditd rotates: an empty file with a new inode.
Rotate ==
  /\ Disrupt
  /\ base' = flushed /\ inode' = inode + 1
  /\ UNCHANGED <<rec, handed, flushed, lost, enabled, unit, historyVars>>
  /\ ToolUnchanged

\* Truncation in place (logrotate copytruncate): the same inode, emptied.
\* It matters from the moment the offset is taken to the moment it is used.
Truncate ==
  /\ InPlaceTruncation /\ Disrupt
  /\ base < flushed
  /\ base' = flushed
  /\ truncated' = (truncated \/ pc \notin {"idle", "statRead", "statusPost", "parse"})
  /\ UNCHANGED <<rec, handed, flushed, inode, lost, enabled, unit, startPos,
                 established, unseen, swapped, failedBefore>>
  /\ ToolUnchanged

\* The caller's failure cleanup kills a unit that exercise() left running.
CleanupUnit ==
  /\ pc = "idle" /\ unit = "running"
  /\ unit' = "stopped"
  /\ UNCHANGED <<channelVars, disruptions, historyVars>>
  /\ ToolUnchanged

Verifier ==
  \/ UnitDenial \/ TransitionRefused \/ ForeignRecord \/ ForeignLoad
  \/ ToggleAudit \/ HandOver \/ Flush \/ Rotate \/ Truncate \/ CleanupUnit

Next == Tool \/ Verifier

Spec == Init /\ [][Next]_vars

\* Every remote command returns: the runner bounds it with a timeout, provided no
\* descendant of the command keeps its output open for ever (CappedRunner).
FairSpec == Spec /\ WF_vars(Tool)

-----------------------------------------------------------------------------
(* Properties. *)

TypeOK ==
  /\ rec \in Seq([kind : Kinds, tag : Nat])
  /\ handed \in Nat /\ flushed \in Nat /\ base \in Nat /\ inode \in Nat
  /\ lost \in Nat /\ enabled \in BOOLEAN /\ unit \in {"stopped", "running"}
  /\ disruptions \in Nat
  /\ pc \in Labels /\ round \in Nat /\ probes \in Nat
  /\ before \in Int /\ offset \in Nat /\ startInode \in Nat /\ lost0 \in Nat
  /\ exOK \in BOOLEAN /\ window \subseteq Nat /\ result \subseteq Nat
  /\ outcome \in {"none", "ok", "failed", "reloaded"}
  /\ startPos \in Nat
  /\ established \in BOOLEAN /\ unseen \in BOOLEAN /\ swapped \in BOOLEAN
  /\ truncated \in BOOLEAN /\ failedBefore \in BOOLEAN

\* A round that returns a denial set missed nothing: every denial the unit
\* produced between restart and stop was recorded and is in the set (the
\* "false zero-denial" every check of exercise() guards against).
CompleteWindow ==
  outcome = "ok" /\ ~truncated => ~unseen /\ OwnDenials \subseteq result

\* A round that returns a denial set returns no denial of the unit from an earlier
\* round, and of other domains none but those against the app's types, unless an
\* earlier round was abandoned in error and the start barrier of this one was not in
\* the log when the offset was taken.
FreshWindow ==
  outcome = "ok" /\ (~failedBefore \/ StartWritten) =>
    result \subseteq OwnDenials \cup TargetDenials

\* A denial set is only returned for the policy that was loaded at the restart:
\* no reload happened while the unit ran, recorded or not.
SteadyPolicy == outcome = "ok" /\ ~truncated => ~swapped

\* Behind an established start barrier the caller's own policy load is never
\* taken for a reload: somebody else did load a policy after the offset.
NoSelfInflictedReload ==
  outcome = "reloaded" /\ StartWritten =>
    \E i \in DOMAIN rec : i > startPos /\ rec[i] = Record("load", Foreign)

\* In a run none of whose rounds failed, a start barrier seen to be crossed
\* really puts this round's own setup before the offset.
StartBarrierOrders ==
  pc = "statPre" /\ established /\ ~failedBefore =>
    \E i \in 1..flushed : rec[i] = Record("start", round)

\* Source comment: "Fail closed on log rotation/truncation".
TruncationFailsClosed == outcome = "ok" => ~truncated

\* Whatever the channel does, exercise() returns.
ExerciseReturns == pc # "idle" ~> pc = "idle"

\* exercise() implements the window it promises: it either fails or returns
\* exactly what the unit produced.
Observation == INSTANCE ObservationWindow WITH
  phase    <- IF pc = "idle" THEN "idle" ELSE "busy",
  produced <- {i \in OwnDenials : rec[i].tag # Foreign},
  earlier  <- {i \in DOMAIN rec : rec[i].kind = "avc" /\ rec[i].tag \in 1..(round - 1)},
  others   <- TargetDenials,
  missed   <- unseen,
  clean    <- ~(failedBefore \/ outcome \in {"failed", "reloaded"}),
  verdict  <- IF outcome = "reloaded" THEN "failed" ELSE outcome,
  answer   <- result

ImplementsObservation == Observation!Spec
=============================================================================
