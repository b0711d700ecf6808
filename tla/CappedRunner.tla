---------------------------- MODULE CappedRunner ----------------------------
(***************************************************************************)
(* vm.Runner.Run (internal/vm): one script in the verifier, its two output *)
(* streams copied into a bounded buffer by a goroutine of os/exec while a  *)
(* deadline runs.  Every step of the pipeline, the reading of the audit    *)
(* log included, goes through it.  Lima.Run and SSH.Run differ only in the *)
(* command line.                                                           *)
(*                                                                         *)
(* The child, the pipe and the descendants of the child that inherit the   *)
(* pipe are external: the model lets them do anything a process may.       *)
(* Output is counted in units (one unit is one record of the audit log).   *)
(***************************************************************************)
EXTENDS Naturals

CONSTANTS
  Limit,    \* MaxOutputBytes
  PipeCap   \* what the pipe holds before a writer blocks

ASSUME LimitAssumption == Limit \in Nat
ASSUME PipeAssumption  == PipeCap \in Nat \ {0}

VARIABLES
  runner,   \* "idle", "running", "waited" (cmd.Run is back) or "returned"
  result,   \* what Run returned: "none" (not yet), "ok" or one of its errors
  child,    \* "none", "running", "exited" (status 0), "failed" or "killed"
  held,     \* a descendant of the child has the write end of the pipe open
  size,     \* what the script prints when nothing stops it
  written,  \* what the child has put into the pipe
  read,     \* what the copy goroutine has taken out of it
  copier,   \* "none", "copying", "done" (end of file) or "failed" (Write refused)
  buf,      \* what cappedWriter keeps
  over,     \* cappedWriter.over
  expired   \* the deadline of the context has passed

childVars  == <<child, held, size, written>>
writerVars == <<read, copier, buf, over>>
runnerVars == <<runner, result, child, held, size, written, read, copier, buf, over, expired>>

RunnerInit ==
  /\ runner = "idle" /\ result = "none"
  /\ child = "none" /\ held = FALSE /\ size = 0 /\ written = 0
  /\ read = 0 /\ copier = "none" /\ buf = 0 /\ over = FALSE
  /\ expired = FALSE

(* exec.CommandContext and cmd.Start: the script starts, or the command cannot be run. *)
Start(n) ==
  /\ runner = "idle"
  /\ size' = n
  /\ \/ /\ runner' = "running" /\ child' = "running" /\ copier' = "copying"
        /\ UNCHANGED result
     \/ /\ runner' = "returned" /\ result' = "failed"
        /\ UNCHANGED <<child, copier>>
  /\ UNCHANGED <<held, written, read, buf, over, expired>>

-----------------------------------------------------------------------------
(* The child and its descendants *)

ChildWrite ==
  /\ child = "running"
  /\ written < size
  /\ written - read < PipeCap
  /\ written' = written + 1
  /\ UNCHANGED <<runner, result, child, held, size, expired>> /\ UNCHANGED writerVars

(* The child leaves a descendant behind that shares its output. *)
ChildFork ==
  /\ child = "running" /\ ~held
  /\ held' = TRUE
  /\ UNCHANGED <<runner, result, child, size, written, expired>> /\ UNCHANGED writerVars

(* Status 0 when the script has printed all of it; a failure at any time. *)
ChildExit ==
  /\ child = "running"
  /\ child' \in {"failed"} \cup (IF written = size THEN {"exited"} ELSE {})
  /\ UNCHANGED <<runner, result, held, size, written, expired>> /\ UNCHANGED writerVars

LetGo ==
  /\ held /\ child # "running"
  /\ held' = FALSE
  /\ UNCHANGED <<runner, result, child, size, written, expired>> /\ UNCHANGED writerVars

(* Process.Kill on a process that has already exited does nothing. *)
Killed == IF child = "running" THEN "killed" ELSE child

-----------------------------------------------------------------------------
(* The copy goroutine and cappedWriter.Write of n units *)

\* Mutant: Write drops what does not fit and reports success.
CopyTruncating(n) ==
  /\ copier = "copying" /\ n <= written - read
  /\ read' = read + n
  /\ buf' = IF buf + n <= Limit THEN buf + n ELSE Limit
  /\ UNCHANGED <<runner, result, child, held, size, written, expired, over, copier>>

Copy(n) ==
  /\ copier = "copying"
  /\ n <= written - read
  /\ read' = read + n
  /\ over' = (over \/ buf + n > Limit)
  /\ \/ buf + n <= Limit /\ buf' = buf + n /\ UNCHANGED <<copier, child>>
     \/ buf + n > Limit /\ buf' = Limit /\ copier' = "failed" /\ child' = Killed
  /\ UNCHANGED <<runner, result, held, size, written, expired>>

CopyEOF ==
  /\ copier = "copying"
  /\ child # "running" /\ ~held
  /\ read = written
  /\ copier' = "done"
  /\ UNCHANGED <<runner, result, read, buf, over, expired>> /\ UNCHANGED childVars

-----------------------------------------------------------------------------
(* The context and the caller *)

\* Mutant: the deadline is noticed but nothing is killed.
DeadlineSpares ==
  /\ runner \in {"running", "waited"} /\ ~expired
  /\ expired' = TRUE
  /\ UNCHANGED <<runner, result>> /\ UNCHANGED childVars /\ UNCHANGED writerVars

Deadline ==
  /\ runner \in {"running", "waited"} /\ ~expired
  /\ expired' = TRUE
  /\ child' = Killed
  /\ UNCHANGED <<runner, result, held, size, written>> /\ UNCHANGED writerVars

(* cmd.Run returns when the child is gone and the goroutine has ended. *)
Wait ==
  /\ runner = "running"
  /\ child # "running" /\ copier # "copying"
  /\ runner' = "waited"
  /\ UNCHANGED <<result, expired>> /\ UNCHANGED childVars /\ UNCHANGED writerVars

(* The error of cmd.Run: that of the process, else that of the copy. *)
RunError == child # "exited" \/ copier = "failed"

Outcome ==
  CASE expired            -> "timeout"
    [] ~expired /\ over   -> "oversize"
    [] ~expired /\ ~over  -> IF RunError THEN "failed" ELSE "ok"

Return ==
  /\ runner = "waited"
  /\ result' = Outcome
  /\ runner' = "returned"
  /\ UNCHANGED expired /\ UNCHANGED childVars /\ UNCHANGED writerVars

RunnerNext ==
  \/ ChildWrite \/ ChildFork \/ ChildExit \/ LetGo
  \/ \E n \in 1 .. PipeCap : Copy(n)
  \/ CopyEOF \/ Deadline \/ Wait \/ Return

(* What goes on by itself.  The child owes nothing, it may hang for ever, and nor *)
(* does a descendant: no WaitDelay is set, so the output may stay open for ever.  *)
RunnerFairness ==
  /\ WF_runnerVars(\E n \in 1 .. PipeCap : Copy(n))
  /\ WF_runnerVars(CopyEOF)
  /\ WF_runnerVars(Deadline)
  /\ WF_runnerVars(Wait)
  /\ WF_runnerVars(Return)

RunnerTypeOK ==
  /\ runner \in {"idle", "running", "waited", "returned"}
  /\ result \in {"none", "ok", "timeout", "oversize", "failed"}
  /\ child \in {"none", "running", "exited", "failed", "killed"}
  /\ copier \in {"none", "copying", "done", "failed"}
  /\ held \in BOOLEAN /\ over \in BOOLEAN /\ expired \in BOOLEAN
  /\ size \in Nat /\ written \in Nat /\ read \in Nat /\ buf \in Nat
=============================================================================
