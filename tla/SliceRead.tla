----------------------------- MODULE SliceRead ------------------------------
(***************************************************************************)
(* From the kernel to the denials of one exercise: events write their      *)
(* records into the audit log, interleaved; `sudo tail` prints the slice   *)
(* through the capped runner; the parser correlates the records of what    *)
(* Run returned (pipeline.go, exercise).  That the slice is the right part *)
(* of the log is the subject of AuditWindow.                               *)
(***************************************************************************)
EXTENDS CappedRunner, AvcCorrelate, FiniteSets

CONSTANTS
  Events,   \* the audit events of the window
  Shapes    \* the records an event may have, in the order the kernel writes them

\* The records of an event are a sequence.
ASSUME ShapesAssumption == \A s \in Shapes : Len(s) \in Nat /\ DOMAIN s = 1 .. Len(s)

VARIABLES
  shape,    \* the records of each event
  log       \* the slice, as far as it is written

vars == <<shape, log, runnerVars>>

Init ==
  /\ shape \in [Events -> Shapes]
  /\ log = <<>>
  /\ RunnerInit

(* How many records of an event are in the log. *)
Logged(s, e) == Cardinality({i \in DOMAIN s : s[i].event = e})

Record(e, i) == [kind |-> shape[e][i].kind, event |-> e, ino |-> shape[e][i].ino,
                 name |-> shape[e][i].name, perms |-> shape[e][i].perms]

(* The kernel: the records of one event keep their order, those of two do not. *)
Emit(e) ==
  /\ runner = "idle"
  /\ Logged(log, e) < Len(shape[e])
  /\ log' = Append(log, Record(e, Logged(log, e) + 1))
  /\ UNCHANGED shape /\ UNCHANGED runnerVars

Emitted == \A e \in Events : Logged(log, e) = Len(shape[e])

(* r.Run("sudo tail -c +offset ...") *)
ReadSlice == Emitted /\ Start(Len(log)) /\ UNCHANGED <<shape, log>>

Transport == RunnerNext /\ UNCHANGED <<shape, log>>

Next == (\E e \in Events : Emit(e)) \/ ReadSlice \/ Transport

Spec == Init /\ [][Next]_vars

FairSpec == Spec /\ WF_vars(ReadSlice) /\ WF_vars(\E e \in Events : Emit(e)) /\ RunnerFairness

-----------------------------------------------------------------------------
(* What exercise parses: the text Run returned, when it returned no error. *)
Slice == SubSeq(log, 1, buf)

Parsed == result = "ok"

(* The records of one event as the kernel wrote them, nothing between them. *)
Alone(e) == [i \in DOMAIN shape[e] |-> Record(e, i)]

DenialsOfEvent(e) == {DenialAt(Alone(e), i) : i \in Avcs(Alone(e))}

TypeOK ==
  /\ RunnerTypeOK
  /\ shape \in [Events -> Shapes]
  /\ \A i \in DOMAIN log : log[i].event \in Events

(* What a successful read is parsed to is what the events say, each taken by    *)
(* itself and whole: no record is lost to the limit, to the deadline or to a    *)
(* child that dies, and no event lends another a path, however the records      *)
(* interleave and although two events may use the same inode (vm.go:41,         *)
(* avc.go:67).                                                                  *)
DenialsComplete ==
  Parsed => Denials(Slice) = Merge(UNION {DenialsOfEvent(e) : e \in Events})

(* A path that the AVC does not carry comes from a record of its own event that *)
(* has its inode, or from the only one there is; "never guess among several"    *)
(* (avc.go:145): a wrong path would be a relabel of another file.               *)
NeverGuessed ==
  Parsed => \A i \in Avcs(Slice) :
              \/ Slice[i].name # <<>>
              \/ PathOf(Slice, i) = <<>>
              \/ \E j \in Named(Slice, Slice[i].event) :
                    /\ PathOf(Slice, i) = Resolve(Slice, Slice[i].event, Slice[j].name)
                    /\ \/ Slice[i].ino # NoIno /\ Slice[j].ino = Slice[i].ino
                       \/ Named(Slice, Slice[i].event) = {j}

(* Merging never moves a permission from one file to another: what a denial     *)
(* asks for was denied on its own path and inode (avc.go:205).                  *)
PermsStayWithFile ==
  Parsed => \A d \in Denials(Slice) : \A p \in d.perms :
              \E i \in Avcs(Slice) :
                 /\ p \in Slice[i].perms
                 /\ Slice[i].ino = d.ino /\ PathOf(Slice, i) = d.path

(* The child is gone, whatever it did, and a descendant holds the output. *)
OutputHeld == child # "running" /\ copier = "copying" /\ held

(* A script that hangs or prints without end is killed and Run comes back to    *)
(* its caller.  One thing alone keeps it: a descendant that outlives the script *)
(* and has its output open for ever, which neither the deadline nor the limit   *)
(* ends (vm.go:113, no WaitDelay).                                              *)
RunReturns == (runner = "running") ~> (runner = "returned" \/ []OutputHeld)
=============================================================================
