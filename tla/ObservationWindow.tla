------------------------- MODULE ObservationWindow -------------------------
(***************************************************************************)
(* What exercise() (internal/pipeline/pipeline.go) promises its caller: a  *)
(* round either fails or returns the set of denials the unit produced      *)
(* between its restart and its stop, whatever the audit channel did.       *)
(***************************************************************************)
VARIABLES
  phase,     (* "busy" while a round is in progress                        *)
  produced,  (* denials the unit produced in the current round             *)
  earlier,   (* denials of the rounds before                               *)
  others,    (* denials of other domains against the app's types           *)
  missed,    (* some denial of the current round left no record            *)
  clean,     (* no round has failed so far                                 *)
  verdict,   (* how the last round ended                                   *)
  answer     (* the denial set it returned                                 *)

vars == <<phase, produced, earlier, others, missed, clean, verdict, answer>>

Init ==
  /\ phase = "idle" /\ produced = {} /\ earlier = {} /\ others = {} /\ missed = FALSE
  /\ clean = TRUE /\ verdict = "none" /\ answer = {}

Begin ==
  /\ phase = "idle" /\ phase' = "busy"
  /\ earlier' = earlier \cup produced /\ produced' = {}
  /\ missed' = FALSE /\ verdict' = "none" /\ answer' = {}
  /\ UNCHANGED <<others, clean>>

\* The unit may outlive a failed round.
UnitUp == phase = "busy" \/ verdict = "failed"

\* One denial more, that was never produced before.
Produce ==
  /\ UnitUp
  /\ \E d \in produced' \ (produced \cup earlier) : produced' = produced \cup {d}
  /\ UNCHANGED <<phase, earlier, others, missed, clean, verdict, answer>>

Miss ==
  /\ UnitUp /\ missed' = TRUE
  /\ UNCHANGED <<phase, produced, earlier, others, clean, verdict, answer>>

\* Somebody else is denied something on the app's types, at any time.
Disturb ==
  /\ \E d \in others' \ others : others' = others \cup {d}
  /\ UNCHANGED <<phase, produced, earlier, missed, clean, verdict, answer>>

\* Of the unit's own denials an answer is exact; only after a failed round may it
\* carry old ones.
ReturnAnswer ==
  /\ phase = "busy" /\ ~missed
  /\ \E stale \in SUBSET earlier, foreign \in SUBSET others :
       /\ clean => stale = {}
       /\ answer' = produced \cup stale \cup foreign
  /\ phase' = "idle" /\ verdict' = "ok"
  /\ UNCHANGED <<produced, earlier, others, missed, clean>>

ReturnError ==
  /\ phase = "busy" /\ phase' = "idle"
  /\ verdict' = "failed" /\ clean' = FALSE
  /\ UNCHANGED <<produced, earlier, others, missed, answer>>

Next == Begin \/ Produce \/ Miss \/ Disturb \/ ReturnAnswer \/ ReturnError

Spec == Init /\ [][Next]_vars
=============================================================================
