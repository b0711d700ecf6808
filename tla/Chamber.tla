------------------------------ MODULE Chamber -------------------------------
(***************************************************************************)
(* What a verification run promises about the verifier it borrows: a run   *)
(* passes only on a verifier that was clean when it started and is clean   *)
(* when it ends, and a run that finds a leftover leaves it where it is.    *)
(***************************************************************************)
VARIABLES
  busy,     (* a run is in progress                                          *)
  soiled,   (* a module of the target's name is in the verifier's store      *)
  found,    (* it was there when the run started                             *)
  verdict   (* of the last run                                               *)

vars == <<busy, soiled, found, verdict>>

Init == ~busy /\ soiled \in BOOLEAN /\ found = FALSE /\ verdict = "none"

Start == ~busy /\ busy' = TRUE /\ verdict' = "none" /\ found' = soiled /\ UNCHANGED soiled

\* A module that was not there comes and goes while the run lasts.
Load == busy /\ ~found /\ ~soiled /\ soiled' = TRUE /\ UNCHANGED <<busy, found, verdict>>
Unload == busy /\ ~found /\ soiled /\ soiled' = FALSE /\ UNCHANGED <<busy, found, verdict>>

Pass == busy /\ ~found /\ ~soiled /\ busy' = FALSE /\ verdict' = "pass" /\ UNCHANGED <<soiled, found>>
FailRun == busy /\ busy' = FALSE /\ verdict' = "fail" /\ UNCHANGED <<soiled, found>>

Next == Start \/ Load \/ Unload \/ Pass \/ FailRun

Spec == Init /\ [][Next]_vars
=============================================================================
