------------------------------ MODULE Pipeline ------------------------------
(***************************************************************************)
(* One verification run, internal/pipeline/pipeline.go Run(), against the  *)
(* persistent verifier it runs on: the SELinux module store, the permissive *)
(* list, the port mappings, the file labels and the unit.  Runs follow one *)
(* another on the same verifier, so what one leaves behind the next finds. *)
(*                                                                         *)
(* A policy is the set of accesses it allows.  What Refine makes of a      *)
(* denial depends on its class only: an allow rule (Routine), a flagged    *)
(* rule that is granted only after review (Dangerous), or a relabel        *)
(* (Misplaced).  exercise() is one step here; AuditWindow opens it up.     *)
(*                                                                         *)
(* A file's label is what its attribute stores; one that names a type of   *)
(* the app's is dangling while no module defines that type, and the kernel *)
(* shows it as unlabeled.  Loading or removing a module changes no label.  *)
(*                                                                         *)
(* The commands whose result the code discards may fail silently: such a   *)
(* failure is a fault and there are at most MaxFaults.  A command whose    *)
(* result is checked may fail whenever it is issued.  The artifact's own   *)
(* scripts run as root inside install, setup and exercise and may change   *)
(* what the verifier is set up to check: a drift, at most MaxDrifts.       *)
(***************************************************************************)
EXTENDS Integers, FiniteSets

CONSTANTS
  Routine, Dangerous, Misplaced, (* accesses by what Refine makes of a denial *)
  Hybrid,           (* routine accesses that together are write plus execute; *)
                    (* may be empty                                          *)
  Ports,
  Entrypoints, Roots,  (* the executables, and the roots of the declared paths *)
  MaxRounds,        (* Options.MaxRounds: observe rounds                     *)
  EnforceAttempts,  (* attempts of the enforce loop (3 in the code)          *)
  RemovalAttempts,  (* attempts to remove the module (2 in the code)         *)
  MaxRuns,          (* bound: runs on one verifier                           *)
  MaxFaults,        (* bound: best-effort commands that fail                 *)
  MaxDrifts,        (* bound: changes the artifact's scripts make            *)
  MaxKills,         (* bound: times hardener itself dies in the middle of Run *)
  StrictStore       (* whether semodule refuses to remove a module whose     *)
                    (* types a mapping or the permissive list still names    *)

ASSUME PipelineAssumption ==
  /\ Routine \cap Dangerous = {} /\ Routine \cap Misplaced = {}
  /\ Dangerous \cap Misplaced = {} /\ Hybrid \subseteq Routine
  /\ MaxRounds \in Nat \ {0} /\ EnforceAttempts \in Nat \ {0}
  /\ RemovalAttempts \in Nat \ {0} /\ IsFiniteSet(Ports)
  /\ IsFiniteSet(Entrypoints) /\ IsFiniteSet(Roots)
  /\ MaxRuns \in Nat /\ MaxFaults \in Nat /\ MaxDrifts \in Nat
  /\ MaxKills \in Nat
  /\ StrictStore \in BOOLEAN

VARIABLES
  \* the module store: the app's module at priority 400 and at priority 200,
  \* and whether some other module allows more than was there to begin with
  staged, packaged, aux,
  \* the rest of the SELinux configuration
  permissive, portOwner, labels, misplaced,
  \* the host: the unit, enforcing mode and auditing, the entrypoint's bytes
  unit, observing, disk,
  \* Run(): the target and options, the flags the cleanup is armed with
  pc, job, moduleInstalled, targetTouched, permissiveCleared,
  \* its loops
  rules, count, seen, prevRelabels,
  \* its baselines, and the Result
  auxBaseline, expected, res,
  \* history: what the last exercise ran under, how the cleanup left off, whether
  \* the run found a module of the target's name
  measured, left, found,
  \* bounds
  runs, faults, drifts, kills

store    == <<staged, packaged, aux>>
config   == <<permissive, portOwner, labels, misplaced>>
host     == <<unit, observing, disk>>
armed    == <<moduleInstalled, targetTouched, permissiveCleared>>
loop     == <<rules, count, seen, prevRelabels>>
baseline == <<auxBaseline, expected>>
history  == <<measured, left, found>>
bounds   == <<runs, faults, drifts, kills>>
vars == <<store, config, host, pc, job, armed, loop, baseline, res, history, bounds>>

Access   == Routine \cup Dangerous \cup Misplaced
Grants   == SUBSET (Routine \cup Dangerous)
Owners   == {"none", "vendor", "ours", "other"}
Module(o, te) == [owner |-> o, te |-> te]
NoModule == Module("none", {})
Loaded   == staged.owner # "none" \/ packaged.owner # "none"
AppPorts == {q \in Ports : portOwner[q] = "app"}
Referenced == permissive \/ AppPorts # {}

\* RelabelRoots, and those of them that carry a type of the app's.
Files == Entrypoints \cup Roots
Labelled == {f \in Files : labels[f] = "app"}

\* generateTE plus the refined section.
FinalTE == job.capable \cup rules

Labels == {"idle", "precheck", "conflict", "install", "conflictAgain", "prepare",
  "observeInstall", "permit", "observeExercise", "observeRefine", "finalInstall",
  "recheck", "unpermit", "enforceExercise", "enforceJudge", "enforceInstall",
  "recheckAfter", "static", "package", "pkgUnload", "pkgInstall", "pkgErase",
  "conclude", "quiesce", "references", "unload", "relabel", "deferred"}

NewResult == [failed |-> FALSE, flags |-> {}, exerciseOK |-> FALSE, domainOK |-> FALSE,
  enforceOK |-> FALSE, packageOK |-> FALSE, te |-> {}, rules |-> {},
  digest |-> "none", ran |-> "none"]

Unmeasured == [module |-> NoModule, foreign |-> FALSE, permissive |-> FALSE,
               observing |-> FALSE, shadowed |-> FALSE]

IsFailure == res.failed \/ ~res.enforceOK \/ (res.flags # {} /\ ~job.accept)

Init ==
  /\ staged \in {NoModule, Module("vendor", {})} /\ packaged = NoModule /\ aux = FALSE
  /\ permissive = FALSE /\ labels = [f \in Files |-> "base"] /\ misplaced = Misplaced
  /\ portOwner \in [Ports -> {"none", "foreign"} \cup (IF StrictStore THEN {} ELSE {"app"})]
  /\ unit \in {"stopped", "running"} /\ observing \in BOOLEAN /\ disk = "v0"
  /\ pc = "idle" /\ job = [declared |-> {}, capable |-> {}, accept |-> FALSE]
  /\ moduleInstalled = FALSE /\ targetTouched = FALSE /\ permissiveCleared = TRUE
  /\ rules = {} /\ count = 0 /\ seen = {} /\ prevRelabels = {}
  /\ auxBaseline = FALSE /\ expected = NoModule /\ res = NewResult
  /\ measured = Unmeasured
  /\ left = "none" /\ found = FALSE /\ runs = 0 /\ faults = 0 /\ drifts = 0
  /\ kills = 0

-----------------------------------------------------------------------------
(* What the commands do. *)

Fault == faults < MaxFaults /\ faults' = faults + 1

\* fail(): record the reason, then clean up.
Fail == pc' = "quiesce" /\ res' = [res EXCEPT !.failed = TRUE]
Goto(l) == pc' = l /\ UNCHANGED res

\* restorecon on a set of files: each gets the label of the file contexts in force,
\* which name the app's types exactly while a module of its name is loaded.
RestoreLabels(S) ==
  labels' = [f \in Files |-> IF f \notin S THEN labels[f]
                             ELSE IF Loaded' THEN "app" ELSE "base"]

\* Mutant: mappings the profile no longer declares survive.
InstalledKeepingStale(te, cut, relabelled, assigned) ==
  /\ staged' = IF cut >= 2 THEN Module("ours", te) ELSE staged
  /\ RestoreLabels(IF cut = 3 THEN Files ELSE IF cut = 2 THEN relabelled ELSE {})
  /\ portOwner' = [q \in Ports |->
       IF cut = 3 /\ q \in assigned THEN "app" ELSE portOwner[q]]

\* installPolicy gets as far as cut: 0 nothing, 1 stale mappings of our port type
\* deleted, 2 the module loaded and some files relabelled, 3 all files relabelled
\* and ports assigned.  A port that belongs to somebody else cannot be assigned.
Installed(te, cut, relabelled, assigned) ==
  /\ staged' = IF cut >= 2 THEN Module("ours", te) ELSE staged
  /\ RestoreLabels(IF cut = 3 THEN Files ELSE IF cut = 2 THEN relabelled ELSE {})
  /\ portOwner' = [q \in Ports |->
       IF cut >= 1 /\ portOwner[q] = "app" /\ q \notin job.declared THEN "none"
       ELSE IF cut = 3 /\ q \in assigned THEN "app" ELSE portOwner[q]]
Assignable == {q \in job.declared : portOwner[q] # "foreign"}

\* installPolicy and the content digest that follows it, from a stage that goes
\* on to next.
InstallPolicy(stage, next) ==
  /\ pc = stage
  /\ moduleInstalled' = TRUE
  /\ \E cut \in 0..3, relabelled \in SUBSET Files, assigned \in SUBSET Assignable :
       /\ Installed(FinalTE, cut, relabelled, assigned)
       /\ \/ Fail /\ UNCHANGED expected
          \/ /\ cut = 3 /\ assigned = job.declared
             /\ expected' = staged'
             /\ pc' = next /\ res' = [res EXCEPT !.te = FinalTE]
  /\ UNCHANGED <<packaged, aux, permissive, misplaced, host, job, targetTouched,
                 permissiveCleared, loop, auxBaseline, history, bounds>>

\* A script of the artifact changes the verifier, or leaves it alone.
Drift ==
  \/ UNCHANGED <<staged, aux, observing, disk, drifts>>
  \/ /\ drifts < MaxDrifts /\ drifts' = drifts + 1
     /\ \/ aux' = TRUE /\ UNCHANGED <<staged, observing, disk>>
        \/ /\ staged.owner = "ours" /\ staged' = Module("other", staged.te)
           /\ UNCHANGED <<aux, observing, disk>>
        \/ observing' = FALSE /\ UNCHANGED <<staged, aux, disk>>
        \/ disk' \in {"v0", "v1"} \ {disk} /\ UNCHANGED <<staged, aux, observing>>

\* What the workload can be denied; what it does differs from call to call.
Denied == ((Routine \cup Dangerous) \ (IF staged.owner = "ours" THEN staged.te ELSE {}))
            \cup misplaced

\* exercise(): an error, with the unit in any state, or the denials of a window
\* after which the unit is stopped.
Exercise(next, results, ran) ==
  /\ Drift
  /\ \/ /\ unit' \in {"stopped", "running"} /\ Fail
        /\ UNCHANGED <<seen, measured>>
     \/ /\ seen' \in SUBSET Denied
        /\ unit' = "stopped" /\ pc' = next /\ res' \in results /\ measured' = ran
  /\ UNCHANGED <<packaged, config, job, armed, rules, count, prevRelabels, baseline,
                 left, found, runs, faults, kills>>

\* Refine: what is flagged, and the rules, with the flagged ones when review
\* accepted them.  Write plus execute is flagged when one round shows both.
Risky == (seen \cap Dangerous) \cup (IF Hybrid \subseteq seen THEN Hybrid ELSE {})
Fresh == ((seen \cap Routine) \ Risky) \cup (IF job.accept THEN Risky ELSE {})
Relabels == seen \cap Misplaced
\* Mutant: a relabel is merged as if it were an allow rule.
MergeRelabels == rules' = rules \cup Fresh \cup Relabels

MergeNewRules == rules' = rules \cup Fresh
NoNewRules == Fresh \subseteq rules
\* restorecon on each relabel; its failure is only logged.
Restorecon == misplaced' \in {misplaced, misplaced \ Relabels}
Flagged == res.flags \cup Risky

\* semodule -r at priority 400, as seen afterwards; a refusal is not reported.
Refused == StrictStore /\ Referenced /\ packaged.owner = "none"
UnloadStaged ==
  \/ /\ staged.owner # "none" /\ ~Refused
     /\ staged' = NoModule /\ UNCHANGED faults
  \/ (staged.owner = "none" \/ Refused) /\ UNCHANGED <<staged, faults>>
  \/ staged.owner # "none" /\ Fault /\ UNCHANGED staged

-----------------------------------------------------------------------------
(* Run(): before the target is touched. *)

\* Mutant: the query sees only the modules at the priority semodule -i uses.
NameConflictStaged == staged.owner # "none"

\* The module names and generated types the run would use must be unknown.
NameConflict == Loaded

BeginRun ==
  /\ pc = "idle" /\ runs < MaxRuns
  /\ runs' = runs + 1
  /\ \E declared \in SUBSET Ports, capable \in SUBSET Dangerous, accept \in BOOLEAN :
       /\ job' = [declared |-> declared, capable |-> capable, accept |-> accept]
       /\ res' = [NewResult EXCEPT !.flags = capable, !.failed = capable # {} /\ ~accept]
       /\ pc' = IF capable # {} /\ ~accept THEN "deferred" ELSE "precheck"
  /\ moduleInstalled' = FALSE /\ targetTouched' = FALSE /\ permissiveCleared' = TRUE
  /\ rules' = {} /\ count' = 0 /\ seen' = {} /\ prevRelabels' = {}
  /\ auxBaseline' = FALSE /\ expected' = NoModule /\ left' = "none"
  /\ found' = Loaded
  /\ UNCHANGED <<store, config, host, measured, faults, drifts, kills>>

Quiet == UNCHANGED <<store, config, host, job, armed, loop, baseline, history, bounds>>

\* getenforce and auditd.
Precheck ==
  /\ pc = "precheck"
  /\ (observing /\ Goto("conflict")) \/ Fail
  /\ Quiet

\* nameConflict (its queries may fail), then the home directory check.
CheckConflict ==
  /\ pc = "conflict"
  /\ (~NameConflict /\ Goto("install")) \/ Fail
  /\ Quiet

-----------------------------------------------------------------------------
(* Run(): from the artifact's own scripts to the policy loop. *)

\* install, unit file and setup run the artifact's own scripts: they may start
\* the unit and load a module of the vendor's.
Install ==
  /\ pc = "install"
  /\ targetTouched' = TRUE
  /\ unit' \in {"stopped", "running"}
  /\ staged' \in {staged, Module("vendor", {})}
  /\ aux' \in {aux, TRUE}
  /\ Goto("conflictAgain") \/ Fail
  /\ UNCHANGED <<packaged, config, observing, disk, job, moduleInstalled,
                 permissiveCleared, loop, baseline, history, bounds>>

\* nameConflict once more, now that the artifact is installed.
CheckConflictAgain ==
  /\ pc = "conflictAgain"
  /\ (~NameConflict /\ Goto("prepare")) \/ Fail
  /\ Quiet

\* daemon-reload, the verifier baseline, the entrypoints and their digests,
\* NoNewPrivileges, the base file contexts, the removal from the permissive list
\* deferred (until here there is nothing to clear) and the module baseline.
Prepare ==
  /\ pc = "prepare"
  /\ \/ /\ res' = [res EXCEPT !.digest = disk]
        /\ auxBaseline' = aux /\ count' = 1 /\ permissiveCleared' = FALSE
        /\ pc' = "observeInstall"
     \/ Fail /\ permissiveCleared' \in {permissiveCleared, FALSE}
        /\ UNCHANGED <<auxBaseline, count>>
  /\ UNCHANGED <<store, config, host, job, moduleInstalled, targetTouched, rules, seen,
                 prevRelabels, expected, history, bounds>>

-----------------------------------------------------------------------------
(* Run(): the observe loop, in the permissive domain. *)

ObserveInstall == InstallPolicy("observeInstall", "permit")

Permit ==
  /\ pc = "permit"
  /\ \/ permissive' = TRUE /\ Goto("observeExercise")
     \/ Fail /\ permissive' \in {permissive, TRUE}
  /\ UNCHANGED <<store, portOwner, labels, misplaced, host, job, armed, loop, baseline,
                 history, bounds>>

\* What MainPID ran does not matter in the permissive domain.
ObserveExercise ==
  /\ pc = "observeExercise"
  /\ Exercise("observeRefine", {[res EXCEPT !.exerciseOK = ok] : ok \in BOOLEAN}, measured)

\* A denial may also point at a mislabelled entrypoint, which fails the run
\* before anything is recorded.
ObserveEntrypoint == pc = "observeRefine" /\ seen # {} /\ Fail /\ Quiet

Stuck == \/ ~res.exerciseOK /\ seen = {}
         \/ Relabels # {} /\ Relabels = prevRelabels
Converged == NoNewRules /\ Relabels = {} /\ res.exerciseOK

ObserveRefine ==
  /\ pc = "observeRefine"
  /\ MergeNewRules /\ Restorecon /\ seen' = {}
  /\ IF Stuck
     THEN /\ pc' = "quiesce"
          /\ res' = [res EXCEPT !.failed = TRUE, !.flags = Flagged]
          /\ UNCHANGED <<count, prevRelabels>>
     ELSE /\ res' = [res EXCEPT !.flags = Flagged]
          /\ IF Converged \/ count = MaxRounds
             THEN pc' = "finalInstall" /\ prevRelabels' = {} /\ UNCHANGED count
             ELSE pc' = "observeInstall" /\ prevRelabels' = Relabels /\ count' = count + 1
  /\ UNCHANGED <<store, permissive, portOwner, labels, host, job, armed, baseline,
                 history, bounds>>

\* Mutant: what the last observe round found is not installed before enforcing.
FinalInstallSkipped == pc = "finalInstall" /\ Goto("recheck") /\ Quiet

\* What the last observe round found is in the rules but not in the store yet.
FinalInstall == InstallPolicy("finalInstall", "recheck")

-----------------------------------------------------------------------------
(* Run(): the enforce loop. *)

\* Mutant: only the names of the modules are compared.
TrustworthyByName == observing /\ (aux => auxBaseline) /\ staged.owner # "none"

\* Enforcing mode and auditing, no module beyond the baseline, our content as it
\* was installed.
Trustworthy == observing /\ (aux => auxBaseline) /\ staged = expected

Recheck ==
  /\ pc = "recheck"
  /\ (Trustworthy /\ Goto("unpermit")) \/ Fail
  /\ Quiet

Unpermit ==
  /\ pc = "unpermit"
  /\ \/ permissive' = FALSE /\ permissiveCleared' = TRUE /\ count' = 1
        /\ Goto("enforceExercise")
     \/ Fail /\ permissive' \in {permissive, FALSE} /\ UNCHANGED <<permissiveCleared, count>>
  /\ UNCHANGED <<store, portOwner, labels, misplaced, host, job, moduleInstalled,
                 targetTouched, rules, seen, prevRelabels, baseline, history, bounds>>

\* MainPID's label and binary are captured; the binary only counts in our domain.
Captured == {[res EXCEPT !.exerciseOK = ok, !.domainOK = dom,
                         !.ran = IF ok /\ dom THEN exe ELSE "none"] :
               ok \in {TRUE, FALSE}, dom \in {TRUE, FALSE},
               exe \in {"none", "stray", disk, disk'}}
Conditions == [module |-> staged', foreign |-> aux' /\ ~auxBaseline,
               permissive |-> permissive, observing |-> observing', shadowed |-> FALSE]

EnforceExercise ==
  pc = "enforceExercise" /\ Exercise("enforceJudge", Captured, Conditions)

\* A confined process must be one of the binaries that were hashed.
Unbound == res.domainOK /\ res.exerciseOK /\ res.ran # res.digest
Enforced == res.exerciseOK /\ seen = {} /\ res.domainOK
LastAttempt == Enforced \/ count >= EnforceAttempts \/ ~res.domainOK

EnforceUnbound == pc = "enforceJudge" /\ Unbound /\ Fail /\ Quiet

EnforceSettled ==
  /\ pc = "enforceJudge" /\ ~Unbound /\ LastAttempt
  /\ res' = [res EXCEPT !.enforceOK = Enforced]
  /\ pc' = "recheckAfter"
  /\ Quiet

\* Mutant: an attempt that made progress is not counted.
AttemptUncounted == count

NextAttempt == count + 1

\* A late path: refine once more, and give up when that brings nothing new.
EnforceRefine ==
  /\ pc = "enforceJudge" /\ ~Unbound /\ ~LastAttempt
  /\ MergeNewRules /\ Restorecon /\ seen' = {}
  /\ res' = [res EXCEPT !.enforceOK = FALSE, !.flags = Flagged]
  /\ pc' = IF NoNewRules /\ Relabels = {} THEN "recheckAfter" ELSE "enforceInstall"
  /\ count' = IF pc' = "enforceInstall" THEN NextAttempt ELSE count
  /\ UNCHANGED <<store, permissive, portOwner, labels, host, job, armed,
                 prevRelabels, baseline, history, bounds>>

EnforceInstall == InstallPolicy("enforceInstall", "enforceExercise")

RecheckAfter ==
  /\ pc = "recheckAfter"
  /\ (Trustworthy /\ Goto("static")) \/ Fail
  /\ Quiet

\* Mutant: only the last round is scanned.
WriteExecLastRound == IF Hybrid \subseteq seen THEN Hybrid ELSE {}

\* FlagWriteExecRules: write and execute that no single round showed together.
WriteExec == IF Hybrid \subseteq rules THEN Hybrid ELSE {}

\* Mutant: the entrypoints are not hashed again.
StaticPassedUnhashed == ~permissive

\* The static checks, the last of which is that the domain is not permissive,
\* and the entrypoints hashed again.
StaticPassed == ~permissive /\ disk = res.digest

Static ==
  /\ pc = "static"
  /\ \/ /\ StaticPassed
        /\ res' = [res EXCEPT !.flags = @ \cup WriteExec, !.rules = rules]
        /\ pc' = IF res.enforceOK THEN "package" ELSE "conclude"
     \/ /\ res' = [res EXCEPT !.flags = @ \cup WriteExec, !.failed = TRUE]
        /\ pc' = "quiesce"
  /\ Quiet

-----------------------------------------------------------------------------
(* Run(): package, and verify the package on the verifier. *)

\* buildRPM from the verified text, and the digest of what it built.
Package ==
  /\ pc = "package"
  /\ Goto("pkgUnload") \/ Fail
  /\ Quiet

\* verifyPackage: the staged copy would shadow the package's, so it is removed and
\* must be gone from the listing; a listing that fails is not held against it.
PkgUnload ==
  /\ pc = "pkgUnload"
  /\ UnloadStaged
  /\ Goto("pkgInstall") \/ Fail
  /\ UNCHANGED <<packaged, aux, config, host, job, armed,
                 loop, baseline, history, runs, drifts, kills>>

\* A port can be assigned only to a type that some module defines.
Mappable(loaded) == IF loaded \/ Loaded THEN job.declared ELSE {}

\* rpm -i runs the scriptlets, whose errors are swallowed (fixfiles -C relabels what
\* the new module's file contexts name); the checks that follow are recorded and the
\* erase goes ahead either way.
PkgInstall ==
  /\ pc = "pkgInstall"
  /\ measured' = [measured EXCEPT !.shadowed = staged.owner # "none"]
  /\ UNCHANGED <<staged, aux, permissive, misplaced, host, job, armed, loop, baseline,
                 left, found, runs, drifts, kills>>
  /\ \/ Fail /\ UNCHANGED <<packaged, portOwner, labels, faults>>
     \/ Fail /\ packaged' = Module("ours", res.te) /\ UNCHANGED <<portOwner, labels, faults>>
     \/ \E loaded, relabelled \in BOOLEAN :
        \E mapped \in SUBSET Mappable(loaded) :
          /\ faults' = faults + Cardinality(Mappable(loaded) \ mapped)
                       + (IF loaded THEN 0 ELSE 1) + (IF relabelled THEN 0 ELSE 1)
          /\ faults' <= MaxFaults
          /\ packaged' = IF loaded THEN Module("ours", res.te) ELSE NoModule
          /\ RestoreLabels(IF loaded /\ relabelled THEN Files ELSE {})
          /\ portOwner' = [q \in Ports |->
               IF q \in mapped THEN "app"
               ELSE IF portOwner[q] = "app" /\ q \notin job.declared THEN "none"
               ELSE portOwner[q]]
          /\ pc' = "pkgErase"
          /\ res' = [res EXCEPT !.packageOK =
               packaged'.owner = "ours" /\ Labelled' = Files
               /\ \A q \in job.declared : portOwner'[q] = "app"]

\* Mutants: no label is looked at after the erase; nothing but the ports is.
ErasedUnlabelled == ~Loaded' /\ AppPorts' \cap job.declared = {}
ErasedPortsOnly  == AppPorts' \cap job.declared = {}

\* What is checked after rpm -e: every module of that name, at whatever priority, the
\* declared ports, and of the labels those of the entrypoints alone.
Erased == ~Loaded' /\ AppPorts' \cap job.declared = {} /\ Labelled' \cap Entrypoints = {}

\* rpm -e: the port mappings, then the module, then restorecon file by file, whose
\* failures are swallowed one by one.
PkgErase ==
  /\ pc = "pkgErase"
  /\ UNCHANGED <<staged, aux, permissive, misplaced, host, job, armed, loop, baseline,
                 history, runs, drifts, kills>>
  /\ \/ Fail /\ UNCHANGED <<packaged, portOwner, labels, faults>>
     \/ \E unloaded \in BOOLEAN, missed \in SUBSET Files,
           kept \in SUBSET (AppPorts \cap job.declared) :
          /\ faults' = faults + Cardinality(kept) + Cardinality(missed)
                       + (IF unloaded THEN 0 ELSE 1)
          /\ faults' <= MaxFaults
          /\ portOwner' = [q \in Ports |->
               IF q \in job.declared \ kept THEN "none" ELSE portOwner[q]]
          /\ packaged' = IF unloaded /\ ~(StrictStore /\ Referenced' /\ staged.owner = "none")
                         THEN NoModule ELSE packaged
          /\ RestoreLabels(Files \ missed)
          /\ \E listed \in BOOLEAN :
               LET ok == res.packageOK /\ Erased /\ listed IN
               /\ res' = [res EXCEPT !.packageOK = ok, !.failed = ~ok]
               /\ pc' = IF ok THEN "conclude" ELSE "quiesce"

-----------------------------------------------------------------------------
(* Run(): the end, and the cleanup of every failure. *)

\* An unsuccessful result goes through the same cleanup as a failed stage.
Conclude ==
  /\ pc = "conclude"
  /\ IF IsFailure THEN Goto("quiesce") ELSE Goto("deferred")
  /\ Quiet

\* The locals of Run() are dead, and of a failed Result only that it failed counts.
Spent ==
  /\ rules' = {} /\ seen' = {} /\ prevRelabels' = {} /\ count' = 0
  /\ auxBaseline' = FALSE /\ expected' = NoModule /\ measured' = Unmeasured
  /\ res' = [NewResult EXCEPT !.failed = TRUE]

\* Mutant: a unit that was killed is taken to be dead.
DeadAfterKill == TRUE

Dead == unit' = "stopped"

\* Never tear down confinement around a live process: kill it, and unless it is
\* then known to be dead leave everything as it is.
Quiesce ==
  /\ pc = "quiesce"
  /\ IF targetTouched THEN unit' \in {"stopped", unit} ELSE unit' = unit
  /\ \/ ~targetTouched /\ pc' = "deferred" /\ left' = left
     \/ /\ targetTouched /\ Dead /\ left' = left
        /\ pc' = IF moduleInstalled THEN "references" ELSE "deferred"
     \/ targetTouched /\ pc' = "deferred" /\ left' = "preserved"
  /\ Spent
  /\ UNCHANGED <<store, config, observing, disk, job, armed, found, bounds>>

\* Mutant: a mapping is deleted by its number, whoever owns it.
DeletableByNumber == {q \in job.declared : portOwner[q] # "none"}

Deletable == AppPorts \cap job.declared

\* The permissive entry and the mappings that are ours go first; failures of
\* either are discarded.
References ==
  /\ pc = "references"
  /\ \E kept \in SUBSET Deletable, stays \in BOOLEAN :
       /\ faults' = faults + Cardinality(kept) + (IF stays THEN 1 ELSE 0)
       /\ faults' <= MaxFaults
       /\ permissive' = (permissive /\ stays)
       /\ portOwner' = [q \in Ports |->
            IF q \in Deletable \ kept THEN "none" ELSE portOwner[q]]
  /\ count' = 1 /\ pc' = "unload"
  /\ UNCHANGED <<store, labels, misplaced, host, job, armed, rules, seen, prevRelabels,
                 baseline, res, history, runs, drifts, kills>>

\* Mutant: after the last attempt the module is taken to be gone.
UnremovedRelabelled == pc' = "relabel" /\ UNCHANGED left

\* Reported as contaminated, and no relabel while the module is there.
Unremoved == left' = "contaminated" /\ pc' = "deferred"

\* Remove the module and look whether it is gone; a listing that fails counts as
\* not gone.
Unload ==
  /\ pc = "unload"
  /\ UnloadStaged /\ UNCHANGED packaged
  /\ \/ ~Loaded' /\ pc' = "relabel" /\ UNCHANGED <<count, left>>
     \/ count < RemovalAttempts /\ count' = count + 1 /\ UNCHANGED <<pc, left>>
     \/ count = RemovalAttempts /\ Unremoved /\ UNCHANGED count
  /\ UNCHANGED <<aux, config, host, job, armed, rules,
                 seen, prevRelabels, baseline, res, measured, found, runs, drifts, kills>>

\* restorecon file by file; a failure is discarded and nothing reports it.
Relabel ==
  /\ pc = "relabel" /\ UNCHANGED store
  /\ \E missed \in SUBSET Files :
       /\ faults' = faults + Cardinality(missed) /\ faults' <= MaxFaults
       /\ RestoreLabels(Files \ missed)
  /\ left' = "clean" /\ pc' = "deferred"
  /\ UNCHANGED <<permissive, portOwner, misplaced, host, job, armed, loop, baseline,
                 res, measured, found, runs, drifts, kills>>

\* Mutant: the deferred removal only runs for a run that did not fail.
StillPermittedOnSuccess == ~permissiveCleared /\ ~res.failed

StillPermitted == ~permissiveCleared

\* The deferred removal from the permissive list, if nothing removed it before.
Deferred ==
  /\ pc = "deferred"
  /\ IF StillPermitted
     THEN \/ permissive' = FALSE /\ permissiveCleared' = TRUE /\ UNCHANGED faults
          \/ Fault /\ UNCHANGED <<permissive, permissiveCleared>>
     ELSE UNCHANGED <<permissive, permissiveCleared, faults>>
  /\ pc' = "idle"
  /\ UNCHANGED <<store, portOwner, labels, misplaced, host, job, moduleInstalled,
                 targetTouched, loop, baseline, res, history, runs, drifts, kills>>

\* hardener dies: no cleanup and no deferred call runs, and there is no Result.
Kill ==
  /\ pc # "idle" /\ kills < MaxKills /\ kills' = kills + 1
  /\ pc' = "idle" /\ left' = "killed" /\ Spent
  /\ UNCHANGED <<store, config, host, job, armed, found, runs, faults, drifts>>

Run ==
  \/ BeginRun \/ Precheck \/ CheckConflict \/ Install \/ CheckConflictAgain \/ Prepare
  \/ ObserveInstall \/ Permit \/ ObserveExercise \/ ObserveEntrypoint \/ ObserveRefine
  \/ FinalInstall \/ Recheck \/ Unpermit
  \/ EnforceExercise \/ EnforceUnbound \/ EnforceSettled \/ EnforceRefine
  \/ EnforceInstall \/ RecheckAfter \/ Static
  \/ Package \/ PkgUnload \/ PkgInstall \/ PkgErase \/ Conclude
  \/ Quiesce \/ References \/ Unload \/ Relabel \/ Deferred

Next == Run \/ Kill

Spec == Init /\ [][Next]_vars

\* Every remote command returns: the runner bounds it with a timeout, provided no
\* descendant of the command keeps its output open for ever (CappedRunner).  Nothing
\* has to be killed.
FairSpec == Spec /\ WF_vars(Run)

-----------------------------------------------------------------------------
(* Properties. *)

Modules == [owner : Owners, te : Grants]
Jobs    == [declared : SUBSET Ports, capable : SUBSET Dangerous, accept : BOOLEAN]
Results == [failed : BOOLEAN, flags : Grants, exerciseOK : BOOLEAN, domainOK : BOOLEAN,
            enforceOK : BOOLEAN, packageOK : BOOLEAN, te : Grants, rules : Grants,
            digest : {"none", "v0", "v1"}, ran : {"none", "stray", "v0", "v1"}]
Measurements == [module : Modules, foreign : BOOLEAN, permissive : BOOLEAN,
                 observing : BOOLEAN, shadowed : BOOLEAN]
Passed == pc = "idle" /\ ~IsFailure

TypeOK ==
  /\ staged \in Modules /\ packaged \in Modules /\ aux \in BOOLEAN
  /\ permissive \in BOOLEAN /\ portOwner \in [Ports -> {"none", "foreign", "app"}]
  /\ labels \in [Files -> {"base", "app"}] /\ misplaced \subseteq Misplaced
  /\ unit \in {"stopped", "running"} /\ observing \in BOOLEAN /\ disk \in {"v0", "v1"}
  /\ pc \in Labels
  /\ job \in Jobs
  /\ moduleInstalled \in BOOLEAN /\ targetTouched \in BOOLEAN
  /\ permissiveCleared \in BOOLEAN
  /\ rules \in Grants /\ count \in Nat /\ seen \subseteq Access
  /\ prevRelabels \subseteq Misplaced
  /\ auxBaseline \in BOOLEAN /\ expected \in Modules
  /\ res \in Results /\ measured \in Measurements
  /\ left \in {"none", "clean", "preserved", "contaminated", "killed"}
  /\ found \in BOOLEAN
  /\ runs \in 0..MaxRuns /\ faults \in 0..MaxFaults /\ drifts \in 0..MaxDrifts
  /\ kills \in 0..MaxKills

\* A passing run's last exercise was enforced under exactly the policy that is
\* packaged and attested, on a verifier that was still enforcing and observing
\* and had no module it did not have at the start.
PassMeansEnforced ==
  Passed => /\ measured.module = Module("ours", res.te)
            /\ res.te = job.capable \cup res.rules
            /\ ~measured.foreign /\ ~measured.permissive /\ measured.observing

\* A passing verdict binds the bytes that ran and that are still there.
BytesBound == Passed => res.ran = res.digest /\ disk = res.digest

\* No run loads a dangerous grant, let alone packages one, unreviewed; nor does a
\* passing run ship write plus execute unreviewed.
ReviewedGrants ==
  /\ moduleInstalled /\ staged.owner = "ours" /\ staged.te \cap Dangerous # {} => job.accept
  /\ Passed /\ Hybrid # {} /\ Hybrid \subseteq res.te => job.accept

\* Whatever the stages of the run discovered is in the policy by the time it is
\* judged: no attempt is spent on a policy already known to be incomplete.
NothingForgotten ==
  pc \in {"enforceExercise", "enforceJudge"} => res.te = FinalTE

\* What the package checks measured was the package's own copy of the module and
\* not the one the observe and enforce loops had left in the store above it.
PackageUnderTest == Passed => ~measured.shadowed

\* A passing run leaves neither module, permissive entry, process nor mapping, and no
\* entrypoint whose label dangles.  A declared root's may, which nobody looks at after
\* the erase, but only where a best-effort command failed: never more than those.
PassLeavesClean ==
  Passed => /\ ~Loaded /\ ~permissive /\ unit = "stopped"
            /\ AppPorts \cap job.declared = {}
            /\ Labelled \cap Entrypoints = {} /\ Cardinality(Labelled) <= faults

\* A failed run that reports nothing has removed the module and all that names its
\* types, although the code discards the failures of those removals.  Labels are
\* another matter: a restorecon that fails is silent, and each leaves its own file.
CleanOrReported ==
  pc = "idle" /\ moduleInstalled /\ left = "clean" =>
    /\ ~Loaded /\ ~permissive /\ AppPorts \cap job.declared = {}
    /\ Cardinality(Labelled) <= faults

\* While a module of ours is loaded no undeclared port is mapped to its type.
OnlyDeclaredPorts ==
  moduleInstalled /\ staged.owner = "ours" => AppPorts \subseteq job.declared

\* A unit that could not be stopped is left confined, not merely labelled: the
\* domain does not stay permissive.
PreservedEnforced ==
  pc = "idle" /\ moduleInstalled /\ left = "preserved" /\ faults = 0 => ~permissive

\* Confinement is never torn down around a live process.
NeverUnconfineLive ==
  [][Loaded /\ ~Loaded' => unit' = "stopped"]_vars

\* Nothing of anybody else's is touched: a module of the same name is neither
\* replaced nor removed, a port mapping keeps its owner, and the unit runs on
\* until the target's own scripts have been run.
ForeignStateKept ==
  [][/\ staged.owner = "vendor" => staged' = staged
     /\ \A q \in Ports : portOwner[q] = "foreign" => portOwner'[q] = "foreign"
     /\ ~targetTouched' => unit' = unit]_vars

\* Source comment: "DELETE the port mappings FIRST - the port mappings reference
\* the module's <app>_port_t type, so semodule -r fails while they exist".
PortsGoFirst == [][pc = "unload" \/ pc = "pkgUnload" => AppPorts = {}]_vars

\* Every run ends.
RunEnds == pc # "idle" ~> pc = "idle"

\* The run keeps the contract of the verification chamber.
ChamberContract == INSTANCE Chamber WITH
  busy    <- pc # "idle",
  soiled  <- Loaded,
  found   <- found,
  verdict <- IF pc # "idle" \/ runs = 0 THEN "none"
             ELSE IF IsFailure THEN "fail" ELSE "pass"

ImplementsChamber == ChamberContract!Spec
=============================================================================
