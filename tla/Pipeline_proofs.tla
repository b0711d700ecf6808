-------------------------- MODULE Pipeline_proofs ---------------------------
(***************************************************************************)
(* For every set of accesses and ports, every number of rounds, runs,      *)
(* faults and drifts: what a run that passes stands for, and what no run   *)
(* does to the verifier.                                                   *)
(***************************************************************************)
EXTENDS Pipeline, FiniteSetTheorems, TLAPS

(* The stages of Run, by label. *)
Checking  == {"precheck", "conflict"}
Setup     == {"install", "conflictAgain", "prepare"}
Observing == {"observeInstall", "permit", "observeExercise", "observeRefine", "finalInstall"}
Enforcing == {"recheck", "unpermit", "enforceExercise", "enforceJudge", "enforceInstall",
              "recheckAfter", "static"}
Packaging == {"package", "pkgUnload", "pkgInstall", "pkgErase", "conclude"}
Removing  == {"references", "unload", "relabel"}

(* Our module is loaded only where no module of its name was, and only by a run *)
(* that ran the target's scripts and is armed to remove it.                     *)
ModuleInv ==
  /\ pc \in Checking \cup Setup => ~moduleInstalled
  /\ pc \in {"permit", "observeExercise", "observeRefine", "finalInstall"}
              \cup Enforcing \cup Packaging \cup Removing => moduleInstalled
  /\ pc \in {"install", "prepare"} \/ (pc = "observeInstall" /\ ~moduleInstalled) => ~Loaded
  /\ moduleInstalled => staged.owner # "vendor"
  /\ pc = "permit" => Loaded
  /\ pc \in Setup \cup Observing \cup Enforcing \cup {"package", "pkgUnload", "pkgInstall"} =>
       packaged.owner = "none"

TouchedInv ==
  /\ pc \in Observing \cup Enforcing \cup Packaging \cup Removing \cup {"conflictAgain", "prepare"} => targetTouched
  /\ pc \in {"enforceJudge", "recheckAfter", "static"} \cup Packaging \cup Removing => unit = "stopped"

(* The domain is permissive only while it is observed. *)
PermissiveInv ==
  /\ moduleInstalled /\ permissiveCleared => ~permissive
  /\ pc \in Observing \cup {"recheck", "unpermit"} => ~permissiveCleared
  /\ pc \in (Enforcing \ {"recheck", "unpermit"}) \cup Packaging => permissiveCleared
  /\ PreservedEnforced

PortInv ==
  /\ OnlyDeclaredPorts
  /\ pc \in (Observing \ {"observeInstall"}) \cup Enforcing \cup Packaging =>
       \A q \in job.declared : portOwner[q] # "foreign"

(* What was not accepted is neither declared, nor merged, nor loaded. *)
ReviewInv ==
  ~job.accept =>
    /\ rules \cap Dangerous = {}
    /\ pc \notin {"idle", "deferred"} => job.capable = {}
    /\ moduleInstalled /\ staged.owner = "ours" => staged.te \cap Dangerous = {}

(* The text that is judged is the text that was installed last, with all that was found. *)
PolicyInv ==
  /\ pc \in Enforcing \ {"enforceInstall"} => res.te = FinalTE
  /\ pc \in Enforcing \ {"enforceInstall", "static"} => expected = Module("ours", res.te)

MeasureInv ==
  pc \in {"enforceJudge", "recheckAfter"} =>
    /\ measured.module = staged /\ measured.foreign = (aux /\ ~auxBaseline)
    /\ ~measured.permissive /\ measured.observing = observing

Measured ==
  /\ measured.module = Module("ours", res.te)
  /\ ~measured.foreign /\ ~measured.permissive /\ measured.observing

EnforceInv ==
  /\ pc \in Checking \cup Setup \cup Observing \cup (Enforcing \ {"recheckAfter", "static"}) =>
       ~res.enforceOK
  /\ pc \in {"recheckAfter", "static"} /\ res.enforceOK => res.ran = res.digest
  /\ pc = "static" => Measured

(* What the static checks have seen holds to the end of a run that does not fail. *)
Verified ==
  /\ Measured
  /\ res.te = job.capable \cup res.rules
  /\ disk = res.digest
  /\ res.enforceOK => res.ran = res.digest
  /\ Hybrid # {} /\ Hybrid \subseteq res.rules => res.flags # {}

VerifiedInv ==
  pc \in Packaging \/ (pc \in {"deferred", "idle"} /\ ~IsFailure) => Verified

\* No more files carry a label of the app's than commands have failed.
LabelsCounted == Cardinality(Labelled) <= faults

CleanInv ==
  /\ pc = "pkgErase" => measured.shadowed = (staged.owner # "none")
  /\ pc \in Removing => res.failed
  /\ (pc = "conclude" /\ res.enforceOK) \/ (pc \in {"deferred", "idle"} /\ ~IsFailure) =>
       /\ ~measured.shadowed /\ ~Loaded /\ ~permissive /\ unit = "stopped"
       /\ AppPorts \cap job.declared = {}
       /\ Labelled \cap Entrypoints = {} /\ LabelsCounted

(* A store that refuses to remove a module whose types are named keeps both or neither. *)
ReferenceInv ==
  /\ StrictStore /\ Referenced => Loaded
  /\ pc = "relabel" => ~Loaded
  /\ left = "clean" =>
       /\ pc \in {"deferred", "idle"}
       /\ moduleInstalled => ~Loaded /\ LabelsCounted

(* A run that found a module of its name never gets to touch the target. *)
FoundInv ==
  /\ pc \in Checking /\ found => Loaded
  /\ pc = "install" \/ (pc # "idle" /\ targetTouched) => ~found
  /\ pc \in {"deferred", "idle"} /\ ~IsFailure => ~found
  /\ pc # "idle" => runs > 0

IInv ==
  /\ TypeOK /\ ModuleInv /\ TouchedInv /\ PermissiveInv /\ PortInv /\ ReviewInv /\ PolicyInv
  /\ MeasureInv /\ EnforceInv /\ VerifiedInv /\ CleanInv /\ ReferenceInv /\ FoundInv

-----------------------------------------------------------------------------
(* Types *)

\* The values the store, a Result and a measurement take are of their types.
LEMMA ModulesTyped ==
  /\ NoModule \in Modules /\ Module("vendor", {}) \in Modules
  /\ \A te \in Grants : Module("ours", te) \in Modules /\ Module("other", te) \in Modules
  /\ \A m \in Modules : m.te \in Grants /\ m.owner \in Owners
BY DEF NoModule, Module, Modules, Owners, Grants

\* A Result keeps its type when any of its fields gets a value of its own type.
LEMMA ResultsTyped ==
  ASSUME NEW r \in Results, NEW b \in BOOLEAN, NEW c \in BOOLEAN, NEW g \in Grants, NEW h \in Grants,
         NEW v \in {"v0", "v1"}, NEW x \in {"none", "stray", "v0", "v1"}
  PROVE  /\ [r EXCEPT !.failed = b] \in Results
         /\ [r EXCEPT !.te = g] \in Results
         /\ [r EXCEPT !.digest = v] \in Results
         /\ [r EXCEPT !.failed = b, !.flags = g] \in Results
         /\ [r EXCEPT !.flags = g] \in Results
         /\ [r EXCEPT !.flags = g, !.failed = b] \in Results
         /\ [r EXCEPT !.flags = g, !.rules = h] \in Results
         /\ [r EXCEPT !.exerciseOK = b] \in Results
         /\ [r EXCEPT !.exerciseOK = b, !.domainOK = c, !.ran = x] \in Results
         /\ [r EXCEPT !.enforceOK = b] \in Results
         /\ [r EXCEPT !.enforceOK = b, !.flags = g] \in Results
         /\ [r EXCEPT !.packageOK = b] \in Results
         /\ [r EXCEPT !.packageOK = b, !.failed = c] \in Results
BY DEF Results

\* The fields of a Result have their types.
LEMMA ResultFieldsTyped ==
  ASSUME NEW r \in Results
  PROVE  /\ r.flags \in Grants /\ r.te \in Grants /\ r.rules \in Grants
         /\ {r.failed, r.exerciseOK, r.domainOK, r.enforceOK, r.packageOK} \subseteq BOOLEAN
         /\ r.digest \in {"none", "v0", "v1"} /\ r.ran \in {"none", "stray", "v0", "v1"}
BY DEF Results

\* The Result that a run starts with is one.
LEMMA NewResultTyped == NewResult \in Results
BY DEF NewResult, Results, Grants

\* The measurement that a run starts with is one, and so is one that was shadowed.
LEMMA MeasurementsTyped ==
  /\ Unmeasured \in Measurements
  /\ \A m \in Measurements, b \in BOOLEAN : [m EXCEPT !.shadowed = b] \in Measurements
  /\ \A m \in Modules, f \in BOOLEAN, p \in BOOLEAN, o \in BOOLEAN :
       [module |-> m, foreign |-> f, permissive |-> p, observing |-> o, shadowed |-> FALSE] \in Measurements
<1>1. NoModule \in Modules
  BY ModulesTyped
<1>. QED BY <1>1 DEF Unmeasured, Measurements

\* What Refine and generateTE compute from well-typed state.
LEMMA AccessTyped ==
  ASSUME TypeOK, PipelineAssumption
  PROVE  /\ FinalTE \in Grants /\ Fresh \in Grants /\ Risky \in Grants /\ WriteExec \in Grants
         /\ Relabels \subseteq Misplaced /\ Denied \subseteq Access
<1>. USE DEF TypeOK, PipelineAssumption
<1>1. job.capable \in Grants
  BY DEF Jobs, Grants
<1>2. Hybrid \subseteq Routine \cup Dangerous
  OBVIOUS
<1>. QED BY <1>1, <1>2 DEF FinalTE, Fresh, Risky, WriteExec, Relabels, Denied, Access, Grants

\* A set of ports can be counted.
LEMMA PortsCounted ==
  ASSUME TypeOK, PipelineAssumption, NEW S \in SUBSET Ports
  PROVE  Cardinality(S) \in Nat
BY FS_Subset, FS_CardinalityType DEF PipelineAssumption

\* The files are finitely many, and so is any part of them.
LEMMA FilesCounted ==
  ASSUME NEW S \in SUBSET Files
  PROVE  IsFiniteSet(S) /\ Cardinality(S) \in Nat
<1>1. IsFiniteSet(Files)
  BY PipelineAssumption, FS_Union DEF Files, PipelineAssumption
<1>. QED BY <1>1, FS_Subset, FS_CardinalityType

\* restorecon keeps the types of the labels.
LEMMA RestoreLabelsTyped ==
  ASSUME NEW S, labels \in [Files -> {"base", "app"}], RestoreLabels(S)
  PROVE  labels' \in [Files -> {"base", "app"}]
BY DEF RestoreLabels

\* With no module loaded, only a file that restorecon missed keeps a label of the
\* app's, so there are at most as many of these as commands that failed.
LEMMA LabelsRestored ==
  ASSUME TypeOK, TypeOK', NEW missed \in SUBSET Files, RestoreLabels(Files \ missed), ~Loaded',
         NEW others \in Nat, faults' = faults + others + Cardinality(missed)
  PROVE  LabelsCounted'
<1>1. Labelled' \subseteq missed
  BY DEF RestoreLabels, Labelled
<1>2. /\ Cardinality(Labelled') \in Nat /\ Cardinality(missed) \in Nat
      /\ Cardinality(Labelled') <= Cardinality(missed)
  BY <1>1, FilesCounted, FS_Subset
<1>. QED BY <1>2 DEF LabelsCounted, TypeOK

\* A step that leaves the labels alone and forgets no failure keeps their balance.
LEMMA LabelsKept ==
  ASSUME TypeOK, TypeOK', UNCHANGED labels, faults <= faults'
  PROVE  Labelled' = Labelled /\ (LabelsCounted => LabelsCounted')
<1>1. Labelled' = Labelled /\ Labelled \in SUBSET Files
  BY DEF Labelled
<1>2. Cardinality(Labelled) \in Nat
  BY <1>1, FilesCounted
<1>. QED BY <1>1, <1>2 DEF LabelsCounted, TypeOK

\* installPolicy, exercise() and the removal of the module keep the types.
LEMMA InstallPolicyTypes ==
  ASSUME TypeOK, PipelineAssumption, NEW stage, NEW next \in Labels, InstallPolicy(stage, next)
  PROVE  TypeOK'
<1>. USE DEF TypeOK, InstallPolicy, host, loop, history, bounds
<1>1. PICK cut \in 0..3, relabelled \in SUBSET Files, assigned \in SUBSET Assignable :
        /\ Installed(FinalTE, cut, relabelled, assigned)
        /\ \/ Fail /\ UNCHANGED expected
           \/ expected' = staged' /\ pc' = next /\ res' = [res EXCEPT !.te = FinalTE]
  OBVIOUS
<1>2. res' \in Results
  <2>1. res' = [res EXCEPT !.failed = TRUE] \/ res' = [res EXCEPT !.te = FinalTE]
    BY <1>1 DEF Fail
  <2>2. res \in Results /\ FinalTE \in Grants
    BY AccessTyped
  <2>3. [res EXCEPT !.failed = TRUE] \in Results /\ [res EXCEPT !.te = FinalTE] \in Results
    <3>. HIDE DEF TypeOK, InstallPolicy, host, loop, history, bounds
    <3>. QED BY <2>2 DEF Results
  <2>. QED BY <2>1, <2>3
<1>3. pc' \in Labels
  BY <1>1 DEF Fail, Labels
<1>4. staged' \in Modules /\ expected' \in Modules
  BY <1>1, ModulesTyped, AccessTyped DEF Installed
<1>5. portOwner' \in [Ports -> {"none", "foreign", "app"}] /\ labels' \in [Files -> {"base", "app"}]
  BY <1>1, RestoreLabelsTyped DEF Installed
<1>6. moduleInstalled' \in BOOLEAN
  OBVIOUS
<1>7. UNCHANGED <<packaged, aux, permissive, misplaced, unit, observing, disk, job, targetTouched, permissiveCleared,
                  rules, count, seen, prevRelabels, auxBaseline, measured, left, found, runs, faults, drifts, kills>>
  OBVIOUS
<1>. QED BY <1>2, <1>3, <1>4, <1>5, <1>6, <1>7

\* An exercise keeps the types, whatever the artifact did meanwhile.
LEMMA ExerciseTypes ==
  ASSUME TypeOK, PipelineAssumption, NEW next \in Labels, NEW results \in SUBSET Results, NEW ran,
         Drift => ran \in Measurements, Exercise(next, results, ran)
  PROVE  TypeOK'
<1>. USE DEF TypeOK, Exercise, config, armed, baseline
<1>1. /\ staged' \in Modules /\ aux' \in BOOLEAN /\ observing' \in BOOLEAN /\ disk' \in {"v0", "v1"}
      /\ drifts' \in 0..MaxDrifts
  <2>1. staged.te \in Grants
    BY ModulesTyped
  <2>2. staged' = staged \/ staged' = Module("other", staged.te)
    BY DEF Drift
  <2>3. staged' \in Modules
    BY <2>1, <2>2, ModulesTyped
  <2>4. aux' \in BOOLEAN /\ observing' \in BOOLEAN /\ disk' \in {"v0", "v1"}
    BY DEF Drift
  <2>5. drifts' \in 0..MaxDrifts
    BY DEF Drift, PipelineAssumption
  <2>. QED BY <2>3, <2>4, <2>5
<1>2. res' \in Results
  BY ResultsTyped DEF Fail
<1>3. pc' \in Labels /\ unit' \in {"stopped", "running"}
  BY DEF Fail, Labels
<1>4. seen' \subseteq Access /\ measured' \in Measurements
  BY AccessTyped
<1>5. UNCHANGED <<packaged, permissive, portOwner, labels, misplaced, job, moduleInstalled, targetTouched,
                  permissiveCleared, rules, count, prevRelabels, auxBaseline, expected, left, found, runs, faults, kills>>
  OBVIOUS
<1>. QED BY <1>1, <1>2, <1>3, <1>4, <1>5

\* Removing the staged module keeps the types, whether it succeeds or not.
LEMMA UnloadStagedTypes ==
  ASSUME TypeOK, PipelineAssumption, UnloadStaged
  PROVE  staged' \in Modules /\ faults' \in 0..MaxFaults
BY ModulesTyped DEF TypeOK, UnloadStaged, Fault, PipelineAssumption

\* Every step keeps the types.
LEMMA TypeKept ==
  ASSUME TypeOK, PipelineAssumption, [Next]_vars
  PROVE  TypeOK'
<1>. USE DEF store, config, host, armed, loop, baseline, history, bounds, Fail, Goto, Quiet
<1>1. CASE Precheck \/ CheckConflict \/ CheckConflictAgain \/ Recheck \/ RecheckAfter \/ Package \/ Conclude
           \/ ObserveEntrypoint \/ EnforceUnbound
  <2>1. res' \in Results
    BY <1>1, ResultsTyped DEF TypeOK, Precheck, CheckConflict, CheckConflictAgain, Recheck,
         RecheckAfter, Package,
       Conclude, ObserveEntrypoint, EnforceUnbound
  <2>2. pc' \in Labels
    BY <1>1 DEF Labels, Precheck, CheckConflict, CheckConflictAgain, Recheck, RecheckAfter,
         Package,
       Conclude, ObserveEntrypoint, EnforceUnbound
  <2>. QED BY <1>1, <2>1, <2>2 DEF TypeOK, Precheck, CheckConflict, CheckConflictAgain, Recheck,
       RecheckAfter,
       Package, Conclude, ObserveEntrypoint, EnforceUnbound
<1>2. CASE BeginRun
  <2>1. PICK declared \in SUBSET Ports, capable \in SUBSET Dangerous, accept \in BOOLEAN :
          /\ job' = [declared |-> declared, capable |-> capable, accept |-> accept]
          /\ res' = [NewResult EXCEPT !.flags = capable, !.failed = capable # {} /\ ~accept]
          /\ pc' = IF capable # {} /\ ~accept THEN "deferred" ELSE "precheck"
    BY <1>2 DEF BeginRun
  <2>2. capable \in Grants /\ (capable # {} /\ ~accept) \in BOOLEAN
    BY DEF Grants
  <2>3. res' \in Results
    BY <2>1, <2>2, NewResultTyped DEF Results
  <2>4. job' \in Jobs /\ pc' \in Labels
    BY <2>1 DEF Jobs, Labels
  <2>5. rules' \in Grants /\ seen' \subseteq Access /\ prevRelabels' \subseteq Misplaced /\ count' \in Nat
        /\ expected' \in Modules
    BY <1>2, ModulesTyped DEF BeginRun, Grants
  <2>6. /\ moduleInstalled' \in BOOLEAN /\ targetTouched' \in BOOLEAN /\ permissiveCleared' \in BOOLEAN
        /\ auxBaseline' \in BOOLEAN /\ found' \in BOOLEAN /\ left' = "none"
    BY <1>2 DEF BeginRun, Loaded
  <2>7. runs' \in 0..MaxRuns
    BY <1>2 DEF BeginRun, TypeOK, PipelineAssumption
  <2>. QED BY <1>2, <2>3, <2>4, <2>5, <2>6, <2>7 DEF BeginRun, TypeOK
<1>3. CASE Install
  <2>1. res' \in Results /\ pc' \in Labels
    BY <1>3, ResultsTyped DEF Install, TypeOK, Labels
  <2>2. staged' \in Modules
    BY <1>3, ModulesTyped DEF Install, TypeOK
  <2>3. aux' \in BOOLEAN /\ targetTouched' \in BOOLEAN /\ unit' \in {"stopped", "running"}
    BY <1>3 DEF Install, TypeOK
  <2>. QED BY <1>3, <2>1, <2>2, <2>3 DEF Install, TypeOK
<1>4. CASE Prepare
  <2>1. disk \in {"v0", "v1"}
    BY DEF TypeOK
  <2>2. res' = [res EXCEPT !.failed = TRUE] \/ res' = [res EXCEPT !.digest = disk]
    BY <1>4 DEF Prepare
  <2>3. [res EXCEPT !.failed = TRUE] \in Results /\ [res EXCEPT !.digest = disk] \in Results
    BY <2>1 DEF TypeOK, Results
  <2>4. /\ pc' \in {"observeInstall", "quiesce"} /\ auxBaseline' \in {aux, auxBaseline}
        /\ count' \in {1, count} /\ permissiveCleared' \in {permissiveCleared, FALSE}
    BY <1>4 DEF Prepare
  <2>5. res' \in Results
    BY <2>2, <2>3
  <2>6. pc' \in Labels /\ count' \in Nat
    BY <2>4 DEF TypeOK, Labels
  <2>7. auxBaseline' \in BOOLEAN
    BY <2>4 DEF TypeOK
  <2>8. permissiveCleared' \in BOOLEAN
    BY <2>4 DEF TypeOK
  <2>. QED BY <1>4, <2>5, <2>6, <2>7, <2>8 DEF Prepare, TypeOK
<1>5. CASE ObserveInstall \/ FinalInstall \/ EnforceInstall
  BY <1>5, InstallPolicyTypes DEF ObserveInstall, FinalInstall, EnforceInstall, Labels
<1>6. CASE Permit
  <2>1. res' \in Results /\ pc' \in Labels /\ permissive' \in BOOLEAN
    BY <1>6, ResultsTyped DEF Permit, TypeOK, Labels
  <2>. QED BY <1>6, <2>1 DEF Permit, TypeOK
<1>7. CASE ObserveExercise
  <2>1. {[res EXCEPT !.exerciseOK = ok] : ok \in BOOLEAN} \in SUBSET Results
    BY ResultsTyped DEF TypeOK
  <2>2. measured \in Measurements
    BY DEF TypeOK
  <2>. QED BY <1>7, <2>1, <2>2, ExerciseTypes DEF ObserveExercise, Labels
<1>8. CASE EnforceExercise
  <2>1. ASSUME Drift PROVE Captured \in SUBSET Results /\ Conditions \in Measurements
    <3>1. disk' \in {"v0", "v1"} /\ disk \in {"v0", "v1"}
      BY <2>1 DEF Drift, TypeOK
    <3>2. ASSUME NEW ok \in BOOLEAN, NEW dom \in BOOLEAN, NEW exe \in {"none", "stray", disk, disk'}
          PROVE  [res EXCEPT !.exerciseOK = ok, !.domainOK = dom,
                             !.ran = IF ok /\ dom THEN exe ELSE "none"] \in Results
      <4>1. (IF ok /\ dom THEN exe ELSE "none") \in {"none", "stray", "v0", "v1"} /\ res \in Results
        BY <3>1 DEF TypeOK
      <4>2. ASSUME NEW x \in {"none", "stray", "v0", "v1"}
            PROVE  [res EXCEPT !.exerciseOK = ok, !.domainOK = dom, !.ran = x] \in Results
        BY <4>1 DEF Results
      <4>. QED BY <4>1, <4>2
    <3>3. staged' \in Modules
      <4>1. staged' = staged \/ staged' = Module("other", staged.te)
        BY <2>1 DEF Drift
      <4>. QED BY <4>1, ModulesTyped DEF TypeOK
    <3>4. permissive \in BOOLEAN /\ observing' \in BOOLEAN /\ (aux' /\ ~auxBaseline) \in BOOLEAN
      BY <2>1 DEF Drift, TypeOK
    <3>5. Conditions \in Measurements
      BY <3>3, <3>4, MeasurementsTyped DEF Conditions
    <3>6. ASSUME NEW r \in Captured PROVE r \in Results
      <4>1. PICK ok \in {TRUE, FALSE}, dom \in {TRUE, FALSE}, exe \in {"none", "stray", disk, disk'} :
              r = [res EXCEPT !.exerciseOK = ok, !.domainOK = dom,
                              !.ran = IF ok /\ dom THEN exe ELSE "none"]
        BY <3>6 DEF Captured
      <4>. QED BY <4>1, <3>2
    <3>. QED BY <3>5, <3>6
  <2>2. Exercise("enforceJudge", Captured, Conditions)
    BY <1>8 DEF EnforceExercise
  <2>3. Drift
    BY <2>2 DEF Exercise
  <2>4. "enforceJudge" \in Labels
    BY DEF Labels
  <2>. QED BY <2>1, <2>2, <2>3, <2>4, ExerciseTypes
<1>9. CASE ObserveRefine \/ EnforceRefine
  <2>1. Flagged \in Grants /\ rules' \in Grants
    BY <1>9, AccessTyped, ResultFieldsTyped DEF ObserveRefine, EnforceRefine, MergeNewRules,
         Flagged, Grants, TypeOK
  <2>2. \/ res' = [res EXCEPT !.failed = TRUE, !.flags = Flagged] \/ res' = [res EXCEPT !.flags = Flagged]
        \/ res' = [res EXCEPT !.enforceOK = FALSE, !.flags = Flagged]
    BY <1>9 DEF ObserveRefine, EnforceRefine
  <2>3. res' \in Results
    <3>1. /\ [res EXCEPT !.failed = TRUE, !.flags = Flagged] \in Results
          /\ [res EXCEPT !.flags = Flagged] \in Results
          /\ [res EXCEPT !.enforceOK = FALSE, !.flags = Flagged] \in Results
      BY <2>1, ResultsTyped DEF TypeOK
    <3>. QED BY <2>2, <3>1
  <2>4. pc' \in Labels
    BY <1>9 DEF ObserveRefine, EnforceRefine, Labels
  <2>5. seen' = {} /\ prevRelabels' \subseteq Misplaced /\ misplaced' \subseteq Misplaced
    BY <1>9, AccessTyped DEF ObserveRefine, EnforceRefine, Restorecon, TypeOK
  <2>6. count' \in Nat
    BY <1>9 DEF ObserveRefine, EnforceRefine, NextAttempt, TypeOK
  <2>. QED BY <1>9, <2>1, <2>3, <2>4, <2>5, <2>6 DEF ObserveRefine, EnforceRefine, TypeOK
<1>10. CASE Unpermit
  <2>1. res' \in Results /\ pc' \in Labels
    BY <1>10, ResultsTyped DEF Unpermit, TypeOK, Labels
  <2>2. permissive' \in BOOLEAN
    BY <1>10 DEF Unpermit, TypeOK
  <2>3. permissiveCleared' \in BOOLEAN
    BY <1>10 DEF Unpermit, TypeOK
  <2>4. count' \in Nat
    <3>1. count' \in {1, count}
      BY <1>10 DEF Unpermit
    <3>. QED BY <3>1 DEF TypeOK
  <2>. QED BY <1>10, <2>1, <2>2, <2>3, <2>4 DEF Unpermit, TypeOK
<1>11. CASE EnforceSettled
  <2>1. res' = [res EXCEPT !.enforceOK = Enforced] /\ Enforced \in BOOLEAN
    BY <1>11 DEF EnforceSettled, Enforced
  <2>2. res' \in Results
    BY <2>1, ResultsTyped DEF TypeOK
  <2>. QED BY <1>11, <2>2 DEF EnforceSettled, TypeOK, Labels
<1>12. CASE Static
  <2>1. res.flags \cup WriteExec \in Grants /\ rules \in Grants
    BY AccessTyped, ResultFieldsTyped DEF Grants, TypeOK
  <2>2. \/ res' = [res EXCEPT !.flags = @ \cup WriteExec, !.rules = rules]
        \/ res' = [res EXCEPT !.flags = @ \cup WriteExec, !.failed = TRUE]
    BY <1>12 DEF Static
  <2>3. res' \in Results
    BY <2>1, <2>2 DEF TypeOK, Results
  <2>. QED BY <1>12, <2>3 DEF Static, TypeOK, Labels
<1>13. CASE PkgUnload
  <2>1. res' \in Results /\ pc' \in Labels
    BY <1>13, ResultsTyped DEF PkgUnload, TypeOK, Labels
  <2>2. staged' \in Modules /\ faults' \in 0..MaxFaults
    BY <1>13, UnloadStagedTypes DEF PkgUnload
  <2>. QED BY <1>13, <2>1, <2>2 DEF PkgUnload, TypeOK
<1>14. CASE PkgInstall
  <2>1. measured' \in Measurements
    BY <1>14, MeasurementsTyped DEF PkgInstall, TypeOK
  <2>2. res.te \in Grants
    BY ResultFieldsTyped DEF TypeOK
  <2>3. packaged' \in Modules
    BY <1>14, <2>2, ModulesTyped DEF PkgInstall, TypeOK
  <2>4. res' \in Results
    <3>1. \/ res' = [res EXCEPT !.failed = TRUE]
          \/ \E ok \in BOOLEAN : res' = [res EXCEPT !.packageOK = ok]
      BY <1>14 DEF PkgInstall
    <3>. QED BY <3>1, ResultsTyped DEF TypeOK
  <2>5. pc' \in Labels /\ labels' \in [Files -> {"base", "app"}]
    BY <1>14, RestoreLabelsTyped DEF PkgInstall, TypeOK, Labels
  <2>6. portOwner' \in [Ports -> {"none", "foreign", "app"}]
    BY <1>14 DEF PkgInstall, TypeOK
  <2>7. faults' \in 0..MaxFaults
    <3>1. CASE UNCHANGED faults
      BY <3>1 DEF TypeOK
    <3>2. ASSUME NEW loaded \in BOOLEAN, NEW relabelled \in BOOLEAN, NEW mapped \in SUBSET Mappable(loaded),
                 faults' = faults + Cardinality(Mappable(loaded) \ mapped)
                           + (IF loaded THEN 0 ELSE 1) + (IF relabelled THEN 0 ELSE 1),
                 faults' <= MaxFaults
          PROVE  faults' \in 0..MaxFaults
      <4>1. Mappable(loaded) \ mapped \subseteq Ports
        BY DEF Mappable, TypeOK, Jobs
      <4>2. Cardinality(Mappable(loaded) \ mapped) \in Nat
        BY <4>1, PortsCounted
      <4>. QED BY <3>2, <4>2 DEF TypeOK, PipelineAssumption
    <3>. QED BY <1>14, <3>1, <3>2 DEF PkgInstall
  <2>. QED BY <1>14, <2>1, <2>3, <2>4, <2>5, <2>6, <2>7 DEF PkgInstall, TypeOK
<1>15. CASE PkgErase
  <2>1. packaged' \in Modules
    BY <1>15, ModulesTyped DEF PkgErase, TypeOK
  <2>2. res' \in Results
    <3>1. \/ res' = [res EXCEPT !.failed = TRUE]
          \/ \E ok \in BOOLEAN : res' = [res EXCEPT !.packageOK = ok, !.failed = ~ok]
      BY <1>15 DEF PkgErase, Erased
    <3>. QED BY <3>1 DEF TypeOK, Results
  <2>3. pc' \in Labels /\ labels' \in [Files -> {"base", "app"}]
    BY <1>15, RestoreLabelsTyped DEF PkgErase, TypeOK, Labels
  <2>4. portOwner' \in [Ports -> {"none", "foreign", "app"}]
    BY <1>15 DEF PkgErase, TypeOK
  <2>5. faults' \in 0..MaxFaults
    <3>1. ASSUME NEW S \in SUBSET (AppPorts \cap job.declared) PROVE Cardinality(S) \in Nat
      BY PortsCounted DEF AppPorts
    <3>2. CASE UNCHANGED faults
      BY <3>2 DEF TypeOK
    <3>3. ASSUME NEW unloaded \in BOOLEAN, NEW missed \in SUBSET Files, NEW kept \in SUBSET (AppPorts \cap job.declared),
                 faults' = faults + Cardinality(kept) + Cardinality(missed)
                           + (IF unloaded THEN 0 ELSE 1),
                 faults' <= MaxFaults
          PROVE  faults' \in 0..MaxFaults
      BY <3>1, <3>3, FilesCounted DEF TypeOK, PipelineAssumption
    <3>. QED BY <1>15, <3>2, <3>3 DEF PkgErase
  <2>6. UNCHANGED <<staged, aux, permissive, misplaced, host, job, armed, loop, baseline, measured, left, found,
                    runs, drifts, kills>>
    BY <1>15 DEF PkgErase
  <2>. QED BY <2>1, <2>2, <2>3, <2>4, <2>5, <2>6 DEF TypeOK
<1>16. CASE Quiesce \/ Kill
  <2>1. /\ rules' \in Grants /\ seen' \subseteq Access /\ prevRelabels' \subseteq Misplaced /\ count' \in Nat
        /\ auxBaseline' \in BOOLEAN /\ expected' \in Modules /\ measured' \in Measurements
    <3>1. Spent
      BY <1>16 DEF Quiesce, Kill
    <3>2. {} \in Grants /\ 0 \in Nat
      BY DEF Grants
    <3>. QED BY <3>1, <3>2, ModulesTyped, MeasurementsTyped DEF Spent
  <2>2. res' \in Results
    <3>1. res' = [NewResult EXCEPT !.failed = TRUE]
      BY <1>16 DEF Quiesce, Kill, Spent
    <3>. QED BY <3>1, NewResultTyped DEF Results
  <2>3. unit' \in {"stopped", "running"}
    BY <1>16 DEF Quiesce, Kill, TypeOK
  <2>4. pc' \in Labels /\ left' \in {left, "preserved", "killed"}
    BY <1>16 DEF Quiesce, Kill, Labels
  <2>5. kills' \in 0..MaxKills
    BY <1>16 DEF Quiesce, Kill, TypeOK, PipelineAssumption
  <2>. QED BY <1>16, <2>1, <2>2, <2>3, <2>4, <2>5 DEF Quiesce, Kill, TypeOK
<1>17. CASE References
  <2>1. faults' \in 0..MaxFaults
    <3>1. ASSUME NEW S \in SUBSET Deletable PROVE Cardinality(S) \in Nat
      BY PortsCounted DEF Deletable, AppPorts
    <3>. QED BY <1>17, <3>1 DEF References, TypeOK, PipelineAssumption
  <2>2. portOwner' \in [Ports -> {"none", "foreign", "app"}]
    BY <1>17 DEF References, TypeOK
  <2>3. permissive' \in BOOLEAN /\ count' \in Nat /\ pc' \in Labels
    BY <1>17 DEF References, Labels
  <2>. QED BY <1>17, <2>1, <2>2, <2>3 DEF References, TypeOK
<1>18. CASE Unload
  <2>1. staged' \in Modules /\ faults' \in 0..MaxFaults
    BY <1>18, UnloadStagedTypes DEF Unload
  <2>2. pc' \in Labels /\ count' \in Nat /\ left' \in {left, "contaminated"}
    BY <1>18 DEF Unload, Unremoved, TypeOK, Labels
  <2>. QED BY <1>18, <2>1, <2>2 DEF Unload, TypeOK
<1>19. CASE Relabel
  <2>1. PICK missed \in SUBSET Files :
          /\ faults' = faults + Cardinality(missed) /\ faults' <= MaxFaults
          /\ RestoreLabels(Files \ missed)
    BY <1>19 DEF Relabel
  <2>2. faults' \in 0..MaxFaults
    BY <2>1, FilesCounted DEF TypeOK, PipelineAssumption
  <2>3. labels' \in [Files -> {"base", "app"}]
    BY <2>1, RestoreLabelsTyped DEF TypeOK
  <2>. QED BY <1>19, <2>2, <2>3 DEF Relabel, TypeOK, Labels
<1>20. CASE Deferred
  <2>1. permissive' \in BOOLEAN /\ permissiveCleared' \in BOOLEAN
    BY <1>20 DEF Deferred, TypeOK
  <2>2. faults' \in 0..MaxFaults
    BY <1>20 DEF Deferred, Fault, TypeOK, PipelineAssumption
  <2>. QED BY <1>20, <2>1, <2>2 DEF Deferred, TypeOK, Labels
<1>21. CASE UNCHANGED vars
  BY <1>21 DEF vars, TypeOK
<1>. QED BY <1>1, <1>2, <1>3, <1>4, <1>5, <1>6, <1>7, <1>8, <1>9, <1>10, <1>11, <1>12, <1>13,
     <1>14, <1>15,
            <1>16, <1>17, <1>18, <1>19, <1>20, <1>21 DEF Next, Run

-----------------------------------------------------------------------------
(* The invariant is inductive. *)

\* Every step keeps which runs have a module of their own in the store ...
LEMMA ModuleKept ==
  ASSUME IInv, [Next]_vars
  PROVE  ModuleInv'
<1>. USE DEF IInv, ModuleInv, Modules, Checking, Setup, Observing, Enforcing, Packaging, Removing,
     Labels, Loaded, store, config, host, armed, loop, baseline, history, bounds, Fail, Goto,
     Quiet
<1>1. CASE Precheck \/ CheckConflict \/ CheckConflictAgain
  BY <1>1 DEF Precheck, CheckConflict, CheckConflictAgain, NameConflict, Loaded
<1>2. CASE BeginRun
  BY <1>2 DEF BeginRun, NewResult, Loaded
<1>3. CASE Install
  BY <1>3 DEF Install
<1>4. CASE Prepare
  BY <1>4 DEF Prepare
<1>5. CASE ObserveInstall \/ FinalInstall \/ EnforceInstall
  BY <1>5 DEF ObserveInstall, FinalInstall, EnforceInstall, InstallPolicy, Installed, Assignable,
       FinalTE, Module
<1>6. CASE Permit
  BY <1>6 DEF Permit
<1>7. CASE ObserveExercise
  BY <1>7 DEF ObserveExercise, Exercise, Drift, Module
<1>8. CASE EnforceExercise
  BY <1>8 DEF EnforceExercise, Captured, Conditions, Exercise, Drift, Module
<1>9. CASE ObserveEntrypoint \/ EnforceUnbound
  BY <1>9 DEF ObserveEntrypoint, EnforceUnbound
<1>10. CASE ObserveRefine
  BY <1>10 DEF ObserveRefine, MergeNewRules, Restorecon, Flagged
<1>11. CASE Recheck \/ RecheckAfter
  BY <1>11 DEF Recheck, RecheckAfter, Trustworthy
<1>12. CASE Unpermit
  BY <1>12 DEF Unpermit
<1>13. CASE EnforceSettled
  BY <1>13 DEF EnforceSettled, Enforced
<1>14. CASE EnforceRefine
  BY <1>14 DEF EnforceRefine, MergeNewRules, Restorecon, Flagged, NextAttempt
<1>15. CASE Static
  BY <1>15 DEF Static, StaticPassed
<1>16. CASE Package \/ Conclude
  BY <1>16 DEF Package, Conclude, IsFailure
<1>17. CASE PkgUnload
  BY <1>17 DEF PkgUnload, UnloadStaged, Fault, Refused, Referenced, NoModule, Module
<1>18. CASE PkgInstall
  BY <1>18 DEF PkgInstall, Mappable, NoModule, Module
<1>19. CASE PkgErase
  BY <1>19 DEF PkgErase, Erased, NoModule, Module, Loaded, AppPorts
<1>20. CASE Quiesce
  BY <1>20 DEF Quiesce, Spent, NewResult, Dead
<1>21. CASE References
  BY <1>21 DEF References, Deletable, AppPorts
<1>22. CASE Unload
  BY <1>22 DEF Unload, UnloadStaged, Unremoved, Fault, Refused, Referenced, NoModule, Module
<1>23. CASE Relabel
  BY <1>23 DEF Relabel, Fault
<1>24. CASE Deferred
  BY <1>24 DEF Deferred, StillPermitted, Fault
<1>25. CASE Kill
  BY <1>25 DEF Kill, Spent, NewResult
<1>26. CASE UNCHANGED vars
  BY <1>26 DEF vars
<1>. QED BY <1>1, <1>2, <1>3, <1>4, <1>5, <1>6, <1>7, <1>8, <1>9, <1>10, <1>11, <1>12, <1>13,
     <1>14, <1>15, <1>16, <1>17, <1>18, <1>19, <1>20, <1>21, <1>22, <1>23, <1>24, <1>25, <1>26 DEF
     Next, Run

\* ... which of them ran the target's scripts, and when the unit is stopped ...
LEMMA TouchedKept ==
  ASSUME IInv, [Next]_vars
  PROVE  TouchedInv'
<1>. USE DEF IInv, TouchedInv, ModuleInv, Modules, Checking, Setup, Observing, Enforcing,
     Packaging, Removing, Labels, store, config, host, armed, loop, baseline, history, bounds,
     Fail, Goto, Quiet
<1>1. CASE Precheck \/ CheckConflict \/ CheckConflictAgain
  BY <1>1 DEF Precheck, CheckConflict, CheckConflictAgain, NameConflict, Loaded
<1>2. CASE BeginRun
  BY <1>2 DEF BeginRun, NewResult, Loaded
<1>3. CASE Install
  BY <1>3 DEF Install
<1>4. CASE Prepare
  BY <1>4 DEF Prepare
<1>5. CASE ObserveInstall \/ FinalInstall \/ EnforceInstall
  BY <1>5 DEF ObserveInstall, FinalInstall, EnforceInstall, InstallPolicy, Installed, Assignable,
       FinalTE, Module
<1>6. CASE Permit
  BY <1>6 DEF Permit
<1>7. CASE ObserveExercise
  BY <1>7 DEF ObserveExercise, Exercise, Drift, Module
<1>8. CASE EnforceExercise
  BY <1>8 DEF EnforceExercise, Captured, Conditions, Exercise, Drift, Module
<1>9. CASE ObserveEntrypoint \/ EnforceUnbound
  BY <1>9 DEF ObserveEntrypoint, EnforceUnbound
<1>10. CASE ObserveRefine
  BY <1>10 DEF ObserveRefine, MergeNewRules, Restorecon, Flagged
<1>11. CASE Recheck \/ RecheckAfter
  BY <1>11 DEF Recheck, RecheckAfter, Trustworthy
<1>12. CASE Unpermit
  BY <1>12 DEF Unpermit
<1>13. CASE EnforceSettled
  BY <1>13 DEF EnforceSettled, Enforced
<1>14. CASE EnforceRefine
  BY <1>14 DEF EnforceRefine, MergeNewRules, Restorecon, Flagged, NextAttempt
<1>15. CASE Static
  BY <1>15 DEF Static, StaticPassed
<1>16. CASE Package \/ Conclude
  BY <1>16 DEF Package, Conclude, IsFailure
<1>17. CASE PkgUnload
  BY <1>17 DEF PkgUnload, UnloadStaged, Fault, Refused, Referenced, NoModule, Module
<1>18. CASE PkgInstall
  BY <1>18 DEF PkgInstall, Mappable, NoModule, Module
<1>19. CASE PkgErase
  BY <1>19 DEF PkgErase, Erased, NoModule, Module, Loaded, AppPorts
<1>20. CASE Quiesce
  BY <1>20 DEF Quiesce, Spent, NewResult, Dead
<1>21. CASE References
  BY <1>21 DEF References, Deletable, AppPorts
<1>22. CASE Unload
  BY <1>22 DEF Unload, UnloadStaged, Unremoved, Fault, Refused, Referenced, NoModule, Module
<1>23. CASE Relabel
  BY <1>23 DEF Relabel, Fault
<1>24. CASE Deferred
  BY <1>24 DEF Deferred, StillPermitted, Fault
<1>25. CASE Kill
  BY <1>25 DEF Kill, Spent, NewResult
<1>26. CASE UNCHANGED vars
  BY <1>26 DEF vars
<1>. QED BY <1>1, <1>2, <1>3, <1>4, <1>5, <1>6, <1>7, <1>8, <1>9, <1>10, <1>11, <1>12, <1>13,
     <1>14, <1>15, <1>16, <1>17, <1>18, <1>19, <1>20, <1>21, <1>22, <1>23, <1>24, <1>25, <1>26 DEF
     Next, Run

\* ... when the domain may be permissive ...
LEMMA PermissiveKept ==
  ASSUME IInv, [Next]_vars
  PROVE  PermissiveInv'
<1>. USE DEF IInv, PermissiveInv, ModuleInv, Modules, Checking, Setup, Observing, Enforcing,
     Packaging, Removing, Labels, PreservedEnforced, store, config, host, armed, loop, baseline,
     history, bounds, Fail, Goto, Quiet
<1>1. CASE Precheck \/ CheckConflict \/ CheckConflictAgain
  BY <1>1 DEF Precheck, CheckConflict, CheckConflictAgain, NameConflict, Loaded
<1>2. CASE BeginRun
  BY <1>2 DEF BeginRun, NewResult, Loaded
<1>3. CASE Install
  BY <1>3 DEF Install
<1>4. CASE Prepare
  BY <1>4 DEF Prepare
<1>5. CASE ObserveInstall \/ FinalInstall \/ EnforceInstall
  BY <1>5 DEF ObserveInstall, FinalInstall, EnforceInstall, InstallPolicy, Installed, Assignable,
       FinalTE, Module
<1>6. CASE Permit
  BY <1>6 DEF Permit
<1>7. CASE ObserveExercise
  BY <1>7 DEF ObserveExercise, Exercise, Drift, Module
<1>8. CASE EnforceExercise
  BY <1>8 DEF EnforceExercise, Captured, Conditions, Exercise, Drift, Module
<1>9. CASE ObserveEntrypoint \/ EnforceUnbound
  BY <1>9 DEF ObserveEntrypoint, EnforceUnbound
<1>10. CASE ObserveRefine
  BY <1>10 DEF ObserveRefine, MergeNewRules, Restorecon, Flagged
<1>11. CASE Recheck \/ RecheckAfter
  BY <1>11 DEF Recheck, RecheckAfter, Trustworthy
<1>12. CASE Unpermit
  <2>1. CASE permissive' = FALSE /\ permissiveCleared' = TRUE /\ pc' = "enforceExercise"
    BY <1>12, <2>1 DEF Unpermit
  <2>2. CASE pc' = "quiesce" /\ UNCHANGED <<permissiveCleared, moduleInstalled>> /\ ~permissiveCleared
    BY <2>2
  <2>. QED BY <1>12, <2>1, <2>2 DEF Unpermit
<1>13. CASE EnforceSettled
  BY <1>13 DEF EnforceSettled, Enforced
<1>14. CASE EnforceRefine
  BY <1>14 DEF EnforceRefine, MergeNewRules, Restorecon, Flagged, NextAttempt
<1>15. CASE Static
  BY <1>15 DEF Static, StaticPassed
<1>16. CASE Package \/ Conclude
  BY <1>16 DEF Package, Conclude, IsFailure
<1>17. CASE PkgUnload
  BY <1>17 DEF PkgUnload, UnloadStaged, Fault, Refused, Referenced, NoModule, Module
<1>18. CASE PkgInstall
  BY <1>18 DEF PkgInstall, Mappable, NoModule, Module
<1>19. CASE PkgErase
  BY <1>19 DEF PkgErase, Erased, NoModule, Module, Loaded, AppPorts
<1>20. CASE Quiesce
  BY <1>20 DEF Quiesce, Spent, NewResult, Dead
<1>21. CASE References
  BY <1>21 DEF References, Deletable, AppPorts
<1>22. CASE Unload
  BY <1>22 DEF Unload, UnloadStaged, Unremoved, Fault, Refused, Referenced, NoModule, Module
<1>23. CASE Relabel
  BY <1>23 DEF Relabel, Fault
<1>24. CASE Deferred
  <2>1. CASE StillPermitted /\ Fault /\ UNCHANGED <<permissive, permissiveCleared>>
    <3>1. faults' # 0
      BY <2>1, PipelineAssumption DEF TypeOK, Fault, PipelineAssumption
    <3>. QED BY <1>24, <2>1, <3>1 DEF Deferred
  <2>2. CASE permissive' = FALSE /\ permissiveCleared' = TRUE
    BY <1>24, <2>2 DEF Deferred
  <2>3. CASE ~StillPermitted
    BY <1>24, <2>3 DEF Deferred, StillPermitted
  <2>. QED BY <1>24, <2>1, <2>2, <2>3 DEF Deferred
<1>25. CASE Kill
  BY <1>25 DEF Kill, Spent, NewResult
<1>26. CASE UNCHANGED vars
  BY <1>26 DEF vars
<1>. QED BY <1>1, <1>2, <1>3, <1>4, <1>5, <1>6, <1>7, <1>8, <1>9, <1>10, <1>11, <1>12, <1>13,
     <1>14, <1>15, <1>16, <1>17, <1>18, <1>19, <1>20, <1>21, <1>22, <1>23, <1>24, <1>25, <1>26 DEF
     Next, Run

\* ... whom the declared ports belong to ...
LEMMA PortKept ==
  ASSUME IInv, [Next]_vars
  PROVE  PortInv'
<1>. USE DEF IInv, PortInv, ModuleInv, Modules, Checking, Setup, Observing, Enforcing, Packaging,
     Removing, Labels, OnlyDeclaredPorts, AppPorts, store, config, host, armed, loop, baseline,
     history, bounds, Fail, Goto, Quiet
<1>1. CASE Precheck \/ CheckConflict \/ CheckConflictAgain
  BY <1>1 DEF Precheck, CheckConflict, CheckConflictAgain, NameConflict, Loaded
<1>2. CASE BeginRun
  BY <1>2 DEF BeginRun, NewResult, Loaded
<1>3. CASE Install
  BY <1>3 DEF Install
<1>4. CASE Prepare
  BY <1>4 DEF Prepare
<1>5. CASE ObserveInstall \/ FinalInstall \/ EnforceInstall
  <2>1. PICK cut \in 0..3, relabelled \in SUBSET Files, assigned \in SUBSET Assignable :
          /\ Installed(FinalTE, cut, relabelled, assigned)
          /\ Fail \/ (cut = 3 /\ assigned = job.declared)
    BY <1>5 DEF ObserveInstall, FinalInstall, EnforceInstall, InstallPolicy
  <2>2. job' = job /\ pc \in {"observeInstall", "finalInstall", "enforceInstall"}
    BY <1>5 DEF ObserveInstall, FinalInstall, EnforceInstall, InstallPolicy
  <2>3. cut < 2 /\ staged.owner = "ours" => moduleInstalled
    BY <2>2 DEF Loaded
  <2>4. OnlyDeclaredPorts'
    <3>1. CASE cut >= 2
      BY <2>1, <2>2, <3>1 DEF Installed, Assignable, Module, TypeOK
    <3>2. CASE cut < 2
      BY <2>1, <2>2, <2>3, <3>2 DEF Installed, Assignable, Module, TypeOK
    <3>. QED BY <3>1, <3>2
  <2>5. pc' # "quiesce" => \A q \in job.declared : portOwner'[q] # "foreign"
    BY <2>1, <2>2 DEF Installed, TypeOK, Jobs
  <2>. QED BY <2>2, <2>4, <2>5
<1>6. CASE Permit
  BY <1>6 DEF Permit
<1>7. CASE ObserveExercise
  BY <1>7 DEF ObserveExercise, Exercise, Drift, Module
<1>8. CASE EnforceExercise
  BY <1>8 DEF EnforceExercise, Captured, Conditions, Exercise, Drift, Module
<1>9. CASE ObserveEntrypoint \/ EnforceUnbound
  BY <1>9 DEF ObserveEntrypoint, EnforceUnbound
<1>10. CASE ObserveRefine
  BY <1>10 DEF ObserveRefine, MergeNewRules, Restorecon, Flagged
<1>11. CASE Recheck \/ RecheckAfter
  BY <1>11 DEF Recheck, RecheckAfter, Trustworthy
<1>12. CASE Unpermit
  BY <1>12 DEF Unpermit
<1>13. CASE EnforceSettled
  BY <1>13 DEF EnforceSettled, Enforced
<1>14. CASE EnforceRefine
  BY <1>14 DEF EnforceRefine, MergeNewRules, Restorecon, Flagged, NextAttempt
<1>15. CASE Static
  BY <1>15 DEF Static, StaticPassed
<1>16. CASE Package \/ Conclude
  BY <1>16 DEF Package, Conclude, IsFailure
<1>17. CASE PkgUnload
  BY <1>17 DEF PkgUnload, UnloadStaged, Fault, Refused, Referenced, NoModule, Module
<1>18. CASE PkgInstall
  <2>1. CASE portOwner' = portOwner
    BY <1>18, <2>1 DEF PkgInstall, Mappable, NoModule, Module
  <2>2. ASSUME NEW mapped \in SUBSET job.declared,
               portOwner' = [q \in Ports |-> IF q \in mapped THEN "app"
                              ELSE IF portOwner[q] = "app" /\ q \notin job.declared THEN "none"
                              ELSE portOwner[q]]
        PROVE  PortInv'
    BY <1>18, <2>2 DEF PkgInstall, TypeOK, Jobs
  <2>3. ASSUME NEW loaded \in BOOLEAN, NEW mapped \in SUBSET Mappable(loaded)
        PROVE  mapped \in SUBSET job.declared
    BY <2>3 DEF Mappable
  <2>. QED BY <1>18, <2>1, <2>2, <2>3 DEF PkgInstall
<1>19. CASE PkgErase
  <2>1. CASE portOwner' = portOwner
    BY <1>19, <2>1 DEF PkgErase, Erased, NoModule, Module, Loaded, AppPorts
  <2>2. ASSUME NEW kept \in SUBSET (AppPorts \cap job.declared),
               portOwner' = [q \in Ports |-> IF q \in job.declared \ kept THEN "none" ELSE portOwner[q]]
        PROVE  PortInv'
    BY <1>19, <2>2 DEF PkgErase, TypeOK, Jobs
  <2>. QED BY <1>19, <2>1, <2>2 DEF PkgErase
<1>20. CASE Quiesce
  BY <1>20 DEF Quiesce, Spent, NewResult, Dead
<1>21. CASE References
  BY <1>21 DEF References, Deletable, AppPorts
<1>22. CASE Unload
  BY <1>22 DEF Unload, UnloadStaged, Unremoved, Fault, Refused, Referenced, NoModule, Module
<1>23. CASE Relabel
  BY <1>23 DEF Relabel, Fault
<1>24. CASE Deferred
  BY <1>24 DEF Deferred, StillPermitted, Fault
<1>25. CASE Kill
  BY <1>25 DEF Kill, Spent, NewResult
<1>26. CASE UNCHANGED vars
  BY <1>26 DEF vars
<1>. QED BY <1>1, <1>2, <1>3, <1>4, <1>5, <1>6, <1>7, <1>8, <1>9, <1>10, <1>11, <1>12, <1>13,
     <1>14, <1>15, <1>16, <1>17, <1>18, <1>19, <1>20, <1>21, <1>22, <1>23, <1>24, <1>25, <1>26 DEF
     Next, Run

\* ... that nothing dangerous is loaded unreviewed ...
LEMMA ReviewKept ==
  ASSUME IInv, [Next]_vars
  PROVE  ReviewInv'
<1>. USE DEF IInv, ReviewInv, ModuleInv, Modules, Checking, Setup, Observing, Enforcing,
     Packaging, Removing, Labels, Loaded, Grants, Jobs, Fresh, Risky, store, config, host, armed,
     loop, baseline, history, bounds, Fail, Goto, Quiet
<1>1. CASE Precheck \/ CheckConflict \/ CheckConflictAgain
  BY <1>1 DEF Precheck, CheckConflict, CheckConflictAgain, NameConflict, Loaded
<1>2. CASE BeginRun
  BY <1>2 DEF BeginRun, NewResult, Loaded
<1>3. CASE Install
  BY <1>3 DEF Install
<1>4. CASE Prepare
  BY <1>4 DEF Prepare
<1>5. CASE ObserveInstall \/ FinalInstall \/ EnforceInstall
  BY <1>5 DEF ObserveInstall, FinalInstall, EnforceInstall, InstallPolicy, Installed, Assignable,
       FinalTE, Module
<1>6. CASE Permit
  BY <1>6 DEF Permit
<1>7. CASE ObserveExercise
  BY <1>7 DEF ObserveExercise, Exercise, Drift, Module
<1>8. CASE EnforceExercise
  BY <1>8 DEF EnforceExercise, Captured, Conditions, Exercise, Drift, Module
<1>9. CASE ObserveEntrypoint \/ EnforceUnbound
  BY <1>9 DEF ObserveEntrypoint, EnforceUnbound
<1>10. CASE ObserveRefine
  BY <1>10 DEF ObserveRefine, MergeNewRules, Restorecon, Flagged
<1>11. CASE Recheck \/ RecheckAfter
  BY <1>11 DEF Recheck, RecheckAfter, Trustworthy
<1>12. CASE Unpermit
  BY <1>12 DEF Unpermit
<1>13. CASE EnforceSettled
  BY <1>13 DEF EnforceSettled, Enforced
<1>14. CASE EnforceRefine
  BY <1>14 DEF EnforceRefine, MergeNewRules, Restorecon, Flagged, NextAttempt
<1>15. CASE Static
  BY <1>15 DEF Static, StaticPassed
<1>16. CASE Package \/ Conclude
  BY <1>16 DEF Package, Conclude, IsFailure
<1>17. CASE PkgUnload
  BY <1>17 DEF PkgUnload, UnloadStaged, Fault, Refused, Referenced, NoModule, Module
<1>18. CASE PkgInstall
  BY <1>18 DEF PkgInstall, Mappable, NoModule, Module
<1>19. CASE PkgErase
  BY <1>19 DEF PkgErase, Erased, NoModule, Module, Loaded, AppPorts
<1>20. CASE Quiesce
  BY <1>20 DEF Quiesce, Spent, NewResult, Dead
<1>21. CASE References
  BY <1>21 DEF References, Deletable, AppPorts
<1>22. CASE Unload
  BY <1>22 DEF Unload, UnloadStaged, Unremoved, Fault, Refused, Referenced, NoModule, Module
<1>23. CASE Relabel
  BY <1>23 DEF Relabel, Fault
<1>24. CASE Deferred
  BY <1>24 DEF Deferred, StillPermitted, Fault
<1>25. CASE Kill
  BY <1>25 DEF Kill, Spent, NewResult
<1>26. CASE UNCHANGED vars
  BY <1>26 DEF vars
<1>. QED BY <1>1, <1>2, <1>3, <1>4, <1>5, <1>6, <1>7, <1>8, <1>9, <1>10, <1>11, <1>12, <1>13,
     <1>14, <1>15, <1>16, <1>17, <1>18, <1>19, <1>20, <1>21, <1>22, <1>23, <1>24, <1>25, <1>26 DEF
     Next, Run

\* ... that the judged text is the installed one ...
LEMMA PolicyKept ==
  ASSUME IInv, [Next]_vars
  PROVE  PolicyInv'
<1>. USE DEF IInv, PolicyInv, Modules, Checking, Setup, Observing, Enforcing, Packaging, Removing,
     Labels, FinalTE, Module, store, config, host, armed, loop, baseline, history, bounds, Fail,
     Goto, Quiet
<1>1. CASE Precheck \/ CheckConflict \/ CheckConflictAgain
  BY <1>1 DEF Precheck, CheckConflict, CheckConflictAgain, NameConflict, Loaded
<1>2. CASE BeginRun
  BY <1>2 DEF BeginRun, NewResult, Loaded
<1>3. CASE Install
  BY <1>3 DEF Install
<1>4. CASE Prepare
  BY <1>4 DEF Prepare
<1>5. CASE ObserveInstall \/ FinalInstall \/ EnforceInstall
  <2>1. res \in Results
    BY DEF TypeOK
  <2>2. \/ pc' = "quiesce"
        \/ /\ res' = [res EXCEPT !.te = FinalTE] /\ expected' = staged' /\ staged' = Module("ours", FinalTE)
           /\ UNCHANGED <<job, rules>> /\ pc' \in {"permit", "recheck", "enforceExercise"}
           /\ pc \in {"observeInstall", "finalInstall", "enforceInstall"}
    BY <1>5 DEF ObserveInstall, FinalInstall, EnforceInstall, InstallPolicy, Installed
  <2>. QED BY <2>1, <2>2 DEF Results
<1>6. CASE Permit
  BY <1>6 DEF Permit
<1>7. CASE ObserveExercise
  BY <1>7 DEF ObserveExercise, Exercise, Drift, Module
<1>8. CASE EnforceExercise
  <2>1. res \in Results
    BY DEF TypeOK
  <2>2. \/ pc' = "quiesce"
        \/ /\ pc' = "enforceJudge" /\ measured' = Conditions
           /\ \E ok \in {TRUE, FALSE}, dom \in {TRUE, FALSE}, exe \in {"none", "stray", disk, disk'} :
                res' = [res EXCEPT !.exerciseOK = ok, !.domainOK = dom, !.ran = IF ok /\ dom THEN exe ELSE "none"]
    BY <1>8 DEF EnforceExercise, Captured, Exercise
  <2>3. pc' = "enforceJudge" => res'.te = res.te /\ res'.enforceOK = res.enforceOK
    BY <2>1, <2>2 DEF Results
  <2>. QED BY <1>8, <2>2, <2>3 DEF EnforceExercise, Exercise
<1>9. CASE ObserveEntrypoint \/ EnforceUnbound
  BY <1>9 DEF ObserveEntrypoint, EnforceUnbound
<1>10. CASE ObserveRefine
  BY <1>10 DEF ObserveRefine, MergeNewRules, Restorecon, Flagged
<1>11. CASE Recheck \/ RecheckAfter
  BY <1>11 DEF Recheck, RecheckAfter, Trustworthy
<1>12. CASE Unpermit
  BY <1>12 DEF Unpermit
<1>13. CASE EnforceSettled
  BY <1>13 DEF EnforceSettled, Enforced
<1>14. CASE EnforceRefine
  <2>1. res \in Results
    BY DEF TypeOK
  <2>. QED BY <1>14, <2>1 DEF EnforceRefine, MergeNewRules, Restorecon, Flagged, NextAttempt,
       Results, NoNewRules
<1>15. CASE Static
  BY <1>15 DEF Static, StaticPassed
<1>16. CASE Package \/ Conclude
  BY <1>16 DEF Package, Conclude, IsFailure
<1>17. CASE PkgUnload
  BY <1>17 DEF PkgUnload, UnloadStaged, Fault, Refused, Referenced, NoModule, Module
<1>18. CASE PkgInstall
  BY <1>18 DEF PkgInstall, Mappable, NoModule, Module
<1>19. CASE PkgErase
  BY <1>19 DEF PkgErase, Erased, NoModule, Module, Loaded, AppPorts
<1>20. CASE Quiesce
  BY <1>20 DEF Quiesce, Spent, NewResult, Dead
<1>21. CASE References
  BY <1>21 DEF References, Deletable, AppPorts
<1>22. CASE Unload
  BY <1>22 DEF Unload, UnloadStaged, Unremoved, Fault, Refused, Referenced, NoModule, Module
<1>23. CASE Relabel
  BY <1>23 DEF Relabel, Fault
<1>24. CASE Deferred
  BY <1>24 DEF Deferred, StillPermitted, Fault
<1>25. CASE Kill
  BY <1>25 DEF Kill, Spent, NewResult
<1>26. CASE UNCHANGED vars
  BY <1>26 DEF vars
<1>. QED BY <1>1, <1>2, <1>3, <1>4, <1>5, <1>6, <1>7, <1>8, <1>9, <1>10, <1>11, <1>12, <1>13,
     <1>14, <1>15, <1>16, <1>17, <1>18, <1>19, <1>20, <1>21, <1>22, <1>23, <1>24, <1>25, <1>26 DEF
     Next, Run

\* ... what the last exercise ran under ...
LEMMA MeasureKept ==
  ASSUME IInv, [Next]_vars
  PROVE  MeasureInv'
<1>. USE DEF IInv, MeasureInv, PermissiveInv, ModuleInv, Modules, Checking, Setup, Observing, Enforcing,
     Packaging, Removing, Labels, Module, FinalTE, store, config, host, armed, loop, baseline,
     history, bounds, Fail, Goto, Quiet
<1>1. CASE Precheck \/ CheckConflict \/ CheckConflictAgain
  BY <1>1 DEF Precheck, CheckConflict, CheckConflictAgain, NameConflict, Loaded
<1>2. CASE BeginRun
  BY <1>2 DEF BeginRun, NewResult, Loaded
<1>3. CASE Install
  BY <1>3 DEF Install
<1>4. CASE Prepare
  BY <1>4 DEF Prepare
<1>5. CASE ObserveInstall \/ FinalInstall \/ EnforceInstall
  BY <1>5 DEF ObserveInstall, FinalInstall, EnforceInstall, InstallPolicy, Installed, Assignable,
       FinalTE, Module
<1>6. CASE Permit
  BY <1>6 DEF Permit
<1>7. CASE ObserveExercise
  BY <1>7 DEF ObserveExercise, Exercise, Drift, Module
<1>8. CASE EnforceExercise
  BY <1>8 DEF EnforceExercise, Captured, Conditions, Exercise, Drift, Module
<1>9. CASE ObserveEntrypoint \/ EnforceUnbound
  BY <1>9 DEF ObserveEntrypoint, EnforceUnbound
<1>10. CASE ObserveRefine
  BY <1>10 DEF ObserveRefine, MergeNewRules, Restorecon, Flagged
<1>11. CASE Recheck \/ RecheckAfter
  BY <1>11 DEF Recheck, RecheckAfter, Trustworthy
<1>12. CASE Unpermit
  BY <1>12 DEF Unpermit
<1>13. CASE EnforceSettled
  BY <1>13 DEF EnforceSettled, Enforced
<1>14. CASE EnforceRefine
  BY <1>14 DEF EnforceRefine, MergeNewRules, Restorecon, Flagged, NextAttempt
<1>15. CASE Static
  BY <1>15 DEF Static, StaticPassed
<1>16. CASE Package \/ Conclude
  BY <1>16 DEF Package, Conclude, IsFailure
<1>17. CASE PkgUnload
  BY <1>17 DEF PkgUnload, UnloadStaged, Fault, Refused, Referenced, NoModule, Module
<1>18. CASE PkgInstall
  BY <1>18 DEF PkgInstall, Mappable, NoModule, Module
<1>19. CASE PkgErase
  BY <1>19 DEF PkgErase, Erased, NoModule, Module, Loaded, AppPorts
<1>20. CASE Quiesce
  BY <1>20 DEF Quiesce, Spent, NewResult, Dead
<1>21. CASE References
  BY <1>21 DEF References, Deletable, AppPorts
<1>22. CASE Unload
  BY <1>22 DEF Unload, UnloadStaged, Unremoved, Fault, Refused, Referenced, NoModule, Module
<1>23. CASE Relabel
  BY <1>23 DEF Relabel, Fault
<1>24. CASE Deferred
  BY <1>24 DEF Deferred, StillPermitted, Fault
<1>25. CASE Kill
  BY <1>25 DEF Kill, Spent, NewResult
<1>26. CASE UNCHANGED vars
  BY <1>26 DEF vars
<1>. QED BY <1>1, <1>2, <1>3, <1>4, <1>5, <1>6, <1>7, <1>8, <1>9, <1>10, <1>11, <1>12, <1>13,
     <1>14, <1>15, <1>16, <1>17, <1>18, <1>19, <1>20, <1>21, <1>22, <1>23, <1>24, <1>25, <1>26 DEF
     Next, Run

\* ... what the enforce loop may have concluded ...
LEMMA EnforceKept ==
  ASSUME IInv, [Next]_vars
  PROVE  EnforceInv'
<1>. USE DEF IInv, EnforceInv, PolicyInv, MeasureInv, Modules, Checking, Setup, Observing,
     Enforcing, Packaging, Removing, Labels, Measured, Module, FinalTE, Unbound, store, config,
     host, armed, loop, baseline, history, bounds, Fail, Goto, Quiet
<1>1. CASE Precheck \/ CheckConflict \/ CheckConflictAgain
  BY <1>1 DEF Precheck, CheckConflict, CheckConflictAgain, NameConflict, Loaded
<1>2. CASE BeginRun
  <2>1. res \in Results
    BY DEF TypeOK
  <2>. QED BY <1>2, <2>1 DEF BeginRun, NewResult, Loaded, Results
<1>3. CASE Install
  BY <1>3 DEF Install
<1>4. CASE Prepare
  <2>1. res \in Results
    BY DEF TypeOK
  <2>. QED BY <1>4, <2>1 DEF Prepare, Results
<1>5. CASE ObserveInstall \/ FinalInstall \/ EnforceInstall
  <2>1. res \in Results
    BY DEF TypeOK
  <2>2. \/ pc' = "quiesce"
        \/ /\ res' = [res EXCEPT !.te = FinalTE] /\ expected' = staged' /\ staged' = Module("ours", FinalTE)
           /\ UNCHANGED <<job, rules>> /\ pc' \in {"permit", "recheck", "enforceExercise"}
           /\ pc \in {"observeInstall", "finalInstall", "enforceInstall"}
    BY <1>5 DEF ObserveInstall, FinalInstall, EnforceInstall, InstallPolicy, Installed
  <2>. QED BY <2>1, <2>2 DEF Results
<1>6. CASE Permit
  BY <1>6 DEF Permit
<1>7. CASE ObserveExercise
  <2>1. res \in Results
    BY DEF TypeOK
  <2>2. pc' = "quiesce" \/ (pc' = "observeRefine" /\ \E ok \in BOOLEAN : res' = [res EXCEPT !.exerciseOK = ok])
    BY <1>7 DEF ObserveExercise, Exercise
  <2>. QED BY <1>7, <2>1, <2>2 DEF ObserveExercise, Results
<1>8. CASE EnforceExercise
  <2>1. res \in Results
    BY DEF TypeOK
  <2>2. \/ pc' = "quiesce"
        \/ /\ pc' = "enforceJudge" /\ measured' = Conditions
           /\ \E ok \in {TRUE, FALSE}, dom \in {TRUE, FALSE}, exe \in {"none", "stray", disk, disk'} :
                res' = [res EXCEPT !.exerciseOK = ok, !.domainOK = dom, !.ran = IF ok /\ dom THEN exe ELSE "none"]
    BY <1>8 DEF EnforceExercise, Captured, Exercise
  <2>3. pc' = "enforceJudge" => res'.te = res.te /\ res'.enforceOK = res.enforceOK
    BY <2>1, <2>2 DEF Results
  <2>. QED BY <1>8, <2>2, <2>3 DEF EnforceExercise, Exercise
<1>9. CASE ObserveEntrypoint \/ EnforceUnbound
  BY <1>9 DEF ObserveEntrypoint, EnforceUnbound
<1>10. CASE ObserveRefine
  <2>1. res \in Results
    BY DEF TypeOK
  <2>. QED BY <1>10, <2>1 DEF ObserveRefine, MergeNewRules, Restorecon, Flagged, Results
<1>11. CASE Recheck \/ RecheckAfter
  BY <1>11 DEF Recheck, RecheckAfter, Trustworthy
<1>12. CASE Unpermit
  BY <1>12 DEF Unpermit
<1>13. CASE EnforceSettled
  <2>1. res \in Results
    BY DEF TypeOK
  <2>. QED BY <1>13, <2>1 DEF EnforceSettled, Enforced, Results
<1>14. CASE EnforceRefine
  <2>1. res \in Results
    BY DEF TypeOK
  <2>. QED BY <1>14, <2>1 DEF EnforceRefine, MergeNewRules, Restorecon, Flagged, NextAttempt,
       Results
<1>15. CASE Static
  <2>1. res \in Results
    BY DEF TypeOK
  <2>. QED BY <1>15, <2>1 DEF Static, StaticPassed, Results
<1>16. CASE Package \/ Conclude
  BY <1>16 DEF Package, Conclude, IsFailure
<1>17. CASE PkgUnload
  BY <1>17 DEF PkgUnload, UnloadStaged, Fault, Refused, Referenced, NoModule, Module
<1>18. CASE PkgInstall
  BY <1>18 DEF PkgInstall, Mappable, NoModule, Module
<1>19. CASE PkgErase
  BY <1>19 DEF PkgErase, Erased, NoModule, Module, Loaded, AppPorts
<1>20. CASE Quiesce
  BY <1>20 DEF Quiesce, Spent, NewResult, Dead
<1>21. CASE References
  BY <1>21 DEF References, Deletable, AppPorts
<1>22. CASE Unload
  BY <1>22 DEF Unload, UnloadStaged, Unremoved, Fault, Refused, Referenced, NoModule, Module
<1>23. CASE Relabel
  BY <1>23 DEF Relabel, Fault
<1>24. CASE Deferred
  BY <1>24 DEF Deferred, StillPermitted, Fault
<1>25. CASE Kill
  BY <1>25 DEF Kill, Spent, NewResult
<1>26. CASE UNCHANGED vars
  BY <1>26 DEF vars
<1>. QED BY <1>1, <1>2, <1>3, <1>4, <1>5, <1>6, <1>7, <1>8, <1>9, <1>10, <1>11, <1>12, <1>13,
     <1>14, <1>15, <1>16, <1>17, <1>18, <1>19, <1>20, <1>21, <1>22, <1>23, <1>24, <1>25, <1>26 DEF
     Next, Run

\* ... what the static checks have seen ...
LEMMA VerifiedKept ==
  ASSUME IInv, [Next]_vars
  PROVE  VerifiedInv'
<1>. USE DEF IInv, VerifiedInv, EnforceInv, PolicyInv, CleanInv, Modules, Checking, Setup,
     Observing, Enforcing, Packaging, Removing, Labels, Verified, Measured, IsFailure, FinalTE,
     Module, WriteExec, store, config, host, armed, loop, baseline, history, bounds, Fail, Goto,
     Quiet
<1>1. CASE Precheck \/ CheckConflict \/ CheckConflictAgain
  BY <1>1 DEF Precheck, CheckConflict, CheckConflictAgain, NameConflict, Loaded
<1>2. CASE BeginRun
  BY <1>2 DEF BeginRun, NewResult, Loaded
<1>3. CASE Install
  BY <1>3 DEF Install
<1>4. CASE Prepare
  BY <1>4 DEF Prepare
<1>5. CASE ObserveInstall \/ FinalInstall \/ EnforceInstall
  BY <1>5 DEF ObserveInstall, FinalInstall, EnforceInstall, InstallPolicy, Installed, Assignable,
       FinalTE, Module
<1>6. CASE Permit
  BY <1>6 DEF Permit
<1>7. CASE ObserveExercise
  BY <1>7 DEF ObserveExercise, Exercise, Drift, Module
<1>8. CASE EnforceExercise
  BY <1>8 DEF EnforceExercise, Captured, Conditions, Exercise, Drift, Module
<1>9. CASE ObserveEntrypoint \/ EnforceUnbound
  BY <1>9 DEF ObserveEntrypoint, EnforceUnbound
<1>10. CASE ObserveRefine
  BY <1>10 DEF ObserveRefine, MergeNewRules, Restorecon, Flagged
<1>11. CASE Recheck \/ RecheckAfter
  BY <1>11 DEF Recheck, RecheckAfter, Trustworthy
<1>12. CASE Unpermit
  BY <1>12 DEF Unpermit
<1>13. CASE EnforceSettled
  BY <1>13 DEF EnforceSettled, Enforced
<1>14. CASE EnforceRefine
  BY <1>14 DEF EnforceRefine, MergeNewRules, Restorecon, Flagged, NextAttempt
<1>15. CASE Static
  <2>1. res \in Results
    BY DEF TypeOK
  <2>2. CASE pc' = "quiesce"
    BY <2>2
  <2>3. CASE res' = [res EXCEPT !.flags = @ \cup WriteExec, !.rules = rules] /\ StaticPassed
    <3>1. /\ res'.te = res.te /\ res'.rules = rules /\ res'.flags = res.flags \cup WriteExec
          /\ res'.digest = res.digest /\ res'.ran = res.ran /\ res'.enforceOK = res.enforceOK
      BY <2>1, <2>3 DEF Results
    <3>2. Measured /\ res.te = job.capable \cup rules /\ disk = res.digest
          /\ (res.enforceOK => res.ran = res.digest)
      BY <1>15, <2>3 DEF Static, StaticPassed
    <3>3. UNCHANGED <<job, disk, measured>>
      BY <1>15 DEF Static
    <3>. QED BY <3>1, <3>2, <3>3
  <2>. QED BY <1>15, <2>2, <2>3 DEF Static
<1>16. CASE Package \/ Conclude
  BY <1>16 DEF Package, Conclude, IsFailure
<1>17. CASE PkgUnload
  BY <1>17 DEF PkgUnload, UnloadStaged, Fault, Refused, Referenced, NoModule, Module
<1>18. CASE PkgInstall
  <2>1. res \in Results /\ measured \in Measurements
    BY DEF TypeOK
  <2>2. \/ pc' = "quiesce"
        \/ \E ok \in BOOLEAN : res' \in {[res EXCEPT !.packageOK = ok], [res EXCEPT !.packageOK = ok, !.failed = ~ok]}
    BY <1>18 DEF PkgInstall
  <2>3. measured' = measured \/ \E b : measured' = [measured EXCEPT !.shadowed = b]
    BY <1>18 DEF PkgInstall
  <2>4. /\ measured'.module = measured.module /\ measured'.foreign = measured.foreign
        /\ measured'.permissive = measured.permissive /\ measured'.observing = measured.observing
    BY <2>1, <2>3 DEF Measurements
  <2>5. \/ pc' = "quiesce"
        \/ /\ res'.te = res.te /\ res'.rules = res.rules /\ res'.flags = res.flags
           /\ res'.digest = res.digest /\ res'.ran = res.ran /\ res'.enforceOK = res.enforceOK
    BY <2>1, <2>2 DEF Results
  <2>6. Verified /\ UNCHANGED <<job, disk>> /\ pc' \in {"quiesce", "pkgErase"}
    BY <1>18 DEF PkgInstall
  <2>. QED BY <2>4, <2>5, <2>6
<1>19. CASE PkgErase
  <2>1. res \in Results /\ measured \in Measurements
    BY DEF TypeOK
  <2>2. \/ pc' = "quiesce"
        \/ \E ok \in BOOLEAN : res' \in {[res EXCEPT !.packageOK = ok], [res EXCEPT !.packageOK = ok, !.failed = ~ok]}
    BY <1>19 DEF PkgErase, Erased
  <2>3. measured' = measured \/ \E b : measured' = [measured EXCEPT !.shadowed = b]
    BY <1>19 DEF PkgErase, Erased
  <2>4. /\ measured'.module = measured.module /\ measured'.foreign = measured.foreign
        /\ measured'.permissive = measured.permissive /\ measured'.observing = measured.observing
    BY <2>1, <2>3 DEF Measurements
  <2>5. \/ pc' = "quiesce"
        \/ /\ res'.te = res.te /\ res'.rules = res.rules /\ res'.flags = res.flags
           /\ res'.digest = res.digest /\ res'.ran = res.ran /\ res'.enforceOK = res.enforceOK
    BY <2>1, <2>2 DEF Results
  <2>6. Verified /\ UNCHANGED <<job, disk>> /\ pc' \in {"quiesce", "conclude"}
    BY <1>19 DEF PkgErase, Erased
  <2>. QED BY <2>4, <2>5, <2>6
<1>20. CASE Quiesce
  BY <1>20 DEF Quiesce, Spent, NewResult, Dead
<1>21. CASE References
  BY <1>21 DEF References, Deletable, AppPorts
<1>22. CASE Unload
  BY <1>22 DEF Unload, UnloadStaged, Unremoved, Fault, Refused, Referenced, NoModule, Module
<1>23. CASE Relabel
  BY <1>23 DEF Relabel, Fault
<1>24. CASE Deferred
  BY <1>24 DEF Deferred, StillPermitted, Fault
<1>25. CASE Kill
  BY <1>25 DEF Kill, Spent, NewResult
<1>26. CASE UNCHANGED vars
  BY <1>26 DEF vars
<1>. QED BY <1>1, <1>2, <1>3, <1>4, <1>5, <1>6, <1>7, <1>8, <1>9, <1>10, <1>11, <1>12, <1>13,
     <1>14, <1>15, <1>16, <1>17, <1>18, <1>19, <1>20, <1>21, <1>22, <1>23, <1>24, <1>25, <1>26 DEF
     Next, Run

\* ... what the package checks have seen ...
LEMMA CleanKept ==
  ASSUME IInv, [Next]_vars
  PROVE  CleanInv'
<1>. USE DEF IInv, CleanInv, VerifiedInv, PermissiveInv, TouchedInv, ModuleInv, Modules, Checking, Setup,
     Observing, Enforcing, Packaging, Removing, Labels, IsFailure, Loaded, AppPorts, Module,
     NoModule, store, config, host, armed, loop, baseline, history, bounds, Fail, Goto, Quiet
<1>0. /\ TypeOK /\ TypeOK' /\ faults \in Nat
      /\ UNCHANGED labels /\ faults <= faults' => Labelled' = Labelled /\ (LabelsCounted => LabelsCounted')
  BY TypeKept, LabelsKept, PipelineAssumption DEF TypeOK, PipelineAssumption
<1>1. CASE Precheck \/ CheckConflict \/ CheckConflictAgain
  BY <1>1 DEF Precheck, CheckConflict, CheckConflictAgain, NameConflict, Loaded
<1>2. CASE BeginRun
  BY <1>2 DEF BeginRun, NewResult, Loaded
<1>3. CASE Install
  BY <1>3 DEF Install
<1>4. CASE Prepare
  BY <1>4 DEF Prepare
<1>5. CASE ObserveInstall \/ FinalInstall \/ EnforceInstall
  BY <1>5 DEF ObserveInstall, FinalInstall, EnforceInstall, InstallPolicy, Installed, Assignable,
       FinalTE, Module
<1>6. CASE Permit
  BY <1>6 DEF Permit
<1>7. CASE ObserveExercise
  BY <1>7 DEF ObserveExercise, Exercise, Drift, Module
<1>8. CASE EnforceExercise
  BY <1>8 DEF EnforceExercise, Captured, Conditions, Exercise, Drift, Module
<1>9. CASE ObserveEntrypoint \/ EnforceUnbound
  BY <1>9 DEF ObserveEntrypoint, EnforceUnbound
<1>10. CASE ObserveRefine
  BY <1>10 DEF ObserveRefine, MergeNewRules, Restorecon, Flagged
<1>11. CASE Recheck \/ RecheckAfter
  BY <1>11 DEF Recheck, RecheckAfter, Trustworthy
<1>12. CASE Unpermit
  BY <1>12 DEF Unpermit
<1>13. CASE EnforceSettled
  BY <1>13 DEF EnforceSettled, Enforced
<1>14. CASE EnforceRefine
  BY <1>14 DEF EnforceRefine, MergeNewRules, Restorecon, Flagged, NextAttempt
<1>15. CASE Static
  <2>1. res \in Results
    BY DEF TypeOK
  <2>. QED BY <1>15, <2>1 DEF Static, StaticPassed, Results
<1>16. CASE Package \/ Conclude
  BY <1>0, <1>16 DEF Package, Conclude, IsFailure
<1>17. CASE PkgUnload
  BY <1>17 DEF PkgUnload, UnloadStaged, Fault, Refused, Referenced, NoModule, Module
<1>18. CASE PkgInstall
  <2>1. res \in Results /\ measured \in Measurements
    BY DEF TypeOK
  <2>. QED BY <1>18, <2>1 DEF PkgInstall, Mappable, NoModule, Module, Results, Measurements
<1>19. CASE PkgErase
  <2>1. CASE pc' = "quiesce" /\ res'.failed
    BY <1>19, <2>1 DEF PkgErase
  <2>2. ASSUME NEW unloaded \in BOOLEAN, NEW missed \in SUBSET Files,
               NEW kept \in SUBSET (AppPorts \cap job.declared), Erased,
               faults' = faults + Cardinality(kept) + Cardinality(missed)
                         + (IF unloaded THEN 0 ELSE 1),
               RestoreLabels(Files \ missed)
        PROVE  LabelsCounted'
    <3>. DEFINE others == Cardinality(kept) + (IF unloaded THEN 0 ELSE 1)
    <3>1. Cardinality(kept) \in Nat /\ Cardinality(missed) \in Nat
      BY <1>0, PortsCounted, FilesCounted, PipelineAssumption DEF AppPorts
    <3>2. others \in Nat /\ faults' = faults + others + Cardinality(missed)
      BY <1>0, <2>2, <3>1
    <3>. HIDE DEF others
    <3>3. ~Loaded'
      BY <2>2 DEF Erased
    <3>. QED BY <1>0, <2>2, <3>2, <3>3, LabelsRestored
  <2>3. CASE pc' = "conclude" /\ Erased /\ LabelsCounted' /\ ~res'.failed
    <3>1. unit = "stopped" /\ permissive = FALSE /\ UNCHANGED <<unit, permissive, job, measured, staged>>
      BY <1>0, <1>19 DEF PkgErase, TypeOK
    <3>2. ~measured.shadowed
      BY <1>19, <2>3 DEF PkgErase, Erased, Loaded
    <3>. QED BY <2>3, <3>1, <3>2 DEF Erased
  <2>4. res \in Results
    BY <1>0 DEF TypeOK
  <2>5. \/ pc' = "quiesce" /\ res'.failed
        \/ pc' = "conclude" /\ Erased /\ LabelsCounted' /\ ~res'.failed
    BY <1>19, <2>2, <2>4 DEF PkgErase, Results
  <2>. QED BY <2>1, <2>3, <2>5
<1>20. CASE Quiesce
  BY <1>20 DEF Quiesce, Spent, NewResult, Dead
<1>21. CASE References
  BY <1>21 DEF References, Deletable, AppPorts
<1>22. CASE Unload
  BY <1>22 DEF Unload, UnloadStaged, Unremoved, Fault, Refused, Referenced, NoModule, Module
<1>23. CASE Relabel
  BY <1>23 DEF Relabel, Fault
<1>24. CASE Deferred
  BY <1>0, <1>24, PipelineAssumption DEF Deferred, StillPermitted, Fault
<1>25. CASE Kill
  BY <1>25 DEF Kill, Spent, NewResult
<1>26. CASE UNCHANGED vars
  BY <1>0, <1>26 DEF vars
<1>. QED BY <1>1, <1>2, <1>3, <1>4, <1>5, <1>6, <1>7, <1>8, <1>9, <1>10, <1>11, <1>12, <1>13,
     <1>14, <1>15, <1>16, <1>17, <1>18, <1>19, <1>20, <1>21, <1>22, <1>23, <1>24, <1>25, <1>26 DEF
     Next, Run

\* ... what a strict store can still name ...
LEMMA ReferenceKept ==
  ASSUME IInv, [Next]_vars
  PROVE  ReferenceInv'
<1>. USE DEF IInv, ReferenceInv, ModuleInv, Modules, Checking, Setup, Observing, Enforcing,
     Packaging, Removing, Labels, Referenced, Loaded, AppPorts, store, config, host, armed, loop,
     baseline, history, bounds, Fail, Goto, Quiet
<1>0. /\ TypeOK /\ TypeOK' /\ faults \in Nat
      /\ UNCHANGED labels /\ faults <= faults' => Labelled' = Labelled /\ (LabelsCounted => LabelsCounted')
  BY TypeKept, LabelsKept, PipelineAssumption DEF TypeOK, PipelineAssumption
<1>1. CASE Precheck \/ CheckConflict \/ CheckConflictAgain
  BY <1>1 DEF Precheck, CheckConflict, CheckConflictAgain, NameConflict, Loaded
<1>2. CASE BeginRun
  BY <1>2 DEF BeginRun, NewResult, Loaded
<1>3. CASE Install
  BY <1>3 DEF Install
<1>4. CASE Prepare
  BY <1>4 DEF Prepare
<1>5. CASE ObserveInstall \/ FinalInstall \/ EnforceInstall
  BY <1>5 DEF ObserveInstall, FinalInstall, EnforceInstall, InstallPolicy, Installed, Assignable,
       FinalTE, Module
<1>6. CASE Permit
  BY <1>6 DEF Permit
<1>7. CASE ObserveExercise
  BY <1>7 DEF ObserveExercise, Exercise, Drift, Module
<1>8. CASE EnforceExercise
  BY <1>8 DEF EnforceExercise, Captured, Conditions, Exercise, Drift, Module
<1>9. CASE ObserveEntrypoint \/ EnforceUnbound
  BY <1>9 DEF ObserveEntrypoint, EnforceUnbound
<1>10. CASE ObserveRefine
  BY <1>10 DEF ObserveRefine, MergeNewRules, Restorecon, Flagged
<1>11. CASE Recheck \/ RecheckAfter
  BY <1>11 DEF Recheck, RecheckAfter, Trustworthy
<1>12. CASE Unpermit
  <2>1. permissive' => permissive
    BY <1>0, <1>12 DEF Unpermit, TypeOK
  <2>2. /\ UNCHANGED <<left, staged, packaged, portOwner>> /\ pc = "unpermit" /\ pc' # "relabel"
    BY <1>12 DEF Unpermit
  <2>. QED BY <2>1, <2>2
<1>13. CASE EnforceSettled
  BY <1>13 DEF EnforceSettled, Enforced
<1>14. CASE EnforceRefine
  BY <1>14 DEF EnforceRefine, MergeNewRules, Restorecon, Flagged, NextAttempt
<1>15. CASE Static
  BY <1>15 DEF Static, StaticPassed
<1>16. CASE Package \/ Conclude
  BY <1>16 DEF Package, Conclude, IsFailure
<1>17. CASE PkgUnload
  BY <1>17 DEF PkgUnload, UnloadStaged, Fault, Refused, Referenced, NoModule, Module
<1>18. CASE PkgInstall
  <2>1. packaged.owner = "none"
    BY <1>18 DEF PkgInstall
  <2>2. CASE portOwner' = portOwner
    BY <1>18, <2>1, <2>2 DEF PkgInstall, Mappable, NoModule, Module
  <2>3. ASSUME NEW loaded \in BOOLEAN, NEW mapped \in SUBSET Mappable(loaded),
               packaged' = IF loaded THEN Module("ours", res.te) ELSE NoModule,
               portOwner' = [q \in Ports |-> IF q \in mapped THEN "app"
                              ELSE IF portOwner[q] = "app" /\ q \notin job.declared THEN "none"
                              ELSE portOwner[q]]
        PROVE  ReferenceInv'
    <3>1. CASE loaded
      BY <1>18, <2>3, <3>1 DEF PkgInstall, Module
    <3>2. CASE ~loaded /\ ~Loaded
      BY <1>18, <2>3, <3>2 DEF PkgInstall, Mappable, Module, NoModule
    <3>3. CASE ~loaded /\ Loaded
      BY <1>18, <2>1, <2>3, <3>3 DEF PkgInstall, Module, NoModule
    <3>. QED BY <3>1, <3>2, <3>3
  <2>. QED BY <1>18, <2>2, <2>3 DEF PkgInstall
<1>19. CASE PkgErase
  <2>1. CASE UNCHANGED <<packaged, portOwner>>
    BY <1>19, <2>1 DEF PkgErase
  <2>2. ASSUME NEW unloaded \in BOOLEAN, NEW kept \in SUBSET (AppPorts \cap job.declared),
               portOwner' = [q \in Ports |-> IF q \in job.declared \ kept THEN "none" ELSE portOwner[q]],
               packaged' = IF unloaded /\ ~(StrictStore /\ Referenced' /\ staged.owner = "none")
                           THEN NoModule ELSE packaged
        PROVE  ReferenceInv'
    <3>1. Referenced' => Referenced
      BY <1>19, <2>2 DEF PkgErase
    <3>2. StrictStore /\ Referenced' => Loaded'
      BY <1>19, <2>2, <3>1 DEF PkgErase, NoModule, Module
    <3>. QED BY <1>19, <3>2 DEF PkgErase
  <2>. QED BY <1>19, <2>1, <2>2 DEF PkgErase
<1>20. CASE Quiesce
  BY <1>20 DEF Quiesce, Spent, NewResult, Dead
<1>21. CASE References
  BY <1>21 DEF References, Deletable, AppPorts
<1>22. CASE Unload
  BY <1>22 DEF Unload, UnloadStaged, Unremoved, Fault, Refused, Referenced, NoModule, Module
<1>23. CASE Relabel
  <2>1. PICK missed \in SUBSET Files :
          faults' = faults + Cardinality(missed) /\ RestoreLabels(Files \ missed)
    BY <1>23 DEF Relabel
  <2>2. 0 \in Nat /\ faults' = faults + 0 + Cardinality(missed)
    BY <1>0, <2>1, FilesCounted
  <2>3. ~Loaded'
    BY <1>23 DEF Relabel
  <2>4. LabelsCounted'
    BY <1>0, <2>1, <2>2, <2>3, LabelsRestored
  <2>. QED BY <1>23, <2>3, <2>4 DEF Relabel
<1>24. CASE Deferred
  BY <1>0, <1>24, PipelineAssumption DEF Deferred, StillPermitted, Fault
<1>25. CASE Kill
  BY <1>25 DEF Kill, Spent, NewResult
<1>26. CASE UNCHANGED vars
  BY <1>0, <1>26 DEF vars
<1>. QED BY <1>1, <1>2, <1>3, <1>4, <1>5, <1>6, <1>7, <1>8, <1>9, <1>10, <1>11, <1>12, <1>13,
     <1>14, <1>15, <1>16, <1>17, <1>18, <1>19, <1>20, <1>21, <1>22, <1>23, <1>24, <1>25, <1>26 DEF
     Next, Run

\* ... and that a run which found a leftover goes no further than looking.
LEMMA FoundKept ==
  ASSUME IInv, [Next]_vars
  PROVE  FoundInv'
<1>. USE DEF IInv, FoundInv, TouchedInv, CleanInv, Modules, Checking, Setup, Observing, Enforcing,
     Packaging, Removing, Labels, IsFailure, Loaded, store, config, host, armed, loop, baseline,
     history, bounds, Fail, Goto, Quiet
<1>1. CASE Precheck \/ CheckConflict \/ CheckConflictAgain
  BY <1>1 DEF Precheck, CheckConflict, CheckConflictAgain, NameConflict, Loaded
<1>2. CASE BeginRun
  <2>1. runs' > 0
    BY <1>2, PipelineAssumption DEF BeginRun, TypeOK, PipelineAssumption
  <2>. QED BY <1>2, <2>1 DEF BeginRun, NewResult
<1>3. CASE Install
  BY <1>3 DEF Install
<1>4. CASE Prepare
  BY <1>4 DEF Prepare
<1>5. CASE ObserveInstall \/ FinalInstall \/ EnforceInstall
  BY <1>5 DEF ObserveInstall, FinalInstall, EnforceInstall, InstallPolicy, Installed, Assignable,
       FinalTE, Module
<1>6. CASE Permit
  BY <1>6 DEF Permit
<1>7. CASE ObserveExercise
  BY <1>7 DEF ObserveExercise, Exercise, Drift, Module
<1>8. CASE EnforceExercise
  BY <1>8 DEF EnforceExercise, Captured, Conditions, Exercise, Drift, Module
<1>9. CASE ObserveEntrypoint \/ EnforceUnbound
  BY <1>9 DEF ObserveEntrypoint, EnforceUnbound
<1>10. CASE ObserveRefine
  BY <1>10 DEF ObserveRefine, MergeNewRules, Restorecon, Flagged
<1>11. CASE Recheck \/ RecheckAfter
  BY <1>11 DEF Recheck, RecheckAfter, Trustworthy
<1>12. CASE Unpermit
  BY <1>12 DEF Unpermit
<1>13. CASE EnforceSettled
  BY <1>13 DEF EnforceSettled, Enforced
<1>14. CASE EnforceRefine
  BY <1>14 DEF EnforceRefine, MergeNewRules, Restorecon, Flagged, NextAttempt
<1>15. CASE Static
  BY <1>15 DEF Static, StaticPassed
<1>16. CASE Package \/ Conclude
  BY <1>16 DEF Package, Conclude, IsFailure
<1>17. CASE PkgUnload
  BY <1>17 DEF PkgUnload, UnloadStaged, Fault, Refused, Referenced, NoModule, Module
<1>18. CASE PkgInstall
  BY <1>18 DEF PkgInstall, Mappable, NoModule, Module
<1>19. CASE PkgErase
  BY <1>19 DEF PkgErase, Erased, NoModule, Module, Loaded, AppPorts
<1>20. CASE Quiesce
  BY <1>20 DEF Quiesce, Spent, NewResult, Dead
<1>21. CASE References
  BY <1>21 DEF References, Deletable, AppPorts
<1>22. CASE Unload
  BY <1>22 DEF Unload, UnloadStaged, Unremoved, Fault, Refused, Referenced, NoModule, Module
<1>23. CASE Relabel
  BY <1>23 DEF Relabel, Fault
<1>24. CASE Deferred
  BY <1>24 DEF Deferred, StillPermitted, Fault
<1>25. CASE Kill
  BY <1>25 DEF Kill, Spent, NewResult
<1>26. CASE UNCHANGED vars
  BY <1>26 DEF vars
<1>. QED BY <1>1, <1>2, <1>3, <1>4, <1>5, <1>6, <1>7, <1>8, <1>9, <1>10, <1>11, <1>12, <1>13,
     <1>14, <1>15, <1>16, <1>17, <1>18, <1>19, <1>20, <1>21, <1>22, <1>23, <1>24, <1>25, <1>26 DEF
     Next, Run

\* Every step keeps the invariant.
LEMMA InvKept ==
  ASSUME IInv, [Next]_vars
  PROVE  IInv'
<1>1. TypeOK'
  BY TypeKept, PipelineAssumption DEF IInv
<1>. QED BY <1>1, ModuleKept, TouchedKept, PermissiveKept, PortKept, ReviewKept, PolicyKept,
     MeasureKept, EnforceKept,
            VerifiedKept, CleanKept, ReferenceKept, FoundKept DEF IInv

\* The program starts within the invariant.
LEMMA InitInv ==
  ASSUME Init
  PROVE  IInv
<1>1. TypeOK
  <2>1. /\ staged \in Modules /\ packaged \in Modules /\ expected \in Modules
        /\ res \in Results /\ measured \in Measurements
    BY ModulesTyped, NewResultTyped, MeasurementsTyped DEF Init
  <2>2. pc \in Labels /\ rules \in Grants /\ seen \subseteq Access
    BY DEF Init, Labels, Grants
  <2>3. job \in Jobs
    BY DEF Init, Jobs
  <2>4. runs \in 0..MaxRuns /\ faults \in 0..MaxFaults /\ drifts \in 0..MaxDrifts /\ kills \in 0..MaxKills
    BY PipelineAssumption DEF Init, PipelineAssumption
  <2>5. portOwner \in [Ports -> {"none", "foreign", "app"}]
    BY DEF Init
  <2>. QED BY <2>1, <2>2, <2>3, <2>4, <2>5 DEF Init, TypeOK
<1>2. res = NewResult /\ IsFailure
  BY DEF Init, NewResult, IsFailure
<1>3. /\ pc = "idle" /\ packaged = NoModule /\ staged.owner # "ours" /\ left = "none"
      /\ ~moduleInstalled /\ ~targetTouched /\ ~permissive /\ rules = {}
  BY DEF Init, Module, NoModule
<1>4. StrictStore => AppPorts = {}
  BY DEF Init, AppPorts
<1>5. ModuleInv /\ TouchedInv /\ PolicyInv /\ MeasureInv /\ EnforceInv
  BY <1>3 DEF ModuleInv, TouchedInv, PolicyInv, MeasureInv, EnforceInv, Checking, Setup,
       Observing, Enforcing,
     Packaging, Removing
<1>6. PermissiveInv /\ PortInv
  BY <1>3 DEF PermissiveInv, PreservedEnforced, PortInv, OnlyDeclaredPorts, Checking, Setup,
       Observing, Enforcing,
     Packaging
<1>7. ReviewInv /\ VerifiedInv /\ CleanInv /\ FoundInv
  BY <1>2, <1>3 DEF ReviewInv, VerifiedInv, CleanInv, FoundInv, Checking, Packaging, Removing
<1>8. ReferenceInv
  BY <1>3, <1>4 DEF ReferenceInv, Referenced
<1>. QED BY <1>1, <1>5, <1>6, <1>7, <1>8 DEF IInv

\* The invariant is strong enough.
LEMMA InvImplies ==
  ASSUME IInv
  PROVE  /\ TypeOK /\ ReviewedGrants /\ NothingForgotten /\ PassMeansEnforced /\ BytesBound /\ PackageUnderTest
         /\ PassLeavesClean /\ OnlyDeclaredPorts /\ PreservedEnforced
         /\ StrictStore => CleanOrReported
<1>1. TypeOK /\ OnlyDeclaredPorts /\ PreservedEnforced
  BY DEF IInv, PortInv, PermissiveInv
<1>2. NothingForgotten
  BY DEF IInv, PolicyInv, NothingForgotten, Enforcing
<1>3. Passed => Verified /\ res.enforceOK
  BY DEF IInv, VerifiedInv, Passed, IsFailure
<1>4. PassMeansEnforced /\ BytesBound
  BY <1>3 DEF PassMeansEnforced, BytesBound, Verified, Measured
<1>5. PackageUnderTest /\ PassLeavesClean
  BY DEF IInv, CleanInv, LabelsCounted, PackageUnderTest, PassLeavesClean, Passed
<1>6. ReviewedGrants
  <2>1. moduleInstalled /\ staged.owner = "ours" /\ staged.te \cap Dangerous # {} => job.accept
    BY DEF IInv, ReviewInv
  <2>2. ASSUME Passed, Hybrid # {}, Hybrid \subseteq res.te PROVE job.accept
    <3>1. job.capable \subseteq Dangerous
      BY DEF IInv, TypeOK, Jobs
    <3>2. Hybrid \subseteq res.rules
      BY <1>3, <2>2, <3>1, PipelineAssumption DEF Verified, PipelineAssumption
    <3>3. res.flags # {}
      BY <1>3, <2>2, <3>2 DEF Verified
    <3>. QED BY <2>2, <3>3 DEF Passed, IsFailure
  <2>. QED BY <2>1, <2>2 DEF ReviewedGrants
<1>7. ASSUME StrictStore PROVE CleanOrReported
  BY <1>7 DEF IInv, ReferenceInv, LabelsCounted, CleanOrReported, Referenced
<1>. QED BY <1>1, <1>2, <1>4, <1>5, <1>6, <1>7

-----------------------------------------------------------------------------
(* What no step does. *)

\* A step that leaves no module of the app's name finds or makes the unit stopped.
LEMMA TornDownDead ==
  ASSUME IInv, [Next]_vars, Loaded, ~Loaded'
  PROVE  unit' = "stopped"
<1>. USE DEF store, config, host, armed, loop, baseline, history, bounds
<1>1. CASE pc \in Packaging \cup Removing /\ UNCHANGED unit
  BY <1>1 DEF IInv, TouchedInv
<1>2. CASE PkgUnload \/ PkgInstall \/ PkgErase \/ Unload
  BY <1>1, <1>2 DEF PkgUnload, PkgInstall, PkgErase, Unload, Packaging, Removing
<1>3. CASE ObserveInstall \/ FinalInstall \/ EnforceInstall
  BY <1>3 DEF ObserveInstall, FinalInstall, EnforceInstall, InstallPolicy, Installed, Module,
       Loaded
<1>4. CASE ObserveExercise \/ EnforceExercise
  BY <1>4 DEF ObserveExercise, EnforceExercise, Exercise, Drift, Module, Loaded
<1>5. CASE Install
  BY <1>5 DEF Install, IInv, ModuleInv
<1>6. CASE UNCHANGED store
  BY <1>6 DEF Loaded
<1>7. \/ UNCHANGED store \/ PkgUnload \/ PkgInstall \/ PkgErase \/ Unload \/ ObserveInstall \/ FinalInstall
      \/ EnforceInstall \/ ObserveExercise \/ EnforceExercise \/ Install
  BY DEF Next, Run, vars, Quiet, BeginRun, Precheck, CheckConflict, CheckConflictAgain, Prepare,
       Permit, ObserveEntrypoint,
     ObserveRefine, Recheck, Unpermit, EnforceUnbound, EnforceSettled, EnforceRefine, RecheckAfter, Static,
     Package, Conclude, Quiesce, References, Relabel, Deferred, Kill
<1>. QED BY <1>2, <1>3, <1>4, <1>5, <1>6, <1>7

\* No step replaces or removes a vendor's module.
LEMMA VendorKept ==
  ASSUME IInv, [Next]_vars, staged.owner = "vendor"
  PROVE  staged' = staged
<1>. USE DEF store, config, host, armed, loop, baseline, history, bounds
<1>1. pc \notin {"install", "pkgUnload", "unload", "observeInstall", "finalInstall", "enforceInstall"}
  BY DEF IInv, ModuleInv, Observing, Enforcing, Packaging, Removing, Loaded
<1>. QED BY <1>1 DEF Next, Run, vars, Quiet, BeginRun, Precheck, CheckConflict,
     CheckConflictAgain, Prepare, Permit,
     ObserveEntrypoint, Install, ObserveInstall, FinalInstall, EnforceInstall, InstallPolicy, ObserveExercise,
     EnforceExercise, Exercise, Drift, ObserveRefine, Recheck, Unpermit, EnforceUnbound, EnforceSettled, EnforceRefine,
     RecheckAfter, Static, Package, PkgUnload, PkgInstall, PkgErase, Unload, Conclude, Quiesce, References, Relabel,
     Deferred, Kill

\* No step takes a port from somebody else.
LEMMA ForeignPortsKept ==
  ASSUME IInv, [Next]_vars, NEW q \in Ports, portOwner[q] = "foreign"
  PROVE  portOwner'[q] = "foreign"
<1>. USE DEF store, config, host, armed, loop, baseline, history, bounds
<1>1. CASE ObserveInstall \/ FinalInstall \/ EnforceInstall
  BY <1>1 DEF ObserveInstall, FinalInstall, EnforceInstall, InstallPolicy, Installed, Assignable
<1>2. CASE PkgInstall \/ PkgErase
  <2>1. q \notin job.declared
    BY <1>2 DEF PkgInstall, PkgErase, IInv, PortInv, Packaging
  <2>2. CASE PkgInstall
    BY <2>1, <2>2 DEF PkgInstall, Mappable
  <2>3. CASE PkgErase
    BY <2>1, <2>3 DEF PkgErase
  <2>. QED BY <1>2, <2>2, <2>3
<1>3. CASE References
  BY <1>3 DEF References, Deletable, AppPorts
<1>4. CASE UNCHANGED portOwner
  BY <1>4
<1>5. UNCHANGED portOwner \/ ObserveInstall \/ FinalInstall \/ EnforceInstall \/ PkgInstall \/ PkgErase \/ References
  BY DEF Next, Run, vars, Quiet, BeginRun, Precheck, CheckConflict, CheckConflictAgain, Prepare,
       Permit, ObserveEntrypoint,
     Install, ObserveExercise, EnforceExercise, Exercise,
     ObserveRefine, Recheck, Unpermit, EnforceUnbound, EnforceSettled, EnforceRefine, RecheckAfter, Static,
     Package, PkgUnload, Unload, Conclude, Quiesce, Relabel, Deferred, Kill
<1>. QED BY <1>1, <1>2, <1>3, <1>4, <1>5

\* Before the target's scripts have run no step touches the unit.
LEMMA UnitKept ==
  ASSUME IInv, [Next]_vars, ~targetTouched'
  PROVE  unit' = unit
<1>. USE DEF store, config, host, armed, loop, baseline, history, bounds
<1>1. ~Install
  BY DEF Install
<1>2. ASSUME ObserveExercise \/ EnforceExercise PROVE FALSE
  BY <1>2 DEF ObserveExercise, EnforceExercise, Exercise, IInv, TouchedInv, Observing, Enforcing
<1>3. Quiesce => unit' = unit
  BY DEF Quiesce
<1>. QED BY <1>1, <1>2, <1>3 DEF Next, Run, vars, Quiet, BeginRun, Precheck, CheckConflict,
     CheckConflictAgain, Prepare,
     ObserveInstall, FinalInstall, EnforceInstall, InstallPolicy, Permit, ObserveEntrypoint,
     ObserveRefine, Recheck, Unpermit, EnforceUnbound, EnforceSettled, EnforceRefine, RecheckAfter, Static,
     Package, PkgUnload, PkgInstall, PkgErase, Unload, Conclude, References, Relabel, Deferred, Kill

\* Every step is a step of the chamber, or none.
LEMMA ChamberStep ==
  ASSUME IInv, IInv', [Next]_vars
  PROVE  [ChamberContract!Next]_(ChamberContract!vars)
<1>. USE DEF store, config, host, armed, loop, baseline, history, bounds, Fail, Goto, Quiet
<1>. USE DEF ChamberContract!Next, ChamberContract!vars
<1>. DEFINE verdict == IF pc # "idle" \/ runs = 0 THEN "none" ELSE IF IsFailure THEN "fail" ELSE "pass"
<1>1. CASE BeginRun
  <2>1. pc = "idle" /\ pc' # "idle" /\ found' = Loaded /\ UNCHANGED store
    BY <1>1 DEF BeginRun
  <2>2. UNCHANGED Loaded
    BY <2>1 DEF Loaded
  <2>. QED BY <2>1, <2>2 DEF ChamberContract!Start
<1>2. CASE Deferred \/ Kill
  <2>1. pc # "idle" /\ pc' = "idle" /\ UNCHANGED <<found, store, runs>>
    BY <1>2 DEF Deferred, Kill
  <2>2. UNCHANGED Loaded
    BY <2>1 DEF Loaded
  <2>3. runs' # 0
    BY <2>1 DEF IInv, FoundInv
  <2>4. CASE IsFailure'
    BY <2>1, <2>2, <2>3, <2>4 DEF ChamberContract!FailRun
  <2>5. CASE ~IsFailure'
    <3>1. ~found' /\ ~Loaded'
      BY <2>1, <2>5 DEF IInv, FoundInv, CleanInv
    <3>. QED BY <2>1, <2>2, <2>3, <2>5, <3>1 DEF ChamberContract!Pass
  <2>. QED BY <2>4, <2>5
<1>3. CASE UNCHANGED vars
  <2>1. UNCHANGED <<pc, runs, found>> /\ UNCHANGED Loaded /\ UNCHANGED IsFailure
    BY <1>3 DEF vars, Loaded, IsFailure
  <2>. QED BY <2>1
<1>4. ASSUME Run, ~BeginRun, ~Deferred
      PROVE  pc # "idle" /\ pc' # "idle" /\ UNCHANGED found /\ (UNCHANGED store \/ ~found)
  <2>. USE DEF InstallPolicy, Exercise
  <2>1. pc # "idle" /\ pc' # "idle" /\ UNCHANGED found
    BY <1>4 DEF Run, Precheck, CheckConflict, CheckConflictAgain, Prepare, Permit,
         ObserveEntrypoint,
     Install, ObserveInstall, FinalInstall, EnforceInstall, ObserveExercise,
     EnforceExercise, ObserveRefine, Recheck, Unpermit, EnforceUnbound, EnforceSettled, EnforceRefine,
     RecheckAfter, Static, Package, PkgUnload, PkgInstall, PkgErase, Unload, Conclude, Quiesce, References, Relabel,
     Unremoved
  <2>2. UNCHANGED store \/ pc \in {"install"} \cup Observing \cup Enforcing \cup Packaging \cup Removing
    BY <1>4 DEF Run, Precheck, CheckConflict, CheckConflictAgain, Prepare, Permit,
         ObserveEntrypoint,
     Install, ObserveInstall, FinalInstall, EnforceInstall, ObserveExercise,
     EnforceExercise, ObserveRefine, Recheck, Unpermit, EnforceUnbound, EnforceSettled, EnforceRefine,
     RecheckAfter, Static, Package, PkgUnload, PkgInstall, PkgErase, Unload, Conclude, Quiesce, References, Relabel,
     Observing, Enforcing, Packaging, Removing
  <2>. QED BY <2>1, <2>2 DEF IInv, FoundInv, TouchedInv
<1>5. CASE Run /\ ~BeginRun /\ ~Deferred
  <2>1. pc # "idle" /\ pc' # "idle" /\ UNCHANGED found /\ (UNCHANGED store \/ ~found)
    BY <1>4, <1>5
  <2>2. CASE UNCHANGED Loaded
    BY <2>1, <2>2
  <2>3. CASE ~UNCHANGED Loaded
    <3>1. ~found
      BY <2>1, <2>3 DEF Loaded
    <3>. QED BY <2>1, <2>3, <3>1 DEF ChamberContract!Load, ChamberContract!Unload, Loaded
  <2>. QED BY <2>2, <2>3
<1>. QED BY <1>1, <1>2, <1>3, <1>5 DEF Next

\* The initial states are initial states of the chamber.
LEMMA ChamberInit ==
  ASSUME Init
  PROVE  ChamberContract!Init
BY DEF Init, ChamberContract!Init, Loaded, NoModule, Module

-----------------------------------------------------------------------------
(* The theorems. *)

\* Every state of every run is within the invariant.
THEOREM Inductive == Spec => []IInv
BY InitInv, InvKept, PTL DEF Spec

\* Every variable of Run() and of the verifier keeps its type.
THEOREM TypeCorrect == Spec => []TypeOK
BY Inductive, InvImplies, PTL

\* No run loads a dangerous grant, and no passing run ships write plus execute, unless
\* review accepted it.
THEOREM GrantsReviewed == Spec => []ReviewedGrants
BY Inductive, InvImplies, PTL

\* The text the enforce loop judges holds all that any earlier stage discovered.
THEOREM NoneForgotten == Spec => []NothingForgotten
BY Inductive, InvImplies, PTL

\* A passing run was enforced under the packaged policy, on a verifier that was
\* enforcing, observing and without foreign modules.
THEOREM PassEnforced == Spec => []PassMeansEnforced
BY Inductive, InvImplies, PTL

\* The digest of a passing verdict is of the bytes that ran and that are still there.
THEOREM BytesAreBound == Spec => []BytesBound
BY Inductive, InvImplies, PTL

\* The package checks of a passing run saw the package's own module.
THEOREM PackageMeasured == Spec => []PackageUnderTest
BY Inductive, InvImplies, PTL

\* A passing run leaves neither module nor permissive entry, mapping or process, and no
\* entrypoint whose label dangles; of the declared roots no more carry a label of the
\* app's than best-effort commands failed on this verifier.
THEOREM PassClean == Spec => []PassLeavesClean
BY Inductive, InvImplies, PTL

\* While our module is loaded, only declared ports are mapped to its type.
THEOREM DeclaredPorts == Spec => []OnlyDeclaredPorts
BY Inductive, InvImplies, PTL

\* A unit that could not be stopped is not left in a permissive domain, unless a
\* best-effort command failed.
THEOREM PreservedStaysEnforced == Spec => []PreservedEnforced
BY Inductive, InvImplies, PTL

\* On a store that refuses to remove a module whose types are named, a failed run that
\* reports nothing left neither module nor permissive entry nor mapping, although the
\* failures of their removals are discarded, and no more labels than commands failed.
THEOREM FailureCleanOrReported == ASSUME StrictStore PROVE Spec => []CleanOrReported
<1>1. IInv => CleanOrReported
  BY InvImplies
<1>. QED BY <1>1, Inductive, PTL

\* Confinement is never torn down around a live process.
THEOREM LiveStaysConfined == Spec => NeverUnconfineLive
<1>1. IInv /\ [Next]_vars => [Loaded /\ ~Loaded' => unit' = "stopped"]_vars
  BY TornDownDead
<1>. QED BY <1>1, Inductive, PTL DEF Spec, NeverUnconfineLive

\* A vendor's module, another's port and, before the scripts ran, the unit are left alone.
THEOREM ForeignKept == Spec => ForeignStateKept
<1>1. IInv /\ [Next]_vars =>
        [/\ staged.owner = "vendor" => staged' = staged
         /\ \A q \in Ports : portOwner[q] = "foreign" => portOwner'[q] = "foreign"
         /\ ~targetTouched' => unit' = unit]_vars
  BY VendorKept, ForeignPortsKept, UnitKept
<1>. QED BY <1>1, Inductive, PTL DEF Spec, ForeignStateKept

\* Run() implements the contract of the chamber.
THEOREM KeepsContract == Spec => ImplementsChamber
<1>1. Init => ChamberContract!Init
  BY ChamberInit
<1>2. IInv /\ IInv' /\ [Next]_vars => [ChamberContract!Next]_(ChamberContract!vars)
  BY ChamberStep
<1>. QED BY <1>1, <1>2, Inductive, PTL DEF Spec, ImplementsChamber, ChamberContract!Spec
=============================================================================
