# TLA+ models of hardener

hardener takes a service it did not build, writes an SELinux policy for it, and
lets the service run under that policy on a *verifier* (a persistent RHEL-family
machine) until the policy is complete. It then enforces the policy, packages it,
and signs a verdict. The verdict is an absence claim: *no denial was seen, nothing
else was loaded, nothing is left behind*. This directory models the parts of the
program on which that claim rests.

Paths below are relative to `src/`; `pipeline.go` is `internal/pipeline/pipeline.go`.

## 1. The system

| component | source | state it keeps | operations |
|---|---|---|---|
| audit window | `pipeline.go` `exercise()` | offset and inode of `audit.log`, loss counter, sentinels | restart unit, run scenario, stop, drain, read, parse |
| pipeline run | `pipeline.go` `Run()` | accumulated rules, flags, baselines, the armed cleanup flags, `Result` | precheck, name conflict, install, observe loop, enforce loop, static checks, package, cleanup |
| package | `rpm.go`, `pkgverify.go` | module at priority 200, port mappings, labels | build, install, check, erase, check |
| refinement | `internal/policy/refine.go`, `require.go` | none (pure) | denial to allow rule, flag, relabel or entrypoint |
| policy text | `internal/policy/{generate,classify,collision}.go` | none (pure) | module text, file contexts, collisions with the base policy |
| audit parsing | `internal/avc/` | none (pure) | correlate AVC and PATH records, merge denials |
| conformance | `internal/conformance/` | the baseline file of a first-party target | extract, compare, judge, save |
| verdict | `internal/verdict/` | none (pure) | derive and validate the statement |
| command line | `cmd/hardener/main.go` | failure count, outputs of one file name per target | batch loop, conformance by party, report, verdict, envelope, upload, exit status |
| runner | `internal/vm/` | output buffer with a limit | run a script with a timeout, write a file |
| manifest | `internal/target/`, `internal/profile/` | none | load and validate |
| report, scan, signing, upload | `report.go`, `elfscan`, `signing`, `archivista` | none | format, look up, sign, post |

How they interact. `main` calls `Run` once per target, on the same verifier. `Run`
talks to the verifier through `Runner.Run(script)` only; each call may fail or time
out, and what it changed stays. `Run` calls `exercise()` once per round; `exercise()`
and the verifier share the audit log, which auditd, the kernel, log rotation and
every other process on the verifier write too. Invocations of `main` share the output
directory and the committed baselines. The unit is a process of its own. The
artifact's scripts run as root inside `Run` and may change what `Run` checks.

What is hard here:

* **the audit channel** is asynchronous, bounded, lossy, rotated and shared, and the
  interesting result is that it contains *nothing*;
* **the verifier outlives a run**: half-done installations, cleanups whose commands
  fail silently, and runs that are killed are inherited by the next run;
* **checks are points in time**, the artifact acts in between;
* **the outcome is told three times**: exit status, report and verdict are computed apart,
  and files of one invocation are read by the next;
* **the loops** discover rules in one place and install them in another.

The hazards are listed with their lines in `PROJECT.json`.

## 2. Modules

| module | models |
|---|---|
| `AuditWindow` | `exercise()` against kernel backlog, auditd, the log file, the unit and the administrator |
| `ObservationWindow` | what `exercise()` promises: an error, or exactly the denials of the round |
| `Pipeline` | `Run()` and `verifyPackage` against the module store, permissive list, port mappings, labels and unit, for a sequence of runs |
| `Chamber` | what a run promises about the verifier it borrows |
| `Session` | `main()` and `checkConformance`: a batch of manifests, the baselines, the outputs, over several invocations |
| `CappedRunner` | `Run` of `internal/vm`: child, pipe, copy goroutine, output limit, deadline |
| `AvcCorrelate` | `avc.ParseLogWithPaths` and `Merge`: from the records of a log to denials |
| `SliceRead` | the two together: the kernel writes, `tail` prints through the runner, the parser correlates |
| `FileContexts` | which type a path gets: claims, generated contexts, collisions, `expectedType`, what `restorecon` assigns, what the installation verifies |
| `Refinement` | the observe loop seen from the policy: install, exercise, `Refine`, merge, relabel, final scan |
| `AuditWindow_proofs`, `FileContexts_proofs`, `Pipeline_proofs`, `Refinement_proofs`, `Session_proofs`, `SliceRead_proofs` | the proofs about the module of that name |
| `WindowObservation_proofs`, `SessionOutcome_proofs` | more about `AuditWindow` and about `Session`, on top of the above: the implementation of `ObservationWindow` and the start barrier; what an invocation delivers |
| `MCAuditWindow`, `MCPipeline`, `MCSession`, `MCSliceRead`, `MCRefinement` | the instances TLC checks; the `.cfg` files choose the constants |

`Pipeline` takes `exercise()` as one step: an error with the unit in any state, or
some set of denials and a stopped unit. `AuditWindow` is the justification of that
step: `ImplementsObservation` and the theorems say that what it returns is the set of
the round. `Pipeline` still lets the artifact suppress any denial, so its properties
do not depend on the window being perfect. `Session` takes `Run()` as one step that
returns any of the `Result`s in `Outcomes`; `RunEnds` justifies that the step ends.
Two modules open up what the others take as a step. `SliceRead` is the command
`ReadSlice` and the step `Parse` of `AuditWindow`: that an answer without an error is the
whole slice, and that the parser makes of interleaved records what each event says.
`Refinement` is the step `ObserveRefine` of `Pipeline` with types, classes and paths in
place of an access that is routine, dangerous or misplaced.

### AuditWindow

Every remote command of `exercise()` is one action, in the order of the code
(`CountStart`, `EmitStart`, `WaitStart`, `StatPre`, `StatusPre`, `Restart`,
`RestartAnswer`, `RunExercise`, `Recapture`, `Stop`, `CheckStopped`, `Drain`,
`EmitEnd`, `WaitEnd`, `StatPost`, `ReadSlice`, `StatRead`, `StatusPost`, `Parse`).
`pc` is the next command. Between any two of them the verifier moves: the unit is
denied something, the kernel drops a record and counts it, auditd dequeues
(`HandOver`) and writes (`Flush`), the log rotates or is truncated, auditing is
toggled, somebody loads a policy.

A record is its position in the stream `rec`; a size in bytes is a number of
records. `handed` and `flushed` are the two hops; the file holds the positions
`base+1..flushed`. `BeginRound` is the caller: it loads the module (a record of this
round, possibly still queued) and calls. The variables after "history" are what
`exercise()` cannot see; no guard of an action of `exercise()` reads them.

Assumed of the environment: the kernel logs every change of `audit_enabled` and every
policy load, or counts the loss; auditd writes in order; an inode number is not
reused while the offset is in use. `ForeignRecord` may put a second copy of the end
sentinel in the log (an execve audit rule logs the command line that carries it).
The unit is stopped when a round begins: the caller's cleanup kills it, or preserves
the module, and then the next run refuses to start.

`Parse` returns what `Reported` says: every denial of the unit's domain in the slice, and what
any domain is denied on one of the app's types (`ForeignRecord` emits these too; `init_t`
refused to execute an entrypoint is the case the code has in mind, `pipeline.go:1650`). Whose
doing the latter are is not known, so nothing is claimed of their completeness.

### Pipeline

`pc` names the stage of `Run()`; one action per stage, with the error path of each.
A policy is the set of accesses it allows. What refinement makes of a denial depends
on the access only: `Routine` (an allow rule), `Dangerous` (flagged; a rule only with
`--accept-flagged`), `Misplaced` (a relabel). `Hybrid` is a set of routine accesses
that together are write plus execute.

| state | code |
|---|---|
| `staged`, `packaged` | the app's module at priority 400 (`semodule -i`) and 200 (the package) |
| `aux` | some module is loaded that was not there at first |
| `permissive`, `portOwner` | `semanage permissive`, `semanage port` |
| `labels` | the stored label of each file of `RelabelRoots`, the entrypoints and the roots of the declared paths: one of the app's types, or the system's |
| `misplaced` | the accesses denied because of a wrong label beneath the roots |
| `unit`, `observing`, `disk` | the unit, enforcing mode plus auditd, the bytes of the entrypoint |
| `moduleInstalled`, `targetTouched`, `permissiveCleared` | the variables of that name in `Run()` |
| `rules`, `count`, `seen`, `prevRelabels` | `extraRules`, the loop counter, `denials`, `prevRelabels` |
| `auxBaseline`, `expected` | `expectedMods`, `expectedModuleDigest` |
| `res` | the fields of `Result` the verdict depends on |

Failures. A command whose result the code checks may fail whenever it is issued, with
part of its effect (`installPolicy` may stop after any of its stages, with any part of the files
relabelled and of the ports assigned; `rpm -i` may have loaded the module and still be reported
as failed; `semanage permissive` may have changed the list). A command whose result is
discarded fails at most `MaxFaults` times. The artifact's scripts change the verifier
at most `MaxDrifts` times per behaviour: load another module, replace ours under its
name, stop the observation, replace the entrypoint. hardener itself may be killed
between any two steps (`MaxKills`); then no cleanup runs. `StrictStore` says whether
`semodule -r` refuses to remove a module that a mapping or the permissive list still
names, as a comment in the code says it does; both kinds of store are checked.

Labels are stored with the files and outlive the module that defined them: a file dangles when
it carries a type of the app's (`Labelled`) and no module of its name is loaded. `restorecon` gives a
file the type of the file contexts in force (`RestoreLabels`), file by file. Where it is best effort,
each file that it misses counts as one of the `MaxFaults`: in `%postun` (`rpm.go:192-197`) and
in the cleanup (`pipeline.go:264-267`), which says nothing of a failure either. After the erase
the code looks at the entrypoints alone (`pkgverify.go:126-139`), and so does `Erased`. What may
stay behind is stated as it is: after a pass no entrypoint dangles, after a failed run that reports
nothing any file may, and in both cases no more files dangle than best-effort commands failed. The checks between
install and erase can pass although `fixfiles -C` relabelled nothing, because `installPolicy` stored
the same labels before. Declared roots are taken to exist; one that does not has no label to keep.

At `Quiesce` and `Kill` the locals of `Run()` and the fields of a failed result are
reset: nothing after that point reads them. `EnforceExercise` captures the label and the
binary of the main process (`Captured`): the binary counts only when the exercise succeeded
in our domain, and the artifact may have replaced it before or after. A port can be mapped
only while some module defines its type (`Mappable`). `permissiveCleared` is TRUE until `Prepare`
defers the removal from the permissive list; from there on the removal runs at the end of every
run, whichever stage it failed at, unless it was done before (`StillPermitted`).

### CappedRunner, AvcCorrelate, SliceRead

`Start`, `Copy`, `CopyEOF`, `Deadline`, `Wait` and `Return` are what `exec.CommandContext`,
its copy goroutine, `cappedWriter.Write`, the context, `cmd.Wait` and the end of `Run` do;
`ChildWrite`, `ChildFork`, `ChildExit` and `LetGo` are any script, which may hang, fail at any
time, and leave a descendant with the write end of the pipe, for ever if it likes. Output is
counted in records.
`Killed` is one step: `Process.Kill` on a child that has exited does nothing.
The outcome is looked up in the order of the code: deadline, limit, error, answer.

A record of the log is an AVC, a PATH, a CWD, or something else, with its event, its inode and
its name; a path is a sequence of components. `Emit` interleaves the records of events but
keeps the order within one. `PathOf` is the code's choice: the path of the AVC itself, the PATH
record of its inode, or a lone PATH record; the last also when the AVC has an inode and the
lone record another. `Merge` joins what has the same path and inode. Source, target type and
class are those of the event and are left out.

### FileContexts, Refinement

`FileContexts` has no state. A path is a sequence of names, a rule of file contexts a root,
whether it covers the tree beneath it, a selector and a type. Specificity, bytes of a literal
prefix in the code, is counted in components: of two roots of one path one is a prefix of the other,
so the order is the same. The same rules are ranked twice:
`Before` is hardener's sort (`expectedType`), `Outranks` is the rank `restorecon` uses
(external: an exact path, then the longest stem, then a selector; local customizations before
anything else). That the two agree is a property, `ClaimsHold`. `Bounded` and `Admissible` are what
`target.Load` accepts; the instance offers manifests it refuses as well. A claim that is dropped
for a collision leaves its place among the claims empty, because only their order matters.
`Unseen` says of which paths the checks of an installation say nothing (see section 3).

| state of `Refinement` | code |
|---|---|
| `manifest` | the profile, after the collisions were dropped |
| `base`, `local` | the file contexts of others, by module and by `semanage fcontext` |
| `label` | the type of every object on the verifier |
| `rules`, `flags`, `relabels` | `extraRules`, `res.Flags`, `prevRelabels` |
| `denials` | what `exercise()` returned last |
| `labelled` | history: what was denied on an object that has its type by right |
| `refusal` | which check of `installPolicy` refused |

`DropCollisions`, `Install`, `Exercise`, `RefineRound` and `ScanWriteExec` are the stages;
`Stray` is the program, its setup or an administrator who moves an object, which keeps its
type. A denial is of something that is not granted yet, by the template (`BaseGrant`) or by
a rule. The tables of types, classes and permissions in `refine.go` are represented by a member
or two of each. The rounds of the enforce loop refine in the same way and are not told apart.
Failures of the loop's commands are in `Pipeline`, except `restorecon` of a relabel, whose
failure decides whether a relabel recurs.

### Session

`pc` names the stage of `main()`'s loop body; one action per stage, with the fatal exits
of each. The manifests are constants: party, declaration, baseline file, output name.

| state | code |
|---|---|
| `baselines` | the committed baseline files: missing, unreadable, or readable with their items |
| `reports`, `verdicts`, `envelopes`, `store` | `<base>.md`, `.verdict.json`, `.verdict.dsse.json`, the attestation store |
| `opts`, `batch`, `todo`, `failures`, `exit` | the flags, the arguments, those still to do, the counter, the exit status |
| `current`, `res` | the loop's target and its `Result` |
| `reviewed` | history: every item somebody accepted with `--update-baseline`, and what was committed at first |

What a program does is a set of items; `ExtractObserved` and the five lists of a
declaration come down to which items are in it. Two targets with the same set have the
same items, so keys that lose a detail (a port number, a permission) are not covered.
`Result` is reduced to what the conformance check, `failureOf` and `BuildOrErr` read:
the three gates of enforcement, whether flags, collisions, accepted exceptions or failed
static checks are there, whether the entrypoints are bound, and the digest of the
package. A failed run keeps only what is read after it failed.

Files. An output file is the set of documents one can read in it: one, or none when it is
missing or torn. Every write may fail with the old file, or with nothing in place.
`SaveBaseline` is two steps (`Truncate`, `Save`), because a baseline is read again: in
between the file holds nothing that parses, or some of its items (YAML parses up to a
line). A prefix cut in the middle of an item is not modelled. `Kill` stops the process
between any two steps. `Upload` may reach the store and be answered with an error.

## 3. Runs

| run | bounds | shows |
|---|---|---|
| `window_one` | 1 round, 2 probes in each poll, 1 denial, 1 lost record, 2 disruptions | an answer is complete, for one policy, and never blames the caller's own load |
| `window_rounds` | 2 rounds, 2 probes in each poll, 1 lost record, no disruption, a log that is not truncated in place | no denial of the unit from an earlier round in a later answer; the start barrier orders; `AuditWindow` implements `ObservationWindow`; `exercise()` returns |
| `window_truncate` | 1 round, 1 disruption | violation: truncation and regrowth go unnoticed |
| `pipeline_run` | 1 run, 3 observe rounds, 3 enforce attempts, 4 accesses, 1 port, 1 entrypoint, 1 root, 2 faults, 2 drifts, strict store | grants are reviewed, nothing found is forgotten, what a pass stands for, what a failure leaves |
| `pipeline_reuse` | 2 runs, 2 accesses, 1 port, 1 fault, 1 drift, 1 kill, lax store | undeclared ports are never ours; other owners' state is kept; every run ends; `Pipeline` implements `Chamber` |
| `pipeline_order` | 1 run, 1 access, 1 port | violation: `verifyPackage` removes the module before its mappings |
| `session_fleet` | 1 first- and 1 second-party manifest, 2 items, 1 invocation | exit status, headline and verdict part in two known cases only; what passes was accepted or declared; the invocation ends |
| `session_files` | 2 manifests of one output name, one of them first-party, 2 items, 2 invocations, signing | a success leaves this invocation's own outputs, all of them; a baseline is written for a verified run only, and covers it |
| `session_verdict` | 1 manifest, 1 invocation | violation: success with a verdict of fail |
| `transport` | 2 events of 6 shapes each, limit of 6 records, pipe of 2 | an answer without an error is parsed to what the events say; no path is guessed, no permission moves to another file; `Run` returns unless a descendant holds its output |
| `policy` | 6 manifests (`Load` accepts two), 4 base policies, 2 local customizations, 2 rounds, 2 denials in all, 1 moved object | what is expected of a path is what the system gives it; no denial is lost; a mislabelled object grants nothing; write plus execute is flagged |
| `policy_entrypoint` | 1 manifest, 1 round | violation: an installation is refused with every label right |

Why these bounds are enough. In the window the hazards are races between one denial,
one barrier record and one event on the channel: two disruptions let auditing be
switched off and on again, or a log be truncated and something else be added. Each poll
has two probes: the first may fail or come before the record and the second succeed, or
both are spent and the round goes on as the code does, without the barrier at the start and into an
error at the end; a third would only repeat the second. The
theorems hold for any number. `window_rounds` has no disruption: those of one round are in
`window_one`, no disruption disables a step of `exercise()`, and the safety properties of two
rounds are proved for any number of them. Two rounds are needed for anything to be left over from
an earlier one. In the pipeline two observe rounds are needed for a rule found in
the last allowed round and three for a relabel that recurs after progress; a removal
has its two attempts; two faults let both attempts fail, or leave an
entrypoint and a root with their labels; two drifts let one act before
and one after the first integrity check, or change a binary and change it back.
Two runs let a leftover of one run be met by the next.
For the transport, two events are the least that interleave; the shapes
have one to four records, so the limit of six is met exactly by some pairs and passed by others;
two events may use the same inode. The theorems about it hold for
every limit and every set of events.
For the policy, two denials are the halves of write plus execute, of one round or of two; one
moved object is one label that is wrong while every other is right. The manifests nest one
claim under another in both orders of listing, because hardener's sort is stable; the base
policies have a rule under a claim, one of the same expression with another selector, one for a
hidden name and one for the root of a tree alone; the customizations are of a root, which is
refused, and of an entrypoint, which is not. Every case of `Unseen` but the customization without a
stem is met, and `ClaimsHold` fails when one of those met is left out of it.
`MaxDenials` is counted over the run.
In the session two items are the least with which a baseline can be too narrow, too wide
or torn; two invocations let one read what another left. The baseline starts in any state,
so what several invocations leave behind is met by the first. Manifests act on each other
by names, files and the counter only, which two of them show.
Deadlock is not checked: when the bounds are used up the system stops, as it should.

Fairness is used by the four runs with a liveness property only (`ExerciseReturns`,
`RunEnds`, `InvocationEnds`, `RunReturns`): weak fairness of the steps of the
program (`Tool`, `Run`, `Step`, and the copy, the deadline, the wait and the return of the
runner). The runner bounds every command with a timeout (`internal/vm/vm.go:105-118`), so each
remote call returns, with the exception below; `Run()` returns by `RunEnds`, and the upload has a
timeout (`internal/archivista/archivista.go:25`). Nothing is assumed of the
kernel, auditd, the unit or the administrator, and nobody has to kill hardener.

`RunReturns` is what the other three rest on, and it has an exception. `cmd.WaitDelay` is not set
(`vm.go:97-125`, `ssh.go`), so `cmd.Wait` waits for the copy goroutine after the deadline has
killed the child: a descendant that keeps the pipe for ever keeps `Run` for ever, and the `ssh` that
`limactl` starts may be one, as it lives as long as the script it runs. No fairness is assumed of
`LetGo`. What holds is that `Run` returns, or from some point on the child is gone and a
descendant holds the output (`OutputHeld`). The liveness of the other three runs is under the
proviso that none does. The script itself owes nothing. The copy of the script to the standard input
of `ssh`, which `cmd.Wait` waits for too, is not modelled.

### What the violations say

* `TruncationFailsClosed`: inode and size say nothing about a log that was truncated in
  place and has grown past the offset again. `CompleteWindow` and `SteadyPolicy` are
  therefore stated for a log that was not truncated while the offset was in use.
* `PortsGoFirst`: the cleanup deletes the mappings before the module because, as its
  comment says, the removal fails otherwise. `verifyPackage` (`pkgverify.go:49`) removes
  the module first. On a store that refuses, no target that declares a port gets past
  that step; on one that does not, the mappings dangle until the package prunes them.
* `OneVerdict`: the comment at `pipeline.go:102` calls `IsFailure` "the single source of
  truth" from which exit status, headline and verdict derive. `failureOf` derives the
  verdict on its own, and fails it for drift that `--update-baseline` has just accepted
  (`verdict.go:404`) and for collisions nobody accepted (`verdict.go:423`); both leave exit
  status 0 and a report that says PASS. `SuccessMeansPass` says that there is no third
  case, and `HeadlineBindsVerdict` that the error is always on the safe side: a report
  that says FAIL has a failed verdict.

* `LabelRefusalsAreReal`: after it has relabelled, `installPolicy` scans what lies beneath a
  claimed root for labels of others. It prunes the roots of other claims but no executable
  (`pipeline.go:1191-1204`), so an entrypoint inside the tree of its program, correctly
  labelled, is refused. Several manifests in `targets/` have one.

More differences were met and have no run of their own.

The comment at `pkgverify.go:80` takes the labels of the declared roots for what `fixfiles -C`
applied; they may be those `installPolicy` stored. And a run whose package left a declared root with
a label that no module defines passes: the roots are not looked at after the erase, and the
scriptlet that restores them swallows its errors.

The usage text
(`main.go:126`) says that `--update-baseline` writes the observed behaviour as the new
baseline; it is written when there is none or when something new was observed, and a
program that does less than before keeps its wider baseline (`main.go:86`).
`UpdateSettles` is what holds instead: the baseline covers what was observed. And
`README.md:127` says that a `declared:` block of a third party is compared for
information, but `internal/target/target.go:286` refuses such a manifest, so the branch at
`main.go:77` is never taken; `NotCompared` has it that way.

The comment at `pipeline.go:1373` calls the count of the start barrier "specific to the record
we just wrote". The text of the sentinel is the same in every round: a record of an abandoned
round that is flushed after this round counted satisfies the wait. `FreshWindow`,
`StartBarrierOrders` and `NoSelfInflictedReload` say when it does not matter: no earlier round
failed, or the record of this round was in fact written.

What the system gives a path and what refinement expects of it agree only as far as the checks of
an installation look. They pass over four kinds of rules of others, which `Unseen` names and the
properties of `Refinement` exempt; the first two are met by the scan of objects that exist.

* `fcLiteralStem` cuts a base rule such as `/opt/app/\.ssh` to `/opt/app`, which is the root of the
  claim and not beneath it, so `checkBaseRulesUnderRoots` passes over it. `pipeline.go:2036` leaves
  that case to the collision check ("an exact match is the collision case").
* That check compares whole expressions, so it does not see an exact base rule for the root of a
  tree either: `/opt/app` under `/opt/app(/.*)?`.
* A local customization whose expression has no literal stem is skipped (`pipeline.go:1244`).
* Customizations are compared with the claims only (`pipeline.go:1242`): one of an entrypoint that no
  claim covers is not looked at. The comment below (`pipeline.go:1253`) leaves the type of executables to the enforcement
  loop, which compares it with the running binary.

A denial whose record names no path, or a path no claim covers, becomes a rule for the type
the object has, right or wrong (`refine.go:203`); `GrantsFollowLabels` says that this is the only way.
A claim of kind `unit` has a type of the system (`systemd_unit_file_t`), which is no type of
ours to `checkBaseRulesUnderRoots`: nested under another claim it is refused.

## 4. Proofs

All theorems are of the form `Spec => ...` and hold for every value of the constants that
satisfies the assumptions named. Every invariant and every action property of a passing run is
the statement of one of them, and so are the two refinements.

| module | theorem | statement |
|---|---|---|
| `AuditWindow_proofs` | `TypeCorrect` | `TypeOK`, and the order of the channel: `base <= flushed <= handed <= Len(rec)` |
| | `WindowIsComplete` | `CompleteWindow` |
| | `PolicyIsSteady` | `SteadyPolicy` |
| | `WindowIsFresh` | `FreshWindow` |
| | `NoFalseReload` | `NoSelfInflictedReload` |
| `WindowObservation_proofs` | `ExerciseObserves` | `ImplementsObservation`, for a log that is not truncated in place |
| | `BarrierIsCrossed` | `StartBarrierOrders` |
| `Pipeline_proofs` | `TypeCorrect` | `TypeOK` |
| | `GrantsReviewed` | `ReviewedGrants` |
| | `NoneForgotten` | `NothingForgotten` |
| | `PassEnforced` | `PassMeansEnforced` |
| | `BytesAreBound` | `BytesBound` |
| | `PackageMeasured` | `PackageUnderTest` |
| | `PassClean` | `PassLeavesClean`: no entrypoint dangles, and no more roots than commands failed |
| | `DeclaredPorts` | `OnlyDeclaredPorts` |
| | `PreservedStaysEnforced` | `PreservedEnforced` |
| | `FailureCleanOrReported` | `CleanOrReported`, for a store that is strict: no module, no entry that names its types, and no more labels than commands failed |
| | `LiveStaysConfined` | `NeverUnconfineLive` (an action property) |
| | `ForeignKept` | `ForeignStateKept` (an action property) |
| | `KeepsContract` | `ImplementsChamber`: every step is one of the contract or a stutter |
| `Session_proofs` | `TypesKept` | `TypeOK` |
| | `EvidenceInContract` | `PassesInContract` |
| `SessionOutcome_proofs` | `OwnOutputs` | `SuccessHasOwnOutputs` |
| | `EvidenceIsThere` | `EvidenceDelivered` |
| | `SuccessAndVerdict` | `SuccessMeansPass` |
| | `HeadlineAndVerdict` | `HeadlineBindsVerdict` |
| | `UpdateIsKept` | `UpdateSettles` |
| | `BaselineWrites` | `BaselineFromVerifiedRun` (an action property) |
| `SliceRead_proofs` | `TypeCorrect` | `TypeOK` of the reader and the log |
| | `ReadIsWhole` | an answer without an error is the whole slice |
| | `GuessesNothing` | `NeverGuessed` |
| | `NothingIsLost` | `DenialsComplete` |
| | `PermissionsStay` | `PermsStayWithFile`, which is a fact about `Merge` alone |
| `Refinement_proofs` | `WriteExecTold` | `NoSilentWriteExec` |
| | `PathsKeepTheirType` | `ClaimsHold` |
| | `RulesFollowLabels` | `GrantsFollowLabels` |
| | `DenialsAreAnswered` | `NoDenialLost` |

They assume the named assumptions of the constants: `ProbesAssumption` and
`BoundsAssumption` (numbers), `PipelineAssumption` (numbers; the kinds of access are disjoint;
finitely many ports and files, because faults count them), `SessionAssumption` (the manifests are
functions of the right type), `LimitAssumption` and `PipeAssumption` (numbers, a pipe that holds
something), `ShapesAssumption` (an event is a finite sequence of records); for labels
`NamesAssumption` (the character that begins a hidden name is one that means something in an
expression), `ManifestsAssumption`, `LocalsAssumption` and `PathsAssumption` (manifests, rules and
objects of the form `FileContexts` describes), `BasesAssumption` (the same, and no base policy gives
a type of ours: `Run` refuses a verifier where one of them is defined, `pipeline.go:340`) and
`SelfAssumption` (what the domain is denied on itself has no path); and the environment described
above. `WriteExecTold` needs none of them.

### The window

The inductive invariant `IInv` has three parts. `TypeInv` is types and stages.
`WindowInv` carries completeness: before the restart nothing of the round exists; while
the file is the one the offset was taken in, `base + offset` is the position the offset
stood for (`OffsetInv`); every recorded denial lies between that position and the end
sentinel (`DenialInv`); whatever left no record, or happened to the policy, left a trace
in the loss counter or as a record in the same range (`TraceInv`); the slice read holds
that whole range (`SliceInv`). `AnswerInv` is the goal. None of these follows from the
others at the moment of the answer: the properties speak of a state in which the unit is
long dead, so the invariant has to carry what was true when each check was made.
`EarlierInv` carries freshness: earlier denials lie before the offset because the earlier
rounds ended well, or because this round's start sentinel does (`SettledInv`, `SetupInv`).
`BackgroundStep` treats the steps of the channel once for all labels, `InvStep` has one
case per action of `exercise()`.

`ExerciseObserves` is a step simulation on top of `IInv`. The mapping takes as produced the denials
of the unit in this round, whether or not they reached the file, and as returned what `Parse`
returns. `UnitDenial` and `TransitionRefused` produce, `BeginRound` begins, an
answer or an error ends, a denial of others on the app's types is a `Disturb`, and every other
step is a stutter. That an answer is what was produced
needs `WindowIsComplete` in one direction and `WindowIsFresh` in the other. The attempt
found an error in the mapping: a foreign denial recorded before the first round carried the number
of that round, 0, and counted as the unit's.

`BarrierIsCrossed` needs `BarrierInv`. `grep` counts the sentinels of all rounds, so a count that
went up tells something about this round's only because the number of others in the file cannot
grow: as long as no earlier round failed, all of them were written before the first count
(an answer read the end sentinel of its round, which follows the start sentinel), and rotation
only takes some away.

### The pipeline

The properties speak of the end of a run, where the locals that justified it are gone or
stale; each part of the invariant carries one reason from the stage where it is made to the
stage where it is used.

| part | what it carries |
|---|---|
| `ModuleInv` | when the module of our name in the store is ours, and when nothing is in the package's place |
| `TouchedInv` | which stages come after the target's scripts, and which after a stopped unit |
| `PermissiveInv` | the domain is permissive from `Permit` to `Unpermit` at most; `permissiveCleared` is TRUE only while nothing is deferred or the entry is gone |
| `PortInv` | once a policy is installed no declared port is somebody else's, and no undeclared one ours |
| `ReviewInv` | without `--accept-flagged` nothing dangerous is declared, merged or loaded |
| `PolicyInv` | the text that is judged is the one installed last, with all that was found; `expected` is its module |
| `MeasureInv` | what the last exercise ran under is what the next check looks at |
| `EnforceInv` | `enforceOK` only with the bytes bound, and after the check under the conditions of a pass |
| `VerifiedInv` | from the package on, and in a pass, the conclusions of the enforce loop |
| `CleanInv` | a success has passed the checks after the erase, those of the entrypoints' labels among them; once the labels are restored, those that stayed are counted as faults |
| `ReferenceInv` | a strict store that still names a type of the module still has the module |
| `FoundInv` | a run that found a module of its name never touches the target |

`CleanOrReported` needs `ReferenceInv`: when the module is seen to be gone, a strict store
can name neither a port nor the domain any more, even though the commands that delete those
entries are discarded when they fail. Of labels no store knows anything; there the proof
counts: a file that keeps the app's label was missed, and each file missed is a fault
(`LabelsCounted`). On a lax store it does not hold, and is not claimed:
the entries may stay while the module goes. There is one lemma per part (`ModuleKept` and so
on), each with one step per action that can disturb it.

`KeepsContract` maps the run to `Chamber`: a step of `Run()` that changes neither whether it is
under way, nor whether a module of that name is loaded, nor the verdict, is a stutter.

### The session

`PassesInContract` is about documents that may be older than the process. It is not
inductive: when a verdict is written, what its items were compared with is gone from the
state. `ContractInv` adds `BaselinesReviewed` (a baseline, torn or not, holds accepted items
only) and `Judgement` (from the comparison on, a target whose run passes so far has
observed items within its contract, or is about to write its verdict as a failure).
The proof has one step per action; those that only copy a document follow from the
document's own judgement.

The theorems of `SessionOutcome_proofs` speak of the end of an invocation, when only the files are
left to compare. `OutcomeInv` carries to it what was true of each target when it was done:

| part | what it carries |
|---|---|
| `ProgressInv` | the targets of a batch have different output names; a success has none to do and no failure |
| `ResultInv` | the gates of the `Result` at hand agree with each other; what the comparison left open is drift of a first party that will be saved |
| `CoverInv` | from the save on, the baseline covers what was observed |
| `UnwrittenInv` | no verdict of this invocation is of a target still to do |
| `WrittenInv` | the files of the target at hand hold what was written, stage by stage |
| `DoneInv` | as long as nothing failed, every target that is done is `Delivered`: its own report, verdict, envelope, entry in the store, baseline |

`DoneInv` needs `ProgressInv` for one target not to overwrite another (`OutputsCollide` is checked
before the first), and `TheTwoPart` is the comparison of `IsFailure` and `failureOf`, field by field.

### The transport

`StartInv` ties the size the child would print to the log as it was when `tail` started;
`CopyInv` says that as long as nothing was refused the buffer holds what was read, and at the
end of file what was written; `ReturnInv` that an answer without an error comes from a child
that printed everything and a goroutine that saw the end of file. Together they give
`buf = Len(log)`. `PathsNotGuessed` and `MergeKeepsFiles` are lemmas about the parser's
operators for any log.

`NothingIsLost` compares the parse of the log with that of each event by itself. `OrderInv` says at
which place of the log each record of an event was written, in the order of the event; with it the
records of one event in the log are the event (`SameLatest`: the record that is looked up last is
the same), so an AVC among the records of others gets the path it gets alone (`SamePath`), and
`EventsStandAlone` joins these over the events.

### The refinement

`HalvesTold`: whenever a rule adds write to what the template lets execute, or execute to what
it lets write, the round that added it flagged the type. `WholesTold`: when both halves come
from rules, the final scan flags it. The first is inductive only together with
`NoRulesYet`, because dropping a collision changes which types are ours.

The labels rest on `ExpectedIsGiven` of `FileContexts_proofs`, a statement about the pure
operators. Of our own rules that apply to a path, the most specific by hardener's order is an exact
rule or the one with the longest root, so it is the one that `restorecon` takes among ours
(`OursYield`). A base rule that would outrank it has a literal stem beneath the root of a claim,
which `RulesUnderRoots` refuses; or the same expression, which is a collision; or is one of those
in `Unseen` (`BaseYields`). A customization of a claimed path overlaps its root (`LocalsStayAway`).
A rule that all others yield to decides, whichever way `Best` chooses (`TopDecides`).

`LabelInv` carries this through the loop: `Loaded` (the manifest is what `Load` accepted without
what collided, and once installed the checks passed), `Returned` (what the exercise returned and
refinement does not take for drift was on an object with its type by right), and the two properties
themselves. `InstalledPaths` states the result for every path, and not only for the objects of the
model. The attempt to prove `ClaimsHold` found that, as it stood, it was true of the instance
only: the base policies had no rule for the root of a tree alone, and no customization of an
entrypoint was tried. The instance has both now, and `Unseen` names them.

### Only model-checked

Liveness (`ExerciseReturns`, `RunEnds`, `InvocationEnds`, `RunReturns`), which is beyond the prover,
and the violations. `ImplementsObservation` on a log that may be truncated in place is not claimed.

## 5. Not modelled, and the plan

Not modelled:

* the package's upgrade and multi-instance scriptlets (`$1 > 0`), and the life of the package on a
  host after it was attested. `rpm.go` writes them; `verifyPackage` runs only the first
  installation and the last erase. There, the presence check of `%post` is satisfied by an older
  module that stayed loaded, and `semanage port -m` may take a mapping over; neither can happen
  on a verifier that passed the name checks;
* `elfscan`: an advisory look at the strings of a binary that changes no state;
* decoding: lines of the audit log, YAML, `semodule` and `semanage` listings, `selinuxerr.go`;
* the text of the module: interfaces, transitions, which capability a feature brings. What the
  template grants per kind is in `BaseGrant`;
* which executables are the app's own and which interpreters are refused
  (`isAppOwnedExecutable`): `Pipeline` has the entrypoints as given;
* a remote script that outlives its `limactl` or `ssh`, killed at the deadline, and still runs on the
  verifier: in the models a command that failed has had its effect, or part of it, when it is answered;
* ports of a manifest, required fields, characters in paths;
* layout of reports and statements, the cryptography of signing.

A module that the artifact loads and unloads within one exercise is the window's
subject (`SteadyPolicy`), not the pipeline's; `pipeline.go:779` names the corresponding
limit of the point-in-time checks. A module left loaded by an earlier run under another name is
part of the next run's baseline (`pipeline.go:628`): the code claims nothing of it.

Next, in this order:

1. a module for the package on a host: install, upgrade, a second instance, erase, with the
   scriptlets of `rpm.go` and a predecessor that may have been left behind;
2. action properties of the components that have none: what a step of `Refinement` may never take
   back, and which files of an earlier invocation a step of `Session` leaves alone;
3. the correspondence of `Refinement` and the step `ObserveRefine` of `Pipeline`, as a mapping.
