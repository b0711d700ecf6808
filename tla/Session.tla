------------------------------- MODULE Session -------------------------------
(***************************************************************************)
(* The command: cmd/hardener/main.go main().  An invocation takes a batch  *)
(* of manifests; for each one it runs the pipeline, holds the result to    *)
(* the contract of its supply-chain party (checkConformance), and writes   *)
(* the report, the verdict and, when asked, the signed envelope and its    *)
(* copy in the attestation store.  Invocations follow one another on the   *)
(* same output directory and the same committed baselines.                 *)
(*                                                                         *)
(* What a target does is a set of items (a capability, a port, an access   *)
(* to a foreign type at class and permission granularity, a base grant),   *)
(* which ExtractObserved takes from the verified profile and rules.  The   *)
(* pipeline run is one step that yields a Result; Pipeline opens it up.    *)
(* A file is the set of the documents one can read in it: at most one, and *)
(* none while it is missing or torn.  A process that dies while it writes  *)
(* an output leaves what a failed write leaves.                            *)
(***************************************************************************)
EXTENDS Naturals, FiniteSets

CONSTANTS
  Targets,          (* the manifests                                         *)
  Items,            (* what a program may be observed to do                  *)
  Files, Names,     (* baseline files; base names of outputs                 *)
  Party,            (* Target.Party of each manifest                         *)
  Declaring,        (* the manifests with a declared: block, and its content *)
  Declared,
  BaselineOf,       (* its baseline file, explicit or by name and directory  *)
  OutputOf,         (* the base name of its path, which names its outputs    *)
  Updates,          (* bound: values of --update-baseline tried              *)
  Evidence,         (* bound: sets of {"sign", "upload"} asked for           *)
  MaxInvocations    (* bound: invocations on the same files                  *)

ASSUME SessionAssumption ==
  /\ Party \in [Targets -> {"first", "second", "third"}]
  /\ Declaring \subseteq Targets /\ Declared \in [Targets -> SUBSET Items]
  /\ BaselineOf \in [Targets -> Files] /\ OutputOf \in [Targets -> Names]
  /\ Updates \subseteq BOOLEAN /\ Evidence \subseteq SUBSET {"sign", "upload"}
  /\ MaxInvocations \in Nat

VARIABLES
  \* on disk and in the attestation store
  baselines, reports, verdicts, envelopes, store,
  \* the invocation: its options, its manifests, how it ended
  pc, opts, batch, todo, failures, exit,
  \* the target at hand and its Result
  current, res,
  \* history: what was ever accepted with --update-baseline, by baseline file
  reviewed,
  \* bound: the number of this invocation
  inv

outputs == <<reports, verdicts, envelopes, store>>
command == <<opts, batch>>
vars == <<baselines, outputs, pc, command, todo, failures, exit, current, res,
          reviewed, inv>>

Gates    == {"domain", "exercise", "noDenials"}
Verdicts == {"fail", "pass-with-exceptions", "pass"}

\* EnforceOK is every gate; bound: a digest for every entrypoint, and one of them
\* was seen to run; rpm is "malformed" when the verifier answered its digest with
\* something that is none.
NewResult ==
  [failed |-> FALSE, profile |-> FALSE, gates |-> {}, enforce |-> FALSE, static |-> FALSE,
   flags |-> FALSE, collisions |-> FALSE, exceptions |-> FALSE, bound |-> FALSE,
   rpm |-> "none", observed |-> {}, undeclared |-> {}, fatal |-> FALSE]

\* Mutant: the summary forgets the enforcement gate.
IsFailureUnenforced(r) == r.failed \/ r.fatal \/ (r.flags /\ ~opts.accept)

\* IsFailure: the exit status, the headline and the gate of checkConformance.
IsFailure(r) == r.failed \/ ~r.enforce \/ r.fatal \/ (r.flags /\ ~opts.accept)

\* Mutant: flags that were not accepted do not fail the verdict.
FailureOfUnflagged(r) ==
  \/ r.failed \/ r.fatal
  \/ r.undeclared # {} /\ Party[current] \in {"first", "second"}
  \/ r.gates # Gates \/ ~r.enforce
  \/ r.collisions /\ ~opts.accept
  \/ r.static

\* failureOf: the gates one by one.
FailureOf(r) ==
  \/ r.failed \/ r.fatal
  \/ r.undeclared # {} /\ Party[current] \in {"first", "second"}
  \/ r.gates # Gates \/ ~r.enforce
  \/ (r.flags \/ r.collisions) /\ ~opts.accept
  \/ r.static

VerdictOf(r) ==
  IF FailureOf(r) THEN "fail"
  ELSE IF r.exceptions \/ r.flags \/ r.collisions THEN "pass-with-exceptions" ELSE "pass"

Headline(r) ==
  IF IsFailure(r) THEN "fail"
  ELSE IF r.exceptions \/ (r.flags /\ opts.accept) THEN "pass-with-exceptions" ELSE "pass"

\* BuildOrErr: a digest that is none is never a subject, and a verdict that passes
\* binds the entrypoints that ran and the package.
Buildable(r) ==
  /\ r.rpm # "malformed"
  /\ VerdictOf(r) # "fail" => r.bound /\ r.rpm \in {"none", "hashed"}

Document == [target |-> current, inv |-> inv, verdict |-> VerdictOf(res),
             items |-> res.observed, drifted |-> res.undeclared # {},
             collided |-> res.collisions]
Summary  == [target |-> current, inv |-> inv, headline |-> Headline(res)]

Missing     == [state |-> "missing", items |-> {}]
Unreadable  == [state |-> "unreadable", items |-> {}]
Holding(s)  == [state |-> "readable", items |-> s]
Baseline    == BaselineOf[current]
Output      == OutputOf[current]

Init ==
  /\ baselines \in [Files -> {Missing, Unreadable} \cup {Holding(s) : s \in SUBSET Items}]
  /\ reviewed = [f \in Files |-> baselines[f].items]
  /\ reports = [o \in Names |-> {}] /\ verdicts = [o \in Names |-> {}]
  /\ envelopes = [o \in Names |-> {}] /\ store = {}
  /\ pc = "idle" /\ batch = {} /\ todo = {} /\ failures = 0 /\ exit = "none"
  /\ opts = [update |-> FALSE, accept |-> FALSE, evidence |-> {}]
  /\ current \in Targets /\ res = NewResult
  /\ inv = 0

Goto(l) == pc' = l /\ UNCHANGED <<exit, res>>
\* The process ends.
Stop(status) == pc' = "idle" /\ exit' = status /\ res' = NewResult
Settled == UNCHANGED <<command, todo, failures, current, inv>>

-----------------------------------------------------------------------------
(* The batch. *)

\* Mutant: manifests are told apart by their path.
PathsCollide(b) == FALSE

\* Two manifests of the batch whose outputs would have the same names.
OutputsCollide(b) == \E t, u \in b : t # u /\ OutputOf[t] = OutputOf[u]

Begin ==
  /\ pc = "idle" /\ inv < MaxInvocations
  /\ inv' = inv + 1
  /\ \E b \in (SUBSET Targets) \ {{}}, update \in Updates, accept \in BOOLEAN,
        evidence \in Evidence :
       /\ opts' = [update |-> update, accept |-> accept, evidence |-> evidence]
       /\ batch' = b
       /\ IF OutputsCollide(b)
          THEN Stop("fatal") /\ todo' = {}
          ELSE pc' = "next" /\ exit' = "running" /\ res' = NewResult /\ todo' = b
  /\ failures' = 0
  /\ UNCHANGED <<baselines, reviewed, outputs, current>>

\* target.Load: what the party of a manifest calls for and what it rules out.
Loadable(t) == t \in Declaring <=> Party[t] = "second"

\* Mutant: a manifest that does not load is tried again.
LoadUntilItDoes ==
  /\ pc = "next"
  /\ \E t \in todo :
       /\ current' = t
       /\ \/ Loadable(t) /\ Goto("run") /\ todo' = todo \ {t}
          \/ Goto("next") /\ UNCHANGED todo
  /\ UNCHANGED <<baselines, reviewed, outputs, command, failures, inv>>

\* A manifest that does not load, for these or for other reasons, is skipped.
Load ==
  /\ pc = "next"
  /\ \E t \in todo :
       /\ current' = t /\ todo' = todo \ {t}
       /\ \/ Loadable(t) /\ Goto("run") /\ UNCHANGED failures
          \/ Goto("next") /\ failures' = failures + 1
  /\ UNCHANGED <<baselines, reviewed, outputs, command, inv>>

Exit ==
  /\ pc = "next" /\ todo = {}
  /\ Stop(IF failures > 0 THEN "failure" ELSE "success")
  /\ UNCHANGED <<baselines, reviewed, outputs>> /\ Settled

\* What pipeline.Run can return, by how far it got: it failed early, its static
\* checks failed, it went through without enforcement proven, it failed while or
\* after the package was built, or it came to its end.  Nothing reads what else a
\* failed run had found.
Judged(g)  == [NewResult EXCEPT !.profile = TRUE, !.gates = g,
                                !.enforce = (g = Gates), !.bound = (g = Gates)]
Failed(r)  == [r EXCEPT !.failed = TRUE]
Completed(d, f, c, e) == [Judged(Gates) EXCEPT !.rpm = d, !.flags = f,
                                               !.collisions = c, !.exceptions = e]
Digests    == {"malformed", "hashed"}
Outcomes(accept) ==
  {Failed(NewResult), Failed([Judged(Gates) EXCEPT !.static = TRUE])}
  \cup {Judged(g) : g \in (SUBSET Gates) \ {Gates}}
  \cup {Failed([Judged(Gates) EXCEPT !.rpm = d]) :
          d \in {"none", "unhashed"} \cup Digests}
  \cup {r \in {Completed(d, f, c, e) :
                d \in Digests, f \in BOOLEAN, c \in BOOLEAN, e \in BOOLEAN} :
           r.exceptions => r.flags /\ accept}

Verify ==
  /\ pc = "run" /\ pc' = "conform"
  /\ \E r \in Outcomes(opts.accept) :
       \E seen \in (IF IsFailure(r) THEN {{}} ELSE SUBSET Items) :
         res' = [r EXCEPT !.observed = seen]
  /\ UNCHANGED <<baselines, reviewed, outputs, exit>> /\ Settled

-----------------------------------------------------------------------------
(* checkConformance *)

\* Mutant: FailureReason alone says whether the run was verified.
ComparableUnenforced == res.profile /\ ~res.failed

\* Nothing is compared or saved for a run that did not fully verify.
Comparable == res.profile /\ ~IsFailure(res)

Nonconforming == pc' = "report" /\ res' = [res EXCEPT !.fatal = TRUE] /\ UNCHANGED exit

\* An unverified run, or a third party, which never has a declared: block here.
NotCompared ==
  /\ pc = "conform"
  /\ ~Comparable \/ Party[current] = "third"
  /\ Goto("report")
  /\ UNCHANGED <<baselines, reviewed, outputs>> /\ Settled

\* First party, no baseline yet: --update-baseline creates it.
NoBaseline ==
  /\ pc = "conform" /\ Comparable
  /\ Party[current] = "first" /\ baselines[Baseline].state = "missing"
  /\ IF opts.update THEN Goto("save") ELSE Nonconforming
  /\ UNCHANGED <<baselines, reviewed, outputs>> /\ Settled

\* It does not parse, or cannot be read this time.
BadBaseline ==
  /\ pc = "conform" /\ Comparable
  /\ Party[current] = "first" /\ baselines[Baseline].state # "missing"
  /\ Nonconforming
  /\ UNCHANGED <<baselines, reviewed, outputs>> /\ Settled

\* Mutant: the comparison is made in the other direction.
Unexercised(decl, obs) == decl \ obs

\* Compare: the finding is what was observed and not declared.
Undeclared(decl, obs) == obs \ decl

\* Compare, Verdict, and the acceptance of drift.
Compare ==
  /\ pc = "conform" /\ Comparable
  /\ Party[current] \in {"first", "second"}
  /\ Party[current] = "first" => baselines[Baseline].state = "readable"
  /\ LET decl == IF Party[current] = "first" THEN baselines[Baseline].items
                                              ELSE Declared[current]
         new  == Undeclared(decl, res.observed)
     IN  /\ res' = [res EXCEPT !.undeclared = new,
                      !.fatal = new # {} /\ ~(Party[current] = "first" /\ opts.update)]
         /\ pc' = IF new # {} /\ Party[current] = "first" /\ opts.update
                  THEN "save" ELSE "report"
  /\ UNCHANGED <<exit, baselines, reviewed, outputs>> /\ Settled

\* SaveBaseline truncates the file, or cannot open it.  Until it is written, one
\* reads some of the items in it, or nothing that parses.
Truncate ==
  /\ pc = "save"
  /\ \/ /\ Goto("saving")
        /\ \E left \in {Unreadable} \cup {Holding(s) : s \in SUBSET res.observed} :
             baselines' = [baselines EXCEPT ![Baseline] = left]
        /\ reviewed' = [reviewed EXCEPT ![Baseline] = @ \cup res.observed]
     \/ Nonconforming /\ UNCHANGED <<baselines, reviewed>>
  /\ UNCHANGED outputs /\ Settled

\* Mutant: only the accepted drift is written.
DriftOnly == res.undeclared

Accepted == res.observed

Save ==
  /\ pc = "saving"
  /\ \/ baselines' = [baselines EXCEPT ![Baseline] = Holding(Accepted)] /\ Goto("report")
     \/ Nonconforming /\ UNCHANGED baselines
  /\ UNCHANGED <<reviewed, outputs>> /\ Settled

-----------------------------------------------------------------------------
(* The outputs.  Every error in writing one ends the process. *)

WriteReport ==
  /\ pc = "report"
  /\ \/ reports' = [reports EXCEPT ![Output] = {Summary}] /\ Goto("verdict")
     \/ reports' \in {reports, [reports EXCEPT ![Output] = {}]} /\ Stop("fatal")
  /\ UNCHANGED <<baselines, reviewed, verdicts, envelopes, store>> /\ Settled

\* Mutant: the verdict is added to what the file holds.
VerdictFileAppended == verdicts[Output] \cup {Document}

VerdictFile == {Document}

WriteVerdict ==
  /\ pc = "verdict" /\ Buildable(res)
  /\ \/ /\ verdicts' = [verdicts EXCEPT ![Output] = VerdictFile]
        /\ Goto(IF opts.evidence = {} THEN "tally" ELSE "sign")
     \/ verdicts' \in {verdicts, [verdicts EXCEPT ![Output] = {}]} /\ Stop("fatal")
  /\ UNCHANGED <<baselines, reviewed, reports, envelopes, store>> /\ Settled

BuildError ==
  /\ pc = "verdict" /\ ~Buildable(res)
  /\ Stop("fatal")
  /\ UNCHANGED <<baselines, reviewed, outputs>> /\ Settled

\* SignFile and the envelope file; an upload without a key is refused here.
Sign ==
  /\ pc = "sign"
  /\ \/ /\ "sign" \in opts.evidence
        /\ envelopes' = [envelopes EXCEPT ![Output] = {Document}]
        /\ Goto(IF "upload" \in opts.evidence THEN "upload" ELSE "tally")
     \/ /\ envelopes' \in (IF "sign" \in opts.evidence
                           THEN {envelopes, [envelopes EXCEPT ![Output] = {}]}
                           ELSE {envelopes})
        /\ Stop("fatal")
  /\ UNCHANGED <<baselines, reviewed, reports, verdicts, store>> /\ Settled

\* Mutant: any answer of the store will do.
UploadUnconfirmed ==
  /\ pc = "upload"
  /\ store' \in {store, store \cup {Document}} /\ Goto("tally")
  /\ UNCHANGED <<baselines, reviewed, reports, verdicts, envelopes>> /\ Settled

\* Only an answer with a gitoid says that the store has the envelope; it may have
\* it when the answer is lost.
Upload ==
  /\ pc = "upload"
  /\ \/ store' = store \cup {Document} /\ Goto("tally")
     \/ store' \in {store, store \cup {Document}} /\ Stop("fatal")
  /\ UNCHANGED <<baselines, reviewed, reports, verdicts, envelopes>> /\ Settled

Tally ==
  /\ pc = "tally"
  /\ failures' = failures + (IF IsFailure(res) THEN 1 ELSE 0)
  /\ pc' = "next" /\ res' = NewResult /\ UNCHANGED exit
  /\ UNCHANGED <<baselines, reviewed, outputs, command, todo, current, inv>>

\* The process dies between two steps.
Kill ==
  /\ pc # "idle"
  /\ Stop("killed")
  /\ UNCHANGED <<baselines, reviewed, outputs>> /\ Settled

Step ==
  \/ Load \/ Exit \/ Verify
  \/ NotCompared \/ NoBaseline \/ BadBaseline \/ Compare \/ Truncate \/ Save
  \/ WriteReport \/ WriteVerdict \/ BuildError \/ Sign \/ Upload \/ Tally

Next == Begin \/ Step \/ Kill

Spec == Init /\ [][Next]_vars

\* Every step of the program ends: pipeline.Run does (Pipeline's RunEnds, as long as
\* no descendant of a remote command keeps its output for ever, see CappedRunner),
\* the upload has a timeout, the rest reads and writes local files.
FairSpec == Spec /\ WF_vars(Step)

-----------------------------------------------------------------------------
(* Properties *)

Documents == [target : Targets, inv : 1..MaxInvocations, verdict : Verdicts,
              items : SUBSET Items, drifted : BOOLEAN, collided : BOOLEAN]
Summaries == [target : Targets, inv : 1..MaxInvocations, headline : Verdicts]
AtMostOne(s) == \A d, e \in s : d = e
Labels == {"idle", "next", "run", "conform", "save", "saving", "report", "verdict",
           "sign", "upload", "tally"}
Results ==
  [failed : BOOLEAN, profile : BOOLEAN, gates : SUBSET Gates, enforce : BOOLEAN,
   static : BOOLEAN, flags : BOOLEAN, collisions : BOOLEAN, exceptions : BOOLEAN,
   bound : BOOLEAN, rpm : {"none", "unhashed", "malformed", "hashed"},
   observed : SUBSET Items, undeclared : SUBSET Items, fatal : BOOLEAN]
Contents == [state : {"missing", "unreadable", "readable"}, items : SUBSET Items]

\* Every variable stays in its type, and a file is one document or none.
TypeOK ==
  /\ baselines \in [Files -> Contents] /\ reviewed \in [Files -> SUBSET Items]
  /\ reports \in [Names -> SUBSET Summaries] /\ verdicts \in [Names -> SUBSET Documents]
  /\ envelopes \in [Names -> SUBSET Documents] /\ store \subseteq Documents
  /\ \A o \in Names : AtMostOne(reports[o]) /\ AtMostOne(verdicts[o])
                        /\ AtMostOne(envelopes[o])
  /\ pc \in Labels
  /\ opts \in [update : BOOLEAN, accept : BOOLEAN, evidence : SUBSET {"sign", "upload"}]
  /\ batch \subseteq Targets /\ todo \subseteq batch /\ failures \in Nat
  /\ exit \in {"none", "running", "success", "failure", "fatal", "killed"}
  /\ current \in Targets /\ res \in Results
  /\ inv \in 0..MaxInvocations

\* Wherever a document is read, on disk or in the attestation store, now or long
\* after: a verdict that passes a first-party program stands for items a human
\* accepted into its baseline, however torn the baseline was in between, and one
\* that passes a second-party program for items the supplier declared.
InContract(t, items) ==
  /\ Party[t] = "first" => items \subseteq reviewed[BaselineOf[t]]
  /\ Party[t] = "second" => items \subseteq Declared[t]
Published == store \cup UNION {verdicts[o] \cup envelopes[o] : o \in Names}
PassesInContract ==
  \A d \in Published : d.verdict # "fail" => InContract(d.target, d.items)

\* A successful exit leaves, for every manifest of the batch, a report and a
\* verdict of this invocation and of this very target, none lost to a torn file,
\* to a skipped manifest or to another target's outputs.
SuccessHasOwnOutputs ==
  exit = "success" =>
    \A t \in batch :
      /\ \E r \in reports[OutputOf[t]] : r.target = t /\ r.inv = inv
      /\ \E d \in verdicts[OutputOf[t]] : d.target = t /\ d.inv = inv

\* A successful exit also leaves what was asked for: the envelope signs the verdict
\* in the verdict file, and the store has it.
EvidenceDelivered ==
  exit = "success" =>
    \A t \in batch : \A d \in verdicts[OutputOf[t]] :
      /\ "sign" \in opts.evidence => envelopes[OutputOf[t]] = {d}
      /\ "upload" \in opts.evidence => d \in store

\* The exit status and the verdicts are computed apart.  They part in two cases
\* only: drift that --update-baseline accepted, and collisions nobody accepted.
SuccessMeansPass ==
  exit = "success" =>
    \A t \in batch : \A d \in verdicts[OutputOf[t]] :
      d.verdict = "fail" => \/ d.drifted /\ opts.update /\ Party[t] = "first"
                            \/ d.collided /\ ~opts.accept

\* A report that says FAIL never has a verdict of the same run that passes.
HeadlineBindsVerdict ==
  \A o \in Names : \A r \in reports[o], d \in verdicts[o] :
    r.target = d.target /\ r.inv = d.inv /\ r.headline = "fail" => d.verdict = "fail"

\* A committed baseline is written only by an invocation that asked for it, for a
\* run whose package was built under proven enforcement with no flag left open.
BaselineFromVerifiedRun ==
  [][baselines' # baselines =>
       /\ opts.update /\ Party[current] = "first"
       /\ res.enforce /\ res.gates = Gates /\ ~res.failed
       /\ res.rpm \in {"malformed", "hashed"} /\ (res.flags => opts.accept)]_vars

\* No other first-party manifest names the same baseline file.
OwnsBaseline(t) ==
  \A u \in Targets : Party[u] = "first" /\ BaselineOf[u] = BaselineOf[t] => u = t

\* After a successful update the baseline covers what was just observed, so the
\* same behaviour conforms next time.  (First-party manifests that share
\* a baseline file overwrite each other's.)
UpdateSettles ==
  exit = "success" /\ opts.update =>
    \A t \in batch :
      Party[t] = "first" /\ OwnsBaseline(t) =>
        \A d \in verdicts[OutputOf[t]] :
          /\ baselines[BaselineOf[t]].state = "readable"
          /\ d.items \subseteq baselines[BaselineOf[t]].items

\* Every invocation ends.
InvocationEnds == pc # "idle" ~> pc = "idle"

\* The comment on IsFailure: the exit status and the verdict derive from one truth.
OneVerdict ==
  exit = "success" =>
    \A t \in batch : \A d \in verdicts[OutputOf[t]] : d.verdict # "fail"

=============================================================================
