------------------------ MODULE SessionOutcome_proofs -------------------------
(***************************************************************************)
(* For every fleet of manifests and every number of invocations: what a    *)
(* successful exit stands for, and what a baseline is written for.         *)
(***************************************************************************)
EXTENDS Session_proofs

(* The stages of a target: before it is compared, while its baseline is written, *)
(* and from the judgement to the tally.                                          *)
Verifying  == {"run", "conform"}
Saving     == {"save", "saving"}
Publishing == {"report", "verdict", "sign", "upload", "tally"}
AtHand     == Verifying \cup Saving \cup Publishing

(* The process lives until it has an exit status; a batch that started has outputs *)
(* of its own for every manifest.                                                  *)
ProgressInv ==
  /\ pc # "idle" <=> exit = "running"
  /\ exit \in {"running", "success"} => ~OutputsCollide(batch)
  /\ exit = "success" => todo = {} /\ failures = 0
  /\ pc \in AtHand => current \in batch \ todo

(* What the gates of a Result have to do with each other. *)
Consistent(r) ==
  /\ r.enforce => r.gates = Gates
  /\ r.static => r.failed
  /\ r.enforce /\ ~r.failed => r.rpm \in Digests
  /\ r.profile \/ r.failed

(* The Result at hand, and what its comparison left open. *)
ResultInv ==
  /\ pc \in AtHand \ {"run"} => Consistent(res)
  /\ pc = "conform" => res.undeclared = {} /\ ~res.fatal
  /\ pc \in Saving => Comparable /\ opts.update /\ Party[current] = "first"
  /\ pc \in Saving \cup Publishing /\ res.undeclared # {} /\ ~res.fatal =>
       Party[current] = "first" /\ opts.update

Covered(t, items) ==
  /\ baselines[BaselineOf[t]].state = "readable"
  /\ items \subseteq baselines[BaselineOf[t]].items

CoverInv ==
  pc \in Publishing /\ ~IsFailure(res) /\ Party[current] = "first" =>
    Covered(current, res.observed)

(* The target at hand has no verdict of this invocation yet, nor has one to come. *)
UnwrittenInv ==
  \A o \in Names : \A d \in verdicts[o] :
    /\ d.inv <= inv
    /\ pc # "idle" /\ d.inv = inv => d.target \notin todo
    /\ pc \in Verifying \cup Saving \cup {"report", "verdict"} /\ d.inv = inv => d.target # current

(* What is written of the target at hand, by stage. *)
WrittenInv ==
  /\ pc \in Publishing \ {"report"} => reports[Output] = {Summary}
  /\ pc \in {"sign", "upload", "tally"} => verdicts[Output] = {Document}
  /\ pc \in {"upload"} => envelopes[Output] = {Document} /\ "sign" \in opts.evidence
  /\ pc = "tally" => /\ "sign" \in opts.evidence => envelopes[Output] = {Document}
                     /\ "upload" \in opts.evidence => Document \in store

(* What a target of this invocation that did not count as a failure has left. *)
Delivered(t) ==
  /\ \E r \in reports[OutputOf[t]] : r.target = t /\ r.inv = inv
  /\ \E d \in verdicts[OutputOf[t]] : d.target = t /\ d.inv = inv
  /\ \A d \in verdicts[OutputOf[t]] :
       /\ "sign" \in opts.evidence => envelopes[OutputOf[t]] = {d}
       /\ "upload" \in opts.evidence => d \in store
       /\ d.verdict = "fail" => \/ d.drifted /\ opts.update /\ Party[t] = "first"
                                \/ d.collided /\ ~opts.accept
       /\ Party[t] = "first" /\ OwnsBaseline(t) => Covered(t, d.items)

Done == IF pc \in AtHand THEN (batch \ todo) \ {current} ELSE batch \ todo

DoneInv == exit \in {"running", "success"} /\ failures = 0 => \A t \in Done : Delivered(t)

OutcomeInv ==
  /\ TypeInv /\ ProgressInv /\ ResultInv /\ CoverInv /\ UnwrittenInv /\ WrittenInv /\ DoneInv
  /\ HeadlineBindsVerdict
-----------------------------------------------------------------------------
(* The Result: what its gates have to do with each other, and with its use. *)

\* The Result at hand and its target have their types, and so has what was observed.
LEMMA ResultTypes ==
  ASSUME TypeInv
  PROVE  /\ res \in Results /\ res.observed \in SUBSET Items /\ current \in Targets
         /\ Baseline \in Files /\ Output \in Names /\ opts.accept \in BOOLEAN
BY SessionAssumption DEF TypeInv, TypeOK, Results, Baseline, Output

\* What Verify yields is consistent.
LEMMA OutcomesConsistent ==
  ASSUME NEW accept \in BOOLEAN, NEW r \in Outcomes(accept)
  PROVE  Consistent(r)
<1>1. ASSUME NEW g \in SUBSET Gates
      PROVE  /\ Judged(g) \in Results /\ Judged(g).profile = TRUE /\ Judged(g).static = FALSE
             /\ Judged(g).gates = g /\ Judged(g).enforce = (g = Gates)
  <2>1. (g = Gates) \in BOOLEAN
    OBVIOUS
  <2>. QED BY <2>1 DEF Judged, NewResult, Results, Gates
<1>2. NewResult \in Results /\ NewResult.static = FALSE /\ NewResult.enforce = FALSE
  BY DEF NewResult, Results, Gates
<1>3. /\ Judged(Gates) \in Results /\ Judged(Gates).profile = TRUE
      /\ Judged(Gates).static = FALSE /\ Judged(Gates).gates = Gates
  BY <1>1
<1>. DEFINE Early    == {Failed(NewResult), Failed([Judged(Gates) EXCEPT !.static = TRUE])}
            Unproven == {Judged(g) : g \in (SUBSET Gates) \ {Gates}}
            Late     == {Failed([Judged(Gates) EXCEPT !.rpm = d]) :
                           d \in {"none", "unhashed"} \cup Digests}
            Whole    == {Completed(d, f, c, e) :
                           d \in Digests, f \in BOOLEAN, c \in BOOLEAN, e \in BOOLEAN}
<1>4. CASE r \in Early
  <2>. DEFINE q == [Judged(Gates) EXCEPT !.static = TRUE]
  <2>1. CASE r = Failed(NewResult)
    BY <1>2, <2>1 DEF Failed, Consistent, Results
  <2>2. CASE r = Failed(q)
    <3>1. q \in Results /\ q.gates = Gates
      BY <1>3 DEF Results
    <3>. HIDE DEF q
    <3>2. Failed(q).gates = Gates /\ Failed(q).failed = TRUE
      BY <3>1 DEF Failed, Results
    <3>. QED BY <2>2, <3>2 DEF Consistent
  <2>. QED BY <1>4, <2>1, <2>2
<1>5. CASE r \in Unproven
  <2>1. PICK g \in (SUBSET Gates) \ {Gates} : r = Judged(g)
    BY <1>5, Zenon
  <2>. QED BY <1>1, <2>1 DEF Consistent
<1>6. CASE r \in Late
  <2>1. PICK d \in {"none", "unhashed"} \cup Digests :
          r = Failed([Judged(Gates) EXCEPT !.rpm = d])
    BY <1>6, Zenon
  <2>. DEFINE q == [Judged(Gates) EXCEPT !.rpm = d]
  <2>2. q \in Results /\ q.gates = Gates
    BY <1>3 DEF Results, Digests
  <2>. HIDE DEF q
  <2>3. /\ Failed(q).gates = Gates /\ Failed(q).failed = TRUE
    BY <2>2 DEF Failed, Results
  <2>4. r = Failed(q)
    BY <2>1 DEF q
  <2>. QED BY <2>3, <2>4 DEF Consistent
<1>7. CASE r \in Whole
  <2>1. PICK d \in Digests, f \in BOOLEAN, c \in BOOLEAN, e \in BOOLEAN :
          r = Completed(d, f, c, e)
    BY <1>7
  <2>2. /\ Completed(d, f, c, e).gates = Gates /\ Completed(d, f, c, e).static = FALSE
        /\ Completed(d, f, c, e).rpm = d /\ Completed(d, f, c, e).profile = TRUE
    BY <1>3 DEF Completed, Results, Digests
  <2>. QED BY <2>1, <2>2 DEF Consistent
<1>8. Outcomes(accept) = Early \cup Unproven \cup Late
                           \cup {q \in Whole : q.exceptions => q.flags /\ accept}
  BY DEF Outcomes
<1>. HIDE DEF Early, Unproven, Late, Whole
<1>. QED BY <1>4, <1>5, <1>6, <1>7, <1>8

\* The headline's gate is the weaker one ...
LEMMA FailureIsFailure == IsFailure(res) => FailureOf(res)
BY DEF IsFailure, FailureOf

\* ... and these are the two cases in which they part.
LEMMA TheTwoPart ==
  ASSUME Consistent(res), ~IsFailure(res), FailureOf(res)
  PROVE  res.undeclared # {} \/ (res.collisions /\ ~opts.accept)
BY DEF Consistent, IsFailure, FailureOf

-----------------------------------------------------------------------------
(* Progress *)

\* Every step keeps the counting of the targets of a batch: those to do, the one at hand,
\* the failures.
LEMMA ProgressStep ==
  ASSUME TypeInv, TypeInv', ProgressInv, [Next]_vars
  PROVE  ProgressInv'
<1>. USE DEF ProgressInv, AtHand, Verifying, Saving, Publishing, OutputsCollide
<1>1. CASE Begin
  BY <1>1 DEF Begin, Stop
<1>2. CASE Load
  BY <1>2 DEF Load, Goto, command, TypeInv, TypeOK
<1>3. CASE Exit
  BY <1>3 DEF Exit, Stop, Settled, command, TypeInv, TypeOK
<1>4. CASE Verify
  BY <1>4 DEF Verify, Settled, command
<1>5. CASE NotCompared
  BY <1>5 DEF NotCompared, Goto, Settled, command
<1>6. CASE NoBaseline
  BY <1>6 DEF NoBaseline, Nonconforming, Goto, Settled, command
<1>7. CASE BadBaseline
  BY <1>7 DEF BadBaseline, Nonconforming, Settled, command
<1>8. CASE Compare
  BY <1>8 DEF Compare, Settled, command
<1>9. CASE Truncate
  BY <1>9 DEF Truncate, Nonconforming, Goto, Settled, command
<1>10. CASE Save
  BY <1>10 DEF Save, Nonconforming, Goto, Settled, command
<1>11. CASE WriteReport
  BY <1>11 DEF WriteReport, Goto, Stop, Settled, command
<1>12. CASE WriteVerdict
  BY <1>12 DEF WriteVerdict, Goto, Stop, Settled, command
<1>13. CASE BuildError
  BY <1>13 DEF BuildError, Stop, Settled, command
<1>14. CASE Sign
  BY <1>14 DEF Sign, Goto, Stop, Settled, command
<1>15. CASE Upload
  BY <1>15 DEF Upload, Goto, Stop, Settled, command
<1>16. CASE Tally
  BY <1>16 DEF Tally, command, TypeInv, TypeOK
<1>17. CASE Kill
  BY <1>17 DEF Kill, Stop, Settled, command
<1>18. CASE UNCHANGED vars
  BY <1>18 DEF vars, command
<1>. QED
  BY <1>1, <1>2, <1>3, <1>4, <1>5, <1>6, <1>7, <1>8, <1>9, <1>10, <1>11, <1>12,
     <1>13, <1>14, <1>15, <1>16, <1>17, <1>18 DEF Next, Step

-----------------------------------------------------------------------------
(* The Result at hand *)

\* The comparison changes nothing the gates are about.
LEMMA ConsistentKept ==
  ASSUME NEW r \in Results, NEW s \in Results, Consistent(r),
         s.enforce = r.enforce, s.gates = r.gates, s.static = r.static,
         s.failed = r.failed, s.rpm = r.rpm, s.profile = r.profile
  PROVE  Consistent(s)
BY DEF Consistent

\* A target that does not conform goes to its report with a Result that fails the batch.
LEMMA NonconformingResult ==
  ASSUME TypeInv, Nonconforming, Consistent(res)
  PROVE  /\ pc' = "report" /\ exit' = exit /\ Consistent(res') /\ res'.fatal = TRUE
         /\ res'.undeclared = res.undeclared /\ res'.observed = res.observed
<1>1. /\ res' \in Results /\ pc' = "report" /\ exit' = exit /\ res'.fatal = TRUE
      /\ res'.undeclared = res.undeclared /\ res'.observed = res.observed
      /\ res'.enforce = res.enforce /\ res'.gates = res.gates /\ res'.static = res.static
      /\ res'.failed = res.failed /\ res'.rpm = res.rpm /\ res'.profile = res.profile
  BY ResultTypes DEF Nonconforming, Results
<1>. QED BY <1>1, ResultTypes, ConsistentKept

\* What Compare leaves in the Result.
LEMMA ComparedResult ==
  ASSUME TypeInv, Compare, Consistent(res)
  PROVE  /\ Consistent(res') /\ res'.observed = res.observed
         /\ IsFailure(res) = FALSE /\ res.profile
         /\ IsFailure(res)' <=> res'.fatal
         /\ res'.undeclared # {} /\ ~res'.fatal <=> pc' = "save"
         /\ pc' = "save" => Party[current] = "first" /\ opts.update
         /\ pc' \in {"save", "report"} /\ UNCHANGED <<exit, opts, current>>
         /\ pc' = "report" /\ ~res'.fatal /\ Party[current] = "first" =>
              Covered(current, res.observed)
<1>. DEFINE decl == IF Party[current] = "first" THEN baselines[Baseline].items
                                                ELSE Declared[current]
            new == Undeclared(decl, res.observed)
            bad == new # {} /\ ~(Party[current] = "first" /\ opts.update)
<1>1. res' = [res EXCEPT !.undeclared = new, !.fatal = bad]
  BY DEF Compare
<1>2. new \in SUBSET Items
  BY ResultTypes DEF Undeclared
<1>3. bad \in BOOLEAN
  BY Zenon
<1>4. /\ pc' = IF new # {} /\ Party[current] = "first" /\ opts.update
               THEN "save" ELSE "report"
      /\ Comparable /\ UNCHANGED <<exit, opts, current, baselines>>
      /\ Party[current] \in {"first", "second"}
      /\ Party[current] = "first" => baselines[Baseline].state = "readable"
  BY DEF Compare, Settled, command
<1>5. Party[current] = "first" /\ new = {} => Covered(current, res.observed)
  BY <1>4 DEF Undeclared, Covered, Baseline
<1>. HIDE DEF new, bad
<1>6. /\ res' \in Results /\ res'.undeclared = new /\ res'.fatal = bad
      /\ res'.observed = res.observed /\ res'.flags = res.flags
      /\ res'.enforce = res.enforce /\ res'.gates = res.gates /\ res'.static = res.static
      /\ res'.failed = res.failed /\ res'.rpm = res.rpm /\ res'.profile = res.profile
  BY <1>1, <1>2, <1>3, ResultTypes DEF Results
<1>7. Consistent(res')
  BY <1>6, ResultTypes, ConsistentKept
<1>8. bad <=> new # {} /\ ~(Party[current] = "first" /\ opts.update)
  BY DEF bad
<1>9. IsFailure(res) = FALSE /\ res.profile /\ (IsFailure(res)' <=> res'.fatal)
  BY <1>4, <1>6 DEF Comparable, IsFailure
<1>. QED BY <1>4, <1>5, <1>6, <1>7, <1>8, <1>9

\* Every step keeps what the fields of the Result at hand have to do with each other.
LEMMA ResultStep ==
  ASSUME TypeInv, ResultInv, [Next]_vars
  PROVE  ResultInv'
<1>. USE DEF AtHand, Verifying, Saving, Publishing
<1>1. CASE Begin
  BY <1>1 DEF Begin, Stop, ResultInv
<1>2. CASE Load
  BY <1>2 DEF Load, Goto, ResultInv
<1>3. CASE Exit
  BY <1>3 DEF Exit, Stop, ResultInv
<1>4. CASE Verify
  <2>1. PICK r \in Outcomes(opts.accept), seen \in SUBSET Items :
          res' = [r EXCEPT !.observed = seen]
    BY <1>4 DEF Verify
  <2>2. Uncompared(r) /\ Consistent(r)
    BY <2>1, ResultTypes, OutcomesUncompared, OutcomesConsistent
  <2>3. Consistent(res') /\ res'.undeclared = {} /\ ~res'.fatal
    BY <2>1, <2>2 DEF Uncompared, Consistent, Results
  <2>. QED BY <1>4, <2>3 DEF Verify, ResultInv
\* The steps that look at the Result and keep it, with its invocation.
<1>5. ASSUME pc \in AtHand \ {"run"}, UNCHANGED <<res, opts, current>>,
             \/ pc = "conform" /\ pc' \in Publishing
             \/ pc \in Saving /\ pc' \in Saving \cup Publishing
             \/ pc \in Publishing /\ pc' \in Publishing
      PROVE  ResultInv'
  BY <1>5 DEF ResultInv, Consistent, Comparable, IsFailure
<1>6. CASE NotCompared
  BY <1>5, <1>6 DEF NotCompared, Goto, Settled, command
<1>7. ASSUME pc \in AtHand \ {"run"}, Nonconforming, UNCHANGED <<opts, current>>
      PROVE  ResultInv'
  BY <1>7, NonconformingResult DEF ResultInv
<1>8. CASE NoBaseline
  <2>1. CASE Nonconforming
    BY <1>7, <1>8, <2>1 DEF NoBaseline, Settled, command
  <2>2. CASE ~Nonconforming
    BY <1>8, <2>2
    DEF NoBaseline, Goto, Settled, command, ResultInv, Consistent, Comparable, IsFailure
  <2>. QED BY <2>1, <2>2
<1>9. CASE BadBaseline
  BY <1>7, <1>9 DEF BadBaseline, Settled, command
<1>10. CASE Compare
  <2>1. Consistent(res)
    BY <1>10 DEF Compare, ResultInv
  <2>2. pc' = "save" => Comparable'
    <3>1. pc' = "save" => ~IsFailure(res)'
      BY <1>10, <2>1, ComparedResult
    <3>2. res'.profile = res.profile
      BY <1>10, ResultTypes DEF Compare, Results
    <3>. QED BY <1>10, <3>1, <3>2 DEF Compare, Comparable
  <2>. QED BY <1>10, <2>1, <2>2, ComparedResult DEF ResultInv
<1>11. CASE Truncate
  <2>1. CASE Nonconforming
    BY <1>7, <1>11, <2>1 DEF Truncate, Settled, command
  <2>2. CASE ~Nonconforming
    BY <1>5, <1>11, <2>2 DEF Truncate, Goto, Settled, command
  <2>. QED BY <2>1, <2>2
<1>12. CASE Save
  <2>1. CASE Nonconforming
    BY <1>7, <1>12, <2>1 DEF Save, Settled, command
  <2>2. CASE ~Nonconforming
    BY <1>5, <1>12, <2>2 DEF Save, Goto, Settled, command
  <2>. QED BY <2>1, <2>2
\* A process that stops has no target at hand.
<1>13. ASSUME pc' \in {"idle", "next"} PROVE ResultInv'
  BY <1>13 DEF ResultInv
<1>14. CASE WriteReport
  BY <1>5, <1>13, <1>14 DEF WriteReport, Goto, Stop, Settled, command
<1>15. CASE WriteVerdict
  BY <1>5, <1>13, <1>15 DEF WriteVerdict, Goto, Stop, Settled, command
<1>16. CASE BuildError
  BY <1>13, <1>16 DEF BuildError, Stop
<1>17. CASE Sign
  BY <1>5, <1>13, <1>17 DEF Sign, Goto, Stop, Settled, command
<1>18. CASE Upload
  BY <1>5, <1>13, <1>18 DEF Upload, Goto, Stop, Settled, command
<1>19. CASE Tally
  BY <1>13, <1>19 DEF Tally
<1>20. CASE Kill
  BY <1>13, <1>20 DEF Kill, Stop
<1>21. CASE UNCHANGED vars
  BY <1>21 DEF vars, command, ResultInv, Consistent, Comparable, IsFailure
<1>. QED
  BY <1>1, <1>2, <1>3, <1>4, <1>6, <1>8, <1>9, <1>10, <1>11, <1>12, <1>14, <1>15,
     <1>16, <1>17, <1>18, <1>19, <1>20, <1>21 DEF Next, Step
-----------------------------------------------------------------------------
(* The baseline of the target at hand *)

\* Every step keeps the baseline wide enough for the first-party target that is being
\* published.
LEMMA CoverStep ==
  ASSUME TypeInv, ResultInv, CoverInv, [Next]_vars
  PROVE  CoverInv'
<1>. USE DEF AtHand, Verifying, Saving, Publishing
<1>1. ASSUME pc' \notin Publishing PROVE CoverInv'
  BY <1>1 DEF CoverInv
<1>2. ASSUME pc \in Publishing, UNCHANGED <<baselines, res, opts, current>>
      PROVE  CoverInv'
  BY <1>2 DEF CoverInv, Covered, IsFailure
\* A failed comparison fails the run.
<1>3. ASSUME pc \in AtHand \ {"run"}, Nonconforming PROVE CoverInv'
  <2>1. IsFailure(res)'
    BY <1>3, NonconformingResult DEF ResultInv, IsFailure
  <2>. QED BY <2>1 DEF CoverInv
<1>4. CASE Begin
  BY <1>1, <1>4 DEF Begin, Stop
<1>5. CASE Load
  BY <1>1, <1>5 DEF Load, Goto
<1>6. CASE Exit
  BY <1>1, <1>6 DEF Exit, Stop
<1>7. CASE Verify
  BY <1>1, <1>7 DEF Verify
<1>8. CASE NotCompared
  <2>1. IsFailure(res) \/ Party[current] = "third"
    BY <1>8 DEF NotCompared, Comparable, ResultInv, Consistent, IsFailure
  <2>2. IsFailure(res)' \/ Party[current'] = "third"
    BY <1>8, <2>1 DEF NotCompared, Goto, Settled, command, IsFailure
  <2>. QED BY <2>2 DEF CoverInv
<1>9. CASE NoBaseline
  BY <1>1, <1>3, <1>9 DEF NoBaseline, Goto
<1>10. CASE BadBaseline
  BY <1>3, <1>10 DEF BadBaseline
<1>11. CASE Compare
  <2>1. Consistent(res)
    BY <1>11 DEF Compare, ResultInv
  <2>2. pc' = "report" /\ ~IsFailure(res)' /\ Party[current] = "first" =>
          Covered(current, res.observed)
    BY <1>11, <2>1, ComparedResult
  <2>3. Covered(current, res.observed) => Covered(current, res.observed)'
    BY <1>11, <2>1, ComparedResult DEF Compare, Settled, command, Covered
  <2>. QED BY <1>11, <2>1, <2>2, <2>3, ComparedResult DEF CoverInv
<1>12. CASE Truncate
  BY <1>1, <1>3, <1>12 DEF Truncate, Goto
<1>13. CASE Save
  <2>1. CASE Nonconforming
    BY <1>3, <1>13, <2>1 DEF Save
  <2>2. CASE ~Nonconforming
    <3>1. /\ baselines' = [baselines EXCEPT ![Baseline] = Holding(res.observed)]
          /\ UNCHANGED <<res, current>>
      BY <1>13, <2>2 DEF Save, Accepted, Goto, Settled
    <3>2. Covered(current, res.observed)'
      BY <3>1, ResultTypes DEF Covered, Holding, Baseline, TypeInv, TypeOK
    <3>. QED BY <3>2 DEF CoverInv
  <2>. QED BY <2>1, <2>2
<1>14. CASE WriteReport
  BY <1>1, <1>2, <1>14 DEF WriteReport, Goto, Stop, Settled, command
<1>15. CASE WriteVerdict
  BY <1>1, <1>2, <1>15 DEF WriteVerdict, Goto, Stop, Settled, command
<1>16. CASE BuildError
  BY <1>1, <1>16 DEF BuildError, Stop
<1>17. CASE Sign
  BY <1>1, <1>2, <1>17 DEF Sign, Goto, Stop, Settled, command
<1>18. CASE Upload
  BY <1>1, <1>2, <1>18 DEF Upload, Goto, Stop, Settled, command
<1>19. CASE Tally
  BY <1>1, <1>19 DEF Tally
<1>20. CASE Kill
  BY <1>1, <1>20 DEF Kill, Stop
<1>21. CASE UNCHANGED vars
  BY <1>21 DEF vars, command, CoverInv, Covered, IsFailure
<1>. QED
  BY <1>4, <1>5, <1>6, <1>7, <1>8, <1>9, <1>10, <1>11, <1>12, <1>13, <1>14, <1>15,
     <1>16, <1>17, <1>18, <1>19, <1>20, <1>21 DEF Next, Step

-----------------------------------------------------------------------------
(* The output files of the target at hand *)

\* Every step keeps a target that is still to do without a verdict of this invocation.
LEMMA UnwrittenStep ==
  ASSUME TypeInv, TypeInv', ProgressInv, UnwrittenInv, [Next]_vars
  PROVE  UnwrittenInv'
<1>. USE DEF AtHand, Verifying, Saving, Publishing
<1>1. \A o \in Names : \A d \in verdicts[o] : d.inv \in Nat
  BY SessionAssumption DEF TypeInv, TypeOK, Documents
<1>2. inv \in Nat
  BY SessionAssumption DEF TypeInv, TypeOK
\* A step that leaves the verdicts alone and does not go back.
<1>3. ASSUME UNCHANGED <<verdicts, todo, current, inv>>, pc # "idle",
             pc' \in Verifying \cup Saving \cup {"report", "verdict"} =>
               pc \in Verifying \cup Saving \cup {"report", "verdict"}
      PROVE  UnwrittenInv'
  BY <1>3 DEF UnwrittenInv
<1>4. CASE Begin
  BY <1>1, <1>2, <1>4 DEF Begin, Stop, outputs, UnwrittenInv
<1>5. CASE Load
  BY <1>5 DEF Load, Goto, outputs, UnwrittenInv
<1>6. CASE Exit
  BY <1>3, <1>6 DEF Exit, Stop, Settled, outputs
<1>7. CASE Verify
  BY <1>3, <1>7 DEF Verify, Settled, outputs
<1>8. CASE NotCompared
  BY <1>3, <1>8 DEF NotCompared, Goto, Settled, outputs
<1>9. CASE NoBaseline
  BY <1>3, <1>9 DEF NoBaseline, Nonconforming, Goto, Settled, outputs
<1>10. CASE BadBaseline
  BY <1>3, <1>10 DEF BadBaseline, Nonconforming, Settled, outputs
<1>11. CASE Compare
  BY <1>3, <1>11 DEF Compare, Settled, outputs
<1>12. CASE Truncate
  BY <1>3, <1>12 DEF Truncate, Nonconforming, Goto, Settled, outputs
<1>13. CASE Save
  BY <1>3, <1>13 DEF Save, Nonconforming, Goto, Settled, outputs
<1>14. CASE WriteReport
  BY <1>3, <1>14 DEF WriteReport, Goto, Stop, Settled
<1>15. CASE WriteVerdict
  <2>1. \A o \in Names : \A d \in verdicts'[o] : d \in verdicts[o] \/ d = Document
    BY <1>15, ResultTypes DEF WriteVerdict, VerdictFile, TypeInv, TypeOK
  <2>2. /\ pc' \in {"tally", "sign", "idle"} /\ UNCHANGED <<todo, current, inv>>
        /\ current \notin todo
    BY <1>15 DEF WriteVerdict, Goto, Stop, Settled, ProgressInv
  <2>3. Document.target = current /\ Document.inv = inv
    BY DEF Document
  <2>. QED BY <1>2, <1>15, <2>1, <2>2, <2>3 DEF WriteVerdict, UnwrittenInv
<1>16. CASE BuildError
  BY <1>3, <1>16 DEF BuildError, Stop, Settled, outputs
<1>17. CASE Sign
  BY <1>3, <1>17 DEF Sign, Goto, Stop, Settled
<1>18. CASE Upload
  BY <1>3, <1>18 DEF Upload, Goto, Stop, Settled
<1>19. CASE Tally
  BY <1>3, <1>19 DEF Tally, outputs
<1>20. CASE Kill
  BY <1>3, <1>20 DEF Kill, Stop, Settled, outputs
<1>21. CASE UNCHANGED vars
  BY <1>21 DEF vars, outputs, UnwrittenInv
<1>. QED
  BY <1>4, <1>5, <1>6, <1>7, <1>8, <1>9, <1>10, <1>11, <1>12, <1>13, <1>14, <1>15,
     <1>16, <1>17, <1>18, <1>19, <1>20, <1>21 DEF Next, Step

\* The documents are the same as long as the Result, the target and the options are.
LEMMA DocumentsKept ==
  ASSUME UNCHANGED <<res, opts, current, inv>>
  PROVE  /\ Document' = Document /\ Summary' = Summary
         /\ Output' = Output /\ Baseline' = Baseline
BY DEF Document, Summary, Output, Baseline, VerdictOf, FailureOf, Headline, IsFailure

\* Every step keeps what was written of the target at hand.
LEMMA WrittenStep ==
  ASSUME TypeInv, WrittenInv, [Next]_vars
  PROVE  WrittenInv'
<1>. USE DEF AtHand, Verifying, Saving, Publishing
<1>1. ASSUME pc' \notin Publishing \ {"report"} PROVE WrittenInv'
  BY <1>1 DEF WrittenInv
<1>2. CASE Begin
  BY <1>1, <1>2 DEF Begin, Stop
<1>3. CASE Load
  BY <1>1, <1>3 DEF Load, Goto
<1>4. CASE Exit
  BY <1>1, <1>4 DEF Exit, Stop
<1>5. CASE Verify
  BY <1>1, <1>5 DEF Verify
<1>6. CASE NotCompared
  BY <1>1, <1>6 DEF NotCompared, Goto
<1>7. CASE NoBaseline
  BY <1>1, <1>7 DEF NoBaseline, Nonconforming, Goto
<1>8. CASE BadBaseline
  BY <1>1, <1>8 DEF BadBaseline, Nonconforming
<1>9. CASE Compare
  BY <1>1, <1>9 DEF Compare
<1>10. CASE Truncate
  BY <1>1, <1>10 DEF Truncate, Nonconforming, Goto
<1>11. CASE Save
  BY <1>1, <1>11 DEF Save, Nonconforming, Goto
\* The steps that write.
<1>12. CASE pc' \in Publishing /\ (WriteReport \/ WriteVerdict \/ Sign \/ Upload)
  <2>1. UNCHANGED <<res, opts, current, inv>>
    BY <1>12 DEF WriteReport, WriteVerdict, Sign, Upload, Goto, Stop, Settled, command
  <2>2. /\ Document' = Document /\ Summary' = Summary /\ Output' = Output
        /\ Output \in Names
    BY <2>1, DocumentsKept, ResultTypes
  <2>3. CASE WriteReport
    BY <1>12, <2>2, <2>3 DEF WriteReport, Goto, Stop, WrittenInv, TypeInv, TypeOK
  <2>4. CASE WriteVerdict
    BY <1>12, <2>1, <2>2, <2>4
    DEF WriteVerdict, VerdictFile, Goto, Stop, WrittenInv, TypeInv, TypeOK
  <2>5. CASE Sign
    BY <1>12, <2>1, <2>2, <2>5 DEF Sign, Goto, Stop, WrittenInv, TypeInv, TypeOK
  <2>6. CASE Upload
    BY <1>12, <2>1, <2>2, <2>6 DEF Upload, Goto, Stop, WrittenInv
  <2>. QED BY <1>12, <2>3, <2>4, <2>5, <2>6
<1>13. CASE pc' \notin Publishing
  BY <1>1, <1>13
<1>14. CASE BuildError
  BY <1>1, <1>14 DEF BuildError, Stop
<1>15. CASE Tally
  BY <1>1, <1>15 DEF Tally
<1>16. CASE Kill
  BY <1>1, <1>16 DEF Kill, Stop
<1>17. CASE UNCHANGED vars
  <2>1. Document' = Document /\ Summary' = Summary /\ Output' = Output
    BY <1>17, DocumentsKept DEF vars, command
  <2>. QED BY <1>17, <2>1 DEF vars, outputs, command, WrittenInv
<1>. QED
  BY <1>2, <1>3, <1>4, <1>5, <1>6, <1>7, <1>8, <1>9, <1>10, <1>11, <1>12, <1>13,
     <1>14, <1>15, <1>16, <1>17 DEF Next, Step

\* A headline that fails never stands beside a verdict of the same run that passes:
\* the report is written before there is a verdict, and by the weaker gate.
LEMMA HeadlineStep ==
  ASSUME TypeInv, ProgressInv, UnwrittenInv, WrittenInv, HeadlineBindsVerdict, [Next]_vars
  PROVE  HeadlineBindsVerdict'
<1>. USE DEF AtHand, Verifying, Saving, Publishing
<1>1. ASSUME UNCHANGED <<reports, verdicts>> PROVE HeadlineBindsVerdict'
  BY <1>1 DEF HeadlineBindsVerdict
<1>2. CASE WriteReport
  <2>1. \A o \in Names : \A r \in reports'[o] :
          r \in reports[o] \/ (o = Output /\ r = Summary)
    BY <1>2, ResultTypes DEF WriteReport, TypeInv, TypeOK
  <2>2. Summary.target = current /\ Summary.inv = inv
    BY DEF Summary
  <2>3. \A d \in verdicts[Output] : d.inv = inv => d.target # current
    BY <1>2, ResultTypes DEF WriteReport, UnwrittenInv
  <2>. QED BY <1>2, <2>1, <2>2, <2>3 DEF WriteReport, HeadlineBindsVerdict
<1>3. CASE WriteVerdict
  <2>1. \A o \in Names : \A d \in verdicts'[o] :
          d \in verdicts[o] \/ (o = Output /\ d = Document)
    BY <1>3, ResultTypes DEF WriteVerdict, VerdictFile, TypeInv, TypeOK
  <2>2. reports[Output] = {Summary}
    BY <1>3 DEF WriteVerdict, WrittenInv
  <2>3. Summary.headline = "fail" => Document.verdict = "fail"
    BY FailureIsFailure DEF Summary, Document, Headline, VerdictOf
  <2>. QED BY <1>3, <2>1, <2>2, <2>3 DEF WriteVerdict, HeadlineBindsVerdict
<1>. QED
  BY <1>1, <1>2, <1>3
  DEF Next, Step, Begin, Load, Exit, Verify, NotCompared, NoBaseline, BadBaseline, Compare,
      Truncate, Save, BuildError, Sign, Upload, Tally, Kill, outputs, vars
-----------------------------------------------------------------------------
(* What the targets that are done have left *)

\* Distinct manifests of a batch that started have distinct outputs.
LEMMA OutputsApart ==
  ASSUME ProgressInv, exit = "running", NEW t \in batch, NEW u \in batch, t # u
  PROVE  OutputOf[t] # OutputOf[u]
BY DEF ProgressInv, OutputsCollide

\* What was delivered of a target stays so while its own outputs and baseline are kept.
LEMMA DeliveredKept ==
  ASSUME NEW t \in Targets, Delivered(t), UNCHANGED <<opts, inv>>, store \subseteq store',
         reports'[OutputOf[t]] = reports[OutputOf[t]],
         verdicts'[OutputOf[t]] = verdicts[OutputOf[t]],
         envelopes'[OutputOf[t]] = envelopes[OutputOf[t]],
         Party[t] = "first" /\ OwnsBaseline(t) =>
           baselines'[BaselineOf[t]] = baselines[BaselineOf[t]]
  PROVE  Delivered(t)'
BY DEF Delivered, Covered, OwnsBaseline

\* A target that is tallied and did not fail has left everything.
LEMMA TallyDelivers ==
  ASSUME TypeInv, ProgressInv, ResultInv, CoverInv, WrittenInv, pc = "tally", ~IsFailure(res)
  PROVE  Delivered(current)
<1>. USE DEF AtHand, Verifying, Saving, Publishing
<1>1. /\ reports[Output] = {Summary} /\ verdicts[Output] = {Document}
      /\ "sign" \in opts.evidence => envelopes[Output] = {Document}
      /\ "upload" \in opts.evidence => Document \in store
  BY DEF WrittenInv
<1>2. /\ Summary.target = current /\ Summary.inv = inv
      /\ Document.target = current /\ Document.inv = inv
      /\ Document.items = res.observed /\ Document.drifted = (res.undeclared # {})
      /\ Document.collided = res.collisions /\ Document.verdict = VerdictOf(res)
  BY DEF Summary, Document
<1>3. Document.verdict = "fail" =>
        \/ Document.drifted /\ opts.update /\ Party[current] = "first"
        \/ Document.collided /\ ~opts.accept
  <2>1. Consistent(res)
    BY DEF ResultInv
  <2>2. VerdictOf(res) = "fail" => FailureOf(res)
    BY DEF VerdictOf
  <2>3. res.undeclared # {} => Party[current] = "first" /\ opts.update
    BY DEF ResultInv, IsFailure
  <2>. QED BY <1>2, <2>1, <2>2, <2>3, TheTwoPart
<1>4. Party[current] = "first" => Covered(current, Document.items)
  BY <1>2 DEF CoverInv
<1>. QED BY <1>1, <1>2, <1>3, <1>4 DEF Delivered, Output

\* Every step keeps what was delivered of the targets that are done, unless it counts a
\* failure.
LEMMA DoneStep ==
  ASSUME TypeInv, TypeInv', ProgressInv, ProgressInv', ResultInv, CoverInv, WrittenInv,
         DoneInv, [Next]_vars
  PROVE  DoneInv'
<1>. USE DEF AtHand, Verifying, Saving, Publishing
<1>1. Done \subseteq batch /\ batch \subseteq Targets
  BY DEF Done, TypeInv, TypeOK
\* A step on the target at hand: it is not done, and leaves the files of those that are.
<1>2. ASSUME pc \in AtHand, pc' \in AtHand, exit' = exit,
             UNCHANGED <<opts, inv, batch, todo, failures, current>>, store \subseteq store',
             \A o \in Names \ {Output} : /\ reports'[o] = reports[o]
                                         /\ verdicts'[o] = verdicts[o]
                                         /\ envelopes'[o] = envelopes[o],
             \/ UNCHANGED baselines
             \/ /\ Party[current] = "first"
                /\ \A f \in Files \ {Baseline} : baselines'[f] = baselines[f]
      PROVE  DoneInv'
  <2>1. Done' = Done /\ current \notin Done /\ current \in batch /\ exit = "running"
    BY <1>2 DEF Done, ProgressInv
  <2>. SUFFICES ASSUME failures = 0, NEW t \in Done
                PROVE  Delivered(t)'
    BY <1>2, <2>1 DEF DoneInv
  <2>2. t \in batch /\ t \in Targets /\ t # current /\ Delivered(t)
    BY <1>1, <2>1 DEF DoneInv
  <2>3. OutputOf[t] \in Names /\ OutputOf[t] # Output
    BY <2>1, <2>2, OutputsApart, SessionAssumption DEF Output
  <2>4. Party[t] = "first" /\ OwnsBaseline(t) =>
          baselines'[BaselineOf[t]] = baselines[BaselineOf[t]]
    BY <1>2, <2>2, ResultTypes, SessionAssumption DEF OwnsBaseline, Baseline
  <2>. QED BY <1>2, <2>2, <2>3, <2>4, DeliveredKept
<1>3. CASE exit' \notin {"running", "success"}
  BY <1>3 DEF DoneInv
<1>4. CASE Begin
  <2>1. exit' = "running" => Done' = {}
    BY <1>4 DEF Begin, Stop, Done
  <2>2. exit' \in {"running", "fatal"}
    BY <1>4 DEF Begin, Stop
  <2>. QED BY <2>1, <2>2 DEF DoneInv
<1>5. CASE Load
  <2>1. PICK t \in todo : current' = t /\ todo' = todo \ {t}
    BY <1>5 DEF Load
  <2>2. /\ UNCHANGED <<baselines, reports, verdicts, envelopes, store, opts, inv, batch, exit>>
        /\ pc = "next"
    BY <1>5 DEF Load, Goto, outputs, command
  <2>3. failures' = 0 => failures = 0 /\ pc' = "run"
    BY <1>5 DEF Load, Goto, TypeInv, TypeOK
  <2>4. pc' = "run" => Done' = Done
    BY <2>1, <2>2 DEF Done
  <2>. SUFFICES ASSUME exit' \in {"running", "success"}, failures' = 0, NEW t2 \in Done
                PROVE  Delivered(t2)'
    BY <2>3, <2>4 DEF DoneInv
  <2>. QED BY <1>1, <2>2, <2>3, DeliveredKept DEF DoneInv
<1>6. CASE Exit
  <2>1. /\ UNCHANGED <<baselines, reports, verdicts, envelopes, store, opts, inv, batch, todo,
                       failures>>
        /\ Done' = Done /\ exit = "running"
    BY <1>6 DEF Exit, Stop, Settled, outputs, command, Done, ProgressInv
  <2>. SUFFICES ASSUME failures = 0, NEW t \in Done
                PROVE  Delivered(t)'
    BY <2>1 DEF DoneInv
  <2>. QED BY <1>1, <2>1, DeliveredKept DEF DoneInv
<1>7. CASE Verify
  BY <1>2, <1>7 DEF Verify, Settled, command, outputs
<1>8. CASE NotCompared
  BY <1>2, <1>8 DEF NotCompared, Goto, Settled, command, outputs
<1>9. CASE NoBaseline
  BY <1>2, <1>9 DEF NoBaseline, Nonconforming, Goto, Settled, command, outputs
<1>10. CASE BadBaseline
  BY <1>2, <1>10 DEF BadBaseline, Nonconforming, Settled, command, outputs
<1>11. CASE Compare
  BY <1>2, <1>11 DEF Compare, Settled, command, outputs
<1>12. CASE Truncate
  <2>1. Party[current] = "first"
    BY <1>12 DEF Truncate, ResultInv
  <2>2. \A f \in Files \ {Baseline} : baselines'[f] = baselines[f]
    BY <1>12 DEF Truncate, TypeInv, TypeOK
  <2>. QED BY <1>2, <1>12, <2>1, <2>2
           DEF Truncate, Nonconforming, Goto, Settled, command, outputs
<1>13. CASE Save
  <2>1. Party[current] = "first"
    BY <1>13 DEF Save, ResultInv
  <2>2. \A f \in Files \ {Baseline} : baselines'[f] = baselines[f]
    BY <1>13 DEF Save, TypeInv, TypeOK
  <2>. QED BY <1>2, <1>13, <2>1, <2>2 DEF Save, Nonconforming, Goto, Settled, command, outputs
<1>14. CASE WriteReport
  BY <1>2, <1>3, <1>14 DEF WriteReport, Goto, Stop, Settled, command, TypeInv, TypeOK
<1>15. CASE WriteVerdict
  BY <1>2, <1>3, <1>15 DEF WriteVerdict, Goto, Stop, Settled, command, TypeInv, TypeOK
<1>16. CASE BuildError
  BY <1>3, <1>16 DEF BuildError, Stop
<1>17. CASE Sign
  BY <1>2, <1>3, <1>17 DEF Sign, Goto, Stop, Settled, command, TypeInv, TypeOK
<1>18. CASE Upload
  BY <1>2, <1>3, <1>18 DEF Upload, Goto, Stop, Settled, command, TypeInv, TypeOK
<1>19. CASE Tally
  <2>1. /\ UNCHANGED <<baselines, reports, verdicts, envelopes, store, opts, inv, batch, todo,
                       exit>>
        /\ pc = "tally" /\ Done' \subseteq Done \cup {current}
    BY <1>19 DEF Tally, outputs, command, Done
  <2>2. failures' = 0 => failures = 0 /\ ~IsFailure(res)
    BY <1>19 DEF Tally, TypeInv, TypeOK
  <2>. SUFFICES ASSUME exit \in {"running", "success"}, failures = 0, ~IsFailure(res),
                       NEW t \in Done \cup {current}
                PROVE  Delivered(t)'
    BY <2>1, <2>2 DEF DoneInv
  <2>3. Delivered(t) /\ t \in Targets
    BY <1>1, <2>1, TallyDelivers, ResultTypes DEF DoneInv
  <2>. QED BY <2>1, <2>3, DeliveredKept
<1>20. CASE Kill
  BY <1>3, <1>20 DEF Kill, Stop
<1>21. CASE UNCHANGED vars
  <2>1. Done' = Done
    BY <1>21 DEF vars, command, Done
  <2>. SUFFICES ASSUME exit \in {"running", "success"}, failures = 0, NEW t \in Done
                PROVE  Delivered(t)'
    BY <1>21, <2>1 DEF DoneInv, vars
  <2>. QED BY <1>1, <1>21, DeliveredKept DEF DoneInv, vars, outputs, command
<1>. QED
  BY <1>4, <1>5, <1>6, <1>7, <1>8, <1>9, <1>10, <1>11, <1>12, <1>13, <1>14, <1>15,
     <1>16, <1>17, <1>18, <1>19, <1>20, <1>21 DEF Next, Step

-----------------------------------------------------------------------------
(* The theorems *)

\* The invariant holds at first.
LEMMA OutcomeInitial == Init => OutcomeInv
<1>. SUFFICES ASSUME Init PROVE OutcomeInv
  OBVIOUS
<1>1. TypeInv
  BY InitialTypes
<1>2. ProgressInv
  BY DEF Init, ProgressInv, AtHand, Verifying, Saving, Publishing
<1>3. ResultInv /\ CoverInv /\ WrittenInv
  BY DEF Init, ResultInv, CoverInv, WrittenInv, AtHand, Verifying, Saving, Publishing
<1>4. UnwrittenInv /\ HeadlineBindsVerdict
  BY DEF Init, UnwrittenInv, HeadlineBindsVerdict
<1>5. DoneInv
  BY DEF Init, DoneInv
<1>. QED BY <1>1, <1>2, <1>3, <1>4, <1>5 DEF OutcomeInv

\* Every step keeps the invariant.
LEMMA OutcomeStep == OutcomeInv /\ [Next]_vars => OutcomeInv'
<1>. SUFFICES ASSUME OutcomeInv, [Next]_vars PROVE OutcomeInv'
  OBVIOUS
<1>1. /\ TypeInv /\ ProgressInv /\ ResultInv /\ CoverInv /\ UnwrittenInv /\ WrittenInv
      /\ DoneInv /\ HeadlineBindsVerdict
  BY DEF OutcomeInv
<1>2. TypeInv'
  BY <1>1, TypeStep
<1>3. ProgressInv'
  BY <1>1, <1>2, ProgressStep
<1>. QED
  BY <1>1, <1>2, <1>3, ResultStep, CoverStep, UnwrittenStep, WrittenStep, HeadlineStep,
     DoneStep DEF OutcomeInv

\* The invariant holds in every state.
LEMMA OutcomeHolds == Spec => []OutcomeInv
BY OutcomeInitial, OutcomeStep, PTL DEF Spec

\* After a successful exit every manifest of the batch is done.
LEMMA SuccessDelivers ==
  ASSUME OutcomeInv, exit = "success"
  PROVE  \A t \in batch : Delivered(t)
<1>1. exit = "success" => todo = {} /\ failures = 0 /\ pc = "idle"
  BY DEF OutcomeInv, ProgressInv
<1>2. Done = batch
  BY <1>1 DEF Done, AtHand, Verifying, Saving, Publishing
<1>. QED BY <1>1, <1>2 DEF OutcomeInv, DoneInv

\* A successful exit leaves a report and a verdict of this invocation and of this
\* very target, for every manifest of the batch: no manifest is skipped, and no
\* target's outputs overwrite another's.
THEOREM OwnOutputs == Spec => []SuccessHasOwnOutputs
<1>1. OutcomeInv => SuccessHasOwnOutputs
  BY SuccessDelivers DEF SuccessHasOwnOutputs, Delivered
<1>. QED BY <1>1, OutcomeHolds, PTL

\* A successful exit leaves the envelope that signs the verdict in the verdict file,
\* and the store has it, whenever they were asked for.
THEOREM EvidenceIsThere == Spec => []EvidenceDelivered
<1>1. OutcomeInv => EvidenceDelivered
  BY SuccessDelivers DEF EvidenceDelivered, Delivered
<1>. QED BY <1>1, OutcomeHolds, PTL

\* A successful exit and a failing verdict part in the two cases of TheTwoPart only:
\* drift that --update-baseline accepted, and collisions nobody accepted.
THEOREM SuccessAndVerdict == Spec => []SuccessMeansPass
<1>1. OutcomeInv => SuccessMeansPass
  BY SuccessDelivers DEF SuccessMeansPass, Delivered
<1>. QED BY <1>1, OutcomeHolds, PTL

\* A report that says FAIL never stands beside a verdict of the same run that passes.
THEOREM HeadlineAndVerdict == Spec => []HeadlineBindsVerdict
<1>1. OutcomeInv => HeadlineBindsVerdict
  BY DEF OutcomeInv
<1>. QED BY <1>1, OutcomeHolds, PTL

\* After a successful --update-baseline the baseline covers what was just observed,
\* whatever other manifests of the batch wrote in between.
THEOREM UpdateIsKept == Spec => []UpdateSettles
<1>1. OutcomeInv => UpdateSettles
  BY SuccessDelivers DEF UpdateSettles, Delivered, Covered
<1>. QED BY <1>1, OutcomeHolds, PTL

\* A committed baseline is written only when that was asked for, of a first-party
\* program, and for a run whose package was built under proven enforcement.
THEOREM BaselineWrites == Spec => BaselineFromVerifiedRun
<1>. DEFINE Proven == /\ opts.update /\ Party[current] = "first"
                      /\ res.enforce /\ res.gates = Gates /\ ~res.failed
                      /\ res.rpm \in {"malformed", "hashed"} /\ (res.flags => opts.accept)
            Justified == baselines' # baselines => Proven
<1>1. OutcomeInv /\ [Next]_vars => [Justified]_vars
  <2>. SUFFICES ASSUME OutcomeInv, [Next]_vars, baselines' # baselines
                PROVE  Proven
    OBVIOUS
  <2>1. pc \in Saving
    BY DEF Saving, Next, Step, Begin, Load, Exit, Verify, NotCompared, NoBaseline,
           BadBaseline, Compare, Truncate, Save, WriteReport, WriteVerdict, BuildError,
           Sign, Upload, Tally, Kill, vars
  <2>2. Comparable /\ Consistent(res) /\ opts.update /\ Party[current] = "first"
    BY <2>1 DEF OutcomeInv, ResultInv, AtHand, Saving
  <2>. QED BY <2>2 DEF Comparable, IsFailure, Consistent, Digests
<1>. QED BY <1>1, OutcomeHolds, PTL DEF BaselineFromVerifiedRun, Spec
===============================================================================
