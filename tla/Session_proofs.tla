--------------------------- MODULE Session_proofs ---------------------------
(***************************************************************************)
(* For every fleet of manifests and every number of invocations: types are *)
(* kept, and a verdict that passes never stands for something outside the  *)
(* contract of its party.                                                  *)
(***************************************************************************)
EXTENDS Session, TLAPS

\* A Result nothing has been compared in yet, with its profile unless it failed.
Uncompared(r) ==
  /\ r \in Results
  /\ r.undeclared = {} /\ r.fatal = FALSE
  /\ r.profile = TRUE \/ r.failed = TRUE

\* A run that failed has not been compared with anything.
LEMMA FailedUncompared ==
  ASSUME NEW r \in Results, r.undeclared = {}, r.fatal = FALSE
  PROVE  Uncompared(Failed(r))
BY DEF Uncompared, Failed, Results

\* Nor has the Result of a run that ended.
LEMMA JudgedUncompared ==
  ASSUME NEW g \in SUBSET Gates
  PROVE  Uncompared(Judged(g)) /\ Judged(g).profile = TRUE
<1>1. (g = Gates) \in BOOLEAN
  OBVIOUS
<1>. QED BY <1>1 DEF Uncompared, Judged, NewResult, Results, Gates

\* What Verify yields.
LEMMA OutcomesUncompared ==
  ASSUME NEW accept \in BOOLEAN, NEW r \in Outcomes(accept)
  PROVE  Uncompared(r)
<1>1. NewResult \in Results /\ NewResult.undeclared = {} /\ NewResult.fatal = FALSE
  BY DEF NewResult, Results, Gates
<1>2. Uncompared(Judged(Gates)) /\ Judged(Gates).profile = TRUE
  BY JudgedUncompared
<1>3. CASE r = Failed(NewResult)
  BY <1>1, <1>3, FailedUncompared
<1>4. CASE r = Failed([Judged(Gates) EXCEPT !.static = TRUE])
  <2>1. /\ [Judged(Gates) EXCEPT !.static = TRUE] \in Results
        /\ [Judged(Gates) EXCEPT !.static = TRUE].undeclared = {}
        /\ [Judged(Gates) EXCEPT !.static = TRUE].fatal = FALSE
    BY <1>2 DEF Uncompared, Results
  <2>. QED BY <1>4, <2>1, FailedUncompared
<1>5. CASE r \in {Judged(g) : g \in (SUBSET Gates) \ {Gates}}
  <2>1. PICK g \in (SUBSET Gates) \ {Gates} : r = Judged(g)
    BY <1>5, Zenon
  <2>. QED BY <2>1, JudgedUncompared
<1>6. CASE r \in {Failed([Judged(Gates) EXCEPT !.rpm = d]) :
                    d \in {"none", "unhashed"} \cup Digests}
  <2>1. PICK d \in {"none", "unhashed"} \cup Digests :
          r = Failed([Judged(Gates) EXCEPT !.rpm = d])
    BY <1>6, Zenon
  <2>2. /\ [Judged(Gates) EXCEPT !.rpm = d] \in Results
        /\ [Judged(Gates) EXCEPT !.rpm = d].undeclared = {}
        /\ [Judged(Gates) EXCEPT !.rpm = d].fatal = FALSE
    BY <1>2 DEF Uncompared, Results, Digests
  <2>. QED BY <2>1, <2>2, FailedUncompared
<1>7. CASE r \in {Completed(d, f, c, e) :
                    d \in Digests, f \in BOOLEAN, c \in BOOLEAN, e \in BOOLEAN}
  <2>1. PICK d \in Digests, f \in BOOLEAN, c \in BOOLEAN, e \in BOOLEAN :
          r = Completed(d, f, c, e)
    BY <1>7
  <2>2. Uncompared(Completed(d, f, c, e))
    BY <1>2 DEF Uncompared, Completed, Results, Digests
  <2>. QED BY <2>1, <2>2
<1>. QED BY <1>3, <1>4, <1>5, <1>6, <1>7 DEF Outcomes

-----------------------------------------------------------------------------
(* Types *)

TypeInv == TypeOK /\ (pc # "idle" => inv \in 1..MaxInvocations)

\* What is written of the target at hand is a document of its type.
LEMMA DocumentTypes ==
  ASSUME TypeInv, pc # "idle"
  PROVE  /\ Document \in Documents /\ Summary \in Summaries
         /\ Baseline \in Files /\ Output \in Names
<1>1. res.observed \in SUBSET Items /\ res.collisions \in BOOLEAN
  BY DEF TypeInv, TypeOK, Results
<1>2. VerdictOf(res) \in Verdicts /\ Headline(res) \in Verdicts
  BY DEF VerdictOf, Headline, Verdicts
<1>3. (res.undeclared # {}) \in BOOLEAN
  OBVIOUS
<1>4. current \in Targets /\ inv \in 1..MaxInvocations
  BY DEF TypeInv, TypeOK
<1>5. Document \in Documents
  BY <1>1, <1>2, <1>3, <1>4 DEF Document, Documents
<1>6. Summary \in Summaries
  BY <1>2, <1>4 DEF Summary, Summaries
<1>. QED BY <1>4, <1>5, <1>6, SessionAssumption DEF Baseline, Output

\* The variables have their types at first.
LEMMA InitialTypes == Init => TypeInv
<1>. SUFFICES ASSUME Init PROVE TypeInv
  OBVIOUS
<1>1. NewResult \in Results
  BY DEF NewResult, Results, Gates
<1>2. {Missing, Unreadable} \cup {Holding(s) : s \in SUBSET Items} \subseteq Contents
  BY DEF Missing, Unreadable, Holding, Contents
<1>3. baselines \in [Files -> Contents] /\ reviewed \in [Files -> SUBSET Items]
  BY <1>2 DEF Init, Contents
<1>. QED
  BY <1>1, <1>3, SessionAssumption
  DEF Init, TypeInv, TypeOK, Labels, AtMostOne

\* Every step keeps the types.
LEMMA TypeStep == TypeInv /\ [Next]_vars => TypeInv'
<1>. SUFFICES ASSUME TypeInv, [Next]_vars PROVE TypeInv'
  OBVIOUS
<1>. USE DEF TypeInv
<1>1. NewResult \in Results
  BY DEF NewResult, Results, Gates
<1>2. ASSUME NEW s \in SUBSET Items PROVE Holding(s) \in Contents
  BY DEF Holding, Contents
<1>3. CASE Begin
  BY <1>1, <1>3, SessionAssumption DEF Begin, Stop, TypeOK, Labels, outputs
<1>4. CASE Load
  BY <1>4 DEF Load, Goto, TypeOK, Labels, outputs, command
<1>5. CASE Exit
  BY <1>1, <1>5 DEF Exit, Stop, Settled, TypeOK, Labels, outputs, command
<1>6. CASE Verify
  <2>1. opts.accept \in BOOLEAN
    BY DEF TypeOK
  <2>2. PICK r \in Outcomes(opts.accept), seen \in SUBSET Items :
          res' = [r EXCEPT !.observed = seen]
    BY <1>6 DEF Verify
  <2>3. Uncompared(r)
    BY <2>1, <2>2, OutcomesUncompared
  <2>4. res' \in Results
    BY <2>2, <2>3 DEF Uncompared, Results
  <2>. QED BY <1>6, <2>4 DEF Verify, Settled, TypeOK, Labels, outputs, command
<1>7. CASE NotCompared
  BY <1>7 DEF NotCompared, Goto, Settled, TypeOK, Labels, outputs, command
<1>8. ASSUME Nonconforming PROVE res' \in Results /\ pc' = "report" /\ exit' = exit
  BY <1>8 DEF Nonconforming, TypeOK, Results
<1>9. CASE NoBaseline
  BY <1>8, <1>9 DEF NoBaseline, Goto, Settled, TypeOK, Labels, outputs, command
<1>10. CASE BadBaseline
  BY <1>8, <1>10 DEF BadBaseline, Settled, TypeOK, Labels, outputs, command
<1>11. CASE Compare
  <2>1. PICK new \in SUBSET Items, unaccepted \in BOOLEAN :
          res' = [res EXCEPT !.undeclared = new, !.fatal = unaccepted]
    <3>1. res.observed \in SUBSET Items
      BY DEF TypeOK, Results
    <3>2. \A new : (new # {} /\ ~(Party[current] = "first" /\ opts.update)) \in BOOLEAN
      BY Zenon
    <3>3. \A decl : Undeclared(decl, res.observed) \in SUBSET Items
      BY <3>1 DEF Undeclared
    <3>. QED BY <1>11, <3>2, <3>3 DEF Compare
  <2>2. res' \in Results
    BY <2>1 DEF TypeOK, Results
  <2>. QED BY <1>11, <2>2 DEF Compare, Settled, TypeOK, Labels, outputs, command
<1>12. CASE Truncate
  <2>1. res.observed \in SUBSET Items /\ Baseline \in Files
    BY SessionAssumption DEF TypeOK, Results, Baseline
  <2>2. Unreadable \in Contents /\ \A s \in SUBSET res.observed : Holding(s) \in Contents
    BY <1>2, <2>1 DEF Unreadable, Contents
  <2>3. baselines' \in [Files -> Contents] /\ reviewed' \in [Files -> SUBSET Items]
    BY <1>12, <2>1, <2>2 DEF Truncate, TypeOK
  <2>4. res' \in Results /\ pc' \in Labels /\ pc' # "idle" /\ pc # "idle" /\ exit' = exit
    BY <1>8, <1>12 DEF Truncate, Goto, TypeOK, Labels
  <2>. QED BY <1>12, <2>3, <2>4 DEF Truncate, Settled, TypeOK, outputs, command
<1>13. CASE Save
  <2>1. res.observed \in SUBSET Items /\ Baseline \in Files
    BY SessionAssumption DEF TypeOK, Results, Baseline
  <2>2. baselines' \in [Files -> Contents]
    BY <1>2, <1>13, <2>1 DEF Save, TypeOK, Accepted
  <2>3. res' \in Results /\ pc' \in Labels /\ pc' # "idle" /\ pc # "idle" /\ exit' = exit
    BY <1>8, <1>13 DEF Save, Goto, TypeOK, Labels
  <2>. QED BY <1>13, <2>2, <2>3 DEF Save, Settled, TypeOK, outputs, command
<1>14. CASE WriteReport
  BY <1>1, <1>14, DocumentTypes
  DEF WriteReport, Goto, Stop, Settled, TypeOK, AtMostOne, Labels, command
<1>15. CASE WriteVerdict
  BY <1>1, <1>15, DocumentTypes
  DEF WriteVerdict, VerdictFile, Goto, Stop, Settled, TypeOK, AtMostOne, Labels, command
<1>16. CASE BuildError
  BY <1>1, <1>16 DEF BuildError, Stop, Settled, TypeOK, Labels, outputs, command
<1>17. CASE Sign
  BY <1>1, <1>17, DocumentTypes
  DEF Sign, Goto, Stop, Settled, TypeOK, AtMostOne, Labels, command
<1>18. CASE Upload
  BY <1>1, <1>18, DocumentTypes
  DEF Upload, Goto, Stop, Settled, TypeOK, Labels, command
<1>19. CASE Tally
  BY <1>1, <1>19 DEF Tally, TypeOK, Labels, outputs, command
<1>20. CASE Kill
  BY <1>1, <1>20 DEF Kill, Stop, Settled, TypeOK, Labels, outputs, command
<1>21. CASE UNCHANGED vars
  BY <1>21 DEF vars, TypeOK, outputs, command
<1>. QED
  BY <1>3, <1>4, <1>5, <1>6, <1>7, <1>9, <1>10, <1>11, <1>12, <1>13, <1>14, <1>15,
     <1>16, <1>17, <1>18, <1>19, <1>20, <1>21 DEF Next, Step

\* Type correctness, with at most one readable document in every output file.
THEOREM TypesKept == Spec => []TypeOK
<1>1. TypeInv => TypeOK
  BY DEF TypeInv
<1>. QED BY <1>1, InitialTypes, TypeStep, PTL DEF Spec

-----------------------------------------------------------------------------
(* The contract of the parties *)

\* What a baseline file holds was accepted, also while it is torn.
BaselinesReviewed == \A f \in Files : baselines[f].items \subseteq reviewed[f]

\* Between the comparison and the last output: the Result fails, or is in contract.
Judgement == FailureOf(res) \/ InContract(current, res.observed)

ContractInv ==
  /\ TypeInv
  /\ BaselinesReviewed
  /\ pc = "conform" => res.profile \/ res.failed
  /\ pc \in {"save", "saving"} => Party[current] = "first"
  /\ pc = "saving" => res.observed \subseteq reviewed[Baseline]
  /\ pc \in {"report", "verdict", "sign", "upload"} => Judgement
  /\ PassesInContract

\* The document about to be written is in contract whenever the Result is.
LEMMA DocumentInContract ==
  ASSUME Judgement, Document.verdict # "fail"
  PROVE  InContract(Document.target, Document.items)
<1>1. ~FailureOf(res)
  BY DEF Document, VerdictOf
<1>. QED BY <1>1 DEF Judgement, Document

\* A step that accepts nothing leaves what was in contract in contract.
LEMMA ContractKept ==
  ASSUME reviewed' = reviewed, PassesInContract, Judgement,
         Published' \subseteq Published \cup {Document}
  PROVE  PassesInContract'
<1>1. \A t, s : InContract(t, s)' <=> InContract(t, s)
  BY DEF InContract
<1>2. \A d \in Published \cup {Document} :
        d.verdict # "fail" => InContract(d.target, d.items)
  BY DocumentInContract DEF PassesInContract
<1>. QED BY <1>1, <1>2 DEF PassesInContract

\* What is published, file by file.
LEMMA PublishedMembers ==
  \A d : d \in Published <=> \/ \E o \in Names : d \in verdicts[o] \/ d \in envelopes[o]
                             \/ d \in store
<1>1. \A d : d \in UNION {verdicts[o] \cup envelopes[o] : o \in Names}
               <=> \E o \in Names : d \in verdicts[o] \cup envelopes[o]
  BY Zenon
<1>. QED BY <1>1, Zenon DEF Published

\* The same after a step.
LEMMA PublishedMembersNext ==
  \A d : d \in Published' <=> \/ \E o \in Names : d \in verdicts'[o] \/ d \in envelopes'[o]
                              \/ d \in store'
<1>1. \A d : d \in UNION {verdicts'[o] \cup envelopes'[o] : o \in Names}
               <=> \E o \in Names : d \in verdicts'[o] \cup envelopes'[o]
  BY Zenon
<1>. QED BY <1>1, Zenon DEF Published

\* A step that writes no output and reviews nothing keeps what was published in contract.
LEMMA NothingPublished ==
  ASSUME UNCHANGED <<reviewed, outputs>>, PassesInContract
  PROVE  PassesInContract'
BY DEF outputs, PassesInContract, Published, InContract

\* Every step keeps the contract: of what is published, of the baselines, of the judgement
\* at hand.
LEMMA ContractStep == ContractInv /\ [Next]_vars => ContractInv'
<1>. SUFFICES ASSUME ContractInv, [Next]_vars PROVE ContractInv'
  OBVIOUS
<1>. TypeInv /\ TypeInv'
  BY TypeStep DEF ContractInv
<1>. PassesInContract /\ BaselinesReviewed
  BY DEF ContractInv
\* A step that only moves on: nothing is accepted and nothing is published.
<1>1. ASSUME UNCHANGED <<baselines, reviewed, outputs>>
      PROVE  BaselinesReviewed' /\ PassesInContract'
  BY <1>1, NothingPublished DEF BaselinesReviewed
<1>2. CASE Begin
  BY <1>1, <1>2 DEF Begin, Stop, ContractInv
<1>3. CASE Load
  BY <1>1, <1>3 DEF Load, Goto, ContractInv
<1>4. CASE Exit
  BY <1>1, <1>4 DEF Exit, Stop, ContractInv
<1>5. CASE Verify
  <2>1. opts.accept \in BOOLEAN
    BY DEF TypeInv, TypeOK
  <2>2. PICK r \in Outcomes(opts.accept), seen \in SUBSET Items :
          res' = [r EXCEPT !.observed = seen]
    BY <1>5 DEF Verify
  <2>3. Uncompared(r)
    BY <2>1, <2>2, OutcomesUncompared
  <2>4. res'.profile \/ res'.failed
    BY <2>2, <2>3 DEF Uncompared, Results
  <2>. QED BY <1>1, <1>5, <2>4 DEF Verify, ContractInv
\* A failed comparison fails the Result.
<1>6. ASSUME Nonconforming PROVE pc' = "report" /\ Judgement'
  BY <1>6 DEF Nonconforming, Judgement, FailureOf, TypeInv, TypeOK, Results
<1>7. CASE NotCompared
  <2>1. ~Comparable => FailureOf(res)
    BY <1>7 DEF NotCompared, Comparable, IsFailure, FailureOf, ContractInv
  <2>2. Party[current] = "third" => InContract(current, res.observed)
    BY DEF InContract
  <2>3. Judgement
    BY <1>7, <2>1, <2>2 DEF NotCompared, Judgement
  <2>4. Judgement'
    BY <1>7, <2>3
    DEF NotCompared, Goto, Settled, command, Judgement, FailureOf, InContract
  <2>. QED BY <1>1, <1>7, <2>4 DEF NotCompared, Goto, ContractInv
<1>8. CASE NoBaseline
  BY <1>1, <1>6, <1>8 DEF NoBaseline, Goto, Settled, ContractInv
<1>9. CASE BadBaseline
  BY <1>1, <1>6, <1>9 DEF BadBaseline, ContractInv
<1>10. CASE Compare
  <2>. DEFINE decl == IF Party[current] = "first" THEN baselines[Baseline].items
                                                  ELSE Declared[current]
              new == Undeclared(decl, res.observed)
  <2>1. /\ res'.undeclared = new /\ res'.observed = res.observed
        /\ Party[current] \in {"first", "second"}
        /\ current' = current /\ reviewed' = reviewed
    BY <1>10 DEF Compare, Settled, TypeInv, TypeOK, Results
  <2>2. new = {} => InContract(current, res.observed)
    <3>1. new = {} => res.observed \subseteq decl
      BY DEF Undeclared
    <3>2. Party[current] = "first" => decl \subseteq reviewed[BaselineOf[current]]
      BY SessionAssumption DEF BaselinesReviewed, Baseline, TypeInv, TypeOK
    <3>3. Party[current] = "second" => decl = Declared[current]
      OBVIOUS
    <3>. HIDE DEF decl, new
    <3>. QED BY <3>1, <3>2, <3>3 DEF InContract
  <2>. HIDE DEF decl, new
  <2>3. InContract(current, res.observed) => InContract(current, res.observed)'
    BY <2>1 DEF InContract
  <2>4. new # {} => FailureOf(res)'
    BY <2>1 DEF FailureOf
  <2>5. Judgement'
    BY <2>2, <2>3, <2>4 DEF Judgement
  <2>6. pc' = "report" \/ (pc' = "save" /\ Party[current]' = "first")
    BY <1>10, <2>1 DEF Compare
  <2>. QED BY <1>1, <1>10, <2>5, <2>6 DEF Compare, ContractInv
<1>11. CASE Truncate
  <2>1. CASE UNCHANGED <<baselines, reviewed>> /\ Nonconforming
    BY <1>1, <1>6, <1>11, <2>1 DEF Truncate, ContractInv
  <2>2. CASE ~Nonconforming
    <3>1. Baseline \in Files /\ Party[current] = "first" /\ UNCHANGED <<outputs, current, res>>
      BY <1>11, <2>2, SessionAssumption
      DEF Truncate, Goto, Settled, Baseline, ContractInv, TypeInv, TypeOK
    <3>2. reviewed' = [reviewed EXCEPT ![Baseline] = @ \cup res.observed] /\ pc' = "saving"
      BY <1>11, <2>2 DEF Truncate, Goto
    <3>3. \A f \in Files : reviewed[f] \subseteq reviewed'[f]
      BY <3>1, <3>2 DEF TypeInv, TypeOK
    <3>4. res.observed \subseteq reviewed'[Baseline] /\ Baseline' = Baseline
      BY <3>1, <3>2 DEF TypeInv, TypeOK, Baseline
    <3>5. PICK left : /\ baselines' = [baselines EXCEPT ![Baseline] = left]
                      /\ left.items \subseteq res.observed
      BY <1>11, <2>2 DEF Truncate, Unreadable, Holding
    <3>6. BaselinesReviewed'
      BY <3>1, <3>3, <3>4, <3>5 DEF BaselinesReviewed, TypeInv, TypeOK
    <3>7. PassesInContract'
      <4>1. Published' = Published
        BY <3>1 DEF outputs, Published
      <4>2. \A d \in Published : d.target \in Targets
        BY PublishedMembers DEF TypeInv, TypeOK, Documents
      <4>3. \A t \in Targets : \A s : InContract(t, s) => InContract(t, s)'
        BY <3>3, SessionAssumption DEF InContract
      <4>. QED BY <4>1, <4>2, <4>3 DEF PassesInContract
    <3>8. pc' = "saving" /\ Party[current'] = "first" /\ res'.observed \subseteq reviewed'[Baseline']
      BY <3>1, <3>2, <3>4
    <3>. QED BY <3>6, <3>7, <3>8 DEF ContractInv
  <2>. QED BY <1>11, <2>1, <2>2 DEF Truncate, Goto, Nonconforming
<1>12. CASE Save
  <2>1. /\ Baseline \in Files /\ res.observed \subseteq reviewed[Baseline]
        /\ UNCHANGED <<reviewed, outputs, current>>
    BY <1>12, SessionAssumption
    DEF Save, Settled, Baseline, ContractInv, TypeInv, TypeOK
  <2>2. BaselinesReviewed'
    BY <1>12, <2>1 DEF Save, Accepted, Holding, BaselinesReviewed, TypeInv, TypeOK
  <2>3. PassesInContract'
    BY <2>1, NothingPublished
  <2>4. ASSUME UNCHANGED res PROVE Judgement'
    <3>1. InContract(current, res.observed)
      BY <1>12, <2>1 DEF Save, InContract, Baseline, ContractInv
    <3>. QED BY <2>1, <2>4, <3>1 DEF Judgement, InContract
  <2>5. pc' = "report" /\ Judgement'
    BY <1>6, <1>12, <2>4 DEF Save, Goto
  <2>. QED BY <2>2, <2>3, <2>5 DEF ContractInv
\* Writing an output keeps the Result, or ends the process.
<1>13. ASSUME pc \in {"report", "verdict", "sign", "upload"},
              UNCHANGED <<baselines, reviewed, opts, current>>,
              Published' \subseteq Published \cup {Document},
              \/ pc' \in {"verdict", "sign", "upload", "tally"} /\ UNCHANGED res
              \/ pc' = "idle"
       PROVE  ContractInv'
  <2>1. Judgement
    BY <1>13 DEF ContractInv
  <2>2. PassesInContract'
    BY <1>13, <2>1, ContractKept
  <2>3. UNCHANGED res => Judgement'
    BY <1>13, <2>1 DEF Judgement, FailureOf, InContract
  <2>. QED BY <1>13, <2>2, <2>3 DEF ContractInv, BaselinesReviewed
<1>14. CASE WriteReport
  BY <1>13, <1>14 DEF WriteReport, Goto, Stop, Settled, command, Published
<1>15. CASE WriteVerdict
  <2>1. Published' \subseteq Published \cup {Document}
    BY <1>15, PublishedMembers, PublishedMembersNext
    DEF WriteVerdict, VerdictFile, TypeInv, TypeOK
  <2>. QED BY <1>13, <1>15, <2>1 DEF WriteVerdict, Goto, Stop, Settled, command
<1>16. CASE BuildError
  BY <1>13, <1>16 DEF BuildError, Stop, Settled, command, outputs, Published
<1>17. CASE Sign
  <2>1. Published' \subseteq Published \cup {Document}
    BY <1>17, PublishedMembers, PublishedMembersNext DEF Sign, TypeInv, TypeOK
  <2>. QED BY <1>13, <1>17, <2>1 DEF Sign, Goto, Stop, Settled, command
<1>18. CASE Upload
  <2>1. Published' \subseteq Published \cup {Document}
    BY <1>18, PublishedMembers, PublishedMembersNext DEF Upload
  <2>. QED BY <1>13, <1>18, <2>1 DEF Upload, Goto, Stop, Settled, command
<1>19. CASE Tally
  BY <1>1, <1>19 DEF Tally, ContractInv
<1>20. CASE Kill
  BY <1>1, <1>20 DEF Kill, Stop, ContractInv
<1>21. CASE UNCHANGED vars
  <2>1. Judgement <=> Judgement'
    BY <1>21 DEF vars, command, Judgement, FailureOf, InContract
  <2>. QED BY <1>1, <1>21, <2>1 DEF vars, outputs, command, ContractInv, Baseline
<1>. QED
  BY <1>2, <1>3, <1>4, <1>5, <1>7, <1>8, <1>9, <1>10, <1>11, <1>12, <1>14, <1>15,
     <1>16, <1>17, <1>18, <1>19, <1>20, <1>21 DEF Next, Step

\* For every fleet, baseline, torn write, lost answer and crash: a verdict that
\* passes, wherever it is kept, is in the contract of its party.
THEOREM EvidenceInContract == Spec => []PassesInContract
<1>1. Init => ContractInv
  <2>. SUFFICES ASSUME Init PROVE ContractInv
    OBVIOUS
  <2>1. BaselinesReviewed
    BY DEF Init, BaselinesReviewed
  <2>2. PassesInContract
    BY DEF Init, PassesInContract, Published
  <2>. QED BY <2>1, <2>2, InitialTypes DEF Init, ContractInv
<1>2. ContractInv => PassesInContract
  BY DEF ContractInv
<1>. QED BY <1>1, <1>2, ContractStep, PTL DEF Spec

=============================================================================
