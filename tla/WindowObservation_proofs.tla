---------------------- MODULE WindowObservation_proofs -----------------------
(***************************************************************************)
(* For every bound: exercise() implements ObservationWindow as long as     *)
(* nobody truncates the log in place, and a start barrier that was seen to *)
(* be crossed was crossed.                                                 *)
(***************************************************************************)
EXTENDS AuditWindow_proofs

-----------------------------------------------------------------------------
(* What a round has produced, and the rounds before it. *)

Own == {i \in OwnDenials : rec[i].tag # Foreign}
Old == {i \in DOMAIN rec : rec[i].kind = "avc" /\ rec[i].tag \in 1..(round - 1)}
Kept == TargetDenials' = TargetDenials

\* A record that is no denial of the unit changes neither, and unless it is one against
\* the app's types, not these either.
LEMMA NoDenialQueued ==
  ASSUME rec \in Seq(Records), round \in Nat, NEW k, NEW t, Grown, AtMost(Record(k, t)),
         k # "avc" \/ t = Foreign, round' = round
  PROVE  Own' = Own /\ Old' = Old /\ (k # "target" => Kept)
<1>1. Record(k, t).kind = k /\ Record(k, t).tag = t
  BY DEF Record
<1>2. Record("avc", round).kind = "avc" /\ Record("avc", round).tag = round
  BY DEF Record
<1>3. \A i \in DOMAIN rec : i \in DOMAIN rec' /\ rec'[i] = rec[i]
  BY DEF Grown
<1>4. \A i \in DOMAIN rec' \ DOMAIN rec : rec'[i] = Record(k, t)
  BY DEF Grown, AtMost
<1>5. Own' = Own
  BY <1>1, <1>2, <1>3, <1>4 DEF Own, OwnDenials
<1>6. Old' = Old
  BY <1>1, <1>3, <1>4 DEF Old, Foreign
<1>7. ASSUME k # "target" PROVE Kept
  BY <1>1, <1>3, <1>4, <1>7 DEF Kept, TargetDenials
<1>. QED BY <1>5, <1>6, <1>7

\* Another domain's denial against the app's types is a new one, or is lost.
LEMMA TargetQueued ==
  ASSUME rec \in Seq(Records), Grown, AtMost(Record("target", Foreign))
  PROVE  Kept \/ \E d \in TargetDenials' \ TargetDenials : TargetDenials' = TargetDenials \cup {d}
<1>1. Record("target", Foreign).kind = "target"
  BY DEF Record
<1>2. \A i \in DOMAIN rec : i \in DOMAIN rec' /\ rec'[i] = rec[i]
  BY DEF Grown
<1>3. CASE rec' = rec
  BY <1>3 DEF Kept, TargetDenials
<1>4. CASE Len(rec') = Len(rec) + 1 /\ rec'[Len(rec) + 1] = Record("target", Foreign)
  <2>1. /\ DOMAIN rec = 1..Len(rec) /\ DOMAIN rec' = 1..(Len(rec) + 1) /\ Len(rec) \in Nat
        /\ rec'[Len(rec) + 1] = Record("target", Foreign)
    BY <1>4 DEF Grown
  <2>2. TargetDenials' = TargetDenials \cup {Len(rec) + 1} /\ Len(rec) + 1 \notin TargetDenials
    BY <1>1, <1>2, <2>1 DEF TargetDenials
  <2>. QED BY <2>2
<1>. QED BY <1>3, <1>4 DEF AtMost

\* A step that queues no record changes neither.
LEMMA NothingQueued ==
  ASSUME UNCHANGED <<rec, round>>
  PROVE  Own' = Own /\ Old' = Old /\ Kept
BY DEF Own, Old, OwnDenials, Kept, TargetDenials

\* A denial of the unit is a new one of this round.
LEMMA DenialQueued ==
  ASSUME rec \in Seq(Records), round \in Nat, round > 0,
         rec' = Append(rec, Record("avc", round)), round' = round
  PROVE  /\ Own' = Own \cup {Len(rec) + 1} /\ Old' = Old /\ Kept
         /\ Len(rec) + 1 \in Own' \ (Own \cup Old)
<1>1. Record("avc", round).kind = "avc" /\ Record("avc", round).tag = round
  BY DEF Record
<1>2. /\ DOMAIN rec = 1..Len(rec) /\ DOMAIN rec' = 1..(Len(rec) + 1) /\ Len(rec) \in Nat
      /\ rec'[Len(rec) + 1] = Record("avc", round)
      /\ \A i \in DOMAIN rec : rec'[i] = rec[i]
  BY DEF Record, Records, Kinds
<1>3. Own' = Own \cup {Len(rec) + 1}
  BY <1>1, <1>2 DEF Own, OwnDenials, Foreign
<1>4. Old' = Old
  BY <1>1, <1>2 DEF Old
<1>5. Len(rec) + 1 \notin Own \cup Old
  BY <1>2 DEF Own, Old, OwnDenials
<1>6. Kept
  BY <1>1, <1>2 DEF Kept, TargetDenials
<1>. QED BY <1>3, <1>4, <1>5, <1>6

\* At the beginning of a round what was produced becomes what was produced before.
LEMMA RoundBegun ==
  ASSUME rec \in Seq(Records), round \in Nat, TagInv,
         Grown, AtMost(Record("load", round + 1)), round' = round + 1
  PROVE  Own' = {} /\ Old' = Old \cup Own /\ Kept
<1>1. /\ Record("load", round + 1).kind = "load"
      /\ Record("avc", round).kind = "avc" /\ Record("avc", round).tag = round
      /\ Record("avc", round + 1).kind = "avc" /\ Record("avc", round + 1).tag = round + 1
  BY DEF Record
<1>2. \A i \in DOMAIN rec : i \in DOMAIN rec' /\ rec'[i] = rec[i] /\ rec[i] \in Records
  BY DEF Grown
<1>3. \A i \in DOMAIN rec' \ DOMAIN rec : rec'[i] = Record("load", round + 1)
  BY DEF Grown, AtMost
<1>4. \A i \in DOMAIN rec : rec[i].tag <= round /\ rec[i].tag \in Nat
  BY <1>2 DEF TagInv, Records
<1>5. Own' = {}
  BY <1>1, <1>2, <1>3, <1>4 DEF Own, OwnDenials
<1>6. \A i \in DOMAIN rec : rec[i].kind = "avc" /\ rec[i].tag = round => rec[i] = Record("avc", round)
  BY <1>2 DEF Records, Record
<1>7. Old' = Old \cup Own
  BY <1>1, <1>2, <1>3, <1>4, <1>6 DEF Old, Own, OwnDenials, Foreign
<1>8. Kept
  BY <1>1, <1>2, <1>3 DEF Kept, TargetDenials
<1>. QED BY <1>5, <1>7, <1>8

-----------------------------------------------------------------------------
(* The refinement, step by step. *)

\* The round begins as an observation does: with nothing produced and nothing returned.
LEMMA ObservationInit == Init => Observation!Init
<1>. SUFFICES ASSUME Init PROVE Observation!Init
  OBVIOUS
<1>1. DOMAIN rec = {}
  BY DEF Init
<1>. QED BY <1>1 DEF Init, OwnDenials, TargetDenials, Observation!Init

\* Every step is one of the observation or a stutter: a denial of the unit, the begin of a
\* round, its end with an error or with the set of the round.
LEMMA ObservationStep ==
  ASSUME IInv, IInv', ~truncated', [Next]_vars
  PROVE  [Observation!Next]_(Observation!vars)
<1>. USE DEF ToolFrame, Goto, Return, historyVars, localVars, ToolUnchanged
<1>t. Numbers /\ Values
  BY DEF IInv, TypeInv, TypeOK, Numbers, Values, Records
<1>r. rec \in Seq(Records) /\ round \in Nat /\ lost \in Nat
  BY <1>t DEF Numbers
<1>f. /\ pc # "idle" => outcome = "none" /\ round > 0
      /\ unit = "running" => round > 0 /\ (pc # "idle" \/ outcome = "failed")
  BY DEF IInv, WindowInv, FreshInv
\* A step the caller does not see.
<1>s. ASSUME Own' = Own, Old' = Old, Kept, UNCHANGED <<unseen, failedBefore, outcome, result>>,
             pc' = "idle" <=> pc = "idle"
      PROVE  UNCHANGED Observation!vars
  BY <1>s DEF Observation!vars, Own, Old, Kept
\* A step that gives up.
<1>e. ASSUME pc # "idle", pc' = "idle", outcome' \in {"failed", "reloaded"},
             Own' = Own, Old' = Old, Kept, UNCHANGED <<unseen, failedBefore, result>>
      PROVE  Observation!Next
  BY <1>e DEF Observation!Next, Observation!ReturnError, Own, Old, Kept
\* A step of exercise() that queues nothing and answers nothing goes on or gives up.
<1>q. ASSUME pc # "idle", UNCHANGED <<rec, round, unseen, failedBefore, result>>,
             \/ pc' # "idle" /\ UNCHANGED outcome
             \/ pc' = "idle" /\ outcome' \in {"failed", "reloaded"}
      PROVE  [Observation!Next]_(Observation!vars)
  BY <1>q, <1>s, <1>e, NothingQueued
<1>1. CASE BeginRound
  <2>1. Grown /\ AtMost(Record("load", round + 1))
    BY <1>r, <1>1, EmitEffect DEF BeginRound, Emitted, Kinds
  <2>2. Own' = {} /\ Old' = Old \cup Own /\ Kept
    BY <1>r, <1>1, <2>1, RoundBegun DEF BeginRound, IInv, WindowInv
  <2>3. Observation!Begin
    BY <1>1, <2>2 DEF BeginRound, Observation!Begin, Own, Old, Kept
  <2>. QED BY <2>3 DEF Observation!Next
<1>2. CASE CountStart
  BY <1>2, <1>q DEF CountStart
<1>3. CASE EmitStart
  <2>1. CASE Emit("start", round)
    <3>1. Own' = Own /\ Old' = Old /\ Kept
      BY <1>r, <1>3, <2>1, EmitEffect, NoDenialQueued DEF EmitStart, Emitted, Kinds
    <3>. QED BY <1>3, <1>s, <3>1 DEF EmitStart
  <2>2. CASE UNCHANGED <<rec, lost>>
    BY <1>3, <1>q, <2>2 DEF EmitStart
  <2>. QED BY <1>3, <2>1, <2>2 DEF EmitStart
<1>4. CASE WaitStart
  BY <1>4, <1>q DEF WaitStart
<1>5. CASE StatPre
  BY <1>5, <1>q DEF StatPre
<1>6. CASE StatusPre
  BY <1>6, <1>q DEF StatusPre
<1>7. CASE Restart
  BY <1>7, <1>q DEF Restart
<1>8. CASE RestartAnswer
  BY <1>8, <1>q DEF RestartAnswer
<1>9. CASE RunExercise
  BY <1>9, <1>q DEF RunExercise
<1>10. CASE Recapture
  BY <1>10, <1>q DEF Recapture
<1>11. CASE Stop
  BY <1>11, <1>q DEF Stop
<1>12. CASE CheckStopped
  BY <1>12, <1>q DEF CheckStopped
<1>13. CASE Drain
  BY <1>13, <1>q DEF Drain
<1>14. CASE EmitEnd
  <2>1. CASE Emit("end", round) /\ Goto("waitEnd")
    <3>1. Own' = Own /\ Old' = Old /\ Kept
      BY <1>r, <1>14, <2>1, EmitEffect, NoDenialQueued DEF EmitEnd, Emitted, Kinds
    <3>. QED BY <1>14, <1>s, <2>1, <3>1 DEF EmitEnd
  <2>2. CASE Return("failed") /\ UNCHANGED <<rec, lost>>
    BY <1>14, <1>q, <2>2 DEF EmitEnd
  <2>. QED BY <1>14, <2>1, <2>2 DEF EmitEnd
<1>15. CASE WaitEnd
  BY <1>15, <1>q DEF WaitEnd
<1>16. CASE StatPost
  BY <1>16, <1>q DEF StatPost
<1>17. CASE ReadSlice
  BY <1>17, <1>q DEF ReadSlice
<1>18. CASE StatRead
  BY <1>18, <1>q DEF StatRead
<1>19. CASE StatusPost
  BY <1>19, <1>q DEF StatusPost
\* The answer: complete and fresh by the invariant, and of earlier rounds otherwise.
<1>20. CASE Parse
  <2>1. /\ UNCHANGED <<rec, round, unseen, failedBefore>> /\ Own' = Own /\ Old' = Old /\ Kept
        /\ pc = "parse" /\ outcome = "none" /\ pc' = "idle"
    BY <1>20, <1>f, NothingQueued, Zenon DEF Parse
  <2>2. CASE outcome' # "ok"
    BY <1>20, <1>q, <2>1, <2>2 DEF Parse
  <2>3. CASE outcome' = "ok"
    <3>1. result' = {i \in window : Reported(rec[i])}
      BY <1>20, <2>3 DEF Parse
    <3>2. \A i \in window : i \in DOMAIN rec
      BY <2>1 DEF IInv, EarlierInv, ReadInv, Reading
    <3>3. \A i \in DOMAIN rec : rec[i] \in Records /\ rec[i].tag <= round
      BY <1>r DEF IInv, WindowInv, TagInv
    <3>4. result' \subseteq Own \cup Old \cup TargetDenials
      BY <1>r, <3>1, <3>2, <3>3
      DEF Own, Old, OwnDenials, TargetDenials, Reported, Records, Record, Foreign
    <3>5. ~unseen' /\ OwnDenials' \subseteq result'
      BY <2>3 DEF IInv, WindowInv, AnswerInv
    <3>6. ~failedBefore => result' \subseteq OwnDenials' \cup TargetDenials'
      BY <2>1, <2>3 DEF IInv, EarlierInv, FreshWindow
    <3>7. OwnDenials' = OwnDenials /\ TargetDenials' = TargetDenials /\ Own \subseteq OwnDenials
      BY <2>1 DEF OwnDenials, TargetDenials, Own
    <3>8. ~failedBefore => result' \subseteq Own \cup TargetDenials
      BY <1>f, <2>1, <3>6, <3>7 DEF Own, OwnDenials, Record, Foreign
    <3>. DEFINE stale == (result' \ Own) \cap (Old \ TargetDenials)
                foreign == result' \cap TargetDenials
    <3>9. /\ stale \in SUBSET Old /\ foreign \in SUBSET TargetDenials
          /\ result' = Own \cup stale \cup foreign
          /\ ~failedBefore => stale = {}
      BY <3>4, <3>5, <3>7, <3>8
    <3>. HIDE DEF stale, foreign
    <3>10. Observation!ReturnAnswer
      BY <2>1, <2>3, <3>5, <3>9 DEF Observation!ReturnAnswer, Own, Old, Kept
    <3>. QED BY <3>10 DEF Observation!Next
  <2>. QED BY <2>2, <2>3
\* The unit produces a denial, or one that left no record.
<1>21. CASE UnitDenial
  <2>1. /\ UNCHANGED <<round, failedBefore, result, outcome, pc>> /\ round > 0
        /\ pc # "idle" \/ outcome = "failed"
        /\ unseen' = (unseen \/ rec' = rec)
    BY <1>21, <1>f DEF UnitDenial
  <2>2. CASE rec' = rec
    <3>1. Own' = Own /\ Old' = Old /\ Kept /\ unseen' = TRUE
      BY <2>1, <2>2, NothingQueued
    <3>2. Observation!Miss
      BY <2>1, <3>1 DEF Observation!Miss, Observation!UnitUp, Own, Old, Kept
    <3>. QED BY <3>2 DEF Observation!Next
  <2>3. CASE rec' # rec
    <3>1. rec' = Append(rec, Record("avc", round))
      BY <1>21, <2>3 DEF UnitDenial, Emit, Queue, Drop
    <3>2. /\ Own' = Own \cup {Len(rec) + 1} /\ Old' = Old /\ Kept
          /\ Len(rec) + 1 \in Own' \ (Own \cup Old)
      BY <1>r, <2>1, <3>1, DenialQueued
    <3>3. unseen' = unseen
      BY <2>1, <2>3 DEF IInv, TypeInv, TypeOK
    <3>4. \E d \in Own' \ (Own \cup Old) : Own' = Own \cup {d}
      BY <3>2
    <3>5. Observation!Produce
      BY <2>1, <3>2, <3>3, <3>4 DEF Observation!Produce, Observation!UnitUp, Own, Old, Kept
    <3>. QED BY <3>5 DEF Observation!Next
  <2>. QED BY <2>2, <2>3
<1>22. CASE TransitionRefused
  <2>1. Own' = Own /\ Old' = Old /\ Kept
    BY <1>r, <1>22, EmitEffect, NoDenialQueued DEF TransitionRefused, Emitted, Kinds
  <2>. QED BY <1>22, <1>s, <2>1 DEF TransitionRefused
<1>23. CASE ForeignRecord
  <2>1. CASE Emit("avc", Foreign)
    <3>1. Own' = Own /\ Old' = Old /\ Kept
      BY <1>r, <1>23, <2>1, EmitEffect, NoDenialQueued
      DEF ForeignRecord, Emitted, Kinds, Foreign
    <3>. QED BY <1>23, <1>s, <3>1 DEF ForeignRecord
  <2>2. CASE Emit("end", round)
    <3>1. Own' = Own /\ Old' = Old /\ Kept
      BY <1>r, <1>23, <2>2, EmitEffect, NoDenialQueued DEF ForeignRecord, Emitted, Kinds
    <3>. QED BY <1>23, <1>s, <3>1 DEF ForeignRecord
  <2>3. CASE Emit("target", Foreign)
    <3>1. Grown /\ AtMost(Record("target", Foreign))
      BY <1>r, <2>3, EmitEffect DEF Emitted, Kinds, Foreign
    <3>2. Own' = Own /\ Old' = Old
      BY <1>r, <1>23, <3>1, NoDenialQueued DEF ForeignRecord
    <3>3. CASE Kept
      BY <1>23, <1>s, <3>2, <3>3 DEF ForeignRecord
    <3>4. CASE \E d \in TargetDenials' \ TargetDenials : TargetDenials' = TargetDenials \cup {d}
      <4>1. Observation!Disturb
        BY <1>23, <3>2, <3>4 DEF ForeignRecord, Observation!Disturb, Own, Old
      <4>. QED BY <4>1 DEF Observation!Next
    <3>. QED BY <1>r, <3>1, <3>3, <3>4, TargetQueued
  <2>. QED BY <1>23, <2>1, <2>2, <2>3 DEF ForeignRecord
<1>24. CASE ForeignLoad
  <2>1. Own' = Own /\ Old' = Old /\ Kept
    BY <1>r, <1>24, EmitEffect, NoDenialQueued DEF ForeignLoad, Emitted, Kinds, Foreign
  <2>. QED BY <1>24, <1>s, <2>1 DEF ForeignLoad
<1>25. CASE ToggleAudit
  <2>1. Own' = Own /\ Old' = Old /\ Kept
    BY <1>r, <1>25, ToggleEffect, NoDenialQueued DEF ToggleAudit, Emitted
  <2>. QED BY <1>25, <1>s, <2>1 DEF ToggleAudit
\* The rest moves records along, or the unit, and queues nothing.
<1>n. ASSUME UNCHANGED <<rec, round, unseen, failedBefore, outcome, result, pc>>
      PROVE  UNCHANGED Observation!vars
  BY <1>n, <1>s, NothingQueued
<1>26. CASE HandOver
  BY <1>26, <1>n DEF HandOver
<1>27. CASE Flush
  BY <1>27, <1>n DEF Flush
<1>28. CASE Rotate
  BY <1>28, <1>n DEF Rotate
<1>29. CASE Truncate
  BY <1>29, <1>n DEF Truncate
<1>30. CASE CleanupUnit
  BY <1>30, <1>n DEF CleanupUnit, channelVars
<1>31. CASE UNCHANGED vars
  BY <1>31, <1>n DEF vars, channelVars
<1>. QED
  BY <1>1, <1>2, <1>3, <1>4, <1>5, <1>6, <1>7, <1>8, <1>9, <1>10, <1>11, <1>12, <1>13,
     <1>14, <1>15, <1>16, <1>17, <1>18, <1>19, <1>20, <1>21, <1>22, <1>23, <1>24, <1>25,
     <1>26, <1>27, <1>28, <1>29, <1>30, <1>31 DEF Next, Tool, Verifier

\* Only Truncate truncates.
LEMMA NeverTruncated ==
  ASSUME ~InPlaceTruncation
  PROVE  Spec => [](truncated = FALSE)
<1>1. Init => truncated = FALSE
  BY DEF Init
<1>2. truncated = FALSE /\ [Next]_vars => (truncated = FALSE)'
  BY DEF Next, Tool, Verifier, BeginRound, CountStart, EmitStart, WaitStart, StatPre,
         StatusPre, Restart, RestartAnswer, RunExercise, Recapture, Stop, CheckStopped,
         Drain, EmitEnd, WaitEnd, StatPost, ReadSlice, StatRead, StatusPost, Parse,
         UnitDenial, TransitionRefused, ForeignRecord, ForeignLoad, ToggleAudit, HandOver,
         Flush, Rotate, Truncate, CleanupUnit, vars, historyVars
<1>. QED BY <1>1, <1>2, PTL DEF Spec

\* On a verifier whose log is never truncated in place, exercise() keeps the promise
\* of ObservationWindow: a round fails, or returns exactly what the unit produced
\* (with denials of earlier rounds only after one of them failed).
THEOREM ExerciseObserves ==
  ASSUME ~InPlaceTruncation
  PROVE  Spec => ImplementsObservation
<1>1. Init => Observation!Init
  BY ObservationInit
<1>2. IInv /\ IInv' /\ (truncated = FALSE)' /\ [Next]_vars
        => [Observation!Next]_(Observation!vars)
  BY ObservationStep
<1>. QED
  BY <1>1, <1>2, Invariance, NeverTruncated, PTL
  DEF Spec, ImplementsObservation, Observation!Spec
-----------------------------------------------------------------------------
(* The start barrier: grep counts the sentinels of every round, so a count  *)
(* that went up tells this round's sentinel only because the others were    *)
(* all written before the first count.                                      *)

Starts      == {i \in DOMAIN rec : rec[i].kind = "start"}
OwnStarts   == {i \in Starts : rec[i].tag = round}
OtherStarts == {i \in Starts : rec[i].tag # round /\ i > base}

Counting == {"countStart", "emitStart", "waitStart"}

BarrierInv ==
  /\ pc \in Counting => ~established
  /\ pc \in {"countStart", "emitStart"} => OwnStarts = {}
  /\ \A s \in OwnStarts, e \in Sentinels : s < e
  /\ Settled => \A s \in Starts \ OwnStarts : s <= flushed
  /\ Settled /\ pc = "idle" => \A s \in Starts : s <= flushed
  /\ pc = "waitStart" => before >= 0
  /\ pc \in {"emitStart", "waitStart"} /\ ~failedBefore /\ before >= 0 =>
       Cardinality(OtherStarts) <= before
  /\ StartBarrierOrders
\* A record that is no start sentinel changes nothing about them.
LEMMA StartsKept ==
  ASSUME rec \in Seq(Records), NEW k, NEW t, Grown, AtMost(Record(k, t)), k # "start"
  PROVE  Starts' = Starts /\ \A s \in Starts : rec'[s] = rec[s]
<1>1. Record(k, t).kind = k
  BY DEF Record
<1>2. \A i \in DOMAIN rec : i \in DOMAIN rec' /\ rec'[i] = rec[i]
  BY DEF Grown
<1>3. \A i \in DOMAIN rec' \ DOMAIN rec : rec'[i] = Record(k, t)
  BY DEF Grown, AtMost
<1>. QED BY <1>1, <1>2, <1>3 DEF Starts

\* Nor does a step that queues no record at all.
LEMMA StartsSame ==
  ASSUME rec' = rec
  PROVE  Starts' = Starts /\ \A s \in Starts : rec'[s] = rec[s]
BY DEF Starts

\* What is counted is finite, so its count is a number.
LEMMA StartsFinite ==
  ASSUME rec \in Seq(Records), base \in Nat, flushed \in Nat
  PROVE  /\ IsFiniteSet(OtherStarts) /\ Cardinality(OtherStarts) \in Nat
         /\ IsFiniteSet({i \in (base + 1)..flushed : rec[i].kind = "start"})
         /\ StartCount \in Nat
<1>1. IsFiniteSet(1..Len(rec)) /\ IsFiniteSet((base + 1)..flushed)
  BY FS_Interval
<1>2. OtherStarts \subseteq 1..Len(rec)
  BY DEF OtherStarts, Starts
<1>3. IsFiniteSet(OtherStarts) /\ IsFiniteSet({i \in (base + 1)..flushed : rec[i].kind = "start"})
  BY <1>1, <1>2, FS_Subset
<1>. QED BY <1>3, FS_CardinalityType DEF StartCount

\* What is left of the other rounds' sentinels only gets less.
LEMMA OthersLess ==
  ASSUME rec \in Seq(Records), base \in Nat, flushed \in Nat, base' \in Nat, base <= base',
         round' = round, Starts' \ OwnStarts' = Starts \ OwnStarts, rec' \in Seq(Records)
  PROVE  Cardinality(OtherStarts') <= Cardinality(OtherStarts)
<1>1. OtherStarts' \subseteq OtherStarts
  <2>1. /\ OtherStarts = {i \in Starts \ OwnStarts : i > base}
        /\ OtherStarts' = {i \in Starts' \ OwnStarts' : i > base'}
    BY DEF OtherStarts, OwnStarts
  <2>2. \A i \in Starts : i \in Nat
    BY DEF Starts
  <2>. QED BY <2>1, <2>2
<1>. QED BY <1>1, StartsFinite, FS_Subset

\* A step that queues no start sentinel, in a round that goes on or is given up.
LEMMA BarrierKept ==
  ASSUME IInv, IInv', BarrierInv,
         UNCHANGED <<round, failedBefore, established, before>>,
         Starts' = Starts, \A s \in Starts : rec'[s] = rec[s],
         flushed <= flushed', base <= base',
         \A e \in Sentinels' : e \in Sentinels \/ \A s \in Starts : s < e,
         \/ pc' = pc /\ outcome' = outcome
         \/ pc \notin Counting \cup {"idle"}
            /\ \/ pc' \notin Counting \cup {"statPre", "idle"}
               \/ pc' = "idle" /\ outcome' \in {"failed", "reloaded"}
               \/ pc' = "idle" /\ pc = "parse" /\ outcome' = "ok"
  PROVE  BarrierInv'
<1>t. /\ rec \in Seq(Records) /\ rec' \in Seq(Records) /\ base \in Nat /\ base' \in Nat
      /\ flushed \in Nat /\ flushed' \in Nat /\ before \in Int
      /\ outcome' \in {"none", "ok", "failed", "reloaded"} /\ flushed' <= Len(rec')
  BY DEF IInv, TypeInv, TypeOK, ChannelInv, Records
<1>1. OwnStarts' = OwnStarts
  BY DEF OwnStarts
<1>2. pc' \in Counting => ~established'
  BY DEF BarrierInv, Counting
<1>3. pc' \in {"countStart", "emitStart"} => OwnStarts' = {}
  BY <1>1 DEF BarrierInv, Counting
<1>4. \A s \in OwnStarts', e \in Sentinels' : s < e
  BY <1>1 DEF BarrierInv, OwnStarts
<1>5. Settled' => Settled
  BY DEF Settled, IInv, WindowInv, FreshInv
<1>6. \A s \in Starts : s \in Nat
  BY <1>t DEF Starts
<1>7. Settled' => \A s \in Starts' \ OwnStarts' : s <= flushed'
  BY <1>t, <1>1, <1>5, <1>6 DEF BarrierInv
<1>8. ASSUME Settled', pc' = "idle" PROVE \A s \in Starts' : s <= flushed'
  <2>1. CASE pc = "idle"
    BY <1>t, <1>5, <1>6, <1>8, <2>1 DEF BarrierInv
  <2>2. CASE pc = "parse"
    <3>1. PICK e \in Sentinels : e <= flushed
      BY <2>2 DEF IInv, EarlierInv, ReadInv, Reading
    <3>2. e \in Nat /\ \A s \in OwnStarts : s < e
      BY <1>t DEF Sentinels, BarrierInv
    <3>3. \A s \in OwnStarts : s <= flushed'
      BY <1>t, <1>6, <3>1, <3>2 DEF OwnStarts
    <3>. QED BY <1>1, <1>7, <1>8, <3>3
  <2>3. CASE outcome' \in {"failed", "reloaded"} /\ pc' = "idle" /\ pc # "idle"
    BY <1>8, <2>3 DEF Settled
  <2>. QED BY <1>8, <2>1, <2>2, <2>3
<1>9. pc' = "waitStart" => before' >= 0
  BY DEF BarrierInv, Counting
<1>10. pc' \in {"emitStart", "waitStart"} /\ ~failedBefore' /\ before' >= 0 =>
         Cardinality(OtherStarts') <= before'
  <2>1. Cardinality(OtherStarts') <= Cardinality(OtherStarts)
    BY <1>t, <1>1, OthersLess
  <2>2. Cardinality(OtherStarts) \in Nat /\ Cardinality(OtherStarts') \in Nat
    <3>1. Cardinality(OtherStarts) \in Nat
      BY <1>t, StartsFinite
    <3>2. OtherStarts' \subseteq 1..Len(rec')
      BY <1>t DEF OtherStarts, Starts
    <3>3. IsFiniteSet(1..Len(rec'))
      BY <1>t, FS_Interval
    <3>. QED BY <3>1, <3>2, <3>3, FS_Subset, FS_CardinalityType
  <2>. QED BY <1>t, <2>1, <2>2 DEF BarrierInv, Counting
<1>11. StartBarrierOrders'
  <2>1. pc' = "statPre" => pc = "statPre"
    BY DEF Counting
  <2>2. \A i \in 1..flushed : rec[i] = Record("start", round) =>
          i \in 1..flushed' /\ rec'[i] = Record("start", round)
    <3>1. flushed <= Len(rec)
      BY <1>t DEF IInv, TypeInv, TypeOK, ChannelInv
    <3>2. Record("start", round).kind = "start"
      BY DEF Record
    <3>3. \A i \in 1..flushed : rec[i] = Record("start", round) => i \in Starts
      BY <1>t, <3>1, <3>2 DEF Starts
    <3>. QED BY <1>t, <3>3
  <2>. QED BY <2>1, <2>2 DEF BarrierInv, StartBarrierOrders
<1>. QED
  BY <1>2, <1>3, <1>4, <1>7, <1>8, <1>9, <1>10, <1>11 DEF BarrierInv
\* Every step keeps the order of the sentinels and of the count.
LEMMA BarrierStep ==
  ASSUME IInv, IInv', BarrierInv, [Next]_vars
  PROVE  BarrierInv'
<1>. USE DEF ToolFrame, Goto, Return, historyVars, localVars, ToolUnchanged
<1>t. /\ rec \in Seq(Records) /\ rec' \in Seq(Records) /\ base \in Nat /\ flushed \in Nat
      /\ round \in Nat /\ lost \in Nat /\ handed \in Nat /\ before \in Int
      /\ base <= flushed /\ flushed <= Len(rec)
  BY DEF IInv, TypeInv, TypeOK, ChannelInv, Records
<1>n. \A i \in DOMAIN rec : i \in 1..Len(rec) /\ rec[i] \in Records
  BY <1>t
\* A step of exercise() after the barrier that queues nothing.
<1>q. ASSUME pc \notin Counting \cup {"idle"},
             UNCHANGED <<rec, round, base, flushed, failedBefore, established, before>>,
             \/ pc' \notin Counting \cup {"statPre", "idle"}
             \/ pc' = "idle" /\ outcome' \in {"failed", "reloaded"}
             \/ pc' = "idle" /\ pc = "parse" /\ outcome' = "ok"
      PROVE  BarrierInv'
  BY <1>t, <1>q, StartsSame, BarrierKept DEF Sentinels
\* A step of the verifier that queues at most one record of another kind.
<1>v. ASSUME NEW k, NEW t, k # "start", Emitted(Record(k, t)),
             k = "end" => t = round,
             UNCHANGED <<round, base, flushed, failedBefore, established, before, pc, outcome>>
      PROVE  BarrierInv'
  <2>1. Grown /\ AtMost(Record(k, t))
    BY <1>v DEF Emitted
  <2>2. Starts' = Starts /\ \A s \in Starts : rec'[s] = rec[s]
    BY <1>t, <1>v, <2>1, StartsKept
  <2>3. \A e \in Sentinels' : e \in Sentinels \/ e = Len(rec) + 1
    BY <1>t, <1>v, <2>1 DEF Grown, AtMost, Sentinels
  <2>4. \A s \in Starts : s < Len(rec) + 1
    BY <1>t, <1>n DEF Starts
  <2>. QED BY <1>t, <1>v, <2>2, <2>3, <2>4, BarrierKept
<1>1. CASE BeginRound
  <2>1. Grown /\ AtMost(Record("load", round + 1))
    BY <1>t, <1>1, EmitEffect DEF BeginRound, Emitted, Kinds
  <2>2. Starts' = Starts /\ \A s \in Starts : rec'[s] = rec[s]
    BY <1>t, <2>1, StartsKept
  <2>3. \A s \in Starts : rec[s].tag <= round
    BY DEF IInv, WindowInv, TagInv, Starts
  <2>4. \A s \in Starts : rec[s].tag \in Nat
    BY <1>n DEF Starts, Records
  <2>5. OwnStarts' = {}
    BY <1>t, <1>1, <2>2, <2>3, <2>4 DEF BeginRound, OwnStarts
  <2>6. Settled' => Settled /\ pc = "idle"
    BY <1>1 DEF BeginRound, Settled, IInv, TypeInv, TypeOK
  <2>7. Settled' => \A s \in Starts' \ OwnStarts' : s <= flushed'
    BY <1>1, <2>2, <2>6 DEF BarrierInv, BeginRound
  <2>. QED BY <1>1, <2>5, <2>7 DEF BarrierInv, BeginRound, StartBarrierOrders
\* The other rounds' sentinels are all written, so the count is theirs.
<1>2. CASE CountStart
  <2>1. UNCHANGED <<rec, round, base, flushed, established, failedBefore, outcome>>
    BY <1>2 DEF CountStart
  <2>2. /\ Starts' = Starts /\ OwnStarts' = OwnStarts /\ OtherStarts' = OtherStarts
        /\ Sentinels' = Sentinels
    BY <2>1 DEF Starts, OwnStarts, OtherStarts, Sentinels
  <2>3. ASSUME ~failedBefore
        PROVE  Cardinality(OtherStarts) <= StartCount
    <3>. DEFINE Counted == {i \in (base + 1)..flushed : rec[i].kind = "start"}
    <3>1. Settled
      BY <1>2, <2>3 DEF CountStart, Settled
    <3>2. OtherStarts \subseteq Counted
      BY <1>t, <1>n, <3>1 DEF BarrierInv, OtherStarts, OwnStarts, Starts
    <3>. QED BY <1>t, <3>2, StartsFinite, FS_Subset DEF StartCount
  <2>4. before' \in {StartCount, -1} /\ pc' = "emitStart" /\ pc = "countStart"
    BY <1>2 DEF CountStart
  <2>5. pc' \in {"emitStart", "waitStart"} /\ ~failedBefore' /\ before' >= 0 =>
          Cardinality(OtherStarts') <= before'
    BY <2>1, <2>2, <2>3, <2>4
  <2>6. Settled' => Settled
    BY <2>1, <2>4 DEF Settled
  <2>. QED BY <2>1, <2>2, <2>4, <2>5, <2>6 DEF BarrierInv, StartBarrierOrders, Counting
<1>3. CASE EmitStart
  <2>1. UNCHANGED <<round, base, flushed, established, failedBefore, outcome, before>>
    BY <1>3 DEF EmitStart
  <2>2. pc = "emitStart" /\ pc' \in {"waitStart", "statPre"}
        /\ (pc' = "waitStart" => before >= 0)
    BY <1>3 DEF EmitStart
  <2>3. Grown /\ AtMost(Record("start", round))
    <3>1. CASE Emit("start", round)
      BY <1>t, <3>1, EmitEffect DEF Emitted, Kinds
    <3>2. CASE UNCHANGED <<rec, lost>>
      BY <1>t, <3>2 DEF Grown, AtMost
    <3>. QED BY <1>3, <3>1, <3>2 DEF EmitStart
  <2>4. /\ Record("start", round).kind = "start" /\ Record("start", round).tag = round
        /\ Record("end", round) # Record("start", round)
    BY DEF Record
  <2>5. Starts' \ OwnStarts' = Starts \ OwnStarts
    BY <2>1, <2>3, <2>4 DEF Grown, AtMost, Starts, OwnStarts
  <2>6. Sentinels' = {}
    <3>1. Sentinels = {}
      BY <2>2 DEF IInv, WindowInv, FreshInv, Awaiting, Reading
    <3>. QED BY <2>1, <2>3, <2>4, <3>1 DEF Grown, AtMost, Sentinels
  <2>7. ~established'
    BY <2>1, <2>2 DEF BarrierInv, Counting
  <2>8. pc' = "waitStart" /\ ~failedBefore' => Cardinality(OtherStarts') <= before'
    <3>1. Cardinality(OtherStarts') <= Cardinality(OtherStarts)
      BY <1>t, <2>1, <2>5, OthersLess
    <3>2. Cardinality(OtherStarts) \in Nat /\ Cardinality(OtherStarts') \in Nat
      <4>1. OtherStarts' \subseteq 1..Len(rec')
        BY <1>t DEF OtherStarts, Starts
      <4>2. IsFiniteSet(1..Len(rec'))
        BY <1>t, FS_Interval
      <4>. QED BY <1>t, <4>1, <4>2, StartsFinite, FS_Subset, FS_CardinalityType
    <3>. QED BY <1>t, <2>1, <2>2, <3>1, <3>2 DEF BarrierInv
  <2>9. Settled' => Settled
    BY <2>1, <2>2 DEF Settled
  <2>. QED
    BY <2>1, <2>2, <2>5, <2>6, <2>7, <2>8, <2>9 DEF BarrierInv, StartBarrierOrders, Counting
\* More sentinels than the other rounds have: one of them is this round's.
<1>4. CASE WaitStart
  <2>1. UNCHANGED <<rec, round, base, flushed, failedBefore, outcome, before>>
    BY <1>4 DEF WaitStart
  <2>2. /\ Starts' = Starts /\ OwnStarts' = OwnStarts /\ OtherStarts' = OtherStarts
        /\ Sentinels' = Sentinels
    BY <2>1 DEF Starts, OwnStarts, OtherStarts, Sentinels
  <2>3. /\ pc = "waitStart" /\ pc' \in {"waitStart", "statPre"}
        /\ ~established /\ (pc' = "waitStart" => ~established')
        /\ established' => StartCount > before
    BY <1>4 DEF WaitStart, BarrierInv, Counting
  <2>4. ASSUME established', ~failedBefore
        PROVE  \E i \in 1..flushed : rec[i] = Record("start", round)
    <3>. DEFINE Counted == {i \in (base + 1)..flushed : rec[i].kind = "start"}
    <3>1. Cardinality(OtherStarts) < Cardinality(Counted)
      <4>1. Cardinality(OtherStarts) <= before /\ before < StartCount
        BY <1>t, <2>3, <2>4, StartsFinite DEF BarrierInv
      <4>. QED BY <1>t, <4>1, StartsFinite DEF StartCount
    <3>2. ~(Counted \subseteq OtherStarts)
      BY <1>t, <3>1, StartsFinite, FS_Subset, FS_CardinalityType
    <3>3. PICK i \in Counted : i \notin OtherStarts
      BY <3>2
    <3>4. i \in 1..flushed /\ i \in DOMAIN rec /\ i > base /\ rec[i].kind = "start"
      BY <1>t, <3>3
    <3>5. rec[i].tag = round
      BY <3>3, <3>4 DEF OtherStarts, Starts
    <3>6. rec[i] = Record("start", round)
      <4>1. rec[i] \in Records
        BY <1>n, <3>4
      <4>. QED BY <3>4, <3>5, <4>1 DEF Records, Record
    <3>. QED BY <3>4, <3>6
  <2>5. StartBarrierOrders'
    BY <2>1, <2>4 DEF StartBarrierOrders
  <2>6. Settled' => Settled
    BY <2>1, <2>3 DEF Settled
  <2>. QED BY <2>1, <2>2, <2>3, <2>5, <2>6 DEF BarrierInv, Counting
<1>5. CASE StatPre
  BY <1>5, <1>q DEF StatPre, Counting
<1>6. CASE StatusPre
  BY <1>6, <1>q DEF StatusPre, Counting
<1>7. CASE Restart
  BY <1>7, <1>q DEF Restart, Counting
<1>8. CASE RestartAnswer
  BY <1>8, <1>q DEF RestartAnswer, Counting
<1>9. CASE RunExercise
  BY <1>9, <1>q DEF RunExercise, Counting
<1>10. CASE Recapture
  BY <1>10, <1>q DEF Recapture, Counting
<1>11. CASE Stop
  BY <1>11, <1>q DEF Stop, Counting
<1>12. CASE CheckStopped
  BY <1>12, <1>q DEF CheckStopped, Counting
<1>13. CASE Drain
  BY <1>13, <1>q DEF Drain, Counting
<1>14. CASE EmitEnd
  <2>1. CASE Emit("end", round) /\ Goto("waitEnd")
    <3>1. Grown /\ AtMost(Record("end", round))
      BY <1>t, <2>1, EmitEffect DEF Emitted, Kinds
    <3>2. Starts' = Starts /\ \A s \in Starts : rec'[s] = rec[s]
      BY <1>t, <3>1, StartsKept
    <3>3. \A e \in Sentinels' : e \in Sentinels \/ e = Len(rec) + 1
      BY <1>t, <1>14, <3>1 DEF EmitEnd, Grown, AtMost, Sentinels
    <3>4. \A s \in Starts : s < Len(rec) + 1
      BY <1>t, <1>n DEF Starts
    <3>. QED BY <1>t, <1>14, <2>1, <3>2, <3>3, <3>4, BarrierKept DEF EmitEnd, Counting
  <2>2. CASE Return("failed") /\ UNCHANGED <<rec, lost>>
    BY <1>14, <1>q, <2>2 DEF EmitEnd, Counting
  <2>. QED BY <1>14, <2>1, <2>2 DEF EmitEnd
<1>15. CASE WaitEnd
  BY <1>15, <1>q DEF WaitEnd, Counting
<1>16. CASE StatPost
  BY <1>16, <1>q DEF StatPost, Counting
<1>17. CASE ReadSlice
  BY <1>17, <1>q DEF ReadSlice, Counting
<1>18. CASE StatRead
  BY <1>18, <1>q DEF StatRead, Counting
<1>19. CASE StatusPost
  BY <1>19, <1>q DEF StatusPost, Counting
<1>20. CASE Parse
  <2>1. /\ UNCHANGED <<rec, round, base, flushed, failedBefore, established, before>>
        /\ pc = "parse" /\ pc' = "idle"
    BY <1>20, Zenon DEF Parse
  <2>2. outcome' \in {"ok", "failed", "reloaded"}
    BY <1>20 DEF Parse
  <2>. QED BY <1>q, <2>1, <2>2 DEF Counting
<1>21. CASE UnitDenial
  <2>1. Emitted(Record("avc", round))
    BY <1>t, <1>21, EmitEffect DEF UnitDenial, Kinds
  <2>. QED BY <1>21, <1>v, <2>1 DEF UnitDenial
<1>22. CASE TransitionRefused
  <2>1. Emitted(Record("refused", round))
    BY <1>t, <1>22, EmitEffect DEF TransitionRefused, Kinds
  <2>. QED BY <1>22, <1>v, <2>1 DEF TransitionRefused
<1>23. CASE ForeignRecord
  <2>1. ASSUME NEW k \in {"avc", "target"}, Emit(k, Foreign)
        PROVE  BarrierInv'
    <3>1. Emitted(Record(k, Foreign))
      BY <1>t, <2>1, EmitEffect DEF Kinds, Foreign
    <3>. QED BY <1>23, <1>v, <3>1 DEF ForeignRecord
  <2>2. CASE Emit("end", round)
    <3>1. Emitted(Record("end", round))
      BY <1>t, <2>2, EmitEffect DEF Kinds
    <3>. QED BY <1>23, <1>v, <3>1 DEF ForeignRecord
  <2>. QED BY <1>23, <2>1, <2>2 DEF ForeignRecord
<1>24. CASE ForeignLoad
  <2>1. Emitted(Record("load", Foreign))
    BY <1>t, <1>24, EmitEffect DEF ForeignLoad, Kinds, Foreign
  <2>. QED BY <1>24, <1>v, <2>1 DEF ForeignLoad
<1>25. CASE ToggleAudit
  <2>1. Emitted(Record("config", Foreign))
    BY <1>t, <1>25, ToggleEffect DEF ToggleAudit
  <2>. QED BY <1>25, <1>v, <2>1 DEF ToggleAudit
\* A step that moves records along.
<1>m. ASSUME UNCHANGED <<rec, round, failedBefore, established, before, pc, outcome>>,
             flushed <= flushed', base <= base'
      PROVE  BarrierInv'
  BY <1>t, <1>m, StartsSame, BarrierKept DEF Sentinels
<1>26. CASE HandOver
  BY <1>t, <1>26, <1>m DEF HandOver
<1>27. CASE Flush
  BY <1>t, <1>27, <1>m DEF Flush
<1>28. CASE Rotate
  BY <1>t, <1>28, <1>m DEF Rotate
<1>29. CASE Truncate
  BY <1>t, <1>29, <1>m DEF Truncate
<1>30. CASE CleanupUnit
  BY <1>t, <1>30, <1>m DEF CleanupUnit, channelVars
<1>31. CASE UNCHANGED vars
  BY <1>t, <1>31, <1>m DEF vars, channelVars
<1>. QED
  BY <1>1, <1>2, <1>3, <1>4, <1>5, <1>6, <1>7, <1>8, <1>9, <1>10, <1>11, <1>12, <1>13,
     <1>14, <1>15, <1>16, <1>17, <1>18, <1>19, <1>20, <1>21, <1>22, <1>23, <1>24, <1>25,
     <1>26, <1>27, <1>28, <1>29, <1>30, <1>31 DEF Next, Tool, Verifier

\* A start barrier that was seen to be crossed was crossed, although the sentinel's
\* text is the same in every round and the log may lose its beginning meanwhile:
\* unless an earlier round failed, this round's sentinel is written before the offset.
THEOREM BarrierIsCrossed == Spec => []StartBarrierOrders
<1>1. Init => BarrierInv
  <2>. SUFFICES ASSUME Init PROVE BarrierInv
    OBVIOUS
  <2>1. Starts = {} /\ pc = "idle"
    BY DEF Init, Starts
  <2>. QED BY <2>1 DEF BarrierInv, OwnStarts, Counting, StartBarrierOrders
<1>2. IInv /\ IInv' /\ BarrierInv /\ [Next]_vars => BarrierInv'
  BY BarrierStep
<1>3. BarrierInv => StartBarrierOrders
  BY DEF BarrierInv
<1>. QED BY <1>1, <1>2, <1>3, Invariance, PTL DEF Spec
==============================================================================
