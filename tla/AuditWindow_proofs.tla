------------------------ MODULE AuditWindow_proofs -------------------------
(***************************************************************************)
(* Proofs about AuditWindow for every bound: type correctness, and that a  *)
(* denial set is returned only for a window in which nothing was missed    *)
(* and the policy stayed put.                                              *)
(***************************************************************************)
EXTENDS AuditWindow, FiniteSetTheorems, TLAPS

Records == [kind : Kinds, tag : Nat]

(* Phases of exercise(), by label. *)
BeforeRun == {"countStart", "emitStart", "waitStart", "statPre", "statusPre", "restart"}
Running   == {"starting", "exercise", "recapture", "stop", "checkStopped"}
Awaiting  == {"waitEnd", "statPost", "readSlice"}
Reading   == {"statRead", "statusPost", "parse"}
Quiet     == {"drain", "emitEnd"} \cup Awaiting \cup Reading
Offset    == {"statusPre", "restart"} \cup Running \cup Quiet

BeforeEnd(i)  == \A e \in Sentinels : i < e
InRange(i)    == i > startPos /\ BeforeEnd(i)
Evidence(k)   == \E j \in DOMAIN rec : rec[j].kind = k /\ InRange(j)

ChannelInv == base <= flushed /\ flushed <= handed /\ handed <= Len(rec)

Numbers ==
  /\ rec \in Seq(Records)
  /\ handed \in Nat /\ flushed \in Nat /\ base \in Nat /\ inode \in Nat /\ lost \in Nat
  /\ round \in Nat /\ offset \in Nat /\ startInode \in Nat /\ lost0 \in Nat
  /\ startPos \in Nat /\ window \subseteq Nat /\ result \subseteq Nat

TypeInv == TypeOK /\ ChannelInv

TagInv == \A i \in DOMAIN rec : rec[i].tag <= round

(* Nothing of this round exists before the restart. *)
FreshInv ==
  /\ pc \in BeforeRun => unit = "stopped" /\ OwnDenials = {} /\ ~unseen /\ ~swapped
  /\ pc \notin Awaiting \cup Reading \cup {"idle"} => Sentinels = {}
  /\ pc \in Quiet => unit = "stopped"
  /\ pc # "idle" => outcome = "none" /\ round > 0
  /\ outcome # "none" => round > 0
  /\ pc = "idle" /\ unit = "running" => outcome = "failed"

(* While the file is the one the offset was taken in, base + offset is the
   position in the stream the offset stood for. *)
OffsetInv ==
  /\ pc \in Offset => startPos <= flushed /\ startInode <= inode
  /\ pc \in Offset \ Reading /\ inode = startInode /\ ~truncated =>
       base + offset = startPos

(* The unit's denials lie between the offset and the end sentinel. *)
DenialInv == pc \in Running \cup Quiet => \A i \in OwnDenials : InRange(i)

(* What went unrecorded, or happened behind the unit's back, left a trace. *)
TraceInv ==
  /\ pc \in Offset \ {"statusPre", "parse"} => lost0 <= lost
  /\ pc \in {"restart"} \cup Running /\ ~enabled => lost > lost0 \/ Evidence("config")
  /\ pc \in Running \cup Quiet /\ unseen =>
       (pc # "parse" /\ lost > lost0) \/ Evidence("config")
  /\ pc \in Running \cup Quiet /\ swapped =>
       (pc # "parse" /\ lost > lost0) \/ Evidence("config") \/ Evidence("load")

(* The slice that was read holds everything between offset and sentinel. *)
SliceInv ==
  /\ pc \in Reading => Sentinels # {}
  /\ pc \in Reading /\ ~truncated /\ (pc = "statRead" => inode = startInode) =>
       \A i \in DOMAIN rec : InRange(i) => i \in window

AnswerInv ==
  outcome = "ok" =>
    /\ unit = "stopped"
    /\ ~truncated => ~unseen /\ ~swapped /\ OwnDenials \subseteq result

(* Earlier rounds lie before the offset: because they ended well, or because
   this round's own start sentinel does. *)
EarlierDenial(i) == rec[i].kind = "avc" /\ rec[i].tag \in 1..(round - 1)
Setup(i) == EarlierDenial(i) \/ (rec[i].kind = "load" /\ rec[i].tag \in 1..round)
Settled == IF pc = "idle" THEN outcome \in {"none", "ok"} /\ ~failedBefore
                          ELSE ~failedBefore

SettledInv ==
  /\ Settled => \A i \in DOMAIN rec : EarlierDenial(i) => i <= flushed
  /\ Settled /\ pc = "idle" /\ round > 0 => \A i \in OwnDenials : i <= flushed
  /\ pc \in Offset /\ ~failedBefore =>
       \A i \in DOMAIN rec : EarlierDenial(i) => i <= startPos

(* What is read lies past the offset, up to a sentinel that is written. *)
ReadInv ==
  /\ startPos <= Len(rec)
  /\ pc \in Offset => startPos <= base + offset
  /\ pc \in Reading => \A i \in window : i \in DOMAIN rec /\ i > startPos
  /\ pc \in {"statPost", "readSlice"} \cup Reading =>
       \E e \in Sentinels : e <= flushed

(* This round's start sentinel is younger than its setup and all before it. *)
SetupInv ==
  \A s \in DOMAIN rec : rec[s] = Record("start", round) =>
    \A i \in DOMAIN rec : Setup(i) => i < s

WindowInv ==
  /\ TagInv /\ FreshInv /\ OffsetInv /\ DenialInv /\ TraceInv /\ SliceInv /\ AnswerInv

EarlierInv ==
  /\ SettledInv /\ ReadInv /\ SetupInv /\ FreshWindow /\ NoSelfInflictedReload

IInv == TypeInv /\ WindowInv /\ EarlierInv

-----------------------------------------------------------------------------
(* The record stream only grows. *)

Grown == rec' \in Seq(Records) /\ Len(rec) <= Len(rec')
           /\ \A i \in 1..Len(rec) : rec'[i] = rec[i]

\* With at most R appended.
AtMost(R) == rec' = rec \/ (Len(rec') = Len(rec) + 1 /\ rec'[Len(rec) + 1] = R)

\* What asking the kernel for a record does: nothing is rewritten, and no record
\* means that auditing is off or that the loss was counted.
Emitted(R) ==
  /\ Grown /\ AtMost(R)
  /\ lost' \in Nat /\ lost <= lost'
  /\ enabled /\ rec' = rec => lost' = lost + 1

\* What is emitted ends up as one record at the end of the stream, or as a counted loss.
LEMMA EmitEffect ==
  ASSUME rec \in Seq(Records), lost \in Nat, NEW k \in Kinds, NEW t \in Nat, Emit(k, t)
  PROVE  Emitted(Record(k, t))
<1>1. Record(k, t) \in Records
  BY DEF Record, Records
<1>2. CASE enabled /\ Queue(k, t)
  BY <1>1, <1>2 DEF Queue, Emitted, Grown, AtMost
<1>3. CASE rec' = rec /\ (~enabled \/ lost' = lost + 1) /\ lost' \in {lost, lost + 1}
  BY <1>3 DEF Emitted, Grown, AtMost
<1>4. QED
  BY <1>2, <1>3 DEF Emit, Drop

\* The same for the record of a change of audit_enabled, which is always asked for.
LEMMA ToggleEffect ==
  ASSUME rec \in Seq(Records), lost \in Nat, Queue("config", Foreign) \/ Drop
  PROVE  Emitted(Record("config", Foreign)) /\ (rec' = rec => lost' = lost + 1)
<1>1. Record("config", Foreign) \in Records
  BY DEF Record, Records, Kinds, Foreign
<1>2. CASE Queue("config", Foreign)
  BY <1>1, <1>2 DEF Queue, Emitted, Grown, AtMost
<1>3. CASE Drop
  BY <1>3 DEF Drop, Emitted, Grown, AtMost
<1>4. QED
  BY <1>2, <1>3

-----------------------------------------------------------------------------
(* Type correctness, together with the order of the channel's stages. *)

\* The initial state is well typed.
LEMMA TypeInit == Init => TypeInv
<1> SUFFICES ASSUME Init PROVE TypeInv
  OBVIOUS
<1>1. rec \in Seq([kind : Kinds, tag : Nat]) /\ Len(rec) = 0
  BY DEF Init
<1>2. established \in BOOLEAN /\ unseen \in BOOLEAN /\ swapped \in BOOLEAN
      /\ truncated \in BOOLEAN /\ failedBefore \in BOOLEAN
      /\ enabled \in BOOLEAN /\ exOK \in BOOLEAN
  BY Zenon DEF Init
<1>3. QED
  BY <1>1, <1>2 DEF Init, TypeInv, TypeOK, ChannelInv, Labels

\* Every step keeps the types and the order of the stages.
LEMMA TypeStep == TypeInv /\ [Next]_vars => TypeInv'
<1> SUFFICES ASSUME TypeInv, [Next]_vars PROVE TypeInv'
  OBVIOUS
<1> USE DEF TypeInv, TypeOK, ChannelInv, Labels, ToolFrame, Goto, Return, historyVars, localVars
<1>r. rec \in Seq(Records)
  BY DEF Records
<1>1. CASE BeginRound
  <2>1. rec' \in Seq(Records) /\ Len(rec) <= Len(rec') /\ lost' \in Nat
    BY <1>r, <1>1, EmitEffect DEF BeginRound, Emitted, Grown, Kinds
  <2>2. QED
    <3>1. established' \in BOOLEAN /\ unseen' \in BOOLEAN /\ swapped' \in BOOLEAN
          /\ truncated' \in BOOLEAN /\ failedBefore' \in BOOLEAN /\ exOK' \in BOOLEAN
      BY <1>1, Zenon DEF BeginRound
    <3>2. QED
      BY <1>1, <2>1, <3>1 DEF BeginRound, Records
<1>2. CASE CountStart
  <2>1. StartCount \in Nat
    <3>1. IsFiniteSet((base + 1)..flushed)
      BY FS_Interval
    <3>2. QED
      BY <3>1, FS_Subset, FS_CardinalityType DEF StartCount
  <2>2. QED
    BY <1>2, <2>1 DEF CountStart
<1>3. CASE EmitStart
  <2>1. rec' \in Seq(Records) /\ Len(rec) <= Len(rec') /\ lost' \in Nat
    <3>1. CASE Emit("start", round)
      BY <1>r, <3>1, EmitEffect DEF Emitted, Emitted, Grown, Kinds
    <3>2. CASE UNCHANGED <<rec, lost>>
      BY <1>r, <3>2
    <3>3. QED
      BY <1>3, <3>1, <3>2 DEF EmitStart
  <2>2. QED
    BY <1>3, <2>1 DEF EmitStart, Records
<1>4. CASE WaitStart
  <2>1. established' \in BOOLEAN
    BY <1>4, Zenon DEF WaitStart
  <2>2. QED
    BY <1>4, <2>1 DEF WaitStart
<1>5. CASE StatPre
  <2>1. truncated' \in BOOLEAN
    BY <1>5, Zenon DEF StatPre
  <2>2. offset' \in Nat /\ startPos' \in Nat /\ startInode' \in Nat
    BY <1>5 DEF StatPre, Size
  <2>3. QED
    BY <1>5, <2>1, <2>2 DEF StatPre
<1>6. CASE StatusPre
  BY <1>6 DEF StatusPre
<1>7. CASE Restart
  BY <1>7 DEF Restart
<1>8. CASE RestartAnswer
  BY <1>8 DEF RestartAnswer
<1>9. CASE RunExercise
  BY <1>9 DEF RunExercise
<1>10. CASE Recapture
  BY <1>10 DEF Recapture
<1>11. CASE Stop
  BY <1>11 DEF Stop
<1>12. CASE CheckStopped
  BY <1>12 DEF CheckStopped
<1>13. CASE Drain
  BY <1>13 DEF Drain
<1>14. CASE EmitEnd
  <2>1. rec' \in Seq(Records) /\ Len(rec) <= Len(rec') /\ lost' \in Nat
    <3>1. CASE Emit("end", round)
      BY <1>r, <3>1, EmitEffect DEF Emitted, Emitted, Grown, Kinds
    <3>2. CASE UNCHANGED <<rec, lost>>
      BY <1>r, <3>2
    <3>3. QED
      BY <1>14, <3>1, <3>2 DEF EmitEnd
  <2>2. QED
    BY <1>14, <2>1 DEF EmitEnd, Records
<1>15. CASE WaitEnd
  BY <1>15 DEF WaitEnd
<1>16. CASE StatPost
  BY <1>16 DEF StatPost
<1>17. CASE ReadSlice
  <2>1. window' \subseteq Nat
    <3>1. CASE UNCHANGED window
      BY <3>1
    <3>2. CASE \E e \in Sentinels : window' = (base + offset + 1)..(e - 1)
      <4>1. PICK e \in Sentinels : window' = (base + offset + 1)..(e - 1)
        BY <3>2
      <4>2. e \in Nat /\ base + offset + 1 \in Nat
        BY DEF Sentinels
      <4>3. QED
        BY <4>1, <4>2
    <3>3. QED
      BY <1>17, <3>1, <3>2 DEF ReadSlice
  <2>2. QED
    BY <1>17, <2>1 DEF ReadSlice
<1>18. CASE StatRead
  BY <1>18 DEF StatRead
<1>19. CASE StatusPost
  BY <1>19 DEF StatusPost
<1>20. CASE Parse
  <2>1. UNCHANGED <<channelVars, unit, disruptions, historyVars, round, probes, before,
                    offset, startInode, lost0, exOK, window>>
    BY <1>20, Zenon DEF Parse, channelVars
  <2>2. pc' = "idle" /\ outcome' \in {"ok", "failed", "reloaded"} /\ result' \subseteq Nat
    BY <1>20 DEF Parse
  <2>3. QED
    BY <2>1, <2>2 DEF channelVars
<1>21. CASE UnitDenial
  <2>1. rec' \in Seq(Records) /\ Len(rec) <= Len(rec') /\ lost' \in Nat
    BY <1>r, <1>21, EmitEffect DEF UnitDenial, Emitted, Grown, Kinds
  <2>2. QED
    BY <1>21, <2>1 DEF UnitDenial, Records, ToolUnchanged
<1>22. CASE TransitionRefused
  <2>1. rec' \in Seq(Records) /\ Len(rec) <= Len(rec') /\ lost' \in Nat
    BY <1>r, <1>22, EmitEffect DEF TransitionRefused, Emitted, Grown, Kinds
  <2>2. QED
    BY <1>22, <2>1 DEF TransitionRefused, Records, ToolUnchanged, Disrupt
<1>23. CASE ForeignRecord
  <2>1. rec' \in Seq(Records) /\ Len(rec) <= Len(rec') /\ lost' \in Nat
    <3>1. ASSUME NEW k \in {"avc", "target"}, Emit(k, Foreign)
          PROVE  rec' \in Seq(Records) /\ Len(rec) <= Len(rec') /\ lost' \in Nat
      BY <1>r, <3>1, EmitEffect DEF Emitted, Grown, Kinds, Foreign
    <3>2. CASE Emit("end", round)
      BY <1>r, <3>2, EmitEffect DEF Emitted, Emitted, Grown, Kinds
    <3>3. QED
      BY <1>23, <3>1, <3>2 DEF ForeignRecord
  <2>2. QED
    BY <1>23, <2>1 DEF ForeignRecord, Records, ToolUnchanged, Disrupt
<1>24. CASE ForeignLoad
  <2>1. rec' \in Seq(Records) /\ Len(rec) <= Len(rec') /\ lost' \in Nat
    BY <1>r, <1>24, EmitEffect DEF ForeignLoad, Emitted, Grown, Kinds, Foreign
  <2>2. QED
    BY <1>24, <2>1 DEF ForeignLoad, Records, ToolUnchanged, Disrupt
<1>25. CASE ToggleAudit
  <2>1. rec' \in Seq(Records) /\ Len(rec) <= Len(rec') /\ lost' \in Nat
    BY <1>r, <1>25, ToggleEffect DEF ToggleAudit, Emitted, Grown
  <2>2. QED
    BY <1>25, <2>1 DEF ToggleAudit, Records, ToolUnchanged, Disrupt
<1>26. CASE HandOver
  BY <1>26 DEF HandOver, ToolUnchanged
<1>27. CASE Flush
  BY <1>27 DEF Flush, ToolUnchanged
<1>28. CASE Rotate
  BY <1>28 DEF Rotate, ToolUnchanged, Disrupt
<1>29. CASE Truncate
  BY <1>29 DEF Truncate, ToolUnchanged, Disrupt
<1>30. CASE CleanupUnit
  BY <1>30 DEF CleanupUnit, ToolUnchanged, channelVars
<1>31. CASE UNCHANGED vars
  BY <1>31 DEF vars, channelVars
<1>32. QED
  BY <1>1, <1>2, <1>3, <1>4, <1>5, <1>6, <1>7, <1>8, <1>9, <1>10, <1>11,
       <1>12, <1>13, <1>14, <1>15, <1>16, <1>17, <1>18, <1>19, <1>20, <1>21,
       <1>22, <1>23, <1>24, <1>25, <1>26, <1>27, <1>28, <1>29, <1>30, <1>31 DEF
       Next, Tool, Verifier

-----------------------------------------------------------------------------
(* The inductive step. *)

\* What appending at most R changes in the sets the invariant speaks of.
StreamFacts(R) ==
  /\ Len(rec) <= Len(rec')
  /\ \A i \in DOMAIN rec : i \in Nat /\ i <= Len(rec) /\ i \in DOMAIN rec' /\ rec'[i] = rec[i]
  /\ \A i \in DOMAIN rec' :
       \/ i \in DOMAIN rec
       \/ i = Len(rec) + 1 /\ rec'[i] = R /\ rec' # rec
  /\ Sentinels \subseteq DOMAIN rec /\ OwnDenials \subseteq DOMAIN rec
  /\ Sentinels \subseteq Sentinels' /\ Sentinels' \subseteq Sentinels \cup {Len(rec) + 1}
  /\ R # Record("end", round) => Sentinels' = Sentinels
  /\ OwnDenials \subseteq OwnDenials' /\ OwnDenials' \subseteq OwnDenials \cup {Len(rec) + 1}
  /\ R # Record("avc", round) => OwnDenials' = OwnDenials
  /\ \A i \in OwnDenials : rec[i] = Record("avc", round)

\* Appending at most R has those effects.
LEMMA StreamStep ==
  ASSUME rec \in Seq(Records), NEW R, Grown, AtMost(R), round' = round
  PROVE  StreamFacts(R)
<1>1. /\ Len(rec) <= Len(rec')
      /\ \A i \in DOMAIN rec : i \in Nat /\ i <= Len(rec) /\ i \in DOMAIN rec' /\ rec'[i] = rec[i]
      /\ \A i \in DOMAIN rec' :
           \/ i \in DOMAIN rec
           \/ i = Len(rec) + 1 /\ rec'[i] = R /\ rec' # rec
  BY DEF Grown, AtMost
<1>2. QED
  BY <1>1 DEF StreamFacts, Sentinels, OwnDenials, Record

\* It takes no denial of another domain away.
LEMMA TargetsKept ==
  ASSUME rec \in Seq(Records), Grown
  PROVE  TargetDenials \subseteq TargetDenials'
BY DEF Grown, TargetDenials

\* The same when nothing is appended.
Same ==
  /\ Sentinels' = Sentinels /\ OwnDenials' = OwnDenials
  /\ Sentinels \subseteq DOMAIN rec /\ OwnDenials \subseteq DOMAIN rec
  /\ \A i \in DOMAIN rec : i \in Nat /\ i <= Len(rec)
  /\ \A i \in OwnDenials : rec[i] = Record("avc", round)
  /\ TargetDenials' = TargetDenials

\* A step that queues nothing and stays in the round has those effects.
LEMMA SameStream ==
  ASSUME Numbers, rec' = rec, round' = round
  PROVE  Same
BY DEF Same, Sentinels, OwnDenials, TargetDenials, Numbers

Values ==
  /\ pc \in Labels /\ unit \in {"stopped", "running"}
  /\ outcome \in {"none", "ok", "failed", "reloaded"}

Hypotheses ==
  /\ Values
  /\ TagInv /\ FreshInv /\ OffsetInv /\ DenialInv /\ TraceInv /\ SliceInv /\ AnswerInv
  /\ ChannelInv /\ SettledInv /\ ReadInv /\ SetupInv /\ FreshWindow /\ NoSelfInflictedReload

\* A record produced while exercise() is between two commands.
Background(R) ==
  /\ Emitted(R) /\ round' = round
  /\ UNCHANGED <<handed, flushed, base, inode, unit, pc, outcome, offset, startInode,
                 lost0, window, result, startPos, truncated, failedBefore>>

\* Such a record leaves every part of the invariant alone that is not about traces.
LEMMA BackgroundStep ==
  ASSUME Hypotheses, Numbers, Numbers', NEW k \in Kinds, NEW t \in {Foreign, round},
         Background(Record(k, t)),
         k = "avc" => t = Foreign \/ unit = "running",
         k = "end" => t = round /\ pc \in {"waitEnd", "statPost"},
         k = "load" => t = Foreign,
         k # "start"
  PROVE  /\ TagInv' /\ OffsetInv' /\ DenialInv' /\ SliceInv'
         /\ SettledInv' /\ ReadInv' /\ SetupInv' /\ FreshWindow' /\ NoSelfInflictedReload'
         /\ (Sentinels = Sentinels' \/ pc \in {"waitEnd", "statPost"})
         /\ (k # "avc" \/ (t = Foreign /\ round > 0) => OwnDenials = OwnDenials')
         /\ (Evidence("config") => Evidence("config")')
         /\ (Evidence("load") => Evidence("load")')
         /\ (pc \in {"restart"} \cup Running /\ rec' # rec =>
               (k = "config" => Evidence("config")') /\ (k = "load" => Evidence("load")'))
<1> DEFINE R == Record(k, t)
<1> USE DEF Running, Quiet, Awaiting, Reading, Offset, BeforeRun
<1>1. StreamFacts(R)
  BY StreamStep DEF Background, Emitted, Numbers
<1>2. R.kind = k /\ R.tag = t /\ t \in Nat /\ t <= round /\ round \in Nat
  <2>1. R.kind = k /\ R.tag = t
    BY DEF Record
  <2>2. t \in Nat /\ t <= round /\ round \in Nat
    <3>1. t = 0 \/ t = round
      BY DEF Foreign
    <3>2. round \in Nat
      BY DEF Numbers
    <3>3. QED
      BY <3>1, <3>2
  <2>3. QED
    BY <2>1, <2>2
<1>3. /\ R = Record("avc", round) <=> k = "avc" /\ t = round
      /\ R = Record("end", round) <=> k = "end" /\ t = round
      /\ R # Record("start", round)
  BY DEF Record
<1>4. /\ startPos <= Len(rec) /\ startPos < Len(rec) + 1
      /\ round = 0 => pc = "idle" /\ outcome = "none"
      /\ unit = "running" => pc \in Running \/ (pc = "idle" /\ outcome = "failed")
      /\ pc \in {"restart"} \cup Running => Sentinels = {}
  <2>1. startPos <= Len(rec) /\ startPos < Len(rec) + 1
    BY DEF Hypotheses, ReadInv, Numbers
  <2>2. round = 0 => pc = "idle" /\ outcome = "none"
    BY <1>2 DEF Hypotheses, FreshInv
  <2>3. unit = "running" => pc \in Running \/ (pc = "idle" /\ outcome = "failed")
    BY DEF Hypotheses, Values, FreshInv, Labels
  <2>4. pc \in {"restart"} \cup Running => Sentinels = {}
    BY DEF Hypotheses, FreshInv
  <2>5. QED
    BY <2>1, <2>2, <2>3, <2>4
<1> HIDE DEF R
<1>5. TagInv'
  BY <1>1, <1>2 DEF Hypotheses, TagInv, StreamFacts, Background
<1>6. OffsetInv'
  BY DEF Hypotheses, OffsetInv, Background
<1>7. DenialInv'
  <2>1. SUFFICES ASSUME pc \in Running \cup Quiet, NEW i \in OwnDenials' PROVE InRange(i)'
    BY DEF DenialInv, Background
  <2>2. /\ \A e \in Sentinels : e \in Nat /\ e <= Len(rec)
        /\ \A e \in Sentinels' : e \in Sentinels \/ e = Len(rec) + 1
    BY <1>1 DEF StreamFacts
  <2>3. CASE i \in OwnDenials
    <3>1. i > startPos /\ (\A e \in Sentinels : i < e) /\ i \in Nat /\ i <= Len(rec)
      BY <1>1, <2>1, <2>3 DEF Hypotheses, DenialInv, InRange, BeforeEnd, StreamFacts
    <3>2. QED
      BY <2>2, <3>1 DEF InRange, BeforeEnd, Background, Numbers
  <2>4. CASE i \notin OwnDenials
    <3>1. R = Record("avc", round) /\ i = Len(rec) + 1
      BY <1>1, <2>4 DEF StreamFacts
    <3>2. Sentinels' = {}
      <4>1. k = "avc" /\ t = round /\ round > 0
        BY <1>3, <1>4, <2>1, <3>1 DEF Hypotheses, FreshInv
      <4>2. Sentinels = {} /\ Sentinels' = Sentinels
        BY <1>1, <1>3, <1>4, <2>1, <4>1 DEF StreamFacts, Foreign, Hypotheses, FreshInv
      <4>3. QED
        BY <4>2
    <3>3. QED
      BY <1>4, <3>1, <3>2 DEF InRange, BeforeEnd, Background, Numbers
  <2>5. QED
    BY <2>3, <2>4
<1>8. SliceInv'
  BY <1>1, <1>2, <1>3, <1>4 DEF Hypotheses, SliceInv, StreamFacts, Background, InRange,
     BeforeEnd, Numbers
<1>9. SettledInv'
  BY <1>1, <1>2, <1>3, <1>4 DEF Hypotheses, SettledInv, Settled, EarlierDenial, StreamFacts,
     Background, Foreign, Numbers
<1>10. ReadInv'
  BY <1>1, <1>4 DEF Hypotheses, ReadInv, StreamFacts, Background, Numbers
<1>11. SetupInv'
  BY <1>1, <1>2, <1>3 DEF Hypotheses, SetupInv, Setup, EarlierDenial, StreamFacts,
     Background, Foreign, Numbers
<1>12. FreshWindow'
  BY <1>1, <1>4, TargetsKept DEF Emitted, Hypotheses, FreshWindow, StartWritten, StreamFacts,
     Background, Numbers
<1>13. NoSelfInflictedReload'
  BY <1>1, <1>4 DEF Hypotheses, NoSelfInflictedReload, StartWritten, StreamFacts,
     Background,
     Numbers
<1>14. /\ (Sentinels = Sentinels' \/ pc \in {"waitEnd", "statPost"})
       /\ (k # "avc" \/ (t = Foreign /\ round > 0) => OwnDenials = OwnDenials')
  BY <1>1, <1>2, <1>3 DEF StreamFacts, Foreign
<1>15. (Evidence("config") => Evidence("config")') /\ (Evidence("load") => Evidence("load")')
  BY <1>1 DEF Evidence, InRange, BeforeEnd, StreamFacts, Background, Numbers
<1>16. ASSUME pc \in {"restart"} \cup Running, rec' # rec
       PROVE  (k = "config" => Evidence("config")') /\ (k = "load" => Evidence("load")')
  <2>1. Len(rec) + 1 \in DOMAIN rec' /\ rec'[Len(rec) + 1] = R
    BY <1>16 DEF Background, Emitted, AtMost, Grown, Numbers, R
  <2>2. k # "end" => Sentinels' = {}
    BY <1>1, <1>3, <1>4, <1>16 DEF StreamFacts
  <2>3. QED
    BY <1>2, <1>4, <1>16, <2>1, <2>2 DEF Evidence, InRange, BeforeEnd, Background, Numbers
<1>17. QED
  BY <1>5, <1>6, <1>7, <1>8, <1>9, <1>10, <1>11, <1>12, <1>13, <1>14, <1>15, <1>16

\* Every action keeps the window and the earlier-round parts of the invariant.
LEMMA InvStep == IInv /\ TypeInv' /\ [Next]_vars => WindowInv' /\ EarlierInv'
<1> SUFFICES ASSUME IInv, TypeInv', [Next]_vars PROVE WindowInv' /\ EarlierInv'
  OBVIOUS
<1> USE DEF BeforeRun, Running, Awaiting, Reading, Quiet, Offset,
      ToolFrame, Goto, Return, historyVars, localVars
<1>h. Hypotheses
  BY DEF Hypotheses, Values, IInv, TypeInv, TypeOK, WindowInv, EarlierInv
<1>t. Numbers /\ Numbers'
  BY DEF IInv, TypeInv, TypeOK, Numbers, Records
<1>m. /\ round \in Nat /\ flushed \in Nat /\ startPos \in Nat /\ base \in Nat /\ handed \in Nat
      /\ rec \in Seq(Records) /\ Len(rec) \in Nat /\ DOMAIN rec = 1..Len(rec)
      /\ base <= flushed /\ flushed <= handed /\ handed <= Len(rec) /\ startPos <= Len(rec)
  <2>1. /\ rec \in Seq(Records) /\ round \in Nat /\ flushed \in Nat /\ startPos \in Nat
        /\ base \in Nat /\ handed \in Nat
    BY <1>t DEF Numbers
  <2>2. Len(rec) \in Nat /\ DOMAIN rec = 1..Len(rec)
    BY <2>1
  <2>3. base <= flushed /\ flushed <= handed /\ handed <= Len(rec) /\ startPos <= Len(rec)
    BY <1>h DEF Hypotheses, ChannelInv, ReadInv
  <2>4. QED
    BY <2>1, <2>2, <2>3
<1>s. \A i \in DOMAIN rec : /\ i \in Nat /\ i <= Len(rec) /\ rec[i] \in Records
                              /\ rec[i].tag \in Nat /\ rec[i].tag <= round
  <2>1. \A i \in DOMAIN rec : i \in Nat /\ i <= Len(rec) /\ rec[i] \in Records
    BY <1>m
  <2>2. \A i \in DOMAIN rec : rec[i].tag <= round
    BY <1>h DEF Hypotheses, TagInv
  <2>3. QED
    BY <2>1, <2>2 DEF Records
<1>1. CASE BeginRound
  <2>1. Emitted(Record("load", round + 1)) /\ round' = round + 1
    BY <1>t, <1>1, EmitEffect DEF BeginRound, Numbers, Kinds
  <2>2. /\ \A i \in DOMAIN rec : i \in Nat /\ i <= Len(rec) /\ i \in DOMAIN rec' /\ rec'[i] = rec[i]
        /\ \A i \in DOMAIN rec' :
             (i \in DOMAIN rec /\ rec'[i] = rec[i]) \/ rec'[i] = Record("load", round + 1)
    BY <1>m, <1>s, <2>1 DEF Emitted, Grown, AtMost
  <2>3. \A i \in DOMAIN rec' :
          /\ rec'[i] # Record("avc", round') /\ rec'[i] # Record("end", round')
          /\ rec'[i] # Record("start", round') /\ rec'[i].tag <= round'
    <3>1. SUFFICES ASSUME NEW i \in DOMAIN rec'
                   PROVE  /\ rec'[i] # Record("avc", round') /\ rec'[i] # Record("end", round')
                          /\ rec'[i] # Record("start", round') /\ rec'[i].tag <= round'
      OBVIOUS
    <3>2. round \in Nat /\ round' = round + 1 /\ round + 1 <= round + 1 /\ ~(round + 1 <= round)
      BY <1>t, <2>1 DEF Numbers
    <3>3. CASE i \in DOMAIN rec /\ rec'[i] = rec[i]
      <4>1. rec[i].tag <= round
        BY <1>h, <3>3 DEF Hypotheses, TagInv
      <4>2. rec[i].tag \in Nat
        BY <1>s, <3>3
      <4>3. QED
        BY <3>2, <3>3, <4>1, <4>2 DEF Record
    <3>4. CASE rec'[i] = Record("load", round + 1)
      BY <3>2, <3>4 DEF Record
    <3>5. QED
      BY <2>2, <3>3, <3>4
  <2>4. OwnDenials' = {} /\ Sentinels' = {}
    BY <2>3 DEF OwnDenials, Sentinels
  <2>5. Settled' => \A i \in DOMAIN rec' : EarlierDenial(i)' => i <= flushed
    <3>1. SUFFICES ASSUME Settled', NEW i \in DOMAIN rec',
                          rec'[i].kind = "avc", rec'[i].tag \in 1..(round' - 1)
                   PROVE  i <= flushed
      BY DEF EarlierDenial
    <3>2. Settled
      <4>1. pc' # "idle" /\ pc = "idle"
            /\ failedBefore' = (failedBefore \/ outcome \in {"failed", "reloaded"})
        BY <1>1 DEF BeginRound
      <4>2. ~failedBefore'
        BY <3>1, <4>1 DEF Settled
      <4>3. QED
        BY <1>h, <4>1, <4>2 DEF Settled, Hypotheses, Values
    <3>3. i \in DOMAIN rec /\ rec'[i] = rec[i]
      BY <2>2, <3>1 DEF Record
    <3>4. rec[i].kind = "avc" /\ rec[i].tag \in 1..round /\ round > 0
      <4>1. rec'[i].kind = "avc" /\ rec'[i].tag \in 1..(round' - 1) /\ round' = round + 1
        BY <3>1, <2>1
      <4>2. round \in Nat /\ round + 1 - 1 = round
        BY <1>t DEF Numbers
      <4>3. QED
        BY <3>3, <4>1, <4>2
    <3>5. CASE rec[i].tag = round
      <4>1. rec[i] = Record("avc", round)
        BY <1>s, <3>3, <3>4, <3>5 DEF Record, Records
      <4>2. i \in OwnDenials /\ pc = "idle"
        BY <1>1, <3>3, <4>1 DEF OwnDenials, BeginRound
      <4>3. QED
        BY <1>h, <3>2, <3>4, <4>2 DEF Hypotheses, SettledInv
    <3>6. CASE rec[i].tag # round
      <4>1. rec[i].tag \in 1..(round - 1)
        BY <1>m, <3>4, <3>6
      <4>2. QED
        BY <1>h, <3>2, <3>3, <3>4, <4>1 DEF Hypotheses, SettledInv, EarlierDenial
    <3>7. QED
      BY <3>5, <3>6
  <2>6. WindowInv'
    BY <1>h, <1>t, <1>1, <2>1, <2>3, <2>4 DEF BeginRound, Hypotheses, WindowInv, TagInv,
       FreshInv, OffsetInv, DenialInv, TraceInv, SliceInv, AnswerInv, Numbers
  <2>7. SettledInv' /\ ReadInv' /\ SetupInv'
    BY <1>h, <1>t, <1>1, <2>1, <2>3, <2>4, <2>5 DEF BeginRound, Hypotheses, SettledInv,
       ReadInv, SetupInv, Numbers, Emitted, Grown
  <2>8. FreshWindow' /\ NoSelfInflictedReload'
    BY <1>1 DEF BeginRound, FreshWindow, NoSelfInflictedReload
  <2>9. QED
    BY <2>6, <2>7, <2>8 DEF EarlierInv
<1>2. CASE CountStart
  <2>1. rec' = rec /\ round' = round
    BY <1>2 DEF CountStart
  <2>2. Same
    BY <2>1, <1>t, SameStream
  <2>3. WindowInv'
    BY <1>h, <1>t, <1>2, <2>1, <2>2 DEF CountStart, Same, Hypotheses, WindowInv, TagInv,
       FreshInv, OffsetInv, DenialInv, TraceInv, SliceInv, AnswerInv, ChannelInv, InRange,
       BeforeEnd, Evidence, Numbers
  <2>4. EarlierInv'
    BY <1>h, <1>t, <1>2, <2>1, <2>2 DEF CountStart, Same, Hypotheses, EarlierInv,
       SettledInv, ReadInv, SetupInv, FreshWindow, NoSelfInflictedReload, StartWritten,
       EarlierDenial, Setup, Settled, FreshInv, OffsetInv, ChannelInv, Numbers
  <2>5. QED
    BY <2>3, <2>4
<1>3. CASE EmitStart
  <2>1. /\ round' = round /\ Grown /\ AtMost(Record("start", round))
        /\ lost <= lost' /\ pc = "emitStart" /\ round \in Nat
    <3>1. CASE UNCHANGED <<rec, lost>>
      BY <1>t, <1>3, <3>1 DEF EmitStart, Grown, AtMost, Numbers
    <3>2. CASE Emit("start", round)
      BY <1>t, <1>3, <3>2, EmitEffect DEF EmitStart, Emitted, Numbers, Kinds
    <3>3. QED
      BY <1>3, <3>1, <3>2 DEF EmitStart
  <2>2. StreamFacts(Record("start", round))
    BY <1>t, <2>1, StreamStep DEF Numbers
  <2>3. /\ Record("start", round) # Record("avc", round) /\ Record("start", round).kind = "start"
        /\ Record("start", round).tag = round
    BY DEF Record
  <2>4. /\ OwnDenials' = OwnDenials /\ Sentinels = {}
        /\ Sentinels' \subseteq {Len(rec) + 1} /\ unit' = unit /\ unit = "stopped"
        /\ OwnDenials = {} /\ Sentinels' = {}
        /\ startPos \in Nat /\ startPos <= Len(rec) /\ Len(rec) \in Nat
        /\ outcome = "none" /\ round > 0
    BY <1>h, <1>t, <1>3, <2>1, <2>2, <2>3 DEF EmitStart, StreamFacts, Hypotheses, FreshInv,
       ReadInv, Record, Numbers
  <2>5. TagInv'
    BY <1>m, <1>s, <2>1, <2>2, <2>3 DEF StreamFacts, TagInv
  <2>6. pc' \in {"waitStart", "statPre"} /\ outcome' = "none"
        /\ UNCHANGED <<flushed, startPos, failedBefore, unseen, swapped>>
    BY <1>3, <2>4 DEF EmitStart
  <2>7. FreshInv'
    BY <1>h, <2>1, <2>4, <2>6 DEF Hypotheses, FreshInv
  <2>8. OffsetInv' /\ DenialInv' /\ TraceInv' /\ SliceInv' /\ AnswerInv'
    BY <2>6 DEF OffsetInv, DenialInv, TraceInv, SliceInv, AnswerInv
  <2>9. SettledInv' /\ ReadInv'
    <3>1. \A i \in DOMAIN rec' : EarlierDenial(i)' => i \in DOMAIN rec /\ EarlierDenial(i)
      BY <2>1, <2>2, <2>3 DEF StreamFacts, EarlierDenial
    <3>2. Settled' = Settled
      BY <2>1, <2>6 DEF Settled
    <3>3. SettledInv'
      BY <1>h, <2>1, <2>6, <3>1, <3>2 DEF Hypotheses, SettledInv
    <3>4. ReadInv'
      <4>1. Len(rec) <= Len(rec') /\ Len(rec') \in Nat
        BY <1>t, <2>2 DEF StreamFacts, Numbers
      <4>2. startPos' <= Len(rec') /\ pc' \notin Offset
        BY <2>4, <2>6, <4>1
      <4>3. QED
        BY <4>2 DEF ReadInv
    <3>5. QED
      BY <3>3, <3>4
  <2>10. SetupInv'
    <3>1. SUFFICES ASSUME NEW s \in DOMAIN rec', rec'[s] = Record("start", round),
                          NEW i \in DOMAIN rec', Setup(i)'
                   PROVE  i < s
      BY <2>1 DEF SetupInv
    <3>2. i \in DOMAIN rec /\ Setup(i)
      BY <2>1, <2>2, <2>3, <3>1 DEF Setup, EarlierDenial, StreamFacts
    <3>3. CASE s \in DOMAIN rec
      BY <1>h, <2>2, <3>1, <3>2, <3>3 DEF Hypotheses, SetupInv, StreamFacts
    <3>4. CASE s = Len(rec) + 1
      BY <1>m, <1>s, <3>2, <3>4
    <3>5. QED
      BY <2>2, <3>3, <3>4 DEF StreamFacts
  <2>11. FreshWindow' /\ NoSelfInflictedReload'
    BY <2>6 DEF FreshWindow, NoSelfInflictedReload
  <2>12. QED
    BY <2>5, <2>7, <2>8, <2>9, <2>10, <2>11 DEF WindowInv, EarlierInv
<1>4. CASE WaitStart
  <2>1. rec' = rec /\ round' = round
    BY <1>4 DEF WaitStart
  <2>2. Same
    BY <2>1, <1>t, SameStream
  <2>3. WindowInv'
    BY <1>h, <1>t, <1>4, <2>1, <2>2 DEF WaitStart, Same, Hypotheses, WindowInv, TagInv,
       FreshInv, OffsetInv, DenialInv, TraceInv, SliceInv, AnswerInv, ChannelInv, InRange,
       BeforeEnd, Evidence, Numbers
  <2>4. EarlierInv'
    BY <1>h, <1>t, <1>4, <2>1, <2>2 DEF WaitStart, Same, Hypotheses, EarlierInv, SettledInv,
       ReadInv, SetupInv, FreshWindow, NoSelfInflictedReload, StartWritten, EarlierDenial,
       Setup, Settled, FreshInv, OffsetInv, ChannelInv, Numbers
  <2>5. QED
    BY <2>3, <2>4
<1>5. CASE StatPre
  <2>1. rec' = rec /\ round' = round
    BY <1>5 DEF StatPre
  <2>2. Same
    BY <2>1, <1>t, SameStream
  <2>3. TagInv' /\ FreshInv' /\ DenialInv' /\ TraceInv' /\ SliceInv' /\ AnswerInv'
    BY <1>h, <1>t, <1>5, <2>1, <2>2 DEF StatPre, Same, Hypotheses, TagInv, FreshInv,
       DenialInv, TraceInv, SliceInv, AnswerInv, InRange, BeforeEnd, Evidence, Numbers
  <2>4. OffsetInv'
    <3>1. CASE pc' = "idle"
      BY <3>1 DEF OffsetInv
    <3>2. CASE offset' = Size /\ startInode' = inode /\ startPos' = flushed /\ pc' = "statusPre"
      <4>1. base' = base /\ flushed' = flushed /\ inode' = inode
        BY <1>5 DEF StatPre
      <4>2. startPos' <= flushed' /\ startInode' <= inode' /\ base' + offset' = startPos'
        BY <1>t, <3>2, <4>1 DEF Size, Numbers
      <4>3. QED
        BY <4>2 DEF OffsetInv
    <3>3. QED
      BY <1>5, <3>1, <3>2 DEF StatPre
  <2>5. SettledInv'
    BY <1>h, <1>t, <1>5, <2>1, <2>2 DEF StatPre, Same, Hypotheses, SettledInv,
       EarlierDenial, Settled, FreshInv
  <2>6. ReadInv'
    <3>1. startPos' <= Len(rec')
      BY <1>h, <1>t, <1>5, <2>1 DEF StatPre, Hypotheses, ReadInv, ChannelInv, Numbers
    <3>2. CASE pc' = "idle"
      BY <3>1, <3>2 DEF ReadInv, Offset, Running, Quiet, Awaiting, Reading
    <3>3. CASE offset' = Size /\ startPos' = flushed /\ pc' = "statusPre"
      <4>1. startPos' <= base' + offset'
        BY <1>t, <1>5, <3>3 DEF StatPre, Size, Numbers
      <4>2. QED
        BY <3>1, <3>3, <4>1 DEF ReadInv, Reading
    <3>4. QED
      BY <1>5, <3>2, <3>3 DEF StatPre
  <2>7. SetupInv'
    BY <1>h, <1>5, <2>1, <2>2 DEF StatPre, Same, Hypotheses, SetupInv, EarlierDenial, Setup
  <2>8. FreshWindow' /\ NoSelfInflictedReload'
    BY <1>h, <1>5 DEF StatPre, Hypotheses, FreshWindow, NoSelfInflictedReload, FreshInv
  <2>9. QED
    BY <2>3, <2>4, <2>5, <2>6, <2>7, <2>8 DEF WindowInv, EarlierInv
<1>6. CASE StatusPre
  <2>1. rec' = rec /\ round' = round
    BY <1>6 DEF StatusPre
  <2>2. Same
    BY <2>1, <1>t, SameStream
  <2>3. WindowInv'
    BY <1>h, <1>t, <1>6, <2>1, <2>2 DEF StatusPre, Same, Hypotheses, WindowInv, TagInv,
       FreshInv, OffsetInv, DenialInv, TraceInv, SliceInv, AnswerInv, ChannelInv, InRange,
       BeforeEnd, Evidence, Numbers
  <2>4. EarlierInv'
    BY <1>h, <1>t, <1>6, <2>1, <2>2 DEF StatusPre, Same, Hypotheses, EarlierInv, SettledInv,
       ReadInv, SetupInv, FreshWindow, NoSelfInflictedReload, StartWritten, EarlierDenial,
       Setup, Settled, FreshInv, OffsetInv, ChannelInv, Numbers
  <2>5. QED
    BY <2>3, <2>4
<1>7. CASE Restart
  <2>1. rec' = rec /\ round' = round
    BY <1>7 DEF Restart
  <2>2. Same
    BY <2>1, <1>t, SameStream
  <2>3. WindowInv'
    BY <1>h, <1>t, <1>7, <2>1, <2>2 DEF Restart, Same, Hypotheses, WindowInv, TagInv,
       FreshInv, OffsetInv, DenialInv, TraceInv, SliceInv, AnswerInv, ChannelInv, InRange,
       BeforeEnd, Evidence, Numbers
  <2>4. EarlierInv'
    BY <1>h, <1>t, <1>7, <2>1, <2>2 DEF Restart, Same, Hypotheses, EarlierInv, SettledInv,
       ReadInv, SetupInv, FreshWindow, NoSelfInflictedReload, StartWritten, EarlierDenial,
       Setup, Settled, FreshInv, OffsetInv, ChannelInv, Numbers
  <2>5. QED
    BY <2>3, <2>4
<1>8. CASE RestartAnswer
  <2>1. rec' = rec /\ round' = round
    BY <1>8 DEF RestartAnswer
  <2>2. Same
    BY <2>1, <1>t, SameStream
  <2>3. WindowInv'
    BY <1>h, <1>t, <1>8, <2>1, <2>2 DEF RestartAnswer, Same, Hypotheses, WindowInv, TagInv,
       FreshInv, OffsetInv, DenialInv, TraceInv, SliceInv, AnswerInv, ChannelInv, InRange,
       BeforeEnd, Evidence, Numbers
  <2>4. EarlierInv'
    BY <1>h, <1>t, <1>8, <2>1, <2>2 DEF RestartAnswer, Same, Hypotheses, EarlierInv,
       SettledInv, ReadInv, SetupInv, FreshWindow, NoSelfInflictedReload, StartWritten,
       EarlierDenial, Setup, Settled, FreshInv, OffsetInv, ChannelInv, Numbers
  <2>5. QED
    BY <2>3, <2>4
<1>9. CASE RunExercise
  <2>1. rec' = rec /\ round' = round
    BY <1>9 DEF RunExercise
  <2>2. Same
    BY <2>1, <1>t, SameStream
  <2>3. WindowInv'
    BY <1>h, <1>t, <1>9, <2>1, <2>2 DEF RunExercise, Same, Hypotheses, WindowInv, TagInv,
       FreshInv, OffsetInv, DenialInv, TraceInv, SliceInv, AnswerInv, ChannelInv, InRange,
       BeforeEnd, Evidence, Numbers
  <2>4. EarlierInv'
    BY <1>h, <1>t, <1>9, <2>1, <2>2 DEF RunExercise, Same, Hypotheses, EarlierInv,
       SettledInv, ReadInv, SetupInv, FreshWindow, NoSelfInflictedReload, StartWritten,
       EarlierDenial, Setup, Settled, FreshInv, OffsetInv, ChannelInv, Numbers
  <2>5. QED
    BY <2>3, <2>4
<1>10. CASE Recapture
  <2>1. rec' = rec /\ round' = round
    BY <1>10 DEF Recapture
  <2>2. Same
    BY <2>1, <1>t, SameStream
  <2>3. WindowInv'
    BY <1>h, <1>t, <1>10, <2>1, <2>2 DEF Recapture, Same, Hypotheses, WindowInv, TagInv,
       FreshInv, OffsetInv, DenialInv, TraceInv, SliceInv, AnswerInv, ChannelInv, InRange,
       BeforeEnd, Evidence, Numbers
  <2>4. EarlierInv'
    BY <1>h, <1>t, <1>10, <2>1, <2>2 DEF Recapture, Same, Hypotheses, EarlierInv,
       SettledInv, ReadInv, SetupInv, FreshWindow, NoSelfInflictedReload, StartWritten,
       EarlierDenial, Setup, Settled, FreshInv, OffsetInv, ChannelInv, Numbers
  <2>5. QED
    BY <2>3, <2>4
<1>11. CASE Stop
  <2>1. rec' = rec /\ round' = round
    BY <1>11 DEF Stop
  <2>2. Same
    BY <2>1, <1>t, SameStream
  <2>3. WindowInv'
    BY <1>h, <1>t, <1>11, <2>1, <2>2 DEF Stop, Same, Hypotheses, WindowInv, TagInv,
       FreshInv, OffsetInv, DenialInv, TraceInv, SliceInv, AnswerInv, ChannelInv, InRange,
       BeforeEnd, Evidence, Numbers
  <2>4. EarlierInv'
    BY <1>h, <1>t, <1>11, <2>1, <2>2 DEF Stop, Same, Hypotheses, EarlierInv, SettledInv,
       ReadInv, SetupInv, FreshWindow, NoSelfInflictedReload, StartWritten, EarlierDenial,
       Setup, Settled, FreshInv, OffsetInv, ChannelInv, Numbers
  <2>5. QED
    BY <2>3, <2>4
<1>12. CASE CheckStopped
  <2>1. rec' = rec /\ round' = round
    BY <1>12 DEF CheckStopped
  <2>2. Same
    BY <2>1, <1>t, SameStream
  <2>3. WindowInv'
    BY <1>h, <1>t, <1>12, <2>1, <2>2 DEF CheckStopped, Same, Hypotheses, WindowInv, TagInv,
       FreshInv, OffsetInv, DenialInv, TraceInv, SliceInv, AnswerInv, ChannelInv, InRange,
       BeforeEnd, Evidence, Numbers
  <2>4. EarlierInv'
    BY <1>h, <1>t, <1>12, <2>1, <2>2 DEF CheckStopped, Same, Hypotheses, EarlierInv,
       SettledInv, ReadInv, SetupInv, FreshWindow, NoSelfInflictedReload, StartWritten,
       EarlierDenial, Setup, Settled, FreshInv, OffsetInv, ChannelInv, Numbers
  <2>5. QED
    BY <2>3, <2>4
<1>13. CASE Drain
  <2>1. rec' = rec /\ round' = round
    BY <1>13 DEF Drain
  <2>2. Same
    BY <2>1, <1>t, SameStream
  <2>3. WindowInv'
    BY <1>h, <1>t, <1>13, <2>1, <2>2 DEF Drain, Same, Hypotheses, WindowInv, TagInv,
       FreshInv, OffsetInv, DenialInv, TraceInv, SliceInv, AnswerInv, ChannelInv, InRange,
       BeforeEnd, Evidence, Numbers
  <2>4. EarlierInv'
    BY <1>h, <1>t, <1>13, <2>1, <2>2 DEF Drain, Same, Hypotheses, EarlierInv, SettledInv,
       ReadInv, SetupInv, FreshWindow, NoSelfInflictedReload, StartWritten, EarlierDenial,
       Setup, Settled, FreshInv, OffsetInv, ChannelInv, Numbers
  <2>5. QED
    BY <2>3, <2>4
<1>14. CASE EmitEnd
  <2>1. /\ round' = round /\ Grown /\ AtMost(Record("end", round))
        /\ lost <= lost' /\ pc = "emitEnd" /\ round \in Nat
    <3>1. CASE UNCHANGED <<rec, lost>>
      BY <1>t, <1>14, <3>1 DEF EmitEnd, Grown, AtMost, Numbers
    <3>2. CASE Emit("end", round)
      BY <1>t, <1>14, <3>2, EmitEffect DEF EmitEnd, Emitted, Numbers, Kinds
    <3>3. QED
      BY <1>14, <3>1, <3>2 DEF EmitEnd
  <2>2. StreamFacts(Record("end", round))
    BY <1>t, <2>1, StreamStep DEF Numbers
  <2>3. /\ Record("end", round) # Record("avc", round) /\ Record("end", round).kind = "end"
        /\ Record("end", round).tag = round
    BY DEF Record
  <2>4. /\ OwnDenials' = OwnDenials /\ Sentinels = {}
        /\ Sentinels' \subseteq {Len(rec) + 1} /\ unit' = unit /\ unit = "stopped"
        /\ startPos \in Nat /\ startPos <= Len(rec) /\ Len(rec) \in Nat
        /\ outcome = "none" /\ round > 0
    BY <1>h, <1>t, <1>14, <2>1, <2>2, <2>3 DEF EmitEnd, StreamFacts, Hypotheses, FreshInv,
       ReadInv, Record, Numbers
  <2>5. TagInv'
    BY <1>m, <1>s, <2>1, <2>2, <2>3 DEF StreamFacts, TagInv
  <2>6. /\ (pc' = "waitEnd" /\ outcome' = "none") \/ (pc' = "idle" /\ outcome' = "failed")
        /\ UNCHANGED <<flushed, base, inode, offset, startInode, startPos, lost0,
                       truncated, failedBefore, unseen, swapped, unit>>
    BY <1>14, <2>4 DEF EmitEnd
  <2>7. ASSUME NEW i \in DOMAIN rec, InRange(i) PROVE InRange(i)'
    <3>1. i \in Nat /\ i < Len(rec) + 1
      BY <1>m
    <3>2. QED
      BY <2>4, <2>6, <2>7, <3>1 DEF InRange, BeforeEnd
  <2>8. FreshInv'
    BY <1>h, <2>1, <2>4, <2>6 DEF Hypotheses, FreshInv
  <2>9. OffsetInv'
    BY <1>h, <2>1, <2>6 DEF Hypotheses, OffsetInv
  <2>10. DenialInv'
    BY <1>h, <2>1, <2>2, <2>4, <2>6, <2>7 DEF Hypotheses, DenialInv, StreamFacts
  <2>11. TraceInv'
    <3>1. (Evidence("config") => Evidence("config")') /\ (Evidence("load") => Evidence("load")')
      BY <2>2, <2>7 DEF Evidence, StreamFacts
    <3>2. lost \in Nat /\ lost' \in Nat /\ lost0 \in Nat
      BY <1>t DEF Numbers
    <3>3. QED
      BY <1>h, <2>1, <2>6, <3>1, <3>2 DEF Hypotheses, TraceInv
  <2>12. SliceInv' /\ AnswerInv'
    BY <2>6 DEF SliceInv, AnswerInv
  <2>13. SettledInv' /\ ReadInv'
    <3>1. \A i \in DOMAIN rec' : EarlierDenial(i)' => i \in DOMAIN rec /\ EarlierDenial(i)
      BY <2>1, <2>2, <2>3 DEF StreamFacts, EarlierDenial
    <3>2. Settled' => Settled
      BY <2>1, <2>6 DEF Settled
    <3>3. SettledInv'
      BY <1>h, <2>1, <2>6, <3>1, <3>2 DEF Hypotheses, SettledInv, Settled
    <3>4. ReadInv'
      BY <1>h, <1>t, <2>1, <2>2, <2>4, <2>6 DEF Hypotheses, ReadInv, StreamFacts, Numbers
    <3>5. QED
      BY <3>3, <3>4
  <2>14. SetupInv'
    <3>1. SUFFICES ASSUME NEW s \in DOMAIN rec', rec'[s] = Record("start", round),
                          NEW i \in DOMAIN rec', Setup(i)'
                   PROVE  i < s
      BY <2>1 DEF SetupInv
    <3>2. i \in DOMAIN rec /\ Setup(i)
      BY <2>1, <2>2, <2>3, <3>1 DEF Setup, EarlierDenial, StreamFacts
    <3>3. CASE s \in DOMAIN rec
      BY <1>h, <2>2, <3>1, <3>2, <3>3 DEF Hypotheses, SetupInv, StreamFacts
    <3>4. CASE s = Len(rec) + 1
      BY <1>m, <1>s, <3>2, <3>4
    <3>5. QED
      BY <2>2, <3>3, <3>4 DEF StreamFacts
  <2>15. FreshWindow' /\ NoSelfInflictedReload'
    BY <2>6 DEF FreshWindow, NoSelfInflictedReload
  <2>16. QED
    BY <2>5, <2>8, <2>9, <2>10, <2>11, <2>12, <2>13, <2>14, <2>15 DEF WindowInv, EarlierInv
<1>15. CASE WaitEnd
  <2>1. rec' = rec /\ round' = round
    BY <1>15 DEF WaitEnd
  <2>2. Same
    BY <2>1, <1>t, SameStream
  <2>3. WindowInv'
    BY <1>h, <1>t, <1>15, <2>1, <2>2 DEF WaitEnd, Same, Hypotheses, WindowInv, TagInv,
       FreshInv, OffsetInv, DenialInv, TraceInv, SliceInv, AnswerInv, ChannelInv, InRange,
       BeforeEnd, Evidence, Numbers
  <2>4. ReadInv'
    <3>1. CASE pc' \in {"waitEnd", "idle"}
      BY <1>h, <1>15, <2>1, <3>1 DEF WaitEnd, Hypotheses, ReadInv
    <3>2. CASE pc' = "statPost" /\ \E i \in (base + 1)..flushed : rec[i] = Record("end", round)
      <4>1. PICK i \in (base + 1)..flushed : rec[i] = Record("end", round)
        BY <3>2
      <4>2. i \in DOMAIN rec /\ i <= flushed
        BY <1>m
      <4>3. i \in Sentinels
        BY <4>1, <4>2 DEF Sentinels
      <4>4. QED
        BY <1>h, <1>15, <2>1, <2>2, <3>2, <4>2, <4>3 DEF WaitEnd, Same, Hypotheses, ReadInv
    <3>3. QED
      BY <1>15, <3>1, <3>2 DEF WaitEnd
  <2>5. SettledInv' /\ SetupInv' /\ FreshWindow' /\ NoSelfInflictedReload'
    BY <1>h, <1>t, <1>15, <2>1, <2>2 DEF WaitEnd, Same, Hypotheses,
       SettledInv, SetupInv, FreshWindow, NoSelfInflictedReload, StartWritten,
       EarlierDenial, Setup, Settled, FreshInv, OffsetInv, ChannelInv, Numbers
  <2>6. QED
    BY <2>3, <2>4, <2>5 DEF EarlierInv
<1>16. CASE StatPost
  <2>1. rec' = rec /\ round' = round
    BY <1>16 DEF StatPost
  <2>2. Same
    BY <2>1, <1>t, SameStream
  <2>3. WindowInv'
    BY <1>h, <1>t, <1>16, <2>1, <2>2 DEF StatPost, Size, Same, Hypotheses, WindowInv,
       TagInv, FreshInv, OffsetInv, DenialInv, TraceInv, SliceInv, AnswerInv, ChannelInv,
       InRange, BeforeEnd, Evidence, Numbers
  <2>4. EarlierInv'
    BY <1>h, <1>t, <1>16, <2>1, <2>2 DEF StatPost, Size, Same, Hypotheses, EarlierInv,
       SettledInv, ReadInv, SetupInv, FreshWindow, NoSelfInflictedReload, StartWritten,
       EarlierDenial, Setup, Settled, FreshInv, OffsetInv, ChannelInv, Numbers
  <2>5. QED
    BY <2>3, <2>4
<1>17. CASE ReadSlice
  <2>1. rec' = rec /\ round' = round
    BY <1>17 DEF ReadSlice
  <2>2. Same
    BY <2>1, <1>t, SameStream
  <2>3. WindowInv'
    BY <1>h, <1>t, <1>17, <2>1, <2>2 DEF ReadSlice, Same, Hypotheses, WindowInv, TagInv,
       FreshInv, OffsetInv, DenialInv, TraceInv, SliceInv, AnswerInv, ChannelInv, InRange,
       BeforeEnd, Evidence, Numbers
  <2>4. EarlierInv'
    BY <1>h, <1>t, <1>17, <2>1, <2>2 DEF ReadSlice, Same, Hypotheses, EarlierInv,
       SettledInv, ReadInv, SetupInv, FreshWindow, NoSelfInflictedReload, StartWritten,
       EarlierDenial, Setup, Settled, FreshInv, OffsetInv, ChannelInv, Numbers
  <2>5. QED
    BY <2>3, <2>4
<1>18. CASE StatRead
  <2>1. rec' = rec /\ round' = round
    BY <1>18 DEF StatRead
  <2>2. Same
    BY <2>1, <1>t, SameStream
  <2>3. WindowInv'
    BY <1>h, <1>t, <1>18, <2>1, <2>2 DEF StatRead, Same, Hypotheses, WindowInv, TagInv,
       FreshInv, OffsetInv, DenialInv, TraceInv, SliceInv, AnswerInv, ChannelInv, InRange,
       BeforeEnd, Evidence, Numbers
  <2>4. EarlierInv'
    BY <1>h, <1>t, <1>18, <2>1, <2>2 DEF StatRead, Same, Hypotheses, EarlierInv, SettledInv,
       ReadInv, SetupInv, FreshWindow, NoSelfInflictedReload, StartWritten, EarlierDenial,
       Setup, Settled, FreshInv, OffsetInv, ChannelInv, Numbers
  <2>5. QED
    BY <2>3, <2>4
<1>19. CASE StatusPost
  <2>1. rec' = rec /\ round' = round
    BY <1>19 DEF StatusPost
  <2>2. Same
    BY <2>1, <1>t, SameStream
  <2>3. WindowInv'
    BY <1>h, <1>t, <1>19, <2>1, <2>2 DEF StatusPost, Same, Hypotheses, WindowInv, TagInv,
       FreshInv, OffsetInv, DenialInv, TraceInv, SliceInv, AnswerInv, ChannelInv, InRange,
       BeforeEnd, Evidence, Numbers
  <2>4. EarlierInv'
    BY <1>h, <1>t, <1>19, <2>1, <2>2 DEF StatusPost, Same, Hypotheses, EarlierInv,
       SettledInv, ReadInv, SetupInv, FreshWindow, NoSelfInflictedReload, StartWritten,
       EarlierDenial, Setup, Settled, FreshInv, OffsetInv, ChannelInv, Numbers
  <2>5. QED
    BY <2>3, <2>4
<1>20. CASE Parse
  <2>1. rec' = rec /\ round' = round
    BY <1>20 DEF Parse
  <2>2. Same
    BY <2>1, <1>t, SameStream
  <2>3. /\ pc = "parse" /\ pc' = "idle" /\ outcome' \in {"failed", "reloaded", "ok"}
        /\ UNCHANGED <<handed, flushed, base, inode, lost, enabled, unit, startPos,
                       truncated, unseen, swapped, failedBefore, window>>
    BY <1>20 DEF Parse
  <2>4. unit = "stopped" /\ round > 0 /\ startPos <= flushed /\ \E e \in Sentinels : e <= flushed
    BY <1>h, <2>3 DEF Hypotheses, FreshInv, OffsetInv, ReadInv
  <2>5. TagInv' /\ FreshInv' /\ OffsetInv' /\ DenialInv' /\ TraceInv' /\ SliceInv'
    BY <1>h, <2>1, <2>2, <2>3, <2>4 DEF Hypotheses, TagInv, FreshInv, OffsetInv,
       DenialInv, TraceInv, SliceInv
  <2>6. \A i \in window : i \in DOMAIN rec /\ i > startPos /\ rec[i].tag \in 0..round
                            /\ rec[i] \in Records
    BY <1>h, <1>m, <1>s, <2>3 DEF Hypotheses, ReadInv
  <2>7. (~truncated => \A i \in DOMAIN rec : InRange(i) => i \in window)
         /\ (unseen => Evidence("config"))
         /\ (swapped => Evidence("config") \/ Evidence("load"))
         /\ (\A i \in OwnDenials : InRange(i))
    BY <1>h, <2>3 DEF Hypotheses, SliceInv, TraceInv, DenialInv
  <2>8. AnswerInv'
    <3>1. SUFFICES ASSUME outcome' = "ok", ~truncated
                   PROVE  ~unseen /\ ~swapped /\ OwnDenials \subseteq result'
      BY <2>2, <2>3, <2>4 DEF AnswerInv, Same
    <3>2. /\ ~InWindow("config") /\ ~InWindow("load")
          /\ result' = {i \in window : Reported(rec[i])}
      BY <1>20, <3>1 DEF Parse
    <3>3. ~Evidence("config") /\ ~Evidence("load")
      BY <2>7, <3>1, <3>2 DEF Evidence, InWindow
    <3>4. ASSUME NEW i \in OwnDenials PROVE i \in result'
      <4>1. i \in DOMAIN rec /\ rec[i] = Record("avc", round) /\ i \in window
        BY <2>2, <2>7, <3>1, <3>4 DEF Same
      <4>2. rec[i].kind = "avc" /\ rec[i].tag # Foreign
        BY <2>4, <4>1 DEF Record, Foreign
      <4>3. QED
        BY <3>2, <4>1, <4>2 DEF Reported
    <3>5. QED
      BY <2>7, <3>3, <3>4
  <2>9. SettledInv'
    <3>1. CASE outcome' = "ok" /\ ~failedBefore
      <4>1. \A i \in DOMAIN rec : EarlierDenial(i) => i <= flushed
        <5>1. \A i \in DOMAIN rec : EarlierDenial(i) => i <= startPos
          BY <1>h, <2>3, <3>1 DEF Hypotheses, SettledInv
        <5>2. QED
          BY <1>m, <1>s, <2>4, <5>1
      <4>2. \A i \in OwnDenials : i <= flushed
        <5>1. PICK e \in Sentinels : e <= flushed
          BY <2>4
        <5>2. e \in Nat /\ \A i \in OwnDenials : i \in Nat /\ i < e
          BY <2>2, <2>7 DEF Same, InRange, BeforeEnd
        <5>3. QED
          BY <1>m, <5>1, <5>2
      <4>3. QED
        BY <2>1, <2>2, <2>3, <4>1, <4>2 DEF SettledInv, Settled, EarlierDenial, Same
    <3>2. CASE ~(outcome' = "ok" /\ ~failedBefore)
      <4>1. ~Settled' /\ pc' \notin Offset
        BY <2>3, <3>2 DEF Settled
      <4>2. QED
        BY <4>1 DEF SettledInv
    <3>3. QED
      BY <3>1, <3>2
  <2>10. ReadInv' /\ SetupInv'
    BY <1>h, <2>1, <2>3 DEF Hypotheses, ReadInv, SetupInv, Setup, EarlierDenial
  \* What was read is no setup of this round and no denial of an earlier one.
  <2>11. ASSUME NEW i \in window, StartWritten PROVE ~Setup(i)
    <3>1. PICK s \in 1..startPos : rec[s] = Record("start", round)
      BY <2>11 DEF StartWritten
    <3>2. s \in DOMAIN rec /\ s <= startPos /\ s \in Nat
      BY <1>m
    <3>3. Setup(i) => i < s
      BY <1>h, <2>6, <3>1, <3>2 DEF Hypotheses, SetupInv
    <3>4. i \in Nat /\ i > startPos /\ startPos \in Nat
      BY <1>t, <2>6 DEF Numbers
    <3>5. QED
      BY <3>2, <3>3, <3>4
  <2>12. ASSUME NEW i \in window, ~failedBefore PROVE ~EarlierDenial(i)
    <3>1. i \in DOMAIN rec /\ i \in Nat /\ i > startPos /\ startPos \in Nat
      BY <1>t, <2>6 DEF Numbers
    <3>2. EarlierDenial(i) => i <= startPos
      BY <1>h, <2>3, <2>12, <3>1 DEF Hypotheses, SettledInv
    <3>3. QED
      BY <3>1, <3>2
  <2>13. FreshWindow'
    <3>1. SUFFICES ASSUME outcome' = "ok", ~failedBefore \/ StartWritten, NEW i \in result'
                   PROVE  i \in OwnDenials \cup TargetDenials
      BY <2>1, <2>2, <2>3 DEF FreshWindow, StartWritten, Same
    <3>2. i \in window /\ Reported(rec[i])
      BY <1>20, <3>1 DEF Parse
    <3>3. CASE rec[i].kind = "target"
      BY <2>6, <3>2, <3>3 DEF TargetDenials
    <3>4. CASE rec[i].kind = "avc" /\ rec[i].tag # 0
      <4>1. ~EarlierDenial(i)
        BY <2>11, <2>12, <3>1, <3>2, <3>4 DEF Setup
      <4>2. rec[i].tag = round
        BY <1>m, <2>6, <3>2, <3>4, <4>1 DEF EarlierDenial
      <4>3. QED
        BY <2>6, <3>2, <3>4, <4>2 DEF OwnDenials, Record, Records
    <3>5. QED
      BY <3>2, <3>3, <3>4 DEF Reported, Foreign
  <2>14. NoSelfInflictedReload'
    <3>1. SUFFICES ASSUME outcome' = "reloaded", StartWritten
                   PROVE  \E i \in DOMAIN rec : i > startPos /\ rec[i] = Record("load", Foreign)
      BY <2>1, <2>3 DEF NoSelfInflictedReload, StartWritten
    <3>2. PICK i \in window : rec[i].kind = "load"
      BY <1>20, <3>1 DEF Parse, InWindow
    <3>3. ~Setup(i)
      BY <2>11, <3>1
    <3>4. rec[i].tag = 0
      BY <1>m, <2>6, <3>2, <3>3 DEF Setup
    <3>5. rec[i] = Record("load", Foreign)
      BY <2>6, <3>2, <3>4 DEF Record, Records, Foreign
    <3>6. QED
      BY <2>6, <3>5
  <2>15. QED
    BY <2>5, <2>8, <2>9, <2>10, <2>13, <2>14 DEF WindowInv, EarlierInv
<1>21. CASE UnitDenial
  <2>1. Emitted(Record("avc", round))
    BY <1>t, <1>21, EmitEffect DEF UnitDenial, Numbers, Kinds
  <2>2. Background(Record("avc", round))
    BY <1>21, <2>1 DEF Background, UnitDenial, ToolUnchanged
  <2>3. "avc" \in Kinds
    BY DEF Kinds
  <2>4. /\ TagInv' /\ OffsetInv' /\ DenialInv' /\ SliceInv'
      /\ SettledInv' /\ ReadInv' /\ SetupInv' /\ FreshWindow' /\ NoSelfInflictedReload'
      /\ (Evidence("config") => Evidence("config")')
      /\ (Evidence("load") => Evidence("load")')
      /\ (Sentinels = Sentinels' \/ pc \in {"waitEnd", "statPost"})
    BY <1>h, <1>t, <1>21, <2>2, <2>3, BackgroundStep DEF UnitDenial
  <2>5. FreshInv'
    BY <1>h, <1>t, <1>21, <2>4 DEF Hypotheses, FreshInv, UnitDenial, ToolUnchanged, Numbers
  <2>6. TraceInv'
    <3>1. /\ pc' = pc /\ lost0' = lost0 /\ enabled' = enabled /\ swapped' = swapped
          /\ unseen' = (unseen \/ rec' = rec)
          /\ lost \in Nat /\ lost0 \in Nat /\ lost' \in Nat /\ lost <= lost'
          /\ (enabled /\ rec' = rec => lost' = lost + 1)
      BY <1>t, <1>21, <2>1 DEF UnitDenial, ToolUnchanged, Emitted, Numbers
    <3>2. pc \in Offset \ {"statusPre", "parse"} => lost0 <= lost'
      BY <1>h, <3>1 DEF Hypotheses, TraceInv
    <3>3. pc \in {"restart"} \cup Running /\ ~enabled => lost' > lost0 \/ Evidence("config")'
      BY <1>h, <3>1, <2>4 DEF Hypotheses, TraceInv
    <3>4. ASSUME pc \in Running \cup Quiet, unseen'
          PROVE  (pc # "parse" /\ lost' > lost0) \/ Evidence("config")'
      <4>1. CASE unseen
        BY <1>h, <3>1, <3>4, <4>1, <2>4 DEF Hypotheses, TraceInv
      <4>2. CASE rec' = rec
        <5>1. pc \in Running
          BY <1>h, <1>21, <3>4 DEF UnitDenial, Hypotheses, FreshInv
        <5>2. CASE enabled
          <6>1. lost0 <= lost /\ pc # "parse"
            BY <1>h, <5>1 DEF Hypotheses, TraceInv
          <6>2. QED
            BY <3>1, <4>2, <5>2, <6>1
        <5>3. CASE ~enabled
          BY <3>3, <5>1, <5>3
        <5>4. QED
          BY <5>2, <5>3
      <4>3. QED
        BY <3>1, <3>4, <4>1, <4>2
    <3>5. ASSUME pc \in Running \cup Quiet, swapped'
          PROVE  (pc # "parse" /\ lost' > lost0) \/ Evidence("config")' \/ Evidence("load")'
      BY <1>h, <3>1, <3>5, <2>4 DEF Hypotheses, TraceInv
    <3>6. QED
      BY <3>1, <3>2, <3>3, <3>4, <3>5 DEF TraceInv
  <2>7. AnswerInv'
    BY <1>h, <1>t, <1>21, <2>4 DEF Hypotheses, AnswerInv, FreshInv, UnitDenial,
       ToolUnchanged, Numbers
  <2>8. QED
    BY <2>4, <2>5, <2>6, <2>7 DEF WindowInv, EarlierInv
<1>22. CASE TransitionRefused
  <2>1. Emitted(Record("refused", round))
    BY <1>t, <1>22, EmitEffect DEF TransitionRefused, Numbers, Kinds
  <2>2. Background(Record("refused", round))
    BY <1>22, <2>1 DEF Background, TransitionRefused, ToolUnchanged
  <2>3. "refused" \in Kinds
    BY DEF Kinds
  <2>4. /\ TagInv' /\ OffsetInv' /\ DenialInv' /\ SliceInv'
      /\ SettledInv' /\ ReadInv' /\ SetupInv' /\ FreshWindow' /\ NoSelfInflictedReload'
      /\ (Evidence("config") => Evidence("config")')
      /\ (Evidence("load") => Evidence("load")')
      /\ (Sentinels = Sentinels' \/ pc \in {"waitEnd", "statPost"})
      /\ OwnDenials = OwnDenials'
    BY <1>h, <1>t, <1>22, <2>2, <2>3, BackgroundStep DEF TransitionRefused
  <2>5. FreshInv'
    BY <1>h, <1>t, <1>22, <2>4 DEF Hypotheses, FreshInv, TransitionRefused, ToolUnchanged,
       Numbers
  <2>6. TraceInv'
    BY <1>h, <1>t, <1>22, <2>1, <2>4 DEF Hypotheses, TraceInv, TransitionRefused,
       ToolUnchanged, Emitted, Numbers
  <2>7. AnswerInv'
    BY <1>h, <1>t, <1>22, <2>4 DEF Hypotheses, AnswerInv, FreshInv, TransitionRefused,
       ToolUnchanged, Numbers
  <2>8. QED
    BY <2>4, <2>5, <2>6, <2>7 DEF WindowInv, EarlierInv
<1>23. CASE ForeignRecord
  <2>1. ASSUME NEW k \in {"avc", "target"}, Emit(k, Foreign)
        PROVE  WindowInv' /\ EarlierInv'
    <3>1. Emitted(Record(k, Foreign))
      BY <1>t, <1>23, <2>1, EmitEffect DEF ForeignRecord, Numbers, Kinds, Foreign
    <3>2. Background(Record(k, Foreign))
      BY <1>23, <3>1 DEF Background, ForeignRecord, ToolUnchanged
    <3>3. k \in Kinds
      BY DEF Kinds
    <3>4. /\ TagInv' /\ OffsetInv' /\ DenialInv' /\ SliceInv'
        /\ SettledInv' /\ ReadInv' /\ SetupInv' /\ FreshWindow' /\ NoSelfInflictedReload'
        /\ (Evidence("config") => Evidence("config")')
        /\ (Evidence("load") => Evidence("load")')
        /\ (Sentinels = Sentinels' \/ pc \in {"waitEnd", "statPost"})
        /\ (round > 0 => OwnDenials = OwnDenials')
      BY <1>h, <1>t, <1>23, <2>1, <3>2, <3>3, BackgroundStep DEF ForeignRecord
    <3>5. FreshInv'
      BY <1>h, <1>t, <1>23, <2>1, <3>4 DEF Hypotheses, FreshInv, ForeignRecord,
         ToolUnchanged, Numbers
    <3>6. TraceInv'
      BY <1>h, <1>t, <1>23, <2>1, <3>1, <3>4 DEF Hypotheses, TraceInv, ForeignRecord,
         ToolUnchanged, Emitted, Numbers
    <3>7. AnswerInv'
      BY <1>h, <1>t, <1>23, <2>1, <3>4 DEF Hypotheses, AnswerInv, FreshInv, ForeignRecord,
         ToolUnchanged, Numbers
    <3>8. QED
      BY <3>4, <3>5, <3>6, <3>7 DEF WindowInv, EarlierInv
  <2>2. CASE pc \in {"waitEnd", "statPost"} /\ Emit("end", round)
    <3>1. Emitted(Record("end", round))
      BY <1>t, <1>23, <2>2, EmitEffect DEF ForeignRecord, Numbers, Kinds
    <3>2. Background(Record("end", round))
      BY <1>23, <3>1 DEF Background, ForeignRecord, ToolUnchanged
    <3>3. "end" \in Kinds
      BY DEF Kinds
    <3>4. /\ TagInv' /\ OffsetInv' /\ DenialInv' /\ SliceInv'
        /\ SettledInv' /\ ReadInv' /\ SetupInv' /\ FreshWindow' /\ NoSelfInflictedReload'
        /\ (Evidence("config") => Evidence("config")')
        /\ (Evidence("load") => Evidence("load")')
        /\ (Sentinels = Sentinels' \/ pc \in {"waitEnd", "statPost"})
        /\ OwnDenials = OwnDenials'
      BY <1>h, <1>t, <1>23, <2>2, <3>2, <3>3, BackgroundStep DEF ForeignRecord
    <3>5. FreshInv'
      BY <1>h, <1>t, <1>23, <2>2, <3>4 DEF Hypotheses, FreshInv, ForeignRecord,
         ToolUnchanged, Numbers
    <3>6. TraceInv'
      BY <1>h, <1>t, <1>23, <2>2, <3>1, <3>4 DEF Hypotheses, TraceInv, ForeignRecord,
         ToolUnchanged, Emitted, Numbers
    <3>7. AnswerInv'
      BY <1>h, <1>t, <1>23, <2>2, <3>4 DEF Hypotheses, AnswerInv, FreshInv, ForeignRecord,
         ToolUnchanged, Numbers
    <3>8. QED
      BY <3>4, <3>5, <3>6, <3>7 DEF WindowInv, EarlierInv
  <2>3. QED
    BY <1>23, <2>1, <2>2 DEF ForeignRecord
<1>24. CASE ForeignLoad
  <2>1. Emitted(Record("load", Foreign))
    BY <1>t, <1>24, EmitEffect DEF ForeignLoad, Numbers, Kinds, Foreign
  <2>2. Background(Record("load", Foreign))
    BY <1>24, <2>1 DEF Background, ForeignLoad, ToolUnchanged
  <2>3. "load" \in Kinds
    BY DEF Kinds
  <2>4. /\ TagInv' /\ OffsetInv' /\ DenialInv' /\ SliceInv'
      /\ SettledInv' /\ ReadInv' /\ SetupInv' /\ FreshWindow' /\ NoSelfInflictedReload'
      /\ (Evidence("config") => Evidence("config")')
      /\ (Evidence("load") => Evidence("load")')
      /\ (pc \in {"restart"} \cup Running /\ rec' # rec => Evidence("load")')
      /\ (Sentinels = Sentinels' \/ pc \in {"waitEnd", "statPost"})
      /\ OwnDenials = OwnDenials'
    BY <1>h, <1>t, <1>24, <2>2, <2>3, BackgroundStep DEF ForeignLoad
  <2>5. FreshInv'
    BY <1>h, <1>t, <1>24, <2>4 DEF Hypotheses, FreshInv, ForeignLoad, ToolUnchanged, Numbers
  <2>6. TraceInv'
    <3>1. /\ pc' = pc /\ lost0' = lost0 /\ enabled' = enabled /\ unseen' = unseen
          /\ swapped' = (swapped \/ unit = "running")
          /\ lost \in Nat /\ lost0 \in Nat /\ lost' \in Nat /\ lost <= lost'
          /\ (enabled /\ rec' = rec => lost' = lost + 1)
      BY <1>t, <1>24, <2>1 DEF ForeignLoad, ToolUnchanged, Emitted, Numbers
    <3>2. pc \in Offset \ {"statusPre", "parse"} => lost0 <= lost'
      BY <1>h, <3>1 DEF Hypotheses, TraceInv
    <3>3. pc \in {"restart"} \cup Running /\ ~enabled => lost' > lost0 \/ Evidence("config")'
      BY <1>h, <3>1, <2>4 DEF Hypotheses, TraceInv
    <3>4. ASSUME pc \in Running \cup Quiet, unseen'
          PROVE  (pc # "parse" /\ lost' > lost0) \/ Evidence("config")'
      BY <1>h, <3>1, <3>4, <2>4 DEF Hypotheses, TraceInv
    <3>5. ASSUME pc \in Running \cup Quiet, swapped'
          PROVE  (pc # "parse" /\ lost' > lost0) \/ Evidence("config")' \/ Evidence("load")'
      <4>1. CASE swapped
        BY <1>h, <3>1, <3>5, <4>1, <2>4 DEF Hypotheses, TraceInv
      <4>2. CASE unit = "running"
        <5>1. pc \in Running
          BY <1>h, <3>5, <4>2 DEF Hypotheses, FreshInv
        <5>2. CASE rec' # rec
          BY <5>1, <5>2, <2>4
        <5>3. CASE enabled /\ rec' = rec
          <6>1. lost0 <= lost /\ pc # "parse"
            BY <1>h, <5>1 DEF Hypotheses, TraceInv
          <6>2. QED
            BY <3>1, <5>3, <6>1
        <5>4. CASE ~enabled
          BY <3>3, <5>1, <5>4
        <5>5. QED
          BY <5>2, <5>3, <5>4
      <4>3. QED
        BY <3>1, <3>5, <4>1, <4>2
    <3>6. QED
      BY <3>1, <3>2, <3>3, <3>4, <3>5 DEF TraceInv
  <2>7. AnswerInv'
    BY <1>h, <1>t, <1>24, <2>4 DEF Hypotheses, AnswerInv, FreshInv, ForeignLoad,
       ToolUnchanged, Numbers
  <2>8. QED
    BY <2>4, <2>5, <2>6, <2>7 DEF WindowInv, EarlierInv
<1>25. CASE ToggleAudit
  <2>1. Emitted(Record("config", Foreign))
    BY <1>t, <1>25, ToggleEffect DEF ToggleAudit, Numbers, Kinds, Foreign
  <2>2. Background(Record("config", Foreign))
    BY <1>25, <2>1 DEF Background, ToggleAudit, ToolUnchanged
  <2>3. "config" \in Kinds
    BY DEF Kinds
  <2>4. /\ TagInv' /\ OffsetInv' /\ DenialInv' /\ SliceInv'
      /\ SettledInv' /\ ReadInv' /\ SetupInv' /\ FreshWindow' /\ NoSelfInflictedReload'
      /\ (Evidence("config") => Evidence("config")')
      /\ (Evidence("load") => Evidence("load")')
      /\ (pc \in {"restart"} \cup Running /\ rec' # rec => Evidence("config")')
      /\ (Sentinels = Sentinels' \/ pc \in {"waitEnd", "statPost"})
      /\ OwnDenials = OwnDenials'
    BY <1>h, <1>t, <1>25, <2>2, <2>3, BackgroundStep DEF ToggleAudit
  <2>5. FreshInv'
    BY <1>h, <1>t, <1>25, <2>4 DEF Hypotheses, FreshInv, ToggleAudit, ToolUnchanged, Numbers
  <2>6. TraceInv'
    BY <1>h, <1>t, <1>25, <2>1, <2>4 DEF Hypotheses, TraceInv, ToggleAudit, ToolUnchanged,
       Emitted, Numbers
  <2>7. AnswerInv'
    BY <1>h, <1>t, <1>25, <2>4 DEF Hypotheses, AnswerInv, FreshInv, ToggleAudit,
       ToolUnchanged, Numbers
  <2>8. QED
    BY <2>4, <2>5, <2>6, <2>7 DEF WindowInv, EarlierInv
<1>26. CASE HandOver
  <2>1. rec' = rec /\ round' = round
    BY <1>26 DEF HandOver, ToolUnchanged
  <2>2. Same
    BY <2>1, <1>t, SameStream
  <2>3. WindowInv'
    BY <1>h, <1>t, <1>26, <2>1, <2>2 DEF HandOver, ToolUnchanged, Same, Hypotheses,
       WindowInv, TagInv, FreshInv, OffsetInv, DenialInv, TraceInv, SliceInv, AnswerInv,
       ChannelInv, InRange, BeforeEnd, Evidence, Numbers
  <2>4. EarlierInv'
    BY <1>h, <1>t, <1>26, <2>1, <2>2 DEF HandOver, ToolUnchanged, Same, Hypotheses,
       EarlierInv, SettledInv, ReadInv, SetupInv, FreshWindow, NoSelfInflictedReload,
       StartWritten, EarlierDenial, Setup, Settled, FreshInv, OffsetInv, ChannelInv, Numbers
  <2>5. QED
    BY <2>3, <2>4
<1>27. CASE Flush
  <2>1. rec' = rec /\ round' = round
    BY <1>27 DEF Flush, ToolUnchanged
  <2>2. Same
    BY <2>1, <1>t, SameStream
  <2>3. WindowInv'
    BY <1>h, <1>t, <1>27, <2>1, <2>2 DEF Flush, ToolUnchanged, Same, Hypotheses, WindowInv,
       TagInv, FreshInv, OffsetInv, DenialInv, TraceInv, SliceInv, AnswerInv, ChannelInv,
       InRange, BeforeEnd, Evidence, Numbers
  <2>4. EarlierInv'
    BY <1>h, <1>t, <1>27, <2>1, <2>2 DEF Flush, ToolUnchanged, Same, Hypotheses, EarlierInv,
       SettledInv, ReadInv, SetupInv, FreshWindow, NoSelfInflictedReload, StartWritten,
       EarlierDenial, Setup, Settled, FreshInv, OffsetInv, ChannelInv, Numbers
  <2>5. QED
    BY <2>3, <2>4
<1>28. CASE Rotate
  <2>1. rec' = rec /\ round' = round
    BY <1>28 DEF Rotate, ToolUnchanged
  <2>2. Same
    BY <2>1, <1>t, SameStream
  <2>3. WindowInv'
    BY <1>h, <1>t, <1>28, <2>1, <2>2 DEF Rotate, ToolUnchanged, Disrupt, Same, Hypotheses,
       WindowInv, TagInv, FreshInv, OffsetInv, DenialInv, TraceInv, SliceInv, AnswerInv,
       ChannelInv, InRange, BeforeEnd, Evidence, Numbers
  <2>4. EarlierInv'
    BY <1>h, <1>t, <1>28, <2>1, <2>2 DEF Rotate, ToolUnchanged, Disrupt, Same, Hypotheses,
       EarlierInv, SettledInv, ReadInv, SetupInv, FreshWindow, NoSelfInflictedReload,
       StartWritten, EarlierDenial, Setup, Settled, FreshInv, OffsetInv, ChannelInv, Numbers
  <2>5. QED
    BY <2>3, <2>4
<1>29. CASE Truncate
  <2>1. rec' = rec /\ round' = round
    BY <1>29 DEF Truncate, ToolUnchanged
  <2>2. Same
    BY <2>1, <1>t, SameStream
  <2>3. WindowInv'
    BY <1>h, <1>t, <1>29, <2>1, <2>2 DEF Truncate, ToolUnchanged, Disrupt, Same, Hypotheses,
       WindowInv, TagInv, FreshInv, OffsetInv, DenialInv, TraceInv, SliceInv, AnswerInv,
       ChannelInv, InRange, BeforeEnd, Evidence, Numbers
  <2>4. EarlierInv'
    BY <1>h, <1>t, <1>29, <2>1, <2>2 DEF Truncate, ToolUnchanged, Disrupt, Same, Hypotheses,
       EarlierInv, SettledInv, ReadInv, SetupInv, FreshWindow, NoSelfInflictedReload,
       StartWritten, EarlierDenial, Setup, Settled, FreshInv, OffsetInv, ChannelInv, Numbers
  <2>5. QED
    BY <2>3, <2>4
<1>30. CASE CleanupUnit
  <2>1. rec' = rec /\ round' = round
    BY <1>30 DEF CleanupUnit, ToolUnchanged, channelVars
  <2>2. Same
    BY <2>1, <1>t, SameStream
  <2>3. WindowInv'
    BY <1>h, <1>t, <1>30, <2>1, <2>2 DEF CleanupUnit, channelVars, ToolUnchanged, Same,
       Hypotheses, WindowInv, TagInv, FreshInv, OffsetInv, DenialInv, TraceInv, SliceInv,
       AnswerInv, ChannelInv, InRange, BeforeEnd, Evidence, Numbers
  <2>4. EarlierInv'
    BY <1>h, <1>t, <1>30, <2>1, <2>2 DEF CleanupUnit, channelVars, ToolUnchanged, Same,
       Hypotheses, EarlierInv, SettledInv, ReadInv, SetupInv, FreshWindow,
       NoSelfInflictedReload, StartWritten, EarlierDenial, Setup, Settled, FreshInv, OffsetInv,
       ChannelInv, Numbers
  <2>5. QED
    BY <2>3, <2>4
<1>31. CASE UNCHANGED vars
  BY <1>h, <1>31 DEF vars, channelVars, Hypotheses, WindowInv, TagInv, FreshInv, OffsetInv,
     DenialInv, TraceInv, SliceInv, AnswerInv, InRange, BeforeEnd, Evidence, EarlierInv,
     SettledInv, ReadInv, SetupInv, FreshWindow, NoSelfInflictedReload, StartWritten,
     EarlierDenial, Setup, Settled, OwnDenials, TargetDenials, Sentinels
<1>32. QED
  BY <1>1, <1>2, <1>3, <1>4, <1>5, <1>6, <1>7, <1>8, <1>9, <1>10, <1>11, <1>12, <1>13,
     <1>14, <1>15, <1>16, <1>17, <1>18, <1>19, <1>20, <1>21, <1>22, <1>23, <1>24, <1>25, <1>26,
     <1>27, <1>28, <1>29, <1>30, <1>31 DEF Next, Tool, Verifier

\* The invariant holds before the first round.
LEMMA InvInit == Init => IInv
<1> SUFFICES ASSUME Init PROVE IInv
  OBVIOUS
<1>1. TypeInv
  BY TypeInit
<1>2. DOMAIN rec = {} /\ Len(rec) = 0
  BY DEF Init
<1>3. OwnDenials = {} /\ Sentinels = {}
  BY <1>2 DEF OwnDenials, Sentinels
<1>4. pc = "idle" /\ outcome = "none" /\ unit = "stopped" /\ round = 0 /\ startPos = 0
  BY DEF Init
<1>5. WindowInv
  BY <1>2, <1>3, <1>4 DEF WindowInv, TagInv, FreshInv, OffsetInv, DenialInv, TraceInv,
     SliceInv, AnswerInv, BeforeRun, Running, Awaiting, Reading, Quiet, Offset
<1>6. EarlierInv
  BY <1>2, <1>3, <1>4 DEF EarlierInv, SettledInv, ReadInv, SetupInv, FreshWindow,
     NoSelfInflictedReload, Running, Awaiting, Reading, Quiet, Offset
<1>7. QED
  BY <1>1, <1>5, <1>6 DEF IInv

\* The inductive invariant holds in every reachable state.
LEMMA Invariance == Spec => []IInv
<1>1. Init => IInv
  BY InvInit
<1>2. IInv /\ [Next]_vars => IInv'
  BY TypeStep, InvStep DEF IInv
<1>3. QED
  BY <1>1, <1>2, PTL DEF Spec

-----------------------------------------------------------------------------
(* The theorems. *)

\* Every variable of exercise() and of the audit channel keeps its type, and a
\* written record was dequeued, a dequeued one queued.
THEOREM TypeCorrect == Spec => [](TypeOK /\ ChannelInv)
<1>1. IInv => TypeOK /\ ChannelInv
  BY DEF IInv, TypeInv
<1>2. QED
  BY <1>1, Invariance, PTL

\* exercise() never answers with a denial set that misses a denial of the unit:
\* no false zero-denial, whatever the channel loses, delays, rotates or suppresses.
THEOREM WindowIsComplete == Spec => []CompleteWindow
<1>1. IInv => CompleteWindow
  BY DEF IInv, WindowInv, AnswerInv, CompleteWindow
<1>2. QED
  BY <1>1, Invariance, PTL

\* exercise() never answers for a window in which the policy was reloaded while
\* the unit ran.
THEOREM PolicyIsSteady == Spec => []SteadyPolicy
<1>1. IInv => SteadyPolicy
  BY DEF IInv, WindowInv, AnswerInv, SteadyPolicy
<1>2. QED
  BY <1>1, Invariance, PTL

\* The denials exercise() returns are this round's, unless an earlier round was
\* abandoned and this one's start sentinel was not written in time.
THEOREM WindowIsFresh == Spec => []FreshWindow
<1>1. IInv => FreshWindow
  BY DEF IInv, EarlierInv
<1>2. QED
  BY <1>1, Invariance, PTL

\* Behind a written start sentinel, exercise() reports a reload only when somebody
\* else loaded a policy.
THEOREM NoFalseReload == Spec => []NoSelfInflictedReload
<1>1. IInv => NoSelfInflictedReload
  BY DEF IInv, EarlierInv
<1>2. QED
  BY <1>1, Invariance, PTL
=============================================================================
