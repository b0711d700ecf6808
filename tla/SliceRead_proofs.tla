-------------------------- MODULE SliceRead_proofs --------------------------
(***************************************************************************)
(* For every limit, pipe, set of events and shapes: what a read without an *)
(* error returned is all the window's events wrote, and what the parser    *)
(* makes of it guesses no path and lends no permission.                    *)
(***************************************************************************)
EXTENDS SliceRead, SequenceTheorems, FiniteSetTheorems, WellFoundedInduction, TLAPS

(* The records the events can write. *)
Records == {Record(e, i) : e \in Events, i \in Nat}

LogInv == shape \in [Events -> Shapes] /\ log \in Seq(Records)

(* Until Start nothing has happened; then the window is over and its size is known. *)
StartInv ==
  /\ runner = "idle" => /\ result = "none" /\ child = "none" /\ copier = "none"
                        /\ written = 0 /\ read = 0 /\ buf = 0 /\ ~over
  /\ runner # "idle" => Emitted /\ size = Len(log)
  /\ runner \in {"running", "waited"} => child # "none" /\ copier # "none" /\ result = "none"

(* What was kept is what was read, as long as nothing was refused. *)
CopyInv ==
  /\ buf <= Limit /\ read <= written /\ written <= size
  /\ over <=> copier = "failed"
  /\ ~over => buf = read
  /\ copier = "done" => read = written /\ child # "running"
  /\ child = "exited" => written = size
  /\ copier = "none" => child = "none"

(* cmd.Run is back only when the child is gone and all it wrote was taken. *)
ReturnInv ==
  /\ runner = "waited" => child # "running" /\ copier # "copying"
  /\ runner = "idle" => size = 0
  /\ result = "ok" => runner = "returned" /\ child = "exited" /\ copier = "done" /\ ~over

IInv == RunnerTypeOK /\ LogInv /\ StartInv /\ CopyInv /\ ReturnInv

-----------------------------------------------------------------------------
(* The reader *)

\* The program starts within the invariant.
LEMMA InitInv ==
  ASSUME Init
  PROVE  IInv
<1>1. log \in Seq(Records) /\ Len(log) = 0
  BY EmptySeq DEF Init
<1>2. 0 <= Limit
  BY LimitAssumption DEF LimitAssumption
<1>3. RunnerTypeOK
  BY DEF Init, RunnerInit, RunnerTypeOK
<1>4. LogInv /\ StartInv
  BY <1>1 DEF Init, RunnerInit, LogInv, StartInv
<1>5. CopyInv /\ ReturnInv
  BY <1>2 DEF Init, RunnerInit, CopyInv, ReturnInv
<1>. QED BY <1>3, <1>4, <1>5 DEF IInv

\* The records of an event in a log are finitely many, since the log is.
LEMMA LoggedIsNat ==
  ASSUME NEW S, NEW s \in Seq(S), NEW e
  PROVE  /\ IsFiniteSet({i \in DOMAIN s : s[i].event = e})
         /\ Logged(s, e) \in Nat
<1>1. Len(s) \in Nat /\ DOMAIN s = 1 .. Len(s)
  OBVIOUS
<1>2. IsFiniteSet(1 .. Len(s))
  BY <1>1, FS_Interval
<1>3. IsFiniteSet({i \in DOMAIN s : s[i].event = e})
  BY <1>1, <1>2, FS_Subset
<1>. QED BY <1>3, FS_CardinalityType DEF Logged

\* A record that the kernel writes leaves the reader alone.
LEMMA EmitKept ==
  ASSUME IInv, NEW e \in Events, Emit(e)
  PROVE  IInv'
<1>1. Record(e, Logged(log, e) + 1) \in Records
  <2>1. Logged(log, e) \in Nat
    BY LoggedIsNat DEF IInv, LogInv
  <2>. QED BY <2>1 DEF Records
<1>2. Records' = Records
  BY DEF Emit, Records, Record
<1>3. log' \in Seq(Records)
  BY <1>1, AppendProperties DEF Emit, IInv, LogInv
<1>4. LogInv'
  BY <1>2, <1>3 DEF Emit, IInv, LogInv
<1>5. runner = "idle" /\ UNCHANGED runnerVars
  BY DEF Emit
<1>. QED BY <1>4, <1>5 DEF IInv, RunnerTypeOK, StartInv, CopyInv, ReturnInv, runnerVars

\* Every step of the runner keeps the types of its variables.
LEMMA RunnerTyped ==
  ASSUME RunnerTypeOK, RunnerNext \/ \E n \in Nat : Start(n)
  PROVE  RunnerTypeOK'
<1>. USE LimitAssumption, PipeAssumption DEF LimitAssumption, PipeAssumption, RunnerTypeOK, childVars, writerVars, Killed
<1>1. ASSUME NEW n \in 1 .. PipeCap, Copy(n) PROVE RunnerTypeOK'
  <2>1. over' \in BOOLEAN
    BY <1>1 DEF Copy
  <2>2. read' \in Nat /\ buf' \in Nat
    BY <1>1 DEF Copy
  <2>3. copier' \in {copier, "failed"} /\ child' \in {child, "killed"}
    BY <1>1 DEF Copy
  <2>. QED BY <1>1, <2>1, <2>2, <2>3 DEF Copy
<1>2. ASSUME NEW n \in Nat, Start(n) PROVE RunnerTypeOK'
  BY <1>2 DEF Start
<1>3. CASE ChildWrite \/ ChildFork \/ ChildExit \/ LetGo
  <2>1. held' \in BOOLEAN
    BY <1>3 DEF ChildWrite, ChildFork, ChildExit, LetGo
  <2>2. written' \in Nat /\ child' \in {child, "failed", "exited"}
    BY <1>3 DEF ChildWrite, ChildFork, ChildExit, LetGo
  <2>. QED BY <1>3, <2>1, <2>2 DEF ChildWrite, ChildFork, ChildExit, LetGo
<1>4. CASE CopyEOF \/ Deadline \/ Wait
  BY <1>4 DEF CopyEOF, Deadline, Wait
<1>5. CASE Return
  BY <1>5 DEF Return, Outcome
<1>. QED BY <1>1, <1>2, <1>3, <1>4, <1>5 DEF RunnerNext

\* Every step of the runner keeps the invariant.
LEMMA TransportKept ==
  ASSUME IInv, Transport
  PROVE  IInv'
<1>. USE LimitAssumption, PipeAssumption DEF LimitAssumption, PipeAssumption, childVars, writerVars, Killed
<1>1. LogInv' /\ RunnerTypeOK'
  BY RunnerTyped DEF IInv, Transport, LogInv, Records, Record
<1>2. UNCHANGED <<log, shape>> /\ UNCHANGED Emitted
  BY DEF Transport, Emitted
<1>. USE <1>1, <1>2 DEF IInv, StartInv, CopyInv, ReturnInv, RunnerTypeOK
<1>3. ASSUME NEW n \in 1 .. PipeCap, Copy(n) PROVE StartInv' /\ CopyInv' /\ ReturnInv'
  <2>1. copier = "copying" /\ n <= written - read /\ read' = read + n /\ n \in Nat
        /\ UNCHANGED <<runner, result, size, written>>
    BY <1>3 DEF Copy
  <2>2. child' = child \/ (child = "running" /\ child' = "killed")
    BY <1>3 DEF Copy
  <2>3. CASE buf + n <= Limit
    <3>1. buf' = buf + n /\ (over' <=> over) /\ UNCHANGED <<copier, child>>
      BY <1>3, <2>3 DEF Copy
    <3>. QED BY <2>1, <2>3, <3>1
  <2>4. CASE ~(buf + n <= Limit)
    <3>1. buf' = Limit /\ over' /\ copier' = "failed"
      BY <1>3, <2>4 DEF Copy
    <3>. QED BY <2>1, <2>2, <3>1
  <2>. QED BY <2>3, <2>4
<1>4. CASE ChildWrite
  <2>1. /\ child = "running" /\ written < size /\ written' = written + 1
        /\ UNCHANGED <<runner, result, child, size, read, copier, buf, over>>
    BY <1>4 DEF ChildWrite
  <2>2. copier # "done" /\ runner # "idle"
    BY <2>1
  <2>. QED BY <2>1, <2>2
<1>5. CASE ChildFork \/ ChildExit \/ LetGo
  BY <1>5 DEF ChildFork, ChildExit, LetGo
<1>6. CASE CopyEOF \/ Deadline
  BY <1>6 DEF CopyEOF, Deadline
<1>7. CASE Wait
  BY <1>7 DEF Wait
<1>8. CASE Return
  BY <1>8 DEF Return, Outcome, RunError
<1>. QED BY <1>1, <1>3, <1>4, <1>5, <1>6, <1>7, <1>8 DEF Transport, RunnerNext

\* Every step keeps the invariant.
LEMMA InvKept ==
  ASSUME IInv, [Next]_vars
  PROVE  IInv'
<1>1. CASE ReadSlice
  <2>1. Len(log) \in Nat
    BY DEF IInv, LogInv
  <2>2. RunnerTypeOK' /\ LogInv'
    BY <1>1, <2>1, RunnerTyped DEF ReadSlice, IInv, LogInv, Records, Record
  <2>3. Emitted' /\ UNCHANGED log /\ Start(Len(log))
    BY <1>1 DEF ReadSlice, Emitted
  <2>4. /\ runner = "idle" /\ size' = Len(log) /\ UNCHANGED <<written, read, buf, over>>
        /\ \/ /\ runner' = "running" /\ child' = "running" /\ copier' = "copying" /\ UNCHANGED result
           \/ runner' = "returned" /\ result' = "failed" /\ UNCHANGED <<child, copier>>
    BY <2>3 DEF Start
  <2>5. StartInv'
    BY <2>3, <2>4 DEF IInv, StartInv
  <2>6. CopyInv'
    BY <2>1, <2>4 DEF IInv, StartInv, CopyInv, RunnerTypeOK
  <2>7. ReturnInv'
    BY <2>4 DEF IInv, StartInv, ReturnInv
  <2>. QED BY <2>2, <2>5, <2>6, <2>7 DEF IInv
<1>2. CASE UNCHANGED vars
  <2>1. LogInv' /\ UNCHANGED Emitted
    BY <1>2 DEF vars, IInv, LogInv, Records, Record, Emitted
  <2>2. RunnerTypeOK'
    BY <1>2 DEF vars, runnerVars, IInv, RunnerTypeOK
  <2>3. StartInv'
    BY <1>2, <2>1 DEF vars, runnerVars, IInv, StartInv
  <2>4. CopyInv' /\ ReturnInv'
    BY <1>2 DEF vars, runnerVars, IInv, CopyInv, ReturnInv
  <2>. QED BY <2>1, <2>2, <2>3, <2>4 DEF IInv
<1>. QED BY <1>1, <1>2, EmitKept, TransportKept DEF Next

-----------------------------------------------------------------------------
(* The parser *)

\* Some positions have a latest.
LEMMA LatestIsLast ==
  ASSUME NEW n \in Nat, NEW P \in SUBSET (1 .. n), P # {}
  PROVE  \E k \in P : \A j \in P : j <= k
<1>. DEFINE T == {n - i : i \in P}
<1>1. T \subseteq Nat /\ T # {}
  <2>1. ASSUME NEW i \in P PROVE n - i \in Nat
    OBVIOUS
  <2>. QED BY <2>1
<1>2. PICK x \in T : \A y \in T : ~(<<y, x>> \in OpToRel(<, Nat))
  BY <1>1, NatLessThanWellFounded, WFMin
<1>3. \A y \in T : ~(y < x)
  BY <1>1, <1>2 DEF OpToRel
<1>4. PICK k \in P : x = n - k
  OBVIOUS
<1>5. \A j \in P : j <= k
  BY <1>3, <1>4
<1>. QED BY <1>5

\* The latest of some positions is one of them.
LEMMA LatestIn ==
  ASSUME NEW n \in Nat, NEW P \in SUBSET (1 .. n), P # {}
  PROVE  Latest(P) \in P
BY LatestIsLast DEF Latest

\* Every denial of a log has its own path, none, or that of a record of its event.
LEMMA PathsNotGuessed ==
  ASSUME NEW S, NEW s \in Seq(S), NEW i \in Avcs(s)
  PROVE  \/ s[i].name # <<>>
         \/ PathOf(s, i) = <<>>
         \/ \E j \in Named(s, s[i].event) :
              /\ PathOf(s, i) = Resolve(s, s[i].event, s[j].name)
              /\ \/ s[i].ino # NoIno /\ s[j].ino = s[i].ino
                 \/ Named(s, s[i].event) = {j}
<1>. DEFINE exact == WithInode(s, s[i].event, s[i].ino)
            lone  == Named(s, s[i].event)
<1>1. lone \subseteq 1 .. Len(s) /\ exact \subseteq lone /\ Len(s) \in Nat
  BY DEF WithInode, Named, Of
<1>2. CASE s[i].name = <<>> /\ exact # {}
  <2>1. Latest(exact) \in exact
    BY <1>1, <1>2, LatestIn
  <2>2. PathOf(s, i) = Resolve(s, s[i].event, s[Latest(exact)].name)
    BY <1>2 DEF PathOf
  <2>. QED BY <2>1, <2>2 DEF WithInode
<1>3. CASE s[i].name = <<>> /\ exact = {} /\ \E j \in lone : lone = {j}
  <2>1. Latest(lone) \in lone
    BY <1>1, <1>3, LatestIn
  <2>2. PathOf(s, i) = Resolve(s, s[i].event, s[Latest(lone)].name)
    BY <1>3 DEF PathOf
  <2>3. lone = {Latest(lone)}
    BY <1>3, <2>1
  <2>. QED BY <2>1, <2>2, <2>3
<1>4. CASE s[i].name = <<>> /\ exact = {} /\ ~\E j \in lone : lone = {j}
  BY <1>4 DEF PathOf
<1>. QED BY <1>2, <1>3, <1>4

\* What a merged denial asks for was denied on its own path and inode.
LEMMA MergeKeepsFiles ==
  ASSUME NEW s, NEW d \in Denials(s), NEW p \in d.perms
  PROVE  \E i \in Avcs(s) : p \in s[i].perms /\ s[i].ino = d.ino /\ PathOf(s, i) = d.path
<1>. DEFINE D == {DenialAt(s, i) : i \in Avcs(s)}
<1>1. PICK c \in D : d = [c EXCEPT !.perms = UNION {e.perms : e \in {e \in D : SameFile(c, e)}}]
  BY DEF Denials, Merge
<1>2. PICK k \in Avcs(s) : c = [path |-> PathOf(s, k), ino |-> s[k].ino, perms |-> s[k].perms]
  BY DEF DenialAt
<1>3. /\ d.path = c.path /\ d.ino = c.ino
      /\ d.perms = UNION {e.perms : e \in {e \in D : SameFile(c, e)}}
  BY <1>1, <1>2
<1>4. PICK e \in D : SameFile(c, e) /\ p \in e.perms
  BY <1>3
<1>5. PICK i \in Avcs(s) : e = [path |-> PathOf(s, i), ino |-> s[i].ino, perms |-> s[i].perms]
  BY DEF DenialAt
<1>. QED BY <1>3, <1>4, <1>5 DEF SameFile

-----------------------------------------------------------------------------
(* The records of an event among those of others *)

Positions(s, e) == {i \in DOMAIN s : s[i].event = e}

(* Which of the records of its event a record is. *)
Place(s, i) == Cardinality({j \in 1 .. i : s[j].event = s[i].event})

(* The log has the records of every event in the order of its shape, each once, as far *)
(* as they are written.                                                                 *)
Ordered(e) ==
  /\ Logged(log, e) <= Len(shape[e])
  /\ \A i \in Positions(log, e) : Place(log, i) \in 1 .. Logged(log, e) /\ log[i] = Record(e, Place(log, i))
  /\ \A k \in 1 .. Logged(log, e) : \E i \in Positions(log, e) : Place(log, i) = k
  /\ \A i, j \in Positions(log, e) : i < j => Place(log, i) < Place(log, j)

OrderInv == \A e \in Events : Ordered(e)

\* An empty log has the records of every event in their order.
LEMMA InitOrder ==
  ASSUME Init
  PROVE  OrderInv
<1>1. \A e : Positions(log, e) = {}
  BY DEF Init, Positions
<1>2. \A e : Logged(log, e) = 0
  BY <1>1, FS_EmptySet DEF Logged, Positions
<1>3. \A e \in Events : Len(shape[e]) \in Nat
  BY ShapesAssumption DEF Init, ShapesAssumption
<1>. QED BY <1>1, <1>2, <1>3 DEF OrderInv, Ordered

\* The next record of an event comes behind those that are there.
LEMMA EmitOrder ==
  ASSUME IInv, OrderInv, NEW e \in Events, Emit(e)
  PROVE  OrderInv'
<1>. DEFINE n == Len(log)
            k == Logged(log, e) + 1
<1>1. n \in Nat /\ DOMAIN log = 1 .. n /\ log \in Seq(Records)
  BY DEF IInv, LogInv
<1>2. /\ Logged(log, e) < Len(shape[e]) /\ UNCHANGED shape
      /\ log' = Append(log, Record(e, k))
  BY DEF Emit
<1>4. /\ DOMAIN log' = 1 .. (n + 1) /\ log'[n + 1] = Record(e, k)
      /\ \A i \in 1 .. n : log'[i] = log[i]
  BY <1>1, <1>2
<1>5. Record(e, k).event = e
  BY DEF Record
<1>6. \A f : IsFiniteSet(Positions(log, f)) /\ Logged(log, f) = Cardinality(Positions(log, f))
             /\ Logged(log, f) \in Nat
  BY <1>1, LoggedIsNat DEF Logged, Positions
<1>. HIDE DEF n, k
<1>7. Positions(log', e) = Positions(log, e) \cup {n + 1} /\ n + 1 \notin Positions(log, e)
  BY <1>1, <1>4, <1>5 DEF Positions
<1>8. \A f : f # e => Positions(log', f) = Positions(log, f)
  BY <1>1, <1>4, <1>5 DEF Positions
<1>9. Logged(log', e) = k
  <2>1. Cardinality(Positions(log, e) \cup {n + 1}) = Cardinality(Positions(log, e)) + 1
    BY <1>6, <1>7, FS_AddElement
  <2>. QED BY <1>6, <1>7, <2>1 DEF Logged, Positions, k
<1>10. \A f : f # e => Logged(log', f) = Logged(log, f)
  BY <1>8 DEF Logged, Positions
<1>11. ASSUME NEW i \in 1 .. n
       PROVE  Place(log', i) = Place(log, i)
  <2>1. {j \in 1 .. i : log'[j].event = log'[i].event} = {j \in 1 .. i : log[j].event = log[i].event}
    BY <1>1, <1>4
  <2>. QED BY <2>1 DEF Place
<1>12. Place(log', n + 1) = k
  <2>1. {j \in 1 .. (n + 1) : log'[j].event = log'[n + 1].event} = Positions(log', e)
    BY <1>4, <1>5 DEF Positions
  <2>. QED BY <1>9, <2>1 DEF Place, Logged, Positions
<1>13. ASSUME NEW f \in Events, f # e
       PROVE  Ordered(f)'
  <2>1. \A i \in Positions(log, f) : i \in 1 .. n
    BY <1>1 DEF Positions
  <2>2. Positions(log', f) = Positions(log, f) /\ Logged(log', f) = Logged(log, f)
    BY <1>8, <1>10, <1>13
  <2>3. Ordered(f)
    BY DEF OrderInv
  <2>4. \A i \in Positions(log, f) : Place(log', i) = Place(log, i) /\ log'[i] = log[i]
    BY <1>4, <1>11, <2>1
  <2>5. \A i \in Positions(log', f) : /\ Place(log', i) \in 1 .. Logged(log', f)
                                      /\ log'[i] = Record(f, Place(log', i))
    BY <2>2, <2>3, <2>4 DEF Ordered
  <2>6. \A x \in 1 .. Logged(log', f) : \E i \in Positions(log', f) : Place(log', i) = x
    BY <2>2, <2>3, <2>4 DEF Ordered
  <2>7. \A i, j \in Positions(log', f) : i < j => Place(log', i) < Place(log', j)
    BY <2>2, <2>3, <2>4 DEF Ordered
  <2>8. Logged(log', f) <= Len(shape'[f])
    BY <1>2, <2>2, <2>3 DEF Ordered
  <2>. QED BY <1>2, <2>5, <2>6, <2>7, <2>8 DEF Ordered, Record
<1>14. Ordered(e)'
  <2>1. \A i \in Positions(log, e) : i \in 1 .. n
    BY <1>1 DEF Positions
  <2>2. k = Logged(log, e) + 1 /\ Logged(log, e) \in Nat
    BY <1>6 DEF k
  <2>3. Len(shape[e]) \in Nat
    BY ShapesAssumption DEF ShapesAssumption, IInv, LogInv
  <2>4. \A i \in Positions(log, e) : /\ Place(log', i) \in 1 .. Logged(log, e)
                                     /\ log'[i] = Record(e, Place(log', i))
    BY <1>4, <1>11, <2>1 DEF OrderInv, Ordered
  <2>5. Logged(log', e) <= Len(shape'[e])
    BY <1>2, <1>9, <2>2, <2>3
  <2>6. ASSUME NEW i \in Positions(log', e)
        PROVE  Place(log', i) \in 1 .. Logged(log', e) /\ log'[i] = Record(e, Place(log', i))
    BY <1>4, <1>7, <1>9, <1>12, <2>2, <2>4
  <2>7. ASSUME NEW x \in 1 .. Logged(log', e)
        PROVE  \E i \in Positions(log', e) : Place(log', i) = x
    <3>1. CASE x = k
      BY <1>7, <1>12, <3>1
    <3>2. CASE x # k
      <4>1. PICK i \in Positions(log, e) : Place(log, i) = x
        BY <1>9, <2>2, <3>2 DEF OrderInv, Ordered
      <4>. QED BY <1>7, <1>11, <2>1, <4>1
    <3>. QED BY <3>1, <3>2
  <2>8. ASSUME NEW i \in Positions(log', e), NEW j \in Positions(log', e), i < j
        PROVE  Place(log', i) < Place(log', j)
    <3>1. i \in Positions(log, e)
      BY <1>1, <1>7, <2>1, <2>8
    <3>2. CASE j \in Positions(log, e)
      BY <1>11, <2>1, <2>8, <3>1, <3>2 DEF OrderInv, Ordered
    <3>3. CASE j = n + 1
      BY <1>12, <2>2, <2>4, <3>1, <3>3
    <3>. QED BY <1>7, <3>2, <3>3
  <2>. QED BY <1>2, <2>5, <2>6, <2>7, <2>8 DEF Ordered, Record
<1>. QED BY <1>13, <1>14 DEF OrderInv, Ordered

\* Only the kernel writes the log.
LEMMA OrderKept ==
  ASSUME IInv, OrderInv, [Next]_vars
  PROVE  OrderInv'
<1>1. CASE ReadSlice \/ Transport \/ UNCHANGED vars
  <2>1. UNCHANGED <<log, shape>>
    BY <1>1 DEF ReadSlice, Transport, vars
  <2>2. \A e, i : /\ Logged(log, e)' = Logged(log, e) /\ Positions(log, e)' = Positions(log, e)
                  /\ Place(log, i)' = Place(log, i) /\ Record(e, i)' = Record(e, i)
    BY <2>1 DEF Logged, Positions, Place, Record
  <2>. QED BY <2>1, <2>2 DEF OrderInv, Ordered
<1>. QED BY <1>1, EmitOrder DEF Next

\* The log has the records of every event in their order, in every state.
LEMMA OrderInvariance == Spec => []OrderInv
<1>1. Spec => []IInv
  BY InitInv, InvKept, PTL DEF Spec
<1>. QED BY <1>1, InitOrder, OrderKept, PTL DEF Spec

-----------------------------------------------------------------------------
(* An event among others and alone *)

(* The records of e in s are those of t, in their order: g takes a position to its place. *)
View(s, t, e, g) ==
  /\ Len(s) \in Nat /\ DOMAIN s = 1 .. Len(s)
  /\ Len(t) \in Nat /\ DOMAIN t = 1 .. Len(t)
  /\ \A i \in Positions(s, e) : g[i] \in DOMAIN t /\ t[g[i]] = s[i]
  /\ \A k \in DOMAIN t : t[k].event = e /\ \E i \in Positions(s, e) : g[i] = k
  /\ \A i, j \in Positions(s, e) : i < j => g[i] < g[j]

(* Some of the records of e in s are, in t, those at Q. *)
Same(P, Q, s, t, e, g) ==
  /\ P \subseteq Positions(s, e) /\ Q \subseteq DOMAIN t
  /\ \A i \in Positions(s, e) : i \in P <=> g[i] \in Q

\* What is the latest of some records in the one is the latest in the other.
LEMMA SameLatest ==
  ASSUME NEW s, NEW t, NEW e, NEW g, View(s, t, e, g),
         NEW P, NEW Q, Same(P, Q, s, t, e, g)
  PROVE  /\ P = {} <=> Q = {}
         /\ P # {} => /\ Latest(P) \in P /\ Latest(Q) = g[Latest(P)]
                      /\ s[Latest(P)] = t[Latest(Q)]
         /\ (\E i \in P : P = {i}) <=> (\E k \in Q : Q = {k})
<1>. USE DEF View, Same
<1>1. P \in SUBSET (1 .. Len(s)) /\ Q \in SUBSET (1 .. Len(t))
  BY DEF Positions
<1>2. \A k \in Q : \E i \in P : g[i] = k
  OBVIOUS
<1>3. \A i \in P : g[i] \in Q
  OBVIOUS
<1>4. P = {} <=> Q = {}
  BY <1>2, <1>3
<1>5. ASSUME P # {}
      PROVE  Latest(P) \in P /\ Latest(Q) = g[Latest(P)] /\ s[Latest(P)] = t[Latest(Q)]
  <2>1. Latest(P) \in P /\ Latest(Q) \in Q
    BY <1>1, <1>4, <1>5, LatestIn
  <2>2. \A j \in P : j <= Latest(P)
    <3>1. \E x \in P : \A j \in P : j <= x
      BY <1>1, <1>5, LatestIsLast
    <3>. QED BY <3>1 DEF Latest
  <2>3. \A j \in Q : j <= Latest(Q)
    <3>1. \E x \in Q : \A j \in Q : j <= x
      BY <1>1, <1>4, <1>5, LatestIsLast
    <3>. QED BY <3>1 DEF Latest
  <2>4. PICK i \in P : g[i] = Latest(Q)
    BY <1>2, <2>1
  <2>5. i = Latest(P)
    <3>1. i <= Latest(P) /\ g[Latest(P)] <= g[i]
      BY <1>3, <2>1, <2>2, <2>3, <2>4
    <3>2. i < Latest(P) => g[i] < g[Latest(P)]
      BY <2>1
    <3>3. i \in Nat /\ Latest(P) \in Nat /\ g[i] \in Nat /\ g[Latest(P)] \in Nat
      <4>1. (\A x \in P : x \in Nat) /\ (\A x \in Q : x \in Nat)
        BY <1>1
      <4>. QED BY <1>3, <2>1, <4>1
    <3>. QED BY <3>1, <3>2, <3>3
  <2>. QED BY <2>1, <2>4, <2>5
<1>6. (\E i \in P : P = {i}) <=> (\E k \in Q : Q = {k})
  <2>1. \A i, j \in P : g[i] = g[j] => i = j
    <3>1. \A i \in P : i \in Nat /\ g[i] \in Nat
      BY <1>1, <1>3
    <3>2. \A i, j \in P : i < j \/ j < i \/ i = j
      BY <3>1
    <3>3. \A i, j \in P : i < j => g[i] < g[j]
      OBVIOUS
    <3>. QED BY <3>1, <3>2, <3>3
  <2>2. ASSUME NEW i \in P, P = {i} PROVE Q = {g[i]}
    BY <1>2, <1>3, <2>2
  <2>3. ASSUME NEW k \in Q, Q = {k} PROVE \E i \in P : P = {i}
    <3>1. PICK i \in P : g[i] = k
      BY <1>2
    <3>2. \A j \in P : g[j] = k
      BY <1>3, <2>3
    <3>3. P = {i}
      BY <2>1, <3>1, <3>2
    <3>. QED BY <3>3
  <2>. QED BY <1>3, <2>2, <2>3
<1>. QED BY <1>4, <1>5, <1>6

\* The parser finds the same path for a record among those of other events as alone.
LEMMA SamePath ==
  ASSUME NEW s, NEW t, NEW e, NEW g, View(s, t, e, g), NEW i \in Positions(s, e)
  PROVE  PathOf(s, i) = PathOf(t, g[i])
<1>1. s[i] = t[g[i]] /\ s[i].event = e /\ t[g[i]].event = e
  BY DEF View, Positions
<1>2. ASSUME NEW kind
      PROVE  Same(Of(s, e, kind), Of(t, e, kind), s, t, e, g)
  BY DEF View, Same, Of, Positions
<1>3. Same(Named(s, e), Named(t, e), s, t, e, g)
  BY <1>2 DEF View, Same, Named
<1>4. ASSUME NEW ino
      PROVE  Same(WithInode(s, e, ino), WithInode(t, e, ino), s, t, e, g)
  BY <1>3 DEF View, Same, WithInode
<1>5. ASSUME NEW name
      PROVE  Resolve(s, e, name) = Resolve(t, e, name)
  <2>. DEFINE P == Of(s, e, "CWD")
              Q == Of(t, e, "CWD")
  <2>1. Same(P, Q, s, t, e, g)
    BY <1>2
  <2>. HIDE DEF P, Q
  <2>2. P = {} <=> Q = {}
    BY <2>1, SameLatest
  <2>3. P # {} => s[Latest(P)] = t[Latest(Q)]
    BY <2>1, SameLatest
  <2>. QED BY <2>2, <2>3 DEF Resolve, P, Q
<1>. DEFINE ino == s[i].ino
            P == WithInode(s, e, ino)
            Q == WithInode(t, e, ino)
            L == Named(s, e)
            M == Named(t, e)
<1>6. /\ P = {} <=> Q = {}
      /\ P # {} => s[Latest(P)] = t[Latest(Q)]
  BY <1>4, SameLatest
<1>7. /\ L = {} <=> M = {}
      /\ L # {} => s[Latest(L)] = t[Latest(M)]
      /\ (\E j \in L : L = {j}) <=> (\E j \in M : M = {j})
  BY <1>3, SameLatest
<1>8. PathOf(s, i) = CASE s[i].name # <<>>            -> s[i].name
                       [] s[i].name = <<>> /\ P # {}  -> Resolve(s, e, s[Latest(P)].name)
                       [] s[i].name = <<>> /\ P = {} /\ \E j \in L : L = {j}
                                                      -> Resolve(s, e, s[Latest(L)].name)
                       [] OTHER                       -> <<>>
  BY <1>1 DEF PathOf
<1>9. PathOf(t, g[i]) = CASE s[i].name # <<>>            -> s[i].name
                          [] s[i].name = <<>> /\ Q # {}  -> Resolve(t, e, t[Latest(Q)].name)
                          [] s[i].name = <<>> /\ Q = {} /\ \E j \in M : M = {j}
                                                         -> Resolve(t, e, t[Latest(M)].name)
                          [] OTHER                       -> <<>>
  BY <1>1 DEF PathOf
<1>. HIDE DEF P, Q, L, M
<1>10. CASE s[i].name # <<>>
  BY <1>8, <1>9, <1>10
<1>11. CASE s[i].name = <<>> /\ P # {}
  BY <1>5, <1>6, <1>8, <1>9, <1>11
<1>12. CASE s[i].name = <<>> /\ P = {} /\ \E j \in L : L = {j}
  BY <1>5, <1>6, <1>7, <1>8, <1>9, <1>12
<1>13. CASE s[i].name = <<>> /\ P = {} /\ ~\E j \in L : L = {j}
  BY <1>6, <1>7, <1>8, <1>9, <1>13
<1>. QED BY <1>10, <1>11, <1>12, <1>13

\* The denials of a whole log are those of its events, each taken alone.
LEMMA EventsStandAlone ==
  ASSUME IInv, OrderInv, Emitted
  PROVE  {DenialAt(log, i) : i \in Avcs(log)} = UNION {DenialsOfEvent(e) : e \in Events}
<1>1. /\ log \in Seq(Records) /\ Len(log) \in Nat /\ DOMAIN log = 1 .. Len(log)
      /\ \A i \in DOMAIN log : log[i].event \in Events
  <2>1. log \in Seq(Records)
    BY DEF IInv, LogInv
  <2>2. \A i \in DOMAIN log : log[i] \in Records
    BY <2>1
  <2>. QED BY <2>1, <2>2 DEF Records, Record
<1>. DEFINE g(e) == [i \in Positions(log, e) |-> Place(log, i)]
<1>2. ASSUME NEW e \in Events
      PROVE  View(log, Alone(e), e, g(e))
  <2>1. Len(shape[e]) \in Nat /\ DOMAIN shape[e] = 1 .. Len(shape[e])
    BY ShapesAssumption DEF IInv, LogInv, ShapesAssumption
  <2>2. DOMAIN Alone(e) = 1 .. Len(shape[e]) /\ Len(Alone(e)) = Len(shape[e])
    BY <2>1 DEF Alone
  <2>3. Logged(log, e) = Len(shape[e])
    BY DEF Emitted
  <2>4. \A i \in Positions(log, e) : g(e)[i] \in DOMAIN Alone(e) /\ Alone(e)[g(e)[i]] = log[i]
    BY <2>1, <2>2, <2>3 DEF OrderInv, Ordered, Alone
  <2>5. \A k \in DOMAIN Alone(e) : Alone(e)[k].event = e /\ \E i \in Positions(log, e) : g(e)[i] = k
    <3>1. \A k \in DOMAIN Alone(e) : Alone(e)[k].event = e
      BY <2>1, <2>2 DEF Alone, Record
    <3>. QED BY <2>2, <2>3, <3>1 DEF OrderInv, Ordered
  <2>6. \A i, j \in Positions(log, e) : i < j => g(e)[i] < g(e)[j]
    BY DEF OrderInv, Ordered
  <2>. QED BY <1>1, <2>1, <2>2, <2>4, <2>5, <2>6 DEF View
<1>3. ASSUME NEW e \in Events, NEW i \in Positions(log, e)
      PROVE  DenialAt(log, i) = DenialAt(Alone(e), g(e)[i]) /\ log[i] = Alone(e)[g(e)[i]]
  <2>. HIDE DEF g
  <2>1. PathOf(log, i) = PathOf(Alone(e), g(e)[i])
    <3>1. View(log, Alone(e), e, g(e))
      BY <1>2
    <3>. QED BY <3>1, SamePath
  <2>2. log[i] = Alone(e)[g(e)[i]]
    BY <1>2 DEF View
  <2>. QED BY <2>1, <2>2 DEF DenialAt
<1>. HIDE DEF g
<1>4. ASSUME NEW i \in Avcs(log)
      PROVE  \E e \in Events : DenialAt(log, i) \in DenialsOfEvent(e)
  <2>. DEFINE e == log[i].event
  <2>1. e \in Events /\ i \in Positions(log, e)
    BY <1>1 DEF Avcs, Positions
  <2>2. g(e)[i] \in DOMAIN Alone(e) /\ Alone(e)[g(e)[i]].kind = "AVC"
    BY <1>2, <1>3, <2>1 DEF View, Avcs
  <2>3. g(e)[i] \in Avcs(Alone(e))
    BY <2>2 DEF Avcs
  <2>. QED BY <1>3, <2>1, <2>3 DEF DenialsOfEvent
<1>5. ASSUME NEW e \in Events, NEW d \in DenialsOfEvent(e)
      PROVE  \E i \in Avcs(log) : d = DenialAt(log, i)
  <2>1. PICK k \in Avcs(Alone(e)) : d = DenialAt(Alone(e), k)
    BY DEF DenialsOfEvent
  <2>2. PICK i \in Positions(log, e) : g(e)[i] = k
    BY <1>2, <2>1 DEF View, Avcs
  <2>3. i \in Avcs(log)
    BY <1>3, <2>1, <2>2 DEF Avcs, Positions
  <2>. QED BY <1>3, <2>1, <2>2, <2>3
<1>6. \A d : d \in {DenialAt(log, i) : i \in Avcs(log)} <=> d \in UNION {DenialsOfEvent(e) : e \in Events}
  BY <1>4, <1>5
<1>. QED BY <1>6

-----------------------------------------------------------------------------
(* The theorems. *)

\* The invariant holds in every state.
LEMMA Invariance == Spec => []IInv
BY InitInv, InvKept, PTL DEF Spec

\* Every variable of the reader and of the log keeps its type.
THEOREM TypeCorrect == Spec => []TypeOK
<1>1. ASSUME IInv PROVE TypeOK
  <2>1. \A i \in DOMAIN log : log[i] \in Records
    BY <1>1 DEF IInv, LogInv
  <2>. QED BY <1>1, <2>1 DEF IInv, LogInv, TypeOK, Records, Record
<1>. QED BY <1>1, Invariance, PTL

\* A read that returned no error returned the whole window: the limit, the deadline
\* and a child that dies never shorten it silently.
THEOREM ReadIsWhole == Spec => [](Parsed => Slice = log /\ Emitted)
<1>1. ASSUME IInv, Parsed PROVE Slice = log /\ Emitted
  <2>1. runner = "returned" /\ buf = Len(log) /\ log \in Seq(Records)
    BY <1>1 DEF IInv, Parsed, StartInv, CopyInv, ReturnInv, LogInv, RunnerTypeOK
  <2>2. SubSeq(log, 1, Len(log)) = log
    BY <2>1, SubSeqFull
  <2>. QED BY <1>1, <2>1, <2>2 DEF Slice, IInv, StartInv
<1>. QED BY <1>1, Invariance, PTL

\* The parser never guesses a path among several.
THEOREM GuessesNothing == Spec => []NeverGuessed
<1>1. ASSUME IInv PROVE NeverGuessed
  <2>1. ASSUME Parsed PROVE Slice \in Seq(Records)
    <3>1. runner = "returned" /\ buf = Len(log) /\ log \in Seq(Records)
      BY <1>1, <2>1 DEF IInv, Parsed, StartInv, CopyInv, ReturnInv, LogInv, RunnerTypeOK
    <3>. QED BY <3>1, SubSeqFull DEF Slice
  <2>. QED BY <2>1, PathsNotGuessed DEF NeverGuessed
<1>. QED BY <1>1, Invariance, PTL

\* What a successful read is parsed to is what the events say, each taken by itself:
\* however their records interleave no event lends another a path or loses a record.
THEOREM NothingIsLost == Spec => []DenialsComplete
<1>1. ASSUME IInv, OrderInv PROVE DenialsComplete
  <2>1. ASSUME Parsed PROVE Slice = log /\ Emitted
    <3>1. runner = "returned" /\ buf = Len(log) /\ log \in Seq(Records)
      BY <1>1, <2>1 DEF IInv, Parsed, StartInv, CopyInv, ReturnInv, LogInv, RunnerTypeOK
    <3>2. SubSeq(log, 1, Len(log)) = log
      BY <3>1, SubSeqFull
    <3>. QED BY <1>1, <3>1, <3>2 DEF Slice, IInv, StartInv
  <2>2. Emitted => {DenialAt(log, i) : i \in Avcs(log)} = UNION {DenialsOfEvent(e) : e \in Events}
    BY <1>1, EventsStandAlone
  <2>. QED BY <2>1, <2>2 DEF DenialsComplete, Denials
<1>. QED BY <1>1, Invariance, OrderInvariance, PTL

\* Merging never moves a permission from one file to another.
THEOREM PermissionsStay == Spec => []PermsStayWithFile
<1>1. PermsStayWithFile
  BY MergeKeepsFiles DEF PermsStayWithFile
<1>. QED BY <1>1, PTL
=============================================================================
