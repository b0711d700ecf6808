------------------------- MODULE Refinement_proofs --------------------------
(***************************************************************************)
(* For every manifest, base policy and number of rounds: no type of the    *)
(* app ends up writable and executable unless a reviewer is told, what     *)
(* refinement expects of a path is what the system gives it, a rule is     *)
(* only for what an object with the right label was denied, and no denial  *)
(* is lost.                                                                *)
(***************************************************************************)
EXTENDS Refinement, FileContexts_proofs

ToldOf(t, c) == \E f \in flags : f.type = t /\ f.class = c

(* The half that completes what the template grants does not come without a flag. *)
HalvesTold ==
  \A t \in Own(manifest) : \A c \in FileClasses :
    \/ t \in {"content", "exec"} /\ <<t, c, "write">> \in rules
    \/ t \in Writable /\ <<t, c, "execute">> \in rules
    => ToldOf(t, c)

(* Two halves that both come from denials are found by the scan at the end. *)
WholesTold ==
  pc = "done" =>
    \A t \in Own(manifest) : \A c \in FileClasses :
      <<t, c, "write">> \in rules /\ <<t, c, "execute">> \in rules => ToldOf(t, c)

(* There are no rules yet while the profile may still lose a claim. *)
NoRulesYet == pc = "collisions" => rules = {}

AreTriples == \A x \in rules : x = <<x[1], x[2], x[3]>>

Told == HalvesTold /\ WholesTold /\ NoRulesYet /\ AreTriples

-----------------------------------------------------------------------------
\* A new rule of a round is the permission of a rule that Refine made.
LEMMA FreshFromRule ==
  ASSUME NEW x \in FreshRules(denials)
  PROVE  \E r \in AllowRules(Remaining(denials)) :
           /\ \E p \in r.perms : x = <<r.type, r.class, p>>
           /\ r \in Flagged(denials) \/ ~NeedsReview(r)
<1>1. PICK r \in AllowRules(Remaining(denials)) :
        /\ x \in {<<r.type, r.class, p>> : p \in r.perms}
        /\ Accept \/ r \notin Flagged(denials)
  BY DEF FreshRules, Triples
<1>2. r \in Flagged(denials) \/ ~NeedsReview(r)
  BY DEF Flagged
<1>. QED BY <1>1, <1>2

\* A round that adds the missing half of a type adds a flag for it.
LEMMA RoundTells ==
  ASSUME Told, RefineRound
  PROVE  HalvesTold'
<1>. USE DEF Told
<1>1. UNCHANGED manifest
  BY DEF RefineRound, world
<1>2. CASE \E d \in denials : MislabelledEntrypoint(d)
  <2>1. UNCHANGED <<rules, flags>>
    BY <1>2 DEF RefineRound
  <2>. QED BY <1>1, <2>1 DEF HalvesTold, ToldOf, Own
<1>3. CASE ~\E d \in denials : MislabelledEntrypoint(d)
  <2>1. rules' = rules \cup FreshRules(denials) /\ flags' = flags \cup Flagged(denials)
    BY <1>3 DEF RefineRound
  <2>2. SUFFICES ASSUME NEW t \in Own(manifest), NEW c \in FileClasses,
                        \/ t \in {"content", "exec"} /\ <<t, c, "write">> \in rules'
                        \/ t \in Writable /\ <<t, c, "execute">> \in rules'
                 PROVE  \E f \in flags' : f.type = t /\ f.class = c
    BY <1>1 DEF HalvesTold, ToldOf, Own
  <2>3. CASE \/ t \in {"content", "exec"} /\ <<t, c, "write">> \in rules
             \/ t \in Writable /\ <<t, c, "execute">> \in rules
    BY <2>1, <2>3 DEF HalvesTold, ToldOf
  <2>4. ASSUME NEW p, <<t, c, p>> \in FreshRules(denials),
               \/ t \in {"content", "exec"} /\ p = "write"
               \/ t \in Writable /\ p = "execute"
        PROVE  \E f \in Flagged(denials) : f.type = t /\ f.class = c
    <3>1. PICK r \in AllowRules(Remaining(denials)) :
            /\ \E q \in r.perms : <<t, c, p>> = <<r.type, r.class, q>>
            /\ r \in Flagged(denials) \/ ~NeedsReview(r)
      BY <2>4, FreshFromRule
    <3>2. r.type = t /\ r.class = c /\ p \in r.perms
      BY <3>1
    <3>3. SelfModifying(r) \/ WritableExec(r)
      BY <2>4, <3>2 DEF SelfModifying, WritableExec, ReadOnly
    <3>. QED BY <3>1, <3>2, <3>3 DEF NeedsReview
  <2>. QED BY <2>1, <2>2, <2>3, <2>4
<1>. QED BY <1>2, <1>3

\* The scan tells of every type whose rules both write and execute.
LEMMA ScanTells ==
  ASSUME ScanWriteExec
  PROVE  WholesTold'
<1>1. flags' = flags \cup WriteExec /\ UNCHANGED <<rules, manifest>>
  BY DEF ScanWriteExec, world
<1>2. SUFFICES ASSUME NEW t \in Own(manifest), NEW c \in FileClasses,
                      <<t, c, "write">> \in rules, <<t, c, "execute">> \in rules
               PROVE  \E f \in WriteExec : f.type = t /\ f.class = c
  BY <1>1 DEF WholesTold, ToldOf, Own
<1>3. {"write", "execute"} \subseteq Joined(t, c).perms
  <2>1. <<t, c, "write">>[3] \in Joined(t, c).perms
    BY <1>2 DEF Joined
  <2>2. <<t, c, "execute">>[3] \in Joined(t, c).perms
    BY <1>2 DEF Joined
  <2>. QED BY <2>1, <2>2
<1>4. Joined(t, c) \in WriteExec
  BY <1>3 DEF WriteExec
<1>5. Joined(t, c).type = t /\ Joined(t, c).class = c
  BY DEF Joined
<1>. QED BY <1>4, <1>5

\* What a round adds are triples.
LEMMA RoundAddsTriples ==
  ASSUME AreTriples, RefineRound
  PROVE  AreTriples'
<1>1. rules' \subseteq rules \cup FreshRules(denials)
  BY DEF RefineRound
<1>2. ASSUME NEW x \in FreshRules(denials)
      PROVE  x = <<x[1], x[2], x[3]>>
  BY FreshFromRule
<1>. QED BY <1>1, <1>2 DEF AreTriples

\* There is nothing to tell before the first round.
LEMMA InitTold == Init => Told
BY DEF Init, Told, HalvesTold, WholesTold, NoRulesYet, AreTriples

\* Every step keeps what was told: the round that adds a half to a half flags the type.
LEMMA NextTold ==
  ASSUME Told, [Next]_vars
  PROVE  Told'
<1>. USE DEF Told
<1>1. CASE DropCollisions
  <2>1. rules = {} /\ rules' = {} /\ pc' # "done" /\ pc' # "collisions"
    BY <1>1 DEF DropCollisions, NoRulesYet
  <2>. QED BY <2>1 DEF HalvesTold, WholesTold, NoRulesYet, AreTriples
<1>2. CASE Install
  <2>1. UNCHANGED <<rules, flags, manifest>> /\ pc' \in {"failed", "exercise", "scan"}
    BY <1>2 DEF Install, world
  <2>. QED BY <2>1 DEF HalvesTold, WholesTold, NoRulesYet, AreTriples, ToldOf, Own
<1>3. CASE Exercise
  <2>1. UNCHANGED <<rules, flags, manifest>> /\ pc' = "refine"
    BY <1>3 DEF Exercise
  <2>. QED BY <2>1 DEF HalvesTold, WholesTold, NoRulesYet, AreTriples, ToldOf, Own
<1>4. CASE RefineRound
  <2>1. pc' \in {"failed", "install", "final"}
    BY <1>4 DEF RefineRound, NextRound
  <2>. QED BY <1>4, <2>1, RoundTells, RoundAddsTriples DEF WholesTold, NoRulesYet
<1>5. CASE ScanWriteExec
  <2>1. UNCHANGED <<rules, manifest>> /\ flags \subseteq flags' /\ pc' = "done"
    BY <1>5 DEF ScanWriteExec, world
  <2>2. HalvesTold'
    BY <2>1 DEF HalvesTold, ToldOf, Own
  <2>. QED BY <1>5, <2>1, <2>2, ScanTells DEF NoRulesYet, AreTriples
<1>6. ASSUME NEW p \in Paths, NEW t \in StrayTypes, Stray(p, t)
      PROVE  Told'
  <2>1. UNCHANGED <<rules, flags, manifest, pc>>
    BY <1>6 DEF Stray
  <2>. QED BY <2>1 DEF HalvesTold, WholesTold, NoRulesYet, AreTriples, ToldOf, Own
<1>7. CASE Ended \/ UNCHANGED vars
  <2>1. UNCHANGED <<rules, flags, manifest, pc>>
    BY <1>7 DEF Ended, vars
  <2>. QED BY <2>1 DEF HalvesTold, WholesTold, NoRulesYet, AreTriples, ToldOf, Own
<1>. QED BY <1>1, <1>2, <1>3, <1>4, <1>5, <1>6, <1>7 DEF Next

\* The template never grants both halves: what a rule of it may write it may not execute.
LEMMA TemplateSplits ==
  ASSUME NEW t, NEW c
  PROVE  /\ "write" \in BaseGrant(t, c) => t \in Writable
         /\ "execute" \in BaseGrant(t, c) => t \in {"content", "exec"}
<1>1. CASE t \in {"exec", "content"}
  BY <1>1 DEF BaseGrant, Writable
<1>2. CASE t \notin {"exec", "content"}
  BY <1>2 DEF BaseGrant, Writable
<1>. QED BY <1>1, <1>2

\* What was told is all that a type of ours can have of write plus execute.
LEMMA ToldIsEnough == Told => NoSilentWriteExec
<1>. SUFFICES ASSUME Told, pc = "done",
                     NEW t \in Own(manifest), NEW c \in FileClasses,
                     {"write", "execute"} \subseteq Granted(t, c)
              PROVE  ToldOf(t, c)
  BY DEF NoSilentWriteExec, ToldOf
<1>1. ASSUME NEW p \in {"write", "execute"}
      PROVE  p \in BaseGrant(t, c) \/ <<t, c, p>> \in rules
  <2>1. p \in Granted(t, c)
    OBVIOUS
  <2>2. CASE p \in {r[3] : r \in {r \in rules : r[1] = t /\ r[2] = c}}
    <3>1. PICK r \in rules : r[1] = t /\ r[2] = c /\ r[3] = p
      BY <2>2
    <3>. QED BY <3>1 DEF Told, AreTriples
  <2>. QED BY <2>1, <2>2 DEF Granted
<1>. QED BY <1>1, TemplateSplits DEF Told, HalvesTold, WholesTold, Writable

(* No type of ours is writable and executable at the end without a flag, for     *)
(* every manifest, every base policy, every sequence of denials and any number   *)
(* of rounds.                                                                    *)
THEOREM WriteExecTold == Spec => []NoSilentWriteExec
<1>1. Init => Told
  BY InitTold
<1>2. Told /\ [Next]_vars => Told'
  BY NextTold
<1>3. Told => NoSilentWriteExec
  BY ToldIsEnough
<1>. QED BY <1>1, <1>2, <1>3, PTL DEF Spec

-----------------------------------------------------------------------------
(* Labels *)

(* What the loading of the profile and the checks of the installation leave. *)
Collided ==
  \/ \E e \in ToSet(manifest.exes) : Collides(ExecRule(e), base)
  \/ \E c \in Claims(manifest) : Collides(PathRule(c), base)

Loaded ==
  /\ base \subseteq Rules /\ local \subseteq Rules /\ \A r \in base : r.type \notin AppTypes
  /\ Sound(manifest)
  /\ pc = "collisions" => manifest \in Manifest /\ denials = {}
  /\ pc \notin {"collisions", "failed"} => ~Collided
  /\ pc \in {"exercise", "refine", "final", "scan", "done"} =>
       RulesUnderRoots(manifest, Contexts) = {} /\ ~LocalOverlaps(manifest, local)

(* What the exercise returned: with a path that there can be, and on an object that *)
(* has its type by right whenever refinement takes it for access.                   *)
Returned ==
  /\ \A d \in denials : d.path \in Path
  /\ pc = "refine" =>
       \A d \in denials : d.source = Domain /\ ~Drifted(d) =>
         \A x \in d.perms : <<d.type, d.class, x>> \in labelled

LabelInv == Loaded /\ Returned /\ GrantsFollowLabels /\ NoDenialLost

\* Once a policy is installed the type that is expected of any path, and not only of
\* those of the model, is the one that the contexts give it.
LEMMA InstalledPaths ==
  ASSUME Loaded, pc \in {"exercise", "refine", "final", "scan", "done"},
         NEW p \in Path, NEW class
  PROVE  \/ ExpectedType(manifest, p, class) \in {Unknown, Label(Contexts, local, p, class)}
         \/ Unseen(manifest, base, local, p, class)
<1>. SUFFICES ASSUME ExpectedType(manifest, p, class) # Unknown, ~Unseen(manifest, base, local, p, class)
              PROVE  Label(Contexts, local, p, class) = ExpectedType(manifest, p, class)
  OBVIOUS
<1>1. Contexts = Ours(manifest) \cup base
  BY DEF Contexts, Ours
<1>2. Clear(manifest, base, local)
  BY <1>1 DEF Loaded, Clear, Collided
<1>3. Sound(manifest)
  BY DEF Loaded
<1>4. Label(Ours(manifest) \cup base, local, p, class) = ExpectedType(manifest, p, class)
  BY <1>2, <1>3, ExpectedIsGiven
<1>. QED BY <1>1, <1>4

\* The labels of the model are of its paths.
LEMMA LabelsHold ==
  ASSUME Loaded
  PROVE  ClaimsHold
BY InstalledPaths, PathsAssumption DEF ClaimsHold, PathsAssumption

\* What is not drift is on an object that has its type by right.
LEMMA NoDriftIsRight ==
  ASSUME Loaded, pc = "exercise", NEW d, d.source = Domain, d.path \in Path, ~Drifted(d)
  PROVE  RightlyLabelled(d)
<1>1. SUFFICES ASSUME d.path # <<>>, IsFileClass(d.class), Claimed(manifest, d.path, d.class), ~Unseen(manifest, base, local, d.path, d.class)
               PROVE  Label(Contexts, local, d.path, d.class) = d.type
  BY DEF RightlyLabelled
<1>2. ExpectedType(manifest, d.path, d.class) \in {Unknown, d.type}
  BY <1>1 DEF Drifted
<1>3. ExpectedType(manifest, d.path, d.class) # Unknown
  <2>1. PICK c \in Claims(manifest) : Applies(PathRule(c), d.path, d.class)
    BY <1>1 DEF Claimed
  <2>2. Sound(manifest) /\ PathRule(c) \in Ours(manifest)
    BY OursAre DEF Loaded
  <2>. QED BY <2>1, <2>2, UnknownIsUnclaimed
<1>. QED BY <1>1, <1>2, <1>3, InstalledPaths

\* A dropped claim leaves the others as they are, and none that collides.
LEMMA DropKept ==
  ASSUME Loaded, DropCollisions
  PROVE  Loaded'
<1>1. pc = "collisions" /\ UNCHANGED <<base, local, denials>>
  BY DEF DropCollisions
<1>2. CASE EntrypointCollides(manifest, base)
  BY <1>1, <1>2 DEF DropCollisions, Loaded
<1>3. CASE ~EntrypointCollides(manifest, base)
  <2>. DEFINE keep == {i \in DOMAIN manifest.paths : ~Collides(PathRule(manifest.paths[i]), base)}
  <2>1. manifest \in Manifest
    BY <1>1 DEF Loaded
  <2>2. pc' = "install" /\ manifest' = [manifest EXCEPT !.paths = Restrict(manifest.paths, keep)]
    BY <1>3 DEF DropCollisions, WithoutCollisions
  <2>3. manifest'.exes = manifest.exes /\ manifest'.paths = [i \in keep |-> manifest.paths[i]]
    BY <2>1, <2>2 DEF Manifest, Restrict
  <2>4. keep \subseteq DOMAIN manifest.paths
    OBVIOUS
  <2>5. \A c \in Claims(manifest)' : c \in Claims(manifest) /\ ~Collides(PathRule(c), base)
    BY <2>3 DEF Claims, ToSet
  <2>. HIDE DEF keep
  <2>6. Sound(manifest')
    <3>1. DOMAIN manifest'.paths \subseteq Nat \ {0}
      BY <2>3, <2>4 DEF Loaded, Sound
    <3>2. Claims(manifest') \subseteq Claims(manifest)
      BY <2>5
    <3>3. Admissible(manifest')
      BY <2>3, <3>2 DEF Loaded, Sound, Admissible
    <3>. QED BY <2>3, <3>1, <3>2, <3>3 DEF Loaded, Sound
  <2>7. ~Collided'
    BY <1>1, <1>3, <2>3, <2>5 DEF Collided, EntrypointCollides
  <2>. QED BY <1>1, <2>2, <2>6, <2>7 DEF Loaded
<1>. QED BY <1>2, <1>3

\* Every step keeps what the loading and the checks established.
LEMMA LoadedKept ==
  ASSUME Loaded, [Next]_vars
  PROVE  Loaded'
<1>1. CASE Install
  <2>1. /\ UNCHANGED <<manifest, base, local>> /\ pc \in {"install", "final"}
        /\ pc' \in {"failed", "exercise", "scan"}
        /\ pc' # "failed" => Refusal = "none"
    BY <1>1 DEF Install, world
  <2>2. Refusal = "none" => RulesUnderRoots(manifest, Contexts) = {} /\ ~LocalOverlaps(manifest, local)
    BY DEF Refusal
  <2>3. (Collided' <=> Collided) /\ UNCHANGED Contexts
    BY <2>1 DEF Collided, Contexts
  <2>. QED BY <2>1, <2>2, <2>3 DEF Loaded
<1>2. ASSUME UNCHANGED <<manifest, base, local>>,
             \/ UNCHANGED <<pc, denials>>
             \/ pc \in {"exercise", "refine", "scan"} /\ pc' \in {"failed", "refine", "install", "final", "done"}
      PROVE  Loaded'
  BY <1>2 DEF Loaded, Collided, Contexts
<1>3. CASE Exercise
  BY <1>2, <1>3 DEF Exercise
<1>4. CASE RefineRound
  BY <1>2, <1>4 DEF RefineRound, NextRound, world
<1>5. CASE ScanWriteExec
  BY <1>2, <1>5 DEF ScanWriteExec, world
<1>6. ASSUME NEW p \in Paths, NEW t \in StrayTypes, Stray(p, t)
      PROVE  Loaded'
  BY <1>2, <1>6 DEF Stray
<1>7. CASE Ended \/ UNCHANGED vars
  BY <1>2, <1>7 DEF Ended, vars
<1>. QED BY <1>1, <1>3, <1>4, <1>5, <1>6, <1>7, DropKept DEF Next

\* What an exercise returns has a path that there can be, and is counted among what was
\* denied on objects with the right type.
LEMMA ExerciseReturns ==
  ASSUME Loaded, Exercise
  PROVE  Returned'
<1>1. PICK k \in 0 .. (MaxDenials - observed) :
        \E seen \in [1..k -> OnItself \cup UNION {OnObject(p) : p \in Exist}] :
          denials' = {seen[i] : i \in 1..k}
  BY DEF Exercise
<1>2. denials' \subseteq OnItself \cup UNION {OnObject(p) : p \in Exist}
  BY <1>1
<1>3. ASSUME NEW d \in denials'
      PROVE  d.path \in Path
  <2>0. <<>> \in Path
    BY DEF Path
  <2>1. CASE d \in OnItself
    BY <2>0, <2>1, SelfAssumption DEF OnItself, SelfAssumption
  <2>2. CASE d \in UNION {OnObject(p) : p \in Exist}
    <3>1. PICK p \in Exist : d \in OnObject(p)
      BY <2>2
    <3>2. p \in Path
      BY PathsAssumption DEF PathsAssumption, Exist
    <3>3. d.path \in {p, <<>>}
      BY <3>1 DEF OnObject
    <3>. QED BY <2>0, <3>2, <3>3
  <2>. QED BY <1>2, <2>1, <2>2
<1>4. ASSUME NEW d \in denials', d.source = Domain, ~Drifted(d), NEW x \in d.perms
      PROVE  <<d.type, d.class, x>> \in labelled'
  <2>1. pc = "exercise" /\ d.path \in Path
    BY <1>3 DEF Exercise
  <2>2. RightlyLabelled(d)
    BY <1>4, <2>1, NoDriftIsRight
  <2>3. <<d.type, d.class, x>> \in
          UNION {{<<e.type, e.class, y>> : y \in e.perms} :
                   e \in {e \in denials' : e.source = Domain /\ RightlyLabelled(e)}}
    BY <1>4, <2>2
  <2>. QED BY <2>3 DEF Exercise
<1>5. UNCHANGED manifest
  BY DEF Exercise
<1>6. \A d : Drifted(d)' <=> Drifted(d)
  BY <1>5 DEF Drifted
<1>. QED BY <1>3, <1>4, <1>6 DEF Returned

\* What a round adds was denied on an object that has its type by right, or is the read
\* that goes with such an execute.
LEMMA RoundFollows ==
  ASSUME Returned, pc = "refine", NEW t \in FreshRules(denials)
  PROVE  \/ t \in labelled
         \/ t[1] \in ExecTypes /\ t[3] = "read" /\ <<t[1], t[2], "execute">> \in labelled
<1>. DEFINE D == Remaining(denials)
<1>1. PICK r \in AllowRules(D) : \E p \in r.perms : t = <<r.type, r.class, p>>
  BY FreshFromRule
<1>2. PICK p \in r.perms : t = <<r.type, r.class, p>>
  BY <1>1
<1>3. PICK d \in D : r = RuleOf(d, D)
  BY DEF AllowRules
<1>. DEFINE perms == UNION {e.perms : e \in {e \in D : /\ e.type = d.type /\ e.class = d.class
                                                       /\ e.path = d.path /\ e.ino = d.ino}}
<1>4. /\ r.type = d.type /\ r.class = d.class
      /\ r.perms = perms \cup (IF d.class = "file" /\ d.type \in ExecTypes /\ "execute" \in perms
                               THEN {"read"} ELSE {})
  BY <1>3 DEF RuleOf
<1>5. ASSUME NEW x \in perms
      PROVE  <<d.type, d.class, x>> \in labelled
  <2>1. PICK e \in D : e.type = d.type /\ e.class = d.class /\ x \in e.perms
    OBVIOUS
  <2>2. e \in denials /\ e.source = Domain /\ ~Drifted(e)
    BY DEF Remaining
  <2>. QED BY <2>1, <2>2 DEF Returned
<1>. HIDE DEF perms, D
<1>6. CASE p \in perms
  BY <1>2, <1>4, <1>5, <1>6
<1>7. CASE p \notin perms
  <2>1. p = "read" /\ d.type \in ExecTypes /\ "execute" \in perms
    BY <1>2, <1>4, <1>7
  <2>2. t[1] = d.type /\ t[2] = d.class /\ t[3] = "read"
    BY <1>2, <1>4, <2>1
  <2>. QED BY <1>5, <2>1, <2>2
<1>. QED BY <1>6, <1>7

\* A round answers every denial of our domain: with a rule, a flag or a relabel.
LEMMA RoundAnswers ==
  ASSUME Loaded, Returned, RefineRound
  PROVE  NoDenialLost'
<1>1. pc = "refine" /\ UNCHANGED <<manifest, base, local, denials>> /\ relabels' = Relabels(denials)
  BY DEF RefineRound, world
<1>2. CASE \E d \in denials : MislabelledEntrypoint(d)
  BY <1>2 DEF RefineRound, NoDenialLost
<1>3. CASE ~\E d \in denials : MislabelledEntrypoint(d)
  <2>1. rules' = rules \cup FreshRules(denials) /\ flags' = flags \cup Flagged(denials)
    BY <1>3 DEF RefineRound
  <2>2. ASSUME NEW d \in denials, d.source = Domain, Drifted(d)
        PROVE  /\ \E r \in relabels' : r[1] = d.path
               /\ Label(Contexts, local, d.path, d.class) # d.type \/ Unseen(manifest, base, local, d.path, d.class)
    <3>1. <<d.path, ExpectedType(manifest, d.path, d.class)>> \in relabels'
      BY <1>1, <2>2 DEF Relabels
    <3>2. ExpectedType(manifest, d.path, d.class) \notin {Unknown, d.type}
      BY <2>2 DEF Drifted
    <3>3. d.path \in Path
      BY DEF Returned
    <3>4. Label(Contexts, local, d.path, d.class) # d.type \/ Unseen(manifest, base, local, d.path, d.class)
      BY <1>1, <3>2, <3>3, InstalledPaths
    <3>. QED BY <3>1, <3>4
  <2>3. ASSUME NEW d \in denials, d.source = Domain, ~Drifted(d), NEW x \in d.perms
        PROVE  \/ <<d.type, d.class, x>> \in rules'
               \/ \E f \in flags' : f.type = d.type /\ f.class = d.class /\ x \in f.perms
    <3>. DEFINE D == Remaining(denials)
                r == RuleOf(d, D)
    <3>1. d \in D
      BY <2>3 DEF Remaining
    <3>2. r \in AllowRules(D)
      BY <3>1 DEF AllowRules
    <3>3. r.type = d.type /\ r.class = d.class
      BY DEF RuleOf
    <3>4. x \in r.perms
      BY <3>1 DEF RuleOf
    <3>. HIDE DEF r, D
    <3>5. CASE r \in Flagged(denials)
      BY <2>1, <3>3, <3>4, <3>5
    <3>6. CASE r \notin Flagged(denials)
      <4>1. <<d.type, d.class, x>> \in
              Triples(IF Accept THEN AllowRules(D) ELSE AllowRules(D) \ Flagged(denials))
        BY <3>2, <3>3, <3>4, <3>6 DEF Triples
      <4>. QED BY <2>1, <4>1 DEF FreshRules, D
    <3>. QED BY <3>5, <3>6
  <2>4. \A d : Label(Contexts, local, d.path, d.class)' = Label(Contexts, local, d.path, d.class)
               /\ (Unseen(manifest, base, local, d.path, d.class)' <=> Unseen(manifest, base, local, d.path, d.class))
    BY <1>1 DEF Contexts, Unseen, Claimed
  <2>. QED BY <1>1, <2>2, <2>3, <2>4 DEF NoDenialLost
<1>. QED BY <1>2, <1>3

\* The run starts with a manifest that Load accepted and with nothing denied.
LEMMA InitLabels == Init => LabelInv
<1>. SUFFICES ASSUME Init PROVE LabelInv
  OBVIOUS
<1>1. manifest \in Manifest /\ Admissible(manifest)
  BY ManifestsAssumption DEF Init, ManifestsAssumption
<1>2. Sound(manifest)
  <2>. DEFINE C == [root : Path, tree : BOOLEAN, kind : STRING, owned : BOOLEAN]
  <2>1. manifest.exes \in Seq(Path) /\ manifest.paths \in Seq(C)
    BY <1>1 DEF Manifest
  <2>0. \A c \in C : c.root \in Path /\ c.tree \in BOOLEAN
    OBVIOUS
  <2>. HIDE DEF C
  <2>2. DOMAIN manifest.paths \subseteq Nat \ {0}
    BY <2>1
  <2>3. \A i \in DOMAIN manifest.paths : manifest.paths[i] \in C
    BY <2>1
  <2>4. \A c \in Claims(manifest) : c.root \in Path /\ c.tree \in BOOLEAN
    BY <2>0, <2>3 DEF Claims, ToSet
  <2>. QED BY <1>1, <2>1, <2>2, <2>4 DEF Sound
<1>3. base \subseteq Rules /\ local \subseteq Rules /\ \A r \in base : r.type \notin AppTypes
  BY BasesAssumption, LocalsAssumption DEF Init, BasesAssumption, LocalsAssumption
<1>4. pc = "collisions" /\ denials = {} /\ rules = {}
  BY DEF Init
<1>. QED BY <1>1, <1>2, <1>3, <1>4 DEF LabelInv, Loaded, Returned, GrantsFollowLabels, NoDenialLost

\* Every step keeps it: the exercise fills what is labelled, the round empties it into
\* rules, flags and relabels, and the other steps touch neither.
LEMMA NextLabels ==
  ASSUME LabelInv, [Next]_vars
  PROVE  LabelInv'
<1>. USE DEF LabelInv
<1>1. Loaded'
  BY LoadedKept
<1>2. CASE DropCollisions
  <2>1. denials = {} /\ denials' = {} /\ pc' # "refine" /\ UNCHANGED <<rules, labelled>>
    BY <1>2 DEF DropCollisions, Loaded
  <2>. QED BY <1>1, <2>1 DEF Returned, GrantsFollowLabels, NoDenialLost
<1>3. CASE Exercise
  <2>1. Returned'
    BY <1>3, ExerciseReturns
  <2>2. labelled \subseteq labelled' /\ UNCHANGED rules /\ pc' = "refine"
    BY <1>3 DEF Exercise
  <2>3. GrantsFollowLabels'
    BY <2>2 DEF GrantsFollowLabels
  <2>. QED BY <1>1, <2>1, <2>2, <2>3 DEF NoDenialLost
<1>4. CASE RefineRound
  <2>1. /\ UNCHANGED <<manifest, denials, labelled>> /\ pc = "refine" /\ pc' # "refine"
        /\ rules' \subseteq rules \cup FreshRules(denials)
    BY <1>4 DEF RefineRound, NextRound, world
  <2>2. Returned'
    BY <2>1 DEF Returned
  <2>3. GrantsFollowLabels'
    BY <2>1, RoundFollows DEF GrantsFollowLabels
  <2>. QED BY <1>1, <1>4, <2>2, <2>3, RoundAnswers
<1>5. ASSUME UNCHANGED <<manifest, base, local, denials, rules, relabels, labelled>>, flags \subseteq flags',
             \/ pc' = pc
             \/ pc' \in {"failed", "exercise"}
             \/ pc \in {"final", "scan"} /\ pc' \in {"scan", "done"}
      PROVE  LabelInv'
  <2>1. Returned'
    BY <1>5 DEF Returned, Drifted
  <2>2. GrantsFollowLabels'
    BY <1>5 DEF GrantsFollowLabels
  <2>3. NoDenialLost'
    BY <1>5 DEF NoDenialLost, Contexts
  <2>. QED BY <1>1, <2>1, <2>2, <2>3
<1>6. CASE Install
  BY <1>5, <1>6 DEF Install, world
<1>7. CASE ScanWriteExec
  BY <1>5, <1>7 DEF ScanWriteExec, world
<1>8. ASSUME NEW p \in Paths, NEW t \in StrayTypes, Stray(p, t)
      PROVE  LabelInv'
  BY <1>5, <1>8 DEF Stray
<1>9. CASE Ended \/ UNCHANGED vars
  BY <1>5, <1>9 DEF Ended, vars
<1>. QED BY <1>2, <1>3, <1>4, <1>6, <1>7, <1>8, <1>9 DEF Next

\* What the loading, the checks and the rounds establish holds in every state.
LEMMA LabelInvariance == Spec => []LabelInv
BY InitLabels, NextLabels, PTL DEF Spec

(* Once a policy is installed, what refinement expects of a claimed path is what *)
(* the system gives it, whether or not anything is there: for every manifest     *)
(* that Load accepts, whatever it nests, and every base policy and customization *)
(* that the installation lets pass.                                              *)
THEOREM PathsKeepTheirType == Spec => []ClaimsHold
<1>1. LabelInv => ClaimsHold
  BY LabelsHold DEF LabelInv
<1>. QED BY <1>1, LabelInvariance, PTL

(* No rule is for what a mislabelled object was denied.                          *)
THEOREM RulesFollowLabels == Spec => []GrantsFollowLabels
<1>1. LabelInv => GrantsFollowLabels
  BY DEF LabelInv
<1>. QED BY <1>1, LabelInvariance, PTL

(* No denial is lost: a rule, a flag or a relabel of a path that the contexts    *)
(* give another type answers it.                                                 *)
THEOREM DenialsAreAnswered == Spec => []NoDenialLost
<1>1. LabelInv => NoDenialLost
  BY DEF LabelInv
<1>. QED BY <1>1, LabelInvariance, PTL
=============================================================================
