----------------------------- MODULE Refinement -----------------------------
(***************************************************************************)
(* What the denials of the rounds are turned into: policy.Refine and       *)
(* policy.FlagWriteExecRules, in the loop of pipeline.Run that installs    *)
(* the policy, exercises, refines, merges and relabels.  Pipeline has the  *)
(* loop's failures and the verifier's state; here are the types.  The      *)
(* rounds of the enforce loop refine in the same way and are not told      *)
(* apart from those of the observe loop.                                   *)
(*                                                                         *)
(* A denial is [source, path, ino, class, type, perms]; path is <<>> when  *)
(* the records do not tell it, and an object stands for its inode.  A rule *)
(* is [class, type, perms], always of our domain.  The permission "read"   *)
(* stands for all that only read, "write" for all that do not, "execute"   *)
(* for the two that execute.                                               *)
(***************************************************************************)
EXTENDS FileContexts

CONSTANTS
  Manifests, Bases, Locals,  \* manifests, base policies, local customizations
  Paths, ClassOf, Installs,  \* the objects of the verifier, their classes, and which there are at first
  StrayTypes,                \* types an object may carry that is moved to its place
  SelfDenials,               \* what the domain may be denied on itself
  Accept,                    \* --accept-flagged
  MaxRounds, MaxDenials, MaxStrays   \* bounds: rounds, denials and moved objects of a run

\* What Load reads, and rules of others: a type of ours is in no base policy, since the run
\* ends before with a name conflict (pipeline.go:340).
ASSUME ManifestsAssumption == Manifests \subseteq Manifest
ASSUME BasesAssumption == \A b \in Bases : b \subseteq Rules /\ \A r \in b : r.type \notin AppTypes
ASSUME LocalsAssumption == \A l \in Locals : l \subseteq Rules
ASSUME PathsAssumption == Paths \subseteq Path /\ ClassOf \in [Paths -> FileClasses]
ASSUME SelfAssumption == \A d \in SelfDenials : d.path = <<>>

VARIABLES
  manifest,  \* the profile p
  base, local,  \* the rules of others, in the base policy and by semanage fcontext
  label,     \* the type of every object, or Absent
  pc, round,
  rules,     \* extraRules, as triples <<type, class, permission>>
  flags,     \* res.Flags, as rules
  relabels,  \* of the last round: path and expected type
  denials,   \* what the last exercise returned
  labelled,  \* <<type, class, permission>> denied on an object that has its right type
  refusal,   \* why an installation was refused
  observed, strays  \* how many denials and moved objects there were

vars == <<manifest, base, local, label, pc, round, rules, flags, relabels, denials,
          labelled, refusal, observed, strays>>
world == <<manifest, base, local, labelled, observed, strays>>

Absent == "absent"
Exist  == {p \in Paths : label[p] # Absent}

(* The compiled file contexts once our module is loaded. *)
Contexts == ToSet(GenerateFC(manifest)) \cup base

Launchers   == {"init_t"}
Domain      == "domain"

-----------------------------------------------------------------------------
(* ownTypes, and what GenerateTE grants on them. *)
Own(m) == {Domain, "exec"} \cup ({TypeForKind(c.kind) : c \in Claims(m)} \cap AppTypes)

BaseGrant(type, class) ==
  CASE type \in {"exec", "content"}                    -> {"read"} \cup (IF class = "file" THEN {"execute"} ELSE {})
    [] type = "conf"                                   -> {"read"}
    [] type = "log" /\ class = "file"                  -> {"write"}
    [] type \in {"var_lib", "cache", "runtime", "tmp"} \/ (type = "log" /\ class = "dir") -> {"read", "write"}
    [] OTHER                                           -> {}

Granted(type, class) ==
  (IF type \in Own(manifest) THEN BaseGrant(type, class) ELSE {})
    \cup {r[3] : r \in {r \in rules : r[1] = type /\ r[2] = class}}

(* The tables of refine.go, a member or two of each. *)
ReadOnly       == {"read", "execute"}
GenericTargets == {"var_lib_t", "usr_t", "default_t"}
DangerousTargets == {"etc_t", "shadow_t"}
SafeForeign    == {"proc_t", "hostname_exec_t"}
ExecTypes      == {"exec", "hostname_exec_t"}
SafeSelf       == [capability |-> {"net_bind_service"}, process |-> {"setrlimit"}]
DangerousClasses == {"bpf"}
SafeSelfClasses  == FileClasses \cup {"tcp_socket"}
Writable       == {"var_lib", "log", "runtime", "tmp", "cache"}

IsFileClass(c) == c \in FileClasses

-----------------------------------------------------------------------------
(* Refine, on one denial. *)
\* Mutant: a file that carries another type of ours is taken for that type's access.
DriftedForeign(d) ==
  /\ d.source = Domain /\ IsFileClass(d.class) /\ d.path # <<>>
  /\ LET exp == ExpectedType(manifest, d.path, d.class)
     IN  exp # Unknown /\ exp # d.type /\ d.type \notin Own(manifest)

Drifted(d) ==
  /\ d.source = Domain /\ IsFileClass(d.class) /\ d.path # <<>>
  /\ ExpectedType(manifest, d.path, d.class) \notin {Unknown, d.type}

MislabelledEntrypoint(d) ==
  /\ d.source \in Launchers /\ IsFileClass(d.class) /\ "execute" \in d.perms
  /\ d.type \in Own(manifest) \ {"exec"}

(* Merge: one rule for each object, and with it the set that executing a program needs. *)
RuleOf(d, D) ==
  LET perms == UNION {e.perms : e \in {e \in D : /\ e.type = d.type /\ e.class = d.class
                                               /\ e.path = d.path /\ e.ino = d.ino}}
  IN  [class |-> d.class, type |-> d.type,
       perms |-> perms \cup (IF d.class = "file" /\ d.type \in ExecTypes /\ "execute" \in perms
                             THEN {"read"} ELSE {})]

AllowRules(D) == {RuleOf(d, D) : d \in D}

Dangerous(r) ==
  \/ r.class \in DOMAIN SafeSelf /\ ~(r.perms \subseteq SafeSelf[r.class])
  \/ r.class \in DangerousClasses
  \/ r.type = Domain /\ r.class \notin SafeSelfClasses \cup DOMAIN SafeSelf
  \/ r.type \in GenericTargets
  \/ r.type \in DangerousTargets /\ (r.perms # {"read"} \/ r.type = "shadow_t")

(* Writing to what is only to be read, and executing what can be written. *)
SelfModifying(r) == r.type \in {"content", "exec"} \cap Own(manifest) /\ ~(r.perms \subseteq ReadOnly)
WritableExec(r)  == r.type \in Writable \cap Own(manifest) /\ "execute" \in r.perms

RoutineForeign(r) ==
  r.type \in SafeForeign /\ r.perms \subseteq (IF r.type \in ExecTypes THEN ReadOnly ELSE {"read"})

NeedsReview(r) ==
  \/ Dangerous(r) \/ SelfModifying(r) \/ WritableExec(r)
  \/ r.type \notin Own(manifest) /\ r.class # "capability" /\ ~RoutineForeign(r)

Remaining(D) == {d \in D : d.source = Domain /\ ~Drifted(d)}
Flagged(D)   == {r \in AllowRules(Remaining(D)) : NeedsReview(r)}
Relabels(D)  == {<<d.path, ExpectedType(manifest, d.path, d.class)>> : d \in {d \in D : Drifted(d)}}

(* mergeNewRules: by permission, so that a rule of a later round only adds. *)
Triples(R) == UNION {{<<r.type, r.class, p>> : p \in r.perms} : r \in R}
FreshRules(D) ==
  Triples(IF Accept THEN AllowRules(Remaining(D)) ELSE AllowRules(Remaining(D)) \ Flagged(D)) \ rules

-----------------------------------------------------------------------------
Init ==
  /\ manifest \in {m \in Manifests : Admissible(m)}
  /\ base \in Bases /\ local \in Locals
  /\ \E E \in Installs :
        /\ ToSet(manifest.exes) \subseteq E
        /\ label = [p \in Paths |-> IF p \in E THEN Label(base, local, p, ClassOf[p]) ELSE Absent]
  /\ pc = "collisions" /\ round = 1
  /\ rules = {} /\ flags = {} /\ relabels = {} /\ denials = {}
  /\ labelled = {} /\ refusal = "none" /\ observed = 0 /\ strays = 0

(* An entrypoint that collides ends the run; a path that does is dropped from the profile. *)
DropCollisions ==
  /\ pc = "collisions"
  /\ IF EntrypointCollides(manifest, base)
     THEN pc' = "failed" /\ UNCHANGED manifest
     ELSE pc' = "install" /\ manifest' = WithoutCollisions(manifest, base)
  /\ UNCHANGED <<base, local, label, round, rules, flags, relabels, denials, labelled, refusal, observed, strays>>

(* installPolicy: relabel what is claimed, then verify labels and the rules of others. *)
Restored ==
  [p \in Paths |->
     IF p \in Exist /\ (p \in ToSet(manifest.exes) \/ \E c \in Claims(manifest) : IsPrefix(c.root, p))
     THEN Label(Contexts, local, p, ClassOf[p]) ELSE label[p]]

Refusal ==
  CASE ~LabelsVerified(manifest, Exist, Restored)  -> "label"
    [] LabelsVerified(manifest, Exist, Restored) /\ RulesUnderRoots(manifest, Contexts) # {} -> "base"
    [] LabelsVerified(manifest, Exist, Restored) /\ RulesUnderRoots(manifest, Contexts) = {}
         /\ LocalOverlaps(manifest, local) -> "local"
    [] OTHER -> "none"

Install ==
  /\ pc \in {"install", "final"}
  /\ label' = Restored /\ refusal' = Refusal
  /\ pc' = CASE refusal' # "none"                    -> "failed"
             [] refusal' = "none" /\ pc = "install"  -> "exercise"
             [] OTHER                                -> "scan"
  /\ UNCHANGED <<world, round, rules, flags, relabels, denials>>

(* The program, its setup or an administrator creates or moves an object: a moved one *)
(* keeps its type.                                                                    *)
Stray(p, t) ==
  /\ pc = "exercise" /\ strays < MaxStrays
  /\ label[p] # t /\ p \notin ToSet(manifest.exes)
  /\ label' = [label EXCEPT ![p] = t] /\ strays' = strays + 1
  /\ UNCHANGED <<manifest, base, local, pc, round, rules, flags, relabels, denials, labelled, refusal, observed>>

(* Denials there may be: of our domain what is not granted, of the launcher an execute. *)
PermsOf(class) == IF class = "file" THEN {"read", "write", "execute"} ELSE {"read", "write"}

OnObject(p) ==
  LET c == ClassOf[p]
  IN  {[source |-> Domain, path |-> n, ino |-> p, class |-> c, type |-> label[p], perms |-> {x}] :
         n \in {p, <<>>}, x \in PermsOf(c) \ Granted(label[p], c)}
      \cup {[source |-> "init_t", path |-> p, ino |-> p, class |-> c, type |-> label[p], perms |-> {x}] :
              x \in PermsOf(c) \cap {"execute"}}

OnItself == {d \in SelfDenials : ~(d.perms \subseteq Granted(d.type, d.class))}

(* The object has its type by right, as far as a claim and a record say anything of it. *)
RightlyLabelled(d) ==
  \/ d.path = <<>> \/ ~IsFileClass(d.class)
  \/ ~Claimed(manifest, d.path, d.class) \/ Unseen(manifest, base, local, d.path, d.class)
  \/ Label(Contexts, local, d.path, d.class) = d.type

Exercise ==
  /\ pc = "exercise"
  /\ \E k \in 0..(MaxDenials - observed) : \E seen \in [1..k -> OnItself \cup UNION {OnObject(p) : p \in Exist}] :
        denials' = {seen[i] : i \in 1..k}
  /\ observed' = observed + Cardinality(denials')
  /\ labelled' = labelled \cup
       UNION {{<<d.type, d.class, x>> : x \in d.perms} :
                d \in {d \in denials' : d.source = Domain /\ RightlyLabelled(d)}}
  /\ pc' = "refine"
  /\ UNCHANGED <<manifest, base, local, label, round, rules, flags, relabels, refusal, strays>>

(* Refine, mergeNewRules and a restorecon of each relabelled path, which may fail unseen; *)
(* a mislabelled entrypoint and a relabel that recurs end the run.                        *)
Recurs == relabels' # {} /\ relabels' = relabels

NextRound ==
  CASE Recurs                                                        -> {"failed"}
    [] ~Recurs /\ (FreshRules(denials) # {} \/ relabels' # {})       -> {IF round < MaxRounds THEN "install" ELSE "final"}
    [] ~Recurs /\ FreshRules(denials) = {} /\ relabels' = {}         ->
         {"final", IF round < MaxRounds THEN "install" ELSE "final"}   \* as the exercise succeeded or not

RefineRound ==
  /\ pc = "refine"
  /\ relabels' = Relabels(denials)
  /\ IF \E d \in denials : MislabelledEntrypoint(d)
     THEN pc' = "failed" /\ UNCHANGED <<round, rules, flags, label>>
     ELSE /\ rules' = rules \cup FreshRules(denials)
          /\ flags' = flags \cup Flagged(denials)
          /\ \E healed \in SUBSET {r[1] : r \in relabels'} :
                label' = [p \in Paths |-> IF p \in healed THEN Label(Contexts, local, p, ClassOf[p]) ELSE label[p]]
          /\ round' = round + 1
          /\ pc' \in NextRound
  /\ UNCHANGED <<world, denials, refusal>>

(* normalizeRules: all that the rounds granted on a type and class, as one rule. *)
Joined(t, c) ==
  [class |-> c, type |-> t, perms |-> {x[3] : x \in {x \in rules : x[1] = t /\ x[2] = c}}]

(* FlagWriteExecRules, over the rules of all rounds. *)
\* Mutant: only the types that the checks of a round know.
WriteExecByBucket ==
  {r \in {Joined(t, c) : t \in Own(manifest) \cap (Writable \cup {"content", "exec"}), c \in FileClasses} :
     {"write", "execute"} \subseteq r.perms}

WriteExec ==
  {r \in {Joined(t, c) : t \in Own(manifest), c \in FileClasses} :
     {"write", "execute"} \subseteq r.perms}

ScanWriteExec ==
  /\ pc = "scan"
  /\ flags' = flags \cup WriteExec
  /\ pc' = "done"
  /\ UNCHANGED <<world, label, round, rules, relabels, denials, refusal>>

Ended == pc \in {"done", "failed"} /\ UNCHANGED vars

Next ==
  \/ DropCollisions \/ Install \/ Exercise \/ RefineRound \/ ScanWriteExec \/ Ended
  \/ \E p \in Paths, t \in StrayTypes : Stray(p, t)

Spec == Init /\ [][Next]_vars

-----------------------------------------------------------------------------
(* Once a policy is installed, what refinement expects of a claimed path is the  *)
(* type the system gives it, whether or not the path exists yet: nested claims,  *)
(* collisions and the rules of others leave no path of ours with another type    *)
(* (refine.go:450, pipeline.go:1213), but for what the checks do not look at.    *)
ClaimsHold ==
  pc \in {"exercise", "refine", "scan", "done"} =>
    \A p \in Paths : \A class \in FileClasses :
      \/ ExpectedType(manifest, p, class) \in {Unknown, Label(Contexts, local, p, class)}
      \/ Unseen(manifest, base, local, p, class)

(* No denial of our domain is lost between the exercise and the next install: it *)
(* is granted, or before a reviewer, or it is answered by a relabel, and then    *)
(* the type it has is indeed not the one the contexts give the path              *)
(* (refine.go:208: a misread drift suppresses the denial and the loop cannot     *)
(* converge).                                                                    *)
NoDenialLost ==
  pc \in {"install", "final", "scan", "done"} =>
    \A d \in denials : d.source = Domain =>
      \/ \A x \in d.perms : \/ <<d.type, d.class, x>> \in rules
                            \/ \E f \in flags : f.type = d.type /\ f.class = d.class /\ x \in f.perms
      \/ /\ \E r \in relabels : r[1] = d.path
         /\ Label(Contexts, local, d.path, d.class) # d.type \/ Unseen(manifest, base, local, d.path, d.class)

(* A rule is for a whole type, so what a mislabelled object is denied never      *)
(* becomes one: every permission granted was denied on an object that has the    *)
(* type by right, or that no claim covers or no record names (refine.go:203).    *)
GrantsFollowLabels ==
  \A r \in rules : \/ r \in labelled
                   \/ r[1] \in ExecTypes /\ r[3] = "read" /\ <<r[1], r[2], "execute">> \in labelled

(* At the end no type of ours is both writable and executable to the domain      *)
(* unless a reviewer is told, whichever rounds and whichever of template and     *)
(* refinement the two halves came from (refine.go:374, pipeline.go:887).         *)
NoSilentWriteExec ==
  pc = "done" =>
    \A t \in Own(manifest) : \A c \in FileClasses :
      {"write", "execute"} \subseteq Granted(t, c) => \E f \in flags : f.type = t /\ f.class = c

(* An installation is refused for a label only where an object carries another   *)
(* type than the profile expects of it.                                          *)
LabelRefusalsAreReal ==
  refusal = "label" =>
    \E p \in Exist : label[p] # ExpectedType(manifest, p, ClassOf[p])
=============================================================================
