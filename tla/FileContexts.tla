---------------------------- MODULE FileContexts ----------------------------
(***************************************************************************)
(* Which type a path gets: the claims of a manifest (target.Load), the     *)
(* file contexts generated from them (policy.GenerateFC), the collisions   *)
(* with the base policy (policy.FindCollisions), what refinement expects   *)
(* of a path (policy.expectedType), and what the installation verifies     *)
(* (pipeline.installPolicy).                                               *)
(*                                                                         *)
(* A path is a sequence of names.  A claim is [root, tree, kind, owned]:   *)
(* the literal path, or with tree the path and everything beneath it.  A   *)
(* rule of file contexts is [root, tree, sel, type]; sel is "any" or the   *)
(* class of objects it is for.  The type of the app for a kind is named    *)
(* by the kind, other types by their own name.                             *)
(*                                                                         *)
(* A manifest is [exes, paths].  A claim that is dropped leaves its place  *)
(* among the paths empty, so that only their order means something.        *)
(***************************************************************************)
EXTENDS Naturals, Sequences, FiniteSets, SequencesExt

CONSTANTS
  Dotted,       \* names with a character that means something in a regular expression
  Hidden,       \* those that begin with it, like .ssh
  BroadRoots,   \* directories many programs share
  SharedTrees,  \* the trees of units and of homes
  Ties          \* names that tie a path to the app

ASSUME NamesAssumption == Hidden \subseteq Dotted

Path == Seq(STRING)

FileClasses == {"file", "dir", "lnk_file"}

Kinds    == {"conf", "var_lib", "log", "runtime", "content", "tmp", "cache", "unit"}
AppTypes == (Kinds \ {"unit"}) \cup {"exec"}

Manifest == [exes : Seq(Path), paths : Seq([root : Path, tree : BOOLEAN, kind : STRING, owned : BOOLEAN])]
Rules    == [root : Path, tree : BOOLEAN, sel : {"any"} \cup FileClasses, type : STRING]

TypeForKind(k) == IF k = "unit" THEN "systemd_unit_file_t" ELSE k

Literal(p) == \A i \in DOMAIN p : p[i] \notin Dotted

(* Trees of units and of homes: neither they, nor what is above or beneath. *)
SharedTree(root) == \E t \in SharedTrees : IsPrefix(t, root) \/ IsPrefix(root, t)

BroadSystemRoot(root) == root = <<>> \/ root \in BroadRoots \/ SharedTree(root)

PathTiesToApp(root) == \E i \in DOMAIN root : root[i] \in Ties

(* Claims that Load accepts.  A dot is no part of a literal root, so a claim has none. *)
Bounded(c) ==
  /\ c.kind \in Kinds /\ Literal(c.root)
  /\ ~BroadSystemRoot(c.root)
  /\ c.owned \/ PathTiesToApp(c.root)

Claims(m) == ToSet(m.paths)

Admissible(m) ==
  /\ m.exes # <<>>
  /\ \A c \in Claims(m) : Bounded(c)
  /\ \A c, d \in Claims(m) : c.root = d.root /\ c.tree = d.tree => c.kind = d.kind
  /\ \A c \in Claims(m) : ~c.tree => c.root \notin ToSet(m.exes)

-----------------------------------------------------------------------------
(* GenerateFC; compileFCMatchers takes the same entries in the same order. *)
ExecRule(e)  == [root |-> e, tree |-> FALSE, sel |-> "file", type |-> "exec"]
PathRule(c)  == [root |-> c.root, tree |-> c.tree, sel |-> "any", type |-> TypeForKind(c.kind)]
GenerateFC(m) ==
  LET n == Len(m.exes)
  IN  [i \in (1..n) \cup {n + j : j \in DOMAIN m.paths} |->
         IF i <= n THEN ExecRule(m.exes[i]) ELSE PathRule(m.paths[i - n])]

Applies(r, p, class) ==
  /\ p = r.root \/ (r.tree /\ IsStrictPrefix(r.root, p))
  /\ r.sel \in {"any", class}

(* How much of a path precedes its first dot, the name with the dot counted. *)
Stem(p) == IF Literal(p) THEN Len(p)
           ELSE CHOOSE i \in DOMAIN p : p[i] \in Dotted /\ \A j \in 1..(i - 1) : p[j] \notin Dotted

FcSpecificity(r) == 2 * Stem(r.root) + (IF ~r.tree /\ Literal(r.root) THEN 1 ELSE 0)

\* Mutant: the first that is listed decides, as before the sort.
BeforeUnsorted(fc, i, j) == i <= j

(* sort.SliceStable: the more specific first, equals in the order of the manifest. *)
Before(fc, i, j) ==
  \/ FcSpecificity(fc[i]) > FcSpecificity(fc[j])
  \/ FcSpecificity(fc[i]) = FcSpecificity(fc[j]) /\ i <= j

Unknown == "unknown"

ExpectedType(m, p, class) ==
  LET fc   == GenerateFC(m)
      hits == {i \in DOMAIN fc : Applies(fc[i], p, class)}
  IN  IF hits = {} THEN Unknown
      ELSE fc[CHOOSE i \in hits : \A j \in hits : Before(fc, i, j)].type

-----------------------------------------------------------------------------
(* FindCollisions: the same expression under another type in the base policy, for *)
(* a class of objects that both rules label.                                       *)
\* Mutant: only rules with the same selector.
OverlapEqual(a, b) == a = b

Overlap(a, b) == a = "any" \/ b = "any" \/ a = b

Collides(r, base) ==
  \E b \in base : b.root = r.root /\ b.tree = r.tree /\ Overlap(b.sel, r.sel) /\ b.type # r.type

EntrypointCollides(m, base) == \E e \in ToSet(m.exes) : Collides(ExecRule(e), base)

WithoutCollisions(m, base) ==
  [m EXCEPT !.paths = Restrict(@, {i \in DOMAIN @ : ~Collides(PathRule(@[i]), base)})]

-----------------------------------------------------------------------------
(* What restorecon assigns: a local customization before any other rule; then the *)
(* literal expression, the longest stem, the one with a selector.                 *)
Outranks(r, s) ==
  \/ ~r.tree /\ s.tree
  \/ r.tree = s.tree /\ Len(r.root) > Len(s.root)
  \/ r.tree = s.tree /\ r.root = s.root /\ r.sel # "any"

Best(hits) == CHOOSE r \in hits : \A s \in hits \ {r} : Outranks(r, s)

Label(rules, local, p, class) ==
  LET hits == {r \in rules : Applies(r, p, class)}
      over == {r \in local : Applies(r, p, class)}
  IN  CASE over # {}                -> Best(over).type
        [] over = {} /\ hits # {}   -> Best(hits).type
        [] OTHER                    -> "default_t"

(* fcLiteralStem of a rule of others: a hidden name and what follows it are cut off. *)
LiteralStem(p) ==
  IF Literal(p) THEN p
  ELSE SubSeq(p, 1, IF p[Stem(p)] \in Hidden THEN Stem(p) - 1 ELSE Stem(p))

(* checkBaseRulesUnderRoots, on the compiled contexts with our module in them. *)
RulesUnderRoots(m, rules) ==
  {r \in rules : /\ r.type \notin AppTypes
                 /\ \E c \in Claims(m) : IsStrictPrefix(c.root, LiteralStem(r.root))}

(* Any local customization that overlaps a root. *)
LocalOverlaps(m, local) ==
  \E r \in local, c \in Claims(m) :
    LET s == LiteralStem(r.root)
    IN  s # <<>> /\ (IsPrefix(s, c.root) \/ IsPrefix(c.root, s))

(* What these two do not look at: a rule of the base policy whose literal stem is the *)
(* root of a tree itself, for a hidden name right under it or for the root alone (the *)
(* scan finds it once there is an object); a customization without a literal stem, or *)
(* of an entrypoint that no claim covers.                                             *)
Claimed(m, p, class) == \E c \in Claims(m) : Applies(PathRule(c), p, class)

Unseen(m, base, local, p, class) ==
  \/ \E r \in base, c \in Claims(m) :
       /\ Applies(r, p, class) /\ c.tree /\ LiteralStem(r.root) = c.root
       /\ r.root # c.root \/ ~r.tree
  \/ \E r \in local : Applies(r, p, class) /\ (LiteralStem(r.root) = <<>> \/ ~Claimed(m, p, class))

(* What find looks at under the root of a claim: the roots of other claims are pruned. *)
Scanned(m, c, exist) ==
  {p \in exist : /\ IsPrefix(c.root, p)
                 /\ \A d \in Claims(m) : IsStrictPrefix(c.root, d.root) => ~IsPrefix(d.root, p)}

LabelsVerified(m, exist, label) ==
  \A c \in Claims(m) : \A p \in Scanned(m, c, exist) : label[p] = TypeForKind(c.kind)
=============================================================================
