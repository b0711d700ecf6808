------------------------ MODULE FileContexts_proofs ------------------------
(***************************************************************************)
(* For every manifest, base policy and set of customizations that pass the *)
(* checks of an installation: refinement expects of a path the type that   *)
(* the system gives it, whether or not there is anything at the path.      *)
(***************************************************************************)
EXTENDS FileContexts, WellFoundedInduction, TLAPS

(* A manifest that Load accepted, some of its claims dropped. *)
Sound(m) ==
  /\ m.exes \in Seq(Path)
  /\ DOMAIN m.paths \subseteq Nat \ {0}
  /\ \A c \in Claims(m) : c.root \in Path /\ c.tree \in BOOLEAN
  /\ Admissible(m)

Ours(m) == ToSet(GenerateFC(m))

(* The rule has the type of r, or the order of the system puts r before it. *)
Yields(s, r) ==
  \/ s.root = r.root /\ s.tree = r.tree /\ s.type = r.type
  \/ ~r.tree /\ s.tree
  \/ r.tree = s.tree /\ Len(r.root) > Len(s.root)

-----------------------------------------------------------------------------
(* Numbers and prefixes *)

\* A set of numbers has a least one.
LEMMA LeastOf ==
  ASSUME NEW T \in SUBSET Nat, T # {}
  PROVE  \E x \in T : \A y \in T : x <= y
<1>1. PICK x \in T : \A y \in T : ~(<<y, x>> \in OpToRel(<, Nat))
  BY NatLessThanWellFounded, WFMin
<1>2. \A y \in T : ~(y < x)
  BY <1>1 DEF OpToRel
<1>3. \A y \in T : x <= y
  BY <1>2
<1>. QED BY <1>3

\* A prefix agrees with the path at every position it has.
LEMMA PrefixIs ==
  ASSUME NEW s \in Path, NEW t \in Path
  PROVE  IsPrefix(s, t) <=> Len(s) <= Len(t) /\ \A i \in 1 .. Len(s) : s[i] = t[i]
<1>. USE DEF Path
<1>1. Len(s) \in Nat /\ Len(t) \in Nat
  OBVIOUS
<1>2. SubSeq(s, 1, Len(s)) = [i \in 1 .. Len(s) |-> s[i]]
  OBVIOUS
<1>3. Len(s) <= Len(t) => SubSeq(t, 1, Len(s)) = [i \in 1 .. Len(s) |-> t[i]]
  OBVIOUS
<1>. QED BY <1>1, <1>2, <1>3 DEF IsPrefix

\* A prefix as long as the path is the path.
LEMMA FullPrefix ==
  ASSUME NEW s \in Path, NEW t \in Path, IsPrefix(s, t), Len(s) = Len(t)
  PROVE  s = t
<1>1. \A i \in 1 .. Len(s) : s[i] = t[i]
  BY PrefixIs
<1>. QED BY <1>1 DEF Path

\* What is a prefix and not the path is shorter.
LEMMA StrictIsShorter ==
  ASSUME NEW s \in Path, NEW t \in Path
  PROVE  IsStrictPrefix(s, t) <=> IsPrefix(s, t) /\ Len(s) < Len(t)
<1>1. Len(s) \in Nat /\ Len(t) \in Nat
  BY DEF Path
<1>2. IsPrefix(s, t) => Len(s) <= Len(t)
  BY PrefixIs
<1>. QED BY <1>1, <1>2, FullPrefix DEF IsStrictPrefix

\* Two prefixes of a path are prefixes of each other, the shorter of the longer.
LEMMA Comparable ==
  ASSUME NEW s \in Path, NEW t \in Path, NEW p \in Path,
         IsPrefix(s, p), IsPrefix(t, p), Len(s) <= Len(t)
  PROVE  IsPrefix(s, t)
<1>1. Len(s) \in Nat /\ Len(t) \in Nat
  BY DEF Path
<1>. QED BY <1>1, PrefixIs

\* A path is a prefix of itself.
LEMMA OwnPrefix ==
  ASSUME NEW s \in Path
  PROVE  IsPrefix(s, s)
<1>1. Len(s) \in Nat
  BY DEF Path
<1>. QED BY <1>1, PrefixIs

\* The stem of a path that is not literal ends with its first dotted name.
LEMMA StemOf ==
  ASSUME NEW p \in Path
  PROVE  /\ Stem(p) \in 0 .. Len(p)
         /\ Literal(p) => Stem(p) = Len(p)
         /\ ~Literal(p) => /\ Stem(p) \in DOMAIN p /\ p[Stem(p)] \in Dotted
                           /\ \A j \in 1 .. (Stem(p) - 1) : p[j] \notin Dotted
<1>1. Len(p) \in Nat /\ DOMAIN p = 1 .. Len(p)
  BY DEF Path
<1>2. CASE Literal(p)
  BY <1>1, <1>2 DEF Stem
<1>3. CASE ~Literal(p)
  <2>. DEFINE T == {i \in DOMAIN p : p[i] \in Dotted}
              First(i) == p[i] \in Dotted /\ \A j \in 1 .. (i - 1) : p[j] \notin Dotted
  <2>1. T \in SUBSET Nat /\ T # {}
    BY <1>1, <1>3 DEF Literal
  <2>2. PICK x \in T : \A y \in T : x <= y
    BY <2>1, LeastOf
  <2>3. First(x)
    BY <1>1, <2>2
  <2>4. First(CHOOSE i \in DOMAIN p : First(i)) /\ (CHOOSE i \in DOMAIN p : First(i)) \in DOMAIN p
    BY <2>2, <2>3
  <2>5. Stem(p) = CHOOSE i \in DOMAIN p : First(i)
    BY <1>3 DEF Stem
  <2>. QED BY <1>1, <1>3, <2>4, <2>5
<1>. QED BY <1>2, <1>3

\* A literal prefix of a path ends before its first dotted name.
LEMMA LiteralPrefix ==
  ASSUME NEW s \in Path, NEW p \in Path, IsPrefix(s, p), Literal(s), ~Literal(p)
  PROVE  Len(s) < Stem(p)
<1>1. Len(s) \in Nat /\ Len(p) \in Nat /\ DOMAIN s = 1 .. Len(s) /\ DOMAIN p = 1 .. Len(p)
  BY DEF Path
<1>2. Stem(p) \in DOMAIN p /\ p[Stem(p)] \in Dotted
  BY StemOf
<1>3. \A i \in 1 .. Len(s) : p[i] \notin Dotted
  BY <1>1, PrefixIs DEF Literal
<1>. QED BY <1>1, <1>2, <1>3

\* The literal stem of a rule is a prefix of its root, one name short of the stem
\* when the name is hidden.
LEMMA LiteralStemOf ==
  ASSUME NEW p \in Path
  PROVE  /\ LiteralStem(p) \in Path /\ IsPrefix(LiteralStem(p), p)
         /\ Literal(p) => LiteralStem(p) = p
         /\ ~Literal(p) => Len(LiteralStem(p)) \in {Stem(p), Stem(p) - 1}
<1>1. Len(p) \in Nat /\ DOMAIN p = 1 .. Len(p)
  BY DEF Path
<1>2. CASE Literal(p)
  BY <1>2, OwnPrefix DEF LiteralStem
<1>3. CASE ~Literal(p)
  <2>. DEFINE k == IF p[Stem(p)] \in Hidden THEN Stem(p) - 1 ELSE Stem(p)
  <2>1. Stem(p) \in 1 .. Len(p)
    BY <1>1, <1>3, StemOf
  <2>2. k \in 0 .. Len(p) /\ k \in {Stem(p), Stem(p) - 1}
    BY <1>1, <2>1
  <2>3. LiteralStem(p) = SubSeq(p, 1, k)
    BY <1>3 DEF LiteralStem
  <2>. HIDE DEF k
  <2>4. SubSeq(p, 1, k) \in Path /\ Len(SubSeq(p, 1, k)) = k
    BY <1>1, <2>2 DEF Path
  <2>5. \A i \in 1 .. k : SubSeq(p, 1, k)[i] = p[i]
    BY <1>1, <2>2 DEF Path
  <2>6. IsPrefix(SubSeq(p, 1, k), p)
    <3>. DEFINE s == SubSeq(p, 1, k)
    <3>1. s \in Path /\ Len(s) = k /\ \A i \in 1 .. k : s[i] = p[i]
      BY <2>4, <2>5
    <3>. HIDE DEF s
    <3>2. Len(s) <= Len(p) /\ \A i \in 1 .. Len(s) : s[i] = p[i]
      BY <1>1, <2>2, <3>1
    <3>. QED BY <3>1, <3>2, PrefixIs DEF s
  <2>. QED BY <1>3, <2>2, <2>3, <2>4, <2>6
<1>. QED BY <1>2, <1>3

-----------------------------------------------------------------------------
(* What refinement expects *)

\* The root of a rule that applies is a prefix of the path, and the path itself unless
\* the rule is for a tree.
LEMMA AppliesAt ==
  ASSUME NEW r, NEW p \in Path, NEW class, r.root \in Path, Applies(r, p, class)
  PROVE  /\ IsPrefix(r.root, p) /\ Len(r.root) <= Len(p)
         /\ ~r.tree => r.root = p
<1>1. IsPrefix(r.root, p)
  BY OwnPrefix DEF Applies, IsStrictPrefix
<1>. QED BY <1>1, PrefixIs DEF Applies

\* Nothing is more specific than the literal path.
LEMMA SpecificityOf ==
  ASSUME NEW r, NEW p \in Path, NEW class, r.root \in Path, Applies(r, p, class)
  PROVE  FcSpecificity(r) \in 0 .. (2 * Len(p) + 1)
<1>1. Len(p) \in Nat /\ Len(r.root) \in Nat /\ Len(r.root) <= Len(p)
  BY AppliesAt DEF Path
<1>2. Stem(r.root) \in 0 .. Len(r.root)
  BY StemOf
<1>3. FcSpecificity(r) \in {2 * Stem(r.root), 2 * Stem(r.root) + 1}
  BY <1>1, <1>2 DEF FcSpecificity
<1>. QED BY <1>1, <1>2, <1>3

\* The contexts of a manifest are a rule for each executable and one for each claim.
LEMMA OursAre ==
  ASSUME NEW m, Sound(m)
  PROVE  /\ DOMAIN GenerateFC(m) \subseteq Nat
         /\ \A i \in DOMAIN GenerateFC(m) :
              \/ \E e \in ToSet(m.exes) : GenerateFC(m)[i] = ExecRule(e)
              \/ \E c \in Claims(m) : GenerateFC(m)[i] = PathRule(c)
         /\ \A c \in Claims(m) : PathRule(c) \in Ours(m)
         /\ \A e \in ToSet(m.exes) : ExecRule(e) \in Ours(m) /\ e \in Path
<1>. DEFINE n == Len(m.exes)
            dom == (1..n) \cup {n + j : j \in DOMAIN m.paths}
<1>1. n \in Nat /\ DOMAIN m.exes = 1..n /\ DOMAIN m.paths \subseteq Nat \ {0}
      /\ \A i \in 1..n : m.exes[i] \in Path
  BY DEF Sound
<1>2. DOMAIN GenerateFC(m) = dom
      /\ \A i \in dom : GenerateFC(m)[i] = IF i <= n THEN ExecRule(m.exes[i]) ELSE PathRule(m.paths[i - n])
  BY DEF GenerateFC
<1>. HIDE DEF n
<1>3. dom \subseteq Nat
  BY <1>1
<1>4. ASSUME NEW i \in dom
      PROVE  \/ \E e \in ToSet(m.exes) : GenerateFC(m)[i] = ExecRule(e)
             \/ \E c \in Claims(m) : GenerateFC(m)[i] = PathRule(c)
  <2>1. CASE i <= n
    <3>1. i \in DOMAIN m.exes
      BY <1>1, <2>1
    <3>. QED BY <1>2, <2>1, <3>1 DEF ToSet
  <2>2. CASE ~(i <= n)
    <3>1. i - n \in DOMAIN m.paths
      BY <1>1, <2>2
    <3>. QED BY <1>2, <2>2, <3>1 DEF ToSet, Claims
  <2>. QED BY <2>1, <2>2
<1>5. ASSUME NEW c \in Claims(m)
      PROVE  PathRule(c) \in Ours(m)
  <2>1. PICK j \in DOMAIN m.paths : c = m.paths[j]
    BY DEF Claims, ToSet
  <2>2. n + j \in dom /\ ~(n + j <= n) /\ (n + j) - n = j
    BY <1>1
  <2>3. GenerateFC(m)[n + j] = PathRule(c)
    BY <1>2, <2>1, <2>2
  <2>. QED BY <1>2, <2>2, <2>3 DEF Ours, ToSet
<1>6. ASSUME NEW e \in ToSet(m.exes)
      PROVE  ExecRule(e) \in Ours(m) /\ e \in Path
  <2>1. PICK j \in DOMAIN m.exes : e = m.exes[j]
    BY DEF ToSet
  <2>2. j \in dom /\ j <= n
    BY <1>1
  <2>. QED BY <1>1, <1>2, <2>1, <2>2 DEF Ours, ToSet
<1>. QED BY <1>2, <1>3, <1>4, <1>5, <1>6

\* A rule of ours is well-formed; the one of an executable is exact, the one of a claim literal.
LEMMA OursTyped ==
  ASSUME NEW m, Sound(m), NEW r \in Ours(m)
  PROVE  /\ r.root \in Path /\ r.tree \in BOOLEAN /\ r.type # Unknown
         /\ \/ \E e \in ToSet(m.exes) : r = ExecRule(e) /\ r.root = e /\ r.type = "exec" /\ ~r.tree
            \/ \E c \in Claims(m) : /\ r = PathRule(c) /\ r.root = c.root /\ r.tree = c.tree
                                    /\ r.type = TypeForKind(c.kind) /\ Literal(c.root)
<1>1. PICK i \in DOMAIN GenerateFC(m) : r = GenerateFC(m)[i]
  BY DEF Ours, ToSet
<1>2. CASE \E e \in ToSet(m.exes) : r = ExecRule(e)
  <2>1. PICK e \in ToSet(m.exes) : r = ExecRule(e)
    BY <1>2
  <2>2. e \in Path
    BY OursAre
  <2>3. r.root = e /\ r.type = "exec" /\ r.tree = FALSE
    BY <2>1 DEF ExecRule
  <2>. QED BY <2>1, <2>2, <2>3 DEF Unknown
<1>3. CASE \E c \in Claims(m) : r = PathRule(c)
  <2>1. PICK c \in Claims(m) : r = PathRule(c)
    BY <1>3
  <2>2. c.root \in Path /\ c.tree \in BOOLEAN /\ Literal(c.root) /\ c.kind \in Kinds
    BY DEF Sound, Admissible, Bounded
  <2>3. TypeForKind(c.kind) # Unknown
    BY <2>2 DEF TypeForKind, Kinds, Unknown
  <2>. QED BY <2>1, <2>2, <2>3 DEF PathRule
<1>. QED BY <1>1, <1>2, <1>3, OursAre

\* What is expected is the type of the most specific of our rules for the path.
LEMMA ExpectedIsTop ==
  ASSUME NEW m, Sound(m), NEW p \in Path, NEW class,
         \E r \in Ours(m) : Applies(r, p, class)
  PROVE  \E r \in Ours(m) :
           /\ Applies(r, p, class) /\ r.type = ExpectedType(m, p, class)
           /\ \A s \in Ours(m) : Applies(s, p, class) => FcSpecificity(r) >= FcSpecificity(s)
<1>. DEFINE fc   == GenerateFC(m)
            hits == {i \in DOMAIN fc : Applies(fc[i], p, class)}
            rank(i) == (2 * Len(p) + 1) - FcSpecificity(fc[i])
<1>1. hits # {} /\ hits \subseteq Nat
  BY OursAre DEF Ours, ToSet
<1>2. Len(p) \in Nat
  BY DEF Path
<1>3. ASSUME NEW i \in hits
      PROVE  FcSpecificity(fc[i]) \in 0 .. (2 * Len(p) + 1)
  <2>1. fc[i] \in Ours(m) /\ Applies(fc[i], p, class)
    BY DEF Ours, ToSet
  <2>. QED BY <2>1, OursTyped, SpecificityOf
<1>4. \E i \in hits : \A j \in hits : Before(fc, i, j)
  <2>. HIDE DEF hits, fc
  <2>. DEFINE R == {rank(i) : i \in hits}
  <2>0. \A i \in hits : rank(i) \in Nat
    BY <1>2, <1>3
  <2>. HIDE DEF rank
  <2>1. R \in SUBSET Nat /\ R # {}
    BY <1>1, <2>0
  <2>2. PICK x \in R : \A y \in R : x <= y
    BY <2>1, LeastOf
  <2>. DEFINE I == {i \in hits : rank(i) = x}
  <2>3. I \in SUBSET Nat /\ I # {}
    BY <1>1
  <2>4. PICK i \in I : \A j \in I : i <= j
    BY <2>3, LeastOf
  <2>5. \A j \in hits : rank(i) <= rank(j)
    BY <2>2
  <2>6. \A j \in hits : \/ FcSpecificity(fc[i]) > FcSpecificity(fc[j])
                        \/ FcSpecificity(fc[i]) = FcSpecificity(fc[j]) /\ rank(j) = x
    BY <1>2, <1>3, <2>5 DEF rank
  <2>. QED BY <2>4, <2>6 DEF Before
<1>. DEFINE k == CHOOSE i \in hits : \A j \in hits : Before(fc, i, j)
<1>5. k \in hits /\ \A j \in hits : Before(fc, k, j)
  BY <1>4
<1>6. ExpectedType(m, p, class) = fc[k].type
  BY <1>1 DEF ExpectedType
<1>. HIDE DEF k
<1>7. fc[k] \in Ours(m) /\ Applies(fc[k], p, class)
  BY <1>5 DEF Ours, ToSet
<1>8. ASSUME NEW s \in Ours(m), Applies(s, p, class)
      PROVE  FcSpecificity(fc[k]) >= FcSpecificity(s)
  <2>1. PICK j \in hits : s = fc[j]
    BY <1>8 DEF Ours, ToSet
  <2>2. Before(fc, k, j)
    BY <1>5
  <2>. QED BY <1>3, <1>5, <2>1, <2>2 DEF Before
<1>. QED BY <1>6, <1>7, <1>8

\* Where none of our rules applies nothing is expected, and only there.
LEMMA UnknownIsUnclaimed ==
  ASSUME NEW m, Sound(m), NEW p \in Path, NEW class
  PROVE  ExpectedType(m, p, class) = Unknown <=> ~\E r \in Ours(m) : Applies(r, p, class)
<1>1. CASE \E r \in Ours(m) : Applies(r, p, class)
  BY <1>1, ExpectedIsTop, OursTyped
<1>2. CASE ~\E r \in Ours(m) : Applies(r, p, class)
  <2>1. {i \in DOMAIN GenerateFC(m) : Applies(GenerateFC(m)[i], p, class)} = {}
    BY <1>2 DEF Ours, ToSet
  <2>. QED BY <1>2, <2>1 DEF ExpectedType
<1>. QED BY <1>1, <1>2

-----------------------------------------------------------------------------
(* What the system gives *)

(* What an installation checked of the rules of others. *)
Clear(m, base, local) ==
  /\ base \subseteq Rules /\ local \subseteq Rules
  /\ \A r \in base : r.type \notin AppTypes
  /\ \A e \in ToSet(m.exes) : ~Collides(ExecRule(e), base)
  /\ \A c \in Claims(m) : ~Collides(PathRule(c), base)
  /\ RulesUnderRoots(m, Ours(m) \cup base) = {}
  /\ ~LocalOverlaps(m, local)

IsRule(r) ==
  /\ r.root \in Path /\ r.tree \in BOOLEAN
  /\ r = [root |-> r.root, tree |-> r.tree, sel |-> r.sel, type |-> r.type]

\* Rules are made of a root, a scope, a selector and a type, and of nothing else.
LEMMA RulesAre ==
  /\ \A r \in Rules : IsRule(r)
  /\ \A m : Sound(m) => \A r \in Ours(m) : IsRule(r)
<1>1. \A r \in Rules : IsRule(r)
  BY DEF Rules, IsRule
<1>2. ASSUME NEW m, Sound(m), NEW r \in Ours(m)
      PROVE  IsRule(r)
  <2>1. r.root \in Path /\ r.tree \in BOOLEAN
    BY <1>2, OursTyped
  <2>2. (\E e : r = ExecRule(e)) \/ (\E c : r = PathRule(c))
    BY <1>2, OursTyped
  <2>. QED BY <2>1, <2>2 DEF ExecRule, PathRule, IsRule
<1>. QED BY <1>1, <1>2

\* A rule that all others yield to decides: whichever the system takes has its type.
LEMMA TopDecides ==
  ASSUME NEW class, NEW hits, NEW r \in hits,
         \A s \in hits : IsRule(s) /\ s.sel \in {"any", class} /\ Yields(s, r)
  PROVE  Best(hits).type = r.type
<1>. DEFINE Beats(x) == \A s \in hits \ {x} : Outranks(x, s)
            Same(s)  == s.root = r.root /\ s.tree = r.tree /\ s.type = r.type
<1>1. \A s \in hits : /\ s.root \in Path /\ s.tree \in BOOLEAN /\ Len(s.root) \in Nat
                      /\ s = [root |-> s.root, tree |-> s.tree, sel |-> s.sel, type |-> s.type]
  BY DEF IsRule, Path
<1>2. \E x \in hits : Beats(x)
  <2>1. CASE \E x \in hits : Same(x) /\ x.sel # "any"
    <3>1. PICK x \in hits : Same(x) /\ x.sel # "any"
      BY <2>1
    <3>2. \A s \in hits : Outranks(x, s)
      BY <3>1 DEF Outranks, Yields
    <3>. QED BY <3>2
  <2>2. CASE ~\E x \in hits : Same(x) /\ x.sel # "any"
    <3>1. ASSUME NEW s \in hits, Same(s)
          PROVE  s = r
      <4>1. s.sel = "any" /\ r.sel = "any"
        BY <2>2, <3>1
      <4>. QED BY <1>1, <3>1, <4>1
    <3>2. \A s \in hits \ {r} : Outranks(r, s)
      BY <3>1 DEF Outranks, Yields
    <3>. QED BY <3>2
  <2>. QED BY <2>1, <2>2
<1>. DEFINE x == CHOOSE x \in hits : Beats(x)
<1>3. x \in hits /\ \A s \in hits \ {x} : Outranks(x, s)
  BY <1>2
<1>4. Best(hits) = x
  BY DEF Best
<1>. HIDE DEF x
<1>5. CASE x = r
  BY <1>4, <1>5
<1>6. CASE x # r
  <2>1. Outranks(x, r) /\ Yields(x, r)
    BY <1>3, <1>6
  <2>2. Same(x)
    BY <1>1, <1>3, <2>1 DEF Outranks, Yields
  <2>. QED BY <1>4, <2>2
<1>. QED BY <1>5, <1>6

\* Among our own rules the most specific is the one that the system takes.
LEMMA OursYield ==
  ASSUME NEW m, Sound(m), NEW p \in Path, NEW class,
         NEW r \in Ours(m), Applies(r, p, class),
         NEW s \in Ours(m), Applies(s, p, class),
         FcSpecificity(r) >= FcSpecificity(s)
  PROVE  Yields(s, r)
<1>1. Len(p) \in Nat /\ Len(r.root) \in Nat /\ Len(s.root) \in Nat
      /\ r.root \in Path /\ s.root \in Path /\ r.tree \in BOOLEAN /\ s.tree \in BOOLEAN
  BY OursTyped DEF Path
<1>2. /\ IsPrefix(r.root, p) /\ Len(r.root) <= Len(p) /\ (~r.tree => r.root = p)
      /\ IsPrefix(s.root, p) /\ Len(s.root) <= Len(p) /\ (~s.tree => s.root = p)
  BY <1>1, AppliesAt
<1>. DEFINE Exe(x) == \E e \in ToSet(m.exes) : x = ExecRule(e) /\ x.root = e /\ x.type = "exec" /\ ~x.tree
            Cl(x)  == \E c \in Claims(m) : /\ x = PathRule(c) /\ x.root = c.root /\ x.tree = c.tree
                                           /\ x.type = TypeForKind(c.kind) /\ Literal(c.root)
<1>3. (Exe(r) \/ Cl(r)) /\ (Exe(s) \/ Cl(s))
  BY OursTyped
<1>4. CASE Exe(r) /\ Exe(s)
  BY <1>2, <1>4 DEF Yields
<1>5. ASSUME NEW x, NEW y, Exe(x), Cl(y), x.root = p, y.root \in Path, y.tree \in BOOLEAN,
             IsPrefix(y.root, p), ~y.tree => y.root = p
      PROVE  y.tree /\ FcSpecificity(x) > FcSpecificity(y)
  <2>1. y.tree
    BY <1>5 DEF Sound, Admissible
  <2>2. Literal(y.root) /\ Stem(y.root) = Len(y.root) /\ FcSpecificity(y) = 2 * Len(y.root)
    <3>1. Literal(y.root)
      BY <1>5
    <3>2. Stem(y.root) = Len(y.root) /\ Len(y.root) \in Nat
      BY <1>5, <3>1, StemOf DEF Path
    <3>. QED BY <2>1, <3>1, <3>2 DEF FcSpecificity
  <2>3. Len(y.root) \in Nat /\ Len(y.root) <= Len(p)
    BY <1>5, PrefixIs DEF Path
  <2>4. CASE Literal(p)
    <3>1. FcSpecificity(x) = 2 * Len(p) + 1
      BY <1>5, <2>4, StemOf DEF FcSpecificity
    <3>. QED BY <1>1, <2>1, <2>2, <2>3, <3>1
  <2>5. CASE ~Literal(p)
    <3>1. Len(y.root) < Stem(p) /\ Stem(p) \in 0 .. Len(p)
      BY <1>5, <2>2, <2>5, LiteralPrefix, StemOf
    <3>2. FcSpecificity(x) = 2 * Stem(p)
      BY <1>1, <1>5, <2>5, <3>1 DEF FcSpecificity
    <3>. QED BY <1>1, <2>1, <2>2, <2>3, <3>1, <3>2
  <2>. QED BY <2>4, <2>5
<1>6. CASE Exe(r) /\ Cl(s)
  <2>1. s.tree
    BY <1>1, <1>2, <1>5, <1>6
  <2>. QED BY <1>6, <2>1 DEF Yields
<1>7. CASE Cl(r) /\ Exe(s)
  <2>1. FcSpecificity(s) > FcSpecificity(r)
    BY <1>1, <1>2, <1>5, <1>7
  <2>2. FcSpecificity(s) \in Nat /\ FcSpecificity(r) \in Nat
    BY <1>1, SpecificityOf
  <2>. QED BY <2>1, <2>2
<1>8. CASE Cl(r) /\ Cl(s)
  <2>1. /\ FcSpecificity(r) = 2 * Len(r.root) + (IF r.tree THEN 0 ELSE 1)
        /\ FcSpecificity(s) = 2 * Len(s.root) + (IF s.tree THEN 0 ELSE 1)
    BY <1>1, <1>8, StemOf DEF FcSpecificity
  <2>2. CASE Len(r.root) = Len(s.root) /\ r.tree = s.tree
    <3>1. IsPrefix(r.root, s.root)
      BY <1>1, <1>2, <2>2, Comparable
    <3>2. r.root = s.root
      BY <1>1, <2>2, <3>1, FullPrefix
    <3>3. r.type = s.type
      BY <1>8, <2>2, <3>2 DEF Sound, Admissible
    <3>. QED BY <2>2, <3>2, <3>3 DEF Yields
  <2>3. CASE ~(Len(r.root) = Len(s.root) /\ r.tree = s.tree)
    <3>1. CASE r.tree = s.tree
      <4>1. Len(r.root) > Len(s.root)
        BY <1>1, <2>1, <2>3, <3>1
      <4>. QED BY <3>1, <4>1 DEF Yields
    <3>2. CASE r.tree /\ ~s.tree
      <4>1. Len(s.root) = Len(p) /\ Len(r.root) <= Len(p)
        BY <1>2, <3>2
      <4>2. FcSpecificity(r) = 2 * Len(r.root) /\ FcSpecificity(s) = 2 * Len(s.root) + 1
        BY <2>1, <3>2, <1>1
      <4>. QED BY <1>1, <4>1, <4>2
    <3>3. CASE ~r.tree /\ s.tree
      BY <3>3 DEF Yields
    <3>. QED BY <1>1, <3>1, <3>2, <3>3
  <2>. QED BY <2>2, <2>3
<1>. QED BY <1>3, <1>4, <1>6, <1>7, <1>8

\* A rule of the base policy yields to the most specific of ours, unless its literal
\* stem is the root of a tree itself and the rule is not the tree's.
LEMMA BaseYields ==
  ASSUME NEW m, Sound(m), NEW base, NEW local, Clear(m, base, local),
         NEW p \in Path, NEW class,
         NEW r \in Ours(m), Applies(r, p, class),
         NEW b \in base, Applies(b, p, class),
         ~\E c \in Claims(m) : c.tree /\ LiteralStem(b.root) = c.root /\ (b.root # c.root \/ ~b.tree)
  PROVE  Yields(b, r)
<1>1. /\ Len(p) \in Nat /\ Len(r.root) \in Nat /\ Len(b.root) \in Nat
      /\ r.root \in Path /\ b.root \in Path /\ r.tree \in BOOLEAN /\ b.tree \in BOOLEAN
  BY OursTyped, RulesAre DEF Path, IsRule, Clear
<1>2. /\ IsPrefix(r.root, p) /\ Len(r.root) <= Len(p) /\ (~r.tree => r.root = p)
      /\ IsPrefix(b.root, p) /\ Len(b.root) <= Len(p) /\ (~b.tree => b.root = p)
  BY <1>1, AppliesAt
<1>3. /\ LiteralStem(b.root) \in Path /\ IsPrefix(LiteralStem(b.root), b.root)
      /\ Literal(b.root) => LiteralStem(b.root) = b.root
      /\ ~Literal(b.root) => Len(LiteralStem(b.root)) \in {Stem(b.root), Stem(b.root) - 1}
  BY <1>1, LiteralStemOf
<1>4. \A c \in Claims(m) : ~IsStrictPrefix(c.root, LiteralStem(b.root))
  BY DEF Clear, RulesUnderRoots
<1>5. ASSUME NEW e \in ToSet(m.exes), r = ExecRule(e), r.root = e, r.type = "exec", ~r.tree
      PROVE  Yields(b, r)
  <2>1. CASE b.tree
    BY <1>5, <2>1 DEF Yields
  <2>2. CASE ~b.tree
    <3>1. b.root = r.root /\ b.tree = r.tree /\ b.sel \in {"any", class} /\ class = "file"
      <4>1. r.sel = "file" /\ r.sel \in {"any", class} /\ b.sel \in {"any", class}
        BY <1>5 DEF Applies, ExecRule
      <4>. QED BY <1>1, <1>2, <1>5, <2>2, <4>1
    <3>2. ~Collides(r, base)
      BY <1>5 DEF Clear
    <3>3. Overlap(b.sel, r.sel)
      BY <1>5, <3>1 DEF Overlap, ExecRule
    <3>. QED BY <3>1, <3>2, <3>3 DEF Collides, Yields
  <2>. QED BY <2>1, <2>2
<1>6. ASSUME NEW c \in Claims(m), r = PathRule(c), r.root = c.root, r.tree = c.tree, Literal(c.root)
      PROVE  Yields(b, r)
  <2>1. CASE b.root = c.root
    <3>1. CASE b.tree = r.tree
      <4>1. ~Collides(r, base)
        BY <1>6 DEF Clear
      <4>2. Overlap(b.sel, r.sel)
        BY <1>6 DEF Overlap, PathRule
      <4>. QED BY <1>6, <2>1, <3>1, <4>1, <4>2 DEF Collides, Yields
    <3>2. CASE b.tree /\ ~r.tree
      BY <3>2 DEF Yields
    <3>3. CASE ~b.tree /\ r.tree
      <4>1. LiteralStem(b.root) = c.root
        BY <1>3, <1>6, <2>1
      <4>. QED BY <1>6, <3>3, <4>1
    <3>. QED BY <1>1, <3>1, <3>2, <3>3
  <2>2. CASE b.root # c.root /\ Len(b.root) <= Len(c.root)
    <3>1. Len(b.root) # Len(c.root)
      BY <1>1, <1>2, <1>6, <2>2, Comparable, FullPrefix
    <3>2. b.tree
      BY <1>1, <1>2, <1>6, <2>2, <3>1
    <3>3. Len(r.root) > Len(b.root)
      BY <1>1, <1>6, <2>2, <3>1
    <3>4. r.tree = TRUE \/ r.tree = FALSE
      BY <1>1
    <3>5. b.tree = TRUE
      BY <1>1, <3>2
    <3>. QED BY <3>3, <3>4, <3>5 DEF Yields
  <2>3. CASE Len(b.root) > Len(c.root)
    <3>1. c.tree
      BY <1>1, <1>2, <1>6, <2>3
    <3>2. IsPrefix(c.root, b.root)
      BY <1>1, <1>2, <1>6, <2>3, Comparable
    <3>3. ~Literal(b.root)
      BY <1>1, <1>3, <1>4, <1>6, <2>3, <3>2, StrictIsShorter
    <3>4. Len(c.root) < Stem(b.root) /\ Stem(b.root) \in 0 .. Len(b.root)
      BY <1>1, <1>6, <3>2, <3>3, LiteralPrefix, StemOf
    <3>5. IsPrefix(c.root, LiteralStem(b.root))
      <4>1. Len(c.root) <= Len(LiteralStem(b.root))
        BY <1>1, <1>3, <1>6, <3>3, <3>4
      <4>. QED BY <1>1, <1>3, <1>6, <3>2, <4>1, Comparable
    <3>6. c.root = LiteralStem(b.root)
      BY <1>4, <3>5 DEF IsStrictPrefix
    <3>7. b.root # c.root
      BY <2>3
    <3>. QED BY <3>1, <3>6, <3>7
  <2>. QED BY <1>1, <1>6, <2>1, <2>2, <2>3
<1>7. \/ \E e \in ToSet(m.exes) : r = ExecRule(e) /\ r.root = e /\ r.type = "exec" /\ ~r.tree
      \/ \E c \in Claims(m) : r = PathRule(c) /\ r.root = c.root /\ r.tree = c.tree /\ Literal(c.root)
  BY OursTyped
<1>. QED BY <1>5, <1>6, <1>7

\* A customization of a claimed path is refused, unless it has no literal stem.
LEMMA LocalsStayAway ==
  ASSUME NEW m, Sound(m), NEW base, NEW local, Clear(m, base, local),
         NEW p \in Path, NEW class,
         NEW c \in Claims(m), Applies(PathRule(c), p, class),
         NEW l \in local, Applies(l, p, class)
  PROVE  LiteralStem(l.root) = <<>>
<1>1. c.root \in Path /\ l.root \in Path /\ PathRule(c).root = c.root
  BY RulesAre DEF Sound, Clear, PathRule, IsRule
<1>2. IsPrefix(c.root, p) /\ IsPrefix(l.root, p)
  BY <1>1, AppliesAt
<1>3. LiteralStem(l.root) \in Path /\ IsPrefix(LiteralStem(l.root), l.root)
  BY <1>1, LiteralStemOf
<1>. DEFINE s == LiteralStem(l.root)
<1>4. IsPrefix(s, p)
  <2>1. Len(s) \in Nat /\ Len(l.root) \in Nat /\ Len(p) \in Nat
    BY <1>1, <1>3 DEF Path
  <2>. QED BY <1>1, <1>2, <1>3, <2>1, PrefixIs
<1>5. IsPrefix(s, c.root) \/ IsPrefix(c.root, s)
  <2>1. Len(s) \in Nat /\ Len(c.root) \in Nat
    BY <1>1, <1>3 DEF Path
  <2>. QED BY <1>1, <1>2, <1>3, <1>4, <2>1, Comparable
<1>. QED BY <1>5 DEF Clear, LocalOverlaps

\* What is expected of a path is what the system gives it, but for the rules that the
\* checks of an installation do not look at.
LEMMA ExpectedIsGiven ==
  ASSUME NEW m, Sound(m), NEW base, NEW local, Clear(m, base, local),
         NEW p \in Path, NEW class,
         ExpectedType(m, p, class) # Unknown,
         ~Unseen(m, base, local, p, class)
  PROVE  Label(Ours(m) \cup base, local, p, class) = ExpectedType(m, p, class)
<1>. DEFINE hits == {r \in Ours(m) \cup base : Applies(r, p, class)}
<1>1. PICK r \in Ours(m) :
        /\ Applies(r, p, class) /\ r.type = ExpectedType(m, p, class)
        /\ \A s \in Ours(m) : Applies(s, p, class) => FcSpecificity(r) >= FcSpecificity(s)
  BY UnknownIsUnclaimed, ExpectedIsTop
<1>2. {l \in local : Applies(l, p, class)} = {}
  BY LocalsStayAway DEF Unseen, Claimed
<1>3. ASSUME NEW s \in hits
      PROVE  IsRule(s) /\ s.sel \in {"any", class} /\ Yields(s, r)
  <2>1. IsRule(s)
    BY RulesAre DEF Clear
  <2>2. CASE s \in Ours(m)
    BY <1>1, <2>1, <2>2, OursYield DEF Applies
  <2>3. CASE s \in base
    <3>1. s.sel \in {"any", class} /\ Applies(s, p, class)
      BY DEF Applies
    <3>2. ~\E c \in Claims(m) : c.tree /\ LiteralStem(s.root) = c.root /\ (s.root # c.root \/ ~s.tree)
      BY <2>3, <3>1 DEF Unseen
    <3>. QED BY <1>1, <2>1, <2>3, <3>1, <3>2, BaseYields
  <2>. QED BY <2>2, <2>3, <2>1
<1>4. r \in hits
  BY <1>1
<1>5. Label(Ours(m) \cup base, local, p, class) = Best(hits).type
  BY <1>2, <1>4 DEF Label
<1>. HIDE DEF hits
<1>. QED BY <1>1, <1>3, <1>4, <1>5, TopDecides
=============================================================================
