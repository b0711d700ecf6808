---------------------------- MODULE AvcCorrelate ----------------------------
(***************************************************************************)
(* avc.ParseLogWithPaths and avc.Merge (internal/avc/avc.go): from the     *)
(* records of an audit log to the denials the policy is refined with.      *)
(*                                                                         *)
(* A record is [kind, event, ino, name, perms]: an "AVC" with the inode of *)
(* its object and the path it carries, if any; a "PATH" with its inode and *)
(* name; a "CWD"; any other.  A path is a sequence of components that      *)
(* starts with Root when it is absolute, and <<>> is the empty string; an  *)
(* inode that is not in the record is NoIno.  What the records of one      *)
(* event have in common (source, target type, class) is the event's.      *)
(* The decoding of a line's text is left out.                              *)
(***************************************************************************)
EXTENDS Naturals, Sequences, SequencesExt

CONSTANTS Root, Up, NoIno

(* path.Clean on the joined path: ".." takes the component before it away. *)
Clean(p) ==
  FoldLeft(LAMBDA done, c : IF c # Up THEN Append(done, c)
                            ELSE IF Len(done) > 1 THEN Front(done) ELSE done,
           <<>>, p)

Of(s, ev, kind) == {i \in DOMAIN s : s[i].kind = kind /\ s[i].event = ev}

(* A PATH record without a name is skipped before it is counted. *)
Named(s, ev) == {i \in Of(s, ev, "PATH") : s[i].name # <<>>}

(* Later records of an event overwrite earlier ones in the parser's maps. *)
Latest(P) == CHOOSE i \in P : \A j \in P : j <= i

WithInode(s, ev, ino) == {i \in Named(s, ev) : ino # NoIno /\ s[i].ino = ino}

Resolve(s, ev, name) ==
  LET cwds == Of(s, ev, "CWD")
  IN  IF Head(name) = Root \/ cwds = {} THEN name
      ELSE Clean(s[Latest(cwds)].name \o name)

\* Mutant: any PATH record of the event will do.
PathOfGuessing(s, i) ==
  LET ev    == s[i].event
      exact == WithInode(s, ev, s[i].ino)
  IN  CASE s[i].name # <<>>                                   -> s[i].name
        [] s[i].name = <<>> /\ exact # {}                     -> Resolve(s, ev, s[Latest(exact)].name)
        [] s[i].name = <<>> /\ exact = {} /\ Named(s, ev) # {} -> Resolve(s, ev, s[Latest(Named(s, ev))].name)
        [] OTHER                                              -> <<>>

(* The path of the AVC at position i: its own, that of its inode's record, or the lone one. *)
PathOf(s, i) ==
  LET ev    == s[i].event
      exact == WithInode(s, ev, s[i].ino)
      lone  == Named(s, ev)
  IN  CASE s[i].name # <<>>                                 -> s[i].name
        [] s[i].name = <<>> /\ exact # {}                   -> Resolve(s, ev, s[Latest(exact)].name)
        [] s[i].name = <<>> /\ exact = {} /\ \E j \in lone : lone = {j}
                                                            -> Resolve(s, ev, s[Latest(lone)].name)
        [] OTHER                                            -> <<>>

Avcs(s) == {i \in DOMAIN s : s[i].kind = "AVC"}

DenialAt(s, i) == [path |-> PathOf(s, i), ino |-> s[i].ino, perms |-> s[i].perms]

(* Merge: one denial for each path and inode, with the permissions of all of them. *)
\* Mutant: the path is not part of the key.
SameInode(d, e) == d.ino = e.ino

SameFile(d, e) == d.path = e.path /\ d.ino = e.ino

Merge(D) == {[d EXCEPT !.perms = UNION {e.perms : e \in {e \in D : SameFile(d, e)}}] : d \in D}

Denials(s) == Merge({DenialAt(s, i) : i \in Avcs(s)})
=============================================================================
