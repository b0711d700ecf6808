---------------------------- MODULE MCSliceRead -----------------------------
(* Two events with the kinds of records the kernel writes for a denial. *)
EXTENDS SliceRead

CONSTANTS e1, e2, i1, i2, d, f, g

Avc(ino, name, perm) == [kind |-> "AVC", ino |-> ino, name |-> name, perms |-> {perm}]
Cwd(name)            == [kind |-> "CWD", ino |-> NoIno, name |-> name, perms |-> {}]
Path(ino, name)      == [kind |-> "PATH", ino |-> ino, name |-> name, perms |-> {}]

MCShapes == {
  <<Avc(i1, <<>>, "read"), Cwd(<<Root, d>>), Path(i1, <<f>>)>>,                  \* a relative name
  <<Avc(i1, <<>>, "write"), Path(i2, <<Root, d>>), Path(i1, <<Root, d, g>>)>>,   \* the directory, then the file
  <<Avc(i1, <<Root, d, f>>, "execute")>>,                                        \* the AVC has its path
  <<Avc(NoIno, <<>>, "write"), Path(i1, <<Root, f>>), Path(NoIno, <<Root, g>>)>>,  \* several and no inode
  <<Avc(i2, <<>>, "search"), Path(NoIno, <<>>), Path(NoIno, <<Root, d, f>>)>>,   \* a lookup that failed
  <<Avc(i1, <<>>, "rename"), Cwd(<<Root, d, f>>), Path(i1, <<f>>), Path(i1, <<Up, g>>)>> }
=============================================================================
