---------------------------- MODULE MCRefinement ----------------------------
(* A program with its tree, its state beneath it and its configuration. *)
EXTENDS Refinement

S == <<"srv", "widget">>
D == <<"srv", "widget", "state">>
F == <<"srv", "widget", "state", "f">>
H == <<"srv", "widget", ".ssh">>
X == <<"bin", "widgetd">>
E == <<"srv", "widget", "widgetd">>
P == <<"bin", "hostname">>

Claim(p, t, k) == [root |-> p, tree |-> t, kind |-> k, owned |-> FALSE]
Rule(p, t, s, y) == [root |-> p, tree |-> t, sel |-> s, type |-> y]

MCPaths == {S, D, F, H, X, P}

MCInstalls == {{X, P}, {X, S, D, F}}

MCClass == [p \in Paths |-> IF p \in {S, D} THEN "dir" ELSE "file"]

Tree  == Claim(S, TRUE, "content")
State == Claim(D, TRUE, "var_lib")

(* The broad claim first, the nested one first; then what Load refuses: a tree of units, *)
(* a path of two kinds, a hidden directory, a shared directory.                         *)
MCManifests == {
  [exes |-> <<X>>, paths |-> <<Tree, State>>],
  [exes |-> <<X>>, paths |-> <<Claim(F, FALSE, "conf"), Claim(D, TRUE, "log")>>],
  [exes |-> <<X>>, paths |-> <<Claim(<<"etc", "systemd">>, TRUE, "unit")>>],
  [exes |-> <<X>>, paths |-> <<Tree, Claim(S, TRUE, "log")>>],
  [exes |-> <<X>>, paths |-> <<State, Claim(H, TRUE, "cache")>>],
  [exes |-> <<X>>, paths |-> <<Claim(<<"srv">>, TRUE, "var_lib")>>] }

MCBroad  == {<<"srv">>, <<"etc">>, <<"bin">>}
MCShared == {<<"etc", "systemd", "system">>}

System == {Rule(P, FALSE, "file", "hostname_exec_t"), Rule(<<"srv">>, TRUE, "any", "var_lib_t")}

MCBases == {System,
            System \cup {Rule(D, TRUE, "file", "etc_t")},
            System \cup {Rule(F, FALSE, "any", "proc_t")},
            System \cup {Rule(S, FALSE, "any", "proc_t"), Rule(H, TRUE, "any", "ssh_home_t")}}

MCLocals == {{}, {Rule(S, TRUE, "any", "etc_t")}, {Rule(X, FALSE, "file", "etc_t")}}

MCStray == {"conf", "proc_t"}

Self(c, x) == [source |-> Domain, path |-> <<>>, ino |-> <<>>, class |-> c, type |-> Domain, perms |-> {x}]
MCSelf == {Self("capability", "net_bind_service"), Self("process", "execmem")}

(* An entrypoint inside the tree of the program, as in targets/emby.yaml. *)
MCInside == {[exes |-> <<E>>, paths |-> <<Tree, State>>]}

MCInsidePaths == {S, D, E}

MCInsideInstalls == {{S, E}}
=============================================================================
