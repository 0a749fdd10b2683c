---------------------------- MODULE MCResolution ----------------------------
(***************************************************************************)
(* Resolution of three imports of one file, with namesakes beside it, in   *)
(* an aliased directory, in node_modules and as the index of a directory.  *)
(***************************************************************************)
EXTENDS Resolution

Main == <<"app", "main.scss">>
Plain1 == <<"app", "lib.scss">>
Partial == <<"app", "_lib.scss">>
Index == <<"app", "lib", "_index.scss">>
Shared == <<"shared", "lib.scss">>
Package == <<"node_modules", "_lib.sass">>
Reset == <<"app", "reset.css">>

MCFiles == {Main, Plain1, Partial, Index, Shared, Package, Reset}

\* ".." stays in what the resolver finds.
MCNames ==
    MCFiles \cup {<<dir, "..">> \o g : dir \in {"app", "shared", "node_modules"},
                                    g \in {Shared, Package}}

MCUses == [g \in MCFiles |->
    CASE g = Main -> <<<<"lib">>, <<"@s", "lib">>, <<"..", "shared", "lib">>>>
      [] g = Shared -> <<<<"lib">>, <<"sass:math">>>>
      [] g = Index -> <<<<"reset.css">>>>
      [] OTHER -> <<>>]

MCLoadPaths == <<<<"shared">>>>
MCRegistered == <<[prefix |-> <<"@s">>, targets |-> <<<<"shared">>, <<"app">>>>]>>
MCBuiltins == {"sass:math"}

\* The user edits the importing file; the others come and go.
MCInit == Init /\ disk \in {{Main, Reset}, {Main, Reset, Plain1, Shared}, MCFiles}

MCNext ==
    \/ Worker
    \/ Edit(Main)
    \/ \E g \in Files \ {Main, Reset} : Create(g) \/ Delete(g)

MCSpec == MCInit /\ [][MCNext]_vars
=============================================================================
