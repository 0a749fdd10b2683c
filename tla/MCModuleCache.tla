--------------------------- MODULE MCModuleCache ---------------------------
(***************************************************************************)
(* Instances of ModuleCache: up to three files, one of them (b) indented   *)
(* Sass.  One handler thread besides the worker is what the server runs:   *)
(* no handler awaits while it uses a cache, so the serving task executes   *)
(* them one after the other.                                               *)
(***************************************************************************)
EXTENDS ModuleCache, TLC

CONSTANTS a, b, c, x, y

\* The texts are alike, and so are the files with one syntax.
Renamings == {t @@ f : t \in Permutations(Text), f \in Permutations({a, c})}

\* What tells states apart: not the location being built, which no step reads,
\* nor the file of a thread's last call.
Behaviour ==
    <<files, tree_lru, source_lru, tree_mutex, source_mutex, pc, held, kept,
      overtaken, [t \in Thread |-> IF pc[t] = "idle" THEN None ELSE arg[t]]>>
=============================================================================
