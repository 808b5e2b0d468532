---------------------------- MODULE MCSnapshots ----------------------------
(* Two small commits that share a directory; c1 has a link, c2 a submodule   *)
(* and a file whose size GitHub did not send.                                *)
EXTENDS Snapshots, TLC

CONSTANTS m1, m2, r1, r2, c1, c2, root, src, main, big, link, vendored

TreeDef == c1 :> {src, main, link} @@ c2 :> {src, main, big, vendored}

InDef == [e \in {src, big, link, vendored} |-> root] @@ main :> src

BelowDef == root :> {src, main, big, link, vendored}
            @@ src :> {main}

SizeDef == main :> 1 @@ link :> 1 @@ big :> None

Symmetry == Permutations(Machines) \cup Permutations(Requests)
============================================================================
