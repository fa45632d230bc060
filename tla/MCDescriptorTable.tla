-------------------------- MODULE MCDescriptorTable --------------------------
(* Three threads, four context addresses, two slots. Contexts and threads   *)
(* are interchangeable, and no property is temporal, so symmetry is sound. *)
EXTENDS DescriptorTable, TLC

CONSTANTS app1, app2, recv, c1, c2, c3, c4

MCThreads == {app1, app2, recv}
MCCtxs == {c1, c2, c3, c4}

Symmetry == Permutations(MCThreads) \cup Permutations(MCCtxs)
=============================================================================
