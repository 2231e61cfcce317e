--------------------------- MODULE MCLigeroParam ---------------------------
(***************************************************************************)
(* Two builds whose SIZE_MAX differ, small circuits, sizes up to 256.  Each*)
(* starts from its own memory: all zero, never zero, or one that passes    *)
(* sanity() by itself.                                                     *)
(***************************************************************************)
EXTENDS LigeroParam

MCSizeMax == [m \in Machines |-> IF m = "wasm" THEN 75 ELSE 100000]
MCSizes == [i \in 1..9 |-> 2^(i - 1)]
MCMachines == {"wasm", "native"}
MCRequests ==
    [nw : {0, 1, 5, 6, 20, 43}, nq : {0, 3, 7, 16}, rateinv : {3, 4, 7},
     nreq : {1, 2, 5}]
MCGarbage ==
    {[x \in Members |-> 0], [x \in Members |-> 300],
     [x \in Members |-> IF x \in {"block", "nwrow", "nqtriples"} THEN 0 ELSE 3]}
=============================================================================
