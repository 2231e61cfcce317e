----------------------------- MODULE MCGoVendor -----------------------------
(***************************************************************************)
(* Values for TLC: sources that include one header or two, two revisions   *)
(* that differ in the second header, and in whether the first includes it  *)
(* (upstream has since tagged one of them), a patch for the first, and a   *)
(* revision it does not apply to, whose .cc files include both.            *)
(***************************************************************************)
EXTENDS GoVendor

MCOwn == {"one", "two"}
MCRevisions == {"r1", "r2", "r3"}
MCHeaders == {"h1", "h2"}
MCNeeds ==
    [own \in MCOwn |-> [cc \in MCRevisions |-> [lf \in MCRevisions |->
        IF own = "two" \/ cc = "r3" \/ lf = "r2" THEN MCHeaders ELSE {"h1"}]]]
MCText ==
    [r1 |-> [h1 |-> "a", h2 |-> "a"], r2 |-> [h1 |-> "a", h2 |-> "b"],
     r3 |-> [h1 |-> "b", h2 |-> "b"]]
MCApplies == {"r1", "r2"}
MCTagged == {"r2"}
=============================================================================
