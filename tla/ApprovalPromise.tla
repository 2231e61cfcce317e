--------------------------- MODULE ApprovalPromise ---------------------------
(***************************************************************************)
(* The abstract specification: keys sign messages, and a verifier says     *)
(* "verified" only for a statement that the signatures made so far         *)
(* justify.  Circuits, witnesses and proofs do not appear.                 *)
(***************************************************************************)
EXTENDS ApprovalTypes

VARIABLES signatures,  \* who has signed what
          accepted     \* statements the verifier has returned SUCCESS for

vars == <<signatures, accepted>>

Init ==
    /\ signatures = {}
    /\ accepted = {}

Sign ==
    /\ \E sig \in Signature : signatures' = signatures \cup {sig}
    /\ UNCHANGED accepted

Accept ==
    /\ \E st \in Statements :
        /\ Justified(signatures, st)
        /\ accepted' = accepted \cup {st}
    /\ UNCHANGED signatures

Next == Sign \/ Accept

Spec == Init /\ [][Next]_vars
=============================================================================
