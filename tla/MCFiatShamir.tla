---------------------------- MODULE MCFiatShamir ----------------------------
(***************************************************************************)
(* A circuit of two layers with two and one rounds, two public inputs.     *)
(* Proofs of one value everywhere, and one whose values differ between the *)
(* messages that are absorbed next to each other.                          *)
(***************************************************************************)
EXTENDS FiatShamir

MCLogW == <<2, 1>>
MCValues == 0..3
MCVersions == {6, 7}

MCStatements ==
    {[id |-> "canonical", pub |-> <<0, 1>>],
     [id |-> "canonical", pub |-> <<1, 0>>],
     [id |-> "canonical", pub |-> <<1, 1>>],
     [id |-> "other", pub |-> <<1, 1>>]}

Stripe(m) ==
    CASE m[1] = "root" -> 1
      [] m[1] = "wc" -> 3
      [] m[1] = "hp" -> (m[3] + 2 * m[4] + m[5]) % 4
      [] m[1] = "y_ldt" -> 0
      [] m[1] = "y_dot" -> 1
      [] m[1] = "y_quad_0" -> 2
      [] m[1] = "y_quad_2" -> 3

MCProofs ==
    {[m \in Messages |-> 0], [m \in Messages |-> 1], [m \in Messages |-> Stripe(m)]}
=============================================================================
