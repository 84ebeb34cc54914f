----------------------------- MODULE MCDelivery -----------------------------
(* A small instance of Delivery for TLC. *)
EXTENDS Delivery, TLC

CONSTANTS c1, c2,         \* children of the daemon
          a1, a2,         \* artifacts, each of the initiative of its name
          draft, secret   \* contents of an artifact

OwnInitiative == [t \in Artifact |-> t]

Symmetry == {p @@ q : p \in Permutations({c1, c2}), q \in Permutations({a1, a2})}
=============================================================================
