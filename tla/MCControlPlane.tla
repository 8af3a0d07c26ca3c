--------------------------- MODULE MCControlPlane ---------------------------
(* The instances of ControlPlane that TLC checks. *)
EXTENDS ControlPlane, TLC

\* Nodes and payloads are only compared for equality.
Symmetry == Permutations(Node) \cup Permutations(Payload)

\* A state constraint: processes boot side by side until one of them has crashed
\* or a third term is reached, and one after the other from then on.
OneBoot ==
  \A m, n \in Node : phase[m] = "booting" /\ phase[n] = "booting" =>
                       m = n \/ (crashes = 0 /\ term <= 2)
===============================================================================
