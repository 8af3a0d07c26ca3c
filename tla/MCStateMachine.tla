---------------------------- MODULE MCStateMachine ----------------------------
(* The instance of StateMachine that TLC checks. *)
EXTENDS StateMachine, TLC

\* Nodes, payloads and nonces are only compared for equality.
Symmetry == Permutations(Node) \cup Permutations(Payload) \cup Permutations(Nonce)
===============================================================================
