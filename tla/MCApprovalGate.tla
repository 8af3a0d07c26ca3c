--------------------------- MODULE MCApprovalGate ---------------------------
(* The instances of ApprovalGate that TLC checks. *)
EXTENDS ApprovalGate, TLC

CONSTANT MaxRejected  \* bound on the rejected confirmations of a request

Symmetry == Permutations(Gate) \cup Permutations(Handler) \cup Permutations(Request)
            \cup Permutations(Approver) \cup Permutations(Conf)

\* Transactions of different processes do not overlap, processes restore one at a
\* time, few confirmations are rejected, and a torn snapshot ends the search once it
\* is put back.
OneAtATime ==
  /\ torn = {}
  /\ \A r \in Request :
       Cardinality({i \in DOMAIN log[r] : log[r][i].type = "rejected"}) <= MaxRejected
  /\ Cardinality({g \in Gate : ~Free(g)}) <= 1
  /\ Cardinality({g \in Gate : \E h \in Handler : restoring[g][h].pc # "idle"}) <= 1
=============================================================================
