------------------------------- MODULE Grant -------------------------------
(***************************************************************************)
(* What the approval gate promises of each request: it is asked for once,  *)
(* approved at most once, and once it has ended (it was used, revoked or   *)
(* has expired) nothing approves or uses it again.  Of a request that has  *)
(* become void nothing is promised.                                        *)
(***************************************************************************)
EXTENDS Naturals

CONSTANT Request

VARIABLES status,   \* the status of each request, "none" before it is submitted
          used      \* how often each request has authorised an operation

Init == /\ status = [r \in Request |-> "none"]
        /\ used = [r \in Request |-> 0]

Ask(r, s) == /\ status[r] = "none" /\ s \in {"pending", "approved"}
             /\ status' = [status EXCEPT ![r] = s]
             /\ UNCHANGED used

Approve(r) == /\ status[r] = "pending"
              /\ status' = [status EXCEPT ![r] = "approved"]
              /\ UNCHANGED used

Use(r) == /\ status[r] = "approved"
          /\ status' = [status EXCEPT ![r] = "revoked"]
          /\ used' = [used EXCEPT ![r] = @ + 1]

End(r, s) == /\ \/ status[r] = "pending" /\ s = "expired"
                \/ status[r] \in {"pending", "approved", "expired"} /\ s = "revoked"
             /\ status' = [status EXCEPT ![r] = s]
             /\ UNCHANGED used

Void(rs) == /\ status' = [r \in Request |-> IF r \in rs THEN "void" ELSE status[r]]
            /\ used' = [r \in Request |-> IF r \in rs THEN 0 ELSE used[r]]

Next == \/ \E rs \in SUBSET Request : Void(rs)
        \/ \E r \in Request : \/ Approve(r) \/ Use(r)
                              \/ \E s \in {"pending", "approved"} : Ask(r, s)
                              \/ \E s \in {"expired", "revoked"} : End(r, s)

Spec == Init /\ [][Next]_<<status, used>>
=============================================================================
