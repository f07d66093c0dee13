------------------------------ MODULE WriteLedger ------------------------------
(***************************************************************************)
(* What a routed write promises, without saying how: the write sent under  *)
(* an idempotency key changes the SQLite image at most once, is paid for   *)
(* at most once and only after it changed the image, and is acknowledged   *)
(* only once it is paid.  RoutedWrites is the protocol between the control *)
(* canister and the shard that has to keep this promise.                   *)
(***************************************************************************)
EXTENDS Integers

CONSTANTS Keys,         \* idempotency keys, the operation_id of a routed write
          Bodies,       \* distinct requests (method, SQL text, parameters)
          NoBody,       \* "no such operation"
          Cost,         \* Cost[b]: billing units of request b
          InitBalance   \* units the database starts with

VARIABLES applied,      \* applied[k]: the request that changed the image under k
          charged,      \* keys that were paid for
          acked,        \* keys whose caller was told "applied"
          balance,      \* units left
          spent         \* units spent since creation

ledger == <<applied, charged, acked, balance, spent>>

Clamp(n) == IF n > 0 THEN n ELSE 0

Init == /\ applied = [k \in Keys |-> NoBody]
        /\ charged = {}
        /\ acked = {}
        /\ balance = InitBalance
        /\ spent = 0

Apply(k, b) == /\ applied[k] = NoBody
               /\ applied' = [applied EXCEPT ![k] = b]
               /\ UNCHANGED <<charged, acked, balance, spent>>

(* A charge may come with the acknowledgement or, when it is made by a     *)
(* later reconciliation, without one.                                      *)
Charge(k) == /\ applied[k] # NoBody
             /\ k \notin charged
             /\ charged' = charged \cup {k}
             /\ acked' \in {acked, acked \cup {k}}
             /\ balance' = Clamp(balance - Cost[applied[k]])
             /\ spent' = spent + Cost[applied[k]]
             /\ UNCHANGED applied

Acknowledge(k) == /\ k \in charged
                  /\ acked' = acked \cup {k}
                  /\ UNCHANGED <<applied, charged, balance, spent>>

Credit == /\ balance' > balance
          /\ UNCHANGED <<applied, charged, acked, spent>>

Next == \/ \E k \in Keys : \/ \E b \in Bodies : Apply(k, b)
                           \/ Charge(k)
                           \/ Acknowledge(k)
        \/ Credit

Spec == Init /\ [][Next]_ledger
================================================================================
