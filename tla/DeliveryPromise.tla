---------------------------- MODULE DeliveryPromise ----------------------------
(***************************************************************************)
(* What background delivery promises (docs/01 6.5: "Delivery semantics:    *)
(* at-least-once"; no infinite retries), with no worker, queue or Redis:   *)
(* a requested notification may reach its recipient several times, but a   *)
(* bounded number of times, only before its outcome is recorded, and the   *)
(* outcome "delivered" needs at least one copy.                            *)
(***************************************************************************)
EXTENDS Naturals

CONSTANTS Notification, Failures, Limit

VARIABLES requested,    \* notifications handed to the service
          acknowledged, \* those whose caller was told they are queued
          got,          \* copies each recipient received
          outcome       \* "none" until recorded

promise == <<requested, acknowledged, got, outcome>>

Init ==
  /\ requested = {} /\ acknowledged = {}
  /\ got = [n \in Notification |-> 0]
  /\ outcome = [n \in Notification |-> "none"]

Open(n) == n \in requested /\ outcome[n] = "none"

Request(n) ==
  /\ requested' = requested \cup {n}
  /\ UNCHANGED <<acknowledged, got, outcome>>

Acknowledge(n) ==
  /\ n \in requested
  /\ acknowledged' = acknowledged \cup {n}
  /\ UNCHANGED <<requested, got, outcome>>

Receive(n) ==
  /\ Open(n) /\ got[n] < Limit
  /\ got' = [got EXCEPT ![n] = @ + 1]
  /\ UNCHANGED <<requested, acknowledged, outcome>>

Conclude(n) ==
  /\ Open(n)
  /\ \/ got[n] > 0 /\ outcome' = [outcome EXCEPT ![n] = "delivered"]
     \/ \E f \in Failures : outcome' = [outcome EXCEPT ![n] = f]
  /\ UNCHANGED <<requested, acknowledged, got>>

Next == \E n \in Notification :
          Request(n) \/ Acknowledge(n) \/ Receive(n) \/ Conclude(n)

Spec == Init /\ [][Next]_promise

=============================================================================
