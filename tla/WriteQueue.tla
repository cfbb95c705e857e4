----------------------------- MODULE WriteQueue -----------------------------
(***************************************************************************)
(* The keyed write queue of control/write_queue.py as a pure data type.    *)
(* A queue maps every register key to the one write waiting for it, or to  *)
(* NoItem.  asyncio never suspends a caller inside the queue (its own lock *)
(* is never contended), so each method is one function on queue values.    *)
(***************************************************************************)
EXTENDS Integers

(* The keys the integration ever enqueues.                                 *)
Keys == {"keepalive", "current_limit"}

(* Every register the integration writes; 405 never goes through the queue *)
Registers == Keys \cup {"phase_switch_mode"}

(* WritePriority: the smallest number is written first.                    *)
CONTROL   == 10
KEEPALIVE == 20
CURRENT   == 30
Priorities == {CONTROL, KEEPALIVE, CURRENT}

(* QueuedWrite.reason, reduced to the owner that asked for the write.      *)
Reasons == {"none", "automatic", "external_controller"}

QueuedWrite == [key: Registers, value: Nat, priority: Priorities, reason: Reasons]

NoItem == [key |-> "none", value |-> 0, priority |-> CURRENT, reason |-> "none"]

Queues == [Keys -> QueuedWrite \cup {NoItem}]

EmptyQueue == [k \in Keys |-> NoItem]

Pending(q) == {k \in Keys : q[k] # NoItem}

(* enqueue: a waiting write yields only to one at least as urgent.         *)
Yields(existing, item) == existing = NoItem \/ item.priority <= existing.priority

Enqueue(q, item) ==
  IF Yields(q[item.key], item) THEN [q EXCEPT ![item.key] = item] ELSE q

(* dequeue_next: the most urgent write.  Two waiting writes never have the *)
(* same priority (the two keys use different ones), so the code's second   *)
(* sort key, the creation time, never decides.                             *)
MostUrgent(q) ==
  CHOOSE k \in Pending(q) : \A l \in Pending(q) : q[k].priority <= q[l].priority

(* The dequeued write leaves.                                              *)
Without(q, k) == [q EXCEPT ![k] = NoItem]
=============================================================================
