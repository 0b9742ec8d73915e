------------------------------ MODULE Virtqueue ------------------------------
(***************************************************************************)
(* The split virtqueue (nawa/virtio/src/queue.rs): a descriptor table, a   *)
(* ring the driver fills and a ring the device fills back.  A queue is a   *)
(* record, so that a driver can own several.  Ring indices wrap at         *)
(* INDICES, which QUEUE_SIZE divides because both are powers of two.       *)
(*                                                                         *)
(* `seen` is the device's own place in the available ring; the device's    *)
(* half (dev_...) is external.                                             *)
(***************************************************************************)
EXTENDS Integers, Sequences

CONSTANTS QUEUE_SIZE,   \* descriptors (8, or fewer if the device says so)
          INDICES       \* values of a ring index (2^16)

ASSUME QueueAssumption ==
  /\ QUEUE_SIZE \in Nat \ {0} /\ INDICES \in Nat \ {0}
  /\ INDICES % QUEUE_SIZE = 0 /\ QUEUE_SIZE < INDICES

Slots == 0..(QUEUE_SIZE - 1)

Queue_new ==
  [descriptors |-> [i \in Slots |-> 0], available |-> [i \in Slots |-> 0],
   available_index |-> 0, used |-> [i \in Slots |-> [id |-> 0, length |-> 0]],
   used_index |-> 0, next_descriptor |-> 0, last_used |-> 0, broken |-> FALSE,
   seen |-> 0]

(* Mutant: a queue with an abandoned request is used on. *)
may_submit_EvenBroken(q) == TRUE

(* A broken queue refuses; every chain here is one buffer. *)
may_submit(q) == ~q.broken

(* The head the next submit returns. *)
head_of(q) == q.next_descriptor

(* Publish a buffer of `length`: descriptor, ring entry, then the index. *)
submit(q, length) ==
  [q EXCEPT !.descriptors[q.next_descriptor] = length,
            !.available[q.available_index % QUEUE_SIZE] = q.next_descriptor,
            !.available_index = (@ + 1) % INDICES,
            !.next_descriptor = (@ + 1) % QUEUE_SIZE]

(* take_used: is there a completion, what does it say, and the queue after *)
(* it is taken.                                                            *)
has_used(q) == q.used_index # q.last_used
used_element(q) == q.used[q.last_used % QUEUE_SIZE]
taken(q) == [q EXCEPT !.last_used = (@ + 1) % INDICES]

(* wait_for returns the length if the next completion is this request's.   *)
(* It gives up if none came, or another's: the queue is broken.  Neither   *)
(* looks at `broken` first.                                                *)
completes(q, head) == has_used(q) /\ used_element(q).id = head
gives_up(q, head) == ~completes(q, head)
abandoned(q) == [(IF has_used(q) THEN taken(q) ELSE q) EXCEPT !.broken = TRUE]

-----------------------------------------------------------------------------
(* External: the device sees a published chain, and answers it. *)
dev_pending(q) == q.seen # q.available_index
dev_head(q) == q.available[q.seen % QUEUE_SIZE]
dev_complete(q, length) ==
  [q EXCEPT !.used[q.used_index % QUEUE_SIZE] = [id |-> dev_head(q), length |-> length],
            !.used_index = (@ + 1) % INDICES,
            !.seen = (@ + 1) % INDICES]

(* Requests the device still owns. *)
InFlight(q) == (q.available_index - q.used_index) % INDICES
=============================================================================
