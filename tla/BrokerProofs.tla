---------------------------- MODULE BrokerProofs ----------------------------
(***************************************************************************)
(* Proofs about the model broker and the two queues of its port, for any   *)
(* queue size, any index width, any prompts and any number of calls.       *)
(***************************************************************************)
EXTENDS Broker, Numbers, SequenceTheorems

-----------------------------------------------------------------------------
(* One queue with at most one request out. *)

Indices == 0..(INDICES - 1)

Queue ==
  [descriptors : [Slots -> Nat], available : [Slots -> Slots], available_index : Indices,
   used : [Slots -> [id : Slots, length : Nat]], used_index : Indices,
   next_descriptor : Slots, last_used : Indices, broken : BOOLEAN, seen : Indices]

(* Nothing is out, a request is with the device, or its answer is there to *)
(* be taken.                                                               *)
Idle(q) == q.available_index = q.used_index /\ q.last_used = q.used_index

Waiting(q, h) ==
  /\ q.available_index = (q.used_index + 1) % INDICES
  /\ q.last_used = q.used_index
  /\ q.available[q.seen % QUEUE_SIZE] = h

Answered(q, h) ==
  /\ q.available_index = q.used_index
  /\ q.used_index = (q.last_used + 1) % INDICES
  /\ q.used[q.last_used % QUEUE_SIZE].id = h

Sound(q, h) ==
  /\ q \in Queue /\ q.seen = q.used_index
  /\ Idle(q) \/ Waiting(q, h) \/ Answered(q, h)

(* An index moves on when it is increased, wrapped or not. *)
LEMMA NextIndex ==
  /\ \A x \in Indices : (x + 1) % INDICES \in Indices /\ (x + 1) % INDICES # x
  /\ \A x \in Indices : x % QUEUE_SIZE \in Slots
  /\ \A x \in Slots : (x + 1) % QUEUE_SIZE \in Slots
  /\ \A x \in Indices : (((x + 1) % INDICES) - x) % INDICES = 1
  /\ 0 \in Slots /\ 0 \in Indices
<1>1. /\ INDICES \in Nat /\ INDICES >= 2 /\ QUEUE_SIZE \in Nat /\ QUEUE_SIZE >= 1
  BY QueueAssumption
<1>2. ASSUME NEW x \in Indices
      PROVE  /\ (x + 1) % INDICES = IF x = INDICES - 1 THEN 0 ELSE x + 1
             /\ x % QUEUE_SIZE \in Slots
  BY <1>1 DEF Indices, Slots
<1>3. \A x \in Slots : (x + 1) % QUEUE_SIZE \in Slots
  BY <1>1 DEF Slots
<1>4. ASSUME NEW x \in Indices  PROVE (((x + 1) % INDICES) - x) % INDICES = 1
  <2>1. CASE x = INDICES - 1
    <3>1. ((x + 1) % INDICES) - x = 1 - INDICES
      BY <1>1, <1>2, <2>1 DEF Indices
    <3>2. (1 - INDICES) % INDICES = 1
      BY <1>1
    <3> QED
      BY <3>1, <3>2
  <2>2. CASE x # INDICES - 1
    <3>1. ((x + 1) % INDICES) - x = 1
      BY <1>1, <1>2, <2>2 DEF Indices
    <3>2. 1 % INDICES = 1
      BY <1>1
    <3> QED
      BY <3>1, <3>2
  <2> QED
    BY <2>1, <2>2
<1> QED
  BY <1>1, <1>2, <1>3, <1>4 DEF Indices, Slots

(* A new queue is idle. *)
LEMMA NewQueue == Queue_new \in Queue /\ Idle(Queue_new) /\ Queue_new.seen = Queue_new.used_index
                  /\ ~Queue_new.broken
BY NextIndex DEF Queue_new, Queue, Idle

(* Publishing on an idle queue. *)
Submitted(q, n, p) ==
  /\ p \in Queue /\ p.seen = p.used_index
  /\ Waiting(p, head_of(q))
  /\ p.broken = q.broken
  /\ head_of(q) \in Slots
  /\ p.descriptors = [q.descriptors EXCEPT ![head_of(q)] = n]

LEMMA Submits ==
  ASSUME NEW q \in Queue, Idle(q), q.seen = q.used_index, NEW n \in Nat
  PROVE  Submitted(q, n, submit(q, n))
<1> DEFINE h == q.next_descriptor
           i == q.available_index % QUEUE_SIZE
           p == submit(q, n)
<1>1. /\ h \in Slots /\ i \in Slots /\ q.available_index \in Indices
      /\ q.descriptors \in [Slots -> Nat] /\ q.available \in [Slots -> Slots]
  BY NextIndex DEF Queue
<1>2. /\ p.descriptors = [q.descriptors EXCEPT ![h] = n]
      /\ p.available = [q.available EXCEPT ![i] = h]
      /\ p.available_index = (q.available_index + 1) % INDICES
      /\ p.next_descriptor = (h + 1) % QUEUE_SIZE
      /\ p.used = q.used /\ p.used_index = q.used_index /\ p.last_used = q.last_used
      /\ p.broken = q.broken /\ p.seen = q.seen
  BY DEF submit, Queue
<1>3. p \in Queue
  <2> DEFINE D == [q.descriptors EXCEPT ![h] = n]
             V == [q.available EXCEPT ![i] = h]
             x == (q.available_index + 1) % INDICES
             y == (h + 1) % QUEUE_SIZE
  <2>1. p = [q EXCEPT !.descriptors = D, !.available = V, !.available_index = x,
                      !.next_descriptor = y]
    BY DEF submit, Queue
  <2>2. D \in [Slots -> Nat] /\ V \in [Slots -> Slots] /\ x \in Indices /\ y \in Slots
    BY <1>1, NextIndex
  <2> HIDE DEF p, D, V, x, y
  <2> QED
    BY <2>1, <2>2 DEF Queue
<1> HIDE DEF p
<1>4. Waiting(p, h)
  <2>1. p.available[i] = h
    BY <1>1, <1>2
  <2> QED
    BY <1>2, <2>1 DEF Waiting, Idle
<1> QED
  BY <1>1, <1>2, <1>3, <1>4 DEF Submitted, head_of, p

(* What `completes` says, and taking what it saw. *)
Took(q, p) ==
  /\ p \in Queue /\ p.seen = p.used_index /\ Idle(p)
  /\ p.broken = q.broken /\ p.descriptors = q.descriptors

LEMMA Completion ==
  ASSUME NEW q, NEW h, Sound(q, h)
  PROVE  /\ completes(q, h) <=> Answered(q, h)
         /\ completes(q, h) => Took(q, taken(q))
<1>0. q \in Queue /\ q.last_used \in Indices /\ q.used_index \in Indices
  BY DEF Sound, Queue
<1>1. Answered(q, h) => completes(q, h)
  BY <1>0, NextIndex DEF Answered, completes, has_used, used_element
<1>2. completes(q, h) => Answered(q, h)
  BY DEF Sound, Idle, Waiting, completes, has_used
<1>3. ASSUME Answered(q, h)  PROVE Took(q, taken(q))
  <2> DEFINE p == taken(q)
  <2>1. /\ p.descriptors = q.descriptors /\ p.available = q.available
        /\ p.available_index = q.available_index /\ p.used = q.used
        /\ p.used_index = q.used_index /\ p.next_descriptor = q.next_descriptor
        /\ p.last_used = (q.last_used + 1) % INDICES
        /\ p.broken = q.broken /\ p.seen = q.seen
    BY <1>0 DEF taken, Queue
  <2>2. p \in Queue
    BY <1>0, NextIndex DEF taken, Queue
  <2> HIDE DEF p
  <2> QED
    BY <1>3, <2>1, <2>2 DEF Took, Idle, Answered, Sound, p
<1> QED
  BY <1>1, <1>2, <1>3

(* Giving up happens only where there is nothing to take. *)
GaveUp(q, h, p) ==
  /\ Sound(p, h) /\ p.broken /\ p.descriptors = q.descriptors
  /\ Idle(p) <=> Idle(q)

LEMMA Abandons ==
  ASSUME NEW q, NEW h, Sound(q, h), gives_up(q, h)
  PROVE  GaveUp(q, h, abandoned(q))
<1>0. q \in Queue
  BY DEF Sound
<1>1. ~Answered(q, h)
  BY Completion DEF gives_up
<1>2. ~has_used(q)
  BY <1>1 DEF Sound, Idle, Waiting, has_used
<1>3. abandoned(q) = [q EXCEPT !.broken = TRUE]
  BY <1>2 DEF abandoned
<1> DEFINE p == [q EXCEPT !.broken = TRUE]
<1>4. /\ p \in Queue /\ p.broken
      /\ p.descriptors = q.descriptors /\ p.available = q.available
      /\ p.available_index = q.available_index /\ p.used = q.used
      /\ p.used_index = q.used_index /\ p.last_used = q.last_used /\ p.seen = q.seen
  BY <1>0 DEF Queue
<1> HIDE DEF p
<1>5. Sound(p, h) /\ (Idle(p) <=> Idle(q))
  BY <1>4 DEF Sound, Idle, Waiting, Answered
<1> QED
  BY <1>3, <1>4, <1>5 DEF GaveUp, p

(* The device finds the one request there is, and answers it. *)
Served(q, h, p) ==
  /\ Waiting(q, h) /\ dev_head(q) = h
  /\ Answered(p, h) /\ Sound(p, h) /\ ~Idle(p)
  /\ p.broken = q.broken /\ p.descriptors = q.descriptors

LEMMA Device ==
  ASSUME NEW q, NEW h, Sound(q, h), dev_pending(q), NEW n \in Nat
  PROVE  Served(q, h, dev_complete(q, n))
<1>0. q \in Queue /\ q.seen \in Indices /\ q.used_index \in Indices /\ q.seen = q.used_index
      /\ q.used \in [Slots -> [id : Slots, length : Nat]] /\ q.available \in [Slots -> Slots]
  BY DEF Sound, Queue
<1>1. Waiting(q, h)
  BY DEF Sound, Idle, Answered, dev_pending
<1>2. dev_head(q) = h /\ h \in Slots
  BY <1>0, <1>1, NextIndex DEF Waiting, dev_head
<1> DEFINE i == q.used_index % QUEUE_SIZE
           p == dev_complete(q, n)
<1>3. i \in Slots
  BY <1>0, NextIndex
<1>4. /\ p.used = [q.used EXCEPT ![i] = [id |-> h, length |-> n]]
      /\ p.used_index = (q.used_index + 1) % INDICES
      /\ p.seen = (q.seen + 1) % INDICES
      /\ p.available_index = q.available_index /\ p.last_used = q.last_used
      /\ p.broken = q.broken /\ p.descriptors = q.descriptors
      /\ p.available = q.available /\ p.next_descriptor = q.next_descriptor
  BY <1>0, <1>2 DEF dev_complete, Queue
<1>5. p \in Queue
  <2> DEFINE U == [q.used EXCEPT ![i] = [id |-> h, length |-> n]]
             x == (q.used_index + 1) % INDICES
             y == (q.seen + 1) % INDICES
  <2>1. p = [q EXCEPT !.used = U, !.used_index = x, !.seen = y]
    BY <1>0, <1>2 DEF dev_complete, Queue
  <2>2. U \in [Slots -> [id : Slots, length : Nat]] /\ x \in Indices /\ y \in Indices
    BY <1>0, <1>2, <1>3, NextIndex
  <2> HIDE DEF p, U, x, y
  <2> QED
    BY <1>0, <2>1, <2>2 DEF Queue
<1> HIDE DEF p
<1>6. p.used[i].id = h
  BY <1>0, <1>3, <1>4
<1>7. Answered(p, h)
  BY <1>0, <1>1, <1>4, <1>6 DEF Answered, Waiting
<1>8. ~Idle(p)
  BY <1>0, <1>1, <1>4, NextIndex DEF Idle, Waiting
<1> QED
  BY <1>0, <1>1, <1>2, <1>4, <1>5, <1>7, <1>8 DEF Served, Sound, p

(* At most one is out. *)
LEMMA OneOut ==
  ASSUME NEW q, NEW h, Sound(q, h)
  PROVE  InFlight(q) <= 1
<1>0. q.used_index \in Indices
  BY DEF Sound, Queue
<1>1. (q.used_index - q.used_index) % INDICES = 0
  BY <1>0, QueueAssumption DEF Indices
<1> QED
  BY <1>0, <1>1, NextIndex DEF Sound, InFlight, Idle, Waiting, Answered

-----------------------------------------------------------------------------
(* The port. *)

Piece == [kind : {"Header"}, ask : Nat, declared : Nat] \cup [kind : {"Unit"}, ask : Nat]

Call == [class : Classes, length : Nat \ {0}, crossed : BOOLEAN]

Paid(i) == i \in DOMAIN asks /\ asks[i].crossed /\ asks[i].class = "Public"

(* The transmit queue and the buffer its descriptors name. *)
Sender(q, h, buffer) ==
  /\ Sound(q, h)
  /\ buffer \in Seq(Piece)
  /\ \A i \in Slots : q.descriptors[i] <= Len(buffer)

(* Everything in new is in old or in more. *)
Within(new, old, more) ==
  \A i \in DOMAIN new :
    \/ \E j \in DOMAIN old : new[i] = old[j]
    \/ \E j \in DOMAIN more : new[i] = more[j]

LEMMA PiecesTyped ==
  ASSUME NEW n \in Nat, NEW length \in Nat \ {0}
  PROVE  /\ <<Header(n, Declared(length))>> \in Seq(Piece)
         /\ Len(<<Header(n, Declared(length))>>) = 1
         /\ <<Header(n, Declared(length))>>[1].ask = n
         /\ Prompt(n, length) \in Seq(Piece)
         /\ Len(Prompt(n, length)) = length
         /\ \A i \in DOMAIN Prompt(n, length) : Prompt(n, length)[i].ask = n
<1>1. Declared(length) \in Nat
  BY BrokerAssumption DEF Declared
<1>2. Header(n, Declared(length)) \in Piece /\ Header(n, Declared(length)).ask = n
  BY <1>1 DEF Header, Piece
<1>3. Unit(n) \in Piece /\ Unit(n).ask = n
  BY DEF Unit, Piece
<1> HIDE DEF Piece
<1>4. Prompt(n, length) \in [1..length -> Piece]
  BY <1>3 DEF Prompt
<1> QED
  BY <1>2, <1>3, <1>4 DEF Prompt

(* write_from changes the first units and keeps the rest. *)
LEMMA Written ==
  ASSUME NEW S, NEW buffer \in Seq(S), NEW units \in Seq(S)
  PROVE  /\ written(buffer, units) \in Seq(S)
         /\ Len(written(buffer, units)) >= Len(units)
         /\ Len(written(buffer, units)) >= Len(buffer)
         /\ \A i \in 1..Len(units) : written(buffer, units)[i] = units[i]
         /\ Within(written(buffer, units), buffer, units)
<1> DEFINE u == Len(units)
           n == Len(buffer)
           rest == SubSeq(buffer, u + 1, n)
           r == Len(rest)
           all == units \o rest
<1>0. /\ u \in Nat /\ n \in Nat /\ u + 1 \in Int
      /\ DOMAIN buffer = 1..n /\ DOMAIN units = 1..u
      /\ \A i \in (u + 1)..n : buffer[i] \in S
  OBVIOUS
<1>1. /\ rest \in Seq(S)
      /\ r = IF u + 1 <= n THEN n - (u + 1) + 1 ELSE 0
      /\ \A i \in 1..(n - (u + 1) + 1) : rest[i] = buffer[(u + 1) + i - 1]
  <2> HIDE DEF u, n
  <2> QED
    BY <1>0, SubSeqProperties
<1> HIDE DEF rest
<1>2. /\ all \in Seq(S)
      /\ Len(all) = u + r
      /\ \A i \in 1..(u + r) : all[i] = IF i <= u THEN units[i] ELSE rest[i - u]
  BY <1>1, ConcatProperties
<1>3. written(buffer, units) = all
  BY DEF written, rest
<1>4. DOMAIN all = 1..(u + r)
  BY <1>2
<1> HIDE DEF u, n, r, all
<1>5. r \in Nat /\ u + r >= n /\ u + r >= u /\ (r > 0 => u + r = n)
  BY <1>0, <1>1
<1>6. ASSUME NEW i \in 1..(u + r)
      PROVE  \/ \E j \in 1..n : all[i] = buffer[j]
             \/ \E j \in 1..u : all[i] = units[j]
  <2>1. CASE i <= u
    BY <1>0, <1>2, <2>1
  <2>2. CASE i > u
    <3>1. all[i] = rest[i - u]
      BY <1>0, <1>2, <1>5, <2>2
    <3>2. i - u \in 1..(n - (u + 1) + 1) /\ (u + 1) + (i - u) - 1 = i /\ i \in 1..n
      BY <1>0, <1>5, <2>2
    <3>3. rest[i - u] = buffer[(u + 1) + (i - u) - 1]
      BY <1>1, <3>2
    <3> QED
      BY <3>1, <3>2, <3>3
  <2> QED
    BY <1>0, <1>5, <2>1, <2>2
<1>7. Within(all, buffer, units)
  BY <1>0, <1>4, <1>6 DEF Within
<1>8. \A i \in 1..u : all[i] = units[i]
  BY <1>0, <1>2, <1>5
<1> QED
  BY <1>2, <1>3, <1>5, <1>7, <1>8 DEF u, n

(* What `send` leaves, up to its wait. *)
Sends(units, waiting) ==
  /\ Sender(transmit', head', transmit_buffer')
  /\ Within(transmit_buffer', transmit_buffer, units)
  /\ pc' \in {"idle", waiting}
  /\ pc' = waiting => ~transmit'.broken
  /\ pc' = "idle" => transmit'.broken \/ Idle(transmit')

LEMMA SendOutcome ==
  ASSUME NEW q, Sender(q, head, transmit_buffer), q.broken \/ Idle(q),
         NEW units \in Seq(Piece), NEW waiting \in {"header", "prompt"}, send(q, units, waiting)
  PROVE  Sends(units, waiting)
<1> DEFINE w == written(transmit_buffer, units)
<1>0. /\ q \in Queue /\ q.seen = q.used_index /\ q.broken \in BOOLEAN
      /\ q.descriptors \in [Slots -> Nat]
      /\ transmit_buffer \in Seq(Piece) /\ Len(transmit_buffer) \in Nat /\ Len(units) \in Nat
      /\ \A i \in Slots : q.descriptors[i] <= Len(transmit_buffer)
  BY DEF Sender, Sound, Queue
<1>1. /\ w \in Seq(Piece) /\ Len(w) >= Len(units) /\ Len(w) >= Len(transmit_buffer)
      /\ Within(w, transmit_buffer, units) /\ Len(w) \in Nat
  BY <1>0, Written
<1> HIDE DEF w, Piece
<1>2. CASE transmit' = q /\ pc' = "idle" /\ UNCHANGED <<transmit_buffer, head>>
  BY <1>2 DEF Sends, Within
<1>3. CASE transmit' = q /\ pc' = "idle" /\ UNCHANGED head /\ transmit_buffer' = w
  BY <1>0, <1>1, <1>3 DEF Sends, Sender
<1>4. CASE /\ transmit_buffer' = w /\ may_submit(q)
           /\ transmit' = submit(q, Len(units)) /\ head' = head_of(q) /\ pc' = waiting
  <2>1. Idle(q) /\ ~q.broken
    BY <1>4 DEF may_submit
  <2>2. Submitted(q, Len(units), transmit')
    BY <1>0, <1>4, <2>1, Submits
  <2>3. Sound(transmit', head') /\ ~transmit'.broken
    BY <1>4, <2>1, <2>2 DEF Submitted, Sound
  <2>4. \A i \in Slots : transmit'.descriptors[i] <= Len(w)
    BY <1>0, <1>1, <2>2 DEF Submitted
  <2> QED
    BY <1>1, <1>4, <2>3, <2>4 DEF Sends, Sender
<1> QED
  BY <1>2, <1>3, <1>4 DEF send, w

(* The inductive invariant of the port, whatever was abandoned. *)
Port ==
  /\ asks \in Seq(Call)
  /\ pc \in {"idle", "header", "prompt", "receive"}
  /\ Sender(transmit, head, transmit_buffer)
  /\ Sound(receive, posted)
  /\ pc \in {"header", "prompt"} => ~transmit.broken
  /\ pc \notin {"header", "prompt"} => transmit.broken \/ Idle(transmit)
  /\ ~receive.broken => ~Idle(receive)
  /\ pc # "idle" => Paid(Len(asks))
  /\ late = 0 \/ (late = 1 /\ receive.broken /\ Idle(receive))
  /\ heard \in Seq(Piece)
  /\ \A i \in DOMAIN transmit_buffer : Paid(transmit_buffer[i].ask)
  /\ \A i \in DOMAIN heard : Paid(heard[i].ask)

LEMMA PortInitially == BrokerInit => Port
<1> SUFFICES ASSUME BrokerInit  PROVE Port
  OBVIOUS
<1>1. Queue_new \in Queue /\ Idle(Queue_new) /\ Queue_new.seen = Queue_new.used_index
      /\ ~Queue_new.broken
  BY NewQueue
<1>2. Submitted(Queue_new, 1, receive)
  BY <1>1, Submits DEF BrokerInit
<1>3. Sound(receive, posted) /\ ~receive.broken
  BY <1>1, <1>2 DEF Submitted, Sound, BrokerInit
<1>4. ~Idle(receive)
  <2>1. receive.used_index \in Indices
    BY <1>2 DEF Submitted, Queue
  <2> QED
    BY <1>2, <2>1, NextIndex DEF Submitted, Waiting, Idle
<1>5. Sender(transmit, head, transmit_buffer)
  <2>1. \A i \in Slots : transmit.descriptors[i] = 0
    BY DEF BrokerInit, Queue_new
  <2> QED
    BY <1>1, <2>1 DEF Sender, Sound, BrokerInit
<1> QED
  BY <1>1, <1>3, <1>4, <1>5 DEF Port, BrokerInit

(* A call that joins leaves the earlier ones as they were. *)
LEMMA Called ==
  ASSUME asks \in Seq(Call), NEW class \in Classes, NEW length \in Lengths,
         NEW crossed \in BOOLEAN, called(class, length, crossed)
  PROVE  /\ asks' \in Seq(Call) /\ Len(asks') = Len(asks) + 1
         /\ \A k \in 1..Len(asks) : asks'[k] = asks[k]
         /\ asks'[Len(asks) + 1] = [class |-> class, length |-> length, crossed |-> crossed]
         /\ \A k : Paid(k) => Paid(k)'
         /\ crossed /\ class = "Public" => Paid(Len(asks))'
<1> DEFINE x == [class |-> class, length |-> length, crossed |-> crossed]
<1>1. x \in Call
  BY BrokerAssumption DEF Call
<1>2. x.class = class /\ x.crossed = crossed
  OBVIOUS
<1>3. asks' = Append(asks, x)
  BY DEF called
<1> HIDE DEF x
<1>4. /\ asks' \in Seq(Call) /\ Len(asks') = Len(asks) + 1
      /\ \A k \in 1..Len(asks) : asks'[k] = asks[k]
      /\ asks'[Len(asks) + 1] = x
      /\ DOMAIN asks = 1..Len(asks) /\ DOMAIN asks' = 1..(Len(asks) + 1)
      /\ Len(asks) \in Nat
  BY <1>1, <1>3
<1>5. \A k : Paid(k) => Paid(k)'
  BY <1>4 DEF Paid
<1>6. ASSUME crossed, class = "Public"  PROVE Paid(Len(asks))'
  <2>1. PICK m : m = Len(asks') /\ m \in DOMAIN asks' /\ asks'[m] = x
    BY <1>4
  <2> QED
    BY <1>2, <1>6, <2>1 DEF Paid
<1> QED
  BY <1>4, <1>5, <1>6 DEF x

(* What is in the buffer after a send was in it, or is of this call. *)
LEMMA BufferPaid ==
  ASSUME NEW units, Within(transmit_buffer', transmit_buffer, units),
         \A k : Paid(k) => Paid(k)',
         \A i \in DOMAIN transmit_buffer : Paid(transmit_buffer[i].ask),
         NEW n, n = Len(asks'), Paid(Len(asks))', \A i \in DOMAIN units : units[i].ask = n
  PROVE  \A i \in DOMAIN transmit_buffer' : Paid(transmit_buffer[i].ask)'
<1>1. Paid(n)'
  BY DEF Paid
<1> SUFFICES ASSUME NEW i \in DOMAIN transmit_buffer'
             PROVE  Paid(transmit_buffer[i].ask)'
  OBVIOUS
<1>2. CASE \E j \in DOMAIN transmit_buffer : transmit_buffer'[i] = transmit_buffer[j]
  <2>1. PICK k : k = transmit_buffer'[i].ask /\ Paid(k)
    BY <1>2
  <2>2. Paid(k)'
    BY <2>1
  <2> QED
    BY <2>1, <2>2 DEF Paid
<1>3. CASE \E j \in DOMAIN units : transmit_buffer'[i] = units[j]
  <2>1. transmit_buffer'[i].ask = n
    BY <1>3
  <2> QED
    BY <1>1, <2>1 DEF Paid
<1> QED
  BY <1>2, <1>3 DEF Within

LEMMA AskKeepsPort ==
  ASSUME Port, NEW class \in Classes, NEW length \in Lengths, NEW crossed \in BOOLEAN,
         ask(class, length, crossed)
  PROVE  Port'
<1>0. asks \in Seq(Call) /\ Len(asks) + 1 \in Nat /\ length \in Nat \ {0}
  BY BrokerAssumption DEF Port
<1>1. /\ asks' \in Seq(Call) /\ Len(asks') = Len(asks) + 1
      /\ \A k : Paid(k) => Paid(k)'
      /\ crossed /\ class = "Public" => Paid(Len(asks))'
  BY <1>0, Called DEF ask
<1>2. UNCHANGED <<receive, receive_buffer, posted, line, replies, answers, heard, late>>
  BY DEF ask
<1>3. \A i \in DOMAIN heard' : Paid(heard[i].ask)'
  <2> SUFFICES ASSUME NEW i \in DOMAIN heard  PROVE Paid(heard[i].ask)'
    BY <1>2
  <2>1. PICK k : k = heard[i].ask /\ Paid(k)
    BY DEF Port
  <2>2. Paid(k)'
    BY <1>1, <2>1
  <2> QED
    BY <1>2, <2>1, <2>2 DEF Paid
<1>4. CASE UNCHANGED <<pc, transmit, transmit_buffer, head>>
  <2>1. ASSUME NEW i \in DOMAIN transmit_buffer  PROVE Paid(transmit_buffer[i].ask)'
    <3>1. PICK k : k = transmit_buffer[i].ask /\ Paid(k)
      BY DEF Port
    <3>2. Paid(k)'
      BY <1>1, <3>1
    <3> QED
      BY <1>4, <3>1, <3>2 DEF Paid
  <2>2. pc' = "idle"
    BY <1>4 DEF ask
  <2> QED
    BY <1>1, <1>2, <1>3, <1>4, <2>1, <2>2 DEF Port, Sender
<1>5. CASE /\ crossed /\ class = "Public"
           /\ send(transmit, <<Header(Now + 1, Declared(length))>>, "header")
  <2> DEFINE units == <<Header(Len(asks) + 1, Declared(length))>>
  <2>1. units \in Seq(Piece) /\ Len(units) = 1 /\ \A i \in DOMAIN units : units[i].ask = Len(asks')
    BY <1>0, <1>1, PiecesTyped
  <2>2. pc = "idle" /\ (transmit.broken \/ Idle(transmit))
        /\ Sender(transmit, head, transmit_buffer)
    BY DEF ask, Port
  <2>3. send(transmit, units, "header")
    BY <1>5 DEF Now
  <2> HIDE DEF units
  <2>4. Sends(units, "header")
    BY <2>1, <2>2, <2>3, SendOutcome
  <2>5. \A i \in DOMAIN transmit_buffer' : Paid(transmit_buffer[i].ask)'
    <3>1. Within(transmit_buffer', transmit_buffer, units)
      BY <2>4 DEF Sends
    <3>2. \A i \in DOMAIN transmit_buffer : Paid(transmit_buffer[i].ask)
      BY DEF Port
    <3> QED
      BY <1>1, <1>5, <2>1, <3>1, <3>2, BufferPaid
  <2> QED
    BY <1>1, <1>2, <1>3, <1>5, <2>4, <2>5 DEF Port, Sends, Sender
<1> QED
  BY <1>4, <1>5 DEF ask

LEMMA SendKeepsPort ==
  ASSUME Port, SendPrompt \/ PromptSent \/ SendGivesUp
  PROVE  Port'
<1>0. UNCHANGED <<asks, receive, receive_buffer, posted, line, replies, answers, heard, late>>
  BY DEF SendPrompt, PromptSent, SendGivesUp
<1>1. \A k : Paid(k) => Paid(k)'
  BY <1>0 DEF Paid
<1>2. \A i \in DOMAIN heard' : Paid(heard[i].ask)'
  BY <1>0 DEF Port, Paid
<1>3. Sound(transmit, head) /\ transmit_buffer \in Seq(Piece)
  BY DEF Port, Sender
<1>4. CASE SendPrompt
  <2> DEFINE n == Len(asks)
             units == Prompt(n, asks[n].length)
  <2>1. pc = "header" /\ Paid(n) /\ n \in DOMAIN asks
    BY <1>4 DEF SendPrompt, Port, Paid
  <2>2. n \in Nat /\ asks[n].length \in Nat \ {0}
    <3>1. n \in Nat /\ asks[n] \in Call
      BY <2>1 DEF Port
    <3> QED
      BY <3>1 DEF Call
  <2>3. units \in Seq(Piece) /\ \A i \in DOMAIN units : units[i].ask = n
    BY <2>2, PiecesTyped
  <2>4. Took(transmit, taken(transmit))
    BY <1>3, <1>4, Completion DEF SendPrompt
  <2>5. Sender(taken(transmit), head, transmit_buffer) /\ Idle(taken(transmit))
    BY <2>4 DEF Took, Sender, Sound, Port
  <2>6. send(taken(transmit), units, "prompt")
    BY <1>4 DEF SendPrompt, Now
  <2> HIDE DEF units
  <2>7. Sends(units, "prompt")
    BY <2>3, <2>5, <2>6, SendOutcome
  <2>8. \A i \in DOMAIN transmit_buffer' : Paid(transmit_buffer[i].ask)'
    <3>1. Within(transmit_buffer', transmit_buffer, units)
      BY <2>7 DEF Sends
    <3>2. \A i \in DOMAIN transmit_buffer : Paid(transmit_buffer[i].ask)
      BY DEF Port
    <3>3. Paid(Len(asks))' /\ n = Len(asks')
      BY <1>0, <2>1 DEF Paid
    <3> QED
      BY <1>1, <2>3, <3>1, <3>2, <3>3, BufferPaid
  <2>9. Paid(Len(asks))'
    BY <1>0, <2>1 DEF Paid
  <2> QED
    BY <1>0, <1>2, <2>7, <2>8, <2>9 DEF Port, Sends, Sender
<1>5. CASE PromptSent
  <2>1. Took(transmit, transmit') /\ pc' = "receive" /\ pc = "prompt"
        /\ UNCHANGED <<head, transmit_buffer>>
    BY <1>3, <1>5, Completion DEF PromptSent
  <2>2. Sender(transmit', head', transmit_buffer') /\ Idle(transmit')
    BY <2>1 DEF Took, Sender, Sound, Port
  <2> QED
    BY <1>0, <2>1, <2>2 DEF Port, Paid
<1>6. CASE SendGivesUp
  <2>1. GaveUp(transmit, head, transmit') /\ pc' = "idle" /\ UNCHANGED <<head, transmit_buffer>>
    BY <1>3, <1>6, Abandons DEF SendGivesUp
  <2>2. Sender(transmit', head', transmit_buffer') /\ transmit'.broken
    BY <2>1 DEF GaveUp, Sender, Port
  <2> QED
    BY <1>0, <2>1, <2>2 DEF Port, Paid
<1> QED
  BY <1>4, <1>5, <1>6

LEMMA ReceiveKeepsPort ==
  ASSUME Port, Receive \/ ReceiveGivesUp
  PROVE  Port'
<1>0. UNCHANGED <<asks, transmit, transmit_buffer, head, receive_buffer, line, replies, heard>>
  BY DEF Receive, ReceiveGivesUp
<1>1. Sound(receive, posted) /\ receive.broken \in BOOLEAN
  BY DEF Port, Sound, Queue
<1>2. pc = "receive" /\ pc' = "idle" /\ (transmit.broken \/ Idle(transmit))
  BY DEF Receive, ReceiveGivesUp, Port
<1>3. CASE Receive
  <2>1. Took(receive, taken(receive)) /\ ~Idle(receive)
    <3>1. receive.last_used \in Indices
      BY <1>1 DEF Sound, Queue
    <3> QED
      BY <1>1, <1>3, <3>1, Completion, NextIndex DEF Receive, Answered, Idle
  <2>2. CASE may_submit(taken(receive)) /\ receive' = submit(taken(receive), 1)
             /\ posted' = head_of(taken(receive))
    <3>1. Submitted(taken(receive), 1, receive')
      BY <2>1, <2>2, Submits DEF Took
    <3>2. Sound(receive', posted') /\ ~receive'.broken /\ ~receive.broken
      BY <2>1, <2>2, <3>1 DEF Submitted, Sound, may_submit, Took
    <3>3. ~Idle(receive')
      <4>1. receive'.used_index \in Indices
        BY <3>1 DEF Submitted, Queue
      <4> QED
        BY <3>1, <4>1, NextIndex DEF Submitted, Waiting, Idle
    <3>4. late' = late /\ late = 0
      BY <1>3, <3>2 DEF Receive, Port
    <3> QED
      BY <1>0, <1>2, <3>2, <3>3, <3>4 DEF Port, Paid, Sender
  <2>3. CASE ~may_submit(taken(receive)) /\ receive' = taken(receive) /\ UNCHANGED posted
    <3>1. receive.broken /\ receive'.broken
      BY <2>1, <2>3 DEF may_submit, Took
    <3>2. Sound(receive', posted') /\ Idle(receive')
      BY <2>1, <2>3 DEF Took, Sound
    <3>3. late' = 1
      BY <1>3, <2>1, <3>1 DEF Receive, Port
    <3> QED
      BY <1>0, <1>2, <3>1, <3>2, <3>3 DEF Port, Paid, Sender
  <2> QED
    BY <1>3, <2>2, <2>3 DEF Receive, post_receive
<1>4. CASE ReceiveGivesUp
  <2>1. GaveUp(receive, posted, receive') /\ UNCHANGED <<posted, late>>
    BY <1>1, <1>4, Abandons DEF ReceiveGivesUp
  <2>2. Sound(receive', posted') /\ receive'.broken /\ (Idle(receive') <=> Idle(receive))
    BY <2>1 DEF GaveUp
  <2> QED
    BY <1>0, <1>2, <2>1, <2>2 DEF Port, Paid, Sender
<1> QED
  BY <1>3, <1>4

(* What the device forwards is the front of the buffer. *)
LEMMA Forwarded ==
  ASSUME Port, DeviceTransmits
  PROVE  /\ Served(transmit, head, transmit')
         /\ \E n \in 0..Len(transmit_buffer) :
              /\ n = transmit.descriptors[head]
              /\ heard' = heard \o SubSeq(transmit_buffer, 1, n)
              /\ line' = line \o SubSeq(transmit_buffer, 1, n)
<1>1. Served(transmit, head, transmit')
  BY Device DEF Port, Sender, DeviceTransmits
<1>2. dev_head(transmit) = head /\ head \in Slots
  BY <1>1, NextIndex DEF Served, Waiting, Port, Sender, Sound, Queue
<1>3. transmit.descriptors[head] \in 0..Len(transmit_buffer)
  <2>1. transmit.descriptors[head] \in Nat /\ transmit.descriptors[head] <= Len(transmit_buffer)
        /\ Len(transmit_buffer) \in Nat
    BY <1>2 DEF Port, Sender, Sound, Queue
  <2> QED
    BY <2>1
<1> QED
  BY <1>1, <1>2, <1>3 DEF DeviceTransmits

LEMMA DeviceKeepsPort ==
  ASSUME Port, DeviceTransmits \/ DeviceReceives \/ converse
  PROVE  Port'
<1>0. UNCHANGED <<pc, asks, transmit_buffer, head, posted, answers, late>>
  BY DEF DeviceTransmits, DeviceReceives, converse
<1>1. CASE DeviceTransmits
  <2>1. Served(transmit, head, transmit') /\ UNCHANGED receive
    BY <1>1, Forwarded DEF DeviceTransmits
  <2>2. PICK n \in 0..Len(transmit_buffer) : heard' = heard \o SubSeq(transmit_buffer, 1, n)
    BY <1>1, Forwarded
  <2> DEFINE units == SubSeq(transmit_buffer, 1, n)
  <2>3. /\ transmit_buffer \in Seq(Piece) /\ heard \in Seq(Piece)
        /\ \A i \in 1..n : transmit_buffer[i] \in Piece /\ i \in DOMAIN transmit_buffer
    BY DEF Port, Sender
  <2>4. /\ units \in Seq(Piece) /\ \A i \in 1..n : units[i] = transmit_buffer[i]
        /\ Len(units) = n
    <3> HIDE DEF Piece
    <3> QED
      BY <2>3, SubSeqProperties
  <2> HIDE DEF units
  <2>5. /\ heard \o units \in Seq(Piece) /\ DOMAIN (heard \o units) = 1..(Len(heard) + n)
        /\ \A i \in 1..(Len(heard) + n) :
             (heard \o units)[i] = IF i <= Len(heard) THEN heard[i] ELSE units[i - Len(heard)]
    <3> HIDE DEF Piece
    <3>1. /\ heard \o units \in Seq(Piece) /\ Len(heard \o units) = Len(heard) + n
          /\ \A i \in 1..(Len(heard) + n) :
             (heard \o units)[i] = IF i <= Len(heard) THEN heard[i] ELSE units[i - Len(heard)]
      BY <2>3, <2>4, ConcatProperties
    <3> QED
      BY <3>1
  <2>6. ASSUME NEW i \in 1..(Len(heard) + n)  PROVE Paid((heard \o units)[i].ask)
    <3>0. Len(heard) \in Nat /\ DOMAIN heard = 1..Len(heard) /\ n \in Nat
      BY <2>3
    <3>1. CASE i <= Len(heard)
      <4>1. i \in DOMAIN heard /\ (heard \o units)[i] = heard[i]
        BY <2>5, <3>0, <3>1
      <4>2. \A j \in DOMAIN heard : Paid(heard[j].ask)
        BY DEF Port
      <4>3. Paid(heard[i].ask)
        BY <4>1, <4>2
      <4> QED
        BY <4>1, <4>3
    <3>2. CASE i > Len(heard)
      <4>1. i - Len(heard) \in 1..n
        BY <3>0, <3>2
      <4>2. (heard \o units)[i] = transmit_buffer[i - Len(heard)]
        BY <2>4, <2>5, <3>0, <3>2, <4>1
      <4> QED
        BY <2>3, <4>1, <4>2 DEF Port
    <3>3. i <= Len(heard) \/ i > Len(heard)
      BY <3>0
    <3> QED
      BY <3>1, <3>2, <3>3
  <2>7. \A i \in DOMAIN heard' : Paid(heard[i].ask)'
    <3>1. heard' = heard \o units
      BY <2>2 DEF units
    <3> QED
      BY <1>0, <2>5, <2>6, <3>1 DEF Paid
  <2>8. heard' \in Seq(Piece)
    BY <2>2, <2>5 DEF units
  <2>9. Sender(transmit', head', transmit_buffer') /\ transmit'.broken = transmit.broken
    BY <1>0, <2>1 DEF Served, Sender, Port
  <2>10. ~Idle(transmit)
    <3>1. transmit.used_index \in Indices
      BY DEF Port, Sender, Sound, Queue
    <3> QED
      BY <2>1, <3>1, NextIndex DEF Served, Waiting, Idle
  <2> QED
    BY <1>0, <2>1, <2>7, <2>8, <2>9, <2>10 DEF Port, Paid
<1>2. CASE DeviceReceives
  <2>1. UNCHANGED <<transmit, heard>>
    BY <1>2 DEF DeviceReceives
  <2>2. Served(receive, posted, receive')
    BY <1>2, Device DEF Port, DeviceReceives
  <2>3. ~Idle(receive)
    <3>1. receive.used_index \in Indices
      BY DEF Port, Sound, Queue
    <3> QED
      BY <2>2, <3>1, NextIndex DEF Served, Waiting, Idle
  <2> QED
    BY <1>0, <2>1, <2>2, <2>3 DEF Served, Port, Paid, Sender
<1>3. CASE converse
  BY <1>0, <1>3 DEF converse, Port, Paid, Sender
<1> QED
  BY <1>1, <1>2, <1>3

LEMMA PortStep == Port /\ [BrokerNext]_brokerVars => Port'
<1> SUFFICES ASSUME Port, [BrokerNext]_brokerVars  PROVE Port'
  OBVIOUS
<1>1. CASE UNCHANGED brokerVars
  BY <1>1 DEF brokerVars, Port, Paid, Sender
<1>2. ASSUME NEW class \in Classes, NEW length \in Lengths, NEW crossed \in BOOLEAN,
             ask(class, length, crossed)
      PROVE  Port'
  BY <1>2, AskKeepsPort
<1>3. CASE SendPrompt \/ PromptSent \/ SendGivesUp
  BY <1>3, SendKeepsPort
<1>4. CASE Receive \/ ReceiveGivesUp
  BY <1>4, ReceiveKeepsPort
<1>5. CASE DeviceTransmits \/ DeviceReceives \/ converse
  BY <1>5, DeviceKeepsPort
<1> QED
  BY <1>1, <1>2, <1>3, <1>4, <1>5 DEF BrokerNext

LEMMA PortAlways == BrokerSpec => []Port
BY PortInitially, PortStep, PTL DEF BrokerSpec

(* Never more than one request of a queue is with the device, across       *)
(* abandoned waits and wrapped indices (queue.rs, submit and wait_for).    *)
THEOREM OneRequestOut == BrokerSpec => []OneInFlight
<1>1. Port => OneInFlight
  BY OneOut DEF Port, Sender, OneInFlight
<1> QED
  BY <1>1, PortAlways, PTL

(* Nothing leaves the machine but for an ask the gate let through, in the  *)
(* public class, whatever an earlier call left in the transmit buffer      *)
(* (Broker::ask, model.rs; Console::send, console.rs).                     *)
THEOREM OnlyPublicLeaves == BrokerSpec => []OnlyPaidPublicLeaves
<1>1. Port => OnlyPaidPublicLeaves
  BY DEF Port, OnlyPaidPublicLeaves, Paid
<1> QED
  BY <1>1, PortAlways, PTL

(* After the machine has given up waiting for a reply, at most one reply   *)
(* is ever taken: a broken queue posts no further buffer (queue.rs).       *)
THEOREM LateAnswersEnd == BrokerSpec => []AtMostOneLateAnswer
<1>1. Port => AtMostOneLateAnswer
  BY DEF Port, AtMostOneLateAnswer
<1> QED
  BY <1>1, PortAlways, PTL

-----------------------------------------------------------------------------
(* The conversation, as long as nothing was given up. *)

Undisturbed == ~transmit.broken /\ ~receive.broken /\ ~Overlong

(* The request in the transmit buffer, published. *)
Loaded(units) ==
  /\ Waiting(transmit, head)
  /\ transmit.descriptors[head] = Len(units)
  /\ SubSeq(transmit_buffer, 1, Len(units)) = units

Silent == line = <<>> /\ replies = <<>> /\ Waiting(receive, posted)

(* The whole question is on the line, its answer is on the way, or it has  *)
(* arrived.                                                                *)
Awaited(n, length) ==
  LET possible == {Ok(Prompt(n, length)), Err}
  IN  \/ /\ line = <<Header(n, length)>> \o Prompt(n, length)
         /\ replies = <<>> /\ Waiting(receive, posted)
      \/ /\ line = <<>> /\ Waiting(receive, posted)
         /\ \E r \in possible : replies = <<r>>
      \/ /\ line = <<>> /\ replies = <<>>
         /\ Answered(receive, posted) /\ receive_buffer \in possible

(* Where call n, of that length, has got to. *)
Stage(n, length) ==
  \/ pc = "idle" /\ Silent
  \/ pc = "header" /\ Silent /\ Loaded(<<Header(n, length)>>)
  \/ /\ pc = "header" /\ Answered(transmit, head)
     /\ line = <<Header(n, length)>> /\ replies = <<>> /\ Waiting(receive, posted)
  \/ /\ pc = "prompt" /\ Loaded(Prompt(n, length))
     /\ line = <<Header(n, length)>> /\ replies = <<>> /\ Waiting(receive, posted)
  \/ pc = "prompt" /\ Answered(transmit, head) /\ Awaited(n, length)
  \/ pc = "receive" /\ Awaited(n, length)

(* What was answered, the call under way not yet. *)
Settled(n) ==
  /\ answers \in Seq([ask : Nat, reply : [ok : {TRUE}, prompt : Seq(Piece)]])
  /\ \A k \in DOMAIN answers :
       /\ answers[k].ask \in DOMAIN asks /\ AnsweredAsAsked(k)
       /\ pc # "idle" => answers[k].ask < n
  /\ \A j, k \in DOMAIN answers : answers[j].ask = answers[k].ask => j = k

(* Call n is under way, or was the last. *)
Serving(n, length) ==
  /\ n = Len(asks)
  /\ pc # "idle" => n \in DOMAIN asks /\ asks[n].length = length

Talk == \E n, length \in Nat : Serving(n, length) /\ Stage(n, length) /\ Settled(n)

Conversation == Undisturbed => Talk

LEMMA Exclusive ==
  ASSUME NEW q \in Queue, NEW h
  PROVE  /\ Waiting(q, h) => ~Idle(q) /\ ~Answered(q, h)
         /\ Answered(q, h) => ~Idle(q)
<1>1. q.used_index \in Indices /\ q.last_used \in Indices
  BY DEF Queue
<1> QED
  BY <1>1, NextIndex DEF Waiting, Idle, Answered

(* A prompt that fits is published, and is what the device will find. *)
LEMMA SendPublishes ==
  ASSUME NEW q, Sender(q, head, transmit_buffer), Idle(q), ~q.broken,
         NEW units \in Seq(Piece), Len(units) <= BUFFER_BYTES,
         NEW waiting \in {"header", "prompt"}, send(q, units, waiting)
  PROVE  pc' = waiting /\ Loaded(units)' /\ ~transmit'.broken
<1> DEFINE w == written(transmit_buffer, units)
           u == Len(units)
<1>0. /\ q \in Queue /\ q.seen = q.used_index
      /\ q.descriptors \in [Slots -> Nat]
      /\ transmit_buffer \in Seq(Piece) /\ u \in Nat
  BY DEF Sender, Sound, Queue
<1>1. /\ transmit_buffer' = w /\ transmit' = submit(q, u)
      /\ head' = head_of(q) /\ pc' = waiting
  BY <1>0, BrokerAssumption DEF send, may_submit
<1>2. Submitted(q, u, transmit')
  BY <1>0, <1>1, Submits
<1>3. Waiting(transmit', head') /\ transmit'.descriptors[head'] = u /\ ~transmit'.broken
  BY <1>0, <1>1, <1>2 DEF Submitted
<1>4. /\ w \in Seq(Piece) /\ Len(w) >= u /\ \A i \in 1..u : w[i] = units[i]
      /\ Len(w) \in Nat
  BY <1>0, Written
<1>5. SubSeq(w, 1, u) = units
  <2> HIDE DEF w, u, Piece
  <2>1. 1 \in 1..(Len(w) + 1) /\ u \in (1 - 1)..Len(w) /\ (\A i \in 1..u : w[i] \in Piece)
    BY <1>0, <1>4
  <2>2. SubSeq(w, 1, u) \in Seq(Piece) /\ Len(SubSeq(w, 1, u)) = u
        /\ \A i \in 1..u : SubSeq(w, 1, u)[i] = w[i]
    BY <1>0, <1>4, <2>1, SubSeqProperties
  <2>3. Len(SubSeq(w, 1, u)) = Len(units)
        /\ \A i \in 1..Len(units) : SubSeq(w, 1, u)[i] = units[i]
    BY <1>4, <2>2 DEF u
  <2> HIDE DEF u
  <2> QED
    BY <2>2, <2>3, SeqEqual
<1> QED
  BY <1>1, <1>3, <1>5 DEF Loaded

(* What is taken for the whole question: the request line, then the prompt *)
(* it announces.                                                           *)
LEMMA Question ==
  ASSUME NEW n \in Nat, NEW length \in Nat \ {0}, NEW all,
         all = <<Header(n, length)>> \o Prompt(n, length)
  PROVE  /\ Len(all) = 1 + length /\ DOMAIN all = 1..(1 + length)
         /\ all[1] = Header(n, length)
         /\ \A i \in 2..(1 + length) : all[i] = Unit(n)
         /\ SubSeq(all, 2, 1 + length) = Prompt(n, length)
         /\ SubSeq(all, (1 + length) + 1, Len(all)) = <<>>
<1> DEFINE P == Prompt(n, length)
           H == Header(n, length)
<1>1. /\ H \in Piece /\ P \in Seq(Piece) /\ Len(P) = length
      /\ \A i \in 1..length : P[i] = Unit(n)
  BY PiecesTyped DEF Prompt, Header, Piece
<1> HIDE DEF P, H, Piece
<1>2. <<H>> \in Seq(Piece) /\ Len(<<H>>) = 1 /\ <<H>>[1] = H
  BY <1>1
<1>3. /\ all \in Seq(Piece) /\ Len(all) = 1 + length
      /\ \A i \in 1..(1 + length) : all[i] = IF i <= 1 THEN <<H>>[i] ELSE P[i - 1]
  BY <1>1, <1>2, ConcatProperties DEF P, H
<1>4. all[1] = H /\ \A i \in 1..length : all[i + 1] = P[i]
  BY <1>1, <1>2, <1>3
<1>5. ASSUME NEW i \in 2..(1 + length)  PROVE all[i] = Unit(n)
  <2>1. i - 1 \in 1..length /\ (i - 1) + 1 = i
    OBVIOUS
  <2> QED
    BY <1>1, <1>4, <2>1
<1>6. SubSeq(all, 2, 1 + length) = P
  <2> DEFINE rest == SubSeq(all, 2, 1 + length)
  <2>0. DOMAIN all = 1..(1 + length)
    BY <1>3
  <2>1. \A i \in 2..(1 + length) : all[i] \in Piece
    BY <1>3, <2>0
  <2>2. /\ rest \in Seq(Piece) /\ Len(rest) = length
        /\ \A i \in 1..length : rest[i] = all[2 + i - 1]
    <3>1. PICK b, e \in Int : b = 2 /\ e = 1 + length
      OBVIOUS
    <3>2. \A i \in b..e : all[i] \in Piece
      BY <2>1, <3>1
    <3>3. /\ SubSeq(all, b, e) \in Seq(Piece)
          /\ Len(SubSeq(all, b, e)) = IF b <= e THEN e - b + 1 ELSE 0
          /\ \A i \in 1..(e - b + 1) : SubSeq(all, b, e)[i] = all[b + i - 1]
      BY ONLY <3>2, b \in Int, e \in Int, SubSeqProperties
    <3>4. e - b + 1 = length /\ b <= e
      BY <3>1
    <3> QED
      BY <3>1, <3>3, <3>4
  <2> HIDE DEF rest
  <2>3. \A i \in 1..length : rest[i] = P[i]
    <3> SUFFICES ASSUME NEW i \in 1..length  PROVE rest[i] = P[i]
      OBVIOUS
    <3>1. 2 + i - 1 = i + 1
      OBVIOUS
    <3> QED
      BY <1>4, <2>2, <3>1
  <2> QED
    BY <1>1, <2>2, <2>3, SeqEqual DEF rest
<1>7. SubSeq(all, (1 + length) + 1, Len(all)) = <<>>
  BY <1>3, SubSeqEmpty
<1>8. DOMAIN all = 1..(1 + length)
  BY <1>3
<1>9. \A i \in 2..(1 + length) : all[i] = Unit(n)
  BY <1>5
<1>10. all[1] = Header(n, length)
  BY <1>4 DEF H
<1>11. SubSeq(all, 2, 1 + length) = Prompt(n, length)
  BY <1>6 DEF P
<1> QED
  BY ONLY <1>3, <1>7, <1>8, <1>9, <1>10, <1>11, Zenon

(* A question starts. *)
LEMMA AskTalks ==
  ASSUME Port, Conversation, NEW class \in Classes, NEW length \in Lengths,
         NEW crossed \in BOOLEAN, ask(class, length, crossed), Undisturbed'
  PROVE  Talk'
<1>0. asks \in Seq(Call) /\ Len(asks) \in Nat /\ length \in Nat \ {0} /\ length \in Nat
  BY BrokerAssumption DEF Port
<1>1. /\ asks' \in Seq(Call) /\ Len(asks') = Len(asks) + 1
      /\ \A k \in 1..Len(asks) : asks'[k] = asks[k]
      /\ asks'[Len(asks) + 1].length = length
      /\ DOMAIN asks = 1..Len(asks) /\ DOMAIN asks' = 1..(Len(asks) + 1)
  <2>1. /\ asks' \in Seq(Call) /\ Len(asks') = Len(asks) + 1
        /\ \A k \in 1..Len(asks) : asks'[k] = asks[k]
        /\ asks'[Len(asks) + 1] = [class |-> class, length |-> length, crossed |-> crossed]
    BY <1>0, Called DEF ask
  <2> QED
    BY <1>0, <2>1
<1>2. UNCHANGED <<receive, receive_buffer, posted, line, replies, answers, heard, late>>
      /\ pc = "idle"
  BY DEF ask
<1>3. length <= MaxDeclared /\ ~Overlong
  BY <1>0, <1>1, BrokerAssumption DEF Undisturbed, Overlong
<1>4. ~transmit.broken /\ Sender(transmit, head, transmit_buffer)
  BY DEF Port, Undisturbed, ask, send, submit, Sender, Sound, Queue
<1>5. Idle(transmit)
  BY <1>2, <1>4 DEF Port
<1>6. Undisturbed
  BY <1>2, <1>3, <1>4 DEF Undisturbed
<1>7. PICK n, l \in Nat : Serving(n, l) /\ Stage(n, l) /\ Settled(n)
  BY <1>6 DEF Conversation, Talk
<1>8. n = Len(asks) /\ Silent
  BY <1>2, <1>7 DEF Serving, Stage
<1>9. Silent'
  BY <1>2, <1>8 DEF Silent
<1> DEFINE m == n + 1
<1>10. m \in Nat /\ Serving(m, length)'
  BY <1>1, <1>0, <1>8 DEF Serving
<1>11. Settled(m)'
  <2>1. ASSUME NEW k \in DOMAIN answers
        PROVE  /\ answers[k].ask \in DOMAIN asks' /\ AnsweredAsAsked(k)'
               /\ answers[k].ask < m
    <3>1. answers[k].ask \in DOMAIN asks /\ AnsweredAsAsked(k)
      BY <1>7 DEF Settled
    <3> QED
      BY <1>0, <1>1, <1>2, <1>8, <3>1 DEF AnsweredAsAsked
  <2> QED
    BY <1>2, <1>7, <2>1 DEF Settled
<1>12. Stage(m, length)'
  <2>1. CASE UNCHANGED <<pc, transmit, transmit_buffer, head>>
    BY <1>2, <1>9, <2>1 DEF Stage
  <2>2. CASE send(transmit, <<Header(Now + 1, Declared(length))>>, "header")
    <3> DEFINE units == <<Header(m, length)>>
    <3>1. Declared(length) = length
      BY <1>0, <1>3, BrokerAssumption DEF Declared
    <3>2. send(transmit, units, "header")
      BY <1>8, <2>2, <3>1 DEF Now
    <3>3. units \in Seq(Piece) /\ Len(units) <= BUFFER_BYTES
      BY <1>0, <1>10, <3>1, PiecesTyped, BrokerAssumption
    <3> HIDE DEF units
    <3>4. pc' = "header" /\ Loaded(units)'
      BY <1>4, <1>5, <3>2, <3>3, SendPublishes
    <3> QED
      BY <1>9, <3>4 DEF Stage, units
  <2> QED
    BY <2>1, <2>2 DEF ask
<1> HIDE DEF m
<1> QED
  BY <1>0, <1>10, <1>11, <1>12 DEF Talk

(* The line is out and the prompt follows; then it is out too. *)
LEMMA SendTalks ==
  ASSUME Port, Conversation, SendPrompt \/ PromptSent \/ SendGivesUp, Undisturbed'
  PROVE  Talk'
<1>0. UNCHANGED <<asks, receive, receive_buffer, posted, line, replies, answers, heard, late>>
  BY DEF SendPrompt, PromptSent, SendGivesUp
<1>1. Sound(transmit, head) /\ transmit \in Queue
  BY DEF Port, Sender, Sound
<1>2. ~SendGivesUp
  <2>1. SUFFICES ASSUME SendGivesUp  PROVE transmit'.broken
    BY DEF Undisturbed
  <2> QED
    BY <1>1, <2>1, Abandons DEF SendGivesUp, GaveUp
<1>3. Took(transmit, taken(transmit)) /\ Answered(transmit, head)
  BY <1>1, <1>2, Completion DEF SendPrompt, PromptSent
<1>4. ~transmit.broken
  BY <1>2 DEF Port, SendPrompt, PromptSent
<1>5. Undisturbed
  BY <1>0, <1>4 DEF Undisturbed, Overlong
<1>6. PICK n, l \in Nat : Serving(n, l) /\ Stage(n, l) /\ Settled(n)
  BY <1>5 DEF Conversation, Talk
<1>7. pc # "idle" /\ n \in DOMAIN asks /\ n = Len(asks) /\ asks[n].length = l
  BY <1>2, <1>6 DEF Serving, SendPrompt, PromptSent
<1>8. l \in Nat \ {0} /\ l <= BUFFER_BYTES
  <2>1. asks[n] \in Call
    BY <1>7 DEF Port
  <2>2. l <= MaxDeclared
    BY <1>5, <1>6, <1>7, BrokerAssumption DEF Undisturbed, Overlong
  <2> QED
    BY <1>6, <1>7, <2>1, <2>2, BrokerAssumption, DeclaredFits DEF Call
<1>9. ASSUME pc' # "idle"  PROVE Serving(n, l)' /\ Settled(n)'
  BY <1>0, <1>6, <1>7, <1>9 DEF Serving, Settled, AnsweredAsAsked
<1>10. ~Waiting(transmit, head)
  BY <1>1, <1>3, Exclusive
<1>11. pc' # "idle" /\ Stage(n, l)'
  <2>1. CASE SendPrompt
    <3> DEFINE units == Prompt(n, l)
    <3>1. /\ pc = "header" /\ line = <<Header(n, l)>> /\ replies = <<>>
          /\ Waiting(receive, posted)
      BY <1>6, <1>10, <2>1 DEF Stage, Loaded, SendPrompt
    <3>2. send(taken(transmit), units, "prompt")
      BY <1>7, <2>1 DEF SendPrompt, Now
    <3>3. units \in Seq(Piece) /\ Len(units) <= BUFFER_BYTES
      BY <1>6, <1>8, PiecesTyped
    <3>4. /\ Sender(taken(transmit), head, transmit_buffer) /\ Idle(taken(transmit))
          /\ ~taken(transmit).broken
      BY <1>3, <1>4 DEF Took, Sender, Sound, Port
    <3> HIDE DEF units
    <3>5. pc' = "prompt" /\ Loaded(units)'
      BY <3>2, <3>3, <3>4, SendPublishes
    <3> QED
      BY <1>0, <3>1, <3>5 DEF Stage, units
  <2>2. CASE PromptSent
    <3>1. pc = "prompt" /\ pc' = "receive" /\ Awaited(n, l)
      BY <1>6, <1>10, <2>2 DEF Stage, Loaded, PromptSent
    <3>2. Awaited(n, l)'
      BY <1>0, <3>1 DEF Awaited
    <3> QED
      BY <3>1, <3>2 DEF Stage
  <2> QED
    BY <1>2, <2>1, <2>2
<1> QED
  BY <1>6, <1>9, <1>11 DEF Talk

(* The reply is taken for the call it answers. *)
LEMMA ReceiveTalks ==
  ASSUME Port, Conversation, Receive \/ ReceiveGivesUp, Undisturbed'
  PROVE  Talk'
<1>0. UNCHANGED <<asks, transmit, transmit_buffer, head, receive_buffer, line, replies, heard>>
  BY DEF Receive, ReceiveGivesUp
<1>1. Sound(receive, posted) /\ receive \in Queue
  BY DEF Port, Sound
<1>2. ~ReceiveGivesUp
  <2>1. SUFFICES ASSUME ReceiveGivesUp  PROVE receive'.broken
    BY DEF Undisturbed
  <2> QED
    BY <1>1, <2>1, Abandons DEF ReceiveGivesUp, GaveUp
<1>3. Took(receive, taken(receive)) /\ Answered(receive, posted) /\ pc = "receive" /\ pc' = "idle"
  BY <1>1, <1>2, Completion DEF Receive
<1>4. may_submit(taken(receive)) /\ ~receive.broken
  <2>1. SUFFICES ASSUME ~may_submit(taken(receive))  PROVE receive'.broken
    BY <1>3 DEF Undisturbed, may_submit, Took
  <2> QED
    BY <1>2, <2>1 DEF Receive, post_receive, may_submit
<1>5. Undisturbed
  BY <1>0, <1>4 DEF Undisturbed, Overlong
<1>6. PICK n, l \in Nat : Serving(n, l) /\ Stage(n, l) /\ Settled(n)
  BY <1>5 DEF Conversation, Talk
<1>7. n \in DOMAIN asks /\ n = Len(asks) /\ asks[n].length = l
  BY <1>3, <1>6 DEF Serving
<1>8. ~Waiting(receive, posted)
  BY <1>1, <1>3, Exclusive
<1>9. line = <<>> /\ replies = <<>> /\ receive_buffer \in {Ok(Prompt(n, l)), Err}
  BY <1>3, <1>6, <1>8 DEF Stage, Awaited
<1>10. Silent'
  <2>1. receive' = submit(taken(receive), 1) /\ posted' = head_of(taken(receive))
    BY <1>2, <1>4 DEF Receive, post_receive
  <2>2. Submitted(taken(receive), 1, receive')
    BY <1>3, <2>1, Submits DEF Took
  <2> QED
    BY <1>0, <1>9, <2>1, <2>2 DEF Submitted, Silent
<1>11. Settled(n)'
  <2> DEFINE Answer == [ask : Nat, reply : [ok : {TRUE}, prompt : Seq(Piece)]]
  <2>0. /\ answers \in Seq(Answer)
        /\ \A k \in DOMAIN answers : /\ answers[k].ask \in DOMAIN asks /\ AnsweredAsAsked(k)
                                     /\ answers[k].ask < n
        /\ \A j, k \in DOMAIN answers : answers[j].ask = answers[k].ask => j = k
    BY <1>3, <1>6 DEF Settled
  <2>1. CASE UNCHANGED answers
    BY <1>0, <1>3, <2>0, <2>1 DEF Settled, AnsweredAsAsked
  <2>2. CASE answers' # answers
    <3> DEFINE x == [ask |-> n, reply |-> Ok(Prompt(n, l))]
    <3>1. answers' = Append(answers, x)
      BY <1>2, <1>7, <1>9, <2>2 DEF Receive, Now, Err
    <3>2. x \in Answer /\ x.ask = n /\ x.reply.prompt = Prompt(n, l)
      <4>1. l \in Nat \ {0}
        <5>1. asks[n] \in Call
          BY <1>7 DEF Port
        <5> QED
          BY <1>7, <5>1 DEF Call
      <4>2. Prompt(n, l) \in Seq(Piece)
        BY <1>6, <4>1, PiecesTyped
      <4> HIDE DEF Piece
      <4> QED
        BY <1>6, <4>2 DEF Ok
    <3> HIDE DEF x, Answer
    <3>3. /\ answers' \in Seq(Answer) /\ Len(answers') = Len(answers) + 1
          /\ Len(answers) \in Nat /\ DOMAIN answers = 1..Len(answers)
          /\ DOMAIN answers' = 1..(Len(answers) + 1)
          /\ \A k \in 1..Len(answers) : answers'[k] = answers[k]
          /\ answers'[Len(answers) + 1] = x
      BY <2>0, <3>1, <3>2
    <3>4. ASSUME NEW k \in DOMAIN answers'
          PROVE  answers'[k].ask \in DOMAIN asks' /\ AnsweredAsAsked(k)'
      <4>1. CASE k \in DOMAIN answers
        BY <1>0, <2>0, <3>3, <4>1 DEF AnsweredAsAsked
      <4>2. CASE k = Len(answers) + 1
        <5>1. answers'[k].ask = n /\ answers'[k].reply.prompt = Prompt(n, l)
          BY <3>2, <3>3, <4>2
        <5> QED
          BY <1>0, <1>7, <5>1 DEF AnsweredAsAsked
      <4> QED
        BY <3>3, <4>1, <4>2
    <3>5. ASSUME NEW j \in DOMAIN answers', NEW k \in DOMAIN answers',
                 answers'[j].ask = answers'[k].ask
          PROVE  j = k
      <4>1. ASSUME NEW i \in DOMAIN answers
            PROVE  answers'[i].ask = answers[i].ask /\ answers[i].ask # n
        <5>1. answers[i].ask \in 1..Len(asks) /\ answers[i].ask < n
          BY <2>0 DEF Port
        <5> QED
          BY <1>6, <3>3, <5>1
      <4>2. answers'[Len(answers) + 1].ask = n
        BY <3>2, <3>3
      <4>3. \A i \in DOMAIN answers' : i \in DOMAIN answers \/ i = Len(answers) + 1
        BY <3>3
      <4> QED
        BY <2>0, <3>5, <4>1, <4>2, <4>3
    <3> QED
      BY <1>3, <3>3, <3>4, <3>5 DEF Settled, Answer
  <2> QED
    BY <2>1, <2>2
<1>12. Serving(n, l)' /\ Stage(n, l)'
  BY <1>0, <1>3, <1>7, <1>10 DEF Serving, Stage
<1> QED
  BY <1>6, <1>11, <1>12 DEF Talk

(* The device forwards what was published and delivers what was replied. *)
LEMMA DeviceTalks ==
  ASSUME Port, Conversation, DeviceTransmits \/ DeviceReceives, Undisturbed'
  PROVE  Talk'
<1>0. UNCHANGED <<pc, asks, transmit_buffer, head, posted, answers>>
  BY DEF DeviceTransmits, DeviceReceives
<1>1. /\ Sound(transmit, head) /\ transmit \in Queue
      /\ Sound(receive, posted) /\ receive \in Queue
  BY DEF Port, Sender, Sound
<1>2. DeviceTransmits => Served(transmit, head, transmit') /\ UNCHANGED <<receive, receive_buffer, replies>>
  BY Forwarded DEF DeviceTransmits
<1>3. DeviceReceives => Served(receive, posted, receive') /\ UNCHANGED <<transmit, line>>
  BY <1>1, Device DEF DeviceReceives
<1>4. Undisturbed
  BY <1>0, <1>2, <1>3 DEF Undisturbed, Overlong, Served
<1>5. PICK n, l \in Nat : Serving(n, l) /\ Stage(n, l) /\ Settled(n)
  BY <1>4 DEF Conversation, Talk
<1>6. Serving(n, l)' /\ Settled(n)'
  BY <1>0, <1>5 DEF Serving, Settled, AnsweredAsAsked
<1>7. CASE DeviceTransmits
  <2>0. Waiting(transmit, head) /\ Answered(transmit', head')
    BY <1>0, <1>2, <1>7 DEF Served
  <2>1. ~Idle(transmit) /\ ~Answered(transmit, head)
    BY <1>1, <2>0, Exclusive
  <2>2. \A units : Loaded(units) => line' = line \o units
    BY <1>7, Forwarded DEF Loaded
  <2>3. pc \in {"header", "prompt"}
    BY <1>4, <2>1 DEF Port, Undisturbed
  <2>4. CASE pc = "header"
    <3>1. Silent /\ Loaded(<<Header(n, l)>>)
      BY <1>5, <2>1, <2>4 DEF Stage
    <3>2. line' = <<>> \o <<Header(n, l)>>
      BY <2>2, <3>1 DEF Silent
    <3>3. <<>> \o <<Header(n, l)>> = <<Header(n, l)>>
      OBVIOUS
    <3> QED
      BY <1>0, <1>2, <1>5, <1>6, <1>7, <2>0, <2>4, <3>1, <3>2, <3>3 DEF Talk, Stage, Silent
  <2>5. CASE pc = "prompt"
    <3>1. /\ Loaded(Prompt(n, l)) /\ line = <<Header(n, l)>> /\ replies = <<>>
          /\ Waiting(receive, posted)
      BY <1>5, <2>1, <2>5 DEF Stage
    <3>2. line' = <<Header(n, l)>> \o Prompt(n, l)
      BY <2>2, <3>1
    <3>3. Awaited(n, l)'
      BY <1>0, <1>2, <1>7, <3>1, <3>2 DEF Awaited
    <3> QED
      BY <1>0, <1>5, <1>6, <2>0, <2>5, <3>3 DEF Talk, Stage
  <2> QED
    BY <2>3, <2>4, <2>5
<1>8. CASE DeviceReceives
  <2>0. Waiting(receive, posted) /\ Answered(receive', posted') /\ replies # <<>>
    BY <1>0, <1>3, <1>8 DEF Served, DeviceReceives
  <2>1. /\ line = <<>> /\ \E r \in {Ok(Prompt(n, l)), Err} : replies = <<r>>
        /\ Awaited(n, l)
        /\ (pc = "prompt" /\ Answered(transmit, head)) \/ pc = "receive"
    <3>1. Awaited(n, l) /\ ((pc = "prompt" /\ Answered(transmit, head)) \/ pc = "receive")
      BY <1>5, <2>0 DEF Stage, Silent
    <3> QED
      BY <1>1, <2>0, <3>1, Exclusive DEF Awaited
  <2>2. PICK r \in {Ok(Prompt(n, l)), Err} : replies = <<r>>
    BY <2>1
  <2>3. receive_buffer' = r /\ replies' = <<>>
    BY <1>8, <2>2 DEF DeviceReceives
  <2>4. Awaited(n, l)'
    BY <1>3, <1>8, <2>0, <2>1, <2>3 DEF Awaited
  <2> QED
    BY <1>0, <1>3, <1>5, <1>6, <1>8, <2>1, <2>4 DEF Talk, Stage
<1> QED
  BY <1>7, <1>8

(* The relay answers the question on the line, once it is whole. *)
LEMMA RelayTalks ==
  ASSUME Port, Conversation, converse, Undisturbed'
  PROVE  Talk'
<1>0. UNCHANGED <<pc, asks, transmit, transmit_buffer, head, receive, receive_buffer, posted,
                  answers>>
  BY DEF converse
<1>1. Undisturbed
  BY <1>0 DEF Undisturbed, Overlong
<1>2. PICK n, l \in Nat : Serving(n, l) /\ Stage(n, l) /\ Settled(n)
  BY <1>1 DEF Conversation, Talk
<1>3. Serving(n, l)' /\ Settled(n)'
  BY <1>0, <1>2 DEF Serving, Settled, AnsweredAsAsked
<1>4. PICK i \in DOMAIN line :
        /\ line[i].kind = "Header"
        /\ \/ i > 1
           \/ /\ i = 1 /\ Len(line) > line[1].declared
              /\ \E reply \in {Ok(SubSeq(line, 2, 1 + line[1].declared)), Err} :
                   replies' = Append(replies, reply)
              /\ line' = SubSeq(line, 1 + line[1].declared + 1, Len(line))
  BY DEF converse, Dropped
<1>5. line # <<>>
  BY <1>4
<1>6. pc # "idle"
  BY <1>2, <1>5 DEF Stage, Silent
<1>7. l \in Nat \ {0}
  <2>1. n \in DOMAIN asks /\ asks[n].length = l /\ asks[n] \in Call
    BY <1>2, <1>6 DEF Serving, Port
  <2> QED
    BY <2>1 DEF Call
<1>8. Header(n, l).kind = "Header" /\ Header(n, l).declared = l /\ Unit(n).kind = "Unit"
  BY DEF Header, Unit
<1>9. line # <<Header(n, l)>>
  <2>1. SUFFICES ASSUME line = <<Header(n, l)>>  PROVE FALSE
    OBVIOUS
  <2>2. DOMAIN line = {1} /\ line[1] = Header(n, l) /\ Len(line) = 1
    <3> HIDE DEF Header
    <3> QED
      BY <2>1
  <2>3. i = 1 /\ 1 > l
    BY <1>4, <1>8, <2>2
  <2> QED
    BY <1>7, <2>3
<1>10. /\ line = <<Header(n, l)>> \o Prompt(n, l) /\ replies = <<>> /\ Waiting(receive, posted)
       /\ (pc = "prompt" /\ Answered(transmit, head)) \/ pc = "receive"
  BY <1>2, <1>5, <1>9 DEF Stage, Silent, Awaited
<1>11. /\ Len(line) = 1 + l /\ DOMAIN line = 1..(1 + l) /\ line[1] = Header(n, l)
       /\ \A j \in 2..(1 + l) : line[j] = Unit(n)
       /\ SubSeq(line, 2, 1 + l) = Prompt(n, l)
       /\ SubSeq(line, (1 + l) + 1, Len(line)) = <<>>
  <2>1. PICK all : all = line
    OBVIOUS
  <2>2. all = <<Header(n, l)>> \o Prompt(n, l)
    BY <1>10, <2>1
  <2>3. /\ Len(all) = 1 + l /\ DOMAIN all = 1..(1 + l) /\ all[1] = Header(n, l)
        /\ \A j \in 2..(1 + l) : all[j] = Unit(n)
        /\ SubSeq(all, 2, 1 + l) = Prompt(n, l)
        /\ SubSeq(all, (1 + l) + 1, Len(all)) = <<>>
    BY ONLY n \in Nat, <1>7, <2>2, Question
  <2> QED
    BY <2>1, <2>3
<1>12. i = 1
  BY <1>4, <1>7, <1>8, <1>11
<1>13. line' = <<>> /\ \E r \in {Ok(Prompt(n, l)), Err} : replies' = <<r>>
  <2>1. line[1].declared = l
    BY <1>8, <1>11
  <2>2. line' = SubSeq(line, 1 + l + 1, Len(line)) /\ line' = <<>>
    BY <1>4, <1>11, <1>12, <2>1
  <2>3. PICK r \in {Ok(SubSeq(line, 2, 1 + l)), Err} : replies' = Append(replies, r)
    BY <1>4, <1>12, <2>1
  <2>4. r \in {Ok(Prompt(n, l)), Err}
    BY <1>11, <2>3
  <2>5. Append(<<>>, r) = <<r>>
    OBVIOUS
  <2> QED
    BY <1>10, <2>2, <2>3, <2>4, <2>5
<1>14. Awaited(n, l)'
  BY <1>0, <1>10, <1>13 DEF Awaited
<1> QED
  BY <1>0, <1>2, <1>3, <1>10, <1>14 DEF Talk, Stage

LEMMA ConversationInitially == BrokerInit => Conversation
<1> SUFFICES ASSUME BrokerInit  PROVE Talk
  BY DEF Conversation
<1>1. Submitted(Queue_new, 1, receive)
  BY NewQueue, Submits DEF BrokerInit
<1>2. Silent
  BY <1>1 DEF Submitted, Silent, BrokerInit
<1>3. Serving(0, 0) /\ Stage(0, 0) /\ Settled(0)
  BY <1>2 DEF Serving, Stage, Settled, BrokerInit
<1> QED
  BY <1>3 DEF Talk

LEMMA ConversationStep == Port /\ Conversation /\ [BrokerNext]_brokerVars => Conversation'
<1> SUFFICES ASSUME Port, Conversation, [BrokerNext]_brokerVars, Undisturbed'  PROVE Talk'
  BY DEF Conversation
<1>1. CASE UNCHANGED brokerVars
  <2>1. Undisturbed
    BY <1>1 DEF brokerVars, Undisturbed, Overlong
  <2>2. PICK n, l \in Nat : Serving(n, l) /\ Stage(n, l) /\ Settled(n)
    BY <2>1 DEF Conversation, Talk
  <2>3. Serving(n, l)' /\ Settled(n)'
    BY <1>1, <2>2 DEF brokerVars, Serving, Settled, AnsweredAsAsked
  <2>4. Stage(n, l)'
    BY <1>1, <2>2 DEF brokerVars, Stage, Silent, Loaded, Awaited
  <2> QED
    BY <2>2, <2>3, <2>4 DEF Talk
<1>2. ASSUME NEW class \in Classes, NEW length \in Lengths, NEW crossed \in BOOLEAN,
             ask(class, length, crossed)
      PROVE  Talk'
  BY <1>2, AskTalks
<1>3. CASE SendPrompt \/ PromptSent \/ SendGivesUp
  BY <1>3, SendTalks
<1>4. CASE Receive \/ ReceiveGivesUp
  BY <1>4, ReceiveTalks
<1>5. CASE DeviceTransmits \/ DeviceReceives
  BY <1>5, DeviceTalks
<1>6. CASE converse
  BY <1>6, RelayTalks
<1> QED
  BY <1>1, <1>2, <1>3, <1>4, <1>5, <1>6 DEF BrokerNext

(* As long as no wait was given up and no prompt was longer than a request *)
(* line may declare, the answer Broker::ask accepts (model.rs) answers its *)
(* own prompt, whole, and no reply is taken for two calls.                 *)
THEOREM AnswersAreForTheQuestion == BrokerSpec => []AnswersTheQuestion
<1>1. Conversation => AnswersTheQuestion
  <2> SUFFICES ASSUME Talk  PROVE AnswersTheQuestion
    BY DEF Conversation, AnswersTheQuestion, Undisturbed
  <2> QED
    BY DEF Talk, Settled, AnswersTheQuestion
<1> QED
  BY <1>1, PortAlways, ConversationInitially, ConversationStep, PTL DEF BrokerSpec
=============================================================================
