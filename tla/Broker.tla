------------------------------- MODULE Broker -------------------------------
(***************************************************************************)
(* The model broker (nawa/kernel/src/model.rs) over the virtio console     *)
(* (nawa/virtio/src/console.rs) and, at the other end of the channel, the  *)
(* relay (host/relay/relay.py).                                            *)
(*                                                                         *)
(* The kernel makes one call of `ask` at a time and spins inside it; the   *)
(* device and the relay run on their own.  A wait that runs out of         *)
(* attempts gives up, however slow the other side may be.                  *)
(*                                                                         *)
(* What goes over the channel is counted in units: a request line is one,  *)
(* a prompt is one or more.  The gate's verdict on the crossing is an      *)
(* input here (module Gate has the rest); the handshake that opens the     *)
(* port is taken as done.  External: the device moves a reply into the     *)
(* posted buffer whole.                                                    *)
(***************************************************************************)
EXTENDS Virtqueue

CONSTANTS Lengths,      \* prompt lengths, in units
          MaxDeclared,  \* the length a request line declares at most (2048)
          BUFFER_BYTES, \* units the transmit buffer holds (16384)
          MaxAsks       \* bound on the calls of `ask`

ASSUME BrokerAssumption ==
  /\ Lengths \subseteq Nat \ {0} /\ MaxAsks \in Nat
  /\ MaxDeclared \in Nat \ {0} /\ BUFFER_BYTES \in Nat \ {0}

\* What a request line may declare fits the transmit buffer: 2048 and 16384.
ASSUME DeclaredFits == MaxDeclared <= BUFFER_BYTES

VARIABLES pc,        \* where `ask` is
          asks,      \* every call, its class, prompt length and verdict
          transmit, receive,   \* the two queues of the port
          transmit_buffer, receive_buffer,
          head,      \* the request `send` waits for
          posted,    \* Console.posted
          line,      \* units on their way to the relay
          replies,   \* replies on their way to the machine
          answers,   \* history: which reply was accepted for which ask
          heard,     \* history: units that ever left the machine
          late       \* history: answers accepted after the receive queue broke

brokerVars == <<pc, asks, transmit, receive, transmit_buffer, receive_buffer,
                head, posted, line, replies, answers, heard, late>>

(* Capability classes as `ask` tells them apart. *)
Classes == {"NotModel", "Private", "Public"}

Header(ask, declared) == [kind |-> "Header", ask |-> ask, declared |-> declared]
Unit(ask) == [kind |-> "Unit", ask |-> ask]
Prompt(ask, length) == [i \in 1..length |-> Unit(ask)]

(* Mutant: the declared length leaves the last unit out. *)
Declared_OneShort(length) == IF length <= MaxDeclared THEN length - 1 ELSE MaxDeclared

(* The length a request line announces. *)
Declared(length) == IF length < MaxDeclared THEN length ELSE MaxDeclared

Now == Len(asks)          \* the call being served
Ok(units) == [ok |-> TRUE, prompt |-> units]
Err == [ok |-> FALSE]

(* Console::open ends with a buffer posted for the first reply. *)
BrokerInit ==
  /\ pc = "idle" /\ asks = <<>>
  /\ transmit = Queue_new /\ head = 0
  /\ receive = submit(Queue_new, 1) /\ posted = head_of(Queue_new)
  /\ transmit_buffer = <<>> /\ receive_buffer = Err
  /\ line = <<>> /\ replies = <<>> /\ answers = <<>> /\ heard = <<>> /\ late = 0

-----------------------------------------------------------------------------
(* write_from: the buffer's first units change, the rest stays. *)
written(buffer, units) ==
  units \o SubSeq(buffer, Len(units) + 1, Len(buffer))

(* Console::send on the transmit queue q, up to its wait: too much is      *)
(* refused, and the buffer is written before the queue is asked.           *)
send(q, units, waiting) ==
  \/ /\ Len(units) > BUFFER_BYTES
     /\ transmit' = q
     /\ pc' = "idle"                  \* "model:channel refused"
     /\ UNCHANGED <<transmit_buffer, head>>
  \/ /\ Len(units) <= BUFFER_BYTES
     /\ transmit_buffer' = written(transmit_buffer, units)
     /\ \/ /\ may_submit(q)
           /\ transmit' = submit(q, Len(units))
           /\ head' = head_of(q)
           /\ pc' = waiting
        \/ /\ ~may_submit(q)
           /\ transmit' = q
           /\ pc' = "idle"            \* "model:channel refused"
           /\ UNCHANGED head

called(class, length, crossed) ==
  asks' = Append(asks, [class |-> class, length |-> length, crossed |-> crossed])

(* Mutant: the class is looked at after the request line is sent. *)
ask_PrivateRouted(class, length, crossed) ==
  /\ pc = "idle"
  /\ called(class, length, crossed)
  /\ \/ /\ ~crossed \/ class = "NotModel"
        /\ UNCHANGED <<pc, transmit, transmit_buffer, head>>
     \/ /\ crossed /\ class # "NotModel"
        /\ send(transmit, <<Header(Now + 1, Declared(length))>>, "header")
  /\ UNCHANGED <<receive, receive_buffer, posted, line, replies, answers, heard, late>>

(* Broker::ask as far as the request line.  A refused crossing, a          *)
(* capability that is no model and the private class end here.             *)
ask(class, length, crossed) ==
  /\ pc = "idle"
  /\ called(class, length, crossed)
  /\ \/ /\ ~crossed \/ class \in {"NotModel", "Private"}
        /\ UNCHANGED <<pc, transmit, transmit_buffer, head>>
     \/ /\ crossed /\ class = "Public"
        /\ send(transmit, <<Header(Now + 1, Declared(length))>>, "header")
  /\ UNCHANGED <<receive, receive_buffer, posted, line, replies, answers, heard, late>>

(* The line is out: the whole prompt follows, whatever was declared. *)
SendPrompt ==
  /\ pc = "header" /\ completes(transmit, head)
  /\ send(taken(transmit), Prompt(Now, asks[Now].length), "prompt")
  /\ UNCHANGED <<asks, receive, receive_buffer, posted, line, replies, answers, heard, late>>

PromptSent ==
  /\ pc = "prompt" /\ completes(transmit, head)
  /\ transmit' = taken(transmit)
  /\ pc' = "receive"
  /\ UNCHANGED <<asks, transmit_buffer, head, receive, receive_buffer, posted, line,
                 replies, answers, heard, late>>

SendGivesUp ==
  /\ pc \in {"header", "prompt"} /\ gives_up(transmit, head)
  /\ transmit' = abandoned(transmit)
  /\ pc' = "idle"
  /\ UNCHANGED <<asks, transmit_buffer, head, receive, receive_buffer, posted, line,
                 replies, answers, heard, late>>

(* post_receive: a refusal leaves `posted` naming the old request. *)
post_receive(q) ==
  \/ /\ may_submit(q)
     /\ receive' = submit(q, 1)
     /\ posted' = head_of(q)
  \/ /\ ~may_submit(q)
     /\ receive' = q
     /\ UNCHANGED posted

(* Console::receive returns and the reply is read: an OK is charged for    *)
(* and handed to the agent, anything else is refused.                      *)
Receive ==
  /\ pc = "receive" /\ completes(receive, posted)
  /\ post_receive(taken(receive))
  /\ answers' = IF receive_buffer.ok
                  THEN Append(answers, [ask |-> Now, reply |-> receive_buffer])
                  ELSE answers
  /\ late' = IF receive.broken THEN late + 1 ELSE late
  /\ pc' = "idle"
  /\ UNCHANGED <<asks, transmit, transmit_buffer, head, receive_buffer, line, replies, heard>>

(* "model:no answer": the peer was silent for too long. *)
ReceiveGivesUp ==
  /\ pc = "receive" /\ gives_up(receive, posted)
  /\ receive' = abandoned(receive)
  /\ pc' = "idle"
  /\ UNCHANGED <<asks, transmit, transmit_buffer, head, receive_buffer, posted, line,
                 replies, answers, heard, late>>

-----------------------------------------------------------------------------
(* External: the device forwards a published buffer as it is now, and      *)
(* fills a posted one.                                                     *)
DeviceTransmits ==
  /\ dev_pending(transmit)
  /\ LET units == SubSeq(transmit_buffer, 1, transmit.descriptors[dev_head(transmit)])
     IN  line' = line \o units /\ heard' = heard \o units
  /\ transmit' = dev_complete(transmit, 0)
  /\ UNCHANGED <<pc, asks, transmit_buffer, head, receive, receive_buffer, posted,
                 replies, answers, late>>

DeviceReceives ==
  /\ dev_pending(receive) /\ replies # <<>>
  /\ receive_buffer' = Head(replies)
  /\ replies' = Tail(replies)
  /\ receive' = dev_complete(receive, 1)
  /\ UNCHANGED <<pc, asks, transmit, transmit_buffer, head, posted, line, answers, heard,
                 late>>

Dropped(n) == SubSeq(line, n + 1, Len(line))

(* The relay reads up to the end of a request line; if that is a request   *)
(* and nothing else, it takes as many units as declared and answers, or    *)
(* its model fails.                                                        *)
converse ==
  \E i \in DOMAIN line :
    /\ line[i].kind = "Header"
    /\ \A j \in 1..(i - 1) : line[j].kind # "Header"
    /\ \/ /\ i > 1
          /\ replies' = Append(replies, Err)
          /\ line' = Dropped(i)
       \/ /\ i = 1
          /\ Len(line) > line[1].declared
          /\ \E reply \in {Ok(SubSeq(line, 2, 1 + line[1].declared)), Err} :
               replies' = Append(replies, reply)
          /\ line' = Dropped(1 + line[1].declared)
    /\ UNCHANGED <<pc, asks, transmit, transmit_buffer, head, receive, receive_buffer,
                   posted, answers, heard, late>>

-----------------------------------------------------------------------------
BrokerNext ==
  \/ /\ Len(asks) < MaxAsks
     /\ \E class \in Classes, length \in Lengths, crossed \in BOOLEAN :
          ask(class, length, crossed)
  \/ SendPrompt \/ PromptSent \/ SendGivesUp \/ Receive \/ ReceiveGivesUp
  \/ DeviceTransmits \/ DeviceReceives \/ converse

BrokerSpec == BrokerInit /\ [][BrokerNext]_brokerVars

-----------------------------------------------------------------------------
(* Never more than one request of a queue with the device (queue.rs 50-56: *)
(* after a timeout its slots must not be reused), across wrapped indices.  *)
OneInFlight == InFlight(transmit) <= 1 /\ InFlight(receive) <= 1

(* Nothing leaves the machine for an ask the gate refused, nor for the     *)
(* private class (model.rs 70-85), whatever was abandoned before.          *)
OnlyPaidPublicLeaves ==
  \A i \in DOMAIN heard :
    LET a == asks[heard[i].ask] IN a.crossed /\ a.class = "Public"

(* As long as no wait was given up and no prompt was longer than a request *)
(* line may declare, an answer accepted for an ask answers that ask's own  *)
(* prompt, whole, and no reply is accepted twice.                          *)
Overlong == \E q \in DOMAIN asks : asks[q].length > MaxDeclared

AnsweredAsAsked(k) ==
  answers[k].reply.prompt = Prompt(answers[k].ask, asks[answers[k].ask].length)

AnswersTheQuestion ==
  ~transmit.broken /\ ~receive.broken /\ ~Overlong =>
    /\ \A k \in DOMAIN answers : AnsweredAsAsked(k)
    /\ \A j, k \in DOMAIN answers : answers[j].ask = answers[k].ask => j = k

(* Once the machine has given up waiting for a reply, at most one late     *)
(* reply is ever taken: the channel then stays silent.                     *)
AtMostOneLateAnswer == late <= 1

(* "Accepting the late completion would attribute one request's result to  *)
(* another [...] so the queue fails closed" (queue.rs 52-56): no answer is *)
(* accepted for a question it does not answer.                             *)
NoAnswerMisattributed == \A k \in DOMAIN answers : AnsweredAsAsked(k)
=============================================================================
