---------------------------- MODULE MessageQueue ----------------------------
(***************************************************************************)
(* The ring of messages inside a service's queue (skynet_mq.c): head and    *)
(* tail run around an array of which one place is always free; a push that   *)
(* fills it copies everything into an array of twice the size.  Each        *)
(* operation holds the queue's lock.  What the queue means to the worker     *)
(* threads is modelled in Mailbox, where it is a sequence; here the ring is  *)
(* shown to be that sequence.                                               *)
(***************************************************************************)
EXTENDS Integers, Sequences

CONSTANTS MqMessages,   \* the messages
          QueueSize,    \* DEFAULT_QUEUE_SIZE
          MqOverload,   \* MQ_OVERLOAD
          MaxQueued     \* bound on the messages waiting

ASSUME RingAssumption ==
  QueueSize \in Nat \ {0, 1} /\ MqOverload \in Nat \ {0} /\ MaxQueued \in Nat

VARIABLES ring, cap, head, tail,
          overload, overload_threshold,
          fifo          \* history: what was pushed and not popped

mqVars == <<ring, cap, head, tail, overload, overload_threshold, fifo>>

(* skynet_mq_create                                                         *)
MqInit ==
  /\ cap = QueueSize /\ head = 0 /\ tail = 0
  /\ ring \in [0 .. QueueSize - 1 -> MqMessages]
  /\ overload = 0 /\ overload_threshold = MqOverload
  /\ fifo = <<>>
-----------------------------------------------------------------------------
Around(i) == IF i >= cap THEN i - cap ELSE i

(* Fault: the copy does not begin at the head.                              *)
ExpandUnrotated(r) == [i \in 0 .. 2 * cap - 1 |-> r[IF i < cap THEN i ELSE i - cap]]

(* expand_queue: the oldest message first; the rest of the array is whatever *)
(* malloc returns.                                                          *)
Expanded(r) == [i \in 0 .. 2 * cap - 1 |-> r[Around(head + (IF i < cap THEN i ELSE i - cap))]]

(* skynet_mq_push                                                           *)
MqPush(m) ==
  LET r == [ring EXCEPT ![tail] = m]
      t == Around(tail + 1)
  IN
  /\ Len(fifo) < MaxQueued
  /\ IF t = head
     THEN ring' = Expanded(r) /\ head' = 0 /\ tail' = cap /\ cap' = 2 * cap
     ELSE ring' = r /\ tail' = t /\ UNCHANGED <<head, cap>>
  /\ fifo' = Append(fifo, m)
  /\ UNCHANGED <<overload, overload_threshold>>

(* skynet_mq_length                                                         *)
MqLength == IF head <= tail THEN tail - head ELSE tail + cap - head

(* skynet_mq_pop: the number left may be worth a warning, for which the      *)
(* threshold is doubled until it is reached; an empty queue resets it.      *)
MqPop ==
  /\ IF head # tail
     THEN /\ head' = Around(head + 1)
          /\ LET left == MqLength - 1
                 doubled == {k \in 0 .. left : overload_threshold * 2 ^ k >= left}
                 d == CHOOSE k \in doubled : \A j \in doubled : k <= j
             IN /\ overload_threshold' = overload_threshold * 2 ^ d
                /\ overload' = IF d > 0 THEN left ELSE overload
          /\ fifo' = Tail(fifo)
     ELSE /\ overload_threshold' = MqOverload
          /\ UNCHANGED <<head, overload, fifo>>
  /\ UNCHANGED <<ring, cap, tail>>

(* skynet_mq_overload: the warning is taken.                                *)
MqTakeOverload ==
  /\ overload > 0 /\ overload' = 0
  /\ UNCHANGED <<ring, cap, head, tail, overload_threshold, fifo>>

MqNext == (\E m \in MqMessages : MqPush(m)) \/ MqPop \/ MqTakeOverload

MqSpec == MqInit /\ [][MqNext]_mqVars
-----------------------------------------------------------------------------
(* From head to tail the array holds exactly the messages that wait, oldest  *)
(* first, around the end of the array and through every expansion, so that a *)
(* pop takes the oldest (skynet_mq.c:137-209).                              *)
RingIsFifo ==
  /\ MqLength = Len(fifo) /\ Len(fifo) < cap
  /\ \A i \in DOMAIN fifo : ring[Around(head + i - 1)] = fifo[i]
=============================================================================
