---------------------------- MODULE BoundedFifo ----------------------------
(***************************************************************************)
(* What util/queue.c promises its callers: a first-in first-out queue that *)
(* holds at most Capacity messages, shared by the firmware's execution     *)
(* contexts, each of whose calls takes effect at one instant.  A call that *)
(* cannot be served says so and changes nothing.                           *)
(***************************************************************************)
EXTENDS Integers, Sequences

CONSTANTS Contexts,   \* execution contexts: the main loop and the interrupts
          Msgs,       \* message buffers
          NULL,       \* the null pointer
          OK, FULL,   \* the return codes 0 and -1 of msg_enqueue
          Capacity    \* how many messages the queue holds

VARIABLES items,      \* the queued messages, oldest first
          ret         \* ret[c]: what the last call of context c returned

fifoVars == <<items, ret>>

Init == /\ items = << >>
        /\ ret = [c \in Contexts |-> NULL]

Enqueue(c, m) == /\ Len(items) < Capacity
                 /\ items' = Append(items, m)
                 /\ ret' = [ret EXCEPT ![c] = OK]

EnqueueFull(c) == /\ Len(items) = Capacity
                  /\ ret' = [ret EXCEPT ![c] = FULL]
                  /\ UNCHANGED items

Dequeue(c) == /\ items # << >>
              /\ items' = Tail(items)
              /\ ret' = [ret EXCEPT ![c] = Head(items)]

DequeueEmpty(c) == /\ items = << >>
                   /\ ret' = [ret EXCEPT ![c] = NULL]
                   /\ UNCHANGED items

Next == \E c \in Contexts :
           \/ \E m \in Msgs : Enqueue(c, m)
           \/ EnqueueFull(c)
           \/ Dequeue(c)
           \/ DequeueEmpty(c)

Spec == Init /\ [][Next]_fifoVars
=============================================================================
