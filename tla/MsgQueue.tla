------------------------------ MODULE MsgQueue ------------------------------
(***************************************************************************)
(* The message ring of util/queue.c, reached through safe_enqueue and      *)
(* safe_dequeue (btctl_intf.h).  The main loop and the interrupt handlers  *)
(* share every ring: the transmit ring tx_q, for one, has producers on     *)
(* both sides (state responses from the main loop, received packets from   *)
(* the timer interrupt).  The operations are modelled one memory access at *)
(* a time; what keeps them apart is PRIMASK, set by irq_save_disable and   *)
(* put back by irq_restore.                                                *)
(*                                                                         *)
(* The ring keeps one slot free, so it holds MSG_QUEUE_SIZE - 1 messages.  *)
(***************************************************************************)
EXTENDS Integers, Sequences

CONSTANTS Msgs,             \* message buffers
          NULL,             \* the null pointer
          OK, FULL,         \* return codes 0 and -1
          Main, Irq,        \* the two execution contexts
          MSG_QUEUE_SIZE    \* slots of the ring (queue.h)

ASSUME QueueAssumption ==
  /\ MSG_QUEUE_SIZE \in Nat \ {0}
  /\ NULL \notin Msgs
  /\ Main # Irq

Contexts == {Main, Irq}
Slots == 0 .. MSG_QUEUE_SIZE - 1

VARIABLES head, tail, msg,  \* struct msg_queue_s
          primask,          \* interrupts masked
          flags,            \* flags[c]: PRIMASK as irq_save_disable returned it
          pc,               \* pc[c]: next access of context c
          p,                \* p[c]: the message being enqueued or dequeued
          ret,              \* ret[c]: result of the last call of c
          section           \* the main loop's own masked section: "none", or
                            \* "masked" or "clear", PRIMASK as it found it

ring == <<head, tail, msg>>
vars == <<head, tail, msg, primask, flags, pc, p, ret, section>>

wrap(i) == (i + 1) % MSG_QUEUE_SIZE

msg_queue_empty == head = tail
msg_queue_full_no_gap == tail = head /\ msg[head] # NULL
msg_queue_full == wrap(tail) = head

(* msg_queue_init; the static ring is zero-filled. *)
Init == /\ head = 0 /\ tail = 0
        /\ msg = [i \in Slots |-> NULL]
        /\ primask = FALSE
        /\ flags = [c \in Contexts |-> FALSE]
        /\ pc = [c \in Contexts |-> "idle"]
        /\ p = [c \in Contexts |-> NULL]
        /\ ret = [c \in Contexts |-> NULL]
        /\ section = "none"

(* An interrupt handler runs to completion before the main loop goes on.   *)
MayRun(c) == c = Main => pc[Irq] = "idle"

Step(c, from, to) == /\ MayRun(c)
                     /\ pc[c] = from
                     /\ pc' = [pc EXCEPT ![c] = to]

(* safe_enqueue / safe_dequeue entered.  An interrupt is taken only while  *)
(* PRIMASK is clear.                                                       *)
Call(c, to) == /\ Step(c, "idle", to)
               /\ c = Irq => ~primask
               /\ UNCHANGED <<ring, primask, flags, ret, section>>

CallEnqueue(c, m) == Call(c, "enqueue") /\ p' = [p EXCEPT ![c] = m]
CallDequeue(c) == Call(c, "dequeue") /\ p' = [p EXCEPT ![c] = NULL]

irq_save_only(c, from, to) ==
  /\ Step(c, from, to)
  /\ flags' = [flags EXCEPT ![c] = primask]
  /\ UNCHANGED <<ring, primask, p, ret, section>>

irq_save_disable(c, from, to) ==
  /\ Step(c, from, to)
  /\ flags' = [flags EXCEPT ![c] = primask]
  /\ primask' = TRUE
  /\ UNCHANGED <<ring, p, ret, section>>

(* msg_enqueue *)
EnqueueFull(c) == /\ Step(c, "check_full", "restore")
                  /\ msg_queue_full
                  /\ ret' = [ret EXCEPT ![c] = FULL]
                  /\ UNCHANGED <<ring, primask, flags, p, section>>

EnqueueWrite(c) == /\ MayRun(c)
                   /\ pc[c] = "check_full"
                   /\ ~msg_queue_full
                   /\ msg' = [msg EXCEPT ![tail] = p[c]]
                   /\ pc' = [pc EXCEPT ![c] = "move_tail"]
                   /\ UNCHANGED <<head, tail, primask, flags, p, ret, section>>

EnqueueMoveTail(c) == /\ Step(c, "move_tail", "restore")
                      /\ tail' = wrap(tail)
                      /\ ret' = [ret EXCEPT ![c] = OK]
                      /\ UNCHANGED <<head, msg, primask, flags, p, section>>

(* msg_dequeue *)
DequeueEmpty(c) == /\ Step(c, "check_empty", "restore")
                   /\ msg_queue_empty
                   /\ ret' = [ret EXCEPT ![c] = NULL]
                   /\ UNCHANGED <<ring, primask, flags, p, section>>

DequeueRead(c) == /\ Step(c, "check_empty", "move_head")
                  /\ ~msg_queue_empty
                  /\ p' = [p EXCEPT ![c] = msg[head]]
                  /\ UNCHANGED <<ring, primask, flags, ret, section>>

DequeueMoveHead(c) == /\ Step(c, "move_head", "restore")
                      /\ head' = wrap(head)
                      /\ ret' = [ret EXCEPT ![c] = p[c]]
                      /\ UNCHANGED <<tail, msg, primask, flags, p, section>>

irq_restore(c) == /\ Step(c, "restore", "idle")
                  /\ primask' = flags[c]
                  /\ UNCHANGED <<ring, flags, p, ret, section>>

(* console_flush masks interrupts around its own work and enqueues inside: *)
(* the calls nest, and the inner irq_restore must not unmask.              *)
EnterSection == /\ section = "none"
                /\ pc[Main] = "idle" /\ pc[Irq] = "idle"
                /\ section' = IF primask THEN "masked" ELSE "clear"
                /\ primask' = TRUE
                /\ UNCHANGED <<ring, flags, pc, p, ret>>

LeaveSection == /\ section # "none"
                /\ pc[Main] = "idle" /\ pc[Irq] = "idle"
                /\ primask' = (section = "masked")
                /\ section' = "none"
                /\ UNCHANGED <<ring, flags, pc, p, ret>>

Next == \/ \E c \in Contexts :
              \/ \E m \in Msgs : CallEnqueue(c, m)
              \/ CallDequeue(c)
              \/ irq_save_disable(c, "enqueue", "check_full")
              \/ irq_save_disable(c, "dequeue", "check_empty")
              \/ EnqueueFull(c) \/ EnqueueWrite(c) \/ EnqueueMoveTail(c)
              \/ DequeueEmpty(c) \/ DequeueRead(c) \/ DequeueMoveHead(c)
              \/ irq_restore(c)
        \/ EnterSection
        \/ LeaveSection

Spec == Init /\ [][Next]_vars

-----------------------------------------------------------------------------
Steps == {"idle", "enqueue", "dequeue", "check_full", "move_tail",
          "check_empty", "move_head", "restore"}
Critical == {"check_full", "move_tail", "check_empty", "move_head", "restore"}

TypeOK == /\ head \in Slots /\ tail \in Slots
          /\ msg \in [Slots -> Msgs \cup {NULL}]
          /\ primask \in BOOLEAN
          /\ flags \in [Contexts -> BOOLEAN]
          /\ pc \in [Contexts -> Steps]
          /\ p \in [Contexts -> Msgs \cup {NULL}]
          /\ ret \in [Contexts -> Msgs \cup {NULL, OK, FULL}]
          /\ section \in {"none", "masked", "clear"}

(* The number of queued messages, and the messages themselves.             *)
Count(h, t) == IF h <= t THEN t - h ELSE t - h + MSG_QUEUE_SIZE
Queued(h, t, m) == [i \in 1 .. Count(h, t) |-> m[(h + i - 1) % MSG_QUEUE_SIZE]]
items == Queued(head, tail, msg)

(* Masking excludes: from irq_save_disable to irq_restore of an operation, *)
(* and from end to end of console_flush with the operation nested in it,   *)
(* the main loop is not interrupted.                                       *)
Exclusion == pc[Main] \in Critical \/ section # "none" => pc[Irq] = "idle"

(* An operation whose check has passed can rely on it until it moves its   *)
(* index: the ring is still not full (the slot it wrote still holds its    *)
(* message), or still not empty (the message it read is still the oldest). *)
CheckedStaysTrue ==
  \A c \in Contexts :
    /\ pc[c] = "move_tail" => ~msg_queue_full /\ msg[tail] = p[c]
    /\ pc[c] = "move_head" => ~msg_queue_empty /\ msg[head] = p[c]

(* The ring, accessed word by word from two contexts, behaves as a queue   *)
(* of MSG_QUEUE_SIZE - 1 messages whose operations are atomic: nothing is  *)
(* lost, duplicated, overwritten or reordered.                             *)
Fifo == INSTANCE BoundedFifo WITH Capacity <- MSG_QUEUE_SIZE - 1

ImplementsFifo == Fifo!Spec
=============================================================================
