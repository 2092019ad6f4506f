---------------------------- MODULE Btbr_proofs -----------------------------
(***************************************************************************)
(* Proofs about three parts of btbr that interrupts and main loop share.   *)
(* The message ring, for every ring size and every set of messages: type   *)
(* correctness, mutual exclusion by PRIMASK, and that it implements        *)
(* BoundedFifo.  The message transport, for every size of packets,         *)
(* messages, queues and pool: no buffer is lost, and either direction is a *)
(* MessagePipe.  The control with its tasks and their scheduler, for every *)
(* ring, scan window and wait that fit together: the tasks never collide,  *)
(* and STANDBY is quiet.                                                   *)
(***************************************************************************)
EXTENDS MsgQueue, BtrUsb, Btctl, SequenceTheorems, TLAPS

(* Index arithmetic of the ring.                                           *)
LEMMA ModSmall ==
  ASSUME NEW N \in Nat \ {0}, NEW i \in 0 .. N - 1
  PROVE  i % N = i
  OBVIOUS

LEMMA ModOnce ==
  ASSUME NEW N \in Nat \ {0}, NEW i \in N .. 2 * N - 1
  PROVE  i % N = i - N
  OBVIOUS

(* wrap steps to the next slot, and from the last slot to the first.       *)
LEMMA WrapValue ==
  ASSUME NEW i \in Slots
  PROVE  /\ wrap(i) = IF i = MSG_QUEUE_SIZE - 1 THEN 0 ELSE i + 1
         /\ wrap(i) \in Slots
<1>. MSG_QUEUE_SIZE \in Nat \ {0}
  BY QueueAssumption
<1>1. CASE i = MSG_QUEUE_SIZE - 1
  BY <1>1, ModOnce DEF wrap, Slots
<1>2. CASE i # MSG_QUEUE_SIZE - 1
  <2>. i + 1 \in 0 .. MSG_QUEUE_SIZE - 1
    BY <1>2 DEF Slots
  <2>. QED  BY <1>2, ModSmall DEF wrap, Slots
<1>. QED  BY <1>1, <1>2

-----------------------------------------------------------------------------
LEMMA TypeInit == Init => TypeOK
<1>. SUFFICES ASSUME Init PROVE TypeOK
  OBVIOUS
<1>1. head \in Slots /\ tail \in Slots /\ msg \in [Slots -> Msgs \cup {NULL}]
  BY QueueAssumption DEF Init, Slots
<1>2. primask \in BOOLEAN /\ flags \in [Contexts -> BOOLEAN]
  BY DEF Init
<1>3. /\ pc \in [Contexts -> Steps]
      /\ p \in [Contexts -> Msgs \cup {NULL}]
      /\ ret \in [Contexts -> Msgs \cup {NULL, OK, FULL}]
      /\ section \in {"none", "masked", "clear"}
  BY DEF Init, Steps
<1>. QED  BY <1>1, <1>2, <1>3 DEF TypeOK

(* The model stays within its types.                                       *)
THEOREM TypeCorrect == Spec => []TypeOK
<1>. USE QueueAssumption DEF TypeOK, Contexts
<1>1. Init => TypeOK
  BY TypeInit
<1>2. TypeOK /\ [Next]_vars => TypeOK'
  <2>. SUFFICES ASSUME TypeOK, [Next]_vars PROVE TypeOK'
    OBVIOUS
  <2>1. ASSUME NEW c \in Contexts, NEW m \in Msgs, CallEnqueue(c, m)
        PROVE  TypeOK'
    BY <2>1 DEF CallEnqueue, Call, Step, ring, Steps
  <2>2. ASSUME NEW c \in Contexts, CallDequeue(c)
        PROVE  TypeOK'
    BY <2>2 DEF CallDequeue, Call, Step, ring, Steps
  <2>3. ASSUME NEW c \in Contexts,
               \/ irq_save_disable(c, "enqueue", "check_full")
               \/ irq_save_disable(c, "dequeue", "check_empty")
        PROVE  TypeOK'
    <3>1. flags' = [flags EXCEPT ![c] = primask] /\ primask' = TRUE /\ UNCHANGED <<head, tail, msg, p, ret, section>>
      BY <2>3 DEF irq_save_disable, ring
    <3>2. \E to \in {"check_full", "check_empty"} : pc' = [pc EXCEPT ![c] = to]
      BY <2>3 DEF irq_save_disable, Step
    <3>3. pc' \in [Contexts -> Steps]
      BY <3>2 DEF TypeOK, Steps
    <3>. QED  BY <3>1, <3>3 DEF TypeOK
  <2>4. ASSUME NEW c \in Contexts, EnqueueFull(c)
        PROVE  TypeOK'
    BY <2>4 DEF EnqueueFull, Step, ring, Steps
  <2>5. ASSUME NEW c \in Contexts, EnqueueWrite(c)
        PROVE  TypeOK'
    BY <2>5 DEF EnqueueWrite, Steps
  <2>6. ASSUME NEW c \in Contexts, EnqueueMoveTail(c)
        PROVE  TypeOK'
    BY <2>6, WrapValue DEF EnqueueMoveTail, Step, Steps
  <2>7. ASSUME NEW c \in Contexts, DequeueEmpty(c)
        PROVE  TypeOK'
    BY <2>7 DEF DequeueEmpty, Step, ring, Steps
  <2>8. ASSUME NEW c \in Contexts, DequeueRead(c)
        PROVE  TypeOK'
    BY <2>8 DEF DequeueRead, Step, ring, Steps
  <2>9. ASSUME NEW c \in Contexts, DequeueMoveHead(c)
        PROVE  TypeOK'
    BY <2>9, WrapValue DEF DequeueMoveHead, Step, Steps
  <2>10. ASSUME NEW c \in Contexts, irq_restore(c)
         PROVE  TypeOK'
    BY <2>10 DEF irq_restore, Step, ring, Steps
  <2>11. CASE EnterSection
    BY <2>11 DEF EnterSection, ring
  <2>12. CASE LeaveSection
    BY <2>12 DEF LeaveSection, ring
  <2>13. CASE UNCHANGED vars
    BY <2>13 DEF vars
  <2>. QED
    BY <2>1, <2>2, <2>3, <2>4, <2>5, <2>6, <2>7, <2>8, <2>9, <2>10, <2>11,
       <2>12, <2>13 DEF Next
<1>. QED  BY <1>1, <1>2, PTL DEF Spec

-----------------------------------------------------------------------------
(* The strengthening that makes exclusion inductive: whoever is inside an  *)
(* operation or a section has interrupts masked, a nested restore leaves   *)
(* them masked, and the interrupt context is only active when the main     *)
(* loop is inside neither.                                                 *)
Masked ==
  /\ \A c \in Contexts : pc[c] \in Critical => primask
  /\ section # "none" => primask
  /\ pc[Main] \in Critical /\ section # "none" => flags[Main]
  /\ pc[Irq] # "idle" => pc[Main] \notin Critical /\ section = "none"

ExclInv == TypeOK /\ Masked

LEMMA ExclInvInit == Init => ExclInv
<1>1. Init => TypeOK
  BY TypeInit
<1>2. Init => Masked
  BY DEF Init, Masked, Contexts, Critical
<1>. QED  BY <1>1, <1>2 DEF ExclInv

LEMMA MaskedStep == ExclInv /\ TypeOK' /\ [Next]_vars => Masked'
<1>. SUFFICES ASSUME ExclInv, TypeOK', [Next]_vars PROVE Masked'
  OBVIOUS
<1>. USE QueueAssumption DEF ExclInv, TypeOK, Masked, Contexts, Critical, MayRun
<1>1. ASSUME NEW c \in Contexts, NEW m \in Msgs, CallEnqueue(c, m)
      PROVE  Masked'
  BY <1>1 DEF CallEnqueue, Call, Step
<1>2. ASSUME NEW c \in Contexts, CallDequeue(c)
      PROVE  Masked'
  BY <1>2 DEF CallDequeue, Call, Step
<1>3. ASSUME NEW c \in Contexts,
             \/ irq_save_disable(c, "enqueue", "check_full")
             \/ irq_save_disable(c, "dequeue", "check_empty")
      PROVE  Masked'
  BY <1>3 DEF irq_save_disable, Step
<1>4. ASSUME NEW c \in Contexts, EnqueueFull(c)
      PROVE  Masked'
  BY <1>4 DEF EnqueueFull, Step
<1>5. ASSUME NEW c \in Contexts, EnqueueWrite(c)
      PROVE  Masked'
  BY <1>5 DEF EnqueueWrite
<1>6. ASSUME NEW c \in Contexts, EnqueueMoveTail(c)
      PROVE  Masked'
  BY <1>6 DEF EnqueueMoveTail, Step
<1>7. ASSUME NEW c \in Contexts, DequeueEmpty(c)
      PROVE  Masked'
  BY <1>7 DEF DequeueEmpty, Step
<1>8. ASSUME NEW c \in Contexts, DequeueRead(c)
      PROVE  Masked'
  BY <1>8 DEF DequeueRead, Step
<1>9. ASSUME NEW c \in Contexts, DequeueMoveHead(c)
      PROVE  Masked'
  BY <1>9 DEF DequeueMoveHead, Step
<1>10. ASSUME NEW c \in Contexts, irq_restore(c)
       PROVE  Masked'
  BY <1>10 DEF irq_restore, Step
<1>11. CASE EnterSection
  BY <1>11 DEF EnterSection
<1>12. CASE LeaveSection
  BY <1>12 DEF LeaveSection
<1>13. CASE UNCHANGED vars
  BY <1>13 DEF vars
<1>. QED
  BY <1>1, <1>2, <1>3, <1>4, <1>5, <1>6, <1>7, <1>8, <1>9, <1>10, <1>11,
     <1>12, <1>13 DEF Next

THEOREM MaskingHolds == Spec => []ExclInv
<1>1. ExclInv /\ TypeOK' /\ [Next]_vars => ExclInv'
  BY MaskedStep DEF ExclInv
<1>. QED  BY <1>1, ExclInvInit, TypeCorrect, PTL DEF Spec

(* Neither a queue operation of the main loop nor a section around it is   *)
(* ever interrupted (safe_enqueue, safe_dequeue, console_flush).           *)
THEOREM ExclusionHolds == Spec => []Exclusion
<1>1. ExclInv => Exclusion
  BY DEF ExclInv, Masked, Exclusion
<1>. QED  BY <1>1, MaskingHolds, PTL

-----------------------------------------------------------------------------
(* What the ring needs of its callers between a check and the index update *)
(* it guards, and of the message it is handed.                             *)
Enqueuing == {"enqueue", "check_full", "move_tail"}
HandedOver == \A c \in Contexts : pc[c] \in Enqueuing => p[c] \in Msgs

RingInv == ExclInv /\ HandedOver /\ CheckedStaysTrue

LEMMA RingInvInit == Init => RingInv
<1>1. Init => HandedOver /\ CheckedStaysTrue
  BY DEF Init, HandedOver, CheckedStaysTrue, Contexts, Enqueuing
<1>. QED  BY <1>1, ExclInvInit DEF RingInv

(* At most one context is between irq_save_disable and irq_restore.        *)
LEMMA OneInside ==
  ASSUME ExclInv, NEW c \in Contexts, NEW d \in Contexts, c # d,
         pc[c] \in Critical, MayRun(c)
  PROVE  pc[d] \notin Critical
  BY DEF ExclInv, Masked, TypeOK, Contexts, Critical, MayRun

LEMMA RingInvStep == RingInv /\ ExclInv' /\ [Next]_vars => RingInv'
<1>. SUFFICES ASSUME RingInv, ExclInv', [Next]_vars
              PROVE  HandedOver' /\ CheckedStaysTrue'
  BY DEF RingInv
<1>. USE DEF RingInv, HandedOver, CheckedStaysTrue, Enqueuing
<1>0. TypeOK /\ ExclInv
  BY DEF ExclInv
<1>1. ASSUME NEW c \in Contexts, NEW m \in Msgs, CallEnqueue(c, m)
      PROVE  HandedOver' /\ CheckedStaysTrue'
  BY <1>0, <1>1
  DEF CallEnqueue, Call, Step, ring, TypeOK, msg_queue_full, msg_queue_empty
<1>2. ASSUME NEW c \in Contexts, CallDequeue(c)
      PROVE  HandedOver' /\ CheckedStaysTrue'
  BY <1>0, <1>2
  DEF CallDequeue, Call, Step, ring, TypeOK, msg_queue_full, msg_queue_empty
<1>3. ASSUME NEW c \in Contexts,
             \/ irq_save_disable(c, "enqueue", "check_full")
             \/ irq_save_disable(c, "dequeue", "check_empty")
      PROVE  HandedOver' /\ CheckedStaysTrue'
  BY <1>0, <1>3
  DEF irq_save_disable, Step, ring, TypeOK, msg_queue_full, msg_queue_empty
<1>4. ASSUME NEW c \in Contexts, EnqueueFull(c)
      PROVE  HandedOver' /\ CheckedStaysTrue'
  BY <1>0, <1>4
  DEF EnqueueFull, Step, ring, TypeOK, msg_queue_full, msg_queue_empty
<1>5. ASSUME NEW c \in Contexts, EnqueueWrite(c)
      PROVE  HandedOver' /\ CheckedStaysTrue'
  <2>1. \A d \in Contexts : d # c => pc[d] \notin Critical
    BY <1>0, <1>5, OneInside DEF EnqueueWrite, Critical
  <2>2. msg' = [msg EXCEPT ![tail] = p[c]] /\ msg'[tail] = p[c]
    BY <1>0, <1>5 DEF EnqueueWrite, TypeOK
  <2>3. /\ pc[c] = "check_full" /\ pc' = [pc EXCEPT ![c] = "move_tail"]
        /\ ~msg_queue_full
        /\ UNCHANGED <<head, tail, p>>
    BY <1>5 DEF EnqueueWrite
  <2>. QED
    BY <1>0, <2>1, <2>2, <2>3
    DEF TypeOK, Critical, msg_queue_full, msg_queue_empty
<1>6. ASSUME NEW c \in Contexts, EnqueueMoveTail(c)
      PROVE  HandedOver' /\ CheckedStaysTrue'
  <2>1. \A d \in Contexts : d # c => pc[d] \notin Critical
    BY <1>0, <1>6, OneInside DEF EnqueueMoveTail, Step, Critical
  <2>. QED
    BY <1>0, <1>6, <2>1 DEF EnqueueMoveTail, Step, TypeOK, Critical
<1>7. ASSUME NEW c \in Contexts, DequeueEmpty(c)
      PROVE  HandedOver' /\ CheckedStaysTrue'
  BY <1>0, <1>7
  DEF DequeueEmpty, Step, ring, TypeOK, msg_queue_full, msg_queue_empty
<1>8. ASSUME NEW c \in Contexts, DequeueRead(c)
      PROVE  HandedOver' /\ CheckedStaysTrue'
  <2>1. \A d \in Contexts : d # c => pc[d] \notin Critical
    BY <1>0, <1>8, OneInside DEF DequeueRead, Step, Critical
  <2>. QED
    BY <1>0, <1>8, <2>1
    DEF DequeueRead, Step, ring, TypeOK, Critical, msg_queue_full, msg_queue_empty
<1>9. ASSUME NEW c \in Contexts, DequeueMoveHead(c)
      PROVE  HandedOver' /\ CheckedStaysTrue'
  <2>1. \A d \in Contexts : d # c => pc[d] \notin Critical
    BY <1>0, <1>9, OneInside DEF DequeueMoveHead, Step, Critical
  <2>. QED
    BY <1>0, <1>9, <2>1 DEF DequeueMoveHead, Step, TypeOK, Critical
<1>10. ASSUME NEW c \in Contexts, irq_restore(c)
       PROVE  HandedOver' /\ CheckedStaysTrue'
  BY <1>0, <1>10
  DEF irq_restore, Step, ring, TypeOK, msg_queue_full, msg_queue_empty
<1>11. CASE EnterSection
  BY <1>11 DEF EnterSection, ring, msg_queue_full, msg_queue_empty
<1>12. CASE LeaveSection
  BY <1>12 DEF LeaveSection, ring, msg_queue_full, msg_queue_empty
<1>13. CASE UNCHANGED vars
  BY <1>13 DEF vars, msg_queue_full, msg_queue_empty
<1>. QED
  BY <1>1, <1>2, <1>3, <1>4, <1>5, <1>6, <1>7, <1>8, <1>9, <1>10, <1>11,
     <1>12, <1>13 DEF Next

LEMMA RingInvHolds == Spec => []RingInv
  BY RingInvInit, RingInvStep, MaskingHolds, PTL DEF Spec

(* Between its check and its index update an operation of the ring finds   *)
(* the ring as the check left it (msg_enqueue, msg_dequeue).               *)
THEOREM CheckedHolds == Spec => []CheckedStaysTrue
<1>1. RingInv => CheckedStaysTrue
  BY DEF RingInv
<1>. QED  BY <1>1, RingInvHolds, PTL

-----------------------------------------------------------------------------
(* The i-th queued message is in the slot i - 1 places after the head.     *)
LEMMA PlaceInRing ==
  ASSUME NEW h \in Slots, NEW i \in 1 .. MSG_QUEUE_SIZE
  PROVE  /\ (h + i - 1) % MSG_QUEUE_SIZE =
               IF h + i - 1 < MSG_QUEUE_SIZE THEN h + i - 1
                                             ELSE h + i - 1 - MSG_QUEUE_SIZE
         /\ (h + i - 1) % MSG_QUEUE_SIZE \in Slots
<1>. MSG_QUEUE_SIZE \in Nat \ {0}
  BY QueueAssumption
<1>1. CASE h + i - 1 < MSG_QUEUE_SIZE
  <2>. h + i - 1 \in 0 .. MSG_QUEUE_SIZE - 1
    BY <1>1 DEF Slots
  <2>. QED  BY <1>1, ModSmall DEF Slots
<1>2. CASE ~(h + i - 1 < MSG_QUEUE_SIZE)
  <2>. h + i - 1 \in MSG_QUEUE_SIZE .. 2 * MSG_QUEUE_SIZE - 1
    BY <1>2 DEF Slots
  <2>. QED  BY <1>2, ModOnce DEF Slots
<1>. QED  BY <1>1, <1>2

LEMMA CountRange ==
  ASSUME NEW h \in Slots, NEW t \in Slots
  PROVE  Count(h, t) \in 0 .. MSG_QUEUE_SIZE - 1
  BY QueueAssumption DEF Slots, Count

LEMMA QueuedType ==
  ASSUME NEW h \in Slots, NEW t \in Slots, NEW S, NEW m \in [Slots -> S]
  PROVE  /\ Count(h, t) \in 0 .. MSG_QUEUE_SIZE - 1
         /\ Queued(h, t, m) \in Seq(S)
         /\ Len(Queued(h, t, m)) = Count(h, t)
         /\ \A i \in 1 .. Count(h, t) :
               Queued(h, t, m)[i] = m[(h + i - 1) % MSG_QUEUE_SIZE]
<1>1. Count(h, t) \in 0 .. MSG_QUEUE_SIZE - 1
  BY CountRange
<1>2. \A i \in 1 .. Count(h, t) : m[(h + i - 1) % MSG_QUEUE_SIZE] \in S
  BY <1>1, PlaceInRing, QueueAssumption
<1>. QED  BY <1>1, <1>2, QueueAssumption DEF Queued

(* Full and empty mean what they say, although only head, tail and its     *)
(* neighbour are compared.                                                 *)
LEMMA FullEmpty ==
  ASSUME NEW h \in Slots, NEW t \in Slots
  PROVE  /\ wrap(t) = h <=> Count(h, t) = MSG_QUEUE_SIZE - 1
         /\ h = t <=> Count(h, t) = 0
<1>1. /\ wrap(t) = IF t = MSG_QUEUE_SIZE - 1 THEN 0 ELSE t + 1
      /\ MSG_QUEUE_SIZE \in Nat \ {0}
  BY QueueAssumption, WrapValue
<1>. QED  BY <1>1 DEF Slots, Count

(* Moving the tail past a written slot appends its message.                *)
LEMMA MoveTailAppends ==
  ASSUME NEW h \in Slots, NEW t \in Slots, NEW S, NEW m \in [Slots -> S],
         wrap(t) # h
  PROVE  Queued(h, wrap(t), m) = Append(Queued(h, t, m), m[t])
<1>. DEFINE n == Count(h, t)
<1>0. /\ MSG_QUEUE_SIZE \in Nat \ {0}
      /\ wrap(t) \in Slots
      /\ wrap(t) = IF t = MSG_QUEUE_SIZE - 1 THEN 0 ELSE t + 1
  BY QueueAssumption, WrapValue
<1>1. n \in 0 .. MSG_QUEUE_SIZE - 2 /\ Count(h, wrap(t)) = n + 1
  BY <1>0 DEF Slots, Count
<1>2. (h + (n + 1) - 1) % MSG_QUEUE_SIZE = t
  <2>1. n + 1 \in 1 .. MSG_QUEUE_SIZE
    BY <1>0, <1>1
  <2>. QED  BY <1>0, <2>1, PlaceInRing DEF Count, Slots
<1>3. /\ Queued(h, t, m) \in Seq(S) /\ Len(Queued(h, t, m)) = n
      /\ \A i \in 1 .. n : Queued(h, t, m)[i] = m[(h + i - 1) % MSG_QUEUE_SIZE]
  BY QueuedType
<1>4. /\ Queued(h, wrap(t), m) \in Seq(S) /\ Len(Queued(h, wrap(t), m)) = n + 1
      /\ \A i \in 1 .. n + 1 :
           Queued(h, wrap(t), m)[i] = m[(h + i - 1) % MSG_QUEUE_SIZE]
  <2>1. /\ Queued(h, wrap(t), m) \in Seq(S)
        /\ Len(Queued(h, wrap(t), m)) = Count(h, wrap(t))
        /\ \A i \in 1 .. Count(h, wrap(t)) :
             Queued(h, wrap(t), m)[i] = m[(h + i - 1) % MSG_QUEUE_SIZE]
    BY SMTT(30), <1>0, QueuedType
  <2>. QED  BY <1>1, <2>1
<1>5. m[t] \in S
  OBVIOUS
<1>. HIDE DEF n
<1>6. \A i \in 1 .. n : Queued(h, wrap(t), m)[i] = Queued(h, t, m)[i]
  <2>. TAKE i \in 1 .. n
  <2>1. i \in 1 .. n + 1
    BY <1>1
  <2>. QED  BY <1>3, <1>4, <2>1
<1>7. Queued(h, wrap(t), m)[n + 1] = m[t]
  BY <1>1, <1>2, <1>4
<1>. QED  BY <1>1, <1>3, <1>4, <1>5, <1>6, <1>7

(* Moving the head drops the oldest message, the one it pointed at.        *)
LEMMA MoveHeadDrops ==
  ASSUME NEW h \in Slots, NEW t \in Slots, NEW S, NEW m \in [Slots -> S],
         h # t
  PROVE  /\ Queued(h, t, m) # << >>
         /\ Head(Queued(h, t, m)) = m[h]
         /\ Queued(wrap(h), t, m) = Tail(Queued(h, t, m))
<1>. DEFINE n == Count(h, t)
<1>0. /\ MSG_QUEUE_SIZE \in Nat \ {0}
      /\ wrap(h) \in Slots
      /\ wrap(h) = IF h = MSG_QUEUE_SIZE - 1 THEN 0 ELSE h + 1
  BY QueueAssumption, WrapValue
<1>1. n \in 1 .. MSG_QUEUE_SIZE - 1 /\ Count(wrap(h), t) = n - 1
  BY <1>0 DEF Slots, Count
<1>2. /\ Queued(h, t, m) \in Seq(S) /\ Len(Queued(h, t, m)) = n
      /\ \A i \in 1 .. n : Queued(h, t, m)[i] = m[(h + i - 1) % MSG_QUEUE_SIZE]
  BY QueuedType
<1>3. /\ Queued(wrap(h), t, m) \in Seq(S) /\ Len(Queued(wrap(h), t, m)) = n - 1
      /\ \A i \in 1 .. n - 1 :
           Queued(wrap(h), t, m)[i] = m[(wrap(h) + i - 1) % MSG_QUEUE_SIZE]
  <2>1. /\ Queued(wrap(h), t, m) \in Seq(S)
        /\ Len(Queued(wrap(h), t, m)) = Count(wrap(h), t)
        /\ \A i \in 1 .. Count(wrap(h), t) :
             Queued(wrap(h), t, m)[i] = m[(wrap(h) + i - 1) % MSG_QUEUE_SIZE]
    BY <1>0, QueuedType
  <2>. QED  BY <1>1, <2>1
<1>. HIDE DEF n
<1>4. \A i \in 1 .. n - 1 :
        (wrap(h) + i - 1) % MSG_QUEUE_SIZE = (h + (i + 1) - 1) % MSG_QUEUE_SIZE
  <2>. TAKE i \in 1 .. n - 1
  <2>1. i \in 1 .. MSG_QUEUE_SIZE /\ i + 1 \in 1 .. MSG_QUEUE_SIZE
    BY <1>0, <1>1
  <2>. QED  BY <1>0, <2>1, PlaceInRing DEF Slots
<1>5. \A i \in 1 .. n - 1 : Queued(wrap(h), t, m)[i] = Queued(h, t, m)[i + 1]
  BY <1>1, <1>2, <1>3, <1>4
<1>6. Queued(h, t, m)[1] = m[h]
  <2>1. (h + 1 - 1) % MSG_QUEUE_SIZE = h
    BY <1>0, ModSmall DEF Slots
  <2>. QED  BY <1>1, <1>2, <2>1
<1>. QED  BY <1>1, <1>2, <1>3, <1>5, <1>6

-----------------------------------------------------------------------------
LEMMA FifoInit == Init => Fifo!Init
<1>. SUFFICES ASSUME Init PROVE items = << >>
  BY DEF Init, Fifo!Init, Contexts
<1>1. Count(head, tail) = 0
  BY DEF Init, Count
<1>. QED  BY <1>1 DEF items, Queued

(* Every step of the ring is an operation of the FIFO or invisible to it:  *)
(* an operation takes effect when its index moves.                         *)
LEMMA FifoStep == RingInv /\ [Next]_vars => [Fifo!Next]_(Fifo!fifoVars)
<1>. SUFFICES ASSUME RingInv, [Next]_vars
              PROVE  [Fifo!Next]_(Fifo!fifoVars)
  OBVIOUS
<1>. DEFINE S == Msgs \cup {NULL}
<1>0. /\ head \in Slots /\ tail \in Slots /\ msg \in [Slots -> S]
      /\ HandedOver /\ CheckedStaysTrue /\ TypeOK
      /\ MSG_QUEUE_SIZE \in Nat \ {0}
  BY QueueAssumption DEF RingInv, ExclInv, TypeOK
<1>1. Len(items) = Count(head, tail)
  BY <1>0, QueuedType DEF items
<1>2. ASSUME UNCHANGED <<ring, ret>>
      PROVE  UNCHANGED Fifo!fifoVars
  BY <1>2 DEF ring, Fifo!fifoVars, items
<1>3. ASSUME NEW c \in Contexts, EnqueueFull(c)
      PROVE  Fifo!EnqueueFull(c)
  <2>1. Len(items) = MSG_QUEUE_SIZE - 1 /\ items' = items
    BY <1>0, <1>1, <1>3, FullEmpty DEF EnqueueFull, msg_queue_full, ring, items
  <2>. QED  BY <1>3, <2>1 DEF EnqueueFull, Fifo!EnqueueFull
<1>4. ASSUME NEW c \in Contexts, EnqueueWrite(c)
      PROVE  UNCHANGED Fifo!fifoVars
  <2>1. \A i \in 1 .. Count(head, tail) :
          (head + i - 1) % MSG_QUEUE_SIZE \in Slots \ {tail}
    <3>. TAKE i \in 1 .. Count(head, tail)
    <3>1. Count(head, tail) \in 0 .. MSG_QUEUE_SIZE - 1
      BY <1>0, CountRange
    <3>2. i \in 1 .. MSG_QUEUE_SIZE
      BY <1>0, <3>1
    <3>. QED  BY <1>0, <3>1, <3>2, PlaceInRing DEF Count, Slots
  <2>2. /\ msg' = [msg EXCEPT ![tail] = p[c]]
        /\ UNCHANGED <<head, tail, ret>>
    BY <1>4 DEF EnqueueWrite
  <2>3. Queued(head, tail, msg') = Queued(head, tail, msg)
    BY <1>0, <2>1, <2>2 DEF Queued
  <2>. QED  BY <2>2, <2>3 DEF Fifo!fifoVars, items
<1>5. ASSUME NEW c \in Contexts, EnqueueMoveTail(c)
      PROVE  Fifo!Enqueue(c, p[c])
  <2>1. wrap(tail) # head /\ msg[tail] = p[c]
    BY <1>0, <1>5
    DEF EnqueueMoveTail, Step, CheckedStaysTrue, msg_queue_full
  <2>2. tail' = wrap(tail) /\ head' = head /\ msg' = msg
    BY <1>5 DEF EnqueueMoveTail
  <2>3. items' = Append(items, p[c])
    BY <1>0, <2>1, <2>2, MoveTailAppends DEF items
  <2>4. Len(items) < MSG_QUEUE_SIZE - 1
    BY <1>0, <1>1, <2>1, FullEmpty, CountRange
  <2>. QED  BY <1>5, <2>3, <2>4 DEF EnqueueMoveTail, Fifo!Enqueue
<1>6. ASSUME NEW c \in Contexts, EnqueueMoveTail(c)
      PROVE  p[c] \in Msgs
  BY <1>0, <1>6 DEF EnqueueMoveTail, Step, HandedOver, Enqueuing
<1>7. ASSUME NEW c \in Contexts, DequeueEmpty(c)
      PROVE  Fifo!DequeueEmpty(c)
  <2>1. items = << >> /\ items' = items
    <3>1. Count(head, tail) = 0
      BY <1>0, <1>7, FullEmpty DEF DequeueEmpty, msg_queue_empty
    <3>. QED  BY <1>7, <3>1 DEF DequeueEmpty, ring, items, Queued
  <2>. QED  BY <1>7, <2>1 DEF DequeueEmpty, Fifo!DequeueEmpty
<1>8. ASSUME NEW c \in Contexts, DequeueMoveHead(c)
      PROVE  Fifo!Dequeue(c)
  <2>1. head # tail /\ msg[head] = p[c]
    BY <1>0, <1>8
    DEF DequeueMoveHead, Step, CheckedStaysTrue, msg_queue_empty
  <2>2. head' = wrap(head) /\ tail' = tail /\ msg' = msg
    BY <1>8 DEF DequeueMoveHead
  <2>3. items # << >> /\ Head(items) = p[c] /\ items' = Tail(items)
    BY <1>0, <2>1, <2>2, MoveHeadDrops DEF items
  <2>. QED  BY <1>8, <2>3 DEF DequeueMoveHead, Fifo!Dequeue
<1>9. ASSUME NEW c \in Contexts,
             \/ \E m \in Msgs : CallEnqueue(c, m)
             \/ CallDequeue(c)
             \/ irq_save_disable(c, "enqueue", "check_full")
             \/ irq_save_disable(c, "dequeue", "check_empty")
             \/ DequeueRead(c)
             \/ irq_restore(c)
      PROVE  UNCHANGED <<ring, ret>>
  BY <1>9 DEF CallEnqueue, CallDequeue, Call, irq_save_disable, DequeueRead,
              irq_restore, ring
<1>10. EnterSection \/ LeaveSection \/ UNCHANGED vars => UNCHANGED <<ring, ret>>
  BY DEF EnterSection, LeaveSection, vars, ring
<1>. QED
  BY <1>2, <1>3, <1>4, <1>5, <1>6, <1>7, <1>8, <1>9, <1>10
  DEF Next, Fifo!Next

(* safe_enqueue and safe_dequeue behave as atomic operations of a bounded  *)
(* FIFO of MSG_QUEUE_SIZE - 1 messages, whoever interrupts whom.           *)
THEOREM RingImplementsFifo == Spec => ImplementsFifo
  BY FifoInit, FifoStep, RingInvHolds, PTL
  DEF Spec, ImplementsFifo, Fifo!Spec

-----------------------------------------------------------------------------
(* The message transport.                                                  *)

Number == Nat \ {0}
HostKinds == {"idle", "acl", "other"}
DeviceKinds == {"rx", "state", "debug"}
Message(K) == [id : Number, size : Number, kind : K]
\* A message partly read, partly received and partly sent.
Place == [id : Number, size : Number, n : Number]
Partial == [id : Number, size : Number, kind : HostKinds, n : Number]
Sending(K) == [id : Number, m : Message(K), read : Nat]
Packet(K) == [t : {"S"}, id : Number, size : Number, kind : K, n : Number]
             \cup [t : {"C"}, id : Number, n : Number]
Entry == Message(HostKinds) \cup {[id |-> 0, size |-> 1, kind |-> "reset"]}

-----------------------------------------------------------------------------
(* Packets in a row: where a reader that stands at pos gets with packet pk,   *)
(* and whether pk is what the reader expects there.                           *)

Stand(id, size, n) == IF n = size THEN No ELSE [id |-> id, size |-> size, n |-> n]
After(pos, pk) == IF pk.t = "P" THEN pos ELSE IF pk.t = "S" THEN Stand(pk.id, pk.size, pk.n)
                 ELSE Stand(pos.id, pos.size, pos.n + pk.n)
Fits(pos, pk) ==
  \/ pk.t = "P"
  \/ pk.t = "S" /\ pos = No /\ pk.n = least(pk.size, FirstRoom)
  \/ pk.t = "C" /\ pos # No /\ pk.id = pos.id /\ pk.n = least(pos.size - pos.n, Room)
Chain(pos, s, end) ==
  \/ Len(s) = 0 /\ end = pos
  \/ Len(s) = 1 /\ Fits(pos, s[1]) /\ end = After(pos, s[1])
  \/ /\ Len(s) = 2 /\ Fits(pos, s[1]) /\ Fits(After(pos, s[1]), s[2])
     /\ end = After(After(pos, s[1]), s[2])

IsPlace(pos) == pos = No \/ (pos \in Place /\ pos.n < pos.size)
\* How far the sender of w has got.
Sent(w) == IF w = No THEN No ELSE IF w.read = 0 THEN No
           ELSE [id |-> w.m.id, size |-> w.m.size, n |-> w.read]
Got(r) == IF r = No THEN No ELSE [id |-> r.id, size |-> r.size, n |-> r.n]

-----------------------------------------------------------------------------
LEMMA Sizes_ == /\ FirstRoom \in Number /\ Room \in Number /\ BUF_NUM \in Nat
                /\ MAX_PACKET_SIZE = FirstRoom + 4 /\ MAX_PACKET_SIZE = Room + 1
  BY BtrUsbAssumption DEF FirstRoom, Room, Number

LEMMA LeastOf ==
  ASSUME NEW a \in Number, NEW b \in Number
  PROVE  least(a, b) \in Number /\ least(a, b) <= a /\ least(a, b) <= b
  BY DEF least, Number

LEMMA NotNone ==
  ASSUME NEW x, x.id \in Number
  PROVE  x # No
  BY DEF No, Number

\* The packet cut off a message is the one expected.
LEMMA CutFits ==
  ASSUME NEW K, NEW m \in Message(K), NEW at \in Nat, at < m.size,
         NEW pk, pk = Cut(m, at, at = 0),
         NEW pos, pos = IF at = 0 THEN No ELSE [id |-> m.id, size |-> m.size, n |-> at]
  PROVE  /\ pk \in Packet(K) /\ pk.id = m.id /\ (pk.t = "S" <=> at = 0) /\ pk.t # "P"
         /\ (pk.t = "S" => Whole(pk) = Whole(m) /\ pk.kind = m.kind)
         /\ Fits(pos, pk)
         /\ pk.n \in Number /\ at + pk.n <= m.size
         /\ After(pos, pk) = Stand(m.id, m.size, at + pk.n)
<1>1. CASE at = 0
  <2>1. pk = [t |-> "S", id |-> m.id, size |-> m.size, kind |-> m.kind, n |-> least(m.size, FirstRoom)]
    BY <1>1 DEF Cut, Start
  <2>2. pk.n \in Number /\ pk.n <= m.size
    BY <2>1, LeastOf, Sizes_ DEF Message
  <2>3. pk \in Packet(K)
    BY <2>1, <2>2 DEF Packet, Message
  <2>4. Whole(pk) = Whole(m)
    BY <2>1 DEF Whole
  <2> QED BY <1>1, <2>1, <2>2, <2>3, <2>4 DEF Fits, After, Stand, Number
<1>2. CASE at # 0
  <2>1. pk = [t |-> "C", id |-> m.id, n |-> least(m.size - at, Room)]
    BY <1>2 DEF Cut, Cont
  <2>2. m.size - at \in Number /\ m.id \in Number
    BY <1>2 DEF Message, Number
  <2>3. pk.n \in Number /\ pk.n <= m.size - at
    BY <2>1, <2>2, LeastOf, Sizes_
  <2>4. pk \in Packet(K)
    BY <2>1, <2>2, <2>3 DEF Packet
  <2>5. pos # No /\ pos.id = m.id /\ pos.size = m.size /\ pos.n = at
    BY <1>2, <2>2, NotNone
  <2>6. at + pk.n <= m.size
    BY <2>3 DEF Message, Number
  <2> QED BY <1>2, <2>1, <2>3, <2>4, <2>5, <2>6 DEF Fits, After, Stand
<1> QED BY <1>1, <1>2

\* Where a reader gets is a place again.
LEMMA AfterPlace ==
  ASSUME NEW K, NEW pos, IsPlace(pos), NEW pk \in Packet(K) \cup {Printed}, Fits(pos, pk)
  PROVE  IsPlace(After(pos, pk))
<1>1. CASE pk.t = "P"
  BY <1>1 DEF After
<1>2. CASE pk.t = "S"
  <2>1. pk.id \in Number /\ pk.size \in Number /\ pk.n \in Number
    BY <1>2 DEF Packet, Printed
  <2>2. pk.n <= pk.size
    BY <1>2, <2>1, LeastOf, Sizes_ DEF Fits
  <2> QED BY <1>2, <2>1, <2>2 DEF After, Stand, IsPlace, Place, Number
<1>3. CASE pk.t = "C"
  <2>1. pos \in Place /\ pos.n < pos.size /\ pk.n = least(pos.size - pos.n, Room) /\ pk.n \in Number
    BY <1>3 DEF Fits, IsPlace, Packet, Printed
  <2>2. pos.size - pos.n \in Number
    BY <2>1 DEF Place, Number
  <2>3. pk.n <= pos.size - pos.n
    BY <2>1, <2>2, LeastOf, Sizes_
  <2> QED BY <1>3, <2>1, <2>3 DEF After, Stand, IsPlace, Place, Number
<1> QED BY <1>1, <1>2, <1>3 DEF Packet, Printed

LEMMA ChainHead ==
  ASSUME NEW S, NEW s \in Seq(S), s # << >>, NEW pos, NEW end, Chain(pos, s, end)
  PROVE  Fits(pos, Head(s)) /\ Chain(After(pos, Head(s)), Tail(s), end)
<1>1. Len(s) # 0 /\ Head(s) = s[1]
  BY EmptySeq
<1>2. Len(Tail(s)) = Len(s) - 1 /\ \A i \in 1..Len(Tail(s)) : Tail(s)[i] = s[i + 1]
  BY HeadTailProperties
<1>3. CASE Len(s) = 1
  BY <1>1, <1>2, <1>3 DEF Chain
<1>4. CASE Len(s) = 2
  <2> DEFINE t == Tail(s)
  <2>1. Len(t) = 1
    BY <1>2, <1>4
  <2>2. 1 \in 1..Len(t) /\ 1 + 1 = 2
    <3> HIDE DEF t
    <3> QED BY <2>1
  <2>4. Tail(s)[1] = s[1 + 1]
    BY <1>2, <2>2
  <2>5. Tail(s)[1] = s[2]
    BY <2>2, <2>4
  <2>6. Fits(pos, s[1]) /\ Fits(After(pos, s[1]), s[2]) /\ end = After(After(pos, s[1]), s[2])
    BY <1>4 DEF Chain
  <2>3. /\ Fits(pos, Head(s)) /\ Fits(After(pos, Head(s)), Tail(s)[1])
        /\ end = After(After(pos, Head(s)), Tail(s)[1])
    BY <1>1, <2>5, <2>6, Zenon
  <2> QED BY <2>1, <2>3 DEF Chain
<1> QED BY <1>1, <1>3, <1>4 DEF Chain

LEMMA OneOrNone ==
  ASSUME NEW n \in Nat, n <= 1
  PROVE  n = 0 \/ n = 1
  OBVIOUS

LEMMA ChainAppend ==
  ASSUME NEW S, NEW s \in Seq(S), NEW pk \in S, Len(s) < 2, NEW pos, NEW end, Chain(pos, s, end), Fits(end, pk)
  PROVE  /\ Append(s, pk) \in Seq(S) /\ Len(Append(s, pk)) = Len(s) + 1
         /\ Chain(pos, Append(s, pk), After(end, pk))
<1>1. /\ Append(s, pk) \in Seq(S) /\ Len(Append(s, pk)) = Len(s) + 1 /\ Append(s, pk)[Len(s) + 1] = pk
      /\ \A i \in 1..Len(s) : Append(s, pk)[i] = s[i]
  BY AppendProperties
<1>2. Len(s) \in Nat
  BY LenProperties
<1>5. Len(s) = 0 \/ Len(s) = 1
  <2>1. Len(s) <= 1
    BY <1>2
  <2> QED BY <1>2, <2>1, OneOrNone
<1>3. CASE Len(s) = 0
  BY <1>1, <1>3 DEF Chain
<1>4. CASE Len(s) = 1
  BY <1>1, <1>4 DEF Chain
<1> QED BY <1>3, <1>4, <1>5

-----------------------------------------------------------------------------
(* The messages of a sequence.                                              *)

\* Those that are one of X, each by what it carries.
Some(q, X) == {Whole(q[i]) : i \in {k \in DOMAIN q : q[k] \in X}}
Only(x, X) == IF x \in X THEN {Whole(x)} ELSE {}
Before(A, B) == \A a \in A, b \in B : a.id < b.id
Rising(q, X) == \A i, j \in DOMAIN q : (i < j /\ q[i] \in X /\ q[j] \in X) => q[i].id < q[j].id
Starts == [t : {"S"}, id : Number, size : Number, kind : HostKinds \cup DeviceKinds, n : Number]

LEMMA SomeAppend ==
  ASSUME NEW S, NEW q \in Seq(S), NEW x \in S, NEW X
  PROVE  Some(Append(q, x), X) = Some(q, X) \cup Only(x, X)
<1>1. /\ Len(q) \in Nat /\ DOMAIN q = 1..Len(q) /\ DOMAIN Append(q, x) = 1..(Len(q) + 1)
      /\ Append(q, x)[Len(q) + 1] = x /\ \A i \in 1..Len(q) : Append(q, x)[i] = q[i]
  BY LenProperties, AppendProperties
<1>2. ASSUME NEW m \in Some(Append(q, x), X)
      PROVE  m \in Some(q, X) \cup Only(x, X)
  <2>1. PICK i \in 1..(Len(q) + 1) : Append(q, x)[i] \in X /\ m = Whole(Append(q, x)[i])
    BY <1>1 DEF Some
  <2>2. CASE i \in 1..Len(q)
    BY <1>1, <2>1, <2>2 DEF Some
  <2>3. CASE i = Len(q) + 1
    BY <1>1, <2>1, <2>3 DEF Only
  <2> QED BY <1>1, <2>2, <2>3
<1>3. ASSUME NEW m \in Some(q, X)
      PROVE  m \in Some(Append(q, x), X)
  <2>1. PICK i \in 1..Len(q) : q[i] \in X /\ m = Whole(q[i])
    BY <1>1 DEF Some
  <2>2. i \in DOMAIN Append(q, x) /\ Append(q, x)[i] = q[i]
    BY <1>1
  <2> QED BY <2>1, <2>2 DEF Some
<1>4. ASSUME NEW m \in Only(x, X)
      PROVE  m \in Some(Append(q, x), X)
  <2>1. Len(q) + 1 \in DOMAIN Append(q, x)
    BY <1>1
  <2> QED BY <1>1, <1>4, <2>1 DEF Some, Only
<1> QED BY <1>2, <1>3, <1>4

LEMMA SomeHead ==
  ASSUME NEW S, NEW q \in Seq(S), q # << >>, NEW X
  PROVE  Some(q, X) = Only(Head(q), X) \cup Some(Tail(q), X)
<1>1. /\ Len(q) \in Nat \ {0} /\ DOMAIN q = 1..Len(q) /\ Head(q) = q[1]
  BY LenProperties, EmptySeq
<1>2. /\ DOMAIN Tail(q) = 1..(Len(q) - 1) /\ \A i \in 1..(Len(q) - 1) : Tail(q)[i] = q[i + 1]
  BY HeadTailProperties, LenProperties
<1>3. ASSUME NEW m \in Some(q, X)
      PROVE  m \in Only(Head(q), X) \cup Some(Tail(q), X)
  <2>1. PICK i \in 1..Len(q) : q[i] \in X /\ m = Whole(q[i])
    BY <1>1 DEF Some
  <2>2. CASE i = 1
    BY <1>1, <2>1, <2>2 DEF Only
  <2>3. CASE i # 1
    <3>1. i - 1 \in 1..(Len(q) - 1) /\ (i - 1) + 1 = i
      BY <1>1, <2>3
    <3>2. Tail(q)[i - 1] = q[i]
      BY <1>2, <3>1
    <3> QED BY <1>2, <2>1, <3>1, <3>2 DEF Some
  <2> QED BY <2>2, <2>3
<1>4. ASSUME NEW m \in Only(Head(q), X)
      PROVE  m \in Some(q, X)
  <2>1. 1 \in DOMAIN q
    BY <1>1
  <2> QED BY <1>1, <1>4, <2>1 DEF Some, Only
<1>5. ASSUME NEW m \in Some(Tail(q), X)
      PROVE  m \in Some(q, X)
  <2>1. PICK i \in 1..(Len(q) - 1) : Tail(q)[i] \in X /\ m = Whole(Tail(q)[i])
    BY <1>2 DEF Some
  <2>2. i + 1 \in DOMAIN q /\ Tail(q)[i] = q[i + 1]
    BY <1>1, <1>2
  <2> QED BY <2>1, <2>2 DEF Some
<1> QED BY <1>3, <1>4, <1>5

LEMMA RisingAppend ==
  ASSUME NEW S, NEW q \in Seq(S), NEW x \in S, NEW X, Rising(q, X), Before(Some(q, X), Only(x, X))
  PROVE  Rising(Append(q, x), X)
<1>1. /\ Len(q) \in Nat /\ DOMAIN q = 1..Len(q) /\ DOMAIN Append(q, x) = 1..(Len(q) + 1)
      /\ Append(q, x)[Len(q) + 1] = x /\ \A i \in 1..Len(q) : Append(q, x)[i] = q[i]
  BY LenProperties, AppendProperties
<1>2. SUFFICES ASSUME NEW i \in 1..(Len(q) + 1), NEW j \in 1..(Len(q) + 1),
                      i < j, Append(q, x)[i] \in X, Append(q, x)[j] \in X
               PROVE  Append(q, x)[i].id < Append(q, x)[j].id
  BY <1>1 DEF Rising
<1>3. i \in 1..Len(q) /\ Append(q, x)[i] = q[i] /\ q[i] \in X
  BY <1>1, <1>2
<1>4. CASE j \in 1..Len(q)
  BY <1>1, <1>2, <1>3, <1>4 DEF Rising
<1>5. CASE j = Len(q) + 1
  <2>1. Whole(q[i]) \in Some(q, X) /\ Whole(x) \in Only(x, X)
    BY <1>1, <1>2, <1>3, <1>5 DEF Some, Only
  <2>2. Whole(q[i]).id < Whole(x).id
    BY <2>1 DEF Before
  <2> QED BY <1>1, <1>3, <1>5, <2>2 DEF Whole
<1> QED BY <1>1, <1>4, <1>5

LEMMA RisingTail ==
  ASSUME NEW S, NEW q \in Seq(S), q # << >>, NEW X, Rising(q, X)
  PROVE  Rising(Tail(q), X) /\ Before(Only(Head(q), X), Some(Tail(q), X))
<1>1. /\ Len(q) \in Nat \ {0} /\ DOMAIN q = 1..Len(q) /\ Head(q) = q[1]
  BY LenProperties, EmptySeq
<1>2. /\ DOMAIN Tail(q) = 1..(Len(q) - 1) /\ \A i \in 1..(Len(q) - 1) : Tail(q)[i] = q[i + 1]
  BY HeadTailProperties, LenProperties
<1>3. Rising(Tail(q), X)
  <2>1. SUFFICES ASSUME NEW i \in 1..(Len(q) - 1), NEW j \in 1..(Len(q) - 1),
                        i < j, Tail(q)[i] \in X, Tail(q)[j] \in X
                 PROVE  Tail(q)[i].id < Tail(q)[j].id
    BY <1>2 DEF Rising
  <2>2. i + 1 \in DOMAIN q /\ j + 1 \in DOMAIN q /\ i + 1 < j + 1
    BY <1>1, <2>1
  <2>3. Tail(q)[i] = q[i + 1] /\ Tail(q)[j] = q[j + 1]
    BY <1>2
  <2> QED BY <2>1, <2>2, <2>3 DEF Rising
<1>4. ASSUME NEW a \in Only(Head(q), X), NEW b \in Some(Tail(q), X)
      PROVE  a.id < b.id
  <2>1. Head(q) \in X /\ a = Whole(q[1])
    BY <1>1, <1>4 DEF Only
  <2>2. PICK i \in 1..(Len(q) - 1) : Tail(q)[i] \in X /\ b = Whole(Tail(q)[i])
    BY <1>2 DEF Some
  <2>3. 1 \in DOMAIN q /\ i + 1 \in DOMAIN q /\ 1 < i + 1 /\ Tail(q)[i] = q[i + 1]
    BY <1>1, <1>2
  <2>4. q[1].id < q[i + 1].id
    BY <1>1, <2>1, <2>2, <2>3 DEF Rising
  <2> QED BY <2>1, <2>2, <2>3, <2>4 DEF Whole
<1> QED BY <1>3, <1>4 DEF Before

\* An empty endpoint that is given two packets.
LEMMA TwoAppended ==
  ASSUME NEW S, NEW s \in Seq(S), NEW a \in S, NEW b \in S
  PROVE  s \o <<a, b>> = Append(Append(s, a), b) /\ s \o <<a>> = Append(s, a)
<1>1. Append(s, a) = s \o <<a>> /\ Append(s, a) \in Seq(S)
  BY AppendIsConcat, AppendProperties
<1>2. Append(Append(s, a), b) = Append(s, a) \o <<b>>
  BY <1>1, AppendIsConcat
<1>3. <<a>> \in Seq(S) /\ <<b>> \in Seq(S)
  OBVIOUS
<1>4. <<a>> \o <<b>> = <<a, b>>
  <2> DEFINE u == <<a>> \o <<b>>
             v == <<a, b>>
  <2>1. u \in Seq(S) /\ Len(u) = Len(<<a>>) + Len(<<b>>) /\ u[1] = <<a>>[1] /\ u[Len(<<a>>) + 1] = <<b>>[1]
    BY <1>3, ConcatProperties
  <2>2. u \in Seq(S) /\ Len(u) = 2 /\ u[1] = a /\ u[2] = b
    BY <2>1
  <2>3. v \in Seq(S) /\ Len(v) = 2 /\ v[1] = a /\ v[2] = b
    OBVIOUS
  <2> HIDE DEF u, v
  <2>4. \A i \in 1..Len(u) : u[i] = v[i]
    BY <2>2, <2>3
  <2>5. u = v
    BY <2>2, <2>3, <2>4, SeqEqual
  <2> QED BY <2>5 DEF u, v
<1> QED BY <1>1, <1>2, <1>3, <1>4, ConcatAssociative

\* What the queues and the endpoints hold.
LEMMA QueueHolds ==
  /\ \A q \in Seq(Entry) : Wholes(q) = Some(q, Message(HostKinds))
  /\ \A q \in Seq(Message(DeviceKinds)) : Wholes(q) = Some(q, Message(DeviceKinds))
<1>1. ASSUME NEW q \in Seq(Entry)
      PROVE  Wholes(q) = Some(q, Message(HostKinds))
  <2>1. \A x \in Entry : x.kind # "reset" <=> x \in Message(HostKinds)
    BY DEF Entry, Message, HostKinds, Number
  <2>2. \A k \in DOMAIN q : q[k] \in Entry
    BY ElementOfSeq, LenProperties
  <2> QED BY <2>1, <2>2 DEF Wholes, Some
<1>2. ASSUME NEW q \in Seq(Message(DeviceKinds))
      PROVE  Wholes(q) = Some(q, Message(DeviceKinds))
  <2>1. \A x \in Message(DeviceKinds) : x.kind # "reset"
    BY DEF Message, DeviceKinds
  <2>2. \A k \in DOMAIN q : q[k] \in Message(DeviceKinds)
    BY ElementOfSeq, LenProperties
  <2> QED BY <2>1, <2>2 DEF Wholes, Some
<1> QED BY <1>1, <1>2

LEMMA EndpointHolds ==
  ASSUME NEW K, K \subseteq HostKinds \cup DeviceKinds, NEW s \in Seq(Packet(K) \cup {Printed})
  PROVE  Begun(s) = Some(s, Starts)
<1>1. \A k \in DOMAIN s : s[k].t = "S" <=> s[k] \in Starts
  BY ElementOfSeq, LenProperties DEF Starts, Packet, Printed
<1> QED BY <1>1 DEF Begun, Some

-----------------------------------------------------------------------------
(* The invariants.                                                          *)

Types ==
  /\ free \in Nat /\ acl_q \in Nat /\ held \in {0, 1} /\ console \in {0, 1} /\ posts \in Nat /\ sends \in Nat
  /\ rx_msg = No \/ (rx_msg \in Partial /\ rx_msg.n < rx_msg.size)
  /\ handling = No \/ handling \in Message(HostKinds)
  /\ rx_q \in Seq(Entry) /\ tx_q \in Seq(Message(DeviceKinds))
  /\ tx_msg = No \/ (tx_msg \in Sending(DeviceKinds) /\ 0 < tx_msg.read /\ tx_msg.read < tx_msg.m.size)
  /\ writing = No \/ (writing \in Sending(HostKinds) /\ writing.read < writing.m.size)
  /\ in_ep \in Seq(Packet(DeviceKinds) \cup {Printed}) /\ out_ep \in Seq(Packet(HostKinds))
  /\ IsPlace(reading)

UpInv ==
  /\ ~failed /\ Chain(reading, in_ep, Sent(tx_msg))
  /\ Before(One(reading), Begun(in_ep))
  /\ Before(One(reading), Wholes(tx_q)) /\ Before(Begun(in_ep), Wholes(tx_q))
  /\ Rising(in_ep, Starts) /\ Rising(tx_q, Message(DeviceKinds))
  /\ \A m \in Up : m.id \in 1..posts

DownInv ==
  /\ dead # "framing"
  /\ Running => Chain(Got(rx_msg), out_ep, Sent(writing))
  /\ Len(out_ep) <= 1
  /\ Before(Wholes(rx_q), One(rx_msg)) /\ Before(Wholes(rx_q), Begun(out_ep)) /\ Before(Wholes(rx_q), Unsent(writing))
  /\ Before(One(rx_msg), Begun(out_ep)) /\ Before(One(rx_msg), Unsent(writing))
  /\ Before(Begun(out_ep), Unsent(writing))
  /\ Rising(rx_q, Message(HostKinds))
  /\ \A m \in Down : m.id \in 1..sends
Inv == Types /\ UpInv /\ DownInv
UpStep == UpPipe!Next \/ UNCHANGED <<Up, posts, up_last>>
DownStep == DownPipe!Next \/ UNCHANGED <<Down, sends, down_last>>

-----------------------------------------------------------------------------
(* What leaves a direction alone, posts a message, or takes the first one.   *)

LEMMA UpStill ==
  ASSUME UpInv, UNCHANGED <<reading, failed, in_ep, tx_msg, tx_q, posts, up_last>>
  PROVE  UpInv' /\ UpStep
  BY DEF UpInv, UpStep, Up

LEMMA DownStill ==
  ASSUME DownInv, UNCHANGED <<rx_msg, rx_q, out_ep, writing, sends, down_last>>,
         dead' # "framing", Running' => Running
  PROVE  DownInv' /\ DownStep
  BY DEF DownInv, DownStep, Down

\* What comes after all messages under way, and what is first of them.
LEMMA LastOfAll ==
  ASSUME NEW n \in Nat, NEW X, \A x \in X : x.id \in 1..n, NEW m, m.id = n + 1
  PROVE  Before(X, {m}) /\ \A x \in X \cup {m} : x.id \in 1..(n + 1)
  BY DEF Before

LEMMA FirstOfAll ==
  ASSUME NEW n \in Nat, NEW m, m.id \in 1..n, NEW X, \A x \in X : x.id \in 1..n, Before({m}, X)
  PROVE  ({m} \cup X) \ {m} = X /\ \A x \in {m} \cup X : m.id <= x.id
<1>1. \A x \in X : m.id < x.id
  BY DEF Before
<1>2. m \notin X
  BY <1>1
<1> QED BY <1>1, <1>2

LEMMA Enqueues ==
  ASSUME Inv, NEW m \in Message(DeviceKinds), m.id = posts + 1, m.size \in DeviceSizes \cup {2},
         tx_q' = Append(tx_q, m), posts' = posts + 1, UNCHANGED <<reading, failed, in_ep, tx_msg, up_last>>
  PROVE  tx_q' \in Seq(Message(DeviceKinds)) /\ posts' \in Nat /\ UpInv' /\ UpStep
<1> DEFINE D == Message(DeviceKinds)
<1>1. tx_q \in Seq(D) /\ posts \in Nat /\ tx_q' \in Seq(D) /\ posts' \in Nat
  BY AppendProperties DEF Inv, Types
<1>2. Wholes(tx_q) = Some(tx_q, D) /\ Wholes(tx_q)' = Some(tx_q', D)
  <2>1. \A q \in Seq(D) : Wholes(q) = Some(q, D)
    BY QueueHolds
  <2>2. Wholes(tx_q)' = Wholes(tx_q')
    BY DEF Wholes
  <2> QED BY <1>1, <2>1, <2>2
<1>3. Only(m, D) = {Whole(m)} /\ Some(tx_q', D) = Some(tx_q, D) \cup {Whole(m)}
  BY <1>1, SomeAppend DEF Only
<1>4. Whole(m) = [id |-> posts + 1, size |-> m.size] /\ Whole(m).id = posts + 1
  BY DEF Whole
<1>5. UNCHANGED <<One(reading), Begun(in_ep), Sent(tx_msg)>>
  BY DEF One, Whole, Begun, Sent
<1>6. Up' = Up \cup {Whole(m)}
  BY <1>2, <1>3, <1>5 DEF Up
<1>7. Before(Up, {Whole(m)}) /\ \A x \in Up' : x.id \in 1..posts'
  BY <1>1, <1>4, <1>6, LastOfAll DEF Inv, UpInv
<1>8. Before(One(reading)', Wholes(tx_q)') /\ Before(Begun(in_ep)', Wholes(tx_q)')
  BY <1>2, <1>3, <1>5, <1>7 DEF Before, Up, Inv, UpInv
<1>9. Rising(tx_q', D)
  <2>1. Before(Some(tx_q, D), Only(m, D)) /\ Rising(tx_q, D)
    BY <1>2, <1>3, <1>7 DEF Before, Up, Inv, UpInv
  <2> QED BY <1>1, <2>1, RisingAppend
<1>10. UpInv'
  <2>1. (failed = FALSE)' /\ Chain(reading, in_ep, Sent(tx_msg))' /\ Before(One(reading), Begun(in_ep))' /\ Rising(in_ep, Starts)'
    BY <1>5 DEF Inv, UpInv, Before, Rising, Chain, Fits, After, Stand
  <2> QED BY <1>7, <1>8, <1>9, <2>1 DEF UpInv, Rising
<1>11. UpPipe!Post(m.size)
  BY <1>4, <1>6 DEF UpPipe!Post
<1> QED BY <1>1, <1>10, <1>11 DEF UpStep, UpPipe!Next
-----------------------------------------------------------------------------
(* The actions, one by one.                                                 *)

Done == Inv' /\ UpStep /\ DownStep

LEMMA UsbSendSync ==
  ASSUME Inv, usb_send_sync
  PROVE  Done
<1>1. in_ep = << >> /\ in_ep' = <<Printed>> /\ UNCHANGED <<buffers, dead, out_ep, host, down_last, sends, posts>>
  BY DEF usb_send_sync
<1>2. Types'
  <2>1. in_ep' \in Seq(Packet(DeviceKinds) \cup {Printed})
    BY <1>1
  <2> QED BY <1>1, <2>1 DEF Inv, Types, buffers, host
<1>3. DownInv' /\ DownStep
  BY <1>1, DownStill DEF Inv, DownInv, buffers, host, Running
<1>4. Begun(in_ep) = {} /\ Begun(in_ep)' = {}
  <2>1. DOMAIN in_ep = {} /\ in_ep'[1] = Printed /\ DOMAIN in_ep' = {1}
    BY <1>1
  <2>2. \A k \in DOMAIN in_ep' : in_ep'[k].t # "S"
    BY <2>1 DEF Printed
  <2> QED BY <2>1, <2>2 DEF Begun
<1>5. UNCHANGED <<One(reading), Wholes(tx_q), Up, posts, up_last>>
  BY <1>1, <1>4 DEF One, Whole, Wholes, Up, buffers, host
<1>6. Chain(reading, in_ep, Sent(tx_msg))'
  <2>1. Sent(tx_msg) = reading /\ Sent(tx_msg)' = Sent(tx_msg) /\ reading' = reading
    BY <1>1 DEF Inv, UpInv, Chain, Sent, buffers, host
  <2>2. Len(in_ep') = 1 /\ in_ep'[1] = Printed
    BY <1>1
  <2>3. Fits(reading', in_ep'[1]) /\ After(reading', in_ep'[1]) = reading'
    BY <2>2 DEF Fits, After, Printed
  <2>4. (Sent(tx_msg))' = After(reading', in_ep'[1])
    BY <2>1, <2>3
  <2> QED BY <2>2, <2>3, <2>4 DEF Chain, Sent
<1>7. Rising(in_ep', Starts)
  BY <1>1 DEF Rising
<1>8. UpInv'
  BY <1>1, <1>4, <1>5, <1>6, <1>7 DEF Inv, UpInv, Before, Rising, buffers, host
<1> QED BY <1>2, <1>3, <1>5, <1>8 DEF Done, Inv, UpStep

LEMMA TaskAlloc ==
  ASSUME Inv, rx_task_alloc \/ console_putc
  PROVE  Done
<1>1. /\ UNCHANGED <<rx_msg, rx_q, handling, acl_q, tx_q, tx_msg, in_ep, out_ep, host, down_last, sends, posts>>
      /\ dead' # "framing" /\ (Running' => Running)
  BY DEF rx_task_alloc, console_putc, Inv, DownInv, die, Alive, Running
<1>2. free' \in Nat /\ held' \in {0, 1} /\ console' \in {0, 1}
  BY DEF rx_task_alloc, console_putc, Inv, Types
<1>3. Types'
  BY <1>1, <1>2 DEF Inv, Types, host
<1> QED BY <1>1, <1>3, UpStill, DownStill DEF Done, Inv, host

\* A message put in the queue for the host, or not for want of room.
LEMMA Answers ==
  ASSUME Inv, NEW m \in Message(DeviceKinds), m.id = posts + 1, m.size \in DeviceSizes \cup {2},
         (tx_q' = Append(tx_q, m) /\ posts' = posts + 1) \/ UNCHANGED <<tx_q, posts>>,
         UNCHANGED <<reading, failed, in_ep, tx_msg, up_last>>
  PROVE  tx_q' \in Seq(Message(DeviceKinds)) /\ posts' \in Nat /\ UpInv' /\ UpStep
<1>1. CASE tx_q' = Append(tx_q, m) /\ posts' = posts + 1
  BY <1>1, Enqueues
<1>2. CASE UNCHANGED <<tx_q, posts>>
  BY <1>2, UpStill DEF Inv, Types
<1> QED BY <1>1, <1>2

LEMMA Answer_ ==
  ASSUME Inv, NEW s \in DeviceSizes \cup {2}, NEW k \in DeviceKinds
  PROVE  /\ [id |-> posts + 1, size |-> s, kind |-> k] \in Message(DeviceKinds)
         /\ [id |-> posts + 1, size |-> s, kind |-> k].id = posts + 1
         /\ [id |-> posts + 1, size |-> s, kind |-> k].size \in DeviceSizes \cup {2}
<1>1. posts + 1 \in Number /\ s \in Number
  BY BtrUsbAssumption DEF Inv, Types, Number
<1> QED BY <1>1 DEF Message

LEMMA TaskDone ==
  ASSUME Inv, rx_task_done \/ console_flush \/ btctl_send_state_resp
  PROVE  Done
<1>1. /\ UNCHANGED <<rx_msg, rx_q, handling, acl_q, tx_msg, in_ep, out_ep, host, down_last, sends>>
      /\ Running /\ free' \in Nat /\ held' \in {0, 1} /\ console' \in {0, 1}
  BY DEF rx_task_done, console_flush, btctl_send_state_resp, Inv, Types
<1>2. dead' # "framing"
  BY <1>1 DEF rx_task_done, console_flush, btctl_send_state_resp, btctl_tx_enqueue, die, Alive, Running
<1>3. tx_q' \in Seq(Message(DeviceKinds)) /\ posts' \in Nat /\ UpInv' /\ UpStep
  <2>1. CASE rx_task_done
    <3>1. CASE UNCHANGED <<tx_q, posts>>
      BY <1>1, <3>1, UpStill DEF Inv, Types, host
    <3>2. CASE \E s \in DeviceSizes : btctl_tx_enqueue([id |-> posts + 1, size |-> s, kind |-> "rx"], die("tx_q") /\ UNCHANGED overflow)
      <4>1. PICK s \in DeviceSizes : btctl_tx_enqueue([id |-> posts + 1, size |-> s, kind |-> "rx"], die("tx_q") /\ UNCHANGED overflow)
        BY <3>2
      <4> DEFINE m == [id |-> posts + 1, size |-> s, kind |-> "rx"]
      <4>2. (tx_q' = Append(tx_q, m) /\ posts' = posts + 1) \/ UNCHANGED <<tx_q, posts>>
        BY <4>1 DEF btctl_tx_enqueue
      <4>3. m \in Message(DeviceKinds) /\ m.id = posts + 1 /\ m.size \in DeviceSizes \cup {2}
        BY Answer_ DEF DeviceKinds
      <4> HIDE DEF m
      <4> QED BY <1>1, <4>2, <4>3, Answers DEF host
    <3> QED BY <2>1, <3>1, <3>2 DEF rx_task_done
  <2>2. CASE console_flush
    <3>1. PICK s \in DeviceSizes : btctl_tx_enqueue([id |-> posts + 1, size |-> s, kind |-> "debug"], die("console") /\ UNCHANGED overflow)
      BY <2>2 DEF console_flush
    <3> DEFINE m == [id |-> posts + 1, size |-> s, kind |-> "debug"]
    <3>2. (tx_q' = Append(tx_q, m) /\ posts' = posts + 1) \/ UNCHANGED <<tx_q, posts>>
      BY <3>1 DEF btctl_tx_enqueue
    <3>3. m \in Message(DeviceKinds) /\ m.id = posts + 1 /\ m.size \in DeviceSizes \cup {2}
      BY Answer_ DEF DeviceKinds
    <3> HIDE DEF m
    <3> QED BY <1>1, <3>2, <3>3, Answers DEF host
  <2>3. CASE btctl_send_state_resp
    <3> DEFINE m == [id |-> posts + 1, size |-> 2, kind |-> "state"]
    <3>2. (tx_q' = Append(tx_q, m) /\ posts' = posts + 1) \/ UNCHANGED <<tx_q, posts>>
      BY <2>3 DEF btctl_send_state_resp, btctl_tx_enqueue
    <3>3. m \in Message(DeviceKinds) /\ m.id = posts + 1 /\ m.size \in DeviceSizes \cup {2}
      BY Answer_ DEF DeviceKinds
    <3> HIDE DEF m
    <3> QED BY <1>1, <3>2, <3>3, Answers DEF host
  <2> QED BY <2>1, <2>2, <2>3
<1>4. Types'
  BY <1>1, <1>3 DEF Inv, Types, host
<1>5. DownInv' /\ DownStep
  BY <1>1, <1>2, DownStill DEF Inv, host
<1> QED BY <1>3, <1>4, <1>5 DEF Done, Inv
\* A packet put into an endpoint.
LEMMA PacketAppended ==
  ASSUME NEW K, K \subseteq HostKinds \cup DeviceKinds, NEW s \in Seq(Packet(K) \cup {Printed}), Len(s) < 2,
         NEW pos, NEW end, Chain(pos, s, end), NEW pk \in Packet(K), Fits(end, pk),
         Rising(s, Starts), Before(Begun(s), Only(pk, Starts))
  PROVE  /\ Append(s, pk) \in Seq(Packet(K) \cup {Printed}) /\ Len(Append(s, pk)) = Len(s) + 1
         /\ Chain(pos, Append(s, pk), After(end, pk)) /\ Rising(Append(s, pk), Starts)
         /\ Begun(Append(s, pk)) = Begun(s) \cup Only(pk, Starts)
<1> DEFINE P == Packet(K) \cup {Printed}
<1>1. /\ Append(s, pk) \in Seq(P) /\ Len(Append(s, pk)) = Len(s) + 1
      /\ Chain(pos, Append(s, pk), After(end, pk))
  BY ChainAppend
<1>2. Begun(s) = Some(s, Starts) /\ Begun(Append(s, pk)) = Some(Append(s, pk), Starts)
  BY <1>1, EndpointHolds
<1>3. Rising(Append(s, pk), Starts)
  BY <1>2, RisingAppend
<1>4. Some(Append(s, pk), Starts) = Some(s, Starts) \cup Only(pk, Starts)
  BY SomeAppend
<1> QED BY <1>1, <1>2, <1>3, <1>4

\* What a packet begins.
LEMMA PacketBegins ==
  ASSUME NEW K, K \subseteq HostKinds \cup DeviceKinds, NEW pk \in Packet(K)
  PROVE  Only(pk, Starts) = IF pk.t = "S" THEN {Whole(pk)} ELSE {}
  BY DEF Only, Starts, Packet

LEMMA UsbWork ==
  ASSUME Inv, usb_work
  PROVE  Done
<1> DEFINE D == Message(DeviceKinds)
           P == Packet(DeviceKinds) \cup {Printed}
           new == tx_msg = No
           m == IF new THEN Head(tx_q) ELSE tx_msg.m
           at == IF new THEN 0 ELSE tx_msg.read
           p1 == Cut(m, at, new)
           at1 == at + p1.n
           two == Len(in_ep) = 0 /\ at1 < m.size
           p2 == Cut(m, at1, FALSE)
           at2 == IF two THEN at1 + p2.n ELSE at1
<1>1. /\ Running /\ Len(in_ep) < 2 /\ (~new \/ tx_q # << >>)
      /\ in_ep' = in_ep \o (IF two THEN <<p1, p2>> ELSE <<p1>>)
      /\ tx_q' = (IF new THEN Tail(tx_q) ELSE tx_q)
      /\ (IF at2 = m.size THEN tx_msg' = No /\ free' = free + 1
          ELSE tx_msg' = [id |-> m.id, m |-> m, read |-> at2] /\ UNCHANGED free)
      /\ UNCHANGED <<rx_msg, rx_q, handling, acl_q, held, console, dead, early, out_ep, host, down_last, sends, posts>>
  BY DEF usb_work
<1>2. /\ tx_q \in Seq(D) /\ in_ep \in Seq(P) /\ posts \in Nat
      /\ ~new => (tx_msg \in Sending(DeviceKinds) /\ 0 < tx_msg.read /\ tx_msg.read < tx_msg.m.size)
  BY DEF Inv, Types
<1>3. m \in D /\ at \in Nat /\ at < m.size /\ (new <=> at = 0)
  <2>1. CASE new
    <3>1. tx_q # << >>
      BY <1>1, <2>1
    <3>2. Head(tx_q) \in D
      BY <1>2, <3>1, HeadTailProperties
    <3>3. m = Head(tx_q) /\ at = 0
      BY <2>1
    <3> QED BY <2>1, <3>2, <3>3 DEF Message, Number
  <2>2. CASE ~new
    BY <1>2, <2>2 DEF Sending
  <2> QED BY <2>1, <2>2
<1>4. Sent(tx_msg) = IF at = 0 THEN No ELSE [id |-> m.id, size |-> m.size, n |-> at]
  BY <1>2, <1>3 DEF Sent
<1>5. p1 = Cut(m, at, at = 0)
  <2>1. new = (at = 0)
    BY <1>3
  <2> QED BY <2>1
<1> HIDE DEF D, P, m, at, p1, p2, new
<1>6. /\ p1 \in Packet(DeviceKinds) /\ p1.id = m.id /\ (p1.t = "S" <=> at = 0)
      /\ (p1.t = "S" => Whole(p1) = Whole(m))
      /\ Fits(Sent(tx_msg), p1) /\ p1.n \in Number /\ at + p1.n <= m.size
      /\ After(Sent(tx_msg), p1) = Stand(m.id, m.size, at + p1.n)
  BY <1>3, <1>4, <1>5, CutFits DEF D
<1>7. ASSUME two
      PROVE  /\ p2 \in Packet(DeviceKinds) /\ p2.t # "S"
             /\ Fits(After(Sent(tx_msg), p1), p2) /\ p2.n \in Number /\ at1 + p2.n <= m.size
             /\ After(After(Sent(tx_msg), p1), p2) = Stand(m.id, m.size, at1 + p2.n)
  <2>1. at1 \in Nat /\ at1 # 0 /\ at1 < m.size /\ m.size \in Nat
    BY <1>3, <1>6, <1>7 DEF Number, D, Message
  <2>2. Stand(m.id, m.size, at1) = IF at1 = 0 THEN No ELSE [id |-> m.id, size |-> m.size, n |-> at1]
    BY <2>1 DEF Stand
  <2>3. p2 = Cut(m, at1, at1 = 0)
    <3>1. (at1 = 0) = FALSE
      BY <2>1
    <3> QED BY <3>1 DEF p2
  <2> HIDE DEF at1
  <2>4. /\ p2 \in Packet(DeviceKinds) /\ (p2.t = "S" <=> at1 = 0)
        /\ Fits(Stand(m.id, m.size, at1), p2) /\ p2.n \in Number /\ at1 + p2.n <= m.size
        /\ After(Stand(m.id, m.size, at1), p2) = Stand(m.id, m.size, at1 + p2.n)
    BY <1>3, <2>1, <2>2, <2>3, CutFits DEF D
  <2> QED BY <1>6, <2>1, <2>4 DEF at1
<1>8. tx_q' \in Seq(D) /\ at2 \in Number /\ at2 <= m.size
  <2>1. tx_q' \in Seq(D)
    BY <1>1, <1>2, HeadTailProperties DEF new
  <2>2. at1 \in Number /\ at1 <= m.size
    BY <1>3, <1>6 DEF Number
  <2>3. CASE two
    <3>1. p2.n \in Number /\ at1 + p2.n <= m.size /\ at2 = at1 + p2.n
      BY <1>7, <2>3
    <3> HIDE DEF at1, at2, two
    <3> QED BY <2>1, <2>2, <3>1 DEF Number
  <2>4. CASE ~two
    <3>1. at2 = at1
      BY <2>4
    <3> QED BY <2>1, <2>2, <3>1
  <2> QED BY <2>3, <2>4
\* What is in the queue, and what begins in the endpoint.
<1>9. Wholes(tx_q) = Only(p1, Starts) \cup Wholes(tx_q)' /\ Rising(tx_q', D) /\ Before(Only(p1, Starts), Wholes(tx_q)')
  <2>1. \A q \in Seq(D) : Wholes(q) = Some(q, D)
    BY QueueHolds DEF D
  <2>2. Wholes(tx_q)' = Some(tx_q', D) /\ Wholes(tx_q) = Some(tx_q, D)
    BY <1>2, <1>8, <2>1 DEF Wholes
  <2>3. Only(p1, Starts) = IF p1.t = "S" THEN {Whole(p1)} ELSE {}
    BY <1>6, PacketBegins
  <2>4. Rising(tx_q, D)
    BY DEF Inv, UpInv, D
  <2>5. CASE new
    <3>1. tx_q # << >> /\ tx_q' = Tail(tx_q) /\ m = Head(tx_q) /\ Only(p1, Starts) = {Whole(m)}
      BY <1>1, <1>3, <1>6, <2>3, <2>5 DEF m
    <3>2. Only(m, D) = {Whole(m)}
      BY <1>3 DEF Only
    <3>3. Some(tx_q, D) = Only(m, D) \cup Some(tx_q', D)
      BY <1>2, <3>1, SomeHead
    <3>4. Rising(tx_q', D) /\ Before(Only(m, D), Some(tx_q', D))
      BY <1>2, <2>4, <3>1, RisingTail
    <3> QED BY <2>2, <3>1, <3>2, <3>3, <3>4
  <2>6. CASE ~new
    <3>1. tx_q' = tx_q /\ Only(p1, Starts) = {}
      BY <1>1, <1>3, <1>6, <2>3, <2>6
    <3> QED BY <2>2, <2>4, <3>1 DEF Before
  <2> QED BY <2>5, <2>6
<1>10. /\ in_ep' \in Seq(P) /\ Chain(reading, in_ep', Stand(m.id, m.size, at2)) /\ Rising(in_ep', Starts)
       /\ Begun(in_ep') = Begun(in_ep) \cup Only(p1, Starts)
  <2> DEFINE s1 == Append(in_ep, p1)
  <2>1. Before(Begun(in_ep), Only(p1, Starts)) /\ Chain(reading, in_ep, Sent(tx_msg)) /\ Rising(in_ep, Starts)
    BY <1>9 DEF Inv, UpInv, Before
  <2>2. DeviceKinds \subseteq HostKinds \cup DeviceKinds
    OBVIOUS
  <2>3. /\ s1 \in Seq(P) /\ Len(s1) = Len(in_ep) + 1
        /\ Chain(reading, s1, Stand(m.id, m.size, at1)) /\ Rising(s1, Starts)
        /\ Begun(s1) = Begun(in_ep) \cup Only(p1, Starts)
    BY <1>1, <1>2, <1>6, <2>1, <2>2, PacketAppended DEF P
  <2>4. p1 \in P /\ (two => p2 \in P)
    BY <1>6, <1>7 DEF P
  <2>5. CASE ~two
    <3>1. in_ep' = s1
      BY <1>1, <1>2, <2>4, <2>5, AppendIsConcat
    <3> QED BY <2>3, <2>5, <3>1
  <2>6. CASE two
    <3>1. in_ep' = Append(s1, p2)
      BY <1>1, <1>2, <2>4, <2>6, TwoAppended
    <3>2. Only(p2, Starts) = {}
      BY <1>7, <2>2, <2>6, PacketBegins
    <3>3. Len(s1) < 2 /\ Before(Begun(s1), Only(p2, Starts))
      BY <2>3, <2>6, <3>2 DEF Before
    <3>4. p2 \in Packet(DeviceKinds) /\ Fits(Stand(m.id, m.size, at1), p2)
          /\ After(Stand(m.id, m.size, at1), p2) = Stand(m.id, m.size, at2)
      BY <1>6, <1>7, <2>6
    <3> HIDE DEF s1, at1, at2
    <3> DEFINE e1 == Stand(m.id, m.size, at1)
    <3> HIDE DEF e1
    <3>5. s1 \in Seq(Packet(DeviceKinds) \cup {Printed}) /\ Chain(reading, s1, e1) /\ Rising(s1, Starts) /\ Fits(e1, p2)
      BY <2>3, <3>4 DEF P, e1
    <3>6. /\ Append(s1, p2) \in Seq(Packet(DeviceKinds) \cup {Printed}) /\ Chain(reading, Append(s1, p2), After(e1, p2))
          /\ Rising(Append(s1, p2), Starts) /\ Begun(Append(s1, p2)) = Begun(s1) \cup Only(p2, Starts)
      BY <2>2, <3>3, <3>4, <3>5, PacketAppended
    <3> QED BY <2>3, <3>1, <3>2, <3>4, <3>6 DEF P, e1
  <2> QED BY <2>5, <2>6
<1> HIDE DEF two, at1, at2
<1>11. /\ tx_msg' = No \/ (tx_msg' \in Sending(DeviceKinds) /\ 0 < tx_msg'.read /\ tx_msg'.read < tx_msg'.m.size)
       /\ Sent(tx_msg)' = Stand(m.id, m.size, at2)
       /\ free' \in Nat
  <2>1. free \in Nat /\ m.id \in Number /\ m.size \in Number /\ m \in Message(DeviceKinds)
    BY <1>3 DEF Inv, Types, D, Message
  <2>2. CASE at2 = m.size
    BY <1>1, <2>1, <2>2 DEF Sent, Stand
  <2>3. CASE at2 # m.size
    <3>1. tx_msg' = [id |-> m.id, m |-> m, read |-> at2] /\ free' = free
      BY <1>1, <2>3
    <3>2. tx_msg' # No
      BY <2>1, <3>1, NotNone
    <3>3. tx_msg' \in Sending(DeviceKinds) /\ 0 < at2 /\ at2 < m.size /\ tx_msg'.read = at2 /\ tx_msg'.m = m
      BY <1>8, <2>1, <2>3, <3>1 DEF Sending, Number
    <3> QED BY <2>1, <2>3, <3>1, <3>2, <3>3 DEF Sent, Stand
  <2> QED BY <2>2, <2>3
<1>12. Types'
  BY <1>1, <1>8, <1>10, <1>11 DEF Inv, Types, D, P, host
<1>13. UNCHANGED <<Up, posts, up_last, reading, failed, One(reading)>> /\ Begun(in_ep)' = Begun(in_ep')
  BY <1>1, <1>9, <1>10 DEF Up, Begun, One, Whole, host
<1>14. UpInv'
  <2>1. Before(One(reading)', Begun(in_ep)') /\ Before(One(reading)', Wholes(tx_q)') /\ Before(Begun(in_ep)', Wholes(tx_q)')
    BY <1>9, <1>10, <1>13 DEF Inv, UpInv, Before
  <2>2. Chain(reading, in_ep, Sent(tx_msg))'
    BY <1>10, <1>11, <1>13 DEF Chain, Sent
  <2> QED BY <1>9, <1>10, <1>13, <2>1, <2>2 DEF Inv, UpInv, D, Rising, Before
<1>15. DownInv' /\ DownStep
  BY <1>1, DownStill DEF Inv, DownInv, Running, host
<1> QED BY <1>12, <1>13, <1>14, <1>15 DEF Done, Inv, UpStep
\* What the reader makes of a packet that fits.
LEMMA ReaderTakes ==
  ASSUME IsPlace(reading), NEW pk \in Packet(DeviceKinds), Fits(reading, pk)
  PROVE  /\ Expected(pk) /\ Glued(pk).id \in Number
         /\ After(reading, pk) = IF Glued(pk).n = Glued(pk).size THEN No ELSE Glued(pk)
         /\ One(reading) \cup Only(pk, Starts) = {Whole(Glued(pk))}
         /\ Glued(pk) = [id |-> Glued(pk).id, size |-> Glued(pk).size, n |-> Glued(pk).n]
<1>0. DeviceKinds \subseteq HostKinds \cup DeviceKinds
  OBVIOUS
<1>1. CASE pk.t = "S"
  <2>1. reading = No /\ pk.n = least(pk.size, FirstRoom) /\ pk.size \in Number /\ pk.id \in Number
    BY <1>1 DEF Fits, Packet
  <2>2. pk.n + 4 = least(MAX_PACKET_SIZE, 4 + pk.size)
    BY <2>1, Sizes_ DEF least, Number
  <2>3. Glued(pk) = [id |-> pk.id, size |-> pk.size, n |-> pk.n]
    BY <2>1 DEF Glued
  <2>4. Only(pk, Starts) = {Whole(pk)}
    BY <1>0, <1>1, PacketBegins
  <2> QED BY <1>1, <2>1, <2>2, <2>3, <2>4 DEF Expected, Bytes, After, Stand, One, Whole
<1>2. CASE pk.t = "C"
  <2>1. /\ reading # No /\ pk.id = reading.id /\ pk.n = least(reading.size - reading.n, Room)
        /\ reading \in Place /\ reading.n < reading.size
    BY <1>2 DEF Fits, IsPlace
  <2>2. pk.n + 1 = least(MAX_PACKET_SIZE, 1 + reading.size - reading.n)
    BY <2>1, Sizes_ DEF least, Number, Place
  <2>3. Glued(pk) = [id |-> reading.id, size |-> reading.size, n |-> reading.n + pk.n]
    BY <2>1 DEF Glued, Place
  <2>4. Only(pk, Starts) = {}
    BY <1>0, <1>2, PacketBegins
  <2>5. Expected(pk)
    BY <1>2, <2>1, <2>2 DEF Expected, Bytes
  <2>6. After(reading, pk) = IF Glued(pk).n = Glued(pk).size THEN No ELSE Glued(pk)
    BY <1>2, <2>3 DEF After, Stand
  <2>7. One(reading) = {Whole(Glued(pk))} /\ Glued(pk).id \in Number
    BY <2>1, <2>3 DEF One, Whole, Place
  <2> QED BY <2>3, <2>4, <2>5, <2>6, <2>7
<1> QED BY <1>1, <1>2 DEF Packet

LEMMA RxThread ==
  ASSUME Inv, rx_thread
  PROVE  Done
<1> DEFINE P == Packet(DeviceKinds) \cup {Printed}
           pk == Head(in_ep)
<1>1. /\ in_ep # << >> /\ in_ep' = Tail(in_ep) /\ in_ep \in Seq(P) /\ posts \in Nat
      /\ UNCHANGED <<buffers, dead, early, out_ep, writing, down_last, sends, posts>>
  BY DEF rx_thread, Inv, Types
<1>2. pk \in P /\ in_ep' \in Seq(P)
  BY <1>1, HeadTailProperties
<1>3. IsPlace(reading) /\ Chain(reading, in_ep, Sent(tx_msg)) /\ Rising(in_ep, Starts)
  BY DEF Inv, Types, UpInv
<1>4. Fits(reading, pk) /\ Chain(After(reading, pk), in_ep', Sent(tx_msg))
  BY <1>1, <1>3, ChainHead
<1>5. IsPlace(After(reading, pk))
  BY <1>2, <1>3, <1>4, AfterPlace
<1>6. /\ Begun(in_ep) = Only(pk, Starts) \cup Begun(in_ep)' /\ Rising(in_ep', Starts)
      /\ Before(Only(pk, Starts), Begun(in_ep)')
  <2>1. DeviceKinds \subseteq HostKinds \cup DeviceKinds
    OBVIOUS
  <2>2. \A s \in Seq(P) : Begun(s) = Some(s, Starts)
    BY <2>1, EndpointHolds
  <2>3. Begun(in_ep)' = Some(in_ep', Starts) /\ Begun(in_ep) = Some(in_ep, Starts)
    BY <1>1, <1>2, <2>2 DEF Begun
  <2> QED BY <1>1, <1>3, <2>3, SomeHead, RisingTail
<1>7. UNCHANGED <<Wholes(tx_q), Sent(tx_msg), tx_q, tx_msg, posts>>
  BY <1>1 DEF Wholes, Whole, Sent, buffers
<1>8. CASE pk.t = "P"
  <2>1. UNCHANGED <<reading, failed, up_last>> /\ After(reading, pk) = reading
    BY <1>8 DEF rx_thread, After
  <2>2. Only(pk, Starts) = {} /\ One(reading)' = One(reading)
    BY <1>8, <2>1 DEF Only, Starts, One, Whole
  <2>3. UNCHANGED <<Begun(in_ep), Up, posts, up_last>>
    BY <1>6, <1>7, <2>1, <2>2 DEF Up
  <2>4. Chain(reading, in_ep, Sent(tx_msg))'
    BY <1>4, <1>7, <2>1 DEF Chain
  <2>5. UpInv'
    BY <1>6, <1>7, <2>1, <2>2, <2>3, <2>4 DEF Inv, UpInv, Rising, Before
  <2>6. Types'
    BY <1>1, <1>2, <2>1 DEF Inv, Types, buffers
  <2>7. DownInv' /\ DownStep
    BY <1>1, DownStill DEF Inv, DownInv, Running, buffers
  <2> QED BY <2>3, <2>5, <2>6, <2>7 DEF Done, Inv, UpStep
<1>9. CASE pk.t # "P"
  <2> DEFINE g == Glued(pk)
             f == Whole(g)
             rest == Begun(in_ep)' \cup Wholes(tx_q)
  <2>1. pk \in Packet(DeviceKinds)
    BY <1>2, <1>9 DEF Printed
  <2>2. /\ Expected(pk) /\ g.id \in Number /\ One(reading) \cup Only(pk, Starts) = {f}
        /\ After(reading, pk) = IF g.n = g.size THEN No ELSE g
    BY <1>3, <1>4, <2>1, ReaderTakes
  <2>3. /\ reading' = After(reading, pk) /\ failed' = failed
        /\ (IF g.n = g.size THEN up_last' = f ELSE up_last' = up_last)
    BY <1>9, <2>2 DEF rx_thread
  <2>4. Up = {f} \cup rest
    BY <1>6, <2>2 DEF Up
  <2>5. Before({f}, Begun(in_ep)') /\ Before({f}, Wholes(tx_q)) /\ Before(Begun(in_ep)', Wholes(tx_q))
    <3>1. Before(One(reading), Begun(in_ep)') /\ Before(One(reading), Wholes(tx_q)) /\ Before(Begun(in_ep), Wholes(tx_q))
      BY <1>6 DEF Inv, UpInv, Before
    <3> QED BY <1>6, <2>2, <3>1 DEF Before
  <2>6. One(reading)' = IF g.n = g.size THEN {} ELSE {f}
    <3>1. g # No
      BY <2>2, NotNone
    <3> QED BY <2>2, <2>3, <3>1 DEF One
  <2>7. \A x \in {f} \cup rest : x.id \in 1..posts
    BY <2>4 DEF Inv, UpInv
  <2> HIDE DEF f, g
  <2>8. Up' = One(reading)' \cup rest
    BY <1>7 DEF Up
  <2>9. Chain(reading, in_ep, Sent(tx_msg))'
    BY <1>4, <1>7, <2>3 DEF Chain
  <2>10. UpInv'
    <3>1. Before(One(reading)', Begun(in_ep)') /\ Before(One(reading)', Wholes(tx_q)')
      BY <1>7, <2>5, <2>6 DEF Before
    <3>2. \A x \in Up' : x.id \in 1..posts
      BY <2>6, <2>7, <2>8
    <3> QED BY <1>6, <1>7, <2>3, <2>5, <2>9, <3>1, <3>2 DEF Inv, UpInv, Rising, Before
  <2>11. UpStep
    <3>1. CASE g.n = g.size
      <4>1. Up' = rest /\ up_last' = f /\ Before({f}, rest)
        BY <2>3, <2>5, <2>6, <2>8, <3>1 DEF Before
      <4> HIDE DEF rest
      <4>3. f.id \in 1..posts /\ \A x \in rest : x.id \in 1..posts
        BY <2>7
      <4>4. ({f} \cup rest) \ {f} = rest /\ \A x \in {f} \cup rest : f.id <= x.id
        BY <1>1, <4>1, <4>3, FirstOfAll
      <4>2. Up' = Up \ {f} /\ \A x \in Up : f.id <= x.id
        BY <2>4, <4>1, <4>4
      <4> QED BY <1>7, <2>4, <4>1, <4>2 DEF UpStep, UpPipe!Next, UpPipe!HandOver
    <3>2. CASE g.n # g.size
      BY <1>7, <2>3, <2>4, <2>6, <2>8, <3>2 DEF UpStep
    <3> QED BY <3>1, <3>2
  <2>12. Types'
    BY <1>1, <1>2, <1>5, <2>3 DEF Inv, Types, buffers
  <2>13. DownInv' /\ DownStep
    BY <1>1, DownStill DEF Inv, DownInv, Running, buffers
  <2> QED BY <2>10, <2>11, <2>12, <2>13 DEF Done, Inv
<1> QED BY <1>8, <1>9
LEMMA SendUsb ==
  ASSUME Inv, send_usb
  PROVE  Done
<1>1. /\ writing = No /\ sends' = sends + 1 /\ sends \in Nat
      /\ UNCHANGED <<buffers, dead, early, in_ep, out_ep, reading, failed, up_last, down_last, posts>>
  BY DEF send_usb, Inv, Types
<1>2. PICK s \in HostSizes, k \in HostKinds :
        writing' = [id |-> sends + 1, m |-> [id |-> sends + 1, size |-> s, kind |-> k], read |-> 0]
  BY DEF send_usb, HostKinds
<1> DEFINE f == [id |-> sends + 1, size |-> s]
<1>3. s \in Number /\ sends + 1 \in Number
  BY <1>1, BtrUsbAssumption DEF Number
<1>4. writing' # No /\ writing' \in Sending(HostKinds) /\ writing'.read = 0 /\ writing'.read < writing'.m.size
  <2>1. writing' # No
    BY <1>2, <1>3, NotNone
  <2> QED BY <1>2, <1>3, <2>1 DEF Sending, Message, Number
<1>5. Unsent(writing)' = {f} /\ Unsent(writing) = {} /\ Sent(writing)' = Sent(writing)
  BY <1>1, <1>2, <1>4 DEF Unsent, Sent, Whole
<1>6. UNCHANGED <<Wholes(rx_q), One(rx_msg), Begun(out_ep), Got(rx_msg), Running, rx_q, rx_msg, out_ep, dead, down_last>>
  BY <1>1 DEF Wholes, One, Begun, Whole, Got, Running, buffers
<1>7. Down' = Down \cup {f}
  BY <1>5, <1>6 DEF Down
<1>8. Before(Down, {f}) /\ \A x \in Down' : x.id \in 1..sends'
  BY <1>1, <1>7, LastOfAll DEF Inv, DownInv
<1>9. DownInv'
  <2>1. Running' => Chain(Got(rx_msg), out_ep, Sent(writing))'
    BY <1>5, <1>6 DEF Inv, DownInv, Chain
  <2>2. Before(Wholes(rx_q)', Unsent(writing)') /\ Before(One(rx_msg)', Unsent(writing)') /\ Before(Begun(out_ep)', Unsent(writing)')
    BY <1>5, <1>6, <1>8 DEF Before, Down
  <2> QED BY <1>6, <1>8, <2>1, <2>2 DEF Inv, DownInv, Before, Rising
<1>10. DownPipe!Post(s)
  BY <1>1, <1>7 DEF DownPipe!Post
<1>11. UpInv' /\ UpStep
  BY <1>1, UpStill DEF Inv, buffers
<1>12. Types'
  BY <1>1, <1>3, <1>4 DEF Inv, Types, buffers
<1> QED BY <1>9, <1>10, <1>11, <1>12 DEF Done, Inv, DownStep, DownPipe!Next

\* What an endpoint with one packet begins.
LEMMA OnePacket ==
  ASSUME NEW K, K \subseteq HostKinds \cup DeviceKinds, NEW pk \in Packet(K)
  PROVE  Begun(<<pk>>) = (IF pk.t = "S" THEN {Whole(pk)} ELSE {}) /\ Begun(<< >>) = {}
<1>1. DOMAIN <<pk>> = {1} /\ <<pk>>[1] = pk
  OBVIOUS
<1>2. DOMAIN << >> = {}
  OBVIOUS
<1>3. Begun(<< >>) = {}
  BY <1>2 DEF Begun
<1> DEFINE s == <<pk>>
<1> HIDE DEF s
<1>4. Begun(s) = IF pk.t = "S" THEN {Whole(pk)} ELSE {}
  <2>1. DOMAIN s = {1} /\ s[1] = pk
    BY <1>1 DEF s
  <2> QED BY <2>1 DEF Begun
<1> QED BY <1>3, <1>4 DEF s

LEMMA BulkWrite ==
  ASSUME Inv, bulkWrite
  PROVE  Done
<1> DEFINE w == writing
           pk == Cut(w.m, w.read, w.read = 0)
           at == w.read + pk.n
<1>1. /\ w # No /\ out_ep = << >> /\ out_ep' = <<pk>>
      /\ writing' = (IF at = w.m.size THEN No ELSE [w EXCEPT !.read = @ + pk.n])
      /\ UNCHANGED <<buffers, dead, early, in_ep, reading, failed, up_last, down_last, sends, posts>>
  BY DEF bulkWrite
<1>2. w \in Sending(HostKinds) /\ w.read < w.m.size
  BY <1>1 DEF Inv, Types
<1>3. w.m \in Message(HostKinds) /\ w.read \in Nat /\ w.m.id \in Number /\ w.m.size \in Number
  BY <1>2 DEF Sending, Message
<1>4. Sent(w) = IF w.read = 0 THEN No ELSE [id |-> w.m.id, size |-> w.m.size, n |-> w.read]
  BY <1>1 DEF Sent
<1> HIDE DEF pk
<1>5. /\ pk \in Packet(HostKinds) /\ (pk.t = "S" <=> w.read = 0) /\ (pk.t = "S" => Whole(pk) = Whole(w.m))
      /\ Fits(Sent(w), pk) /\ pk.n \in Number /\ at <= w.m.size
      /\ After(Sent(w), pk) = Stand(w.m.id, w.m.size, at)
  <2> DEFINE m == w.m
             r == w.read
             pos == Sent(w)
  <2>1. m \in Message(HostKinds) /\ r \in Nat /\ r < m.size /\ pk = Cut(m, r, r = 0)
    BY <1>2, <1>3 DEF pk
  <2>2. pos = IF r = 0 THEN No ELSE [id |-> m.id, size |-> m.size, n |-> r]
    BY <1>4
  <2> HIDE DEF m, r, pos, w
  <2>3. /\ pk \in Packet(HostKinds) /\ (pk.t = "S" <=> r = 0) /\ (pk.t = "S" => Whole(pk) = Whole(m))
        /\ Fits(pos, pk) /\ pk.n \in Number /\ r + pk.n <= m.size
        /\ After(pos, pk) = Stand(m.id, m.size, r + pk.n)
    BY <2>1, <2>2, CutFits
  <2> QED BY <2>3 DEF m, r, pos
<1>6. at \in Number
  BY <1>3, <1>5 DEF Number
<1>7. /\ writing' = No \/ (writing' \in Sending(HostKinds) /\ writing'.read < writing'.m.size)
      /\ Sent(writing)' = Stand(w.m.id, w.m.size, at) /\ Unsent(writing)' = {}
  <2>1. CASE at = w.m.size
    BY <1>1, <2>1 DEF Sent, Stand, Unsent
  <2>2. CASE at # w.m.size
    <3>1. writing' = [id |-> w.id, m |-> w.m, read |-> at] /\ w.id \in Number
      BY <1>1, <1>2, <2>2 DEF Sending
    <3> HIDE DEF at
    <3>2. writing' # No
      BY <3>1, NotNone
    <3>3. writing' \in Sending(HostKinds) /\ at < w.m.size /\ at # 0
      BY <1>3, <1>5, <1>6, <2>2, <3>1 DEF Sending, Number
    <3> QED BY <2>2, <3>1, <3>2, <3>3 DEF Sent, Stand, Unsent
  <2> QED BY <2>1, <2>2
<1>8. HostKinds \subseteq HostKinds \cup DeviceKinds
  OBVIOUS
<1>9. Begun(out_ep)' = Unsent(writing) /\ Begun(out_ep) = {}
  <2>1. Begun(<<pk>>) = (IF pk.t = "S" THEN {Whole(pk)} ELSE {}) /\ Begun(<< >>) = {}
    BY <1>5, <1>8, OnePacket
  <2>2. Begun(out_ep)' = Begun(<<pk>>) /\ Begun(out_ep) = Begun(<< >>)
    BY <1>1 DEF Begun
  <2> QED BY <1>1, <1>5, <2>1, <2>2 DEF Unsent
<1>10. UNCHANGED <<Wholes(rx_q), One(rx_msg), Got(rx_msg), Running, rx_q, rx_msg, dead, down_last, sends>>
  BY <1>1 DEF Wholes, One, Whole, Got, Running, buffers
<1>11. UNCHANGED Down
  BY <1>7, <1>9, <1>10 DEF Down
<1>12. Running' => Chain(Got(rx_msg), out_ep, Sent(writing))'
  <2>1. ASSUME Running
        PROVE  Got(rx_msg) = Sent(w)
    <3>1. Len(out_ep) = 0 /\ Chain(Got(rx_msg), out_ep, Sent(w))
      BY <1>1, <2>1 DEF Inv, DownInv
    <3> QED BY <3>1 DEF Chain
  <2>2. Len(out_ep') = 1 /\ out_ep'[1] = pk
    BY <1>1
  <2> QED BY <1>5, <1>7, <1>10, <2>1, <2>2 DEF Chain
<1>13. DownInv'
  <2>1. Len(out_ep') <= 1
    BY <1>1
  <2>2. Before(Wholes(rx_q)', Begun(out_ep)') /\ Before(One(rx_msg)', Begun(out_ep)')
    BY <1>9, <1>10 DEF Inv, DownInv, Before
  <2> QED BY <1>7, <1>10, <1>11, <1>12, <2>1, <2>2 DEF Inv, DownInv, Before, Rising
<1>14. UpInv' /\ UpStep
  BY <1>1, UpStill DEF Inv, buffers
<1>15. Types'
  <2>1. out_ep' \in Seq(Packet(HostKinds))
    BY <1>1, <1>5
  <2> QED BY <1>1, <1>7, <2>1 DEF Inv, Types, buffers
<1> QED BY <1>10, <1>11, <1>13, <1>14, <1>15 DEF Done, Inv, DownStep
\* What the device makes of a packet that fits: m is rx_msg with its bytes.
TakesOn(pk) == IF rx_msg = No THEN [id |-> pk.id, size |-> pk.size, kind |-> pk.kind, n |-> least(pk.n, pk.size)]
              ELSE [rx_msg EXCEPT !.n = @ + least(pk.n, rx_msg.size - @), !.id = IF pk.id = @ THEN @ ELSE -1]

LEMMA DeviceTakes ==
  ASSUME rx_msg = No \/ (rx_msg \in Partial /\ rx_msg.n < rx_msg.size),
         NEW pk \in Packet(HostKinds), Fits(Got(rx_msg), pk)
  PROVE  /\ pk.t = (IF rx_msg = No THEN "S" ELSE "C")
         /\ TakesOn(pk) \in Partial /\ TakesOn(pk).n <= TakesOn(pk).size
         /\ After(Got(rx_msg), pk) = IF TakesOn(pk).n = TakesOn(pk).size THEN No ELSE Got(TakesOn(pk))
         /\ One(rx_msg) \cup Only(pk, Starts) = {Whole(TakesOn(pk))}
<1> DEFINE m == TakesOn(pk)
<1>0. HostKinds \subseteq HostKinds \cup DeviceKinds
  OBVIOUS
<1>1. Got(rx_msg) = No <=> rx_msg = No
  BY NotNone DEF Got, Partial
<1>2. CASE rx_msg = No
  <2>1. pk.t = "S" /\ pk.n = least(pk.size, FirstRoom)
    BY <1>1, <1>2 DEF Fits, Packet
  <2>2. pk.id \in Number /\ pk.size \in Number /\ pk.kind \in HostKinds /\ pk.n \in Number
    BY <2>1 DEF Packet
  <2>3. pk.n <= pk.size /\ least(pk.n, pk.size) = pk.n
    BY <2>1, <2>2, LeastOf, Sizes_ DEF least, Number
  <2>4. m = [id |-> pk.id, size |-> pk.size, kind |-> pk.kind, n |-> pk.n]
    BY <1>2, <2>3 DEF TakesOn
  <2>5. m \in Partial /\ m.n <= m.size /\ m.id \in Number
    BY <2>2, <2>3, <2>4 DEF Partial
  <2>6. Only(pk, Starts) = {Whole(pk)} /\ Whole(pk) = Whole(m)
    BY <1>0, <2>1, <2>4, PacketBegins DEF Whole
  <2>7. Got(m) = [id |-> pk.id, size |-> pk.size, n |-> pk.n]
    BY <2>4, <2>5, NotNone DEF Got
  <2> QED BY <1>2, <2>1, <2>4, <2>5, <2>6, <2>7 DEF After, Stand, One
<1>3. CASE rx_msg # No
  <2>1. /\ rx_msg \in Partial /\ rx_msg.n < rx_msg.size /\ rx_msg.size \in Number /\ rx_msg.n \in Number
        /\ Got(rx_msg) = [id |-> rx_msg.id, size |-> rx_msg.size, n |-> rx_msg.n]
    BY <1>3 DEF Got, Partial
  <2>2. pk.t = "C" /\ pk.id = rx_msg.id /\ pk.n = least(rx_msg.size - rx_msg.n, Room)
    BY <1>1, <1>3, <2>1 DEF Fits, Packet
  <2>3. rx_msg.size - rx_msg.n \in Number
    BY <2>1 DEF Number
  <2>4. pk.n \in Number /\ pk.n <= rx_msg.size - rx_msg.n
    BY <2>2, <2>3, LeastOf, Sizes_
  <2>5. least(pk.n, rx_msg.size - rx_msg.n) = pk.n /\ rx_msg.n + pk.n \in Number /\ rx_msg.n + pk.n <= rx_msg.size
    BY <2>1, <2>4 DEF least, Number
  <2>6. m = [id |-> rx_msg.id, size |-> rx_msg.size, kind |-> rx_msg.kind, n |-> rx_msg.n + pk.n]
    BY <1>3, <2>1, <2>2, <2>5 DEF TakesOn, Partial
  <2>7. m \in Partial /\ m.n <= m.size /\ m.id \in Number
    BY <2>1, <2>5, <2>6 DEF Partial
  <2>8. Only(pk, Starts) = {} /\ One(rx_msg) = {Whole(m)}
    BY <1>0, <1>3, <2>2, <2>6, PacketBegins DEF Whole, One
  <2>9. Got(m) = [id |-> rx_msg.id, size |-> rx_msg.size, n |-> rx_msg.n + pk.n]
    BY <2>6, <2>7, NotNone DEF Got
  <2> QED BY <1>3, <2>1, <2>2, <2>6, <2>7, <2>8, <2>9 DEF After, Stand
<1> QED BY <1>2, <1>3

\* A message put in the queue of the device.
LEMMA RxEnqueued ==
  ASSUME rx_q \in Seq(Entry), Rising(rx_q, Message(HostKinds)), NEW e \in Entry, rx_q' = Append(rx_q, e),
         NEW F, F = Only(e, Message(HostKinds)), Before(Wholes(rx_q), F)
  PROVE  rx_q' \in Seq(Entry) /\ Wholes(rx_q)' = Wholes(rx_q) \cup F /\ Rising(rx_q', Message(HostKinds))
<1>1. rx_q' \in Seq(Entry)
  BY AppendProperties
<1>2. \A q \in Seq(Entry) : Wholes(q) = Some(q, Message(HostKinds))
  BY QueueHolds
<1>3. Wholes(rx_q) = Some(rx_q, Message(HostKinds)) /\ Wholes(rx_q)' = Some(rx_q', Message(HostKinds))
  BY <1>1, <1>2 DEF Wholes
<1> QED BY <1>1, <1>3, SomeAppend, RisingAppend

LEMMA UsbBulkOut ==
  ASSUME Inv, usb_bulk_out_handler
  PROVE  Done
<1> DEFINE pk == Head(out_ep)
           m == TakesOn(pk)
           f == Whole(m)
           e == [id |-> m.id, size |-> m.n, kind |-> m.kind]
           A == Wholes(rx_q)
           B == Unsent(writing)
           H == Message(HostKinds)
<1>1. /\ Running /\ out_ep # << >> /\ out_ep' = << >> /\ sends \in Nat /\ free \in Nat
      /\ UNCHANGED <<handling, acl_q, held, console, tx_q, tx_msg, in_ep, host, down_last, sends, posts>>
      /\ rx_q \in Seq(Entry) /\ (rx_msg = No \/ (rx_msg \in Partial /\ rx_msg.n < rx_msg.size))
  BY DEF usb_bulk_out_handler, Inv, Types
<1>2. /\ pk \in Packet(HostKinds) /\ Begun(out_ep) = Only(pk, Starts) /\ Begun(out_ep)' = {}
      /\ Fits(Got(rx_msg), pk) /\ After(Got(rx_msg), pk) = Sent(writing)
  <2>1. out_ep \in Seq(Packet(HostKinds)) /\ Len(out_ep) <= 1 /\ Chain(Got(rx_msg), out_ep, Sent(writing))
    BY <1>1 DEF Inv, Types, DownInv
  <2>2. Len(out_ep) = 1 /\ pk = out_ep[1]
    <3>1. Len(out_ep) \in Nat /\ Len(out_ep) # 0 /\ Len(out_ep) <= 1
      BY <1>1, <2>1, LenProperties, EmptySeq
    <3>2. pk = out_ep[1]
      BY <1>1, <2>1, EmptySeq
    <3>3. Len(out_ep) = 0 \/ Len(out_ep) = 1
      BY <3>1, OneOrNone
    <3> QED BY <3>1, <3>2, <3>3
  <2>3. pk \in Packet(HostKinds) /\ DOMAIN out_ep = {1}
    <3>1. pk \in Packet(HostKinds)
      BY <1>1, <2>1, HeadTailProperties
    <3>2. DOMAIN out_ep = 1..Len(out_ep)
      BY <2>1, LenProperties
    <3> HIDE DEF pk
    <3> QED BY <2>2, <3>1, <3>2
  <2>4. Begun(out_ep) = IF pk.t = "S" THEN {Whole(pk)} ELSE {}
    BY <2>2, <2>3 DEF Begun
  <2>5. HostKinds \subseteq HostKinds \cup DeviceKinds
    OBVIOUS
  <2>6. Begun(out_ep) = Only(pk, Starts)
    BY <2>3, <2>4, <2>5, PacketBegins
  <2>7. Begun(out_ep)' = {}
    <3>1. DOMAIN out_ep' = {}
      BY <1>1
    <3> QED BY <3>1 DEF Begun
  <2>8. Fits(Got(rx_msg), pk) /\ After(Got(rx_msg), pk) = Sent(writing)
    BY <2>1, <2>2 DEF Chain
  <2> QED BY <2>3, <2>6, <2>7, <2>8
<1> HIDE DEF pk
<1>3. /\ pk.t = (IF rx_msg = No THEN "S" ELSE "C") /\ m \in Partial /\ m.n <= m.size
      /\ Sent(writing) = (IF m.n = m.size THEN No ELSE Got(m))
      /\ One(rx_msg) \cup Begun(out_ep) = {f}
  BY <1>1, <1>2, DeviceTakes
<1>4. /\ UNCHANGED <<B, Sent(writing)>> /\ Down = A \cup {f} \cup B
      /\ Before(A, {f}) /\ Before({f}, B) /\ Before(A, B) /\ f.id \in 1..sends /\ Rising(rx_q, H)
      /\ \A x \in Down : x.id \in 1..sends
  <2>1. UNCHANGED <<B, Sent(writing)>>
    BY <1>1 DEF Unsent, Sent, Whole, host
  <2>2. Down = A \cup {f} \cup B
    BY <1>3 DEF Down
  <2>3. /\ Before(A, One(rx_msg)) /\ Before(A, Begun(out_ep)) /\ Before(A, B)
        /\ Before(One(rx_msg), B) /\ Before(Begun(out_ep), B) /\ Rising(rx_q, H) /\ \A x \in Down : x.id \in 1..sends
    BY DEF Inv, DownInv
  <2> HIDE DEF A, B, f
  <2>4. Before(A, {f}) /\ Before({f}, B)
    BY <1>3, <2>3 DEF Before
  <2> QED BY <2>1, <2>2, <2>3, <2>4
\* Three outcomes: the message is lost, kept, or queued.
<1>5. \/ rx_msg' = No /\ rx_q' = rx_q /\ (Running' => m.n = m.size)
      \/ rx_msg' = m /\ m.n # m.size /\ rx_q' = rx_q
      \/ rx_msg' = No /\ m.n = m.size /\ rx_q' = Append(rx_q, e)
  <2>1. pk.t = (IF rx_msg = No THEN "S" ELSE "C")
    BY <1>3
  <2>2. CASE rx_msg = No /\ free = 0
    BY <2>1, <2>2 DEF usb_bulk_out_handler, die, Running, pk
  <2>3. CASE ~(rx_msg = No /\ free = 0)
    <3>1. Received(m)
      BY <2>1, <2>3 DEF usb_bulk_out_handler, TakesOn, pk
    <3> HIDE DEF m
    <3> QED BY <3>1 DEF Received, btctl_rx_enqueue
  <2> QED BY <2>2, <2>3
<1>6. dead' # "framing" /\ free' \in Nat
  <2>1. pk.t = (IF rx_msg = No THEN "S" ELSE "C") /\ dead # "framing"
    BY <1>3 DEF Inv, DownInv
  <2> QED BY <1>1, <2>1 DEF usb_bulk_out_handler, die, Alive, pk
<1>7. m # No /\ Whole(m) = f /\ m.n \in Number
  BY <1>3, NotNone DEF Partial
<1> HIDE DEF m, A, B
<1>8. \/ One(rx_msg)' = {} /\ Wholes(rx_q)' = A /\ rx_q' = rx_q
      \/ One(rx_msg)' = {f} /\ Wholes(rx_q)' = A /\ rx_q' = rx_q
      \/ One(rx_msg)' = {} /\ Wholes(rx_q)' = A \cup {f} /\ rx_q' \in Seq(Entry) /\ Rising(rx_q', H)
  <2>1. CASE rx_msg' = No /\ rx_q' = rx_q
    BY <2>1 DEF One, Wholes, A
  <2>2. CASE rx_msg' = m /\ rx_q' = rx_q
    BY <1>7, <2>2 DEF One, Wholes, A
  <2>3. CASE rx_msg' = No /\ m.n = m.size /\ rx_q' = Append(rx_q, e)
    <3>1. e \in H /\ Whole(e) = f
      BY <1>3, <2>3 DEF Partial, Message, Whole
    <3>2. e \in Entry /\ Only(e, H) = {f}
      BY <3>1 DEF Only, Entry
    <3> HIDE DEF f, e
    <3>3. rx_q' \in Seq(Entry) /\ Wholes(rx_q)' = A \cup {f} /\ Rising(rx_q', H)
      BY <1>1, <1>4, <2>3, <3>2, RxEnqueued DEF A
    <3> QED BY <2>3, <3>3 DEF One
  <2> QED BY <1>5, <2>1, <2>2, <2>3
<1> HIDE DEF f
<1>9. UNCHANGED <<sends, down_last>> /\ Down' = Wholes(rx_q)' \cup One(rx_msg)' \cup B
  BY <1>1, <1>2, <1>4 DEF Down, B
<1>10. DownStep
  <2>1. CASE One(rx_msg)' = {} /\ Wholes(rx_q)' = A
    <3>2. (A \cup {f} \cup B) \ {f} = A \cup B
      <4>1. sends \in Nat /\ f.id \in 1..sends /\ Before(A, {f}) /\ Before({f}, B)
        BY <1>1, <1>4
      <4>2. f \notin A /\ f \notin B
        BY <4>1 DEF Before
      <4> QED BY <4>2
    <3>1. Down' = Down \ {f} /\ f \in Down
      BY <1>4, <1>9, <2>1, <3>2
    <3> QED BY <1>9, <3>1 DEF DownStep, DownPipe!Next, DownPipe!Lose
  <2>2. CASE One(rx_msg)' \cup Wholes(rx_q)' = A \cup {f}
    BY <1>4, <1>9, <2>2 DEF DownStep
  <2> QED BY <1>8, <2>1, <2>2
<1>11. Running' => Chain(Got(rx_msg), out_ep, Sent(writing))'
  <2>1. Len(out_ep') = 0
    BY <1>1
  <2>2. ASSUME Running'
        PROVE  Got(rx_msg)' = Sent(writing)
    <3>1. CASE rx_msg' = No /\ m.n = m.size
      BY <1>3, <3>1 DEF Got
    <3>2. CASE rx_msg' = m /\ m.n # m.size
      BY <1>3, <3>2 DEF Got
    <3> QED BY <1>5, <2>2, <3>1, <3>2
  <2> QED BY <1>4, <2>1, <2>2 DEF Chain
<1>12. DownInv'
  <2>1. Before(Wholes(rx_q)', One(rx_msg)') /\ Before(Wholes(rx_q)', B) /\ Before(One(rx_msg)', B)
    BY <1>4, <1>8 DEF Before
  <2>2. \A X : Before(X, {}) /\ Before({}, X)
    BY DEF Before
  <2>3. Rising(rx_q', H) /\ \A x \in Down' : x.id \in 1..sends'
    <3>1. Down' \subseteq Down
      BY <1>4, <1>8, <1>9
    <3> QED BY <1>4, <1>8, <1>9, <3>1
  <2>4. Len(out_ep') <= 1
    BY <1>1
  <2> QED BY <1>2, <1>4, <1>6, <1>11, <2>1, <2>2, <2>3, <2>4 DEF DownInv, B, H, Rising, Before
<1>13. UpInv' /\ UpStep
  BY <1>1, UpStill DEF Inv, host
<1>14. Types'
  <2>1. rx_msg' = No \/ (rx_msg' \in Partial /\ rx_msg'.n < rx_msg'.size)
    <3>1. CASE rx_msg' = No
      BY <3>1
    <3>2. CASE rx_msg' = m /\ m.n # m.size
      BY <1>3, <3>2 DEF Partial, Number
    <3> QED BY <1>5, <3>1, <3>2
  <2>2. out_ep' \in Seq(Packet(HostKinds)) /\ rx_q' \in Seq(Entry)
    BY <1>1, <1>8
  <2> QED BY <1>1, <1>6, <2>1, <2>2 DEF Inv, Types, host
<1> QED BY <1>10, <1>12, <1>13, <1>14 DEF Done, Inv
LEMMA RequestReset ==
  ASSUME Inv, request_reset
  PROVE  Done
<1> DEFINE e == [id |-> 0, size |-> 1, kind |-> "reset"]
           H == Message(HostKinds)
<1>1. /\ UNCHANGED <<rx_msg, handling, acl_q, held, console, tx_q, tx_msg, in_ep, out_ep, host, down_last, sends, posts>>
      /\ rx_q \in Seq(Entry) /\ free' \in Nat /\ (rx_q' = rx_q \/ rx_q' = Append(rx_q, e)) /\ Running
  BY DEF request_reset, btctl_rx_enqueue, Inv, Types
<1>2. dead' # "framing"
  BY <1>1 DEF request_reset, die, Alive, Running
<1>3. rx_q' \in Seq(Entry) /\ UNCHANGED Wholes(rx_q) /\ Rising(rx_q', H)
  <2>1. CASE rx_q' = rx_q
    BY <1>1, <2>1 DEF Wholes, Inv, DownInv
  <2>2. CASE rx_q' = Append(rx_q, e)
    <3>1. e \in Entry /\ Only(e, H) = {} /\ Rising(rx_q, H)
      BY DEF Entry, Only, Message, HostKinds, Inv, DownInv
    <3>2. Before(Wholes(rx_q), {})
      BY DEF Before
    <3> HIDE DEF e
    <3>3. rx_q' \in Seq(Entry) /\ Wholes(rx_q)' = Wholes(rx_q) \cup {} /\ Rising(rx_q', H)
      BY <1>1, <2>2, <3>1, <3>2, RxEnqueued
    <3> QED BY <3>3
  <2> QED BY <1>1, <2>1, <2>2
<1>4. UNCHANGED <<One(rx_msg), Begun(out_ep), Unsent(writing), Got(rx_msg), Sent(writing)>>
  BY <1>1 DEF One, Begun, Whole, Unsent, Got, Sent, host
<1>5. DownInv' /\ DownStep
  <2>1. UNCHANGED <<Down, sends, down_last>>
    BY <1>1, <1>3, <1>4 DEF Down
  <2>2. Running' => Chain(Got(rx_msg), out_ep, Sent(writing))'
    BY <1>1, <1>4 DEF Inv, DownInv, Chain
  <2> QED BY <1>1, <1>2, <1>3, <1>4, <2>1, <2>2 DEF Inv, DownInv, DownStep, Before, Rising
<1>6. UpInv' /\ UpStep
  BY <1>1, UpStill DEF Inv, host
<1>7. Types'
  BY <1>1, <1>3 DEF Inv, Types, host
<1> QED BY <1>5, <1>6, <1>7 DEF Done, Inv

LEMMA BtctlWork ==
  ASSUME Inv, btctl_work
  PROVE  Done
<1> DEFINE H == Message(HostKinds)
           x == Head(rx_q)
           rest == Wholes(rx_q)' \cup One(rx_msg) \cup Begun(out_ep) \cup Unsent(writing)
<1>1. /\ Running /\ rx_q # << >> /\ rx_q' = Tail(rx_q) /\ rx_q \in Seq(Entry) /\ sends \in Nat
      /\ UNCHANGED <<free, rx_msg, acl_q, held, console, tx_q, tx_msg, early, in_ep, out_ep, host, sends, posts>>
      /\ (IF x.kind = "reset" THEN dead' = "reset" /\ UNCHANGED <<handling, down_last>>
          ELSE handling' = x /\ down_last' = Whole(x) /\ UNCHANGED dead)
  BY DEF btctl_work, Inv, Types
<1>2. x \in Entry /\ rx_q' \in Seq(Entry)
  BY <1>1, HeadTailProperties
<1> HIDE DEF x
<1>3. /\ Wholes(rx_q) = Only(x, H) \cup Wholes(rx_q)' /\ Rising(rx_q', H) /\ Before(Only(x, H), Wholes(rx_q)')
  <2>1. \A q \in Seq(Entry) : Wholes(q) = Some(q, H)
    BY QueueHolds
  <2>2. Wholes(rx_q)' = Some(rx_q', H) /\ Wholes(rx_q) = Some(rx_q, H) /\ Rising(rx_q, H)
    BY <1>1, <1>2, <2>1 DEF Wholes, Inv, DownInv
  <2> QED BY <1>1, <2>2, SomeHead, RisingTail DEF x
<1>4. UNCHANGED <<One(rx_msg), Begun(out_ep), Unsent(writing), Got(rx_msg), Sent(writing)>>
  BY <1>1 DEF One, Begun, Whole, Unsent, Got, Sent, host
<1>5. Down' = rest /\ Down = Only(x, H) \cup rest
  BY <1>3, <1>4 DEF Down
<1>6. DownInv'
  <2>1. Before(Wholes(rx_q)', One(rx_msg)) /\ Before(Wholes(rx_q)', Begun(out_ep)) /\ Before(Wholes(rx_q)', Unsent(writing))
    BY <1>3 DEF Inv, DownInv, Before
  <2>2. Running' => Chain(Got(rx_msg), out_ep, Sent(writing))'
    BY <1>1, <1>4 DEF Inv, DownInv, Chain
  <2>3. dead' # "framing" /\ \A m \in Down' : m.id \in 1..sends'
    BY <1>1, <1>5 DEF Inv, DownInv
  <2> QED BY <1>1, <1>3, <1>4, <2>1, <2>2, <2>3 DEF Inv, DownInv, Before, Rising
<1>7. DownStep /\ Types'
  <2>1. CASE x.kind = "reset"
    <3>1. Only(x, H) = {} /\ UNCHANGED <<handling, down_last>>
      BY <1>1, <2>1 DEF Only, Message, HostKinds
    <3>2. Types'
      BY <1>1, <1>2, <3>1 DEF Inv, Types, host
    <3> QED BY <1>1, <1>5, <3>1, <3>2 DEF DownStep
  <2>2. CASE x.kind # "reset"
    <3> DEFINE f == Whole(x)
    <3>1. x \in H /\ Only(x, H) = {f} /\ handling' = x /\ down_last' = f
      BY <1>1, <1>2, <2>2 DEF Only, Entry
    <3>2. Types'
      BY <1>1, <1>2, <3>1 DEF Inv, Types, host
    <3>3. Before({f}, rest)
      <4>1. Before({f}, Wholes(rx_q)')
        BY <1>3, <3>1
      <4>2. f \in Wholes(rx_q)
        BY <1>3, <3>1
      <4>3. Before({f}, One(rx_msg)) /\ Before({f}, Begun(out_ep)) /\ Before({f}, Unsent(writing))
        BY <4>2 DEF Inv, DownInv, Before
      <4> QED BY <4>1, <4>3 DEF Before
    <3>4. f.id \in 1..sends /\ \A y \in rest : y.id \in 1..sends
      BY <1>5, <3>1 DEF Inv, DownInv
    <3> HIDE DEF f, rest
    <3>5. ({f} \cup rest) \ {f} = rest /\ \A y \in {f} \cup rest : f.id <= y.id
      BY <1>1, <3>3, <3>4, FirstOfAll
    <3>6. f \in Down /\ Down' = Down \ {f} /\ \A y \in Down : f.id <= y.id
      BY <1>5, <3>1, <3>5
    <3> QED BY <1>1, <3>1, <3>2, <3>6 DEF DownStep, DownPipe!Next, DownPipe!HandOver
  <2> QED BY <2>1, <2>2
<1>8. UpInv' /\ UpStep
  BY <1>1, UpStill DEF Inv, host
<1> QED BY <1>6, <1>7, <1>8 DEF Done, Inv

LEMMA HandleMsg ==
  ASSUME Inv, btctl_handle_msg \/ acl_sent
  PROVE  Done
<1>1. UNCHANGED <<rx_msg, rx_q, held, console, tx_q, tx_msg, dead, early, in_ep, out_ep, host, down_last, sends, posts>>
  BY DEF btctl_handle_msg, acl_sent
<1>2. free' \in Nat /\ acl_q' \in Nat /\ (handling' = No \/ handling' = handling)
  <2>1. free \in Nat /\ acl_q \in Nat
    BY DEF Inv, Types
  <2>2. CASE btctl_handle_msg
    <3>1. handling' = No /\ ((free' = free + 1 /\ acl_q' = acl_q) \/ (free' = free /\ acl_q' = acl_q + 1) \/ (free' = free /\ acl_q' = acl_q))
      BY <2>2, Zenon DEF btctl_handle_msg
    <3> QED BY <2>1, <3>1
  <2>3. CASE acl_sent
    BY <2>1, <2>3 DEF acl_sent
  <2> QED BY <2>2, <2>3
<1>3. Types'
  BY <1>1, <1>2 DEF Inv, Types, host
<1> QED BY <1>1, <1>3, UpStill, DownStill DEF Done, Inv, DownInv, Running, host
-----------------------------------------------------------------------------
(* Both directions are pipes of whole messages.                             *)

LEMMA InitHolds ==
  ASSUME UInit
  PROVE  Inv /\ Up = {} /\ posts = 0 /\ Down = {} /\ sends = 0
<1> USE DEF UInit
<1>1. BUF_NUM \in Nat
  BY Sizes_
<1>2. << >> \in Seq(Entry) /\ << >> \in Seq(Message(DeviceKinds)) /\ << >> \in Seq(Packet(HostKinds))
      /\ << >> \in Seq(Packet(DeviceKinds) \cup {Printed}) /\ Len(<< >>) = 0 /\ DOMAIN << >> = {}
  OBVIOUS
<1>3. Types
  BY <1>1, <1>2 DEF Types, IsPlace
<1>4. Wholes(<< >>) = {} /\ Begun(<< >>) = {}
  BY <1>2 DEF Wholes, Begun
<1>5. One(No) = {} /\ Unsent(No) = {} /\ Sent(No) = No /\ Got(No) = No
  BY DEF One, Unsent, Sent, Got
<1>6. Up = {} /\ Down = {}
  BY <1>4, <1>5 DEF Up, Down
<1>7. UpInv
  BY <1>2, <1>4, <1>5, <1>6 DEF UpInv, Chain, Before, Rising
<1>8. DownInv
  BY <1>2, <1>4, <1>5, <1>6 DEF DownInv, Chain, Before, Rising
<1> QED BY <1>3, <1>6, <1>7, <1>8 DEF Inv

LEMMA NextHolds ==
  ASSUME Inv, [UNext]_uvars
  PROVE  Done
<1>1. CASE UNext
  BY <1>1, UsbSendSync, TaskAlloc, TaskDone, UsbWork, RxThread, SendUsb, BulkWrite, UsbBulkOut, RequestReset,
     BtctlWork, HandleMsg DEF UNext
<1>2. CASE UNCHANGED uvars
  <2>1. Types'
    BY <1>2 DEF Inv, Types, uvars, buffers, host
  <2>2. UpInv' /\ UpStep
    BY <1>2, UpStill DEF Inv, uvars, buffers, host
  <2>3. DownInv' /\ DownStep
    BY <1>2, DownStill DEF Inv, DownInv, Running, uvars, buffers, host
  <2> QED BY <2>1, <2>2, <2>3 DEF Done, Inv
<1> QED BY <1>1, <1>2

(* What every packet, message and endpoint looks like, how far the receiver  *)
(* of each direction has got with what its sender has cut, and the order of  *)
(* the messages under way hold throughout; it follows that no packet is ever *)
(* taken for one it is not, by the device (usb_bulk_out_handler's DIE) or by *)
(* the assertions of _rx_thread_main.                                        *)
THEOREM FramesMatch == USpec => [](Inv /\ dead # "framing" /\ ~failed)
<1>1. UInit => Inv
  BY InitHolds
<1>2. Inv /\ [UNext]_uvars => Inv'
  BY NextHolds DEF Done
<1>3. Inv => Inv /\ dead # "framing" /\ ~failed
  BY DEF Inv, UpInv, DownInv
<1> QED BY <1>1, <1>2, <1>3, PTL DEF USpec

(* Messages arrive whole and in the order they were posted, both ways,       *)
(* whatever console lines, answers and last words come between, and for any  *)
(* size of packets, messages, queues and pool; the device may lose messages  *)
(* of the host, but whole ones.                                              *)
THEOREM MessagesArriveWhole == USpec => MessagesWhole
<1>1. UInit => Inv /\ Up = {} /\ posts = 0 /\ Down = {} /\ sends = 0
  BY InitHolds
<1>2. Inv /\ [UNext]_uvars => Inv' /\ [UpPipe!Next]_<<Up, posts, up_last>> /\ [DownPipe!Next]_<<Down, sends, down_last>>
  BY NextHolds DEF Done, UpStep, DownStep
<1> QED BY <1>1, <1>2, PTL DEF USpec, MessagesWhole, UpPipe!Spec, DownPipe!Spec

-----------------------------------------------------------------------------
(* The pool.                                                                *)

Under == free + Held(rx_msg) + Len(rx_q) + Held(handling) + acl_q + held + console + Len(tx_q) + Held(tx_msg)

LEMMA Counts ==
  ASSUME Types
  PROVE  /\ Len(rx_q) \in Nat /\ Len(tx_q) \in Nat /\ free \in Nat /\ acl_q \in Nat /\ held \in Nat /\ console \in Nat
         /\ Held(rx_msg) \in Nat /\ Held(handling) \in Nat /\ Held(tx_msg) \in Nat
         /\ \A x : Len(Append(rx_q, x)) = Len(rx_q) + 1 /\ Len(Append(tx_q, x)) = Len(tx_q) + 1
         /\ rx_q # << >> => Len(Tail(rx_q)) = Len(rx_q) - 1
         /\ tx_q # << >> => Len(Tail(tx_q)) = Len(tx_q) - 1
<1>1. rx_q \in Seq(Entry) /\ tx_q \in Seq(Message(DeviceKinds)) /\ free \in Nat /\ acl_q \in Nat /\ held \in Nat /\ console \in Nat
  BY DEF Types
<1>2. ASSUME NEW x
      PROVE  Len(Append(rx_q, x)) = Len(rx_q) + 1 /\ Len(Append(tx_q, x)) = Len(tx_q) + 1
  <2> DEFINE S == Entry \cup Message(DeviceKinds) \cup {x}
  <2>1. rx_q \in Seq(S) /\ tx_q \in Seq(S) /\ x \in S
    BY <1>1, SeqMonotonic
  <2> HIDE DEF S
  <2> QED BY <2>1, AppendProperties
<1>3. Len(rx_q) \in Nat /\ Len(tx_q) \in Nat
  BY <1>1, LenProperties
<1>4. (rx_q # << >> => Len(Tail(rx_q)) = Len(rx_q) - 1) /\ (tx_q # << >> => Len(Tail(tx_q)) = Len(tx_q) - 1)
  BY <1>1, HeadTailProperties
<1> QED BY <1>1, <1>2, <1>3, <1>4 DEF Held

\* The sum in three parts, each short enough for the provers.
Receiving == free + Held(rx_msg) + Len(rx_q)
Handling == Held(handling) + acl_q + held
Answering == console + Len(tx_q) + Held(tx_msg)

LEMMA Regroup ==
  ASSUME NEW n \in Nat, NEW a \in Nat, NEW b \in Nat, NEW c \in Nat
  PROVE  n + a + b + c = n + (a + b + c) /\ n + a + b + c \in Nat /\ a + b + c \in Nat
  OBVIOUS

LEMMA Parts ==
  ASSUME Inv, Inv'
  PROVE  /\ Under = Receiving + Handling + Answering /\ Under' = Receiving' + Handling' + Answering'
         /\ Receiving \in Nat /\ Handling \in Nat /\ Answering \in Nat
<1>1. /\ free \in Nat /\ acl_q \in Nat /\ held \in Nat /\ console \in Nat
      /\ free' \in Nat /\ acl_q' \in Nat /\ held' \in Nat /\ console' \in Nat
  BY DEF Inv, Types
<1>2. \A x : Held(x) \in Nat
  BY DEF Held
<1>3. Len(rx_q) \in Nat /\ Len(tx_q) \in Nat /\ Len(rx_q') \in Nat /\ Len(tx_q') \in Nat
  <2>1. /\ rx_q \in Seq(Entry) /\ tx_q \in Seq(Message(DeviceKinds))
        /\ rx_q' \in Seq(Entry) /\ tx_q' \in Seq(Message(DeviceKinds))
    BY DEF Inv, Types
  <2> QED BY <2>1, LenProperties
<1>4. Receiving \in Nat /\ Handling \in Nat /\ Answering \in Nat
  BY <1>1, <1>2, <1>3, Regroup DEF Receiving, Handling, Answering
<1>5. Under = Receiving + Handling + Answering
  <2> DEFINE two == Receiving + Held(handling) + acl_q + held
  <2>1. two = Receiving + Handling /\ two \in Nat
    BY <1>1, <1>2, <1>4, Regroup DEF Handling
  <2>2. Under = two + console + Len(tx_q) + Held(tx_msg)
    BY DEF Under, Receiving
  <2> HIDE DEF two
  <2>3. Under = two + Answering
    BY SMTT(30), <1>1, <1>2, <1>3, <2>1, <2>2, Regroup DEF Answering
  <2> QED BY <2>1, <2>3
<1>6. Under' = Receiving' + Handling' + Answering'
  <2> DEFINE two == Receiving' + Held(handling') + acl_q' + held'
  <2>1. Receiving' \in Nat
    BY <1>1, <1>2, <1>3, Regroup DEF Receiving
  <2>2. two = Receiving' + Handling' /\ two \in Nat
    BY <1>1, <1>2, <2>1, Regroup DEF Handling
  <2>3. Under' = two + console' + Len(tx_q') + Held(tx_msg')
    BY DEF Under, Receiving
  <2> HIDE DEF two
  <2>4. Under' = two + Answering'
    BY SMTT(30), <1>1, <1>2, <1>3, <2>2, <2>3, Regroup DEF Answering
  <2> QED BY <2>2, <2>4
<1> QED BY <1>4, <1>5, <1>6
\* What an action leaves of the sum: it changes two places by one, or none.
LEMMA BufferMoves ==
  ASSUME Inv, Inv', UNext, Running', ~overflow'
  PROVE  Running /\ ~overflow /\ Under' = Under
<1>0. /\ Len(rx_q) \in Nat /\ Len(tx_q) \in Nat /\ free \in Nat /\ acl_q \in Nat /\ held \in Nat /\ console \in Nat
      /\ Held(rx_msg) \in Nat /\ Held(handling) \in Nat /\ Held(tx_msg) \in Nat
      /\ \A x : Len(Append(rx_q, x)) = Len(rx_q) + 1 /\ Len(Append(tx_q, x)) = Len(tx_q) + 1
      /\ rx_q # << >> => Len(Tail(rx_q)) = Len(rx_q) - 1
      /\ tx_q # << >> => Len(Tail(tx_q)) = Len(tx_q) - 1
  BY Counts DEF Inv
<1>P. /\ Under = Receiving + Handling + Answering /\ Under' = Receiving' + Handling' + Answering'
      /\ Receiving \in Nat /\ Handling \in Nat /\ Answering \in Nat
  BY Parts
<1>1. CASE usb_send_sync
  <2>1. UNCHANGED <<Receiving, Handling, Answering, dead, overflow>>
    BY <1>1 DEF usb_send_sync, Receiving, Handling, Answering, Held, buffers
  <2> QED BY <1>P, <2>1 DEF Running
<1>2. CASE rx_task_alloc
  <2>1. UNCHANGED <<Held(rx_msg), rx_q, Held(handling), acl_q, console, tx_q, Held(tx_msg), overflow>> /\ Running /\ held = 0
    BY <1>2 DEF rx_task_alloc, Held
  <2>2. free' = free - 1 /\ held' = held + 1
    BY <1>2 DEF rx_task_alloc, die, Running
  <2>3. Receiving' = Receiving - 1 /\ Handling' = Handling + 1 /\ Answering' = Answering
    BY <1>0, <2>1, <2>2 DEF Receiving, Handling, Answering
  <2> QED BY <1>P, <2>1, <2>3
<1>3. CASE rx_task_done
  <2>1. UNCHANGED <<Held(rx_msg), rx_q, Held(handling), acl_q, console, Held(tx_msg)>> /\ held' = held - 1 /\ Running
    BY <1>3 DEF rx_task_done, Held
  <2>2. ((free' = free + 1 /\ tx_q' = tx_q) \/ (free' = free /\ Len(tx_q') = Len(tx_q) + 1)) /\ overflow' = overflow
    BY <1>0, <1>3 DEF rx_task_done, btctl_tx_enqueue, die, Running
  <2>3. Handling' = Handling - 1
    BY SMTT(30), <1>0, <2>1 DEF Handling
  <2>4. CASE free' = free + 1 /\ tx_q' = tx_q
    <3>1. Receiving' = Receiving + 1 /\ Answering' = Answering
      BY <1>0, <2>1, <2>4 DEF Receiving, Answering
    <3> QED BY <1>P, <2>1, <2>2, <2>3, <3>1
  <2>5. CASE free' = free /\ Len(tx_q') = Len(tx_q) + 1
    <3>1. Receiving' = Receiving /\ Answering' = Answering + 1
      BY <1>0, <2>1, <2>5 DEF Receiving, Answering
    <3> QED BY <1>P, <2>1, <2>2, <2>3, <3>1
  <2> QED BY <2>2, <2>4, <2>5
<1>4. CASE btctl_send_state_resp
  <2>1. UNCHANGED <<Held(rx_msg), rx_q, Held(handling), acl_q, held, console, Held(tx_msg)>> /\ Running
    BY <1>4 DEF btctl_send_state_resp, Held
  <2>2. free' = free - 1 /\ Len(tx_q') = Len(tx_q) + 1 /\ overflow' = overflow
    BY <1>0, <1>4 DEF btctl_send_state_resp, btctl_tx_enqueue, die, Running
  <2>3. Receiving' = Receiving - 1 /\ Handling' = Handling /\ Answering' = Answering + 1
    BY <1>0, <2>1, <2>2 DEF Receiving, Handling, Answering
  <2> QED BY <1>P, <2>1, <2>2, <2>3
<1>5. CASE console_putc
  <2>1. UNCHANGED <<Held(rx_msg), rx_q, Held(handling), acl_q, held, tx_q, Held(tx_msg), overflow>> /\ Running /\ console = 0
    BY <1>5 DEF console_putc, Held
  <2>2. free' = free - 1 /\ console' = console + 1
    BY <1>5 DEF console_putc, die, Running
  <2>3. Receiving' = Receiving - 1 /\ Handling' = Handling /\ Answering' = Answering + 1
    BY <1>0, <2>1, <2>2 DEF Receiving, Handling, Answering
  <2> QED BY <1>P, <2>1, <2>3
<1>6. CASE console_flush
  <2>1. UNCHANGED <<free, Held(rx_msg), rx_q, Held(handling), acl_q, held, Held(tx_msg)>> /\ console' = console - 1 /\ Running
    BY <1>6 DEF console_flush, Held
  <2>2. Len(tx_q') = Len(tx_q) + 1 /\ overflow' = overflow
    BY <1>0, <1>6 DEF console_flush, btctl_tx_enqueue, die, Running
  <2>3. UNCHANGED <<Receiving, Handling, Answering>>
    BY <1>0, <2>1, <2>2 DEF Receiving, Handling, Answering
  <2> QED BY <1>P, <2>1, <2>2, <2>3
<1>7. CASE usb_work
  <2> DEFINE new == tx_msg = No
             m == IF new THEN Head(tx_q) ELSE tx_msg.m
  <2>1. /\ UNCHANGED <<Held(rx_msg), rx_q, Held(handling), acl_q, held, console, dead, overflow>> /\ (~new \/ tx_q # << >>)
        /\ tx_q' = (IF new THEN Tail(tx_q) ELSE tx_q)
    BY <1>7 DEF usb_work, Held
  <2>2. m.id \in Number
    <3>1. CASE new
      <4>1. tx_q # << >> /\ tx_q \in Seq(Message(DeviceKinds))
        BY <2>1, <3>1 DEF Inv, Types
      <4>2. Head(tx_q) \in Message(DeviceKinds)
        BY <4>1, HeadTailProperties
      <4> QED BY <3>1, <4>2 DEF Message
    <3>2. CASE ~new
      BY <3>2 DEF Inv, Types, Sending, Message
    <3> QED BY <3>1, <3>2
  <2>3. (tx_msg' = No /\ free' = free + 1) \/ (free' = free /\ tx_msg'.id = m.id)
    <3> DEFINE at == IF new THEN 0 ELSE tx_msg.read
               at1 == at + Cut(m, at, new).n
               two == Len(in_ep) = 0 /\ at1 < m.size
               at2 == IF two THEN at1 + Cut(m, at1, FALSE).n ELSE at1
    <3>1. IF at2 = m.size THEN tx_msg' = No /\ free' = free + 1
          ELSE tx_msg' = [id |-> m.id, m |-> m, read |-> at2] /\ UNCHANGED free
      BY <1>7 DEF usb_work
    <3> HIDE DEF at2, m
    <3> QED BY <3>1
  <2> HIDE DEF m
  <2>4. (Held(tx_msg') = 0 /\ free' = free + 1) \/ (Held(tx_msg') = 1 /\ free' = free)
    BY <2>2, <2>3, NotNone DEF Held
  <2>5. Handling' = Handling
    BY <2>1 DEF Handling
  <2>6. Len(tx_q) + Held(tx_msg) = Len(tx_q') + 1
    <3>1. CASE new
      <4>1. Held(tx_msg) = 0 /\ Len(tx_q') = Len(tx_q) - 1
        BY <1>0, <2>1, <3>1 DEF Held
      <4> QED BY <1>0, <4>1
    <3>2. CASE ~new
      <4>1. Held(tx_msg) = 1 /\ Len(tx_q') = Len(tx_q)
        BY <2>1, <3>2 DEF Held
      <4> QED BY <1>0, <4>1
    <3> QED BY <3>1, <3>2
  <2>7. Len(tx_q') \in Nat
    <3>1. tx_q' \in Seq(Message(DeviceKinds))
      BY DEF Inv, Types
    <3> QED BY <3>1, LenProperties
  <2>8. Answering = console + Len(tx_q') + 1
    BY <1>0, <2>6, <2>7 DEF Answering
  <2>9. CASE Held(tx_msg') = 0 /\ free' = free + 1
    <3>1. Receiving' = Receiving + 1 /\ Answering' = console + Len(tx_q')
      BY <1>0, <2>1, <2>7, <2>9 DEF Receiving, Answering
    <3>2. Answering' = Answering - 1
      BY <1>0, <2>7, <2>8, <3>1
    <3> QED BY <1>P, <2>1, <2>5, <3>1, <3>2 DEF Running
  <2>10. CASE Held(tx_msg') = 1 /\ free' = free
    <3>1. Receiving' = Receiving /\ Answering' = console + Len(tx_q') + 1
      BY <1>0, <2>1, <2>7, <2>10 DEF Receiving, Answering
    <3> QED BY <1>P, <2>1, <2>5, <2>8, <3>1 DEF Running
  <2> QED BY <2>4, <2>9, <2>10
<1>8. CASE rx_thread \/ send_usb \/ bulkWrite
  <2>1. UNCHANGED <<Receiving, Handling, Answering, dead, overflow>>
    BY <1>8 DEF rx_thread, send_usb, bulkWrite, Receiving, Handling, Answering, Held, buffers
  <2> QED BY <1>P, <2>1 DEF Running
<1>9. CASE usb_bulk_out_handler
  <2>1. UNCHANGED <<Held(handling), acl_q, held, console, tx_q, Held(tx_msg)>> /\ Running
    BY <1>9 DEF usb_bulk_out_handler, Held
  <2>2. /\ (rx_msg = No => free' = free - 1) /\ (rx_msg # No => free' = free) /\ Received(TakesOn(Head(out_ep)))
    BY <1>9 DEF usb_bulk_out_handler, TakesOn, die, Running
  <2>3. out_ep # << >> /\ out_ep \in Seq(Packet(HostKinds)) /\ Fits(Got(rx_msg), Head(out_ep))
    <3>1. out_ep # << >> /\ out_ep \in Seq(Packet(HostKinds)) /\ Chain(Got(rx_msg), out_ep, Sent(writing))
      BY <1>9, <2>1 DEF usb_bulk_out_handler, Inv, Types, DownInv
    <3> QED BY <3>1, ChainHead
  <2>4. TakesOn(Head(out_ep)) # No
    <3>1. Head(out_ep) \in Packet(HostKinds)
      BY <2>3, HeadTailProperties
    <3>2. TakesOn(Head(out_ep)) \in Partial
      BY <2>3, <3>1, DeviceTakes DEF Inv, Types
    <3> QED BY <3>2, NotNone DEF Partial
  <2>5. ((Held(rx_msg') = 0 /\ Len(rx_q') = Len(rx_q) + 1) \/ (Held(rx_msg') = 1 /\ rx_q' = rx_q)) /\ overflow' = overflow
    <3> DEFINE m == TakesOn(Head(out_ep))
    <3>1. Received(m) /\ m # No
      BY <2>2, <2>4
    <3> HIDE DEF m
    <3> QED BY <1>0, <3>1 DEF Received, btctl_rx_enqueue, Held
  <2>6. UNCHANGED <<Handling, Answering>>
    BY <2>1 DEF Handling, Answering
  <2>7. free' + 1 = free + Held(rx_msg) /\ free' \in Nat
    <3>1. free' \in Nat
      BY DEF Inv, Types
    <3>2. CASE rx_msg = No
      <4>1. Held(rx_msg) = 0 /\ free' = free - 1
        BY <2>2, <3>2 DEF Held
      <4> QED BY <1>0, <3>1, <4>1
    <3>3. CASE rx_msg # No
      <4>1. Held(rx_msg) = 1 /\ free' = free
        BY <2>2, <3>3 DEF Held
      <4> QED BY <1>0, <3>1, <4>1
    <3> QED BY <3>2, <3>3
  <2>8. Receiving = free' + 1 + Len(rx_q)
    BY <1>0, <2>7 DEF Receiving
  <2>9. CASE Held(rx_msg') = 0 /\ Len(rx_q') = Len(rx_q) + 1
    <3>1. Receiving' = free' + 0 + (Len(rx_q) + 1)
      BY <2>9 DEF Receiving
    <3>2. Receiving' = Receiving
      BY <1>0, <2>7, <2>8, <3>1
    <3> QED BY <1>P, <2>1, <2>5, <2>6, <3>2
  <2>10. CASE Held(rx_msg') = 1 /\ rx_q' = rx_q
    <3>1. Receiving' = Receiving
      BY <2>8, <2>10 DEF Receiving
    <3> QED BY <1>P, <2>1, <2>5, <2>6, <3>1
  <2> QED BY <2>5, <2>9, <2>10
<1>10. CASE request_reset
  <2>1. UNCHANGED <<Held(rx_msg), Held(handling), acl_q, held, console, tx_q, Held(tx_msg)>> /\ Running
    BY <1>10 DEF request_reset, Held
  <2>2. free' = free - 1 /\ Len(rx_q') = Len(rx_q) + 1 /\ overflow' = overflow
    BY <1>0, <1>10 DEF request_reset, btctl_rx_enqueue, die, Running
  <2>3. UNCHANGED <<Receiving, Handling, Answering>>
    BY <1>0, <2>1, <2>2 DEF Receiving, Handling, Answering
  <2> QED BY <1>P, <2>1, <2>2, <2>3
<1>11. CASE btctl_work
  <2>1. /\ UNCHANGED <<free, Held(rx_msg), acl_q, held, console, tx_q, Held(tx_msg), overflow>> /\ Running
        /\ handling = No /\ rx_q # << >> /\ rx_q' = Tail(rx_q) /\ handling' = Head(rx_q) /\ Head(rx_q).kind # "reset"
    BY <1>11 DEF btctl_work, Running, Held
  <2>2. Held(handling) = 0 /\ Held(handling') = 1
    <3>1. Head(rx_q) \in Entry
      BY <2>1, HeadTailProperties DEF Inv, Types
    <3>2. Head(rx_q).id \in Number
      BY <2>1, <3>1 DEF Entry, Message
    <3>3. Head(rx_q) # No
      BY <3>2, NotNone
    <3> QED BY <2>1, <3>3 DEF Held
  <2>3. Len(rx_q') = Len(rx_q) - 1
    BY <1>0, <2>1
  <2>4. Receiving' = Receiving - 1 /\ Handling' = Handling + 1 /\ Answering' = Answering
    BY <1>0, <2>1, <2>2, <2>3 DEF Receiving, Handling, Answering
  <2> QED BY <1>P, <2>1, <2>4
<1>12. CASE btctl_handle_msg
  <2>1. UNCHANGED <<Held(rx_msg), rx_q, held, console, tx_q, Held(tx_msg)>> /\ Held(handling) = 1 /\ Held(handling') = 0 /\ Running
    BY <1>12 DEF btctl_handle_msg, Held
  <2>2. ((free' = free + 1 /\ acl_q' = acl_q) \/ (acl_q' = acl_q + 1 /\ free' = free)) /\ overflow' = overflow
    BY <1>12, Zenon DEF btctl_handle_msg
  <2>3. Answering' = Answering
    BY <2>1 DEF Answering
  <2>4. CASE free' = free + 1 /\ acl_q' = acl_q
    <3>1. Receiving' = Receiving + 1 /\ Handling' = Handling - 1
      BY <1>0, <2>1, <2>4 DEF Receiving, Handling
    <3> QED BY <1>P, <2>1, <2>2, <2>3, <3>1
  <2>5. CASE acl_q' = acl_q + 1 /\ free' = free
    <3>1. Receiving' = Receiving /\ Handling' = Handling
      BY <1>0, <2>1, <2>5 DEF Receiving, Handling
    <3> QED BY <1>P, <2>1, <2>2, <2>3, <3>1
  <2> QED BY <2>2, <2>4, <2>5
<1>13. CASE acl_sent
  <2>1. /\ UNCHANGED <<Held(rx_msg), rx_q, Held(handling), held, console, tx_q, Held(tx_msg), dead, overflow>>
        /\ acl_q' = acl_q - 1 /\ free' = free + 1
    BY <1>13 DEF acl_sent, Held
  <2>2. Receiving' = Receiving + 1 /\ Handling' = Handling - 1 /\ Answering' = Answering
    BY <1>0, <2>1 DEF Receiving, Handling, Answering
  <2> QED BY <1>P, <2>1, <2>2 DEF Running
<1> QED BY <1>1, <1>2, <1>3, <1>4, <1>5, <1>6, <1>7, <1>8, <1>9, <1>10, <1>11, <1>12, <1>13 DEF UNext

(* Every buffer of the pool is free or with one queue, message or task, as   *)
(* long as no full queue has lost one: nothing that interrupts the sending   *)
(* or receiving of a message, and no order of the two, loses a buffer or     *)
(* frees one twice.                                                          *)
THEOREM NoBufferLeaks == USpec => []BuffersKept
<1>1. UInit => Inv /\ BuffersKept
  <2>1. ASSUME UInit
        PROVE  BuffersKept
    <3>1. Len(<< >>) = 0 /\ Held(No) = 0 /\ BUF_NUM \in Nat
      BY Sizes_ DEF Held
    <3> QED BY <2>1, <3>1 DEF UInit, BuffersKept
  <2> QED BY <2>1, InitHolds
<1>2. Inv /\ BuffersKept /\ [UNext]_uvars => BuffersKept'
  <2> SUFFICES ASSUME Inv, BuffersKept, [UNext]_uvars
               PROVE  BuffersKept'
    OBVIOUS
  <2>1. CASE UNext
    <3>1. Inv'
      BY NextHolds DEF Done
    <3>2. (Running' /\ ~overflow') => (Running /\ ~overflow /\ Under' = Under)
      BY <2>1, <3>1, BufferMoves
    <3>3. BuffersKept = ((Running /\ ~overflow) => Under = BUF_NUM) /\ BuffersKept' = ((Running' /\ ~overflow') => Under' = BUF_NUM)
      BY DEF BuffersKept, Under
    <3> QED BY <3>2, <3>3
  <2>2. CASE UNCHANGED uvars
    BY <2>2 DEF BuffersKept, Held, Running, uvars, buffers
  <2> QED BY <2>1, <2>2
<1>3. Inv /\ [UNext]_uvars => Inv'
  BY NextHolds DEF Done
<1> QED BY <1>1, <1>2, <1>3, PTL DEF USpec

-----------------------------------------------------------------------------
(* The control of btbr, for every ring of the scheduler, every scan window   *)
(* and every wait of the idle handler that FirmwareAssumption allows.        *)
(*                                                                           *)
(* The inductive invariant, CtlInv, says that the agenda holds one of a few  *)
(* patterns at a time, each the rest of one chain of tasks, with the radio,  *)
(* the packets and the callbacks that belong to it, and that the chain ends  *)
(* before the idle handler has waited long enough (TaskChain); and that a        *)
(* command reaches the device in STANDBY only, because the host sends the    *)
(* next one when it has heard that the last one is over (HostInv).           *)

(* The items of agenda a that are still to run when item t of the current    *)
(* bucket is next, each with the ticks until it is due.                      *)
Frames == 0 .. NUM_FRAMES - 1
FirstLeft(t, k) == IF k = 0 /\ t > 0 THEN t ELSE 1
Left(a, t, k) == FirstLeft(t, k) .. Len(a[k])
Pend(a, t) == {e \in Frames \X Items : \E i \in Left(a, t, e[1]) : a[e[1]][i] = e[2]}
PickLeft(a, t, e) == \E i \in Left(a, t, e[1]) : a[e[1]][i] = e[2]
Prepares == {"tx_prepare", "rx_prepare"}

(* No item is there twice; a bucket holds two items at most, and the current *)
(* one three for a moment, with only prepare items left; they run in order   *)
(* of priority.                                                              *)
Orderly(a, t) ==
  /\ a \in [Frames -> Seq(Items)]
  /\ t \in 0 .. Len(a[0]) + 1
  /\ \A k \in Frames : \A i, j \in Left(a, t, k) : a[k][i] = a[k][j] => i = j
  /\ \A k \in Frames : Len(a[k]) <= (IF k = 0 /\ t > 0 THEN 3 ELSE 2)
  /\ Len(a[0]) = 3 => \A i \in Left(a, t, 0) : a[0][i] \in Prepares
  /\ t > 0 => \A i, j \in Left(a, t, 0) : i < j => Prio(a[0][i]) <= Prio(a[0][j])

(* The tick of its four that the mode's transmissions are prepared in, and   *)
(* whether the clock is at idx, modulo 4, d ticks from the current bucket.   *)
Masters == {"INQUIRY", "PAGING", "MASTER"}
TxSlot == IF mode \in Masters THEN MasterTx ELSE SlaveTx
Now == IF tick = 0 THEN clkn + 1 ELSE clkn
At(clk, d, idx) == (clk + d) % 4 = idx % 4
On(d, idx) == At(Now, d, idx)

(* Which state a callback serves. It may run in that state, or in STANDBY    *)
(* when the state was cancelled, and never under the other role's clock.     *)
Openers == {"inquiry_start_sync", "paging_start_sync", "scan_start", "start_monitor2"}
Serves(cb) ==
  CASE cb \in {"inquiry_start_sync", "inquiry_rx_cb"} -> "INQUIRY"
    [] cb \in {"paging_start_sync", "paging_rx_cb", "paging_rx_ack_cb"} -> "PAGE"
    [] cb \in {"inquiry_scan_rx_cb", "tx_fhs_cb", "tx_eir_cb"} -> "INQUIRY_SCAN"
    [] cb \in {"page_scan_rx_id_cb", "page_scan_rx_fhs_cb", "page_scan_tx_cb", "monitor1_rx_id_cb",
               "monitor1_rx_fhs_cb", "start_monitor2"} -> "PAGE_SCAN"
    [] OTHER -> "CONNECTED"
OfMasters == {"inquiry_start_sync", "inquiry_rx_cb", "paging_start_sync", "paging_rx_cb", "paging_rx_ack_cb",
              "master_rx_cb", "master_tx_done"}
For(cb) == /\ cb # "none" /\ state \in {Serves(cb), "STANDBY"}
           /\ mode \in Masters <=> cb \in OfMasters

(* A chain that ends n ticks from now ends before the idle handler does; out *)
(* of STANDBY, before an idle handler that starts now would. Lasts: ticks    *)
(* from tx_prepare to the callback; Then: what the callback may add though   *)
(* the state is cancelled; Opens: what an item that begins a search adds.    *)
Budget == IF state = "STANDBY" THEN drain ELSE DRAIN
Wait == IF tick = 0 THEN 1 ELSE 0
Soon(n) == Operating => n + Wait <= Budget
Long == {"tx_eir_cb", "master_tx_done", "slave_tx_done"}
Lasts(cb) == IF cb \in Long THEN Air ELSE 2
Then(cb) == CASE cb = "tx_fhs_cb" -> 3 + Air + SCAN_MAX_SLOTS
              [] cb = "tx_eir_cb" -> SCAN_MAX_SLOTS
              [] cb \in {"master_tx_done", "slave_tx_done"} -> Air
              [] OTHER -> 0
Opens(x) == CASE x = "scan_start" -> SCAN_MAX_SLOTS - 1 [] x = "start_monitor2" -> 0 [] OTHER -> 9 + Air

(* The chains. Rest: nothing; Calling: a callback is about to be entered;    *)
(* Waits: a search begins; Scans: a scan listens; Tx..: a transmission;      *)
(* Both..: a transmission and the reception of its answer; Rx..: a reception.*)
TxAt(d) == {<<d, "tx_prepare">>, <<d + 1, "tx_execute">>}
RxAt(d) == {<<d, "rx_prepare">>, <<d + 1, "rx_execute">>}

Rest(S) == /\ S = {} /\ call = "none" /\ ~tx.hdr /\ ~rx.msg /\ radio = "idle"
           /\ Operating => state = "STANDBY" \/ Stalled
Calling(S) == /\ S = {} /\ call # "none" /\ ~tx.hdr /\ ~rx.msg /\ radio = "idle"
              /\ tick > 0 /\ Len(agenda[0]) <= 2
              /\ For(call) /\ Soon(Then(call))
              /\ call \in {"master_tx_done", "slave_tx_done"} => On(0, TxSlot + 2)
Waits(S, x, k) ==
  /\ S = {<<k, x>>} /\ call = "none" /\ ~tx.hdr /\ ~rx.msg /\ radio = "idle"
  /\ Soon(k + Opens(x)) /\ For(IF x = "scan_start" THEN scan.cb ELSE x)
Scans(S, k) ==
  /\ S = {<<k, "scan_wait_more">>} /\ call = "none" /\ ~tx.hdr /\ ~rx.msg /\ radio = "scan"
  /\ scan.slots \in 1 .. SCAN_MAX_SLOTS - 1
  /\ Soon(k + SCAN_MAX_SLOTS - scan.slots - 1) /\ For(scan.cb)
TxReady(S, d) ==
  /\ S = TxAt(d) /\ call = "none" /\ ~rx.msg /\ radio = "idle"
  /\ For(tx.cb) /\ On(d, TxSlot) /\ Soon(d + Lasts(tx.cb) + Then(tx.cb))
TxGoes(S, d, f) ==
  /\ S = {<<d, "tx_execute">>, <<f, "tx_finalize">>} /\ f - d \in {1, 5, 9}
  /\ call = "none" /\ ~rx.msg /\ radio = "tx"
  /\ For(tx.cb) /\ On(d, TxSlot + 1) /\ Soon(f + Then(tx.cb))
TxEnds(S, f) ==
  /\ S = {<<f, "tx_finalize">>} /\ call = "none" /\ ~rx.msg
  /\ For(tx.cb) /\ On(f, TxSlot + 2) /\ Soon(f + Then(tx.cb))
BothReady(S, d) ==
  /\ S = TxAt(d) \cup RxAt(d + 2) /\ call = "none" /\ ~rx.msg /\ radio = "idle"
  /\ tx.cb = "none" /\ For(rx.cb) /\ On(d, TxSlot) /\ Soon(d + 2 + Air)
BothGo(S, d) ==
  /\ S = {<<d, "tx_execute">>, <<d + 1, "tx_finalize">>} \cup RxAt(d + 1)
  /\ call = "none" /\ ~rx.msg /\ radio = "tx"
  /\ tx.cb = "none" /\ For(rx.cb) /\ On(d, TxSlot + 1) /\ Soon(d + 1 + Air)
BothEnd(S, f) ==
  /\ S = {<<f, "tx_finalize">>} \cup RxAt(f) /\ call = "none" /\ ~rx.msg
  /\ tx.cb = "none" /\ For(rx.cb) /\ Soon(f + Air)
RxReady(S, d) ==
  /\ S = RxAt(d) /\ call = "none" /\ ~tx.hdr /\ ~rx.msg /\ radio = "idle"
  /\ For(rx.cb) /\ Soon(d + Air)
RxGoes(S, d) ==
  /\ S = {<<d, "rx_execute">>} /\ call = "none" /\ ~tx.hdr /\ rx.msg /\ radio = "rx"
  /\ For(rx.cb) /\ Soon(d + Air - 1)
RxDecodes(S, d) ==
  /\ S = {<<d, "rx_decode">>} /\ call = "none" /\ ~tx.hdr /\ rx.msg /\ radio = "rx"
  /\ rx.left \in 1 .. Air - 1
  /\ For(rx.cb) /\ Soon(d + rx.left - 1)

TaskChain(S) ==
  \/ Rest(S) \/ Calling(S)
  \/ \E k \in 0 .. 2, x \in Openers : Waits(S, x, k)
  \/ \E k \in 0 .. 1 : Scans(S, k) \/ RxGoes(S, k) \/ RxDecodes(S, k) \/ BothGo(S, k) \/ BothEnd(S, k)
  \/ \E k \in 0 .. 7 : TxReady(S, k) \/ BothReady(S, k) \/ RxReady(S, k)
  \/ \E k \in 0 .. 1, f \in 1 .. 10 : TxGoes(S, k, f)
  \/ \E f \in 0 .. 9 : TxEnds(S, f)

(* The commands on their way to the device (Asked, Eirs) and the answers on  *)
(* their way to the host that end one (Told).                                *)
Where(q, P) == {i \in DOMAIN q : q[i] \in P}
Asked == Where(rxq, Commands)
Eirs == Where(rxq, {"set_eir"})
Told == Where(txq, {"STANDBY"})
HostInv ==
  /\ \A i, j \in Asked : i = j
  /\ \A i, j \in Told : i = j
  /\ ~session => state = "STANDBY" /\ Asked = {} /\ Told = {}
  /\ state # "STANDBY" => Asked = {} /\ Told = {}
  /\ Asked # {} => Told = {}
  /\ \A i \in Eirs : ~session \/ \E j \in Asked : i < j

(* Every field has its type.                                                 *)
Fields ==
  /\ state \in States /\ mode \in Modes
  /\ call \in TxCallbacks \cup RxCallbacks \cup ScanCallbacks
  /\ clkn \in 0 .. 3
  /\ tx \in [cb : TxCallbacks, hdr : BOOLEAN]
  /\ rx \in [cb : RxCallbacks, msg : BOOLEAN, left : 0 .. 9]
  /\ pkt \in PktKinds
  /\ scan \in [cb : ScanCallbacks, slots : 0 .. SCAN_MAX_SLOTS]
  /\ radio \in {"idle", "tx", "rx", "scan"}
  /\ eir \in BOOLEAN /\ expired \in BOOLEAN
  /\ drain \in 0 .. DRAIN
  /\ rxq \in Seq(Commands \cup {"idle", "set_eir"})
  /\ txq \in Seq(States)
  /\ session \in BOOLEAN

CtlInv == /\ Fields /\ died \subseteq {"Invalid state transition"}
          /\ Orderly(agenda, tick) /\ TaskChain(Pend(agenda, tick)) /\ HostInv

Holds(a, t, S) == Orderly(a, t) /\ Pend(a, t) = S
Shift(S) == {<<e[1] - 1, e[2]>> : e \in S}

LEMMA CtlConsts ==
  /\ NUM_FRAMES \in Nat /\ NUM_FRAMES > 10 /\ NUM_CB \in Nat /\ NUM_CB > 3
  /\ Frames = 0 .. NUM_FRAMES - 1 /\ 0 \in Frames
  /\ \A k \in Frames : k % NUM_FRAMES = k
<1>1. NUM_FRAMES \in Nat /\ NUM_FRAMES > 10 /\ NUM_CB \in Nat /\ NUM_CB > 3
  BY FirmwareAssumption, BtctlAssumption
<1>2. \A k \in Frames : k % NUM_FRAMES = k
  BY <1>1 DEF Frames
<1>. QED  BY <1>1, <1>2 DEF Frames

LEMMA Buckets ==
  ASSUME NEW a, NEW t, Orderly(a, t)
  PROVE  /\ a \in [Frames -> Seq(Items)] /\ t \in Nat /\ t <= Len(a[0]) + 1
         /\ \A k \in Frames : /\ a[k] \in Seq(Items) /\ Len(a[k]) \in Nat /\ Len(a[k]) <= 3
                              /\ DOMAIN a[k] = 1 .. Len(a[k]) /\ a[k] \in [1 .. Len(a[k]) -> Items]
                              /\ k # 0 \/ t = 0 => Len(a[k]) <= 2
<1>1. a \in [Frames -> Seq(Items)]
  BY DEF Orderly
<1>2. \A k \in Frames : /\ a[k] \in Seq(Items) /\ Len(a[k]) \in Nat
                        /\ DOMAIN a[k] = 1 .. Len(a[k]) /\ a[k] \in [1 .. Len(a[k]) -> Items]
  BY <1>1, LenProperties
<1>3. t \in 0 .. Len(a[0]) + 1 /\ \A k \in Frames : Len(a[k]) <= (IF k = 0 /\ t > 0 THEN 3 ELSE 2)
  BY DEF Orderly
<1>4. t \in Nat /\ t <= Len(a[0]) + 1
  BY <1>2, <1>3, CtlConsts
<1>5. \A k \in Frames : Len(a[k]) <= 3 /\ (k # 0 \/ t = 0 => Len(a[k]) <= 2)
  BY <1>2, <1>3, <1>4
<1>. QED  BY <1>1, <1>2, <1>4, <1>5

LEMMA AgendaEmpty ==
  Holds([k \in 0 .. NUM_FRAMES - 1 |-> << >>], 0, {})
  BY CtlConsts DEF Holds, Orderly, Pend, Left, FirstLeft, Frames

(* The sort rearranges a bucket that no item has been taken from.            *)
LEMMA TickSorts ==
  ASSUME NEW a, NEW S, Holds(a, 0, S), NEW s \in Sorted(a[0])
  PROVE  Holds([a EXCEPT ![0] = s], 1, S)
<1>1. PICK e \in Bijection(DOMAIN a[0], DOMAIN a[0]) : s = [i \in DOMAIN a[0] |-> a[0][e[i]]]
  BY DEF Sorted, Arranged
<1>2. /\ a \in [Frames -> Seq(Items)] /\ a[0] \in Seq(Items) /\ DOMAIN a[0] = 1 .. Len(a[0]) /\ Len(a[0]) \in Nat
      /\ a[0] \in [1 .. Len(a[0]) -> Items] /\ \A k \in Frames : Len(a[k]) <= 2
  BY Buckets, CtlConsts DEF Holds
<1>3. /\ e \in [1 .. Len(a[0]) -> 1 .. Len(a[0])]
      /\ \A i, j \in 1 .. Len(a[0]) : e[i] = e[j] => i = j
      /\ \A j \in 1 .. Len(a[0]) : \E i \in 1 .. Len(a[0]) : e[i] = j
  BY <1>1, <1>2 DEF Bijection, Injection, Surjection, IsInjective
<1>4. s \in Seq(Items) /\ Len(s) = Len(a[0]) /\ DOMAIN s = 1 .. Len(a[0])
  <2>1. s \in [1 .. Len(a[0]) -> Items]
    BY <1>1, <1>2, <1>3
  <2>. QED  BY <1>2, <2>1, SeqDef
<1>5. \A i \in 1 .. Len(a[0]) : s[i] = a[0][e[i]]
  BY <1>1, <1>2
<1>. DEFINE b == [a EXCEPT ![0] = s]
<1>6. b \in [Frames -> Seq(Items)] /\ b[0] = s /\ \A k \in Frames \ {0} : b[k] = a[k]
  BY <1>2, <1>4, CtlConsts
<1>. HIDE DEF b
<1>7. Left(b, 1, 0) = 1 .. Len(a[0]) /\ Left(a, 0, 0) = 1 .. Len(a[0])
  BY <1>4, <1>6 DEF Left, FirstLeft
<1>8. \A k \in Frames \ {0} : Left(b, 1, k) = Left(a, 0, k)
  BY <1>6 DEF Left, FirstLeft
<1>9. Orderly(b, 1)
  <2>1. \A k \in Frames : \A i, j \in Left(b, 1, k) : b[k][i] = b[k][j] => i = j
    <3>1. \A i, j \in 1 .. Len(a[0]) : a[0][i] = a[0][j] => i = j
      BY <1>7, CtlConsts DEF Holds, Orderly
    <3>2. \A i, j \in 1 .. Len(a[0]) : s[i] = s[j] => i = j
      <4>1. SUFFICES ASSUME NEW i \in 1 .. Len(a[0]), NEW j \in 1 .. Len(a[0]), s[i] = s[j]  PROVE i = j
        OBVIOUS
      <4>2. e[i] \in 1 .. Len(a[0]) /\ e[j] \in 1 .. Len(a[0]) /\ a[0][e[i]] = a[0][e[j]]
        BY <1>3, <1>5, <4>1
      <4>. QED  BY <1>3, <3>1, <4>2
    <3>5. \A i, j \in Left(b, 1, 0) : b[0][i] = b[0][j] => i = j
      BY <1>6, <1>7, <3>2
    <3>3. \A k \in Frames \ {0} : \A i, j \in Left(b, 1, k) : b[k][i] = b[k][j] => i = j
      BY <1>6, <1>8 DEF Holds, Orderly
    <3>. QED  BY <3>3, <3>5
  <2>2. \A k \in Frames : Len(b[k]) <= 2
    BY <1>2, <1>4, <1>6, CtlConsts
  <2>3. \A i, j \in Left(b, 1, 0) : i < j => Prio(b[0][i]) <= Prio(b[0][j])
    BY <1>4, <1>6, <1>7 DEF Sorted
  <2>4. \A k \in Frames : Len(b[k]) <= (IF k = 0 /\ 1 > 0 THEN 3 ELSE 2)
    BY <1>6, <2>2
  <2>5. Len(b[0]) # 3 /\ 1 \in 0 .. Len(b[0]) + 1
    <3>1. Len(b[0]) \in Nat /\ Len(b[0]) <= 2
      BY <1>2, <1>4, <1>6, CtlConsts
    <3>. QED  BY <3>1
  <2>. QED  BY <1>6, <2>1, <2>3, <2>4, <2>5 DEF Orderly
<1>10. Pend(b, 1) = Pend(a, 0)
  <2>1. ASSUME NEW p0 \in Frames \X Items
        PROVE  (\E i \in Left(b, 1, p0[1]) : b[p0[1]][i] = p0[2]) <=> (\E i \in Left(a, 0, p0[1]) : a[p0[1]][i] = p0[2])
    <3>1. CASE p0[1] # 0
      BY <1>6, <1>8, <3>1
    <3>2. CASE p0[1] = 0
      <4>1. ASSUME NEW i \in 1 .. Len(a[0]), s[i] = p0[2]  PROVE \E j \in 1 .. Len(a[0]) : a[0][j] = p0[2]
        <5>1. e[i] \in 1 .. Len(a[0]) /\ a[0][e[i]] = p0[2]
          BY <1>3, <1>5, <4>1
        <5>. QED  BY <5>1
      <4>2. ASSUME NEW j \in 1 .. Len(a[0]), a[0][j] = p0[2]  PROVE \E i \in 1 .. Len(a[0]) : s[i] = p0[2]
        <5>1. PICK i \in 1 .. Len(a[0]) : e[i] = j
          BY <1>3
        <5>. QED  BY <1>5, <4>2, <5>1
      <4>. QED  BY <1>6, <1>7, <3>2, <4>1, <4>2
    <3>. QED  BY <3>1, <3>2
  <2>. QED  BY <2>1 DEF Pend
<1>. QED  BY <1>9, <1>10 DEF Holds, b

LEMMA ItemRuns ==
  ASSUME NEW a, NEW t, NEW S, Holds(a, t, S), t \in 1 .. Len(a[0])
  PROVE  /\ a[0][t] \in Items /\ <<0, a[0][t]>> \in S
         /\ Holds(a, t + 1, S \ {<<0, a[0][t]>>})
         /\ \A y : <<0, y>> \in S => Prio(a[0][t]) <= Prio(y)
         /\ a[0][t] \notin Prepares => Len(a[0]) <= 2
<1>1. /\ a \in [Frames -> Seq(Items)] /\ a[0] \in Seq(Items) /\ Len(a[0]) \in Nat /\ Orderly(a, t) /\ S = Pend(a, t)
      /\ a[0] \in [1 .. Len(a[0]) -> Items] /\ Len(a[0]) <= 3
  <2>1. Orderly(a, t) /\ S = Pend(a, t)
    BY DEF Holds
  <2>2. a \in [Frames -> Seq(Items)] /\ \A k \in Frames : a[k] \in Seq(Items) /\ Len(a[k]) \in Nat /\ Len(a[k]) <= 3
    BY <2>1, Buckets, Zenon
  <2>3. \A k \in Frames : a[k] \in [1 .. Len(a[k]) -> Items]
    BY <2>1, Buckets, Zenon
  <2>. QED  BY <2>1, <2>2, <2>3, CtlConsts
<1>2. a[0][t] \in Items /\ t \in Nat /\ t > 0
  BY <1>1
<1>3. /\ Left(a, t, 0) = t .. Len(a[0]) /\ Left(a, t + 1, 0) = t + 1 .. Len(a[0])
      /\ \A k \in Frames \ {0} : Left(a, t + 1, k) = Left(a, t, k)
  BY <1>2 DEF Left, FirstLeft
<1>4. <<0, a[0][t]>> \in S
  BY <1>1, <1>2, <1>3, CtlConsts DEF Pend
<1>5. Orderly(a, t + 1)
  <2>1. t + 1 \in 0 .. Len(a[0]) + 1 /\ (t + 1 > 0) /\ t > 0
    BY <1>1, <1>2
  <2>2. \A k \in Frames : \A i, j \in Left(a, t + 1, k) : a[k][i] = a[k][j] => i = j
    <3>1. \A k \in Frames : Left(a, t + 1, k) \subseteq Left(a, t, k)
      BY <1>1, <1>2, <1>3
    <3>. QED  BY <1>1, <3>1 DEF Orderly
  <2>3. \A k \in Frames : Len(a[k]) <= (IF k = 0 /\ t + 1 > 0 THEN 3 ELSE 2)
    BY <1>1, <2>1 DEF Orderly
  <2>4. Len(a[0]) = 3 => \A i \in Left(a, t + 1, 0) : a[0][i] \in Prepares
    BY <1>1, <1>2, <1>3 DEF Orderly
  <2>5. \A i, j \in Left(a, t + 1, 0) : i < j => Prio(a[0][i]) <= Prio(a[0][j])
    BY <1>1, <1>2, <1>3 DEF Orderly
  <2>. QED  BY <1>1, <2>1, <2>2, <2>3, <2>4, <2>5 DEF Orderly
<1>6. Pend(a, t + 1) = S \ {<<0, a[0][t]>>}
  <2>0. \A i \in t + 1 .. Len(a[0]) : a[0][i] # a[0][t]
    <3>1. \A i, j \in t .. Len(a[0]) : a[0][i] = a[0][j] => i = j
      BY <1>1, <1>3, CtlConsts DEF Orderly
    <3>. QED  BY <1>1, <1>2, <3>1
  <2>1. ASSUME NEW e \in Frames \X Items
        PROVE  e \in Pend(a, t + 1) <=> e \in Pend(a, t) /\ e # <<0, a[0][t]>>
    <3>1. CASE e[1] # 0
      BY <1>3, <3>1 DEF Pend
    <3>2. CASE e[1] = 0
      <4>1. e = <<0, e[2]>>
        BY <3>2
      <4>2. e \in Pend(a, t + 1) <=> \E i \in t + 1 .. Len(a[0]) : a[0][i] = e[2]
        BY <1>3, <3>2 DEF Pend
      <4>3. e \in Pend(a, t) <=> \E i \in t .. Len(a[0]) : a[0][i] = e[2]
        BY <1>3, <3>2 DEF Pend
      <4>. QED  BY <1>1, <1>2, <2>0, <4>1, <4>2, <4>3
    <3>. QED  BY <3>1, <3>2
  <2>. QED  BY <1>1, <2>1 DEF Pend
<1>7. ASSUME NEW y, <<0, y>> \in S
      PROVE  Prio(a[0][t]) <= Prio(y)
  <2>1. PICK i \in t .. Len(a[0]) : a[0][i] = y
    BY <1>1, <1>3, <1>7 DEF Pend
  <2>2. Prio(a[0][t]) \in Int
    BY DEF Prio
  <2>3. CASE i = t
    BY <2>1, <2>2, <2>3
  <2>4. CASE i > t
    BY <1>1, <1>2, <1>3, <2>1, <2>4 DEF Orderly
  <2>. QED  BY <1>2, <2>3, <2>4
<1>8. a[0][t] \notin Prepares => Len(a[0]) <= 2
  <2>1. Len(a[0]) = 3 => \A i \in t .. Len(a[0]) : a[0][i] \in Prepares
    BY <1>1, <1>3 DEF Orderly
  <2>2. t \in t .. Len(a[0])
    BY <1>1, <1>2
  <2>3. CASE Len(a[0]) = 3
    BY <2>1, <2>2, <2>3
  <2>4. CASE Len(a[0]) # 3
    <3>1. Len(a[0]) \in Nat /\ Len(a[0]) <= 3
      BY <1>1
    <3>2. \A n \in Nat : n <= 3 /\ n # 3 => n <= 2
      OBVIOUS
    <3>. QED  BY <2>4, <3>1, <3>2, Zenon
  <2>. QED  BY <2>3, <2>4
<1>. QED  BY <1>2, <1>4, <1>5, <1>6, <1>7, <1>8 DEF Holds

LEMMA TickEnds ==
  ASSUME NEW a, NEW t, NEW S, Holds(a, t, S), t > Len(a[0])
  PROVE  /\ Holds(Advanced(a), 0, Shift(S))
         /\ \A e \in S : e[1] \in 1 .. NUM_FRAMES - 1
<1>. DEFINE b == Advanced(a)
            L == NUM_FRAMES - 1
<1>1. a \in [Frames -> Seq(Items)] /\ DOMAIN a = Frames /\ Len(a[0]) \in Nat /\ t = Len(a[0]) + 1 /\ t \in Nat /\ t > 0
  <2>1. /\ a \in [Frames -> Seq(Items)] /\ Len(a[0]) \in Nat /\ t \in Nat /\ t <= Len(a[0]) + 1
    BY Buckets, CtlConsts DEF Holds
  <2>. QED  BY <2>1
<1>2. L \in Frames /\ L > 0 /\ b \in [Frames -> Seq(Items)] /\ b[L] = << >> /\ \A k \in Frames \ {L} : b[k] = a[k + 1] /\ k + 1 \in Frames
  BY <1>1, CtlConsts DEF Advanced
<1>3. Left(a, t, 0) = {} /\ Left(b, 0, L) = {}
  BY <1>1, <1>2 DEF Left, FirstLeft
<1>4. \A k \in Frames \ {L} : Left(b, 0, k) = Left(a, t, k + 1)
  <2>1. \A k \in Frames \ {L} : k + 1 # 0 /\ b[k] = a[k + 1]
    <3>1. \A k \in Frames : k + 1 # 0
      BY CtlConsts
    <3>2. \A k \in Frames \ {L} : b[k] = a[k + 1]
      BY ONLY <1>2
    <3>. QED  BY ONLY <3>1, <3>2
  <2>. QED  BY <2>1 DEF Left, FirstLeft
<1>. HIDE DEF b, L
<1>5. Orderly(b, 0)
  <2>1. \A k \in Frames : \A i, j \in Left(b, 0, k) : b[k][i] = b[k][j] => i = j
    <3>1. \A k \in Frames : \A i, j \in Left(a, t, k) : a[k][i] = a[k][j] => i = j
      BY DEF Holds, Orderly
    <3>2. \A k \in Frames \ {L} : \A i, j \in Left(b, 0, k) : b[k][i] = b[k][j] => i = j
      BY <1>2, <1>4, <3>1
    <3>. QED  BY <1>3, <3>2
  <2>2. \A k \in Frames : Len(b[k]) <= 2
    <3>1. \A k \in Frames \ {0} : Len(a[k]) <= 2
      <4>1. Orderly(a, t)
        BY DEF Holds
      <4>2. \A k \in Frames : k # 0 => Len(a[k]) <= 2
        BY <4>1, Buckets, Zenon
      <4>. QED  BY <4>2
    <3>2. \A k \in Frames \ {L} : k + 1 \in Frames \ {0} /\ b[k] = a[k + 1]
      <4>1. \A k \in Frames : k + 1 # 0
        BY CtlConsts
      <4>. QED  BY <1>2, <4>1
    <3>3. \A k \in Frames \ {L} : Len(b[k]) <= 2
      BY <3>1, <3>2
    <3>. QED  BY <1>2, <3>3
  <2>3. Len(b[0]) \in Nat /\ Len(b[0]) # 3
    <3>1. b[0] \in Seq(Items) /\ Len(b[0]) <= 2
      BY <1>2, <2>2, CtlConsts
    <3>2. Len(b[0]) \in Nat
      BY <3>1, LenProperties
    <3>3. \A n \in Nat : n <= 2 => n # 3
      OBVIOUS
    <3>. QED  BY <3>1, <3>2, <3>3, Zenon
  <2>. QED  BY <1>2, <2>1, <2>2, <2>3 DEF Orderly
<1>6. ASSUME NEW e \in S
      PROVE  e[1] \in 1 .. NUM_FRAMES - 1
  BY <1>3, <1>6, CtlConsts DEF Holds, Pend
<1>7. Pend(b, 0) = Shift(S)
  <2>1. ASSUME NEW q \in Pend(b, 0)
        PROVE  q \in Shift(S)
    <3>1. q \in Frames \X Items /\ PickLeft(b, 0, q)
      BY <2>1 DEF Pend, PickLeft
    <3>2. q[1] # L
      BY <1>3, <3>1 DEF PickLeft
    <3>3. q[1] + 1 \in Frames /\ PickLeft(a, t, <<q[1] + 1, q[2]>>)
      BY <1>2, <1>4, <3>1, <3>2 DEF PickLeft
    <3>4. <<q[1] + 1, q[2]>> \in S
      BY <3>1, <3>3 DEF Holds, Pend, PickLeft
    <3>5. q = <<(q[1] + 1) - 1, q[2]>>
      BY <3>1, CtlConsts
    <3>. QED  BY <3>4, <3>5 DEF Shift
  <2>2. ASSUME NEW e \in S
        PROVE  <<e[1] - 1, e[2]>> \in Pend(b, 0)
    <3>1. e \in Frames \X Items /\ PickLeft(a, t, e) /\ e[1] \in 1 .. NUM_FRAMES - 1
      BY <1>6 DEF Holds, Pend, PickLeft
    <3>2. e[1] - 1 \in Frames \ {L} /\ (e[1] - 1) + 1 = e[1]
      BY <3>1, CtlConsts DEF L
    <3>3. PickLeft(b, 0, <<e[1] - 1, e[2]>>)
      BY <1>2, <1>4, <3>1, <3>2 DEF PickLeft
    <3>. QED  BY <3>1, <3>2, <3>3 DEF Pend, PickLeft
  <2>. QED  BY <2>1, <2>2 DEF Shift
<1>. QED  BY <1>5, <1>6, <1>7 DEF Holds, b

(* An item is put into a bucket that has room for e: an empty one, one with *)
(* a single item, or the current one once everything in e has run.          *)
LEMMA ItemAdded ==
  ASSUME NEW a, NEW t, NEW S, Holds(a, t, S), NEW k \in Frames, NEW y \in Items, <<k, y>> \notin S,
         \A x, z : <<k, x>> \in S /\ <<k, z>> \in S => x = z,
         k = 0 => \A x : <<0, x>> \notin S,
         k = 0 /\ t > 0 => Len(a[0]) <= 2 /\ y \in Prepares
  PROVE  Holds(tdma_schedule(a, k, y), t, S \cup {<<k, y>>})
<1>. DEFINE n == Len(a[k])
            q == Append(a[k], y)
            b == [a EXCEPT ![k] = q]
<1>1. Orderly(a, t) /\ S = Pend(a, t)
  BY DEF Holds
<1>2. /\ a \in [Frames -> Seq(Items)] /\ t \in Nat /\ t <= Len(a[0]) + 1 /\ Len(a[0]) \in Nat
      /\ a[k] \in Seq(Items) /\ n \in Nat /\ n <= 3 /\ a[k] \in [1 .. n -> Items]
  BY <1>1, Buckets, CtlConsts
<1>3. /\ Left(a, t, k) = (IF k = 0 /\ t > 0 THEN t .. n ELSE 1 .. n)
      /\ \A i, j \in Left(a, t, k) : a[k][i] = a[k][j] => i = j
  BY <1>1, <1>2 DEF Orderly, Left, FirstLeft
<1>4. \A i \in Left(a, t, k) : <<k, a[k][i]>> \in S
  <2>1. SUFFICES ASSUME NEW i \in Left(a, t, k)  PROVE <<k, a[k][i]>> \in S
    OBVIOUS
  <2>2. i \in 1 .. n
    BY <1>2, <1>3
  <2>3. <<k, a[k][i]>> \in Frames \X Items /\ PickLeft(a, t, <<k, a[k][i]>>)
    BY <1>2, <2>2 DEF PickLeft
  <2>. QED  BY <1>1, <2>3 DEF Pend, PickLeft
<1>5. n <= (IF k = 0 /\ t > 0 THEN 2 ELSE 1)
  <2>1. CASE k = 0 /\ t > 0
    BY <2>1
  <2>2. CASE ~(k = 0 /\ t > 0) /\ n >= 2
    <3>1. 1 \in Left(a, t, k) /\ 2 \in Left(a, t, k)
      BY <1>2, <1>3, <2>2
    <3>2. a[k][1] = a[k][2]
      BY <1>4, <3>1
    <3>. QED  BY <1>3, <3>1, <3>2
  <2>. QED  BY <1>2, <2>1, <2>2
<1>6. ~Full(a, k) /\ tdma_schedule(a, k, y) = b
  <2>1. ~(n >= NUM_CB)
    BY <1>2, <1>5, CtlConsts
  <2>. QED  BY <2>1, CtlConsts DEF Full, tdma_schedule
<1>7. q \in Seq(Items) /\ Len(q) = n + 1 /\ q[n + 1] = y /\ \A i \in 1 .. n : q[i] = a[k][i]
  BY <1>2, AppendProperties
<1>8. b \in [Frames -> Seq(Items)] /\ b[k] = q /\ \A j \in Frames \ {k} : b[j] = a[j]
  BY <1>2, <1>7
<1>. HIDE DEF q, b, n
<1>9. \A j \in Frames \ {k} : Left(b, t, j) = Left(a, t, j)
  BY <1>8 DEF Left, FirstLeft
<1>10. Left(b, t, k) = Left(a, t, k) \cup {n + 1} /\ Left(a, t, k) \subseteq 1 .. n
  <2>1. Left(b, t, k) = (IF k = 0 /\ t > 0 THEN t .. n + 1 ELSE 1 .. n + 1)
    BY <1>7, <1>8 DEF Left, FirstLeft
  <2>2. k = 0 => t <= n + 1
    BY <1>2 DEF n
  <2>. QED  BY <1>2, <1>3, <2>1, <2>2
<1>11. \A i \in Left(a, t, k) : a[k][i] # y
  BY <1>4
<1>12. Orderly(b, t)
  <2>1. \A j \in Frames : \A i, h \in Left(b, t, j) : b[j][i] = b[j][h] => i = h
    <3>1. \A i, h \in Left(b, t, k) : b[k][i] = b[k][h] => i = h
      <4>1. \A i \in Left(a, t, k) : b[k][i] = a[k][i]
        BY <1>7, <1>8, <1>10
      <4>. QED  BY <1>3, <1>7, <1>8, <1>10, <1>11, <4>1
    <3>2. \A j \in Frames \ {k} : \A i, h \in Left(b, t, j) : b[j][i] = b[j][h] => i = h
      BY <1>1, <1>8, <1>9 DEF Orderly
    <3>. QED  BY <3>1, <3>2
  <2>2. \A j \in Frames : Len(b[j]) <= (IF j = 0 /\ t > 0 THEN 3 ELSE 2)
    <3>1. Len(b[k]) <= (IF k = 0 /\ t > 0 THEN 3 ELSE 2)
      BY <1>2, <1>5, <1>7, <1>8
    <3>2. \A j \in Frames : Len(a[j]) <= (IF j = 0 /\ t > 0 THEN 3 ELSE 2)
      BY <1>1 DEF Orderly
    <3>3. \A j \in Frames \ {k} : Len(b[j]) <= (IF j = 0 /\ t > 0 THEN 3 ELSE 2)
      BY <1>8, <3>2
    <3>. QED  BY <3>1, <3>3
  <2>3. k = 0 => Left(a, t, 0) = {}
    BY <1>4
  <2>4. Len(b[0]) = 3 => \A i \in Left(b, t, 0) : b[0][i] \in Prepares
    <3>1. CASE k = 0 /\ t > 0
      BY <1>7, <1>8, <1>10, <2>3, <3>1
    <3>2. CASE k = 0 /\ ~(t > 0)
      <4>1. n <= 1 /\ Len(b[0]) = n + 1
        BY <1>5, <1>7, <1>8, <3>2
      <4>2. Len(b[0]) # 3
        BY <1>2, <4>1
      <4>. QED  BY <4>2
    <3>3. CASE k # 0
      BY <1>1, <1>8, <1>9, <3>3, CtlConsts DEF Orderly
    <3>. QED  BY <3>1, <3>2, <3>3
  <2>5. t > 0 => \A i, j \in Left(b, t, 0) : i < j => Prio(b[0][i]) <= Prio(b[0][j])
    <3>1. CASE k = 0
      BY <1>2, <1>10, <2>3, <3>1
    <3>2. CASE k # 0
      BY <1>1, <1>8, <1>9, <3>2, CtlConsts DEF Orderly
    <3>. QED  BY <3>1, <3>2
  <2>6. t \in 0 .. Len(b[0]) + 1
    <3>1. Len(b[0]) \in Nat /\ Len(b[0]) >= Len(a[0])
      <4>1. CASE k = 0
        BY <1>2, <1>7, <1>8, <4>1 DEF n
      <4>2. CASE k # 0
        BY <1>2, <1>8, <4>2, CtlConsts
      <4>. QED  BY <4>1, <4>2
    <3>. QED  BY <1>2, <3>1
  <2>. QED  BY <1>8, <2>1, <2>2, <2>4, <2>5, <2>6 DEF Orderly
<1>13. Pend(b, t) = S \cup {<<k, y>>}
  <2>1. ASSUME NEW e \in Frames \X Items
        PROVE  PickLeft(b, t, e) <=> PickLeft(a, t, e) \/ e = <<k, y>>
    <3>1. CASE e[1] # k
      <4>1. e # <<k, y>>
        BY <3>1
      <4>. QED  BY <1>8, <1>9, <3>1, <4>1 DEF PickLeft
    <3>2. CASE e[1] = k
      <4>1. e = <<k, e[2]>> /\ (e = <<k, y>> <=> e[2] = y)
        BY <3>2
      <4>2. \A i \in Left(a, t, k) : b[k][i] = a[k][i]
        BY <1>7, <1>8, <1>10
      <4>. QED  BY <1>7, <1>8, <1>10, <3>2, <4>1, <4>2 DEF PickLeft
    <3>. QED  BY <3>1, <3>2
  <2>2. <<k, y>> \in Frames \X Items
    OBVIOUS
  <2>3. /\ \A e \in Frames \X Items : (e \in Pend(b, t) <=> PickLeft(b, t, e)) /\ (e \in S <=> PickLeft(a, t, e))
        /\ Pend(b, t) \subseteq Frames \X Items /\ S \subseteq Frames \X Items
    BY <1>1 DEF Pend, PickLeft
  <2>. QED  BY <2>1, <2>2, <2>3
<1>. QED  BY <1>6, <1>12, <1>13 DEF Holds

(* The sets of two items, put on an agenda with nothing left to run.         *)
Roomy(a, t, d) == d = 0 => t > 0 /\ Len(a[0]) <= 2

LEMMA FramesNear == \A d \in 0 .. 10 : d \in Frames /\ d % NUM_FRAMES = d
  BY CtlConsts

LEMMA NeverFull ==
  ASSUME NEW a, NEW t, NEW S, Holds(a, t, S), NEW k \in Frames
  PROVE  Len(a[k]) < NUM_CB /\ ~Full(a, k)
<1>1. Orderly(a, t)
  BY DEF Holds
<1>2. Len(a[k]) \in Nat /\ Len(a[k]) <= 3
  BY <1>1, Buckets
<1>. QED  BY <1>2, CtlConsts DEF Full

LEMMA SetAdded ==
  ASSUME NEW a, NEW t, NEW S, Holds(a, t, S), NEW d \in 0 .. 9, NEW x \in Prepares, NEW y \in Items,
         \A z : <<d, z>> \notin S /\ <<d + 1, z>> \notin S, Roomy(a, t, d)
  PROVE  Holds(tdma_schedule_set(a, d, x, y), t, S \cup {<<d, x>>, <<d + 1, y>>})
<1>. DEFINE b == tdma_schedule(a, d, x)
<1>1. d \in Frames /\ d + 1 \in Frames /\ d + 1 # 0 /\ d + 1 # d /\ x \in Items
  BY FramesNear DEF Prepares, Items
<1>2. Holds(b, t, S \cup {<<d, x>>})
  BY <1>1, ItemAdded DEF Roomy
<1>. HIDE DEF b
<1>3. \A z : <<d + 1, z>> \notin S \cup {<<d, x>>}
  BY <1>1
<1>4. Holds(tdma_schedule(b, d + 1, y), t, (S \cup {<<d, x>>}) \cup {<<d + 1, y>>})
  BY <1>1, <1>2, <1>3, ItemAdded
<1>5. tdma_schedule_set(a, d, x, y) = tdma_schedule(b, d + 1, y)
  BY <1>1, NeverFull DEF tdma_schedule_set, b
<1>6. (S \cup {<<d, x>>}) \cup {<<d + 1, y>>} = S \cup {<<d, x>>, <<d + 1, y>>}
  OBVIOUS
<1>. QED  BY <1>4, <1>5, <1>6

LEMMA TxScheduled ==
  ASSUME NEW a, NEW t, Holds(a, t, {}), NEW d \in 0 .. 9, Roomy(a, t, d)
  PROVE  Holds(TxSet(a, d), t, TxAt(d))
<1>1. Holds(TxSet(a, d), t, {} \cup TxAt(d))
  BY SetAdded DEF TxSet, TxAt, Prepares, Items
<1>. QED  BY <1>1

LEMMA RxScheduled ==
  ASSUME NEW a, NEW t, Holds(a, t, {}), NEW d \in 0 .. 9, Roomy(a, t, d)
  PROVE  Holds(RxSet(a, d), t, RxAt(d))
<1>1. Holds(RxSet(a, d), t, {} \cup RxAt(d))
  BY SetAdded DEF RxSet, RxAt, Prepares, Items
<1>. QED  BY <1>1

LEMMA BothScheduled ==
  ASSUME NEW a, NEW t, Holds(a, t, {}), NEW d \in 0 .. 7, Roomy(a, t, d)
  PROVE  Holds(RxSet(TxSet(a, d), d + 2), t, TxAt(d) \cup RxAt(d + 2))
<1>. DEFINE b == TxSet(a, d)
<1>1. Holds(b, t, TxAt(d))
  BY TxScheduled
<1>. HIDE DEF b
<1>2. d + 2 \in 0 .. 9 /\ Roomy(b, t, d + 2)
  BY DEF Roomy
<1>3. \A z : <<d + 2, z>> \notin TxAt(d) /\ <<d + 2 + 1, z>> \notin TxAt(d)
  BY DEF TxAt
<1>. QED  BY <1>1, <1>2, <1>3, SetAdded DEF RxSet, RxAt, Prepares, Items, b

(* One item, put on an agenda with nothing left to run.                      *)
LEMMA OneScheduled ==
  ASSUME NEW a, NEW t, Holds(a, t, {}), NEW k \in 0 .. 10, NEW y \in Items, k = 0 => t = 0
  PROVE  Holds(tdma_schedule(a, k, y), t, {<<k, y>>})
<1>1. t \in Nat
  <2>1. Orderly(a, t)
    BY DEF Holds
  <2>. QED  BY <2>1, Buckets
<1>2. k \in Frames /\ ~(k = 0 /\ t > 0)
  BY <1>1, FramesNear
<1>3. Holds(tdma_schedule(a, k, y), t, {} \cup {<<k, y>>})
  BY <1>2, ItemAdded
<1>. QED  BY <1>3

-----------------------------------------------------------------------------
(* What is left on the agenda and what e says of the tasks.                 *)
ChainInv == Orderly(agenda, tick) /\ TaskChain(Pend(agenda, tick))

LEMMA ChainIs ==
  /\ ChainInv <=> \E S : Holds(agenda, tick, S) /\ TaskChain(S)
  BY DEF ChainInv, Holds

LEMMA ChainNext ==
  ASSUME NEW S, Holds(agenda', tick', S), TaskChain(S)'
  PROVE  ChainInv'
  BY DEF ChainInv, Holds

LEMMA Arithmetic ==
  /\ Air \in {2, 6, 10} /\ DRAIN \in Nat /\ SCAN_MAX_SLOTS \in Nat /\ SCAN_MAX_SLOTS >= 1
  /\ DRAIN >= Air + 12 /\ DRAIN >= 2 * Air + 7 /\ DRAIN >= Air + SCAN_MAX_SLOTS + 8
  /\ \A n \in PacketSlots : n \in {1, 3, 5} /\ 2 * n <= Air
  BY FirmwareAssumption, BtctlAssumption DEF Air

LEMMA UntilFacts ==
  ASSUME NEW i \in 0 .. 3, NEW c \in 0 .. 3
  PROVE  Until(i, c) \in 0 .. 3 /\ At(c, Until(i, c), i) /\ At(c, 4 + Until(i, c), i)
  BY DEF Until, At

LEMMA AtFacts ==
  ASSUME NEW c \in 0 .. 4, NEW d \in 0 .. 10, NEW i \in 0 .. 3, At(c, d, i)
  PROVE  /\ At(c, d + 1, i + 1)
         /\ d > 0 => At(c + 1, d - 1, i)
         /\ c > 0 => At(c % 4, d, i)
  BY DEF At

LEMMA AtEnd ==
  ASSUME NEW c \in 0 .. 4, NEW i \in {1, 3}, At(c, 0, i + 1), NEW f \in {1, 5, 9}
  PROVE  At(c, f, i + 2) /\ c % 2 = 0
  BY DEF At

LEMMA Durations ==
  ASSUME NEW cb
  PROVE  /\ Lasts(cb) \in Nat /\ Lasts(cb) >= 2 /\ Lasts(cb) <= Air /\ Then(cb) \in Nat /\ Opens(cb) \in Nat
         /\ cb \in RxCallbacks \cup ScanCallbacks => Then(cb) = 0
  BY Arithmetic DEF Lasts, Then, Opens, RxCallbacks, ScanCallbacks, Long

(* Which of the phases an item belongs to that is due now.                   *)
LEMMA WhosePrepare ==
  ASSUME NEW S, TaskChain(S), <<0, "tx_prepare">> \in S
  PROVE  TxReady(S, 0) \/ BothReady(S, 0)
  BY DEF TaskChain, Rest, Calling, Waits, Openers, Scans, TxReady, TxGoes, TxEnds, BothReady, BothGo, BothEnd, RxReady, RxGoes, RxDecodes,
         TxAt, RxAt

LEMMA WhoseExecute ==
  ASSUME NEW S, TaskChain(S), <<0, "tx_execute">> \in S
  PROVE  (\E f \in {1, 5, 9} : TxGoes(S, 0, f)) \/ BothGo(S, 0)
  BY DEF TaskChain, Rest, Calling, Waits, Openers, Scans, TxReady, TxGoes, TxEnds, BothReady, BothGo, BothEnd, RxReady, RxGoes, RxDecodes,
         TxAt, RxAt

LEMMA WhoseFinalize ==
  ASSUME NEW S, TaskChain(S), <<0, "tx_finalize">> \in S
  PROVE  TxEnds(S, 0) \/ BothEnd(S, 0)
  BY DEF TaskChain, Rest, Calling, Waits, Openers, Scans, TxReady, TxGoes, TxEnds, BothReady, BothGo, BothEnd, RxReady, RxGoes, RxDecodes,
         TxAt, RxAt

LEMMA WhoseRxPrepare ==
  ASSUME NEW S, TaskChain(S), <<0, "rx_prepare">> \in S, <<0, "tx_finalize">> \notin S
  PROVE  RxReady(S, 0)
  BY DEF TaskChain, Rest, Calling, Waits, Openers, Scans, TxReady, TxGoes, TxEnds, BothReady, BothGo, BothEnd, RxReady, RxGoes, RxDecodes,
         TxAt, RxAt

LEMMA WhoseRxExecute ==
  ASSUME NEW S, TaskChain(S), <<0, "rx_execute">> \in S
  PROVE  RxGoes(S, 0)
  BY DEF TaskChain, Rest, Calling, Waits, Openers, Scans, TxReady, TxGoes, TxEnds, BothReady, BothGo, BothEnd, RxReady, RxGoes, RxDecodes,
         TxAt, RxAt

LEMMA WhoseDecode ==
  ASSUME NEW S, TaskChain(S), <<0, "rx_decode">> \in S
  PROVE  RxDecodes(S, 0)
  BY DEF TaskChain, Rest, Calling, Waits, Openers, Scans, TxReady, TxGoes, TxEnds, BothReady, BothGo, BothEnd, RxReady, RxGoes, RxDecodes,
         TxAt, RxAt

LEMMA WhoseWait ==
  ASSUME NEW S, TaskChain(S), <<0, "scan_wait_more">> \in S
  PROVE  Scans(S, 0)
  BY DEF TaskChain, Rest, Calling, Waits, Openers, Scans, TxReady, TxGoes, TxEnds, BothReady, BothGo, BothEnd, RxReady, RxGoes, RxDecodes,
         TxAt, RxAt

LEMMA WhoseStart ==
  ASSUME NEW S, TaskChain(S), NEW x \in Openers, <<0, x>> \in S
  PROVE  Waits(S, x, 0)
  BY DEF TaskChain, Rest, Calling, Waits, Openers, Scans, TxReady, TxGoes, TxEnds, BothReady, BothGo, BothEnd, RxReady, RxGoes, RxDecodes,
         TxAt, RxAt

LEMMA WhoseCall ==
  ASSUME NEW S, TaskChain(S), call # "none"
  PROVE  Calling(S)
  BY DEF TaskChain, Rest, Calling, Waits, Openers, Scans, TxReady, TxGoes, TxEnds, BothReady, BothGo, BothEnd, RxReady, RxGoes, RxDecodes

Core == Fields /\ ChainInv /\ died \subseteq {"Invalid state transition"}

LEMMA ItemTaken ==
  ASSUME ChainInv, NEW cb, Item(cb)
  PROVE  \E S : /\ TaskChain(S) /\ <<0, cb>> \in S /\ Holds(agenda, tick', S \ {<<0, cb>>})
                /\ \A y : <<0, y>> \in S => Prio(cb) <= Prio(y)
                /\ cb \notin Prepares => Len(agenda[0]) <= 2
<1>1. PICK S : Holds(agenda, tick, S) /\ TaskChain(S)
  BY ChainIs
<1>2. tick \in 1 .. Len(agenda[0]) /\ agenda[0][tick] = cb /\ tick' = tick + 1
  BY DEF Item
<1>. QED  BY <1>1, <1>2, ItemRuns

LEMMA ItemTime ==
  ASSUME ChainInv, NEW cb, Item(cb)
  PROVE  tick \in Nat /\ tick > 0 /\ tick' \in Nat /\ tick' > 0
<1>1. tick \in Nat
  BY Buckets DEF ChainInv
<1>. QED  BY <1>1 DEF Item

LEMMA Times ==
  ASSUME Fields
  PROVE  TxSlot \in {1, 3} /\ Now \in 0 .. 4 /\ Budget \in Int /\ Wait \in {0, 1}
  BY Arithmetic DEF TxSlot, MasterTx, SlaveTx, Now, Fields, Budget, Wait

(* A task that keeps the state and the mode keeps whom e works for and how  *)
(* long there is for e.                                                     *)
LEMMA TaskFrame ==
  ASSUME Core, NEW cb, Run(cb), UNCHANGED <<state, died>>
  PROVE  /\ Wait = 0 /\ Wait' = 0 /\ Budget' = Budget /\ Budget \in Int
         /\ TxSlot' = TxSlot /\ TxSlot \in {1, 3} /\ Now = clkn /\ Now' = clkn' /\ clkn \in 0 .. 3
         /\ died = {} /\ died' = {} /\ call = "none"
         /\ \A c : For(c) => For(c)'
         /\ tick' > 0
         /\ UNCHANGED <<mode, expired, eir, drain, rxq, session>>
<1>1. /\ Item(cb) /\ died = {} /\ call = "none" /\ UNCHANGED <<mode, expired, eir, drain, rxq, session>>
  BY DEF Run, Item, Operating, ctlHost
<1>2. tick \in Nat /\ tick > 0 /\ tick' \in Nat /\ tick' > 0
  BY <1>1, ItemTime DEF Core
<1>3. Wait = 0 /\ Wait' = 0 /\ Now = clkn /\ Now' = clkn'
  BY <1>2 DEF Wait, Now
<1>4. Budget' = Budget /\ TxSlot' = TxSlot
  BY <1>1 DEF Budget, TxSlot
<1>5. \A c : For(c) => For(c)'
  BY <1>1 DEF For
<1>6. Budget \in Int /\ TxSlot \in {1, 3} /\ clkn \in 0 .. 3
  BY Times DEF Core, Fields
<1>. QED  BY <1>1, <1>2, <1>3, <1>4, <1>5, <1>6

LEMMA TxPrepareStep ==
  ASSUME Core, tx_prepare
  PROVE  Core'
<1>1. /\ Run("tx_prepare") /\ Item("tx_prepare") /\ radio' = "tx"
      /\ UNCHANGED <<state, txq, died, call, clkn, tx, rx, pkt, scan>>
  BY DEF tx_prepare, Run
<1>2. PICK S : TaskChain(S) /\ <<0, "tx_prepare">> \in S /\ Holds(agenda, tick', S \ {<<0, "tx_prepare">>})
  BY <1>1, ItemTaken DEF Core
<1>3. PICK n \in SlotsOf(tx) : agenda' = tdma_schedule(agenda, 2 * n, "tx_finalize")
  BY DEF tx_prepare
<1>4. n \in {1, 3, 5} /\ 2 * n <= Lasts(tx.cb)
  BY <1>3, Arithmetic DEF SlotsOf, Lasts, Long
<1>5. 2 * n \in Frames /\ 2 * n # 0 /\ 2 * n # 1
  BY <1>4, FramesNear
<1>6. /\ Wait = 0 /\ Wait' = 0 /\ Budget' = Budget /\ Budget \in Int
      /\ TxSlot' = TxSlot /\ TxSlot \in {1, 3} /\ Now' = Now /\ Now \in 0 .. 4
      /\ died = {} /\ died' = {} /\ call = "none" /\ UNCHANGED <<mode, expired, eir, drain, rxq, session>>
  BY <1>1, TaskFrame
<1>7. \A c : For(c) => For(c)'
  BY <1>1, TaskFrame
<1>8. Fields' /\ died' \subseteq {"Invalid state transition"}
  BY <1>1, <1>6 DEF Core, Fields
<1>9. CASE TxReady(S, 0)
  <2>. DEFINE Q == {<<1, "tx_execute">>, <<2 * n, "tx_finalize">>}
  <2>1. S \ {<<0, "tx_prepare">>} = {<<1, "tx_execute">>}
    BY <1>9 DEF TxReady, TxAt
  <2>2. Holds(agenda', tick', {<<1, "tx_execute">>} \cup {<<2 * n, "tx_finalize">>})
    BY <1>2, <1>3, <1>5, <2>1, ItemAdded DEF Items
  <2>3. {<<1, "tx_execute">>} \cup {<<2 * n, "tx_finalize">>} = Q
    OBVIOUS
  <2>4. On(1, TxSlot + 1)'
    <3>1. At(Now, 0, TxSlot)
      BY <1>9 DEF TxReady, On
    <3>2. At(Now, 0 + 1, TxSlot + 1)
      BY <1>6, <3>1, AtFacts
    <3>. QED  BY <1>6, <3>2 DEF On
  <2>5. Soon(2 * n + Then(tx.cb))'
    <3>1. 0 + Lasts(tx.cb) + Then(tx.cb) + 0 <= Budget
      BY <1>6, <1>9 DEF TxReady, Soon, Operating
    <3>2. Lasts(tx.cb) \in Nat /\ Then(tx.cb) \in Nat
      BY Durations
    <3>3. 2 * n + Then(tx.cb) + 0 <= Budget
      BY <1>4, <1>6, <3>1, <3>2
    <3>4. Then(tx'.cb) = Then(tx.cb)
      BY <1>1
    <3>. QED  BY <1>6, <3>3, <3>4 DEF Soon
  <2>6. For(tx.cb)'
    BY <1>1, <1>7, <1>9 DEF TxReady
  <2>7. TxGoes(Q, 1, 2 * n)'
    <3>1. 2 * n - 1 \in {1, 5, 9}
      BY <1>4
    <3>. QED  BY <1>1, <1>6, <1>9, <2>4, <2>5, <2>6, <3>1 DEF TxReady, TxGoes
  <2>8. TaskChain(Q)'
    BY <1>4, <2>7 DEF TaskChain
  <2>. QED  BY <1>8, <2>2, <2>3, <2>8, ChainNext DEF Core
<1>10. CASE BothReady(S, 0)
  <2>. DEFINE Q == {<<1, "tx_execute">>, <<2, "tx_finalize">>} \cup RxAt(2)
              R == {<<1, "tx_execute">>} \cup RxAt(2)
  <2>1. n = 1
    BY <1>3, <1>10 DEF BothReady, SlotsOf
  <2>2. S \ {<<0, "tx_prepare">>} = R
    BY <1>10 DEF BothReady, TxAt, RxAt
  <2>3. Holds(agenda', tick', R \cup {<<2, "tx_finalize">>})
    <3>1. 2 \in Frames /\ "tx_finalize" \in Items /\ <<2, "tx_finalize">> \notin R
      BY FramesNear DEF Items, RxAt
    <3>2. \A x, z : <<2, x>> \in R /\ <<2, z>> \in R => x = z
      BY DEF RxAt
    <3>3. Holds(agenda, tick', R) /\ agenda' = tdma_schedule(agenda, 2, "tx_finalize")
      BY <1>2, <1>3, <2>1, <2>2
    <3>. HIDE DEF R
    <3>. QED  BY <3>1, <3>2, <3>3, ItemAdded
  <2>4. R \cup {<<2, "tx_finalize">>} = Q
    OBVIOUS
  <2>5. On(1, TxSlot + 1)'
    <3>1. At(Now, 0, TxSlot)
      BY <1>10 DEF BothReady, On
    <3>2. At(Now, 0 + 1, TxSlot + 1)
      BY <1>6, <3>1, AtFacts
    <3>. QED  BY <1>6, <3>2 DEF On
  <2>6. Soon(1 + 1 + Air)'
    BY <1>6, <1>10, Arithmetic DEF BothReady, Soon, Operating
  <2>7. For(rx.cb)'
    BY <1>1, <1>7, <1>10 DEF BothReady
  <2>8. BothGo(Q, 1)'
    BY <1>1, <1>6, <1>10, <2>5, <2>6, <2>7 DEF BothReady, BothGo
  <2>9. TaskChain(Q)'
    BY <2>8 DEF TaskChain
  <2>. QED  BY <1>8, <2>3, <2>4, <2>9, ChainNext DEF Core
<1>. QED  BY <1>2, <1>9, <1>10, WhosePrepare

LEMMA TxExecuteStep ==
  ASSUME Core, tx_execute
  PROVE  Core'
<1>1. /\ Run("tx_execute") /\ Item("tx_execute") /\ agenda' = agenda
      /\ UNCHANGED <<state, txq, call, clkn, rx, pkt, scan>>
      /\ tx'.cb = tx.cb /\ tx' \in [cb : TxCallbacks, hdr : BOOLEAN] /\ radio' \in {"idle", "tx", "rx", "scan"}
      /\ clkn % 2 = 0 => UNCHANGED died
  <2>1. /\ Run("tx_execute") /\ Item("tx_execute") /\ agenda' = agenda /\ died = {}
        /\ UNCHANGED <<state, txq, call, clkn, rx, pkt, scan>>
        /\ \/ died' = (IF clkn % 2 = 1 THEN {"txe: wrong clkn"} ELSE {}) /\ UNCHANGED <<tx, radio>>
           \/ tx' = [tx EXCEPT !.hdr = FALSE] /\ radio' = "idle" /\ UNCHANGED died
    BY DEF tx_execute, Run, Item, Operating
  <2>2. tx \in [cb : TxCallbacks, hdr : BOOLEAN] /\ radio \in {"idle", "tx", "rx", "scan"}
    BY DEF Core, Fields
  <2>3. tx'.cb = tx.cb /\ tx' \in [cb : TxCallbacks, hdr : BOOLEAN]
    <3>1. CASE UNCHANGED tx
      BY <2>2, <3>1
    <3>2. CASE tx' = [tx EXCEPT !.hdr = FALSE]
      BY <2>2, <3>2
    <3>. QED  BY <2>1, <3>1, <3>2
  <2>4. radio' \in {"idle", "tx", "rx", "scan"}
    BY <2>1, <2>2
  <2>5. clkn % 2 = 0 => UNCHANGED died
    <3>1. clkn % 2 = 0 => clkn % 2 # 1
      OBVIOUS
    <3>2. clkn % 2 # 1 => (IF clkn % 2 = 1 THEN {"txe: wrong clkn"} ELSE {}) = {}
      BY Zenon
    <3>. QED  BY <2>1, <3>1, <3>2, Zenon
  <2>. QED  BY <2>1, <2>3, <2>4, <2>5
<1>2. PICK S : TaskChain(S) /\ <<0, "tx_execute">> \in S /\ Holds(agenda, tick', S \ {<<0, "tx_execute">>})
  BY <1>1, ItemTaken DEF Core
<1>3. tick \in Nat /\ tick > 0 /\ Now = clkn /\ clkn \in 0 .. 3 /\ TxSlot \in {1, 3}
  <2>1. tick \in Nat /\ tick > 0
    BY <1>1, ItemTime DEF Core
  <2>2. clkn \in 0 .. 3 /\ TxSlot \in {1, 3}
    BY Times DEF Core, Fields
  <2>. QED  BY <2>1, <2>2 DEF Now
<1>4. TxGoes(S, 0, 1) \/ TxGoes(S, 0, 5) \/ TxGoes(S, 0, 9) \/ BothGo(S, 0)
  BY <1>2, WhoseExecute
<1>5. At(Now, 0, TxSlot + 1)
  BY <1>4 DEF TxGoes, BothGo, On
<1>6. At(Now, 1, TxSlot + 2) /\ At(Now, 5, TxSlot + 2) /\ At(Now, 9, TxSlot + 2) /\ UNCHANGED died
  BY <1>1, <1>3, <1>5, AtEnd
<1>7. /\ Wait = 0 /\ Wait' = 0 /\ Budget' = Budget /\ Budget \in Int
      /\ TxSlot' = TxSlot /\ Now' = Now
      /\ died = {} /\ died' = {} /\ call = "none" /\ UNCHANGED <<mode, expired, eir, drain, rxq, session>>
  BY <1>1, <1>6, TaskFrame
<1>8. \A c : For(c) => For(c)'
  BY <1>1, <1>6, TaskFrame
<1>9. Fields' /\ died' \subseteq {"Invalid state transition"}
  BY <1>1, <1>7 DEF Core, Fields
<1>10. ASSUME NEW f \in {1, 5, 9}, TxGoes(S, 0, f)
       PROVE  Core'
  <2>1. S \ {<<0, "tx_execute">>} = {<<f, "tx_finalize">>}
    BY <1>10 DEF TxGoes
  <2>2. Holds(agenda', tick', {<<f, "tx_finalize">>})
    BY <1>1, <1>2, <2>1
  <2>3. On(f, TxSlot + 2)'
    BY <1>6, <1>7 DEF On
  <2>4. Soon(f + Then(tx.cb))'
    <3>1. f + Then(tx.cb) + 0 <= Budget
      BY <1>7, <1>10 DEF TxGoes, Soon, Operating
    <3>2. Then(tx'.cb) = Then(tx.cb)
      BY <1>1
    <3>. QED  BY <1>7, <3>1, <3>2 DEF Soon
  <2>5. For(tx.cb)' /\ ~rx'.msg
    BY <1>1, <1>8, <1>10 DEF TxGoes
  <2>6. TxEnds({<<f, "tx_finalize">>}, f)'
    BY <1>1, <1>7, <2>3, <2>4, <2>5 DEF TxEnds
  <2>7. TaskChain({<<f, "tx_finalize">>})'
    BY <2>6 DEF TaskChain
  <2>. QED  BY <1>9, <2>2, <2>7, ChainNext DEF Core
<1>11. CASE BothGo(S, 0)
  <2>. DEFINE Q == {<<1, "tx_finalize">>} \cup RxAt(1)
  <2>1. S \ {<<0, "tx_execute">>} = Q
    BY <1>11 DEF BothGo, RxAt
  <2>2. Holds(agenda', tick', Q)
    BY <1>1, <1>2, <2>1
  <2>3. Soon(1 + Air)'
    BY <1>7, <1>11, Arithmetic DEF BothGo, Soon, Operating
  <2>4. For(rx.cb)' /\ ~rx'.msg /\ tx'.cb = "none"
    BY <1>1, <1>8, <1>11 DEF BothGo
  <2>5. BothEnd(Q, 1)'
    BY <1>1, <1>7, <2>3, <2>4 DEF BothEnd
  <2>6. TaskChain(Q)'
    BY <2>5 DEF TaskChain
  <2>. QED  BY <1>9, <2>2, <2>6, ChainNext DEF Core
<1>. QED  BY <1>4, <1>10, <1>11

LEMMA TxFinalizeStep ==
  ASSUME Core, tx_finalize
  PROVE  Core'
<1>1. /\ Run("tx_finalize") /\ Item("tx_finalize") /\ radio' = "idle" /\ tx' = NoTx /\ call' = tx.cb
      /\ UNCHANGED <<state, txq, died, agenda, clkn, rx, pkt, scan>>
  BY DEF tx_finalize, Run
<1>2. PICK S : /\ TaskChain(S) /\ <<0, "tx_finalize">> \in S /\ Holds(agenda, tick', S \ {<<0, "tx_finalize">>})
               /\ Len(agenda[0]) <= 2
  <2>1. "tx_finalize" \notin Prepares /\ ChainInv
    BY DEF Core, Prepares
  <2>. QED  BY <1>1, <2>1, ItemTaken
<1>3. /\ Wait = 0 /\ Wait' = 0 /\ Budget' = Budget /\ Budget \in Int
      /\ TxSlot' = TxSlot /\ Now' = Now /\ tick' > 0
      /\ died = {} /\ died' = {} /\ call = "none" /\ UNCHANGED <<mode, expired, eir, drain, rxq, session>>
  BY <1>1, TaskFrame
<1>4. \A c : For(c) => For(c)'
  BY <1>1, TaskFrame
<1>5. Fields' /\ died' \subseteq {"Invalid state transition"} /\ ~tx'.hdr
  BY <1>1, <1>3 DEF Core, Fields, NoTx, TxCallbacks
<1>6. CASE TxEnds(S, 0)
  <2>1. S \ {<<0, "tx_finalize">>} = {}
    BY <1>6 DEF TxEnds
  <2>2. Holds(agenda', tick', {})
    BY <1>1, <1>2, <2>1
  <2>3. On(0, TxSlot + 2)'
    BY <1>3, <1>6 DEF TxEnds, On
  <2>4. Soon(Then(call))'
    <3>1. 0 + Then(tx.cb) + 0 <= Budget /\ Then(tx.cb) \in Nat
      BY <1>3, <1>6, Durations DEF TxEnds, Soon, Operating
    <3>2. Then(call') = Then(tx.cb)
      BY <1>1
    <3>. QED  BY <1>3, <3>1, <3>2 DEF Soon
  <2>5. For(call)' /\ call' # "none" /\ ~rx'.msg
    BY <1>1, <1>4, <1>6 DEF TxEnds, For
  <2>6. Calling({})'
    BY <1>1, <1>2, <1>3, <1>5, <2>3, <2>4, <2>5 DEF Calling
  <2>7. TaskChain({})'
    BY <2>6 DEF TaskChain
  <2>. QED  BY <1>5, <2>2, <2>7, ChainNext DEF Core
<1>7. CASE BothEnd(S, 0)
  <2>1. S \ {<<0, "tx_finalize">>} = RxAt(0)
    BY <1>7 DEF BothEnd, RxAt
  <2>2. Holds(agenda', tick', RxAt(0))
    BY <1>1, <1>2, <2>1
  <2>3. Soon(0 + Air)'
    BY <1>3, <1>7, Arithmetic DEF BothEnd, Soon, Operating
  <2>4. For(rx.cb)' /\ ~rx'.msg /\ call' = "none"
    BY <1>1, <1>4, <1>7 DEF BothEnd
  <2>5. RxReady(RxAt(0), 0)'
    BY <1>1, <1>5, <2>3, <2>4 DEF RxReady
  <2>6. TaskChain(RxAt(0))'
    BY <2>5 DEF TaskChain
  <2>. QED  BY <1>5, <2>2, <2>6, ChainNext DEF Core
<1>. QED  BY <1>2, <1>6, <1>7, WhoseFinalize

(* The receiver is set up for a slot only after the transmitter of the slot  *)
(* before has come to its end: their items share a bucket, and the sort puts *)
(* tx_finalize first.                                                        *)
LEMMA RxPrepareStep ==
  ASSUME Core, rx_prepare
  PROVE  Core'
<1>1. /\ Run("rx_prepare") /\ Item("rx_prepare") /\ radio' = "rx" /\ rx' = [rx EXCEPT !.msg = TRUE]
      /\ UNCHANGED <<state, txq, died, agenda, call, clkn, tx, pkt, scan>>
  BY DEF rx_prepare, Run
<1>2. PICK S : /\ TaskChain(S) /\ <<0, "rx_prepare">> \in S /\ Holds(agenda, tick', S \ {<<0, "rx_prepare">>})
               /\ \A y : <<0, y>> \in S => Prio("rx_prepare") <= Prio(y)
  BY <1>1, ItemTaken DEF Core
<1>3. /\ Wait = 0 /\ Wait' = 0 /\ Budget' = Budget /\ Budget \in Int
      /\ died = {} /\ died' = {} /\ call = "none" /\ UNCHANGED <<mode, expired, eir, drain, rxq, session>>
  BY <1>1, TaskFrame
<1>4. \A c : For(c) => For(c)'
  BY <1>1, TaskFrame
<1>5. rx'.cb = rx.cb /\ rx'.msg /\ Fields' /\ died' \subseteq {"Invalid state transition"}
  BY <1>1, <1>3 DEF Core, Fields
<1>6. <<0, "tx_finalize">> \notin S
  BY <1>2 DEF Prio
<1>7. RxReady(S, 0)
  BY <1>2, <1>6, WhoseRxPrepare
<1>. DEFINE Q == {<<1, "rx_execute">>}
<1>8. S \ {<<0, "rx_prepare">>} = Q
  BY <1>7 DEF RxReady, RxAt
<1>9. Soon(1 + Air - 1)'
  BY <1>3, <1>7, Arithmetic DEF RxReady, Soon, Operating
<1>10. For(rx.cb)' /\ ~tx'.hdr
  BY <1>1, <1>4, <1>5, <1>7 DEF RxReady, For
<1>11. RxGoes(Q, 1)'
  BY <1>1, <1>3, <1>5, <1>9, <1>10 DEF RxGoes
<1>12. TaskChain(Q)'
  BY <1>11 DEF TaskChain
<1>. QED  BY <1>1, <1>2, <1>5, <1>8, <1>12, ChainNext DEF Core

(* The receive task and the scan task end in the callback of the one that    *)
(* waits for the packet.                                                     *)
LEMMA CallsBack ==
  ASSUME Fields, Holds(agenda', tick', {}), call' # "none", ~tx'.hdr, ~rx'.msg, radio' = "idle",
         tick' > 0, Len(agenda'[0]) <= 2, For(call)', Soon(0)',
         call' \in RxCallbacks \cup ScanCallbacks
  PROVE  ChainInv'
<1>1. Soon(Then(call))'
  <2>1. Then(call') = 0
    BY Durations
  <2>. QED  BY <2>1 DEF Soon
<1>2. call' \notin {"master_tx_done", "slave_tx_done"}
  BY DEF RxCallbacks, ScanCallbacks
<1>3. Calling({})'
  BY <1>1, <1>2 DEF Calling
<1>4. TaskChain({})'
  BY <1>3 DEF TaskChain
<1>. QED  BY <1>4, ChainNext

LEMMA RxFinalizes ==
  ASSUME Core, NEW cb, Run(cb), rx_finalize, UNCHANGED <<state, txq, clkn, tx, scan, agenda>>, pkt' \in PktKinds,
         NEW S, S = {<<0, cb>>}, Holds(agenda, tick', S \ {<<0, cb>>}), Len(agenda[0]) <= 2,
         rx.msg, ~tx.hdr, For(rx.cb), Soon(0)
  PROVE  Core'
<1>1. radio' = "idle" /\ died' = {} /\ rx' = NoRx /\ call' = rx.cb
  BY DEF rx_finalize
<1>2. died = {} /\ Item(cb)
  BY DEF Run, Item, Operating
<1>3. /\ Wait = 0 /\ Wait' = 0 /\ Budget' = Budget /\ Budget \in Int
      /\ tick' > 0 /\ UNCHANGED <<mode, expired, eir, drain, rxq, session>>
  BY <1>1, <1>2, TaskFrame
<1>4. For(call)' /\ call' # "none"
  <2>1. For(rx.cb) /\ UNCHANGED <<state, mode>> /\ call' = rx.cb
    BY <1>1 DEF Run
  <2>. QED  BY <2>1 DEF For
<1>5. call' \in RxCallbacks
  BY <1>1 DEF Core, Fields
<1>6. Soon(0)'
  BY <1>2, <1>3 DEF Soon, Operating
<1>7. ~rx'.msg /\ rx' \in [cb : RxCallbacks, msg : BOOLEAN, left : 0 .. 9]
  BY <1>1 DEF NoRx, RxCallbacks
<1>8. Fields' /\ died' \subseteq {"Invalid state transition"}
  BY <1>1, <1>3, <1>5, <1>7 DEF Core, Fields
<1>9. Holds(agenda', tick', {})
  <2>1. S \ {<<0, cb>>} = {}
    OBVIOUS
  <2>. QED  BY <2>1
<1>10. ChainInv'
  BY <1>1, <1>3, <1>4, <1>5, <1>6, <1>7, <1>8, <1>9, CallsBack DEF Core
<1>. QED  BY <1>8, <1>10 DEF Core

LEMMA Decodes ==
  ASSUME Core, NEW cb, Run(cb), UNCHANGED <<state, txq, clkn, tx, scan, died, call, radio>>, pkt' \in PktKinds,
         NEW S, S = {<<0, cb>>}, Holds(agenda, tick', S \ {<<0, cb>>}),
         rx.msg, ~tx.hdr, For(rx.cb), radio = "rx",
         NEW m \in 1 .. Air - 1, rx' = [rx EXCEPT !.left = m], Soon(m),
         agenda' = tdma_schedule(agenda, 1, "rx_decode")
  PROVE  Core'
<1>. DEFINE Q == {<<1, "rx_decode">>}
<1>1. Holds(agenda', tick', Q)
  <2>1. S \ {<<0, cb>>} = {}
    OBVIOUS
  <2>2. 1 \in 0 .. 10 /\ "rx_decode" \in Items
    BY DEF Items
  <2>3. Holds(tdma_schedule(agenda, 1, "rx_decode"), tick', {<<1, "rx_decode">>})
    <3>1. Holds(agenda, tick', {})
      BY <2>1
    <3>. QED  BY <2>2, <3>1, OneScheduled
  <2>. QED  BY <2>3
<1>2. /\ Wait = 0 /\ Wait' = 0 /\ Budget' = Budget /\ Budget \in Int
      /\ died = {} /\ died' = {} /\ call = "none" /\ UNCHANGED <<mode, expired, eir, drain, rxq, session>>
  BY TaskFrame
<1>3. /\ m \in 0 .. 9 /\ rx \in [cb : RxCallbacks, msg : BOOLEAN, left : 0 .. 9]
  <2>1. m \in 0 .. 9
    BY Arithmetic
  <2>. QED  BY <2>1 DEF Core, Fields
<1>4. rx' \in [cb : RxCallbacks, msg : BOOLEAN, left : 0 .. 9] /\ rx'.left = m /\ rx'.cb = rx.cb
  BY <1>3
<1>5. rx'.msg
  BY <1>3
<1>6. Fields' /\ died' \subseteq {"Invalid state transition"}
  BY <1>2, <1>4 DEF Core, Fields
<1>7. Soon(1 + rx.left - 1)'
  <2>1. m + 0 <= Budget
    BY <1>2 DEF Soon, Operating
  <2>. QED  BY <1>2, <1>4, <2>1 DEF Soon
<1>8. For(rx.cb)'
  BY <1>2, <1>4 DEF For
<1>9. RxDecodes(Q, 1)'
  BY <1>2, <1>4, <1>5, <1>7, <1>8 DEF RxDecodes
<1>10. TaskChain(Q)'
  BY <1>9 DEF TaskChain
<1>. QED  BY <1>1, <1>6, <1>10, ChainNext DEF Core

LEMMA RxExecuteStep ==
  ASSUME Core, rx_execute
  PROVE  Core'
<1>1. Run("rx_execute") /\ Item("rx_execute") /\ UNCHANGED <<state, txq, clkn, tx, scan>>
  BY DEF rx_execute, Run
<1>2. PICK S : /\ TaskChain(S) /\ <<0, "rx_execute">> \in S /\ Holds(agenda, tick', S \ {<<0, "rx_execute">>})
               /\ Len(agenda[0]) <= 2
  <2>1. "rx_execute" \notin Prepares /\ ChainInv
    BY DEF Core, Prepares
  <2>. QED  BY <1>1, <2>1, ItemTaken
<1>3. RxGoes(S, 0)
  BY <1>2, WhoseRxExecute
<1>4. S = {<<0, "rx_execute">>} /\ ~tx.hdr /\ rx.msg /\ radio = "rx" /\ For(rx.cb) /\ Soon(0 + Air - 1)
  BY <1>3 DEF RxGoes
<1>5. tick > 0 /\ tick \in Nat /\ died = {} /\ Budget \in Int /\ Wait = 0
  BY <1>1, ItemTime, Times DEF Core, Item, Operating, Wait
<1>6. \A m \in 0 .. Air - 1 : Soon(m)
  BY <1>4, <1>5, Arithmetic DEF Soon, Operating
<1>7. CASE rx_finalize /\ UNCHANGED agenda /\ pkt' \in (IF IdOnly THEN {"none", "id"} ELSE PktKinds \ {"fhs"})
  <2>1. Soon(0)
    BY <1>6, Arithmetic
  <2>2. pkt' \in PktKinds
    BY <1>7 DEF PktKinds
  <2>. QED  BY <1>1, <1>2, <1>4, <1>7, <2>1, <2>2, RxFinalizes
<1>8. CASE /\ pkt' \in {"hdr", "acl", "fhs"}
           /\ \E nslots \in IF pkt' = "fhs" THEN {1} ELSE PacketSlots :
                 rx' = [rx EXCEPT !.left = 2 * nslots - 1]
           /\ agenda' = tdma_schedule(agenda, 1, "rx_decode")
           /\ UNCHANGED <<died, call, radio>>
  <2>1. PICK n \in (IF pkt' = "fhs" THEN {1} ELSE PacketSlots) : rx' = [rx EXCEPT !.left = 2 * n - 1]
    BY <1>8
  <2>2. n \in {1, 3, 5} /\ 2 * n <= Air
    BY <2>1, Arithmetic, BtctlAssumption
  <2>3. 2 * n - 1 \in 1 .. Air - 1 /\ 2 * n - 1 \in 0 .. Air - 1
    BY <2>2, Arithmetic
  <2>4. Soon(2 * n - 1)
    BY <1>6, <2>3
  <2>5. pkt' \in PktKinds
    BY <1>8 DEF PktKinds
  <2>. QED  BY <1>1, <1>2, <1>4, <1>8, <2>1, <2>3, <2>4, <2>5, Decodes
<1>. QED  BY <1>7, <1>8 DEF rx_execute

LEMMA RxDecodeStep ==
  ASSUME Core, rx_decode
  PROVE  Core'
<1>1. Run("rx_decode") /\ Item("rx_decode") /\ UNCHANGED <<state, txq, clkn, pkt, tx, scan>>
  BY DEF rx_decode, Run
<1>2. PICK S : /\ TaskChain(S) /\ <<0, "rx_decode">> \in S /\ Holds(agenda, tick', S \ {<<0, "rx_decode">>})
               /\ Len(agenda[0]) <= 2
  <2>1. "rx_decode" \notin Prepares /\ ChainInv
    BY DEF Core, Prepares
  <2>. QED  BY <1>1, <2>1, ItemTaken
<1>3. RxDecodes(S, 0)
  BY <1>2, WhoseDecode
<1>4. /\ S = {<<0, "rx_decode">>} /\ ~tx.hdr /\ rx.msg /\ radio = "rx" /\ For(rx.cb) /\ Soon(0 + rx.left - 1)
      /\ rx.left \in 1 .. Air - 1
  BY <1>3 DEF RxDecodes
<1>5. tick > 0 /\ tick \in Nat /\ died = {} /\ Budget \in Int /\ Wait = 0
  BY <1>1, ItemTime, Times DEF Core, Item, Operating, Wait
<1>6. Soon(0) /\ Soon(rx.left - 1) /\ pkt' \in PktKinds
  BY <1>1, <1>4, <1>5, Arithmetic DEF Soon, Operating, Core, Fields
<1>7. Air \in Int
  BY Arithmetic
<1>8. Len(agenda[0]) <= 2
  BY <1>2
<1>9. CASE rx_finalize /\ UNCHANGED agenda
  BY <1>1, <1>2, <1>4, <1>6, <1>8, <1>9, RxFinalizes
<1>10. CASE /\ rx.left > 1
            /\ rx' = [rx EXCEPT !.left = @ - 1]
            /\ agenda' = tdma_schedule(agenda, 1, "rx_decode")
            /\ UNCHANGED <<died, call, radio>>
  <2>1. rx.left - 1 \in 1 .. Air - 1
    BY <1>4, <1>7, <1>10
  <2>2. rx' = [rx EXCEPT !.left = rx.left - 1]
    BY <1>10
  <2>. QED  BY <1>1, <1>2, <1>4, <1>6, <1>10, <2>1, <2>2, Decodes
<1>. QED  BY <1>9, <1>10 DEF rx_decode

LEMMA ScanWaits ==
  ASSUME Core, NEW cb, Run(cb), NEW n \in 1 .. SCAN_MAX_SLOTS, scan_wait(n), UNCHANGED <<state, txq, died, tx, rx>>,
         NEW S, S = {<<0, cb>>}, Holds(agenda, tick', S \ {<<0, cb>>}), Len(agenda[0]) <= 2,
         ~rx.msg, ~tx.hdr, For(scan.cb), Soon(SCAN_MAX_SLOTS - n)
  PROVE  Core'
<1>1. /\ Wait = 0 /\ Wait' = 0 /\ Budget' = Budget /\ Budget \in Int /\ tick' > 0
      /\ died = {} /\ died' = {} /\ call = "none" /\ UNCHANGED <<mode, expired, eir, drain, rxq, session>>
  BY TaskFrame
<1>2. Holds(agenda, tick', {})
  <2>1. S \ {<<0, cb>>} = {}
    OBVIOUS
  <2>. QED  BY <2>1
<1>3. SCAN_MAX_SLOTS - n + 0 <= Budget /\ SCAN_MAX_SLOTS \in Nat
  BY <1>1, Arithmetic DEF Soon, Operating
<1>4. scan \in [cb : ScanCallbacks, slots : 0 .. SCAN_MAX_SLOTS] /\ scan.cb \in ScanCallbacks
  BY DEF Core, Fields
<1>5. CASE /\ pkt' \in {"none", "id"} /\ clkn' \in {0, clkn} /\ call' = scan.cb /\ radio' = "idle"
           /\ scan' = NoScan /\ UNCHANGED agenda
  <2>1. scan' \in [cb : ScanCallbacks, slots : 0 .. SCAN_MAX_SLOTS]
    BY <1>3, <1>5 DEF NoScan, ScanCallbacks
  <2>2. clkn' \in 0 .. 3 /\ pkt' \in PktKinds
    <3>1. clkn \in 0 .. 3
      BY DEF Core, Fields
    <3>. QED  BY <1>5, <3>1 DEF PktKinds
  <2>3. Fields' /\ died' \subseteq {"Invalid state transition"}
    BY <1>1, <1>4, <1>5, <2>1, <2>2 DEF Core, Fields
  <2>4. Soon(0)'
    BY <1>1, <1>3 DEF Soon, Operating
  <2>5. For(call)' /\ call' # "none" /\ call' \in ScanCallbacks
    BY <1>1, <1>4, <1>5 DEF For
  <2>6. ChainInv'
    BY <1>1, <1>2, <1>5, <2>3, <2>4, <2>5, CallsBack DEF Core
  <2>. QED  BY <2>3, <2>6 DEF Core
<1>6. CASE /\ pkt' = "none" /\ n # SCAN_MAX_SLOTS
           /\ agenda' = tdma_schedule(agenda, 1, "scan_wait_more")
           /\ scan' = [scan EXCEPT !.slots = n]
           /\ radio' = "scan"
           /\ UNCHANGED <<call, clkn>>
  <2>. DEFINE Q == {<<1, "scan_wait_more">>}
  <2>1. n \in 1 .. SCAN_MAX_SLOTS - 1 /\ n \in 0 .. SCAN_MAX_SLOTS
    BY <1>3, <1>6
  <2>2. scan' \in [cb : ScanCallbacks, slots : 0 .. SCAN_MAX_SLOTS] /\ scan'.slots = n /\ scan'.cb = scan.cb
    BY <1>4, <1>6, <2>1
  <2>3. Fields' /\ died' \subseteq {"Invalid state transition"}
    BY <1>1, <1>6, <2>2 DEF Core, Fields, PktKinds
  <2>4. Holds(agenda', tick', Q)
    <3>1. 1 \in 0 .. 10 /\ "scan_wait_more" \in Items
      BY DEF Items
    <3>2. Holds(tdma_schedule(agenda, 1, "scan_wait_more"), tick', {<<1, "scan_wait_more">>})
      BY <1>2, <3>1, OneScheduled
    <3>. QED  BY <1>6, <3>2
  <2>5. Soon(1 + SCAN_MAX_SLOTS - scan.slots - 1)'
    <3>1. 1 + SCAN_MAX_SLOTS - n - 1 + 0 <= Budget
      BY <1>1, <1>3
    <3>. QED  BY <1>1, <2>2, <3>1 DEF Soon
  <2>6. For(scan.cb)'
    BY <1>1, <2>2 DEF For
  <2>7. Scans(Q, 1)'
    BY <1>1, <1>6, <2>1, <2>2, <2>5, <2>6 DEF Scans
  <2>8. TaskChain(Q)'
    BY <2>7 DEF TaskChain
  <2>. QED  BY <2>3, <2>4, <2>8, ChainNext DEF Core
<1>. QED  BY <1>5, <1>6 DEF scan_wait

LEMMA ScanStartStep ==
  ASSUME Core, scan_start
  PROVE  Core'
<1>1. Run("scan_start") /\ Item("scan_start") /\ scan_wait(1) /\ UNCHANGED <<state, txq, died, tx, rx>>
  BY DEF scan_start, Run
<1>2. PICK S : /\ TaskChain(S) /\ <<0, "scan_start">> \in S /\ Holds(agenda, tick', S \ {<<0, "scan_start">>})
               /\ Len(agenda[0]) <= 2
  <2>1. "scan_start" \notin Prepares /\ ChainInv
    BY DEF Core, Prepares
  <2>. QED  BY <1>1, <2>1, ItemTaken
<1>3. Waits(S, "scan_start", 0)
  BY <1>2, WhoseStart DEF Openers
<1>4. S = {<<0, "scan_start">>} /\ ~tx.hdr /\ ~rx.msg /\ For(scan.cb)
  BY <1>3 DEF Waits
<1>5. Soon(SCAN_MAX_SLOTS - 1) /\ 1 \in 1 .. SCAN_MAX_SLOTS
  BY <1>3, Arithmetic DEF Waits, Soon, Opens
<1>. QED  BY <1>1, <1>2, <1>4, <1>5, ScanWaits

LEMMA ScanWaitMoreStep ==
  ASSUME Core, scan_wait_more
  PROVE  Core'
<1>1. Run("scan_wait_more") /\ Item("scan_wait_more") /\ scan_wait(scan.slots + 1) /\ UNCHANGED <<state, txq, died, tx, rx>>
  BY DEF scan_wait_more, Run
<1>2. PICK S : /\ TaskChain(S) /\ <<0, "scan_wait_more">> \in S /\ Holds(agenda, tick', S \ {<<0, "scan_wait_more">>})
               /\ Len(agenda[0]) <= 2
  <2>1. "scan_wait_more" \notin Prepares /\ ChainInv
    BY DEF Core, Prepares
  <2>. QED  BY <1>1, <2>1, ItemTaken
<1>3. Scans(S, 0)
  BY <1>2, WhoseWait
<1>4. S = {<<0, "scan_wait_more">>} /\ ~tx.hdr /\ ~rx.msg /\ For(scan.cb) /\ scan.slots \in 1 .. SCAN_MAX_SLOTS - 1
  BY <1>3 DEF Scans
<1>5. Soon(SCAN_MAX_SLOTS - (scan.slots + 1)) /\ scan.slots + 1 \in 1 .. SCAN_MAX_SLOTS
  <2>1. 0 + SCAN_MAX_SLOTS - scan.slots - 1 = SCAN_MAX_SLOTS - (scan.slots + 1)
    BY <1>4, Arithmetic
  <2>2. Soon(0 + SCAN_MAX_SLOTS - scan.slots - 1)
    BY <1>3 DEF Scans
  <2>3. scan.slots + 1 \in 1 .. SCAN_MAX_SLOTS
    BY <1>4, Arithmetic
  <2>. QED  BY <2>1, <2>2, <2>3
<1>. QED  BY <1>1, <1>2, <1>4, <1>5, ScanWaits

(* The first tick of a search, and of the second half of a monitor.          *)
LEMMA StartSyncStep ==
  ASSUME Core, NEW x, NEW y, start_sync(x, y),
         <<x, y>> \in {<<"inquiry_start_sync", "inquiry_rx_cb">>, <<"paging_start_sync", "paging_rx_cb">>}
  PROVE  Core'
<1>1. /\ Item(x) /\ clkn' \in 0 .. 3 /\ expired' = FALSE
      /\ UNCHANGED <<state, txq, mode, call, pkt, radio, scan>>
      /\ died' = TxBusy \cup RxBusy
      /\ tx' = [cb |-> "none", hdr |-> FALSE] /\ rx' = [rx EXCEPT !.cb = y]
      /\ agenda' = RxSet(TxSet(agenda, 4 + Until(MasterTx, clkn')), 4 + Until(MasterTx, clkn') + 2)
  BY DEF start_sync, ScheduleTxRx, tx_task, rx_task
<1>2. x \in Openers /\ x \notin Prepares /\ y \in RxCallbacks /\ Then(x) = 0 /\ x # "scan_start" /\ Opens(x) = 9 + Air
  BY DEF Openers, Prepares, RxCallbacks, Then, Opens
<1>3. Serves(x) = Serves(y) /\ x \in OfMasters /\ y \in OfMasters /\ y # "none"
  BY DEF Serves, OfMasters
<1>4. PICK S : /\ TaskChain(S) /\ <<0, x>> \in S /\ Holds(agenda, tick', S \ {<<0, x>>})
  BY <1>1, ItemTaken DEF Core
<1>5. Waits(S, x, 0)
  BY <1>2, <1>4, WhoseStart
<1>6. S = {<<0, x>>} /\ ~tx.hdr /\ ~rx.msg /\ radio = "idle" /\ Soon(0 + (9 + Air)) /\ For(x) /\ call = "none"
  BY <1>2, <1>5 DEF Waits
<1>7. /\ died = {} /\ tick \in Nat /\ tick > 0 /\ tick' > 0 /\ Wait = 0 /\ Wait' = 0 /\ Now' = clkn'
      /\ UNCHANGED <<eir, drain, rxq, session>>
  <2>1. tick \in Nat /\ tick > 0 /\ tick' \in Nat /\ tick' > 0
    BY <1>1, ItemTime DEF Core
  <2>. QED  BY <1>1, <2>1 DEF Item, Operating, Wait, Now, ctlHost
<1>8. Budget' = Budget /\ Budget \in Int
  <2>1. Budget \in Int
    BY Times DEF Core
  <2>. QED  BY <1>1, <1>7, <2>1 DEF Budget
<1>9. PICK d \in 4 .. 7 : d = 4 + Until(MasterTx, clkn') /\ At(clkn', d, MasterTx)
  BY <1>1, UntilFacts DEF MasterTx
<1>10. agenda' = RxSet(TxSet(agenda, d), d + 2)
  BY <1>1, <1>9
<1>11. TxSlot' = MasterTx /\ mode \in Masters
  BY <1>1, <1>3, <1>6 DEF TxSlot, For
<1>12. died' = {}
  BY <1>1, <1>6 DEF TxBusy, RxBusy
<1>13. Holds(agenda', tick', TxAt(d) \cup RxAt(d + 2))
  <2>1. Holds(agenda, tick', {})
    <3>1. S \ {<<0, x>>} = {}
      BY <1>6
    <3>. QED  BY <1>4, <3>1
  <2>2. d \in 0 .. 7 /\ d # 0
    BY <1>9
  <2>. QED  BY <1>10, <2>1, <2>2, BothScheduled DEF Roomy
<1>14. rx' \in [cb : RxCallbacks, msg : BOOLEAN, left : 0 .. 9] /\ rx'.cb = y /\ rx'.msg = rx.msg
  <2>1. rx \in [cb : RxCallbacks, msg : BOOLEAN, left : 0 .. 9]
    BY DEF Core, Fields
  <2>. QED  BY <1>1, <1>2, <2>1
<1>15. tx' \in [cb : TxCallbacks, hdr : BOOLEAN] /\ tx'.cb = "none"
  BY <1>1 DEF TxCallbacks
<1>16. Fields' /\ died' \subseteq {"Invalid state transition"}
  BY <1>1, <1>7, <1>12, <1>14, <1>15 DEF Core, Fields
<1>17. On(d, TxSlot)'
  BY <1>7, <1>9, <1>11 DEF On
<1>18. Soon(d + 2 + Air)'
  <2>1. 0 + (9 + Air) + 0 <= Budget
    BY <1>6, <1>7 DEF Soon, Operating
  <2>2. d + 2 + Air + 0 <= Budget
    BY <1>8, <1>9, <2>1, Arithmetic
  <2>. QED  BY <1>7, <1>8, <2>2 DEF Soon
<1>19. For(rx.cb)'
  BY <1>1, <1>3, <1>6, <1>14 DEF For
<1>20. BothReady(TxAt(d) \cup RxAt(d + 2), d)'
  BY <1>1, <1>6, <1>14, <1>15, <1>17, <1>18, <1>19 DEF BothReady
<1>21. d \in 0 .. 7
  BY <1>9
<1>22. TaskChain(TxAt(d) \cup RxAt(d + 2))'
  BY <1>20, <1>21 DEF TaskChain
<1>. QED  BY <1>13, <1>16, <1>22, ChainNext DEF Core

(* A monitor or a page scan that was stopped meanwhile asks for a connection *)
(* e may not have, and the firmware halts; either way the receiver e hands *)
(* the slot to is idle.                                                      *)
LEMMA SlaveBegins ==
  ASSUME Core, tick' > 0, NEW d \in 1 .. 7, Holds(agenda, tick', {}), NEW cb \in {"slave_rx_cb", "monitor2_rx_cb"},
         state \in {"PAGE_SCAN", "STANDBY"}, mode' = "SLAVE", set_state("CONNECTED"),
         rx_task(cb), agenda' = RxSet(agenda, d), died' = BadTransition("CONNECTED") \cup RxBusy,
         call' = "none", ~tx.hdr, ~rx.msg, radio = "idle", pkt' \in PktKinds,
         UNCHANGED <<clkn, tx, scan, radio, eir, expired, drain, rxq, session>>
  PROVE  Core'
<1>1. rx' \in [cb : RxCallbacks, msg : BOOLEAN, left : 0 .. 9] /\ rx'.cb = cb /\ rx'.msg = rx.msg
  <2>1. rx \in [cb : RxCallbacks, msg : BOOLEAN, left : 0 .. 9] /\ cb \in RxCallbacks
    BY DEF Core, Fields, RxCallbacks
  <2>. QED  BY <2>1 DEF rx_task
<1>2. /\ state' \in {"CONNECTED", "STANDBY"} /\ txq' \in Seq(States)
      /\ died' \subseteq {"Invalid state transition"}
      /\ state' = "STANDBY" => died' # {}
  <2>1. txq \in Seq(States) /\ Append(txq, "CONNECTED") \in Seq(States)
    BY AppendProperties DEF Core, Fields, States
  <2>2. CASE state = "PAGE_SCAN"
    BY <2>1, <2>2 DEF set_state, transition_valid, BadTransition, RxBusy
  <2>3. CASE state = "STANDBY"
    BY <2>1, <2>3 DEF set_state, transition_valid, BadTransition, RxBusy
  <2>. QED  BY <2>2, <2>3
<1>3. Fields' /\ died' \subseteq {"Invalid state transition"}
  <2>1. state' \in States /\ mode' \in Modes /\ call' \in TxCallbacks
    BY <1>2 DEF States, Modes, TxCallbacks
  <2>2. /\ clkn' \in 0 .. 3 /\ tx' \in [cb : TxCallbacks, hdr : BOOLEAN]
        /\ scan' \in [cb : ScanCallbacks, slots : 0 .. SCAN_MAX_SLOTS]
        /\ radio' \in {"idle", "tx", "rx", "scan"} /\ drain' \in 0 .. DRAIN
        /\ rxq' \in Seq(Commands \cup {"idle", "set_eir"})
    BY DEF Core, Fields
  <2>3. eir' \in BOOLEAN /\ expired' \in BOOLEAN /\ session' \in BOOLEAN
    BY DEF Core, Fields
  <2>. QED  BY <1>1, <1>2, <2>1, <2>2, <2>3 DEF Fields
<1>4. Holds(agenda', tick', RxAt(d))
  <2>1. d \in 0 .. 9 /\ d # 0
    OBVIOUS
  <2>. QED  BY <2>1, RxScheduled DEF Roomy
<1>5. Soon(d + Air)'
  <2>1. CASE state' = "CONNECTED"
    <3>1. Budget' = DRAIN /\ Wait' = 0
      BY <2>1 DEF Budget, Wait
    <3>2. d + Air + 0 <= DRAIN
      BY Arithmetic
    <3>. QED  BY <3>1, <3>2 DEF Soon
  <2>2. CASE state' = "STANDBY"
    BY <1>2, <2>2 DEF Soon, Operating
  <2>. QED  BY <1>2, <2>1, <2>2
<1>6. For(rx.cb)'
  BY <1>1, <1>2 DEF For, Serves, Masters, OfMasters
<1>7. RxReady(RxAt(d), d)'
  BY <1>1, <1>5, <1>6 DEF RxReady
<1>8. d \in 0 .. 7
  OBVIOUS
<1>9. TaskChain(RxAt(d))'
  BY <1>7, <1>8 DEF TaskChain
<1>. QED  BY <1>3, <1>4, <1>9, ChainNext DEF Core

LEMMA StartMonitor2Step ==
  ASSUME Core, start_monitor2
  PROVE  Core'
<1>1. /\ Item("start_monitor2") /\ mode' = "SLAVE" /\ set_state("CONNECTED") /\ rx_task("monitor2_rx_cb")
      /\ agenda' = RxSet(agenda, 2 + ((1 - clkn) % 2)) /\ died' = BadTransition("CONNECTED") \cup RxBusy
      /\ UNCHANGED <<call, clkn, tx, pkt, scan, radio, expired>>
  BY DEF start_monitor2
<1>2. PICK S : /\ TaskChain(S) /\ <<0, "start_monitor2">> \in S /\ Holds(agenda, tick', S \ {<<0, "start_monitor2">>})
  BY <1>1, ItemTaken DEF Core
<1>3. Waits(S, "start_monitor2", 0)
  BY <1>2, WhoseStart DEF Openers
<1>4. S = {<<0, "start_monitor2">>} /\ ~tx.hdr /\ ~rx.msg /\ radio = "idle" /\ For("start_monitor2") /\ call = "none"
  BY <1>3 DEF Waits
<1>5. state \in {"PAGE_SCAN", "STANDBY"}
  BY <1>4 DEF For, Serves
<1>6. tick' > 0 /\ UNCHANGED <<eir, drain, rxq, session>>
  <2>1. tick' > 0
    BY <1>1, ItemTime DEF Core
  <2>. QED  BY <1>1, <2>1 DEF Item, ctlHost
<1>7. Holds(agenda, tick', {})
  <2>1. S \ {<<0, "start_monitor2">>} = {}
    BY <1>4
  <2>. QED  BY <1>2, <2>1
<1>8. 2 + ((1 - clkn) % 2) \in 1 .. 7
  <2>1. clkn \in 0 .. 3
    BY DEF Core, Fields
  <2>. QED  BY <2>1
<1>9. pkt' \in PktKinds
  BY <1>1 DEF Core, Fields
<1>. QED  BY <1>1, <1>4, <1>5, <1>6, <1>7, <1>8, <1>9, SlaveBegins

(* A callback runs with nothing left on the agenda, the transmitter and the  *)
(* receiver idle, and the time e was left.                                  *)
LEMMA CallFrame ==
  ASSUME Core, NEW cb, cb # "none", Called(cb)
  PROVE  /\ Holds(agenda, tick, {}) /\ tick' = tick /\ tick > 0 /\ \A d : Roomy(agenda, tick', d)
         /\ ~tx.hdr /\ ~rx.msg /\ radio = "idle" /\ radio' = "idle" /\ call' = "none" /\ died = {}
         /\ For(cb) /\ Then(cb) <= Budget /\ Budget \in Int
         /\ Wait' = 0 /\ Now' = clkn' /\ clkn \in 0 .. 3
         /\ cb \in {"master_tx_done", "slave_tx_done"} => At(clkn, 0, TxSlot + 2)
         /\ pkt' \in PktKinds /\ pkt' = (IF WrongType(cb) THEN pkt ELSE "none")
         /\ UNCHANGED <<eir, expired, drain, rxq, session>>
<1>1. /\ died = {} /\ call = cb /\ call' = "none" /\ pkt' = (IF WrongType(cb) THEN pkt ELSE "none")
      /\ UNCHANGED <<tick, radio, eir, expired, drain, rxq, session>>
  BY DEF Called, Operating, ctlHost
<1>2. PICK S : Holds(agenda, tick, S) /\ TaskChain(S)
  BY ChainIs DEF Core
<1>3. Calling(S)
  BY <1>1, <1>2, WhoseCall
<1>4. /\ S = {} /\ ~tx.hdr /\ ~rx.msg /\ radio = "idle" /\ tick > 0 /\ Len(agenda[0]) <= 2 /\ For(cb)
      /\ Soon(Then(cb))
      /\ cb \in {"master_tx_done", "slave_tx_done"} => On(0, TxSlot + 2)
  BY <1>1, <1>3 DEF Calling
<1>5. tick \in Nat
  BY Buckets DEF Core, ChainInv
<1>6. Wait = 0 /\ Wait' = 0 /\ Now = clkn /\ Now' = clkn'
  BY <1>1, <1>4, <1>5 DEF Wait, Now
<1>7. Budget \in Int /\ Then(cb) \in Nat /\ clkn \in 0 .. 3
  BY Times, Durations DEF Core, Fields
<1>8. Then(cb) <= Budget
  BY <1>1, <1>4, <1>6, <1>7 DEF Soon, Operating
<1>9. pkt' \in PktKinds
  BY <1>1 DEF Core, Fields, PktKinds
<1>10. cb \in {"master_tx_done", "slave_tx_done"} => At(clkn, 0, TxSlot + 2)
  BY <1>4, <1>6 DEF On
<1>11. \A d : Roomy(agenda, tick', d)
  BY <1>1, <1>4 DEF Roomy
<1>. QED  BY <1>1, <1>2, <1>4, <1>6, <1>7, <1>8, <1>9, <1>10, <1>11

CalledBy(cb) == Core /\ cb # "none" /\ Called(cb)
Settled == state' \in States /\ mode' \in Modes /\ clkn' \in 0 .. 3 /\ txq' \in Seq(States)

LEMMA CallFields ==
  ASSUME NEW cb, CalledBy(cb), Settled, tx' \in [cb : TxCallbacks, hdr : BOOLEAN],
         rx' \in [cb : RxCallbacks, msg : BOOLEAN, left : 0 .. 9],
         scan' \in [cb : ScanCallbacks, slots : 0 .. SCAN_MAX_SLOTS]
  PROVE  Fields'
<1>1. Core /\ cb # "none" /\ Called(cb)
  BY DEF CalledBy
<1>2. /\ radio' = "idle" /\ call' = "none" /\ pkt' \in PktKinds
      /\ UNCHANGED <<eir, expired, drain, rxq, session>>
  BY <1>1, CallFrame
<1>3. call' \in TxCallbacks
  BY <1>2 DEF TxCallbacks
<1>. QED  BY <1>1, <1>2, <1>3 DEF Core, Fields, Settled

LEMMA NextRest ==
  ASSUME NEW cb, CalledBy(cb), Settled, ScheduleNothing, state' = "STANDBY" \/ Stalled'
  PROVE  Core'
<1>1. Core /\ cb # "none" /\ Called(cb) /\ UNCHANGED <<died, agenda, tx, rx, scan>>
  BY DEF CalledBy, ScheduleNothing
<1>2. Fields'
  BY <1>1, CallFields DEF Core, Fields
<1>3. Holds(agenda', tick', {})
  BY <1>1, CallFrame
<1>4. Rest({})'
  BY <1>1, CallFrame DEF Rest
<1>5. TaskChain({})'
  BY <1>4 DEF TaskChain
<1>6. died' \subseteq {"Invalid state transition"}
  BY <1>1 DEF Core
<1>. QED  BY <1>2, <1>3, <1>5, <1>6, ChainNext DEF Core

LEMMA NextTx ==
  ASSUME NEW cb, CalledBy(cb), Settled, NEW d \in 0 .. 7, NEW c \in TxCallbacks, NEW h \in BOOLEAN,
         ScheduleTx(d, c, h), For(c)', At(clkn', d, TxSlot'), d + Lasts(c) + Then(c) <= Budget'
  PROVE  Core'
<1>1. Core /\ cb # "none" /\ Called(cb)
  BY DEF CalledBy
<1>2. tx' = [cb |-> c, hdr |-> h] /\ agenda' = TxSet(agenda, d) /\ UNCHANGED <<rx, scan>> /\ died' = TxBusy
  BY DEF ScheduleTx, tx_task
<1>3. died' = {}
  BY <1>1, <1>2, CallFrame DEF TxBusy
<1>4. tx' \in [cb : TxCallbacks, hdr : BOOLEAN] /\ tx'.cb = c
  BY <1>2
<1>5. Fields'
  BY <1>1, <1>2, <1>4, CallFields DEF Core, Fields
<1>6. Holds(agenda', tick', TxAt(d))
  <2>1. Holds(agenda, tick', {}) /\ Roomy(agenda, tick', d) /\ d \in 0 .. 9
    BY <1>1, CallFrame
  <2>. QED  BY <1>2, <2>1, TxScheduled
<1>7. On(d, TxSlot)'
  BY <1>1, CallFrame DEF On
<1>8. Soon(d + Lasts(tx.cb) + Then(tx.cb))'
  <2>1. Wait' = 0
    BY <1>1, CallFrame
  <2>2. Lasts(c) \in Nat /\ Then(c) \in Nat
    BY Durations
  <2>3. d + Lasts(c) + Then(c) + 0 <= Budget'
    BY <2>2
  <2>. QED  BY <1>4, <2>1, <2>3 DEF Soon
<1>9. ~rx'.msg /\ radio' = "idle" /\ call' = "none" /\ For(tx.cb)'
  <2>1. ~rx'.msg /\ radio' = "idle" /\ call' = "none"
    BY <1>1, <1>2, CallFrame
  <2>. QED  BY <1>4, <2>1 DEF For
<1>10. TxReady(TxAt(d), d)'
  BY <1>7, <1>8, <1>9 DEF TxReady
<1>11. TaskChain(TxAt(d))'
  BY <1>10 DEF TaskChain
<1>. QED  BY <1>3, <1>5, <1>6, <1>11, ChainNext DEF Core

LEMMA NextRx ==
  ASSUME NEW cb, CalledBy(cb), Settled, NEW d \in 0 .. 7, NEW c \in RxCallbacks,
         ScheduleRx(d, c), For(c)', d + Air <= Budget'
  PROVE  Core'
<1>1. Core /\ cb # "none" /\ Called(cb)
  BY DEF CalledBy
<1>2. rx' = [rx EXCEPT !.cb = c] /\ agenda' = RxSet(agenda, d) /\ UNCHANGED <<tx, scan>> /\ died' = RxBusy
  BY DEF ScheduleRx, rx_task
<1>3. died' = {}
  BY <1>1, <1>2, CallFrame DEF RxBusy
<1>4. rx' \in [cb : RxCallbacks, msg : BOOLEAN, left : 0 .. 9] /\ rx'.cb = c /\ rx'.msg = rx.msg
  <2>1. rx \in [cb : RxCallbacks, msg : BOOLEAN, left : 0 .. 9]
    BY <1>1 DEF Core, Fields
  <2>. QED  BY <1>2, <2>1
<1>5. Fields'
  BY <1>1, <1>2, <1>4, CallFields DEF Core, Fields
<1>6. Holds(agenda', tick', RxAt(d))
  <2>1. Holds(agenda, tick', {}) /\ Roomy(agenda, tick', d) /\ d \in 0 .. 9
    BY <1>1, CallFrame
  <2>. QED  BY <1>2, <2>1, RxScheduled
<1>7. Soon(d + Air)'
  <2>1. Wait' = 0
    BY <1>1, CallFrame
  <2>2. d + Air + 0 <= Budget'
    BY Arithmetic
  <2>. QED  BY <2>1, <2>2 DEF Soon
<1>8. ~rx'.msg /\ ~tx'.hdr /\ radio' = "idle" /\ call' = "none" /\ For(rx.cb)'
  <2>1. ~rx'.msg /\ ~tx'.hdr /\ radio' = "idle" /\ call' = "none"
    BY <1>1, <1>2, <1>4, CallFrame
  <2>. QED  BY <1>4, <2>1 DEF For
<1>9. RxReady(RxAt(d), d)'
  BY <1>7, <1>8 DEF RxReady
<1>10. TaskChain(RxAt(d))'
  BY <1>9 DEF TaskChain
<1>. QED  BY <1>3, <1>5, <1>6, <1>10, ChainNext DEF Core

LEMMA NextBoth ==
  ASSUME NEW cb, CalledBy(cb), Settled, NEW d \in 0 .. 7, NEW c \in RxCallbacks, NEW h \in BOOLEAN,
         ScheduleTxRx(d, h, c), For(c)', At(clkn', d, TxSlot'), d + 2 + Air <= Budget'
  PROVE  Core'
<1>1. Core /\ cb # "none" /\ Called(cb)
  BY DEF CalledBy
<1>2. /\ tx' = [cb |-> "none", hdr |-> h] /\ rx' = [rx EXCEPT !.cb = c]
      /\ agenda' = RxSet(TxSet(agenda, d), d + 2) /\ UNCHANGED scan /\ died' = TxBusy \cup RxBusy
  BY DEF ScheduleTxRx, rx_task, tx_task
<1>3. died' = {}
  BY <1>1, <1>2, CallFrame DEF RxBusy, TxBusy
<1>4. rx' \in [cb : RxCallbacks, msg : BOOLEAN, left : 0 .. 9] /\ rx'.cb = c /\ rx'.msg = rx.msg
  <2>1. rx \in [cb : RxCallbacks, msg : BOOLEAN, left : 0 .. 9]
    BY <1>1 DEF Core, Fields
  <2>. QED  BY <1>2, <2>1
<1>5. tx' \in [cb : TxCallbacks, hdr : BOOLEAN] /\ tx'.cb = "none"
  BY <1>2 DEF TxCallbacks
<1>6. Fields'
  BY <1>1, <1>2, <1>4, <1>5, CallFields DEF Core, Fields
<1>7. Holds(agenda', tick', TxAt(d) \cup RxAt(d + 2))
  <2>1. Holds(agenda, tick', {}) /\ Roomy(agenda, tick', d)
    BY <1>1, CallFrame
  <2>. QED  BY <1>2, <2>1, BothScheduled
<1>8. Soon(d + 2 + Air)' /\ On(d, TxSlot)'
  <2>1. Wait' = 0 /\ Now' = clkn'
    BY <1>1, CallFrame
  <2>2. d + 2 + Air + 0 <= Budget'
    BY Arithmetic
  <2>. QED  BY <2>1, <2>2 DEF Soon, On
<1>9. ~rx'.msg /\ radio' = "idle" /\ call' = "none" /\ For(rx.cb)'
  <2>1. ~rx'.msg /\ radio' = "idle" /\ call' = "none"
    BY <1>1, <1>2, <1>4, CallFrame
  <2>. QED  BY <1>4, <2>1 DEF For
<1>10. BothReady(TxAt(d) \cup RxAt(d + 2), d)'
  BY <1>5, <1>8, <1>9 DEF BothReady
<1>11. TaskChain(TxAt(d) \cup RxAt(d + 2))'
  BY <1>10 DEF TaskChain
<1>. QED  BY <1>3, <1>6, <1>7, <1>11, ChainNext DEF Core

LEMMA NextWait ==
  ASSUME NEW cb, CalledBy(cb), Settled, NEW x \in Openers, agenda' = tdma_schedule(agenda, 1, x),
         UNCHANGED <<died, tx, rx>>, scan' \in [cb : ScanCallbacks, slots : 0 .. SCAN_MAX_SLOTS],
         For(IF x = "scan_start" THEN scan.cb ELSE x)', 1 + Opens(x) <= Budget'
  PROVE  Core'
<1>1. Core /\ cb # "none" /\ Called(cb)
  BY DEF CalledBy
<1>2. Fields'
  BY <1>1, CallFields DEF Core, Fields
<1>3. Holds(agenda', tick', {<<1, x>>})
  <2>1. Holds(agenda, tick', {}) /\ 1 \in 0 .. 10 /\ x \in Items
    BY <1>1, CallFrame DEF Openers, Items
  <2>. QED  BY <2>1, OneScheduled
<1>4. Soon(1 + Opens(x))'
  <2>1. Wait' = 0
    BY <1>1, CallFrame
  <2>2. 1 + Opens(x) + 0 <= Budget'
    BY Durations
  <2>. QED  BY <2>1, <2>2 DEF Soon
<1>5. ~rx'.msg /\ ~tx'.hdr /\ radio' = "idle" /\ call' = "none" /\ died' \subseteq {"Invalid state transition"}
  BY <1>1, CallFrame DEF Core
<1>6. Waits({<<1, x>>}, x, 1)'
  BY <1>4, <1>5 DEF Waits
<1>7. TaskChain({<<1, x>>})'
  BY <1>6 DEF TaskChain
<1>. QED  BY <1>2, <1>3, <1>5, <1>7, ChainNext DEF Core

LEMMA Stands ==
  ASSUME Core, UNCHANGED <<state, txq, mode>>, clkn' \in 0 .. 3
  PROVE  Settled
  BY DEF Core, Fields, Settled

LEMMA TimesOut ==
  ASSUME NEW cb, CalledBy(cb), Timeout
  PROVE  Core'
<1>1. Core /\ UNCHANGED <<mode, clkn>> /\ ScheduleNothing
  BY DEF CalledBy, Timeout
<1>2. txq \in Seq(States) /\ Append(txq, "STANDBY") \in Seq(States) /\ mode \in Modes /\ clkn \in 0 .. 3
  BY <1>1, AppendProperties DEF Core, Fields, States
<1>3. state' = "STANDBY" /\ txq' \in {txq, Append(txq, "STANDBY")}
  BY DEF Timeout, set_state, transition_valid
<1>4. Settled
  BY <1>1, <1>2, <1>3 DEF Settled, States
<1>. QED  BY <1>1, <1>3, <1>4, NextRest

LEMMA CancelledRests ==
  ASSUME NEW cb, CalledBy(cb), NEW s, Serves(cb) = s, Canceled(s)
  PROVE  Core'
<1>1. Core /\ cb # "none" /\ Called(cb) /\ ScheduleNothing /\ UNCHANGED <<state, txq, mode, clkn>> /\ state # s
  BY DEF CalledBy, Canceled, SameState
<1>2. For(cb)
  BY <1>1, CallFrame
<1>3. state' = "STANDBY"
  BY <1>1, <1>2 DEF For
<1>4. Settled
  BY <1>1, Stands DEF Core, Fields
<1>. QED  BY <1>1, <1>3, <1>4, NextRest

(* Another scan.                                                             *)
LEMMA Listens ==
  ASSUME NEW cb, CalledBy(cb), NEW c \in ScanCallbacks, c # "none", Serves(c) = Serves(cb),
         c \notin OfMasters, cb \notin OfMasters, listen(c), SCAN_MAX_SLOTS <= Budget
  PROVE  Core'
<1>1. CASE Timeout
  BY <1>1, TimesOut
<1>2. CASE ScheduleScan(1, c) /\ SameState
  <2>1. /\ Core /\ cb # "none" /\ Called(cb) /\ scan' = [scan EXCEPT !.cb = c]
        /\ agenda' = tdma_schedule(agenda, 1, "scan_start") /\ UNCHANGED <<died, tx, rx>>
        /\ UNCHANGED <<state, txq, mode, clkn>>
    BY <1>2 DEF CalledBy, ScheduleScan, SameState
  <2>2. scan' \in [cb : ScanCallbacks, slots : 0 .. SCAN_MAX_SLOTS] /\ scan'.cb = c
    <3>1. scan \in [cb : ScanCallbacks, slots : 0 .. SCAN_MAX_SLOTS]
      BY <2>1 DEF Core, Fields
    <3>. QED  BY <2>1, <3>1
  <2>3. Settled
    BY <2>1, Stands DEF Core, Fields
  <2>4. For(c)'
    <3>1. For(cb)
      BY <2>1, CallFrame
    <3>. QED  BY <2>1, <3>1 DEF For
  <2>5. UNCHANGED drain
    BY <2>1, CallFrame
  <2>6. Budget' = Budget
    BY <2>1, <2>5 DEF Budget
  <2>7. 1 + Opens("scan_start") <= Budget' /\ "scan_start" \in Openers
    BY <2>6, Arithmetic DEF Opens, Openers
  <2>8. For(IF "scan_start" = "scan_start" THEN scan.cb ELSE "scan_start")'
    BY <2>2, <2>4 DEF For
  <2>. QED  BY <2>1, <2>2, <2>3, <2>7, <2>8, NextWait
<1>. QED  BY <1>1, <1>2 DEF listen

(* Another transmission with its answer.                                     *)
LEMMA SendsBoth ==
  ASSUME NEW cb, CalledBy(cb), NEW c \in RxCallbacks, c # "none", Serves(c) = Serves(cb), state = Serves(cb),
         state # "STANDBY", c \in OfMasters <=> cb \in OfMasters, NEW h \in BOOLEAN,
         NEW i \in {1, 3}, i = TxSlot, ScheduleTxRx(Until(i, clkn), h, c), SameState
  PROVE  Core'
<1>1. Core /\ cb # "none" /\ Called(cb) /\ UNCHANGED <<state, txq, mode, clkn>>
  BY DEF CalledBy, SameState
<1>2. Settled
  BY <1>1, Stands DEF Core, Fields
<1>3. For(c)'
  <2>1. For(cb)
    BY <1>1, CallFrame
  <2>. QED  BY <1>1, <2>1 DEF For
<1>4. clkn \in 0 .. 3
  BY <1>1 DEF Core, Fields
<1>5. PICK d \in 0 .. 3 : d = Until(i, clkn) /\ At(clkn, d, i)
  BY <1>4, UntilFacts
<1>6. TxSlot' = i /\ Budget' = DRAIN
  BY <1>1 DEF TxSlot, Budget
<1>7. d \in 0 .. 7 /\ d + 2 + Air <= Budget'
  BY <1>6, Arithmetic
<1>. QED  BY <1>1, <1>2, <1>3, <1>5, <1>6, <1>7, NextBoth

LEMMA Inquires ==
  ASSUME NEW cb, CalledBy(cb), NEW c \in RxCallbacks, c # "none", Serves(c) = Serves(cb), state = Serves(cb),
         state # "STANDBY", c \in OfMasters <=> cb \in OfMasters,
         NEW i \in {1, 3}, i = TxSlot, inquire(Until(i, clkn), c)
  PROVE  Core'
  BY TimesOut, SendsBoth DEF inquire

(* In a state, a receiver is opened within a few ticks.                      *)
LEMMA Receives ==
  ASSUME NEW cb, CalledBy(cb), NEW c \in RxCallbacks, c # "none", Serves(c) = Serves(cb), state = Serves(cb),
         state # "STANDBY", c \in OfMasters <=> cb \in OfMasters, NEW d \in 0 .. 7, ScheduleRx(d, c), SameState
  PROVE  Core'
<1>1. Core /\ cb # "none" /\ Called(cb) /\ UNCHANGED <<state, txq, mode, clkn>>
  BY DEF CalledBy, SameState
<1>2. Settled
  BY <1>1, Stands DEF Core, Fields
<1>3. For(c)'
  <2>1. For(cb)
    BY <1>1, CallFrame
  <2>. QED  BY <1>1, <2>1 DEF For
<1>4. Budget' = DRAIN
  BY <1>1 DEF Budget
<1>5. d + Air <= Budget'
  BY <1>4, Arithmetic
<1>. QED  BY <1>1, <1>2, <1>3, <1>5, NextRx

(* A packet of its own, in the slot of the device.                           *)
LEMMA AnswersWith ==
  ASSUME NEW cb, CalledBy(cb), NEW c \in TxCallbacks, c # "none", Serves(c) = Serves(cb),
         c \in OfMasters <=> cb \in OfMasters, NEW h \in BOOLEAN, NEW i \in {1, 3}, i = TxSlot,
         ScheduleTx(Until(i, clkn), c, h), SameState, 3 + Lasts(c) + Then(c) <= Budget
  PROVE  Core'
<1>1. Core /\ cb # "none" /\ Called(cb) /\ UNCHANGED <<state, txq, mode, clkn>>
  BY DEF CalledBy, SameState
<1>2. Settled
  BY <1>1, Stands DEF Core, Fields
<1>3. For(c)'
  <2>1. For(cb)
    BY <1>1, CallFrame
  <2>. QED  BY <1>1, <2>1 DEF For
<1>4. clkn \in 0 .. 3 /\ UNCHANGED drain
  BY <1>1, CallFrame
<1>5. PICK d \in 0 .. 3 : d = Until(i, clkn) /\ At(clkn, d, i)
  BY <1>4, UntilFacts
<1>6. TxSlot' = i /\ Budget' = Budget /\ Budget \in Int
  BY <1>1, <1>4, CallFrame DEF TxSlot, Budget
<1>7. d \in 0 .. 7 /\ d + Lasts(c) + Then(c) <= Budget'
  <2>1. Lasts(c) \in Nat /\ Then(c) \in Nat
    BY Durations
  <2>. QED  BY <1>6, <2>1
<1>. QED  BY <1>1, <1>2, <1>3, <1>5, <1>6, <1>7, NextTx

LEMMA SlotOf ==
  ASSUME NEW cb, CalledBy(cb)
  PROVE  TxSlot = IF cb \in OfMasters THEN 3 ELSE 1
<1>1. For(cb)
  BY CallFrame DEF CalledBy
<1>. QED  BY <1>1 DEF For, TxSlot, MasterTx, SlaveTx

LEMMA Budgeted ==
  ASSUME NEW cb, CalledBy(cb)
  PROVE  /\ state # "STANDBY" => Budget = DRAIN
         /\ Then(cb) <= Budget /\ Budget \in Int
  BY CallFrame DEF CalledBy, Budget

LEMMA InquiryRxStep ==
  ASSUME Core, inquiry_rx_cb
  PROVE  Core'
<1>. DEFINE cb == "inquiry_rx_cb"
<1>1. CalledBy(cb) /\ cb \in RxCallbacks /\ cb # "none" /\ Serves(cb) = "INQUIRY" /\ cb \in OfMasters
  BY DEF inquiry_rx_cb, CalledBy, RxCallbacks, Serves, OfMasters
<1>2. TxSlot = 3
  BY <1>1, SlotOf
<1>3. CASE Canceled("INQUIRY")
  BY <1>1, <1>3, CancelledRests
<1>4. CASE state = "INQUIRY" /\ ScheduleRx(2, cb) /\ SameState
  <2>1. 2 \in 0 .. 7
    OBVIOUS
  <2>. QED  BY <1>1, <1>4, <2>1, Receives
<1>5. CASE state = "INQUIRY" /\ inquire(Until(3, clkn), cb)
  BY <1>1, <1>2, <1>5, Inquires
<1>. QED  BY <1>3, <1>4, <1>5 DEF inquiry_rx_cb, MasterTx

LEMMA PagingRxStep ==
  ASSUME Core, paging_rx_cb
  PROVE  Core'
<1>. DEFINE cb == "paging_rx_cb"
            c == "paging_rx_ack_cb"
<1>1. CalledBy(cb) /\ cb \in RxCallbacks /\ cb # "none" /\ Serves(cb) = "PAGE" /\ cb \in OfMasters
  BY DEF paging_rx_cb, CalledBy, RxCallbacks, Serves, OfMasters
<1>2. c \in RxCallbacks /\ c # "none" /\ Serves(c) = "PAGE" /\ c \in OfMasters
  BY DEF RxCallbacks, Serves, OfMasters
<1>3. TxSlot = 3
  BY <1>1, SlotOf
<1>4. CASE Canceled("PAGE")
  BY <1>1, <1>4, CancelledRests
<1>5. CASE state = "PAGE" /\ ScheduleTxRx(Until(3, clkn), TRUE, c) /\ SameState
  BY <1>1, <1>2, <1>3, <1>5, SendsBoth
<1>6. CASE state = "PAGE" /\ inquire(Until(3, clkn), cb)
  BY <1>1, <1>3, <1>6, Inquires
<1>. QED  BY <1>4, <1>5, <1>6 DEF paging_rx_cb, MasterTx

LEMMA PagingAckStep ==
  ASSUME Core, paging_rx_ack_cb
  PROVE  Core'
<1>. DEFINE cb == "paging_rx_ack_cb"
            c == "paging_rx_cb"
<1>1. CalledBy(cb) /\ cb \in RxCallbacks /\ cb # "none" /\ Serves(cb) = "PAGE" /\ cb \in OfMasters
  BY DEF paging_rx_ack_cb, CalledBy, RxCallbacks, Serves, OfMasters
<1>2. c \in RxCallbacks /\ c # "none" /\ Serves(c) = "PAGE" /\ c \in OfMasters
  BY DEF RxCallbacks, Serves, OfMasters
<1>3. TxSlot = 3
  BY <1>1, SlotOf
<1>4. CASE Canceled("PAGE")
  BY <1>1, <1>4, CancelledRests
<1>5. CASE state = "PAGE" /\ inquire(Until(3, clkn), c)
  BY <1>1, <1>2, <1>3, <1>5, Inquires
<1>6. CASE /\ state = "PAGE" /\ mode' = "MASTER" /\ set_state("CONNECTED")
           /\ ScheduleTx(4 + Until(3, clkn), "master_tx_done", TRUE) /\ UNCHANGED clkn
  <2>1. txq \in Seq(States) /\ Append(txq, "CONNECTED") \in Seq(States) /\ clkn \in 0 .. 3
    BY AppendProperties DEF Core, Fields, States
  <2>2. state' = "CONNECTED" /\ txq' = Append(txq, "CONNECTED")
    BY <1>6 DEF set_state, transition_valid
  <2>3. Settled
    BY <1>6, <2>1, <2>2 DEF Settled, States, Modes
  <2>4. Until(3, clkn) \in 0 .. 3 /\ At(clkn, 4 + Until(3, clkn), 3)
    BY <2>1, UntilFacts
  <2>5. PICK d \in 0 .. 7 : d = 4 + Until(3, clkn) /\ At(clkn, d, 3)
    <3>1. 4 + Until(3, clkn) \in 0 .. 7
      BY <2>4
    <3>. QED  BY <2>4, <3>1
  <2>6. For("master_tx_done")'
    BY <1>6, <2>2 DEF For, Serves, Masters, OfMasters
  <2>7. TxSlot' = 3 /\ Budget' = DRAIN
    BY <1>6, <2>2 DEF TxSlot, Masters, MasterTx, Budget
  <2>8. d + Lasts("master_tx_done") + Then("master_tx_done") <= Budget'
    <3>1. Lasts("master_tx_done") = Air /\ Then("master_tx_done") = Air
      BY DEF Lasts, Then, Long
    <3>. QED  BY <2>7, <3>1, Arithmetic
  <2>9. "master_tx_done" \in TxCallbacks /\ ScheduleTx(d, "master_tx_done", TRUE) /\ At(clkn', d, TxSlot')
    BY <1>6, <2>5, <2>7 DEF TxCallbacks
  <2>. QED  BY <1>1, <2>3, <2>6, <2>8, <2>9, NextTx
<1>. QED  BY <1>4, <1>5, <1>6 DEF paging_rx_ack_cb, MasterTx

LEMMA InquiryScanStep ==
  ASSUME Core, inquiry_scan_rx_cb
  PROVE  Core'
<1>. DEFINE cb == "inquiry_scan_rx_cb"
            c == "tx_fhs_cb"
<1>1. CalledBy(cb) /\ cb \in ScanCallbacks /\ cb # "none" /\ Serves(cb) = "INQUIRY_SCAN" /\ cb \notin OfMasters
  BY DEF inquiry_scan_rx_cb, CalledBy, ScanCallbacks, Serves, OfMasters
<1>2. /\ c \in TxCallbacks /\ c # "none" /\ Serves(c) = "INQUIRY_SCAN" /\ c \notin OfMasters
      /\ Lasts(c) = 2 /\ Then(c) = 3 + Air + SCAN_MAX_SLOTS
  BY DEF TxCallbacks, Serves, OfMasters, Lasts, Then, Long
<1>3. TxSlot = 1 /\ (state # "STANDBY" => Budget = DRAIN)
  BY <1>1, SlotOf, Budgeted
<1>4. CASE Canceled("INQUIRY_SCAN")
  BY <1>1, <1>4, CancelledRests
<1>5. CASE state = "INQUIRY_SCAN" /\ ScheduleTx(Until(1, clkn), c, TRUE) /\ SameState
  <2>1. 3 + Lasts(c) + Then(c) <= Budget
    BY <1>2, <1>3, <1>5, Arithmetic
  <2>. QED  BY <1>1, <1>2, <1>3, <1>5, <2>1, AnswersWith
<1>6. CASE state = "INQUIRY_SCAN" /\ listen(cb)
  <2>1. SCAN_MAX_SLOTS <= Budget
    BY <1>3, <1>6, Arithmetic
  <2>. QED  BY <1>1, <1>6, <2>1, Listens
<1>. QED  BY <1>4, <1>5, <1>6 DEF inquiry_scan_rx_cb, SlaveTx

(* The transmit callbacks of an inquiry scan run even if e was cancelled;   *)
(* what they schedule still ends before the idle handler stops waiting.      *)
LEMMA TxFhsStep ==
  ASSUME Core, tx_fhs_cb
  PROVE  Core'
<1>. DEFINE cb == "tx_fhs_cb"
            c == "tx_eir_cb"
            l == "inquiry_scan_rx_cb"
<1>1. CalledBy(cb) /\ cb # "none" /\ Serves(cb) = "INQUIRY_SCAN" /\ cb \notin OfMasters
  BY DEF tx_fhs_cb, CalledBy, Serves, OfMasters
<1>2. /\ c \in TxCallbacks /\ c # "none" /\ Serves(c) = "INQUIRY_SCAN" /\ c \notin OfMasters
      /\ Lasts(c) = Air /\ Then(c) = SCAN_MAX_SLOTS
  BY DEF TxCallbacks, Serves, OfMasters, Lasts, Then, Long
<1>3. l \in ScanCallbacks /\ l # "none" /\ Serves(l) = "INQUIRY_SCAN" /\ l \notin OfMasters
  BY DEF ScanCallbacks, Serves, OfMasters
<1>4. TxSlot = 1 /\ 3 + Air + SCAN_MAX_SLOTS <= Budget /\ Budget \in Int
  <2>1. Then(cb) = 3 + Air + SCAN_MAX_SLOTS
    BY DEF Then
  <2>2. TxSlot = 1
    BY <1>1, SlotOf
  <2>3. Then(cb) <= Budget /\ Budget \in Int
    BY <1>1, Budgeted
  <2>. QED  BY <2>1, <2>2, <2>3
<1>5. CASE ScheduleTx(Until(1, clkn), c, TRUE) /\ SameState
  <2>1. 3 + Lasts(c) + Then(c) <= Budget
    BY <1>2, <1>4, Arithmetic
  <2>. QED  BY <1>1, <1>2, <1>4, <1>5, <2>1, AnswersWith
<1>6. CASE listen(l)
  <2>1. SCAN_MAX_SLOTS <= Budget
    BY <1>4, Arithmetic
  <2>. QED  BY <1>1, <1>3, <1>6, <2>1, Listens
<1>. QED  BY <1>5, <1>6 DEF tx_fhs_cb, SlaveTx

LEMMA TxEirStep ==
  ASSUME Core, tx_eir_cb
  PROVE  Core'
<1>. DEFINE cb == "tx_eir_cb"
            l == "inquiry_scan_rx_cb"
<1>1. CalledBy(cb) /\ cb # "none" /\ Serves(cb) = "INQUIRY_SCAN" /\ cb \notin OfMasters /\ listen(l)
  BY DEF tx_eir_cb, CalledBy, Serves, OfMasters
<1>2. l \in ScanCallbacks /\ l # "none" /\ Serves(l) = "INQUIRY_SCAN" /\ l \notin OfMasters
  BY DEF ScanCallbacks, Serves, OfMasters
<1>3. SCAN_MAX_SLOTS <= Budget
  <2>1. Then(cb) = SCAN_MAX_SLOTS
    BY DEF Then
  <2>. QED  BY <1>1, <2>1, Budgeted
<1>. QED  BY <1>1, <1>2, <1>3, Listens

LEMMA RxIdStep ==
  ASSUME Core, NEW cb, NEW c, rx_id_cb(cb, c),
         <<cb, c>> \in {<<"page_scan_rx_id_cb", "page_scan_rx_fhs_cb">>, <<"monitor1_rx_id_cb", "monitor1_rx_fhs_cb">>}
  PROVE  Core'
<1>1. CalledBy(cb) /\ cb \in ScanCallbacks /\ cb # "none" /\ Serves(cb) = "PAGE_SCAN" /\ cb \notin OfMasters
  BY DEF rx_id_cb, CalledBy, ScanCallbacks, Serves, OfMasters
<1>2. c \in RxCallbacks /\ c # "none" /\ Serves(c) = "PAGE_SCAN" /\ c \notin OfMasters
  BY DEF RxCallbacks, Serves, OfMasters
<1>3. TxSlot = 1 /\ (state # "STANDBY" => Budget = DRAIN)
  BY <1>1, SlotOf, Budgeted
<1>4. CASE Canceled("PAGE_SCAN")
  BY <1>1, <1>4, CancelledRests
<1>5. CASE state = "PAGE_SCAN" /\ ScheduleTxRx(Until(1, clkn), FALSE, c) /\ SameState
  BY <1>1, <1>2, <1>3, <1>5, SendsBoth
<1>6. CASE state = "PAGE_SCAN" /\ listen(cb)
  <2>1. SCAN_MAX_SLOTS <= Budget
    BY <1>3, <1>6, Arithmetic
  <2>. QED  BY <1>1, <1>6, <2>1, Listens
<1>. QED  BY <1>4, <1>5, <1>6 DEF rx_id_cb, SlaveTx

(* The packet that is no FHS: the search is left with nothing to do.         *)
LEMMA Stalls ==
  ASSUME NEW cb, CalledBy(cb), cb \in {"page_scan_rx_fhs_cb", "monitor1_rx_fhs_cb"},
         state = "PAGE_SCAN", pkt = "acl", ScheduleNothing, SameState
  PROVE  Core'
<1>1. Core /\ cb # "none" /\ Called(cb) /\ UNCHANGED <<state, txq, mode, clkn>>
  BY DEF CalledBy, SameState
<1>2. Settled
  BY <1>1, Stands DEF Core, Fields
<1>3. pkt' = pkt
  <2>1. pkt' = (IF WrongType(cb) THEN pkt ELSE "none")
    BY <1>1, CallFrame
  <2>. QED  BY <2>1 DEF WrongType
<1>4. Stalled'
  BY <1>1, <1>3 DEF Stalled
<1>. QED  BY <1>2, <1>4, NextRest

LEMMA PageScanFhsStep ==
  ASSUME Core, page_scan_rx_fhs_cb
  PROVE  Core'
<1>. DEFINE cb == "page_scan_rx_fhs_cb"
            c == "page_scan_tx_cb"
            l == "page_scan_rx_id_cb"
<1>1. CalledBy(cb) /\ cb # "none" /\ Serves(cb) = "PAGE_SCAN" /\ cb \notin OfMasters /\ Core /\ Called(cb)
  BY DEF page_scan_rx_fhs_cb, CalledBy, Serves, OfMasters
<1>2. l \in ScanCallbacks /\ l # "none" /\ Serves(l) = "PAGE_SCAN" /\ l \notin OfMasters
  BY DEF ScanCallbacks, Serves, OfMasters
<1>3. TxSlot = 1 /\ (state # "STANDBY" => Budget = DRAIN)
  BY <1>1, SlotOf, Budgeted
<1>4. CASE Canceled("PAGE_SCAN")
  BY <1>1, <1>4, CancelledRests
<1>5. CASE /\ state = "PAGE_SCAN" /\ clkn' = 1 /\ ScheduleTx(Until(1, clkn'), c, FALSE)
           /\ UNCHANGED <<state, txq, mode>>
  <2>1. Until(1, clkn') = 0 /\ At(clkn', 0, 1) /\ clkn' \in 0 .. 3
    BY <1>5 DEF Until, At
  <2>2. Settled
    BY <1>5, <2>1, Stands
  <2>3. For(cb)
    BY <1>1, CallFrame
  <2>4. For(c)'
    BY <1>5, <2>3 DEF For, Serves, OfMasters
  <2>5. TxSlot' = 1 /\ Budget' = DRAIN
    BY <1>3, <1>5 DEF TxSlot, Budget
  <2>6. c \in TxCallbacks /\ Lasts(c) = 2 /\ Then(c) = 0
    BY DEF TxCallbacks, Lasts, Then, Long
  <2>7. 0 + Lasts(c) + Then(c) <= Budget' /\ 0 \in 0 .. 7
    BY <2>5, <2>6, Arithmetic
  <2>8. ScheduleTx(0, c, FALSE)
    BY <1>5, <2>1
  <2>. QED  BY <1>1, <2>1, <2>2, <2>4, <2>5, <2>6, <2>7, <2>8, NextTx
<1>6. CASE state = "PAGE_SCAN" /\ pkt = "acl" /\ ScheduleNothing /\ SameState
  BY <1>1, <1>6, Stalls
<1>7. CASE state = "PAGE_SCAN" /\ listen(l)
  <2>1. SCAN_MAX_SLOTS <= Budget
    BY <1>3, <1>7, Arithmetic
  <2>. QED  BY <1>1, <1>2, <1>7, <2>1, Listens
<1>. QED  BY <1>4, <1>5, <1>6, <1>7 DEF page_scan_rx_fhs_cb, SlaveTx, SlaveSync

LEMMA PageScanTxStep ==
  ASSUME Core, page_scan_tx_cb
  PROVE  Core'
<1>. DEFINE cb == "page_scan_tx_cb"
<1>1. /\ CalledBy(cb) /\ cb # "none" /\ Called(cb) /\ Serves(cb) = "PAGE_SCAN"
      /\ mode' = "SLAVE" /\ set_state("CONNECTED") /\ rx_task("slave_rx_cb")
      /\ agenda' = RxSet(agenda, 4 + Until(3, clkn)) /\ died' = BadTransition("CONNECTED") \cup RxBusy
      /\ UNCHANGED <<clkn, tx, scan>>
  BY DEF page_scan_tx_cb, CalledBy, Serves, SlaveRx
<1>2. /\ Holds(agenda, tick, {}) /\ tick' = tick /\ tick > 0 /\ ~tx.hdr /\ ~rx.msg /\ radio = "idle" /\ radio' = "idle"
      /\ call' = "none" /\ For(cb) /\ clkn \in 0 .. 3 /\ pkt' \in PktKinds
      /\ UNCHANGED <<eir, expired, drain, rxq, session>>
  BY <1>1, CallFrame
<1>3. state \in {"PAGE_SCAN", "STANDBY"}
  BY <1>1, <1>2 DEF For
<1>4. Until(3, clkn) \in 0 .. 3
  BY <1>2, UntilFacts
<1>5. PICK d \in 1 .. 7 : d = 4 + Until(3, clkn)
  BY <1>4
<1>6. Holds(agenda, tick', {}) /\ tick' > 0 /\ agenda' = RxSet(agenda, d) /\ UNCHANGED radio
  BY <1>1, <1>2, <1>5
<1>. QED  BY <1>1, <1>2, <1>3, <1>6, SlaveBegins

LEMMA MonitorFhsStep ==
  ASSUME Core, monitor1_rx_fhs_cb
  PROVE  Core'
<1>. DEFINE cb == "monitor1_rx_fhs_cb"
            x == "start_monitor2"
            l == "monitor1_rx_id_cb"
<1>1. CalledBy(cb) /\ cb # "none" /\ Serves(cb) = "PAGE_SCAN" /\ cb \notin OfMasters /\ Called(cb)
  BY DEF monitor1_rx_fhs_cb, CalledBy, Serves, OfMasters
<1>2. l \in ScanCallbacks /\ l # "none" /\ Serves(l) = "PAGE_SCAN" /\ l \notin OfMasters
  BY DEF ScanCallbacks, Serves, OfMasters
<1>3. state # "STANDBY" => Budget = DRAIN
  BY <1>1, Budgeted
<1>4. CASE Canceled("PAGE_SCAN")
  BY <1>1, <1>4, CancelledRests
<1>5. CASE /\ state = "PAGE_SCAN" /\ clkn' = 1 /\ agenda' = tdma_schedule(agenda, 1, x)
           /\ UNCHANGED <<state, txq, mode, died, tx, rx, scan>>
  <2>1. clkn' \in 0 .. 3
    BY <1>5
  <2>2. Settled
    BY <1>5, <2>1, Stands
  <2>3. For(cb)
    BY <1>1, CallFrame
  <2>4. x # "scan_start" /\ x \in Openers /\ Opens(x) = 0
    BY DEF Openers, Opens
  <2>5. For(x)'
    BY <1>5, <2>3 DEF For, Serves, OfMasters
  <2>6. For(IF x = "scan_start" THEN scan.cb ELSE x)'
    BY <2>4, <2>5
  <2>7. 1 + Opens(x) <= Budget'
    <3>1. Budget' = DRAIN
      BY <1>5 DEF Budget
    <3>. QED  BY <2>4, <3>1, Arithmetic
  <2>8. scan' \in [cb : ScanCallbacks, slots : 0 .. SCAN_MAX_SLOTS]
    BY <1>5 DEF Core, Fields
  <2>. QED  BY <1>1, <1>5, <2>2, <2>4, <2>6, <2>7, <2>8, NextWait
<1>6. CASE state = "PAGE_SCAN" /\ pkt = "acl" /\ ScheduleNothing /\ SameState
  BY <1>1, <1>6, Stalls
<1>7. CASE state = "PAGE_SCAN" /\ listen(l)
  <2>1. SCAN_MAX_SLOTS <= Budget
    BY <1>3, <1>7, Arithmetic
  <2>. QED  BY <1>1, <1>2, <1>7, <2>1, Listens
<1>. QED  BY <1>4, <1>5, <1>6, <1>7 DEF monitor1_rx_fhs_cb, SlaveSync

LEMMA Monitor2Step ==
  ASSUME Core, monitor2_rx_cb
  PROVE  Core'
<1>. DEFINE cb == "monitor2_rx_cb"
<1>1. CalledBy(cb) /\ cb \in RxCallbacks /\ cb # "none" /\ Serves(cb) = "CONNECTED"
  BY DEF monitor2_rx_cb, CalledBy, RxCallbacks, Serves
<1>2. CASE Canceled("CONNECTED")
  BY <1>1, <1>2, CancelledRests
<1>3. CASE state = "CONNECTED" /\ ScheduleRx((1 - clkn) % 2, cb) /\ SameState
  <2>1. clkn \in 0 .. 3
    BY DEF Core, Fields
  <2>2. (1 - clkn) % 2 \in 0 .. 7
    BY <2>1
  <2>. QED  BY <1>1, <1>3, <2>2, Receives
<1>. QED  BY <1>2, <1>3 DEF monitor2_rx_cb

LEMMA MasterRxStep ==
  ASSUME Core, master_rx_cb
  PROVE  Core'
<1>. DEFINE cb == "master_rx_cb"
            c == "master_tx_done"
<1>1. CalledBy(cb) /\ cb # "none" /\ Serves(cb) = "CONNECTED" /\ cb \in OfMasters
  BY DEF master_rx_cb, CalledBy, Serves, OfMasters
<1>2. c \in TxCallbacks /\ c # "none" /\ Serves(c) = "CONNECTED" /\ c \in OfMasters /\ Lasts(c) = Air /\ Then(c) = Air
  BY DEF TxCallbacks, Serves, OfMasters, Lasts, Then, Long
<1>3. TxSlot = 3 /\ (state # "STANDBY" => Budget = DRAIN)
  BY <1>1, SlotOf, Budgeted
<1>4. CASE Canceled("CONNECTED")
  BY <1>1, <1>4, CancelledRests
<1>5. CASE Timeout
  BY <1>1, <1>5, TimesOut
<1>6. CASE state = "CONNECTED" /\ ScheduleTx(Until(3, clkn), c, TRUE) /\ SameState
  <2>1. 3 + Lasts(c) + Then(c) <= Budget
    BY <1>2, <1>3, <1>6, Arithmetic
  <2>. QED  BY <1>1, <1>2, <1>3, <1>6, <2>1, AnswersWith
<1>. QED  BY <1>4, <1>5, <1>6 DEF master_rx_cb, MasterTx

LEMMA SlaveRxStep ==
  ASSUME Core, slave_rx_cb
  PROVE  Core'
<1>. DEFINE cb == "slave_rx_cb"
            c == "slave_tx_done"
<1>1. CalledBy(cb) /\ cb \in RxCallbacks /\ cb # "none" /\ Serves(cb) = "CONNECTED" /\ cb \notin OfMasters
  BY DEF slave_rx_cb, CalledBy, Serves, OfMasters, RxCallbacks
<1>2. c \in TxCallbacks /\ c # "none" /\ Serves(c) = "CONNECTED" /\ c \notin OfMasters /\ Lasts(c) = Air /\ Then(c) = Air
  BY DEF TxCallbacks, Serves, OfMasters, Lasts, Then, Long
<1>3. TxSlot = 1 /\ (state # "STANDBY" => Budget = DRAIN)
  BY <1>1, SlotOf, Budgeted
<1>4. CASE Canceled("CONNECTED")
  BY <1>1, <1>4, CancelledRests
<1>5. CASE Timeout
  BY <1>1, <1>5, TimesOut
<1>6. CASE state = "CONNECTED" /\ ScheduleTx(Until(1, clkn), c, TRUE) /\ SameState
  <2>1. 3 + Lasts(c) + Then(c) <= Budget
    BY <1>2, <1>3, <1>6, Arithmetic
  <2>. QED  BY <1>1, <1>2, <1>3, <1>6, <2>1, AnswersWith
<1>7. CASE state = "CONNECTED" /\ ScheduleRx(Until(3, clkn), cb) /\ SameState
  <2>1. clkn \in 0 .. 3
    BY DEF Core, Fields
  <2>2. Until(3, clkn) \in 0 .. 7
    BY <2>1 DEF Until
  <2>. QED  BY <1>1, <1>7, <2>2, Receives
<1>. QED  BY <1>4, <1>5, <1>6, <1>7 DEF slave_rx_cb, SlaveTx, SlaveRx

(* A transmission that ends opens the receiver in the very slot: even if the *)
(* connection was stopped, e closes in time.                                *)
LEMMA TxDone ==
  ASSUME NEW cb, CalledBy(cb), NEW c \in RxCallbacks, NEW i \in {1, 3}, ScheduleRx(Until(i, clkn), c), SameState,
         <<cb, c, i>> \in {<<"master_tx_done", "master_rx_cb", 1>>, <<"slave_tx_done", "slave_rx_cb", 3>>}
  PROVE  Core'
<1>1. Core /\ cb # "none" /\ Called(cb) /\ UNCHANGED <<state, txq, mode, clkn>>
  BY DEF CalledBy, SameState
<1>2. Settled
  BY <1>1, Stands DEF Core, Fields
<1>3. For(cb) /\ clkn \in 0 .. 3 /\ Then(cb) <= Budget /\ Budget \in Int /\ UNCHANGED drain
  BY <1>1, CallFrame
<1>4. c # "none" /\ Serves(c) = Serves(cb) /\ (c \in OfMasters <=> cb \in OfMasters) /\ Then(cb) = Air
  BY DEF Serves, OfMasters, Then
<1>5. For(c)'
  BY <1>1, <1>3, <1>4 DEF For
<1>6. At(clkn, 0, TxSlot + 2)
  <2>1. cb \in {"master_tx_done", "slave_tx_done"}
    OBVIOUS
  <2>. QED  BY <1>1, <2>1, CallFrame
<1>7. TxSlot + 2 = (IF i = 1 THEN 5 ELSE 3)
  <2>1. TxSlot = (IF cb \in OfMasters THEN 3 ELSE 1)
    BY SlotOf
  <2>2. CASE cb = "master_tx_done" /\ i = 1
    BY <2>1, <2>2 DEF OfMasters
  <2>3. CASE cb = "slave_tx_done" /\ i = 3
    BY <2>1, <2>3 DEF OfMasters
  <2>. QED  BY <2>2, <2>3
<1>8. Until(i, clkn) = 0
  BY <1>3, <1>6, <1>7 DEF Until, At
<1>9. ScheduleRx(0, c) /\ 0 \in 0 .. 7
  BY <1>8
<1>10. 0 + Air <= Budget'
  <2>1. Budget' = Budget
    BY <1>1, <1>3 DEF Budget
  <2>. QED  BY <1>3, <1>4, <2>1, Arithmetic
<1>. QED  BY <1>2, <1>5, <1>9, <1>10, NextRx

LEMMA MasterTxDoneStep ==
  ASSUME Core, master_tx_done
  PROVE  Core'
<1>1. CalledBy("master_tx_done") /\ "master_rx_cb" \in RxCallbacks
  BY DEF CalledBy, master_tx_done, RxCallbacks
<1>2. ScheduleRx(Until(1, clkn), "master_rx_cb") /\ SameState
  BY DEF master_tx_done, MasterRx
<1>. QED  BY <1>1, <1>2, TxDone

LEMMA SlaveTxDoneStep ==
  ASSUME Core, slave_tx_done
  PROVE  Core'
<1>1. CalledBy("slave_tx_done") /\ "slave_rx_cb" \in RxCallbacks
  BY DEF CalledBy, slave_tx_done, RxCallbacks
<1>2. ScheduleRx(Until(3, clkn), "slave_rx_cb") /\ SameState
  BY DEF slave_tx_done, SlaveRx
<1>. QED  BY <1>1, <1>2, TxDone

-----------------------------------------------------------------------------
(* What the time, the main loop and the host leave as e is.                 *)
LEMMA Carries ==
  ASSUME Fields, call = "none", NEW S, TaskChain(S), UNCHANGED <<call, tx, rx, scan, radio, TxSlot>>,
         (Operating => state = "STANDBY" \/ Stalled) => (Operating' => state' = "STANDBY" \/ Stalled'),
         \A n \in Nat : Soon(n) => Soon(n)',
         \A d \in 0 .. 10, i \in 0 .. 5 : On(d, i) => On(d, i)',
         \A c : For(c) => For(c)'
  PROVE  TaskChain(S)'
<1>1. TxSlot \in {1, 3}
  BY Times
<1>2. TxSlot \in 0 .. 5 /\ TxSlot + 1 \in 0 .. 5 /\ TxSlot + 2 \in 0 .. 5
  BY <1>1
<1>3. Air \in Nat /\ SCAN_MAX_SLOTS \in Nat /\ Air >= 2
  BY Arithmetic
<1>4. \A c : Lasts(c) \in Nat /\ Then(c) \in Nat /\ Opens(c) \in Nat
  BY Durations
<1>5. CASE Rest(S)
  <2>1. Rest(S)'
    BY <1>5 DEF Rest
  <2>. QED  BY <2>1 DEF TaskChain
<1>6. CASE Calling(S)
  BY <1>6 DEF Calling
<1>7. ASSUME NEW k \in 0 .. 2, NEW x \in Openers, Waits(S, x, k)
      PROVE  TaskChain(S)'
  <2>1. k + Opens(x) \in Nat
    BY <1>4
  <2>2. Soon(k + Opens(x))'
    BY <1>7, <2>1 DEF Waits
  <2>3. For(IF x = "scan_start" THEN scan.cb ELSE x)'
    BY <1>7 DEF Waits, For
  <2>4. Waits(S, x, k)'
    BY <1>7, <2>2, <2>3 DEF Waits
  <2>. QED  BY <2>4 DEF TaskChain
<1>8. ASSUME NEW k \in 0 .. 1, Scans(S, k)
      PROVE  TaskChain(S)'
  <2>1. k + SCAN_MAX_SLOTS - scan.slots - 1 \in Nat
    BY <1>3, <1>8 DEF Scans
  <2>2. Soon(k + SCAN_MAX_SLOTS - scan.slots - 1)'
    BY <1>8, <2>1 DEF Scans, Soon
  <2>3. For(scan.cb)'
    BY <1>8 DEF Scans, For
  <2>4. Scans(S, k)'
    BY <1>8, <2>2, <2>3 DEF Scans
  <2>. QED  BY <2>4 DEF TaskChain
<1>9. ASSUME NEW k \in 0 .. 1, RxGoes(S, k)
      PROVE  TaskChain(S)'
  <2>1. k + Air - 1 \in Nat
    BY <1>3
  <2>2. Soon(k + Air - 1)' /\ For(rx.cb)'
    BY <1>9, <2>1 DEF RxGoes, For
  <2>3. RxGoes(S, k)'
    BY <1>9, <2>2 DEF RxGoes
  <2>. QED  BY <2>3 DEF TaskChain
<1>10. ASSUME NEW k \in 0 .. 1, RxDecodes(S, k)
       PROVE  TaskChain(S)'
  <2>1. k + rx.left - 1 \in Nat
    BY <1>3, <1>10 DEF RxDecodes
  <2>2. Soon(k + rx.left - 1)' /\ For(rx.cb)'
    BY <1>10, <2>1 DEF RxDecodes, For, Soon
  <2>3. RxDecodes(S, k)'
    BY <1>10, <2>2 DEF RxDecodes
  <2>. QED  BY <2>3 DEF TaskChain
<1>11. ASSUME NEW k \in 0 .. 1, BothGo(S, k)
       PROVE  TaskChain(S)'
  <2>1. k + 1 + Air \in Nat /\ k \in 0 .. 10
    BY <1>3
  <2>2. Soon(k + 1 + Air)' /\ For(rx.cb)'
    BY <1>11, <2>1 DEF BothGo, For
  <2>3. On(k, TxSlot + 1)'
    BY <1>2, <1>11, <2>1 DEF BothGo, On
  <2>4. BothGo(S, k)'
    BY <1>11, <2>2, <2>3 DEF BothGo
  <2>. QED  BY <2>4 DEF TaskChain
<1>12. ASSUME NEW k \in 0 .. 1, BothEnd(S, k)
       PROVE  TaskChain(S)'
  <2>1. k + Air \in Nat
    BY <1>3
  <2>2. Soon(k + Air)' /\ For(rx.cb)'
    BY <1>12, <2>1 DEF BothEnd, For
  <2>3. BothEnd(S, k)'
    BY <1>12, <2>2 DEF BothEnd
  <2>. QED  BY <2>3 DEF TaskChain
<1>13. ASSUME NEW k \in 0 .. 7, TxReady(S, k)
       PROVE  TaskChain(S)'
  <2>1. k + Lasts(tx.cb) + Then(tx.cb) \in Nat /\ k \in 0 .. 10
    BY <1>4
  <2>2. Soon(k + Lasts(tx.cb) + Then(tx.cb))' /\ For(tx.cb)'
    BY <1>13, <2>1 DEF TxReady, For, Soon
  <2>3. On(k, TxSlot)'
    BY <1>2, <1>13, <2>1 DEF TxReady, On
  <2>4. TxReady(S, k)'
    BY <1>13, <2>2, <2>3 DEF TxReady
  <2>. QED  BY <2>4 DEF TaskChain
<1>14. ASSUME NEW k \in 0 .. 7, BothReady(S, k)
       PROVE  TaskChain(S)'
  <2>1. k + 2 + Air \in Nat /\ k \in 0 .. 10
    BY <1>3
  <2>2. Soon(k + 2 + Air)' /\ For(rx.cb)'
    BY <1>14, <2>1 DEF BothReady, For
  <2>3. On(k, TxSlot)'
    BY <1>2, <1>14, <2>1 DEF BothReady, On
  <2>4. BothReady(S, k)'
    BY <1>14, <2>2, <2>3 DEF BothReady
  <2>. QED  BY <2>4 DEF TaskChain
<1>15. ASSUME NEW k \in 0 .. 7, RxReady(S, k)
       PROVE  TaskChain(S)'
  <2>1. k + Air \in Nat
    BY <1>3
  <2>2. Soon(k + Air)' /\ For(rx.cb)'
    BY <1>15, <2>1 DEF RxReady, For
  <2>3. RxReady(S, k)'
    BY <1>15, <2>2 DEF RxReady
  <2>. QED  BY <2>3 DEF TaskChain
<1>16. ASSUME NEW k \in 0 .. 1, NEW f \in 1 .. 10, TxGoes(S, k, f)
       PROVE  TaskChain(S)'
  <2>1. f + Then(tx.cb) \in Nat /\ k \in 0 .. 10
    BY <1>4
  <2>2. Soon(f + Then(tx.cb))' /\ For(tx.cb)'
    BY <1>16, <2>1 DEF TxGoes, For, Soon
  <2>3. On(k, TxSlot + 1)'
    BY <1>2, <1>16, <2>1 DEF TxGoes, On
  <2>4. TxGoes(S, k, f)'
    BY <1>16, <2>2, <2>3 DEF TxGoes
  <2>. QED  BY <2>4 DEF TaskChain
<1>17. ASSUME NEW f \in 0 .. 9, TxEnds(S, f)
       PROVE  TaskChain(S)'
  <2>1. f + Then(tx.cb) \in Nat /\ f \in 0 .. 10
    BY <1>4
  <2>2. Soon(f + Then(tx.cb))' /\ For(tx.cb)'
    BY <1>17, <2>1 DEF TxEnds, For, Soon
  <2>3. On(f, TxSlot + 2)'
    BY <1>2, <1>17, <2>1 DEF TxEnds, On
  <2>4. TxEnds(S, f)'
    BY <1>17, <2>2, <2>3 DEF TxEnds
  <2>. QED  BY <2>4 DEF TaskChain
<1>. QED  BY <1>5, <1>6, <1>7, <1>8, <1>9, <1>10, <1>11, <1>12, <1>13, <1>14, <1>15, <1>16, <1>17 DEF TaskChain

(* Once a command has been taken, the device rests: the idle handler waits   *)
(* for what is still scheduled.                                              *)
LEMMA Awaited ==
  ASSUME Fields, NEW S, TaskChain(S), tick = 0, Operating, state = "STANDBY", drain = 0
  PROVE  Rest(S)
<1>1. \A n \in Nat : ~Soon(n)
  BY DEF Soon, Budget, Wait
<1>2. Air \in Nat /\ SCAN_MAX_SLOTS \in Nat /\ Air >= 2
  BY Arithmetic
<1>3. \A c : Lasts(c) \in Nat /\ Then(c) \in Nat /\ Opens(c) \in Nat
  BY Durations
<1>4. ASSUME NEW n, n \in Nat, Soon(n)  PROVE FALSE
  BY <1>1, <1>4
<1>5. ~Calling(S)
  BY DEF Calling
<1>6. ~(\E k \in 0 .. 2, x \in Openers : Waits(S, x, k))
  <2>1. \A k \in 0 .. 2, x \in Openers : k + Opens(x) \in Nat
    BY <1>3
  <2>. QED  BY <1>1, <2>1 DEF Waits
<1>7. ~(\E k \in 0 .. 1 : Scans(S, k))
  <2>1. ASSUME NEW k \in 0 .. 1, Scans(S, k)  PROVE FALSE
    <3>1. k + SCAN_MAX_SLOTS - scan.slots - 1 \in Nat
      BY <1>2, <2>1 DEF Scans
    <3>. QED  BY <1>1, <2>1, <3>1 DEF Scans
  <2>. QED  BY <2>1
<1>8. ~(\E k \in 0 .. 1 : RxGoes(S, k) \/ BothGo(S, k) \/ BothEnd(S, k))
  <2>1. \A k \in 0 .. 1 : k + Air - 1 \in Nat /\ k + 1 + Air \in Nat /\ k + Air \in Nat
    BY <1>2
  <2>. QED  BY <1>1, <2>1 DEF RxGoes, BothGo, BothEnd
<1>9. ~(\E k \in 0 .. 1 : RxDecodes(S, k))
  <2>1. ASSUME NEW k \in 0 .. 1, RxDecodes(S, k)  PROVE FALSE
    <3>1. k + rx.left - 1 \in Nat
      BY <1>2, <2>1 DEF RxDecodes
    <3>. QED  BY <1>1, <2>1, <3>1 DEF RxDecodes
  <2>. QED  BY <2>1
<1>10. ~(\E k \in 0 .. 7 : TxReady(S, k) \/ BothReady(S, k) \/ RxReady(S, k))
  <2>1. \A k \in 0 .. 7 : k + Lasts(tx.cb) + Then(tx.cb) \in Nat /\ k + 2 + Air \in Nat /\ k + Air \in Nat
    BY <1>2, <1>3
  <2>. QED  BY <1>1, <2>1 DEF TxReady, BothReady, RxReady
<1>11. ~(\E k \in 0 .. 1, f \in 1 .. 10 : TxGoes(S, k, f)) /\ ~(\E f \in 0 .. 9 : TxEnds(S, f))
  <2>1. \A f \in 0 .. 10 : f + Then(tx.cb) \in Nat
    BY <1>3
  <2>. QED  BY <1>1, <2>1 DEF TxGoes, TxEnds
<1>. QED  BY <1>5, <1>6, <1>7, <1>8, <1>9, <1>10, <1>11 DEF TaskChain

LEMMA AtMod ==
  ASSUME NEW c \in 0 .. 4, NEW d \in 0 .. 10, NEW i \in 0 .. 5, At(c, d, i)
  PROVE  At(c % 4, d, i)
  BY DEF At

LEMMA TickStartStep ==
  ASSUME Core, TickStart
  PROVE  Core'
<1>1. /\ Operating /\ tick = 0 /\ clkn' = (clkn + 1) % 4 /\ tick' = 1
      /\ drain' = (IF drain > 0 THEN drain - 1 ELSE 0)
      /\ UNCHANGED <<state, txq, mode, died, call, tx, rx, pkt, scan, radio, eir, expired, rxq, session>>
  BY DEF TickStart, ctlHost
<1>2. PICK s \in Sorted(agenda[0]) : agenda' = [agenda EXCEPT ![0] = s]
  BY DEF TickStart
<1>3. PICK S : Holds(agenda, tick, S) /\ TaskChain(S)
  BY ChainIs DEF Core
<1>4. Holds(agenda', tick', S)
  BY <1>1, <1>2, <1>3, TickSorts
<1>5. clkn \in 0 .. 3 /\ drain \in 0 .. DRAIN /\ DRAIN \in Nat
  BY Arithmetic DEF Core, Fields
<1>6. clkn' \in 0 .. 3 /\ drain' \in 0 .. DRAIN
  BY <1>1, <1>5
<1>7. Fields' /\ died' \subseteq {"Invalid state transition"}
  BY <1>1, <1>6 DEF Core, Fields
<1>8. call = "none"
  <2>1. ~Calling(S)
    BY <1>1 DEF Calling
  <2>. QED  BY <1>3, <2>1, WhoseCall
<1>9. UNCHANGED <<call, tx, rx, scan, radio, TxSlot>>
  BY <1>1 DEF TxSlot
<1>10. \A n \in Nat : Soon(n) => Soon(n)'
  <2>1. SUFFICES ASSUME NEW n \in Nat, Soon(n)  PROVE Soon(n)'
    OBVIOUS
  <2>2. Wait = 1 /\ Wait' = 0
    BY <1>1 DEF Wait
  <2>3. n + 1 <= Budget
    BY <1>1, <2>1, <2>2 DEF Soon
  <2>4. n + 0 <= Budget'
    <3>1. CASE state = "STANDBY"
      BY <1>1, <1>5, <2>3, <3>1 DEF Budget
    <3>2. CASE state # "STANDBY"
      BY <1>1, <1>5, <2>3, <3>2 DEF Budget
    <3>. QED  BY <3>1, <3>2
  <2>. QED  BY <2>2, <2>4 DEF Soon
<1>11. \A d \in 0 .. 10, i \in 0 .. 5 : On(d, i) => On(d, i)'
  <2>1. Now = clkn + 1 /\ Now' = (clkn + 1) % 4 /\ clkn + 1 \in 0 .. 4
    BY <1>1, <1>5 DEF Now
  <2>. QED  BY <2>1, AtMod DEF On
<1>12. \A c : For(c) => For(c)'
  BY <1>1 DEF For
<1>13. (Operating => state = "STANDBY" \/ Stalled) => (Operating' => state' = "STANDBY" \/ Stalled')
  BY <1>1 DEF Operating, Stalled
<1>14. TaskChain(S)'
  BY <1>3, <1>8, <1>9, <1>10, <1>11, <1>12, <1>13, Carries DEF Core
<1>. QED  BY <1>4, <1>7, <1>14, ChainNext DEF Core

(* The next bucket: everything is a tick nearer.                             *)
LEMMA TickEndStep ==
  ASSUME Core, TickEnd
  PROVE  Core'
<1>1. /\ Operating /\ call = "none" /\ tick > Len(agenda[0]) /\ agenda' = Advanced(agenda) /\ tick' = 0
      /\ UNCHANGED <<state, txq, eir, expired, drain, mode, died, call, clkn, tx, rx, pkt, scan, radio, rxq, session>>
  BY DEF TickEnd, ctlHost, btctl
<1>2. PICK S : Holds(agenda, tick, S) /\ TaskChain(S)
  BY ChainIs DEF Core
<1>3. Holds(agenda', tick', Shift(S)) /\ \A e \in S : e[1] \in 1 .. NUM_FRAMES - 1
  BY <1>1, <1>2, TickEnds
<1>4. \A k, x : <<k, x>> \in S => k # 0
  <2>1. ASSUME NEW k, NEW x, <<k, x>> \in S  PROVE k # 0
    <3>1. <<k, x>>[1] \in 1 .. NUM_FRAMES - 1
      BY <1>3, <2>1
    <3>. QED  BY <3>1, CtlConsts
  <2>. QED  BY <2>1
<1>5. tick \in Nat /\ tick > 0
  <2>1. tick \in Nat /\ agenda[0] \in Seq(Items)
    BY <1>2, Buckets, CtlConsts DEF Holds
  <2>2. Len(agenda[0]) \in Nat
    BY <2>1, LenProperties
  <2>. QED  BY <1>1, <2>1, <2>2
<1>6. Fields' /\ died' \subseteq {"Invalid state transition"}
  BY <1>1 DEF Core, Fields
<1>7. /\ Wait = 0 /\ Wait' = 1 /\ Budget' = Budget /\ Budget \in Int /\ Now = clkn /\ Now' = clkn + 1 /\ clkn \in 0 .. 3
      /\ TxSlot' = TxSlot /\ TxSlot \in {1, 3} /\ died = {} /\ died' = {}
  <2>1. Budget \in Int /\ TxSlot \in {1, 3} /\ clkn \in 0 .. 3
    BY Times DEF Core, Fields
  <2>2. Wait = 0 /\ Wait' = 1 /\ Now = clkn /\ Now' = clkn + 1
    BY <1>1, <1>5 DEF Wait, Now
  <2>3. Budget' = Budget /\ TxSlot' = TxSlot /\ died = {} /\ died' = {}
    BY <1>1 DEF Budget, TxSlot, Operating
  <2>. QED  BY <2>1, <2>2, <2>3
<1>8. \A m, n \in Int : m <= n - 1 /\ Soon(n) => Soon(m)'
  BY <1>7 DEF Soon, Operating
<1>9. \A c : For(c) => For(c)'
  BY <1>1 DEF For
<1>10. \A d \in 1 .. 10, i \in 0 .. 5 : On(d, i) => On(d - 1, i)'
  <2>1. \A d \in 1 .. 10, i \in 0 .. 5 : At(clkn, d, i) => At(clkn + 1, d - 1, i)
    BY <1>7 DEF At
  <2>. QED  BY <1>7, <2>1 DEF On
<1>11. Air \in Nat /\ SCAN_MAX_SLOTS \in Nat /\ Air >= 2
  BY Arithmetic
<1>12. \A c : Lasts(c) \in Nat /\ Then(c) \in Nat /\ Opens(c) \in Nat
  BY Durations
<1>13. TxSlot \in 0 .. 5 /\ TxSlot + 1 \in 0 .. 5 /\ TxSlot + 2 \in 0 .. 5
  BY <1>7
<1>. DEFINE T == Shift(S)
<1>14. SUFFICES TaskChain(T)'
  BY <1>3, <1>6, ChainNext DEF Core
<1>15. CASE Rest(S)
  <2>1. T = {}
    BY <1>15 DEF Rest, Shift
  <2>2. (Operating' => state' = "STANDBY" \/ Stalled')
    BY <1>1, <1>15 DEF Rest, Operating, Stalled
  <2>3. Rest({})'
    BY <1>1, <1>15, <2>2 DEF Rest
  <2>4. TaskChain({})'
    BY <2>3 DEF TaskChain
  <2>. QED  BY <2>1, <2>4
<1>16. CASE Calling(S)
  BY <1>1, <1>16 DEF Calling
<1>17. ASSUME NEW k \in 0 .. 2, NEW x \in Openers, Waits(S, x, k)
       PROVE  TaskChain(T)'
  <2>1. k # 0 /\ T = {<<k - 1, x>>} /\ k - 1 \in 0 .. 2
    <3>1. S = {<<k, x>>}
      BY <1>17 DEF Waits
    <3>2. k # 0
      BY <1>4, <3>1
    <3>3. T = {<<k - 1, x>>}
      BY <3>1 DEF Shift
    <3>. QED  BY <3>2, <3>3
  <2>2. Soon(k - 1 + Opens(x))'
    <3>1. k - 1 + Opens(x) \in Int /\ k + Opens(x) \in Int /\ k - 1 + Opens(x) <= (k + Opens(x)) - 1
      BY <1>12
    <3>2. Soon(k + Opens(x))
      BY <1>17 DEF Waits
    <3>. QED  BY <1>8, <3>1, <3>2
  <2>3. For(IF x = "scan_start" THEN scan.cb ELSE x)'
    BY <1>1, <1>17 DEF Waits, For
  <2>4. Waits({<<k - 1, x>>}, x, k - 1)'
    BY <1>1, <1>17, <2>2, <2>3 DEF Waits
  <2>5. TaskChain({<<k - 1, x>>})'
    BY <2>1, <2>4 DEF TaskChain
  <2>. QED  BY <2>1, <2>5
<1>18. ASSUME NEW k \in 0 .. 1, Scans(S, k)
       PROVE  TaskChain(T)'
  <2>1. k = 1 /\ T = {<<0, "scan_wait_more">>}
    <3>1. S = {<<k, "scan_wait_more">>}
      BY <1>18 DEF Scans
    <3>2. k = 1
      BY <1>4, <3>1
    <3>. QED  BY <3>1, <3>2 DEF Shift
  <2>2. Soon(0 + SCAN_MAX_SLOTS - scan.slots - 1)'
    <3>1. scan.slots \in Int
      BY <1>18, <1>11 DEF Scans
    <3>2. Soon(1 + SCAN_MAX_SLOTS - scan.slots - 1)
      BY <1>18, <2>1 DEF Scans
    <3>3. /\ 0 + SCAN_MAX_SLOTS - scan.slots - 1 \in Int /\ 1 + SCAN_MAX_SLOTS - scan.slots - 1 \in Int
          /\ 0 + SCAN_MAX_SLOTS - scan.slots - 1 <= (1 + SCAN_MAX_SLOTS - scan.slots - 1) - 1
      BY <1>11, <3>1
    <3>. QED  BY <1>1, <1>8, <3>2, <3>3 DEF Soon
  <2>3. For(scan.cb)'
    BY <1>1, <1>18 DEF Scans, For
  <2>4. Scans({<<0, "scan_wait_more">>}, 0)'
    BY <1>1, <1>18, <2>2, <2>3 DEF Scans
  <2>5. TaskChain({<<0, "scan_wait_more">>})'
    BY <2>4 DEF TaskChain
  <2>. QED  BY <2>1, <2>5
<1>19. ASSUME NEW k \in 0 .. 1, RxGoes(S, k)
       PROVE  TaskChain(T)'
  <2>1. k = 1 /\ T = {<<0, "rx_execute">>}
    <3>1. S = {<<k, "rx_execute">>}
      BY <1>19 DEF RxGoes
    <3>2. k = 1
      BY <1>4, <3>1
    <3>. QED  BY <3>1, <3>2 DEF Shift
  <2>2. Soon(0 + Air - 1)'
    <3>1. 0 + Air - 1 \in Int /\ 1 + Air - 1 \in Int /\ 0 + Air - 1 <= (1 + Air - 1) - 1
      BY <1>11
    <3>. QED  BY <1>8, <1>19, <2>1, <3>1 DEF RxGoes
  <2>3. For(rx.cb)'
    BY <1>1, <1>19 DEF RxGoes, For
  <2>4. RxGoes({<<0, "rx_execute">>}, 0)'
    BY <1>1, <1>19, <2>2, <2>3 DEF RxGoes
  <2>5. TaskChain({<<0, "rx_execute">>})'
    BY <2>4 DEF TaskChain
  <2>. QED  BY <2>1, <2>5
<1>20. ASSUME NEW k \in 0 .. 1, RxDecodes(S, k)
       PROVE  TaskChain(T)'
  <2>1. k = 1 /\ T = {<<0, "rx_decode">>}
    <3>1. S = {<<k, "rx_decode">>}
      BY <1>20 DEF RxDecodes
    <3>2. k = 1
      BY <1>4, <3>1
    <3>. QED  BY <3>1, <3>2 DEF Shift
  <2>2. Soon(0 + rx.left - 1)'
    <3>1. rx.left \in Int
      BY <1>20, <1>11 DEF RxDecodes
    <3>2. Soon(1 + rx.left - 1)
      BY <1>20, <2>1 DEF RxDecodes
    <3>3. 0 + rx.left - 1 \in Int /\ 1 + rx.left - 1 \in Int /\ 0 + rx.left - 1 <= (1 + rx.left - 1) - 1
      BY <3>1
    <3>. QED  BY <1>1, <1>8, <3>2, <3>3 DEF Soon
  <2>3. For(rx.cb)'
    BY <1>1, <1>20 DEF RxDecodes, For
  <2>4. RxDecodes({<<0, "rx_decode">>}, 0)'
    BY <1>1, <1>20, <2>2, <2>3 DEF RxDecodes
  <2>5. TaskChain({<<0, "rx_decode">>})'
    BY <2>4 DEF TaskChain
  <2>. QED  BY <2>1, <2>5
<1>21. ASSUME NEW k \in 0 .. 1, BothGo(S, k)
       PROVE  TaskChain(T)'
  <2>. DEFINE Q == {<<0, "tx_execute">>, <<1, "tx_finalize">>} \cup RxAt(1)
  <2>1. k = 1 /\ T = Q
    <3>1. S = {<<k, "tx_execute">>, <<k + 1, "tx_finalize">>} \cup RxAt(k + 1)
      BY <1>21 DEF BothGo
    <3>2. k = 1
      <4>1. <<k, "tx_execute">> \in S
        BY <3>1
      <4>2. k # 0
        BY <1>4, <4>1
      <4>. QED  BY <4>2
    <3>3. S = {<<1, "tx_execute">>, <<2, "tx_finalize">>, <<2, "rx_prepare">>, <<3, "rx_execute">>}
      BY <3>1, <3>2 DEF RxAt
    <3>4. T = {<<0, "tx_execute">>, <<1, "tx_finalize">>, <<1, "rx_prepare">>, <<2, "rx_execute">>}
      BY <3>3 DEF Shift
    <3>. QED  BY <3>2, <3>4 DEF RxAt
  <2>2. Soon(0 + 1 + Air)'
    <3>1. 0 + 1 + Air \in Int /\ 1 + 1 + Air \in Int /\ 0 + 1 + Air <= (1 + 1 + Air) - 1
      BY <1>11
    <3>. QED  BY <1>8, <1>21, <2>1, <3>1 DEF BothGo
  <2>3. For(rx.cb)'
    BY <1>1, <1>21 DEF BothGo, For
  <2>4. On(0, TxSlot + 1)'
    <3>1. On(1, TxSlot + 1) /\ 1 \in 1 .. 10
      BY <1>21, <2>1 DEF BothGo
    <3>2. At(Now', 1 - 1, TxSlot + 1)
      BY <1>10, <1>13, <3>1 DEF On
    <3>. QED  BY <1>7, <3>2 DEF On
  <2>5. BothGo(Q, 0)'
    BY <1>1, <1>21, <2>2, <2>3, <2>4 DEF BothGo
  <2>6. TaskChain(Q)'
    BY <2>5 DEF TaskChain
  <2>. QED  BY <2>1, <2>6
<1>22. ASSUME NEW k \in 0 .. 1, BothEnd(S, k)
       PROVE  TaskChain(T)'
  <2>. DEFINE Q == {<<0, "tx_finalize">>} \cup RxAt(0)
  <2>1. k = 1 /\ T = Q
    <3>1. S = {<<k, "tx_finalize">>} \cup RxAt(k)
      BY <1>22 DEF BothEnd
    <3>2. k = 1
      <4>1. <<k, "tx_finalize">> \in S
        BY <3>1
      <4>2. k # 0
        BY <1>4, <4>1
      <4>. QED  BY <4>2
    <3>3. S = {<<1, "tx_finalize">>, <<1, "rx_prepare">>, <<2, "rx_execute">>}
      BY <3>1, <3>2 DEF RxAt
    <3>4. T = {<<0, "tx_finalize">>, <<0, "rx_prepare">>, <<1, "rx_execute">>}
      BY <3>3 DEF Shift
    <3>. QED  BY <3>2, <3>4 DEF RxAt
  <2>2. Soon(0 + Air)'
    <3>1. 0 + Air \in Int /\ 1 + Air \in Int /\ 0 + Air <= (1 + Air) - 1
      BY <1>11
    <3>. QED  BY <1>8, <1>22, <2>1, <3>1 DEF BothEnd
  <2>3. For(rx.cb)'
    BY <1>1, <1>22 DEF BothEnd, For
  <2>4. BothEnd(Q, 0)'
    BY <1>1, <1>22, <2>2, <2>3 DEF BothEnd
  <2>5. TaskChain(Q)'
    BY <2>4 DEF TaskChain
  <2>. QED  BY <2>1, <2>5
<1>23. ASSUME NEW k \in 0 .. 7, TxReady(S, k)
       PROVE  TaskChain(T)'
  <2>1. k # 0 /\ T = TxAt(k - 1) /\ k - 1 \in 0 .. 7 /\ k \in 1 .. 10
    <3>1. S = {<<k, "tx_prepare">>, <<k + 1, "tx_execute">>}
      BY <1>23 DEF TxReady, TxAt
    <3>2. k # 0
      BY <1>4, <3>1
    <3>3. T = {<<k - 1, "tx_prepare">>, <<k - 1 + 1, "tx_execute">>}
      BY <3>1 DEF Shift
    <3>. QED  BY <3>2, <3>3 DEF TxAt
  <2>2. Soon(k - 1 + Lasts(tx.cb) + Then(tx.cb))'
    <3>1. Soon(k + Lasts(tx.cb) + Then(tx.cb))
      BY <1>23 DEF TxReady
    <3>2. /\ k - 1 + Lasts(tx.cb) + Then(tx.cb) \in Int /\ k + Lasts(tx.cb) + Then(tx.cb) \in Int
          /\ k - 1 + Lasts(tx.cb) + Then(tx.cb) <= (k + Lasts(tx.cb) + Then(tx.cb)) - 1
      BY <1>12
    <3>. QED  BY <1>1, <1>8, <3>1, <3>2 DEF Soon
  <2>3. For(tx.cb)'
    BY <1>1, <1>23 DEF TxReady, For
  <2>4. On(k - 1, TxSlot)'
    <3>1. At(Now', k - 1, TxSlot)
      BY <1>10, <1>13, <1>23, <2>1 DEF TxReady, On
    <3>. QED  BY <1>7, <3>1 DEF On
  <2>5. TxReady(TxAt(k - 1), k - 1)'
    BY <1>1, <1>23, <2>2, <2>3, <2>4 DEF TxReady
  <2>6. TaskChain(TxAt(k - 1))'
    BY <2>1, <2>5 DEF TaskChain
  <2>. QED  BY <2>1, <2>6
<1>24. ASSUME NEW k \in 0 .. 7, BothReady(S, k)
       PROVE  TaskChain(T)'
  <2>. DEFINE Q == TxAt(k - 1) \cup RxAt(k - 1 + 2)
  <2>1. k # 0 /\ T = Q /\ k - 1 \in 0 .. 7 /\ k \in 1 .. 10
    <3>1. S = {<<k, "tx_prepare">>, <<k + 1, "tx_execute">>, <<k + 2, "rx_prepare">>, <<k + 3, "rx_execute">>}
      BY <1>24 DEF BothReady, TxAt, RxAt
    <3>2. k # 0
      BY <1>4, <3>1
    <3>3. T = {<<k - 1, "tx_prepare">>, <<k, "tx_execute">>, <<k + 1, "rx_prepare">>, <<k + 2, "rx_execute">>}
      BY <3>1 DEF Shift
    <3>. QED  BY <3>2, <3>3 DEF TxAt, RxAt
  <2>2. Soon(k - 1 + 2 + Air)'
    <3>1. k - 1 + 2 + Air \in Int /\ k + 2 + Air \in Int /\ k - 1 + 2 + Air <= (k + 2 + Air) - 1
      BY <1>11
    <3>. QED  BY <1>8, <1>24, <3>1 DEF BothReady
  <2>3. For(rx.cb)'
    BY <1>1, <1>24 DEF BothReady, For
  <2>4. On(k - 1, TxSlot)'
    <3>1. At(Now', k - 1, TxSlot)
      BY <1>10, <1>13, <1>24, <2>1 DEF BothReady, On
    <3>. QED  BY <1>7, <3>1 DEF On
  <2>5. BothReady(Q, k - 1)'
    BY <1>1, <1>24, <2>2, <2>3, <2>4 DEF BothReady
  <2>6. TaskChain(Q)'
    BY <2>1, <2>5 DEF TaskChain
  <2>. QED  BY <2>1, <2>6
<1>25. ASSUME NEW k \in 0 .. 7, RxReady(S, k)
       PROVE  TaskChain(T)'
  <2>1. k # 0 /\ T = RxAt(k - 1) /\ k - 1 \in 0 .. 7
    <3>1. S = {<<k, "rx_prepare">>, <<k + 1, "rx_execute">>}
      BY <1>25 DEF RxReady, RxAt
    <3>2. k # 0
      BY <1>4, <3>1
    <3>3. T = {<<k - 1, "rx_prepare">>, <<k - 1 + 1, "rx_execute">>}
      BY <3>1 DEF Shift
    <3>. QED  BY <3>2, <3>3 DEF RxAt
  <2>2. Soon(k - 1 + Air)'
    <3>1. k - 1 + Air \in Int /\ k + Air \in Int /\ k - 1 + Air <= (k + Air) - 1
      BY <1>11
    <3>. QED  BY <1>8, <1>25, <3>1 DEF RxReady
  <2>3. For(rx.cb)'
    BY <1>1, <1>25 DEF RxReady, For
  <2>4. RxReady(RxAt(k - 1), k - 1)'
    BY <1>1, <1>25, <2>2, <2>3 DEF RxReady
  <2>5. TaskChain(RxAt(k - 1))'
    BY <2>1, <2>4 DEF TaskChain
  <2>. QED  BY <2>1, <2>5
<1>26. ASSUME NEW k \in 0 .. 1, NEW f \in 1 .. 10, TxGoes(S, k, f)
       PROVE  TaskChain(T)'
  <2>. DEFINE Q == {<<0, "tx_execute">>, <<f - 1, "tx_finalize">>}
  <2>1. k = 1 /\ T = Q /\ f - 1 \in 1 .. 10 /\ (f - 1) - 0 \in {1, 5, 9}
    <3>1. S = {<<k, "tx_execute">>, <<f, "tx_finalize">>} /\ f - k \in {1, 5, 9}
      BY <1>26 DEF TxGoes
    <3>2. k = 1
      BY <1>4, <3>1
    <3>3. T = Q
      BY <3>1, <3>2 DEF Shift
    <3>. QED  BY <3>1, <3>2, <3>3
  <2>2. Soon(f - 1 + Then(tx.cb))'
    <3>1. f - 1 + Then(tx.cb) \in Int /\ f + Then(tx.cb) \in Int /\ f - 1 + Then(tx.cb) <= (f + Then(tx.cb)) - 1
      BY <1>12
    <3>. QED  BY <1>1, <1>8, <1>26, <3>1 DEF TxGoes, Soon
  <2>3. For(tx.cb)'
    BY <1>1, <1>26 DEF TxGoes, For
  <2>4. On(0, TxSlot + 1)'
    <3>1. On(1, TxSlot + 1) /\ 1 \in 1 .. 10
      BY <1>26, <2>1 DEF TxGoes
    <3>2. At(Now', 1 - 1, TxSlot + 1)
      BY <1>10, <1>13, <3>1 DEF On
    <3>. QED  BY <1>7, <3>2 DEF On
  <2>5. TxGoes(Q, 0, f - 1)'
    BY <1>1, <1>26, <2>1, <2>2, <2>3, <2>4 DEF TxGoes
  <2>6. TaskChain(Q)'
    BY <2>1, <2>5 DEF TaskChain
  <2>. QED  BY <2>1, <2>6
<1>27. ASSUME NEW f \in 0 .. 9, TxEnds(S, f)
       PROVE  TaskChain(T)'
  <2>1. f # 0 /\ T = {<<f - 1, "tx_finalize">>} /\ f - 1 \in 0 .. 9 /\ f \in 1 .. 10
    <3>1. S = {<<f, "tx_finalize">>}
      BY <1>27 DEF TxEnds
    <3>2. f # 0
      BY <1>4, <3>1
    <3>3. T = {<<f - 1, "tx_finalize">>}
      BY <3>1 DEF Shift
    <3>. QED  BY <3>2, <3>3
  <2>2. Soon(f - 1 + Then(tx.cb))'
    <3>1. f - 1 + Then(tx.cb) \in Int /\ f + Then(tx.cb) \in Int /\ f - 1 + Then(tx.cb) <= (f + Then(tx.cb)) - 1
      BY <1>12
    <3>. QED  BY <1>1, <1>8, <1>27, <3>1 DEF TxEnds, Soon
  <2>3. For(tx.cb)'
    BY <1>1, <1>27 DEF TxEnds, For
  <2>4. On(f - 1, TxSlot + 2)'
    <3>1. At(Now', f - 1, TxSlot + 2)
      BY <1>10, <1>13, <1>27, <2>1 DEF TxEnds, On
    <3>. QED  BY <1>7, <3>1 DEF On
  <2>5. TxEnds({<<f - 1, "tx_finalize">>}, f - 1)'
    BY <1>1, <1>27, <2>2, <2>3, <2>4 DEF TxEnds
  <2>6. TaskChain({<<f - 1, "tx_finalize">>})'
    BY <2>1, <2>5 DEF TaskChain
  <2>. QED  BY <2>1, <2>6
<1>. QED  BY <1>2, <1>15, <1>16, <1>17, <1>18, <1>19, <1>20, <1>21, <1>22, <1>23, <1>24, <1>25, <1>26, <1>27 DEF TaskChain

(* The host and the clock change nothing the tasks look at.                  *)
LEMMA Untouched ==
  ASSUME Core, tick = 0, Fields',
         UNCHANGED <<state, mode, died, agenda, tick, call, clkn, tx, rx, pkt, scan, radio, drain>>
  PROVE  Core'
<1>1. PICK S : Holds(agenda, tick, S) /\ TaskChain(S)
  BY ChainIs DEF Core
<1>2. call = "none"
  <2>1. ~Calling(S)
    BY DEF Calling
  <2>. QED  BY <1>1, <2>1, WhoseCall
<1>3. UNCHANGED <<TxSlot, Budget, Wait, Now>>
  BY DEF TxSlot, Budget, Wait, Now
<1>4. \A n \in Nat : Soon(n) => Soon(n)'
  BY <1>3 DEF Soon, Operating
<1>5. \A d \in 0 .. 10, i \in 0 .. 5 : On(d, i) => On(d, i)'
  BY <1>3 DEF On
<1>6. \A c : For(c) => For(c)'
  BY DEF For
<1>7. (Operating => state = "STANDBY" \/ Stalled) => (Operating' => state' = "STANDBY" \/ Stalled')
  BY DEF Operating, Stalled
<1>8. TaskChain(S)'
  BY <1>1, <1>2, <1>3, <1>4, <1>5, <1>6, <1>7, Carries DEF Core
<1>9. died' \subseteq {"Invalid state transition"} /\ Holds(agenda', tick', S)
  BY <1>1 DEF Core
<1>. QED  BY <1>8, <1>9, ChainNext DEF Core

LEMMA TailIs ==
  ASSUME NEW T, NEW q \in Seq(T), q # << >>
  PROVE  /\ Tail(q) \in Seq(T) /\ Len(Tail(q)) = Len(q) - 1 /\ Head(q) = q[1] /\ Len(q) \in Nat /\ Len(q) >= 1
         /\ \A i \in 1 .. Len(q) - 1 : Tail(q)[i] = q[i + 1]
<1>1. Len(q) \in Nat /\ Len(q) # 0 /\ Head(q) = q[1]
  BY EmptySeq, LenProperties, HeadTailProperties
<1>2. Tail(q) \in Seq(T) /\ Len(Tail(q)) = Len(q) - 1 /\ \A i \in 1 .. Len(Tail(q)) : Tail(q)[i] = q[i + 1]
  BY HeadTailProperties
<1>. QED  BY <1>1, <1>2

LEMMA ExpireStep ==
  ASSUME Core, Expire
  PROVE  Core'
<1>1. tick = 0 /\ expired' = TRUE
      /\ UNCHANGED <<state, mode, died, agenda, tick, call, clkn, tx, rx, pkt, scan, radio, eir, drain, rxq, txq, session>>
  BY DEF Expire
<1>2. Fields'
  BY <1>1 DEF Core, Fields
<1>. QED  BY <1>1, <1>2, Untouched

LEMMA HostSteps ==
  ASSUME Core, HostStart \/ HostStop \/ HostSetEir \/ HostRead
  PROVE  Core'
<1>1. /\ tick = 0
      /\ UNCHANGED <<state, mode, died, agenda, tick, call, clkn, tx, rx, pkt, scan, radio, eir, expired, drain>>
  BY DEF HostStart, HostStop, HostSetEir, HostRead, DeviceUnchanged
<1>2. rxq' \in Seq(Commands \cup {"idle", "set_eir"})
  <2>1. rxq \in Seq(Commands \cup {"idle", "set_eir"})
    BY DEF Core, Fields
  <2>2. \/ UNCHANGED rxq
        \/ \E c \in Commands \cup {"idle", "set_eir"} : rxq' = Append(rxq, c)
    BY DEF HostStart, HostStop, HostSetEir, HostRead, Send
  <2>3. \A c \in Commands \cup {"idle", "set_eir"} : Append(rxq, c) \in Seq(Commands \cup {"idle", "set_eir"})
    BY <2>1, AppendProperties
  <2>. QED  BY <2>1, <2>2, <2>3
<1>3. txq' \in Seq(States)
  <2>1. txq \in Seq(States)
    BY DEF Core, Fields
  <2>2. UNCHANGED txq \/ (txq # << >> /\ txq' = Tail(txq))
    BY DEF HostStart, HostStop, HostSetEir, HostRead
  <2>. QED  BY <2>1, <2>2, TailIs
<1>4. session' \in BOOLEAN
  <2>1. session \in BOOLEAN
    BY DEF Core, Fields
  <2>. QED  BY <2>1 DEF HostStart, HostStop, HostSetEir, HostRead
<1>5. Fields'
  BY <1>1, <1>2, <1>3, <1>4 DEF Core, Fields
<1>. QED  BY <1>1, <1>5, Untouched

(* The main loop takes a command between two ticks.                          *)
LEMMA Taken ==
  ASSUME Core, NEW cmd, Handle(cmd)
  PROVE  /\ Operating /\ tick = 0 /\ call = "none" /\ drain = 0 /\ rxq # << >> /\ Head(rxq) = cmd /\ rxq' = Tail(rxq)
         /\ rxq' \in Seq(Commands \cup {"idle", "set_eir"}) /\ pkt' = "none" /\ pkt' \in PktKinds
         /\ UNCHANGED <<tick, call, clkn, radio, session>>
<1>1. rxq \in Seq(Commands \cup {"idle", "set_eir"})
  BY DEF Core, Fields
<1>2. rxq # << >> /\ rxq' = Tail(rxq)
  BY DEF Handle
<1>3. rxq' \in Seq(Commands \cup {"idle", "set_eir"})
  BY <1>1, <1>2, TailIs
<1>. QED  BY <1>3 DEF Handle, PktKinds

LEMMA IdleStep ==
  ASSUME Core, idle_req
  PROVE  Core'
<1>1. /\ Handle("idle") /\ set_state("STANDBY") /\ drain' = DRAIN
      /\ UNCHANGED <<mode, died, agenda, tx, rx, scan, eir, expired>>
  BY DEF idle_req
<1>2. /\ Operating /\ tick = 0 /\ call = "none" /\ drain = 0 /\ pkt' \in PktKinds
      /\ rxq' \in Seq(Commands \cup {"idle", "set_eir"}) /\ UNCHANGED <<tick, call, clkn, radio, session>>
  BY <1>1, Taken
<1>3. state' = "STANDBY" /\ txq' \in {txq, Append(txq, "STANDBY")}
  BY <1>1 DEF set_state, transition_valid
<1>4. Fields' /\ died' \subseteq {"Invalid state transition"}
  <2>1. txq \in Seq(States) /\ Append(txq, "STANDBY") \in Seq(States) /\ state' \in States
    BY <1>3, AppendProperties DEF Core, Fields, States
  <2>2. drain' \in 0 .. DRAIN
    BY <1>1, Arithmetic
  <2>. QED  BY <1>1, <1>2, <1>3, <2>1, <2>2 DEF Core, Fields
<1>5. PICK S : Holds(agenda, tick, S) /\ TaskChain(S)
  BY ChainIs DEF Core
<1>6. TaskChain(S)'
  <2>1. CASE state = "STANDBY"
    <3>1. Rest(S)
      BY <1>2, <1>5, <2>1, Awaited DEF Core
    <3>2. Rest(S)'
      BY <1>1, <1>2, <1>3, <3>1 DEF Rest
    <3>. QED  BY <3>2 DEF TaskChain
  <2>2. CASE state # "STANDBY"
    <3>1. UNCHANGED <<TxSlot, Wait, Now>>
      BY <1>1, <1>2 DEF TxSlot, Wait, Now
    <3>2. Budget = DRAIN /\ Budget' = DRAIN
      BY <1>1, <1>3, <2>2 DEF Budget
    <3>3. \A n \in Nat : Soon(n) => Soon(n)'
      BY <1>1, <3>1, <3>2 DEF Soon, Operating
    <3>4. \A d \in 0 .. 10, i \in 0 .. 5 : On(d, i) => On(d, i)'
      BY <3>1 DEF On
    <3>5. \A c : For(c) => For(c)'
      BY <1>1, <1>3 DEF For
    <3>. QED  BY <1>1, <1>2, <1>3, <1>5, <3>1, <3>3, <3>4, <3>5, Carries DEF Core
  <2>. QED  BY <2>1, <2>2
<1>7. Holds(agenda', tick', S)
  BY <1>1, <1>2, <1>5
<1>. QED  BY <1>4, <1>6, <1>7, ChainNext DEF Core

LEMMA SetEirStep ==
  ASSUME Core, state = "STANDBY", set_eir_req
  PROVE  Core'
<1>1. /\ Handle("set_eir") /\ eir' = (eir \/ state = "STANDBY")
      /\ UNCHANGED <<state, txq, mode, died, agenda, tx, rx, scan, expired, drain>>
  BY DEF set_eir_req
<1>2. /\ Operating /\ tick = 0 /\ call = "none" /\ drain = 0 /\ pkt' \in PktKinds
      /\ rxq' \in Seq(Commands \cup {"idle", "set_eir"}) /\ UNCHANGED <<tick, call, clkn, radio, session>>
  BY <1>1, Taken
<1>3. Fields' /\ died' \subseteq {"Invalid state transition"}
  <2>1. eir' \in BOOLEAN
    BY <1>1 DEF Core, Fields
  <2>. QED  BY <1>1, <1>2, <2>1 DEF Core, Fields
<1>4. PICK S : Holds(agenda, tick, S) /\ TaskChain(S)
  BY ChainIs DEF Core
<1>5. Rest(S)
  BY <1>2, <1>4, Awaited DEF Core
<1>6. Rest(S)'
  BY <1>1, <1>2, <1>5 DEF Rest
<1>7. TaskChain(S)'
  BY <1>6 DEF TaskChain
<1>8. Holds(agenda', tick', S)
  BY <1>1, <1>2, <1>4
<1>. QED  BY <1>3, <1>7, <1>8, ChainNext DEF Core

(* A search begins: one item, at most two ticks ahead.                       *)
LEMMA SearchBegins ==
  ASSUME Core, state = "STANDBY", NEW cmd, Handle(cmd), NEW m \in Modes, mode' = m, NEW next \in Searching,
         set_state(next), died' = BadTransition(next), NEW x \in Openers, NEW k \in 0 .. 2,
         agenda' = tdma_schedule(agenda, k, x), k + Opens(x) + 1 <= DRAIN,
         scan' \in [cb : ScanCallbacks, slots : 0 .. SCAN_MAX_SLOTS],
         NEW y, y = (IF x = "scan_start" THEN scan'.cb ELSE x), y # "none", Serves(y) = next,
         m \in Masters <=> y \in OfMasters, expired' \in BOOLEAN, UNCHANGED <<tx, rx, eir, drain>>
  PROVE  Core'
<1>1. /\ Operating /\ tick = 0 /\ call = "none" /\ drain = 0 /\ pkt' \in PktKinds
      /\ rxq' \in Seq(Commands \cup {"idle", "set_eir"}) /\ UNCHANGED <<tick, call, clkn, radio, session>>
  BY Taken
<1>2. state' = next /\ txq' = Append(txq, next) /\ died' = {} /\ next \in States /\ next # "STANDBY"
  BY DEF set_state, transition_valid, BadTransition, Searching, States
<1>3. txq' \in Seq(States)
  BY <1>2, AppendProperties DEF Core, Fields
<1>4. Fields' /\ died' \subseteq {"Invalid state transition"}
  BY <1>1, <1>2, <1>3 DEF Core, Fields
<1>5. PICK S : Holds(agenda, tick, S) /\ TaskChain(S)
  BY ChainIs DEF Core
<1>6. S = {} /\ ~tx.hdr /\ ~rx.msg /\ radio = "idle"
  <2>1. Rest(S)
    BY <1>1, <1>5, Awaited DEF Core
  <2>. QED  BY <2>1 DEF Rest
<1>7. Holds(agenda', tick', {<<k, x>>})
  <2>1. Holds(agenda, tick', {}) /\ k \in 0 .. 10 /\ x \in Items /\ tick' = 0
    BY <1>1, <1>5, <1>6 DEF Openers, Items
  <2>. QED  BY <2>1, OneScheduled
<1>8. Soon(k + Opens(x))'
  <2>1. Wait' = 1 /\ Budget' = DRAIN
    BY <1>1, <1>2 DEF Wait, Budget
  <2>. QED  BY <2>1 DEF Soon
<1>9. For(IF x = "scan_start" THEN scan.cb ELSE x)'
  <2>1. For(y)'
    BY <1>2 DEF For
  <2>2. CASE x = "scan_start"
    BY <2>1, <2>2 DEF For
  <2>3. CASE x # "scan_start"
    BY <2>1, <2>3 DEF For
  <2>. QED  BY <2>2, <2>3
<1>10. Waits({<<k, x>>}, x, k)'
  BY <1>1, <1>6, <1>8, <1>9 DEF Waits
<1>11. TaskChain({<<k, x>>})'
  BY <1>10 DEF TaskChain
<1>. QED  BY <1>4, <1>7, <1>11, ChainNext DEF Core

LEMMA SyncReqStep ==
  ASSUME Core, state = "STANDBY", NEW cmd, NEW m, NEW x, NEW next, start_sync_req(cmd, m, x, next),
         <<m, x, next>> \in {<<"INQUIRY", "inquiry_start_sync", "INQUIRY">>, <<"PAGING", "paging_start_sync", "PAGE">>}
  PROVE  Core'
<1>1. /\ Handle(cmd) /\ mode' = m /\ set_state(next) /\ died' = BadTransition(next)
      /\ UNCHANGED <<tx, rx, scan, eir, expired, drain>>
  BY DEF start_sync_req
<1>2. PICK short \in {0, 1} : agenda' = tdma_schedule(agenda, 2 - short, x)
  BY DEF start_sync_req
<1>3. PICK k \in 0 .. 2 : k = 2 - short
  BY <1>2
<1>4. m \in Modes /\ next \in Searching /\ x \in Openers /\ x # "scan_start" /\ x # "none" /\ Opens(x) = 9 + Air
  BY DEF Modes, Searching, Openers, Opens
<1>5. Serves(x) = next /\ (m \in Masters <=> x \in OfMasters)
  BY DEF Serves, Masters, OfMasters
<1>6. k + Opens(x) + 1 <= DRAIN
  BY <1>4, Arithmetic
<1>7. scan' \in [cb : ScanCallbacks, slots : 0 .. SCAN_MAX_SLOTS] /\ expired' \in BOOLEAN
  BY <1>1 DEF Core, Fields
<1>8. x = (IF x = "scan_start" THEN scan'.cb ELSE x)
  BY <1>4
<1>. QED  BY <1>1, <1>2, <1>3, <1>4, <1>5, <1>6, <1>7, <1>8, SearchBegins

LEMMA ListenReqStep ==
  ASSUME Core, state = "STANDBY", NEW cmd, NEW m, NEW y, NEW next, listen_req(cmd, m, y, next),
         <<m, y, next>> \in {<<"INQUIRY_SCAN", "inquiry_scan_rx_cb", "INQUIRY_SCAN">>,
                             <<"PAGE_SCAN", "page_scan_rx_id_cb", "PAGE_SCAN">>,
                             <<"PAGE_SCAN", "monitor1_rx_id_cb", "PAGE_SCAN">>}
  PROVE  Core'
<1>. DEFINE x == "scan_start"
<1>1. /\ Handle(cmd) /\ mode' = m /\ set_state(next) /\ died' = BadTransition(next) /\ expired' = FALSE
      /\ scan' = [scan EXCEPT !.cb = y] /\ UNCHANGED <<tx, rx, eir, drain>>
  BY DEF listen_req
<1>2. PICK short \in {0, 1} : agenda' = tdma_schedule(agenda, 1 - short, x)
  BY DEF listen_req
<1>3. PICK k \in 0 .. 1 : k = 1 - short
  BY <1>2
<1>4. /\ m \in Modes /\ next \in Searching /\ x \in Openers /\ y # "none" /\ y \in ScanCallbacks
      /\ Opens(x) = SCAN_MAX_SLOTS - 1
  BY DEF Modes, Searching, Openers, Opens, ScanCallbacks
<1>5. Serves(y) = next /\ (m \in Masters <=> y \in OfMasters)
  BY DEF Serves, Masters, OfMasters
<1>6. k + Opens(x) + 1 <= DRAIN /\ k \in 0 .. 2
  BY <1>4, Arithmetic
<1>7. scan' \in [cb : ScanCallbacks, slots : 0 .. SCAN_MAX_SLOTS] /\ scan'.cb = y
  <2>1. scan \in [cb : ScanCallbacks, slots : 0 .. SCAN_MAX_SLOTS]
    BY DEF Core, Fields
  <2>. QED  BY <1>1, <1>4, <2>1
<1>8. y = (IF x = "scan_start" THEN scan'.cb ELSE x) /\ expired' \in BOOLEAN
  BY <1>1, <1>7
<1>. QED  BY <1>1, <1>2, <1>3, <1>4, <1>5, <1>6, <1>7, <1>8, SearchBegins

-----------------------------------------------------------------------------
(* The host and the device take turns.                                       *)
LEMMA WhereAppend ==
  ASSUME NEW T, NEW q \in Seq(T), NEW c \in T, NEW P
  PROVE  /\ Where(Append(q, c), P) = Where(q, P) \cup (IF c \in P THEN {Len(q) + 1} ELSE {})
         /\ \A i \in Where(q, P) : i \in Nat /\ 1 <= i /\ i <= Len(q)
         /\ Len(q) \in Nat
<1>1. Len(q) \in Nat /\ DOMAIN q = 1 .. Len(q)
  BY LenProperties
<1>. DEFINE r == Append(q, c)
<1>2. r \in Seq(T) /\ Len(r) = Len(q) + 1 /\ r[Len(q) + 1] = c /\ \A i \in 1 .. Len(q) : r[i] = q[i]
  BY AppendProperties
<1>3. DOMAIN r = 1 .. Len(q) + 1
  BY <1>2, LenProperties
<1>. HIDE DEF r
<1>4. DOMAIN r = DOMAIN q \cup {Len(q) + 1} /\ Len(q) + 1 \notin DOMAIN q
  BY <1>1, <1>3
<1>5. Where(r, P) = Where(q, P) \cup (IF c \in P THEN {Len(q) + 1} ELSE {})
  BY <1>1, <1>2, <1>4 DEF Where
<1>6. \A i \in Where(q, P) : i \in Nat /\ 1 <= i /\ i <= Len(q)
  BY <1>1 DEF Where
<1>. QED  BY <1>1, <1>5, <1>6 DEF r

LEMMA WhereSame ==
  ASSUME NEW T, NEW q \in Seq(T), NEW c \in T, NEW P, c \notin P
  PROVE  Where(Append(q, c), P) = Where(q, P)
<1>1. Where(Append(q, c), P) = Where(q, P) \cup (IF c \in P THEN {Len(q) + 1} ELSE {})
  BY WhereAppend
<1>. QED  BY <1>1

LEMMA WhereTail ==
  ASSUME NEW T, NEW q \in Seq(T), q # << >>, NEW P
  PROVE  /\ \A i \in Where(Tail(q), P) : i \in Nat /\ 1 <= i /\ i + 1 \in Where(q, P)
         /\ \A i \in Where(q, P) : i \in Nat /\ 1 <= i /\ (i # 1 => i - 1 \in Where(Tail(q), P))
         /\ Head(q) \in P <=> 1 \in Where(q, P)
<1>. DEFINE r == Tail(q)
<1>1. /\ r \in Seq(T) /\ Len(r) = Len(q) - 1 /\ Head(q) = q[1] /\ Len(q) \in Nat /\ Len(q) >= 1
      /\ \A i \in 1 .. Len(q) - 1 : r[i] = q[i + 1]
  BY TailIs
<1>2. DOMAIN q = 1 .. Len(q) /\ DOMAIN r = 1 .. Len(q) - 1
  BY <1>1, LenProperties
<1>. HIDE DEF r
<1>3. \A i \in Where(r, P) : i \in Nat /\ 1 <= i /\ i + 1 \in Where(q, P)
  BY <1>1, <1>2 DEF Where
<1>4. \A i \in Where(q, P) : i \in Nat /\ 1 <= i /\ (i # 1 => i - 1 \in Where(r, P))
  <2>1. SUFFICES ASSUME NEW i \in Where(q, P)  PROVE i \in Nat /\ 1 <= i /\ (i # 1 => i - 1 \in Where(r, P))
    OBVIOUS
  <2>2. i \in 1 .. Len(q) /\ q[i] \in P
    BY <1>2, <2>1 DEF Where
  <2>3. ASSUME i # 1  PROVE i - 1 \in Where(r, P)
    <3>1. i - 1 \in 1 .. Len(q) - 1 /\ (i - 1) + 1 = i
      BY <1>1, <2>2, <2>3
    <3>2. r[i - 1] = q[i]
      BY <1>1, <3>1
    <3>. QED  BY <1>2, <2>2, <3>1, <3>2 DEF Where
  <2>. QED  BY <1>1, <2>2, <2>3
<1>5. Head(q) \in P <=> 1 \in Where(q, P)
  BY <1>1, <1>2 DEF Where
<1>. QED  BY <1>3, <1>4, <1>5 DEF r

Turns == Fields /\ HostInv

(* What the tasks and the callbacks say to the host.                         *)
LEMMA TurnsInterrupt ==
  ASSUME Turns, UNCHANGED <<rxq, session>>,
         UNCHANGED <<state, txq>> \/ set_state("STANDBY") \/ set_state("CONNECTED")
  PROVE  HostInv'
<1>1. HostInv /\ txq \in Seq(States) /\ state \in States
  BY DEF Turns, Fields
<1>2. Asked' = Asked /\ Eirs' = Eirs
  BY DEF Asked, Eirs
<1>3. CASE UNCHANGED <<state, txq>>
  <2>1. Told' = Told
    BY <1>3 DEF Told
  <2>. QED  BY <1>1, <1>2, <1>3, <2>1 DEF HostInv
<1>4. CASE state # "STANDBY" /\ state' = "STANDBY" /\ txq' = Append(txq, "STANDBY")
  <2>1. Asked = {} /\ Told = {} /\ session
    BY <1>1, <1>4 DEF HostInv
  <2>2. Told' = Told \cup {Len(txq) + 1}
    BY <1>1, <1>4, WhereAppend DEF Told, States
  <2>. QED  BY <1>1, <1>2, <1>4, <2>1, <2>2 DEF HostInv
<1>5. CASE state # "STANDBY" /\ state' = "CONNECTED" /\ txq' = Append(txq, "CONNECTED")
  <2>1. Asked = {} /\ Told = {} /\ session
    BY <1>1, <1>5 DEF HostInv
  <2>2. "CONNECTED" \in States /\ "CONNECTED" \notin {"STANDBY"}
    BY DEF States
  <2>3. Told' = Told
    BY <1>1, <1>5, <2>2, WhereSame DEF Told
  <2>. QED  BY <1>1, <1>2, <1>5, <2>1, <2>3 DEF HostInv
<1>6. CASE set_state("STANDBY")
  <2>1. \/ UNCHANGED <<state, txq>>
        \/ state # "STANDBY" /\ state' = "STANDBY" /\ txq' = Append(txq, "STANDBY")
    BY <1>6 DEF set_state, transition_valid
  <2>. QED  BY <1>3, <1>4, <2>1
<1>7. CASE set_state("CONNECTED")
  <2>1. \/ UNCHANGED <<state, txq>>
        \/ state # "STANDBY" /\ state' = "CONNECTED" /\ txq' = Append(txq, "CONNECTED")
    BY <1>7 DEF set_state, transition_valid
  <2>. QED  BY <1>3, <1>5, <2>1
<1>. QED  BY <1>3, <1>6, <1>7

(* A command finds the device in STANDBY, with nothing told to the host that *)
(* e has not read, and no other command behind e.                          *)
LEMMA CommandTurn ==
  ASSUME Turns, rxq # << >>, Head(rxq) \in Commands
  PROVE  state = "STANDBY" /\ session /\ 1 \in Asked /\ Told = {} /\ Eirs = {}
<1>1. rxq \in Seq(Commands \cup {"idle", "set_eir"}) /\ HostInv
  BY DEF Turns, Fields
<1>2. 1 \in Asked
  BY <1>1, WhereTail DEF Asked
<1>3. state = "STANDBY" /\ session /\ Told = {} /\ \A j \in Asked : j = 1
  BY <1>1, <1>2 DEF HostInv
<1>4. \A i \in Eirs : i \in Nat /\ 1 <= i
  BY <1>1, WhereTail DEF Eirs
<1>5. \A i \in Eirs : i < 1
  BY <1>1, <1>3 DEF HostInv
<1>6. Eirs = {}
  BY <1>4, <1>5
<1>. QED  BY <1>2, <1>3, <1>6

LEMMA EirTurn ==
  ASSUME Turns, rxq # << >>, Head(rxq) = "set_eir"
  PROVE  state = "STANDBY"
<1>1. rxq \in Seq(Commands \cup {"idle", "set_eir"}) /\ HostInv
  BY DEF Turns, Fields
<1>2. 1 \in Eirs
  BY <1>1, WhereTail DEF Eirs
<1>. QED  BY <1>1, <1>2 DEF HostInv

(* Taking the head of the queue.                                             *)
LEMMA QueueMoves ==
  ASSUME Turns, rxq # << >>, rxq' = Tail(rxq)
  PROVE  /\ \A i \in Asked' : i \in Nat /\ i + 1 \in Asked
         /\ \A i \in Eirs' : i \in Nat /\ i + 1 \in Eirs
         /\ Head(rxq) \notin Commands => \A i \in Asked : i \in Nat /\ i - 1 \in Asked'
<1>1. rxq \in Seq(Commands \cup {"idle", "set_eir"})
  BY DEF Turns, Fields
<1>2. \A i \in Asked' : i \in Nat /\ i + 1 \in Asked
  BY <1>1, WhereTail DEF Asked
<1>3. \A i \in Eirs' : i \in Nat /\ i + 1 \in Eirs
  BY <1>1, WhereTail DEF Eirs
<1>4. Head(rxq) \notin Commands => \A i \in Asked : i \in Nat /\ i - 1 \in Asked'
  <2>1. (Head(rxq) \in Commands <=> 1 \in Asked) /\ \A i \in Asked : i \in Nat /\ (i # 1 => i - 1 \in Asked')
    BY <1>1, WhereTail DEF Asked
  <2>. QED  BY <2>1
<1>. QED  BY <1>2, <1>3, <1>4

LEMMA TurnsTaken ==
  ASSUME Turns, rxq # << >>, rxq' = Tail(rxq), Head(rxq) \notin Commands, UNCHANGED session,
         UNCHANGED <<state, txq>> \/ set_state("STANDBY")
  PROVE  HostInv'
<1>1. HostInv /\ txq \in Seq(States) /\ state \in States
  BY DEF Turns, Fields
<1>2. /\ \A i \in Asked' : i \in Nat /\ i + 1 \in Asked
      /\ \A i \in Eirs' : i \in Nat /\ i + 1 \in Eirs
      /\ \A i \in Asked : i \in Nat /\ i - 1 \in Asked'
  BY QueueMoves
<1>3. \A i, j \in Asked' : i = j
  <2>1. SUFFICES ASSUME NEW i \in Asked', NEW j \in Asked'  PROVE i = j
    OBVIOUS
  <2>2. i + 1 = j + 1
    BY <1>1, <1>2 DEF HostInv
  <2>. QED  BY <1>2, <2>2
<1>4. Asked = {} <=> Asked' = {}
  BY <1>2
<1>5. \A i \in Eirs' : ~session' \/ \E j \in Asked' : i < j
  <2>1. SUFFICES ASSUME NEW i \in Eirs', session  PROVE \E j \in Asked' : i < j
    OBVIOUS
  <2>2. PICK j \in Asked : i + 1 < j
    BY <1>1, <1>2, <2>1 DEF HostInv
  <2>3. j - 1 \in Asked' /\ i < j - 1
    BY <1>2, <2>2
  <2>. QED  BY <2>3
<1>6. CASE UNCHANGED <<state, txq>>
  <2>1. Told' = Told
    BY <1>6 DEF Told
  <2>. QED  BY <1>1, <1>3, <1>4, <1>5, <1>6, <2>1 DEF HostInv
<1>7. CASE state # "STANDBY" /\ state' = "STANDBY" /\ txq' = Append(txq, "STANDBY")
  <2>1. Asked = {} /\ Told = {} /\ session
    BY <1>1, <1>7 DEF HostInv
  <2>2. Told' = Told \cup {Len(txq) + 1}
    BY <1>1, <1>7, WhereAppend DEF Told, States
  <2>. QED  BY <1>1, <1>3, <1>4, <1>5, <1>7, <2>1, <2>2 DEF HostInv
<1>8. CASE set_state("STANDBY")
  <2>1. \/ UNCHANGED <<state, txq>>
        \/ state # "STANDBY" /\ state' = "STANDBY" /\ txq' = Append(txq, "STANDBY")
    BY <1>8 DEF set_state, transition_valid
  <2>. QED  BY <1>6, <1>7, <2>1
<1>. QED  BY <1>6, <1>8

LEMMA TurnsSearch ==
  ASSUME Turns, rxq # << >>, rxq' = Tail(rxq), Head(rxq) \in Commands, UNCHANGED session,
         NEW next \in Searching, set_state(next)
  PROVE  HostInv'
<1>1. /\ HostInv /\ txq \in Seq(States) /\ session /\ state = "STANDBY" /\ 1 \in Asked /\ Told = {} /\ Eirs = {}
  BY CommandTurn DEF Turns, Fields
<1>2. /\ \A i \in Asked' : i \in Nat /\ i + 1 \in Asked
      /\ \A i \in Eirs' : i \in Nat /\ i + 1 \in Eirs
  BY QueueMoves
<1>3. Eirs' = {}
  BY <1>1, <1>2
<1>4. Asked' = {}
  <2>1. \A i \in Asked : i = 1
    BY <1>1 DEF HostInv
  <2>2. \A i \in Asked' : i \in Nat /\ i + 1 = 1 /\ i = 0
    BY <1>2, <2>1
  <2>3. \A i \in Asked' : i >= 1
    <3>1. rxq \in Seq(Commands \cup {"idle", "set_eir"})
      BY DEF Turns, Fields
    <3>. QED  BY <3>1, WhereTail DEF Asked
  <2>. QED  BY <2>2, <2>3
<1>5. state' = next /\ txq' = Append(txq, next) /\ next \in States /\ next # "STANDBY"
  BY <1>1 DEF set_state, transition_valid, Searching, States
<1>6. Told' = {}
  <2>1. next \notin {"STANDBY"}
    BY <1>5
  <2>2. Told' = Told
    BY <1>1, <1>5, <2>1, WhereSame DEF Told
  <2>. QED  BY <1>1, <2>2
<1>. QED  BY <1>1, <1>3, <1>4, <1>5, <1>6 DEF HostInv

LEMMA TurnsHost ==
  ASSUME Turns, HostStart \/ HostStop \/ HostSetEir \/ HostRead
  PROVE  HostInv'
<1>1. HostInv /\ rxq \in Seq(Commands \cup {"idle", "set_eir"}) /\ txq \in Seq(States) /\ session \in BOOLEAN
  BY DEF Turns, Fields
<1>2. CASE HostStart
  <2>1. PICK cmd \in Commands : rxq' = Append(rxq, cmd)
    BY <1>2 DEF HostStart, Send
  <2>2. ~session /\ session' /\ UNCHANGED <<state, txq>>
    BY <1>2 DEF HostStart, DeviceUnchanged
  <2>3. state = "STANDBY" /\ Asked = {} /\ Told = {}
    BY <1>1, <2>2 DEF HostInv
  <2>4. Asked' = {Len(rxq) + 1}
    <3>1. Asked' = Asked \cup {Len(rxq) + 1}
      BY <1>1, <2>1, WhereAppend DEF Asked
    <3>. QED  BY <2>3, <3>1
  <2>5. Told' = Told
    BY <2>2 DEF Told
  <2>6. cmd \notin {"set_eir"}
    BY DEF Commands
  <2>7. Eirs' = Eirs /\ Len(rxq) \in Nat /\ \A i \in Eirs : i \in Nat /\ i <= Len(rxq)
    <3>1. Eirs' = Eirs
      BY <1>1, <2>1, <2>6, WhereSame DEF Eirs
    <3>2. Len(rxq) \in Nat /\ \A i \in Eirs : i \in Nat /\ i <= Len(rxq)
      BY <1>1, <2>1, WhereAppend DEF Eirs
    <3>. QED  BY <3>1, <3>2
  <2>8. \A i \in Eirs' : i < Len(rxq) + 1
    BY <2>7
  <2>. QED  BY <2>2, <2>3, <2>4, <2>5, <2>8 DEF HostInv
<1>3. CASE HostStop
  <2>1. rxq' = Append(rxq, "idle") /\ session /\ UNCHANGED <<state, txq, session>>
    BY <1>3 DEF HostStop, Send, DeviceUnchanged
  <2>2. "idle" \notin Commands /\ "idle" \notin {"set_eir"}
    BY DEF Commands
  <2>3. Asked' = Asked
    BY <1>1, <2>1, <2>2, WhereSame DEF Asked
  <2>4. Eirs' = Eirs
    BY <1>1, <2>1, <2>2, WhereSame DEF Eirs
  <2>5. Told' = Told
    BY <2>1 DEF Told
  <2>. QED  BY <1>1, <2>1, <2>3, <2>4, <2>5 DEF HostInv
<1>4. CASE HostSetEir
  <2>1. rxq' = Append(rxq, "set_eir") /\ ~session /\ UNCHANGED <<state, txq, session>>
    BY <1>4 DEF HostSetEir, Send, DeviceUnchanged
  <2>2. "set_eir" \notin Commands
    BY DEF Commands
  <2>3. Asked' = Asked
    BY <1>1, <2>1, <2>2, WhereSame DEF Asked
  <2>4. Told' = Told
    BY <2>1 DEF Told
  <2>. QED  BY <1>1, <2>1, <2>3, <2>4 DEF HostInv
<1>5. CASE HostRead
  <2>1. txq # << >> /\ txq' = Tail(txq) /\ UNCHANGED <<state, rxq>> /\ session' = (session /\ Head(txq) # "STANDBY")
    BY <1>5 DEF HostRead, DeviceUnchanged
  <2>2. Asked' = Asked /\ Eirs' = Eirs
    BY <2>1 DEF Asked, Eirs
  <2>3. /\ \A i \in Told' : i \in Nat /\ 1 <= i /\ i + 1 \in Told
        /\ Head(txq) \in {"STANDBY"} <=> 1 \in Told
    BY <1>1, <2>1, WhereTail DEF Told
  <2>4. \A i, j \in Told' : i = j
    <3>1. SUFFICES ASSUME NEW i \in Told', NEW j \in Told'  PROVE i = j
      OBVIOUS
    <3>2. i + 1 = j + 1
      BY <1>1, <2>3 DEF HostInv
    <3>. QED  BY <2>3, <3>2
  <2>5. Told = {} => Told' = {}
    BY <2>3
  <2>6. CASE Head(txq) = "STANDBY"
    <3>1. 1 \in Told
      BY <2>3, <2>6
    <3>2. Told' = {}
      <4>1. \A i \in Told' : i + 1 = 1
        BY <1>1, <2>3, <3>1 DEF HostInv
      <4>. QED  BY <2>3, <4>1
    <3>3. state = "STANDBY" /\ Asked = {}
      BY <1>1, <3>1 DEF HostInv
    <3>. QED  BY <2>1, <2>2, <2>6, <3>2, <3>3 DEF HostInv
  <2>7. CASE Head(txq) # "STANDBY"
    <3>1. session' = session
      BY <1>1, <2>1, <2>7
    <3>. QED  BY <1>1, <2>1, <2>2, <2>4, <2>5, <3>1 DEF HostInv
  <2>. QED  BY <2>6, <2>7
<1>. QED  BY <1>2, <1>3, <1>4, <1>5

-----------------------------------------------------------------------------
(* The steps of the interrupt say nothing to the host, or that a search or a *)
(* connection ended or that a connection began; none takes a command.        *)
Says == /\ UNCHANGED <<rxq, session>>
        /\ UNCHANGED <<state, txq>> \/ set_state("STANDBY") \/ set_state("CONNECTED")

LEMMA TasksSay ==
  ASSUME \/ TickStart \/ TickEnd \/ tx_prepare \/ tx_execute \/ tx_finalize
         \/ rx_prepare \/ rx_execute \/ rx_decode \/ scan_start \/ scan_wait_more
  PROVE  Says
<1>1. CASE TickStart \/ TickEnd
  BY <1>1 DEF Says, TickStart, TickEnd, ctlHost, btctl
<1>2. CASE tx_prepare \/ tx_execute \/ tx_finalize
  BY <1>2 DEF Says, tx_prepare, tx_execute, tx_finalize, Run, Item, ctlHost
<1>3. CASE rx_prepare \/ rx_execute \/ rx_decode
  BY <1>3 DEF Says, rx_prepare, rx_execute, rx_decode, Run, Item, ctlHost
<1>4. CASE scan_start \/ scan_wait_more
  BY <1>4 DEF Says, scan_start, scan_wait_more, Run, Item, ctlHost
<1>. QED  BY <1>1, <1>2, <1>3, <1>4

LEMMA SearchesSay ==
  ASSUME \/ inquiry_start_sync \/ inquiry_rx_cb \/ paging_start_sync \/ paging_rx_cb \/ paging_rx_ack_cb
         \/ inquiry_scan_rx_cb \/ tx_fhs_cb \/ tx_eir_cb
  PROVE  Says
<1>1. CASE inquiry_start_sync \/ paging_start_sync
  BY <1>1 DEF Says, inquiry_start_sync, paging_start_sync, start_sync, Item, ctlHost
<1>2. CASE inquiry_rx_cb
  BY <1>2 DEF Says, inquiry_rx_cb, Called, Canceled, SameState, inquire, Timeout, ctlHost
<1>3. CASE paging_rx_cb
  BY <1>3 DEF Says, paging_rx_cb, Called, Canceled, SameState, inquire, Timeout, ctlHost
<1>4. CASE paging_rx_ack_cb
  BY <1>4 DEF Says, paging_rx_ack_cb, Called, Canceled, SameState, inquire, Timeout, ctlHost
<1>5. CASE inquiry_scan_rx_cb
  BY <1>5 DEF Says, inquiry_scan_rx_cb, Called, Canceled, SameState, listen, Timeout, ctlHost
<1>6. CASE tx_fhs_cb
  BY <1>6 DEF Says, tx_fhs_cb, Called, SameState, listen, Timeout, ctlHost
<1>7. CASE tx_eir_cb
  BY <1>7 DEF Says, tx_eir_cb, Called, SameState, listen, Timeout, ctlHost
<1>. QED  BY <1>1, <1>2, <1>3, <1>4, <1>5, <1>6, <1>7

LEMMA ConnectionsSay ==
  ASSUME \/ rx_id_cb("page_scan_rx_id_cb", "page_scan_rx_fhs_cb") \/ page_scan_rx_fhs_cb \/ page_scan_tx_cb
         \/ rx_id_cb("monitor1_rx_id_cb", "monitor1_rx_fhs_cb") \/ monitor1_rx_fhs_cb
         \/ start_monitor2 \/ monitor2_rx_cb
         \/ master_rx_cb \/ master_tx_done \/ slave_rx_cb \/ slave_tx_done
  PROVE  Says
<1>1. ASSUME NEW cb, NEW c, rx_id_cb(cb, c)
      PROVE  Says
  BY <1>1 DEF Says, rx_id_cb, Called, Canceled, SameState, listen, Timeout, ctlHost
<1>2. CASE page_scan_rx_fhs_cb
  BY <1>2 DEF Says, page_scan_rx_fhs_cb, Called, Canceled, SameState, listen, Timeout, ctlHost
<1>3. CASE monitor1_rx_fhs_cb
  BY <1>3 DEF Says, monitor1_rx_fhs_cb, Called, Canceled, SameState, listen, Timeout, ctlHost
<1>4. CASE page_scan_tx_cb
  BY <1>4 DEF Says, page_scan_tx_cb, Called, ctlHost
<1>5. CASE start_monitor2
  BY <1>5 DEF Says, start_monitor2, Item, ctlHost
<1>6. CASE monitor2_rx_cb
  BY <1>6 DEF Says, monitor2_rx_cb, Called, Canceled, SameState, ctlHost
<1>7. CASE master_rx_cb
  BY <1>7 DEF Says, master_rx_cb, Called, Canceled, SameState, Timeout, ctlHost
<1>8. CASE slave_rx_cb
  BY <1>8 DEF Says, slave_rx_cb, Called, Canceled, SameState, Timeout, ctlHost
<1>9. CASE master_tx_done \/ slave_tx_done
  BY <1>9 DEF Says, master_tx_done, slave_tx_done, Called, SameState, ctlHost
<1>. QED  BY <1>1, <1>2, <1>3, <1>4, <1>5, <1>6, <1>7, <1>8, <1>9

(* The tasks and the callbacks keep the chain.                               *)
LEMMA InterruptStep ==
  ASSUME Core, Interrupt
  PROVE  Core' /\ Says
<1>1. CASE \/ TickStart \/ TickEnd \/ tx_prepare \/ tx_execute \/ tx_finalize
           \/ rx_prepare \/ rx_execute \/ rx_decode \/ scan_start \/ scan_wait_more
  BY <1>1, TasksSay, TickStartStep, TickEndStep, TxPrepareStep, TxExecuteStep, TxFinalizeStep, RxPrepareStep,
     RxExecuteStep, RxDecodeStep, ScanStartStep, ScanWaitMoreStep
<1>2. CASE \/ inquiry_start_sync \/ inquiry_rx_cb \/ paging_start_sync \/ paging_rx_cb \/ paging_rx_ack_cb
           \/ inquiry_scan_rx_cb \/ tx_fhs_cb \/ tx_eir_cb
  <2>1. inquiry_start_sync => Core'
    BY StartSyncStep DEF inquiry_start_sync
  <2>2. paging_start_sync => Core'
    BY StartSyncStep DEF paging_start_sync
  <2>. QED
    BY <1>2, <2>1, <2>2, SearchesSay, InquiryRxStep, PagingRxStep, PagingAckStep, InquiryScanStep, TxFhsStep, TxEirStep
<1>3. CASE \/ rx_id_cb("page_scan_rx_id_cb", "page_scan_rx_fhs_cb") \/ page_scan_rx_fhs_cb \/ page_scan_tx_cb
           \/ rx_id_cb("monitor1_rx_id_cb", "monitor1_rx_fhs_cb") \/ monitor1_rx_fhs_cb
           \/ start_monitor2 \/ monitor2_rx_cb
           \/ master_rx_cb \/ master_tx_done \/ slave_rx_cb \/ slave_tx_done
  <2>1. rx_id_cb("page_scan_rx_id_cb", "page_scan_rx_fhs_cb") => Core'
    BY RxIdStep
  <2>2. rx_id_cb("monitor1_rx_id_cb", "monitor1_rx_fhs_cb") => Core'
    BY RxIdStep
  <2>. QED
    BY <1>3, <2>1, <2>2, ConnectionsSay, PageScanFhsStep, PageScanTxStep, MonitorFhsStep, StartMonitor2Step,
       Monitor2Step, MasterRxStep, MasterTxDoneStep, SlaveRxStep, SlaveTxDoneStep
<1>. QED  BY <1>1, <1>2, <1>3 DEF Interrupt

(* A command finds the device in STANDBY and nothing scheduled.              *)
LEMMA MainLoopStep ==
  ASSUME Core, HostInv, CtlMainLoop
  PROVE  Core' /\ HostInv'
<1>1. Turns
  BY DEF Turns, Core
<1>2. CASE idle_req
  <2>1. rxq # << >> /\ rxq' = Tail(rxq) /\ Head(rxq) \notin Commands /\ session' = session /\ set_state("STANDBY")
    BY <1>2 DEF idle_req, Handle, Commands
  <2>. QED  BY <1>1, <1>2, <2>1, IdleStep, TurnsTaken
<1>3. CASE set_eir_req
  <2>1. /\ rxq # << >> /\ rxq' = Tail(rxq) /\ Head(rxq) = "set_eir" /\ Head(rxq) \notin Commands
        /\ session' = session /\ UNCHANGED <<state, txq>>
    BY <1>3 DEF set_eir_req, Handle, Commands
  <2>2. state = "STANDBY"
    BY <1>1, <2>1, EirTurn
  <2>. QED  BY <1>1, <1>3, <2>1, <2>2, SetEirStep, TurnsTaken
<1>4. ASSUME NEW cmd \in Commands, NEW m, NEW x, NEW next \in Searching, start_sync_req(cmd, m, x, next),
             <<m, x, next>> \in {<<"INQUIRY", "inquiry_start_sync", "INQUIRY">>, <<"PAGING", "paging_start_sync", "PAGE">>}
      PROVE  Core' /\ HostInv'
  <2>1. rxq # << >> /\ rxq' = Tail(rxq) /\ Head(rxq) \in Commands /\ session' = session /\ set_state(next)
    BY <1>4 DEF start_sync_req, Handle
  <2>2. state = "STANDBY"
    BY <1>1, <2>1, CommandTurn
  <2>3. Core'
    BY <1>4, <2>2, SyncReqStep
  <2>. QED  BY <1>1, <2>1, <2>3, TurnsSearch
<1>5. ASSUME NEW cmd \in Commands, NEW m, NEW y, NEW next \in Searching, listen_req(cmd, m, y, next),
             <<m, y, next>> \in {<<"INQUIRY_SCAN", "inquiry_scan_rx_cb", "INQUIRY_SCAN">>,
                                 <<"PAGE_SCAN", "page_scan_rx_id_cb", "PAGE_SCAN">>,
                                 <<"PAGE_SCAN", "monitor1_rx_id_cb", "PAGE_SCAN">>}
      PROVE  Core' /\ HostInv'
  <2>1. rxq # << >> /\ rxq' = Tail(rxq) /\ Head(rxq) \in Commands /\ session' = session /\ set_state(next)
    BY <1>5 DEF listen_req, Handle
  <2>2. state = "STANDBY"
    BY <1>1, <2>1, CommandTurn
  <2>3. Core'
    BY <1>5, <2>2, ListenReqStep
  <2>. QED  BY <1>1, <2>1, <2>3, TurnsSearch
<1>6. {"inquiry", "paging", "inquiry_scan", "page_scan", "monitor"} \subseteq Commands
      /\ {"INQUIRY", "PAGE", "INQUIRY_SCAN", "PAGE_SCAN"} \subseteq Searching
  BY DEF Commands, Searching
<1>7. start_sync_req("inquiry", "INQUIRY", "inquiry_start_sync", "INQUIRY") => Core' /\ HostInv'
  BY <1>4, <1>6
<1>8. start_sync_req("paging", "PAGING", "paging_start_sync", "PAGE") => Core' /\ HostInv'
  BY <1>4, <1>6
<1>9. listen_req("inquiry_scan", "INQUIRY_SCAN", "inquiry_scan_rx_cb", "INQUIRY_SCAN") => Core' /\ HostInv'
  BY <1>5, <1>6
<1>10. listen_req("page_scan", "PAGE_SCAN", "page_scan_rx_id_cb", "PAGE_SCAN") => Core' /\ HostInv'
  BY <1>5, <1>6
<1>11. listen_req("monitor", "PAGE_SCAN", "monitor1_rx_id_cb", "PAGE_SCAN") => Core' /\ HostInv'
  BY <1>5, <1>6
<1>. QED  BY <1>2, <1>3, <1>7, <1>8, <1>9, <1>10, <1>11 DEF CtlMainLoop

LEMMA CtlInitInv == CtlInit => CtlInv
<1>. SUFFICES ASSUME CtlInit PROVE CtlInv
  OBVIOUS
<1>1. Fields
  <2>1. clkn \in 0 .. 3 /\ drain \in 0 .. DRAIN /\ scan.slots \in 0 .. SCAN_MAX_SLOTS /\ rx.left \in 0 .. 9
    BY Arithmetic DEF CtlInit, NoScan, NoRx
  <2>2. scan \in [cb : ScanCallbacks, slots : 0 .. SCAN_MAX_SLOTS]
    BY <2>1 DEF CtlInit, NoScan, ScanCallbacks
  <2>3. rx \in [cb : RxCallbacks, msg : BOOLEAN, left : 0 .. 9] /\ tx \in [cb : TxCallbacks, hdr : BOOLEAN]
    BY <2>1 DEF CtlInit, NoTx, NoRx, RxCallbacks, TxCallbacks
  <2>4. rxq \in Seq(Commands \cup {"idle", "set_eir"}) /\ txq \in Seq(States)
    BY DEF CtlInit
  <2>. QED
    BY <2>1, <2>2, <2>3, <2>4 DEF Fields, CtlInit, States, Modes, TxCallbacks, PktKinds
<1>2. Holds(agenda, tick, {})
  BY AgendaEmpty DEF CtlInit
<1>3. TaskChain({})
  BY DEF TaskChain, Rest, CtlInit, NoTx, NoRx
<1>4. HostInv
  BY DEF HostInv, Asked, Told, Eirs, Where, CtlInit
<1>. QED  BY <1>1, <1>2, <1>3, <1>4 DEF CtlInv, Holds, CtlInit

LEMMA CtlStutter ==
  ASSUME CtlInv, UNCHANGED ctlVars
  PROVE  CtlInv'
<1>1. UNCHANGED <<state, mode, died, agenda, tick, call, clkn, tx, rx, pkt,
                  scan, radio, eir, expired, drain, rxq, txq, session>>
  BY DEF ctlVars
<1>2. Fields'
  BY <1>1 DEF CtlInv, Fields
<1>3. HostInv'
  BY <1>1 DEF CtlInv, HostInv, Asked, Told, Eirs
<1>4. Orderly(agenda, tick)' /\ Pend(agenda, tick)' = Pend(agenda, tick)
  BY <1>1 DEF CtlInv
<1>5. TaskChain(Pend(agenda, tick))'
  <2>1. PICK S : S = Pend(agenda, tick) /\ S = Pend(agenda, tick)' /\ TaskChain(S)
    BY <1>4 DEF CtlInv
  <2>2. CASE call = "none"
    <3>1. UNCHANGED TxSlot
      BY <1>1 DEF TxSlot
    <3>2. (Operating => state = "STANDBY" \/ Stalled) => (Operating' => state' = "STANDBY" \/ Stalled')
      BY <1>1 DEF Operating, Stalled
    <3>3. \A n \in Nat : Soon(n) => Soon(n)'
      BY <1>1 DEF Soon, Operating, Wait, Budget
    <3>4. \A d \in 0 .. 10, i \in 0 .. 5 : On(d, i) => On(d, i)'
      BY <1>1 DEF On, Now
    <3>5. \A c : For(c) => For(c)'
      BY <1>1 DEF For
    <3>6. Fields
      BY DEF CtlInv
    <3>. QED  BY <1>1, <2>1, <2>2, <3>1, <3>2, <3>3, <3>4, <3>5, <3>6, Carries
  <2>3. CASE call # "none"
    <3>1. Calling(S)
      BY <2>1, <2>3, WhoseCall
    <3>2. Calling(S)'
      BY <1>1, <3>1 DEF Calling, For, Soon, Operating, Wait, Budget, On, Now, TxSlot
    <3>. QED  BY <2>1, <3>2 DEF TaskChain
  <2>. QED  BY <2>2, <2>3
<1>. QED  BY <1>1, <1>2, <1>3, <1>4, <1>5 DEF CtlInv

LEMMA CtlNextInv == CtlInv /\ [CtlNext]_ctlVars => CtlInv'
<1>. SUFFICES ASSUME CtlInv, [CtlNext]_ctlVars
              PROVE  CtlInv'
  OBVIOUS
<1>1. Core /\ HostInv /\ Turns
  BY DEF CtlInv, Core, ChainInv, Turns
<1>2. Core' /\ HostInv' => CtlInv'
  BY DEF CtlInv, Core, ChainInv
<1>3. CASE UNCHANGED ctlVars
  BY <1>3, CtlStutter
<1>4. CASE Interrupt
  BY <1>1, <1>2, <1>4, InterruptStep, TurnsInterrupt DEF Says
<1>5. CASE CtlMainLoop
  BY <1>1, <1>2, <1>5, MainLoopStep
<1>6. CASE Expire
  <2>1. UNCHANGED <<rxq, session, state, txq>>
    BY <1>6 DEF Expire
  <2>. QED  BY <1>1, <1>2, <1>6, <2>1, ExpireStep, TurnsInterrupt
<1>7. CASE HostStart \/ HostStop \/ HostSetEir \/ HostRead
  BY <1>1, <1>2, <1>7, HostSteps, TurnsHost
<1>. QED  BY <1>3, <1>4, <1>5, <1>6, <1>7 DEF CtlNext

(* In every reachable state the agenda holds one of the few patterns TaskChain   *)
(* lists: what one task, or a transmission and the reception after e, still *)
(* has to do.                                                                *)
THEOREM CtlInductive == CtlSpec => []CtlInv
  BY CtlInitInv, CtlNextInv, PTL DEF CtlSpec

(* The item that runs next belongs to the task that the radio is tuned for.  *)
LEMMA ItemDue ==
  ASSUME Core, NEW cb, DueNow(cb)
  PROVE  <<0, cb>> \in Pend(agenda, tick) /\ tick > 0
<1>1. Orderly(agenda, tick) /\ Holds(agenda, tick, Pend(agenda, tick))
  BY DEF Core, ChainInv, Holds
<1>2. tick \in 1 .. Len(agenda[0]) /\ agenda[0][tick] = cb
  BY DEF DueNow
<1>3. Len(agenda[0]) \in Nat
  BY <1>1, Buckets, CtlConsts
<1>4. tick > 0
  BY <1>2, <1>3
<1>5. <<0, agenda[0][tick]>> \in Pend(agenda, tick)
  BY <1>1, <1>2, ItemRuns
<1>. QED  BY <1>2, <1>4, <1>5

LEMMA CtlInvTasks == CtlInv => TasksNeverCollide
<1>. SUFFICES ASSUME CtlInv PROVE TasksNeverCollide
  OBVIOUS
<1>1. Core /\ Fields /\ died \subseteq {"Invalid state transition"}
  BY DEF CtlInv, Core, ChainInv
<1>2. PICK S : S = Pend(agenda, tick) /\ Holds(agenda, tick, S) /\ TaskChain(S)
  BY DEF CtlInv, Holds
<1>3. \A k \in Frames : Len(agenda[k]) < NUM_CB
  BY <1>2, NeverFull
<1>4. CtlTypeOK
  <2>1. /\ agenda \in [Frames -> Seq(Items)] /\ tick \in Nat /\ tick <= Len(agenda[0]) + 1
        /\ \A k \in Frames : Len(agenda[k]) \in Nat
    BY <1>2, Buckets DEF Holds
  <2>2. \A k \in 0 .. NUM_FRAMES - 1 : Len(agenda[k]) <= NUM_CB
    BY <1>3, <2>1, CtlConsts
  <2>3. tick \in 0 .. NUM_CB + 1
    BY <1>3, <2>1, CtlConsts
  <2>4. died \subseteq Reasons
    BY <1>1 DEF Reasons
  <2>. QED  BY <1>1, <2>1, <2>2, <2>3, <2>4 DEF CtlTypeOK, Fields, Frames
<1>5. SlotsAligned
  <2>. SUFFICES ASSUME DueNow("tx_execute")
                PROVE  clkn = IF mode \in {"INQUIRY", "PAGING", "MASTER"} THEN 0 ELSE 2
    BY DEF SlotsAligned
  <2>1. <<0, "tx_execute">> \in S /\ tick > 0
    BY <1>1, <1>2, ItemDue
  <2>2. On(0, TxSlot + 1)
    BY <1>2, <2>1, WhoseExecute DEF TxGoes, BothGo
  <2>3. clkn \in 0 .. 3
    BY <1>1 DEF Fields
  <2>4. (clkn + 0) % 4 = (TxSlot + 1) % 4
    BY <2>1, <2>2 DEF On, At, Now
  <2>5. TxSlot = IF mode \in {"INQUIRY", "PAGING", "MASTER"} THEN 3 ELSE 1
    BY DEF TxSlot, Masters, MasterTx, SlaveTx
  <2>. QED  BY <2>3, <2>4, <2>5
<1>6. RadioOwned
  <2>1. DueNow("tx_execute") => radio = "tx"
    BY <1>1, <1>2, ItemDue, WhoseExecute DEF TxGoes, BothGo
  <2>2. DueNow("rx_execute") => radio = "rx"
    BY <1>1, <1>2, ItemDue, WhoseRxExecute DEF RxGoes
  <2>3. DueNow("rx_decode") => radio = "rx"
    BY <1>1, <1>2, ItemDue, WhoseDecode DEF RxDecodes
  <2>4. DueNow("scan_wait_more") => radio = "scan"
    BY <1>1, <1>2, ItemDue, WhoseWait DEF Scans
  <2>. QED  BY <2>1, <2>2, <2>3, <2>4 DEF RadioOwned
<1>. QED  BY <1>1, <1>3, <1>4, <1>5, <1>6 DEF TasksNeverCollide, Frames

LEMMA CtlInvQuiet == CtlInv => StandbyIsQuiet
<1>. SUFFICES ASSUME CtlInv PROVE StandbyIsQuiet
  OBVIOUS
<1>1. Fields
  BY DEF CtlInv
<1>2. PICK S : S = Pend(agenda, tick) /\ Holds(agenda, tick, S) /\ TaskChain(S)
  BY DEF CtlInv, Holds
<1>3. ASSUME tick = 0
      PROVE  S = {} <=> \A k \in Frames : agenda[k] = << >>
  <2>1. \A k \in Frames : agenda[k] \in Seq(Items)
    BY <1>2, Buckets DEF Holds
  <2>2. ASSUME S = {}, NEW k \in Frames, agenda[k] # << >>
        PROVE  FALSE
    <3>1. 1 \in Left(agenda, tick, k)
      BY <1>3, <2>1, <2>2, EmptySeq, LenProperties DEF Left, FirstLeft
    <3>2. agenda[k][1] \in Items
      BY <2>1, <2>2
    <3>3. <<k, agenda[k][1]>> \in Pend(agenda, tick)
      BY <3>1, <3>2 DEF Pend
    <3>. QED  BY <1>2, <2>2, <3>3
  <2>3. ASSUME \A k \in Frames : agenda[k] = << >>, NEW e \in S
        PROVE  FALSE
    <3>1. e[1] \in Frames /\ \E i \in Left(agenda, tick, e[1]) : TRUE
      BY <1>2, <2>3 DEF Pend
    <3>2. Left(agenda, tick, e[1]) = {}
      BY <1>3, <2>3, <3>1 DEF Left, FirstLeft
    <3>. QED  BY <3>1, <3>2
  <2>. QED  BY <2>2, <2>3
<1>4. ASSUME drain = 0, tick = 0, state = "STANDBY", Operating
      PROVE  NothingScheduled /\ ~tx.hdr /\ ~rx.msg /\ radio = "idle"
  <2>1. Rest(S)
    BY <1>1, <1>2, <1>4, Awaited
  <2>2. \A k \in Frames : agenda[k] = << >>
    BY <1>3, <1>4, <2>1 DEF Rest
  <2>. QED  BY <1>4, <2>1, <2>2 DEF Rest, NothingScheduled, Frames
<1>5. ASSUME Operating, state # "STANDBY", NothingScheduled
      PROVE  Stalled
  <2>1. S = {} /\ tick = 0
    BY <1>3, <1>5 DEF NothingScheduled, Frames
  <2>2. ~Calling(S)
    BY <2>1 DEF Calling
  <2>7. ~(\E k \in 0 .. 2, x \in Openers : Waits(S, x, k))
    BY <2>1 DEF Waits
  <2>3. ~(\E k \in 0 .. 1 : Scans(S, k) \/ RxGoes(S, k) \/ RxDecodes(S, k) \/ BothGo(S, k) \/ BothEnd(S, k))
    BY <2>1 DEF Scans, RxGoes, RxDecodes, BothGo, BothEnd
  <2>4. ~(\E k \in 0 .. 7 : TxReady(S, k) \/ BothReady(S, k) \/ RxReady(S, k))
    BY <2>1 DEF TxReady, BothReady, RxReady, TxAt, RxAt
  <2>5. ~(\E k \in 0 .. 1, f \in 1 .. 10 : TxGoes(S, k, f)) /\ ~(\E f \in 0 .. 9 : TxEnds(S, f))
    BY <2>1 DEF TxGoes, TxEnds
  <2>6. Rest(S)
    BY <1>2, <2>2, <2>3, <2>4, <2>5, <2>7 DEF TaskChain
  <2>. QED  BY <1>5, <2>6 DEF Rest
<1>. QED  BY <1>4, <1>5 DEF StandbyIsQuiet

(* Whatever the host asks and whatever the air brings, a packet is never     *)
(* handed to a transmitter or receiver at work, a callback finds the radio   *)
(* tuned for e, no bucket of the agenda fills, and a transmission starts in *)
(* the device's own slot.                                                    *)
THEOREM TheTasksNeverCollide == CtlSpec => []TasksNeverCollide
  BY CtlInductive, CtlInvTasks, PTL

(* The main loop never takes a command before the last search or connection  *)
(* is gone, and a search or connection never loses the callback that is to   *)
(* take e on, but for the packet of the wrong type.                         *)
THEOREM StandbyStaysQuiet == CtlSpec => []StandbyIsQuiet
  BY CtlInductive, CtlInvQuiet, PTL
=============================================================================
