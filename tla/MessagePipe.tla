---------------------------- MODULE MessagePipe ----------------------------
(* What the message transport between ubtbr and the device promises in one   *)
(* direction: messages, numbered as they are posted, arrive whole and in     *)
(* that order; a direction that may lose messages loses whole ones.          *)
EXTENDS Naturals

CONSTANTS Sizes,  \* lengths of messages
          Lossy
VARIABLES pipe,   \* the messages on their way
          posted, \* how many were posted
          last    \* the message handed over last

Post(s) == /\ posted' = posted + 1
           /\ pipe' = pipe \cup {[id |-> posted + 1, size |-> s]}
           /\ UNCHANGED last
HandOver == \E m \in pipe : /\ \A x \in pipe : m.id <= x.id
                            /\ last' = m /\ pipe' = pipe \ {m}
                            /\ UNCHANGED posted
Lose == Lossy /\ (\E m \in pipe : pipe' = pipe \ {m}) /\ UNCHANGED <<posted, last>>

Next == (\E s \in Sizes : Post(s)) \/ HandOver \/ Lose
Spec == pipe = {} /\ posted = 0 /\ [][Next]_<<pipe, posted, last>>
=============================================================================
