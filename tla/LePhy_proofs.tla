---------------------------- MODULE LePhy_proofs ----------------------------
(***************************************************************************)
(* Proofs about LePhy: for every pool size and every timing, no packet     *)
(* buffer ever has two owners, and none is lost by all.                    *)
(***************************************************************************)
EXTENDS LePhy, TLAPS, SequenceTheorems, WellFoundedInduction

(* A buffer has its four fields, whatever they hold: ages and instants play *)
(* no part in who owns it.                                                 *)
IsBuffer(x) == x = [avail |-> x.avail, kind |-> x.kind, instant |-> x.instant, age |-> x.age]
IsPool(bs) == /\ bs = [b \in Pool |-> bs[b]]
              /\ \A b \in Pool : IsBuffer(bs[b])

(* The owners and what they own.  The main loop holds a packet exactly     *)
(* between queue_remove and buffer_release, or a restart would free it     *)
(* twice.                                                                  *)
Owners ==
  /\ IsPool(buf)
  /\ current_rxbuf \in Pool \cup {NULL} /\ packet \in Pool \cup {NULL}
  /\ packet_queue \in Seq(Pool) /\ isr \in BOOLEAN
  /\ step = "poll" => packet = NULL
  /\ step # "poll" => packet # NULL

(* No buffer is forgotten.  Whoever takes a new current buffer has to have *)
(* passed the old one on: the DMA handler has queued it, and TIMER1 waits  *)
(* for a buffer only while there is none.                                  *)
Waits(m) == m \notin {Off, Past}
Kept ==
  /\ EveryBufferOwned
  /\ isr => current_rxbuf \in Queued
  /\ Waits(mr3) => current_rxbuf = NULL
Inv == Owners /\ OneOwner /\ Kept

-----------------------------------------------------------------------------
(* The pool.                                                               *)

LEMMA PoolNat == Pool \subseteq Nat /\ NULL \notin Pool
  BY LePhyAssumption DEF Pool

LEMMA LeastIsIn ==
  ASSUME NEW S \in SUBSET Nat, S # {}
  PROVE  Min(S) \in S
<1>. DEFINE R == {ss \in Nat \X Nat : ss[1] < ss[2]}
<1>1. IsWellFoundedOn(R, Nat)
  BY NatLessThanWellFounded DEF OpToRel
<1>2. PICK x \in S : \A y \in S : ~ (<<y, x>> \in R)
  <2>. HIDE DEF R
  <2>. QED  BY <1>1, WFMin
<1>3. ASSUME NEW y \in S PROVE x <= y
  <2>1. x \in Nat /\ y \in Nat
    OBVIOUS
  <2>2. y < x => <<y, x>> \in R
    BY <2>1
  <2>3. ~(y < x)
    BY <1>2, <2>2
  <2>. QED  BY <2>1, <2>3
<1>. QED  BY <1>3 DEF Min

(* What buffer_get gives: NULL, or a buffer that was free and is no more.  *)
Gives(bs, p) ==
  /\ p = [buf |-> p.buf, cur |-> p.cur]
  /\ p.cur \in Pool \cup {NULL} /\ IsPool(p.buf)
  /\ p.cur # NULL => bs[p.cur].avail /\ ~p.buf[p.cur].avail
  /\ \A b \in Pool : b # p.cur => p.buf[b].avail = bs[b].avail

LEMMA GetGives == ASSUME NEW bs, IsPool(bs) PROVE Gives(bs, buffer_get(bs))
<1>1. CASE Free(bs) = {}
  <2>1. buffer_get(bs) = [buf |-> bs, cur |-> NULL]
    BY <1>1 DEF buffer_get
  <2>. QED  BY <2>1, PoolNat DEF Gives
<1>2. CASE Free(bs) # {}
  <2>. DEFINE b == Min(Free(bs))
  <2>1. b \in Pool /\ bs[b].avail
    BY <1>2, LeastIsIn, PoolNat DEF Free
  <2>2. buffer_get(bs) = [buf |-> [bs EXCEPT ![b] = Fresh], cur |-> b]
    BY <1>2 DEF buffer_get
  <2>. HIDE DEF b
  <2>3. IsPool([bs EXCEPT ![b] = Fresh])
    BY <2>1 DEF IsPool, IsBuffer, Fresh
  <2>4. ~[bs EXCEPT ![b] = Fresh][b].avail /\ b # NULL
    BY <2>1, PoolNat DEF IsPool, Fresh
  <2>5. \A c \in Pool : c # b => [bs EXCEPT ![b] = Fresh][c].avail = bs[c].avail
    BY DEF IsPool
  <2>. QED  BY <2>1, <2>2, <2>3, <2>4, <2>5 DEF Gives
<1>. QED  BY <1>1, <1>2

(* The pool stays, or the current buffer is cleared: nobody gains or loses *)
(* a buffer.                                                               *)
SameOwned(bs, ps) == IsPool(ps) /\ \A b \in Pool : ps[b].avail = bs[b].avail

LEMMA SameHolds == ASSUME Owners PROVE Same = [buf |-> Same.buf, cur |-> Same.cur] /\ IsPool(Same.buf)
                      /\ Same.cur \in Pool \cup {NULL}
  BY DEF Owners, Same

LEMMA ClearOwned ==
  ASSUME NEW bs, IsPool(bs), NEW c \in Pool
  PROVE  SameOwned(bs, [bs EXCEPT ![c] = buffer_clear(@)])
<1>1. IsBuffer(buffer_clear(bs[c])) /\ buffer_clear(bs[c]).avail = bs[c].avail
  BY DEF IsBuffer, buffer_clear
<1>. QED  BY <1>1 DEF IsPool, SameOwned

(* What tuning, staying and closing an event do with the pool p.           *)
Keeps(p) == current_rxbuf' = p.cur /\ SameOwned(p.buf, buf')

LEMMA TuneKeeps ==
  ASSUME NEW p, NEW c, p = [buf |-> p.buf, cur |-> p.cur], IsPool(p.buf),
         p.cur \in Pool \cup {NULL}, change_channel(c, p)
  PROVE  Keeps(p)
<1>1. CASE p.cur = NULL /\ Using(p)
  BY <1>1 DEF Using, Keeps, SameOwned
<1>2. CASE p.cur # NULL /\ Using([p EXCEPT !.buf[p.cur] = buffer_clear(@)])
  <2>1. /\ [p EXCEPT !.buf[p.cur] = buffer_clear(@)].buf = [p.buf EXCEPT ![p.cur] = buffer_clear(@)]
        /\ [p EXCEPT !.buf[p.cur] = buffer_clear(@)].cur = p.cur
    OBVIOUS
  <2>. QED  BY <1>2, <2>1, ClearOwned DEF Using, Keeps
<1>. QED  BY <1>1, <1>2 DEF change_channel

LEMMA FinishKeeps ==
  ASSUME NEW p, NEW c, NEW e, NEW r, NEW m, p = [buf |-> p.buf, cur |-> p.cur],
         IsPool(p.buf), p.cur \in Pool \cup {NULL}, finish_conn_event(c, e, p, r, m)
  PROVE  Keeps(p)
<1>1. CASE change_channel(NoConn, p)
  BY <1>1, TuneKeeps
<1>2. CASE Stay(Counted(c, e), p, r)
  BY <1>2 DEF Stay, Using, Keeps, SameOwned
<1>. QED  BY <1>1, <1>2 DEF finish_conn_event

-----------------------------------------------------------------------------
(* The ways a step may deal with the owners.                               *)

(* Nobody gains or loses a buffer.                                         *)
Keeping ==
  /\ current_rxbuf' = current_rxbuf /\ SameOwned(buf, buf')
  /\ UNCHANGED <<packet_queue, packet, isr>>
  /\ (step' = "poll") = (step = "poll")
  /\ Waits(mr3') => Waits(mr3)

LEMMA KeepInv == Inv /\ Keeping => Inv'
<1>. SUFFICES ASSUME Inv, Keeping PROVE Inv'
  OBVIOUS
<1>1. Owners'
  BY DEF Inv, Owners, Keeping, SameOwned
<1>2. Queued' = Queued /\ Queued \subseteq Pool
  BY DEF Inv, Owners, Keeping, Queued
<1>3. \A b \in Pool : buf'[b].avail = buf[b].avail
  BY DEF Keeping, SameOwned
<1>4. OneOwner'
  BY <1>2, <1>3 DEF Inv, Owners, OneOwner, Keeping
<1>5. Free(buf') = Free(buf)
  BY <1>3 DEF Free
<1>6. Kept'
  BY <1>2, <1>5 DEF Inv, Kept, EveryBufferOwned, Keeping
<1>. QED  BY <1>1, <1>4, <1>6 DEF Inv

(* The current buffer, passed on or none, becomes one that was free, or    *)
(* NULL.                                                                   *)
Getting ==
  /\ current_rxbuf \in Queued \cup {NULL}
  /\ current_rxbuf' = buffer_get(buf).cur /\ SameOwned(buffer_get(buf).buf, buf')
  /\ UNCHANGED <<packet_queue, packet, step>> /\ isr' = FALSE
  /\ Waits(mr3') => current_rxbuf' = NULL

LEMMA GetInv == Inv /\ Getting => Inv'
<1>. SUFFICES ASSUME Inv, Getting PROVE Inv'
  OBVIOUS
<1>. DEFINE p == buffer_get(buf)
<1>1. Gives(buf, p)
  BY GetGives DEF Inv, Owners
<1>. HIDE DEF p
<1>2. current_rxbuf' = p.cur /\ IsPool(buf') /\ \A b \in Pool : buf'[b].avail = p.buf[b].avail
  BY DEF Getting, SameOwned, p
<1>3. Owners'
  BY <1>1, <1>2 DEF Inv, Owners, Getting, Gives
<1>4. Queued' = Queued /\ Queued \subseteq Pool
  BY DEF Inv, Owners, Getting, Queued
<1>5. packet' = packet /\ packet_queue' = packet_queue
  BY DEF Getting
<1>6. \A b \in Queued \cup ({packet} \ {NULL}) : b \in Pool /\ ~buf[b].avail /\ b # current_rxbuf'
  BY <1>1, <1>2, <1>4, PoolNat DEF Inv, Owners, OneOwner, Gives
<1>7. \A b \in Queued \cup ({packet} \ {NULL}) : ~buf'[b].avail
  BY <1>1, <1>2, <1>6 DEF Gives
<1>8. current_rxbuf' # NULL => current_rxbuf' \in Pool /\ ~buf'[current_rxbuf'].avail
  BY <1>1, <1>2 DEF Gives
<1>9. current_rxbuf' \notin Queued /\ (current_rxbuf' # NULL => current_rxbuf' # packet)
  BY <1>6
<1>10. \A b \in Queued \cup ({current_rxbuf', packet} \ {NULL}) : ~buf'[b].avail
  BY <1>7, <1>8
<1>11. packet \notin Queued /\ \A i, j \in DOMAIN packet_queue : packet_queue[i] = packet_queue[j] => i = j
  BY DEF Inv, OneOwner
<1>12. OneOwner'
  BY <1>4, <1>5, <1>9, <1>10, <1>11 DEF OneOwner
<1>13. EveryBufferOwned'
  <2>1. \A b \in Pool : b \in Free(buf) \cup Queued \cup ({packet} \ {NULL})
    BY DEF Inv, Kept, EveryBufferOwned, Getting
  <2>2. \A b \in Pool : b \in Free(buf) => b \in Free(buf') \/ b = current_rxbuf'
    BY <1>1, <1>2 DEF Gives, Free
  <2>3. current_rxbuf' \in Pool \cup {NULL} /\ packet \in Pool \cup {NULL} /\ Free(buf') \subseteq Pool
    BY <1>3, <1>5 DEF Inv, Owners, Free
  <2>. QED  BY <1>4, <1>5, <2>1, <2>2, <2>3, PoolNat DEF EveryBufferOwned
<1>14. Kept'
  BY <1>13 DEF Kept, Getting
<1>. QED  BY <1>3, <1>12, <1>14 DEF Inv

(* Inside the DMA handler the packet just queued is current_rxbuf too.     *)
LEMMA AppendInv == Inv /\ le_DMA_last_byte => Inv'
<1>. SUFFICES ASSUME Inv, le_DMA_last_byte PROVE Inv'
  OBVIOUS
<1>. DEFINE c == current_rxbuf
<1>1. /\ c \in Pool /\ c # NULL /\ current_rxbuf' = c /\ packet_queue' = Append(packet_queue, c)
      /\ isr' = TRUE /\ packet' = packet /\ step' = step
      /\ buf' = [buf EXCEPT ![c] = Filled(@)] /\ ~isr
  BY DEF Inv, Owners, le_DMA_last_byte, DmaRuns, Elsewhere, main
<1>2. IsBuffer(Filled(buf[c])) /\ Filled(buf[c]).avail = buf[c].avail
  BY DEF IsBuffer, Filled
<1>3. SameOwned(buf, buf')
  BY <1>1, <1>2 DEF Inv, Owners, IsPool, SameOwned
<1>4. packet_queue \in Seq(Pool) /\ packet_queue' \in Seq(Pool)
  BY <1>1, AppendProperties DEF Inv, Owners
<1>5. Owners'
  BY <1>1, <1>3, <1>4 DEF Inv, Owners, SameOwned
<1>6. Queued' = Queued \cup {c} /\ Queued \subseteq Pool
  BY <1>1, <1>4 DEF Queued
<1>7. c \notin Queued /\ c # packet /\ packet \notin Queued
  BY <1>1 DEF Inv, OneOwner
<1>8. \A i, j \in DOMAIN packet_queue' : packet_queue'[i] = packet_queue'[j] => i = j
  <2>1. \A i \in DOMAIN packet_queue : packet_queue[i] # c
    BY <1>7 DEF Queued
  <2>2. \A i, j \in DOMAIN packet_queue : packet_queue[i] = packet_queue[j] => i = j
    BY DEF Inv, OneOwner
  <2>. QED  BY <1>1, <1>4, <2>1, <2>2
<1>9. \A b \in Queued' \cup ({current_rxbuf', packet'} \ {NULL}) : ~buf'[b].avail
  <2>1. \A b \in Queued \cup ({c, packet} \ {NULL}) : b \in Pool /\ ~buf[b].avail
    BY <1>1, <1>6 DEF Inv, Owners, OneOwner
  <2>. QED  BY <1>1, <1>3, <1>6, <2>1 DEF SameOwned
<1>10. OneOwner'
  BY <1>1, <1>6, <1>7, <1>8, <1>9 DEF OneOwner
<1>11. Free(buf') = Free(buf) /\ mr3' = mr3
  BY <1>3 DEF Free, SameOwned, le_DMA_last_byte, timer
<1>12. Kept'
  BY <1>1, <1>6, <1>11 DEF Inv, Kept, EveryBufferOwned
<1>. QED  BY <1>5, <1>10, <1>12 DEF Inv

(* The main loop holds nothing when it takes a packet.                     *)
LEMMA TakeInv == Inv /\ queue_remove => Inv'
<1>. SUFFICES ASSUME Inv, queue_remove PROVE Inv'
  OBVIOUS
<1>. DEFINE h == Head(packet_queue)
            q == Tail(packet_queue)
<1>1. /\ packet_queue # << >> /\ packet' = h /\ packet_queue' = q /\ step' = "handle"
      /\ buf' = buf /\ current_rxbuf' = current_rxbuf /\ isr' = isr /\ ~isr
  BY DEF queue_remove, MainRuns
<1>2. packet_queue \in Seq(Pool)
  BY DEF Inv, Owners
<1>3. /\ q \in Seq(Pool) /\ h = packet_queue[1] /\ h \in Pool /\ 1 \in DOMAIN packet_queue
      /\ \A i \in DOMAIN q : i + 1 \in DOMAIN packet_queue /\ q[i] = packet_queue[i + 1] /\ i \in Nat \ {0}
  BY <1>1, <1>2, HeadTailProperties
<1>4. \A i, j \in DOMAIN packet_queue : packet_queue[i] = packet_queue[j] => i = j
  BY DEF Inv, OneOwner
<1>. HIDE DEF h, q
<1>5. Owners'
  BY <1>1, <1>3, PoolNat DEF Inv, Owners
<1>6. Queued' \subseteq Queued /\ h \in Queued
  BY <1>1, <1>3 DEF Queued
<1>7. h \notin Queued'
  <2>1. \A i \in DOMAIN q : q[i] # h
    BY <1>3, <1>4
  <2>. QED  BY <1>1, <2>1 DEF Queued
<1>8. \A i, j \in DOMAIN q : q[i] = q[j] => i = j
  BY <1>3, <1>4
<1>9. current_rxbuf \notin Queued /\ \A b \in Queued \cup ({current_rxbuf} \ {NULL}) : ~buf[b].avail
  BY <1>1 DEF Inv, OneOwner
<1>10. OneOwner'
  BY <1>1, <1>6, <1>7, <1>8, <1>9 DEF OneOwner
<1>11. Queued \subseteq Queued' \cup {h} /\ packet = NULL /\ mr3' = mr3
  <2>1. \A i \in DOMAIN packet_queue : i # 1 => i - 1 \in DOMAIN q /\ q[i - 1] = packet_queue[i]
    BY <1>1, <1>2, HeadTailProperties DEF q
  <2>2. \A i \in DOMAIN packet_queue : packet_queue[i] \in Queued' \cup {h}
    BY <1>1, <1>3, <2>1 DEF Queued
  <2>. QED  BY <2>2 DEF Queued, Inv, Owners, queue_remove, MainRuns
<1>12. Kept'
  <2>1. Free(buf)' = Free(buf)
    BY <1>1 DEF Free
  <2>2. packet' \in Pool /\ NULL \notin Pool /\ current_rxbuf' = current_rxbuf
    BY <1>1, <1>3, PoolNat
  <2>3. Queued' \cup {packet'} = Queued \cup {h}
    BY <1>1, <1>6, <1>11
  <2>4. EveryBufferOwned'
    BY <1>1, <1>11, <2>1, <2>2, <2>3 DEF Inv, Kept, EveryBufferOwned
  <2>. QED  BY <1>1, <1>11, <2>4 DEF Inv, Kept
<1>. QED  BY <1>5, <1>10, <1>12 DEF Inv

(* The packet released is in no other hands.                               *)
LEMMA ReleaseInv == Inv /\ buffer_release => Inv'
<1>. SUFFICES ASSUME Inv, buffer_release PROVE Inv'
  OBVIOUS
<1>1. /\ buf' = [buf EXCEPT ![packet] = Released] /\ packet' = NULL /\ step' = "poll"
      /\ current_rxbuf' = current_rxbuf /\ packet_queue' = packet_queue /\ isr' = isr /\ ~isr
      /\ step = "release"
  BY DEF buffer_release, MainRuns
<1>2. packet \in Pool /\ packet # NULL
  BY <1>1 DEF Inv, Owners
<1>3. IsBuffer(Released)
  BY DEF IsBuffer, Released
<1>4. IsPool(buf') /\ \A b \in Pool : b # packet => buf'[b] = buf[b]
  BY <1>1, <1>2, <1>3 DEF Inv, Owners, IsPool
<1>5. Owners'
  BY <1>1, <1>4 DEF Inv, Owners
<1>6. Queued' = Queued /\ Queued \subseteq Pool
  BY <1>1 DEF Inv, Owners, Queued
<1>7. /\ packet \notin Queued /\ (current_rxbuf # NULL => current_rxbuf # packet)
      /\ current_rxbuf \notin Queued
  BY <1>1 DEF Inv, OneOwner
<1>8. \A b \in Queued \cup ({current_rxbuf} \ {NULL}) : b \in Pool /\ b # packet /\ ~buf[b].avail
  BY <1>6, <1>7 DEF Inv, Owners, OneOwner
<1>9. \A b \in Queued \cup ({current_rxbuf} \ {NULL}) : ~buf'[b].avail
  BY <1>4, <1>8
<1>10. NULL \notin Queued
  BY <1>6, PoolNat
<1>11. OneOwner'
  BY <1>1, <1>6, <1>7, <1>9, <1>10 DEF Inv, OneOwner
<1>12. Free(buf') = Free(buf) \cup {packet}
  <2>1. buf'[packet].avail
    BY <1>1, <1>2 DEF Inv, Owners, IsPool, Released
  <2>. QED  BY <1>2, <1>4, <2>1 DEF Free
<1>13. EveryBufferOwned'
  <2>1. Pool = Free(buf) \cup Queued \cup ({current_rxbuf, packet} \ {NULL})
    BY DEF Inv, Kept, EveryBufferOwned
  <2>. QED  BY <1>1, <1>2, <1>6, <1>12, <2>1 DEF EveryBufferOwned
<1>14. Kept'
  BY <1>1, <1>13 DEF Inv, Kept, buffer_release, MainRuns
<1>. QED  BY <1>5, <1>11, <1>14 DEF Inv

(* Starting: every buffer is free but the first one taken.                 *)
LEMMA InitsOwned ==
  /\ IsPool(buffers_init) /\ Gives(buffers_init, buffer_get(buffers_init))
  /\ LET p == buffer_get(buffers_init) IN Pool = Free(p.buf) \cup ({p.cur} \ {NULL})
<1>1. IsBuffer(Released)
  BY DEF IsBuffer, Released
<1>2. IsPool(buffers_init)
  BY <1>1 DEF IsPool, buffers_init
<1>. DEFINE p == buffer_get(buffers_init)
<1>3. Gives(buffers_init, p)
  BY <1>2, GetGives
<1>4. \A b \in Pool : buffers_init[b].avail
  BY DEF buffers_init, Released
<1>. HIDE DEF p
<1>5. \A b \in Pool : b # p.cur => b \in Free(p.buf)
  BY <1>3, <1>4 DEF Gives, Free
<1>6. Pool = Free(p.buf) \cup ({p.cur} \ {NULL})
  BY <1>3, <1>5, PoolNat DEF Gives, Free
<1>. QED  BY <1>2, <1>3, <1>6 DEF p

LEMMA InitInv == Init => Inv
<1>. SUFFICES ASSUME Init PROVE Inv
  OBVIOUS
<1>. DEFINE p == buffer_get(buffers_init)
<1>1. /\ buf = p.buf /\ current_rxbuf = p.cur /\ packet_queue = << >> /\ packet = NULL
      /\ step = "poll" /\ isr = FALSE
  BY DEF Init
<1>. HIDE DEF p
<1>2. Gives(buffers_init, p)
  BY InitsOwned DEF p
<1>3. Owners
  <2>1. IsPool(buf) /\ current_rxbuf \in Pool \cup {NULL}
    BY <1>1, <1>2 DEF Gives
  <2>2. packet_queue \in Seq(Pool) /\ packet \in Pool \cup {NULL} /\ step = "poll" /\ packet = NULL
    BY <1>1
  <2>3. isr \in BOOLEAN
    BY <1>1
  <2>. QED  BY <2>1, <2>2, <2>3 DEF Owners
<1>4. Queued = {} /\ DOMAIN packet_queue = {}
  BY <1>1 DEF Queued
<1>5. OneOwner
  BY <1>1, <1>2, <1>4 DEF OneOwner, Gives
<1>6. Pool = Free(p.buf) \cup ({p.cur} \ {NULL}) /\ mr3 = Off
  BY InitsOwned DEF p, Init
<1>7. Kept
  BY <1>1, <1>4, <1>6 DEF Kept, EveryBufferOwned, Waits
<1>. QED  BY <1>3, <1>5, <1>7 DEF Inv

LEMMA RestartInv == Inv /\ le_phy_main => Inv'
<1>. SUFFICES ASSUME Inv, le_phy_main PROVE Inv'
  OBVIOUS
<1>. DEFINE p == buffer_get(buffers_init)
<1>1. /\ buf' = p.buf /\ current_rxbuf' = p.cur /\ packet_queue' = << >> /\ packet' = packet
      /\ step' = "poll" /\ step = "poll" /\ isr' = isr
  BY DEF le_phy_main, Using, queue_init
<1>. HIDE DEF p
<1>2. Gives(buffers_init, p)
  BY InitsOwned DEF p
<1>3. packet = NULL
  BY <1>1 DEF Inv, Owners
<1>4. Owners'
  BY <1>1, <1>2, <1>3 DEF Inv, Owners, Gives
<1>5. Queued' = {} /\ DOMAIN packet_queue' = {}
  BY <1>1 DEF Queued
<1>6. OneOwner'
  BY <1>1, <1>2, <1>3, <1>5 DEF OneOwner, Gives
<1>7. Pool = Free(p.buf) \cup ({p.cur} \ {NULL})
  BY InitsOwned DEF p
<1>8. ~isr' /\ ~Waits(mr3')
  BY <1>1 DEF le_phy_main, Enabled, Waits
<1>9. Kept'
  BY <1>1, <1>3, <1>5, <1>7, <1>8 DEF Kept, EveryBufferOwned
<1>. QED  BY <1>4, <1>6, <1>9 DEF Inv

-----------------------------------------------------------------------------
(* Every step deals with the owners in one of these ways.                  *)

LEMMA SameSame == ASSUME IsPool(buf) PROVE SameOwned(buf, buf)
  BY DEF SameOwned

(* What closing or tuning keeps, when the pool is as it was.               *)
LEMMA KeepsSame == ASSUME Keeps(Same) PROVE current_rxbuf' = current_rxbuf /\ SameOwned(buf, buf')
  BY DEF Keeps, Same

LEMMA DmaInv == Inv /\ DmaIrq => Inv'
<1>. SUFFICES ASSUME Inv, DmaIrq PROVE Inv'
  OBVIOUS
<1>1. CASE le_DMA_first_byte
  BY <1>1, SameSame, KeepInv DEF le_DMA_first_byte, DmaRuns, Elsewhere, pool, main, Keeping, Inv, Owners
<1>2. CASE le_DMA_last_byte
  BY <1>2, AppendInv
<1>3. CASE le_DMA_next_buffer
  <2>. DEFINE p == buffer_get(buf)
  <2>1. Gives(buf, p)
    BY GetGives DEF Inv, Owners
  <2>2. UNCHANGED <<packet_queue, packet, step>> /\ isr' = FALSE
    BY <1>3 DEF le_DMA_next_buffer, Elsewhere, main
  <2>. HIDE DEF p
  <2>7. current_rxbuf \in Queued /\ ~Waits(mr3)
    <3>1. current_rxbuf \in Queued /\ Queued \subseteq Pool
      BY <1>3 DEF le_DMA_next_buffer, Inv, Kept, Owners, Queued
    <3>. QED  BY <3>1, PoolNat DEF Inv, Kept
  <2>8. Waits(mr3') => current_rxbuf' = NULL
    <3>1. NextBuffer(p) => mr3' = mr3 \/ current_rxbuf' = NULL
      BY DEF NextBuffer, Using
    <3>2. mr3' = mr3 \/ NextBuffer(p)
      BY <1>3 DEF le_DMA_next_buffer, p
    <3>. QED  BY <2>7, <3>1, <3>2
  <2>3. ASSUME NextBuffer(p) PROVE Keeps(p)
    BY <2>1, <2>3 DEF NextBuffer, Using, Keeps, SameOwned, Gives
  <2>4. ASSUME NEW r, NEW e, finish_conn_event(conn, e, p, r, mr0) PROVE Keeps(p)
    BY <2>1, <2>4, FinishKeeps DEF Gives
  <2>5. \/ NextBuffer(p)
        \/ finish_conn_event(conn, Received, p, [radio EXCEPT !.state = "off"], mr0)
    BY <1>3 DEF le_DMA_next_buffer, p
  <2>6. Keeps(p)
    BY <2>3, <2>4, <2>5
  <2>. QED  BY <2>2, <2>6, <2>7, <2>8, GetInv DEF Getting, Keeps, p
<1>4. CASE le_DMA_no_buffer
  BY <1>4, SameSame, KeepInv DEF le_DMA_no_buffer, DmaRuns, Elsewhere, pool, main, timer, Keeping, Inv, Owners
<1>. QED  BY <1>1, <1>2, <1>3, <1>4 DEF DmaIrq

LEMMA TimerInv == Inv /\ TimerIrq => Inv'
<1>. SUFFICES ASSUME Inv, TimerIrq PROVE Inv'
  OBVIOUS
<1>. USE SameHolds DEF Inv
<1>1. Interrupts => UNCHANGED <<packet_queue, packet, step, isr>>
  BY DEF Interrupts, Elsewhere, main
<1>2. ASSUME Keeps(Same), Interrupts, mr3' = mr3 PROVE Inv'
  BY <1>1, <1>2, KeepsSame, KeepInv DEF Keeping
<1>3. ASSUME NEW c, change_channel(c, Same) PROVE Keeps(Same)
  BY <1>3, TuneKeeps
<1>4. ASSUME NEW c, Stay(c, Same, radio) PROVE Keeps(Same)
  BY <1>4 DEF Stay, Using, Keeps, SameOwned
<1>5. CASE TIMER1_update_offset
  BY <1>5, <1>2, <1>4 DEF TIMER1_update_offset, Fired
<1>6. CASE TIMER1_update_window
  BY <1>6, <1>2, <1>3 DEF TIMER1_update_window, Fired
<1>7. CASE TIMER1_open_event
  BY <1>7, <1>2, <1>3 DEF TIMER1_open_event, Fired
<1>8. CASE TIMER1_close_event
  <2>1. finish_conn_event(Remapped, conn_event, Same, radio, Past) /\ Interrupts /\ mr3' = mr3
    BY <1>8 DEF TIMER1_close_event, Fired
  <2>2. Keeps(Same)
    BY <2>1, FinishKeeps
  <2>. QED  BY <2>1, <2>2, <1>2
<1>9. CASE TIMER1_fs_lock
  BY <1>9, <1>1, SameSame, KeepInv DEF TIMER1_fs_lock, Keeping, Owners
<1>10. CASE TIMER1_wait_buffer
  <2>1. Gives(buf, buffer_get(buf))
    BY GetGives DEF Owners
  <2>2. Using(buffer_get(buf)) /\ Interrupts
    BY <1>10 DEF TIMER1_wait_buffer
  <2>3. SameOwned(buffer_get(buf).buf, buf')
    BY <2>1, <2>2 DEF Gives, Using, SameOwned
  <2>4. current_rxbuf = NULL /\ isr' = FALSE
    <3>1. Waits(mr3) /\ Queued \subseteq Pool
      BY <1>10 DEF TIMER1_wait_buffer, Waits, Off, Past, Owners, Queued
    <3>. QED  BY <1>1, <2>2, <3>1, PoolNat DEF Kept, Owners
  <2>5. Waits(mr3') => current_rxbuf' = NULL
    BY <1>10, <2>2 DEF TIMER1_wait_buffer, Waits, Using
  <2>. QED  BY <1>1, <2>2, <2>3, <2>4, <2>5, GetInv DEF Getting, Using
<1>. QED  BY <1>5, <1>6, <1>7, <1>8, <1>9, <1>10 DEF TimerIrq, TimerMr0

LEMMA MainInv == Inv /\ MainLoop => Inv'
<1>. SUFFICES ASSUME Inv, MainLoop PROVE Inv'
  OBVIOUS
<1>. USE SameSame, KeepInv DEF MainRuns, Keeping, Inv, Owners, pool
<1>1. ASSUME NEW kinds, Handles(kinds), step' \in {"release", "remap"}, packet' = packet PROVE Inv'
  BY <1>1 DEF Handles
<1>2. CASE queue_remove
  BY <1>2, TakeInv
<1>3. CASE le_connect_handler
  BY <1>3, <1>1 DEF le_connect_handler, Handled
<1>4. CASE le_connect_handler_bad
  BY <1>4, <1>1 DEF le_connect_handler_bad, Handled
<1>5. CASE connection_update_handler
  BY <1>5, <1>1 DEF connection_update_handler, Handled
<1>6. CASE channel_map_update_handler
  BY <1>6, <1>1 DEF channel_map_update_handler
<1>7. CASE channel_map_update_values
  BY <1>7 DEF channel_map_update_values, Handled
<1>8. CASE packet_handler_other
  BY <1>8, <1>1 DEF packet_handler_other, Handled
<1>9. CASE buffer_release
  BY <1>9, ReleaseInv
<1>. QED  BY <1>2, <1>3, <1>4, <1>5, <1>6, <1>7, <1>8, <1>9 DEF MainLoop

LEMMA OutsideInv == Inv /\ Outside => Inv'
<1>. SUFFICES ASSUME Inv, Outside PROVE Inv'
  OBVIOUS
<1>1. OnAir
  BY DEF Outside, Advertise, Anchor, Reply, PacketEnds, LinkOver
<1>. QED  BY <1>1, SameSame, KeepInv DEF OnAir, pool, main, timer, Keeping, Inv, Owners

(* Time only ages the packets that wait.                                   *)
LEMMA PassInv == Inv /\ Pass => Inv'
<1>. SUFFICES ASSUME Inv, Pass PROVE Inv'
  OBVIOUS
<1>1. PICK d : buf' = [b \in Pool |-> IF b \in Waiting THEN [buf[b] EXCEPT !.age = @ + d] ELSE buf[b]]
  BY DEF Pass
<1>2. ASSUME NEW b \in Pool
      PROVE  /\ IsBuffer([buf[b] EXCEPT !.age = @ + d])
             /\ [buf[b] EXCEPT !.age = @ + d].avail = buf[b].avail
  BY DEF Inv, Owners, IsPool, IsBuffer
<1>3. SameOwned(buf, buf')
  BY <1>1, <1>2 DEF Inv, Owners, IsPool, SameOwned
<1>4. Waits(mr3') => Waits(mr3)
  BY DEF Pass, Waits, Less, Off, Past
<1>. QED  BY <1>3, <1>4, KeepInv DEF Pass, main, Keeping

LEMMA NextInv == Inv /\ [Next]_vars => Inv'
<1>. SUFFICES ASSUME Inv, [Next]_vars PROVE Inv'
  OBVIOUS
<1>. USE SameSame, KeepInv DEF Keeping, Inv, Owners, pool, main, timer
<1>1. CASE UNCHANGED vars
  BY <1>1 DEF vars
<1>2. CASE do_cancel_follow
  BY <1>2 DEF do_cancel_follow, MainRuns
<1>3. CASE Halt
  BY <1>3 DEF Halt
<1>. QED  BY <1>1, <1>2, <1>3, DmaInv, TimerInv, MainInv, OutsideInv, PassInv, RestartInv DEF Next

(* No packet buffer ever has two owners, whatever is on the air, whichever *)
(* handler interrupts which, and however large the pool (le_phy.c,         *)
(* buffer_get, queue_insert, queue_remove, buffer_release).                *)
THEOREM PoolOwnership == Spec => []OneOwner
<1>1. Inv => OneOwner
  BY DEF Inv
<1>. QED  BY InitInv, NextInv, <1>1, PTL DEF Spec

(* No packet buffer is ever lost: each is free, queued, received into or   *)
(* in the hands of the main loop, also when the pool runs empty and TIMER1 *)
(* looks for a buffer while the DMA handler is between two (le_phy.c,      *)
(* le_DMA_IRQHandler, timer1_wait_buffer, le_phy_main).                    *)
THEOREM NoBufferLost == Spec => []EveryBufferOwned
<1>1. Inv => EveryBufferOwned
  BY DEF Inv, Kept
<1>. QED  BY InitInv, NextInv, <1>1, PTL DEF Spec

=============================================================================
