-------------------------- MODULE Followers_proofs --------------------------
(***************************************************************************)
(* Proofs about two modes that follow a device by its timing.              *)
(* LE promiscuous mode (LePromisc), for every connection and every loss of *)
(* packets: one that is no longer heard is given up in time, GivenUp.      *)
(* Ego mode (Ego), for every length of its waits and its clock's ticks: it *)
(* listens to every packet of the transmitter, Follows.                    *)
(***************************************************************************)
EXTENDS LePromisc, Ego, TLAPS

-----------------------------------------------------------------------------
(* LE promiscuous mode.                                                      *)

(* Records of the three kinds, and what the timing needs of their fields.    *)
IsLe(l) ==
  DOMAIN l = {"aa", "crc", "conn_interval", "inc", "idx", "timer", "link", "pending", "instant", "interval_update"}
IsRecover(r) == DOMAIN r = {"smallest", "consec", "prev_clk", "first_ts"}
IsConn(c) == DOMAIN c = {"life", "inc", "interval", "chan", "next", "left", "update", "doubt"}

LeTimes(l) ==
  /\ IsLe(l)
  /\ l.conn_interval \in Nat /\ l.timer \in Nat \cup {HopNow}
  /\ l.pending => l.interval_update = NewInterval
RecoverTimes(r) == IsRecover(r) /\ r.smallest \in Nat /\ r.prev_clk \in Nat /\ r.first_ts \in Nat
ConnTimes(c) == IsConn(c) /\ c.interval \in Nat /\ c.next \in Nat \cup {Gone}

(* How much later than the timeout the hop may come that notices it, and the *)
(* time to the next hop.                                                     *)
Slack(l) == IF l.conn_interval < 2 THEN TIMER_RANGE ELSE l.conn_interval
HopsIn(l) == IF l.timer = HopNow THEN 0 ELSE IF l.timer = 0 THEN TIMER_RANGE ELSE l.timer

Callbacks == {"crc", "interval", "increment", "follow"}

(* While a connection is followed the timer will run out before the bound:   *)
(* a packet that loads it again also ends the quiet.                         *)
PromiscInv ==
  /\ LeTimes(le) /\ RecoverTimes(recover) /\ ConnTimes(conn)
  /\ clk \in Nat /\ quiet \in Nat /\ packet_cb \in Callbacks
  /\ le.link = "connected" => pc = "sync" /\ packet_cb = "follow"
  /\ Following => quiet + HopsIn(le) <= TIMEOUT + Slack(le)

LEMMA PromiscConsts ==
  /\ WRAP \in Nat /\ WRAP >= 1 /\ ROLLOVER \in Nat /\ TIMEOUT \in Nat /\ TIMER_RANGE \in Nat /\ TIMER_RANGE >= 1
  /\ NewInterval \in Nat /\ NewInterval >= 1 /\ Infinite \in Nat
  /\ HopNow = -1 /\ Gone = -1
  BY PromiscAssumption DEF Infinite, HopNow, Gone

LEMMA ElapsedIsNat ==
  ASSUME NEW now \in Nat, NEW then \in Nat, NEW rollover \in Nat
  PROVE  Elapsed(now, then, rollover) \in Nat
  BY PromiscConsts DEF Elapsed

LEMMA Round37 == \A n \in Nat : DIVIDE_ROUND(n, 37) \in Nat
  BY DEF DIVIDE_ROUND

(* A timer loaded with its interval, or with half of it, runs out in time.   *)
LEMMA LoadedInTime ==
  ASSUME NEW l, l.conn_interval \in Nat,
         l.timer \in {l.conn_interval, l.conn_interval \div 2, l.conn_interval - 1}
  PROVE  HopsIn(l) <= Slack(l) /\ HopsIn(l) \in Nat /\ Slack(l) \in Nat
<1>1. \A n \in Nat : n \div 2 \in Nat /\ n \div 2 <= n /\ (n >= 2 => n \div 2 # 0) /\ (n < 2 => n \div 2 = 0)
  OBVIOUS
<1>. QED  BY <1>1, PromiscConsts DEF HopsIn, Slack

(* What HopsIn and Slack are of a connection's record.                       *)
LEMMA InTime ==
  ASSUME NEW l, LeTimes(l)
  PROVE  HopsIn(l) \in Nat /\ Slack(l) \in Nat /\ (l.timer # HopNow => HopsIn(l) >= 1)
  BY PromiscConsts DEF LeTimes, HopsIn, Slack

(* An update loads the timer with the new interval, less one.                *)
LEMMA UpdatedKeeps ==
  ASSUME NEW l, LeTimes(l)
  PROVE  /\ LeTimes(Updated(l)) /\ Updated(l).link = l.link
         /\ Updated(l) = l \/ HopsIn(Updated(l)) <= Slack(Updated(l))
<1>1. CASE l.pending /\ l.instant = 0
  <2>. DEFINE u == Updated(l)
  <2>1. u = [l EXCEPT !.conn_interval = l.interval_update, !.timer = l.interval_update - 1, !.pending = FALSE]
    BY <1>1 DEF Updated
  <2>2. IsLe(u) /\ u.conn_interval = NewInterval /\ u.timer = NewInterval - 1 /\ ~u.pending /\ u.link = l.link
    BY <1>1, <2>1 DEF LeTimes, IsLe
  <2>3. HopsIn(u) <= Slack(u)
    BY <2>2, LoadedInTime, PromiscConsts
  <2>4. LeTimes(u)
    BY <2>2, PromiscConsts DEF LeTimes
  <2>. QED  BY <2>2, <2>3, <2>4
<1>2. CASE ~(l.pending /\ l.instant = 0)
  BY <1>2 DEF Updated
<1>. QED  BY <1>1, <1>2

LEMMA AnnouncedKeeps ==
  ASSUME NEW l, LeTimes(l), NEW i
  PROVE  LET v == [l EXCEPT !.pending = TRUE, !.interval_update = NewInterval, !.instant = i]
         IN  LeTimes(v) /\ v.link = l.link /\ HopsIn(v) = HopsIn(l) /\ Slack(v) = Slack(l)
<1>. DEFINE v == [l EXCEPT !.pending = TRUE, !.interval_update = NewInterval, !.instant = i]
<1>1. IsLe(l)
  BY DEF LeTimes
<1>2. v.conn_interval = l.conn_interval /\ v.timer = l.timer /\ v.link = l.link /\ v.interval_update = NewInterval
  BY <1>1 DEF IsLe
<1>3. IsLe(v)
  BY <1>1 DEF IsLe
<1>. HIDE DEF v
<1>4. LeTimes(v)
  BY <1>2, <1>3 DEF LeTimes
<1>5. HopsIn(v) = HopsIn(l) /\ Slack(v) = Slack(l)
  BY <1>2 DEF HopsIn, Slack
<1>. QED  BY <1>2, <1>4, <1>5 DEF v

-----------------------------------------------------------------------------
(* What a callback may make of a packet: if the connection is followed after *)
(* it, the timer will run out in time with a quiet of 0.                     *)
Answers(r) ==
  /\ LeTimes(r.le) /\ RecoverTimes(r.rec) /\ r.cb \in Callbacks
  /\ r.le.link = "connected" => r.cb = "follow" /\ HopsIn(r.le) <= TIMEOUT + Slack(r.le)

LEMMA SameFields ==
  /\ Same = [le |-> Same.le, cb |-> Same.cb, mode |-> Same.mode, direct |-> Same.direct,
             do_hop |-> Same.do_hop, rec |-> Same.rec, jam |-> Same.jam]
  /\ Same.le = le /\ Same.rec = recover /\ Same.cb = packet_cb
  BY DEF Same

LEMMA FollowAnswers ==
  ASSUME PromiscInv, NEW p, packet_cb # "follow"
  PROVE  Answers(promisc_follow_cb(p))
<1>1. LeTimes(le) /\ RecoverTimes(recover) /\ le.link # "connected"
  BY DEF PromiscInv
<1>. DEFINE r == promisc_follow_cb(p)
<1>2. r.le = le \/ \E c : r.le = [le EXCEPT !.crc = c]
  BY SameFields DEF promisc_follow_cb
<1>3. r.rec = recover /\ r.cb \in Callbacks
  BY SameFields DEF promisc_follow_cb, PromiscInv, Callbacks
<1>4. \A c : LeTimes([le EXCEPT !.crc = c]) /\ [le EXCEPT !.crc = c].link = le.link
  BY <1>1 DEF LeTimes, IsLe
<1>. QED  BY <1>1, <1>2, <1>3, <1>4 DEF Answers

LEMMA IntervalAnswers ==
  ASSUME PromiscInv, packet_cb # "follow"
  PROVE  Answers(promisc_recover_hop_interval)
<1>1. LeTimes(le) /\ RecoverTimes(recover) /\ le.link # "connected" /\ clk \in Nat
  BY DEF PromiscInv
<1>. DEFINE r == promisc_recover_hop_interval
            diff == Elapsed(clk, recover.prev_clk, ROLLOVER)
            least == IF diff < recover.smallest THEN diff ELSE recover.smallest
            observed == DIVIDE_ROUND(least, 37)
            kept == IF clk < recover.prev_clk THEN clk + ROLLOVER ELSE clk
<1>2. least \in Nat /\ observed \in Nat /\ kept \in Nat
  <2>1. recover.prev_clk \in Nat /\ recover.smallest \in Nat /\ ROLLOVER \in Nat
    BY <1>1, PromiscConsts DEF RecoverTimes
  <2>2. diff \in Nat
    BY <1>1, <2>1, ElapsedIsNat
  <2>. HIDE DEF diff
  <2>3. least \in Nat
    BY <2>1, <2>2
  <2>4. kept \in Nat
    BY <1>1, <2>1
  <2>. QED  BY <2>3, <2>4, Round37
<1>. DEFINE n == IF le.conn_interval = observed THEN recover.consec + 1 ELSE 0
            rec == [recover EXCEPT !.smallest = least, !.consec = n, !.prev_clk = kept]
<1>3. r = IF diff < 2 THEN Same
          ELSE IF n = 5 THEN [Direct(Same, 2404) EXCEPT !.rec = rec, !.cb = "increment", !.mode = "direct"]
          ELSE [Same EXCEPT !.rec = rec, !.le.conn_interval = observed]
  BY DEF promisc_recover_hop_interval
<1>4. /\ r.le = le \/ r.le = [le EXCEPT !.conn_interval = observed]
      /\ r.rec = recover \/ r.rec = rec
      /\ r.cb \in Callbacks
  <2>1. packet_cb \in Callbacks
    BY DEF PromiscInv
  <2>. HIDE DEF r, diff, observed, n, rec
  <2>. QED  BY <1>3, <2>1, SameFields DEF Direct, Callbacks
<1>5. LeTimes([le EXCEPT !.conn_interval = observed]) /\ [le EXCEPT !.conn_interval = observed].link = le.link
  <2>. HIDE DEF observed
  <2>. QED  BY <1>1, <1>2 DEF LeTimes, IsLe
<1>6. RecoverTimes(rec)
  <2>. HIDE DEF least, kept, n
  <2>1. IsRecover(recover) /\ recover.first_ts \in Nat
    BY <1>1 DEF RecoverTimes
  <2>2. IsRecover(rec) /\ rec.smallest = least /\ rec.prev_clk = kept /\ rec.first_ts = recover.first_ts
    BY <2>1 DEF IsRecover
  <2>. HIDE DEF rec
  <2>. QED  BY <1>2, <2>1, <2>2 DEF RecoverTimes
<1>. HIDE DEF rec, observed
<1>. QED  BY <1>1, <1>4, <1>5, <1>6 DEF Answers

LEMMA FollowedAnswers ==
  ASSUME PromiscInv, NEW n
  PROVE  Answers(Followed(n))
<1>1. LeTimes(le) /\ le.conn_interval \in Nat
  BY DEF PromiscInv, LeTimes
<1>. DEFINE r == Followed(n)
<1>2. r.cb = "follow" /\ r.rec = NoRecover(0) /\ "follow" \in Callbacks
  BY SameFields DEF Followed, Callbacks
<1>3. \E a, b : r.le = [le EXCEPT !.inc = a, !.timer = le.conn_interval \div 2, !.idx = b,
                                  !.link = "connected", !.crc = "off"]
  BY SameFields DEF Followed
<1>4. r.le.conn_interval = le.conn_interval /\ r.le.timer = le.conn_interval \div 2 /\ IsLe(r.le)
      /\ r.le.pending = le.pending /\ r.le.interval_update = le.interval_update
  BY <1>1, <1>3 DEF LeTimes, IsLe
<1>5. HopsIn(r.le) <= Slack(r.le) /\ HopsIn(r.le) \in Nat /\ Slack(r.le) \in Nat
  BY <1>1, <1>4, LoadedInTime
<1>6. LeTimes(r.le)
  BY <1>1, <1>4 DEF LeTimes
<1>7. RecoverTimes(r.rec)
  BY <1>2 DEF RecoverTimes, NoRecover, IsRecover
<1>. QED  BY <1>2, <1>5, <1>6, <1>7, PromiscConsts DEF Answers

LEMMA IncrementAnswers ==
  ASSUME PromiscInv, packet_cb # "follow"
  PROVE  Answers(promisc_recover_hop_increment)
<1>1. LeTimes(le) /\ RecoverTimes(recover) /\ le.link # "connected" /\ clk \in Nat
  BY DEF PromiscInv
<1>2. Answers([Direct(Same, 2406) EXCEPT !.rec.first_ts = clk])
  <2>. DEFINE r == [Direct(Same, 2406) EXCEPT !.rec.first_ts = clk]
  <2>1. r.le = le /\ r.rec = [recover EXCEPT !.first_ts = clk] /\ r.cb \in Callbacks
    BY SameFields DEF Direct, PromiscInv
  <2>2. RecoverTimes([recover EXCEPT !.first_ts = clk])
    BY <1>1 DEF RecoverTimes, IsRecover
  <2>. QED  BY <1>1, <2>1, <2>2 DEF Answers
<1>3. Answers(Direct(Same, 2404))
  <2>1. Direct(Same, 2404).le = le /\ Direct(Same, 2404).rec = recover /\ Direct(Same, 2404).cb \in Callbacks
    BY SameFields DEF Direct, PromiscInv
  <2>. QED  BY <1>1, <2>1 DEF Answers
<1>. QED  BY <1>2, <1>3, FollowedAnswers DEF promisc_recover_hop_increment

(* One that follows already: the timer is left alone, or loaded again.       *)
LEMMA ConnectionAnswers ==
  ASSUME PromiscInv, NEW p, NEW lead, packet_cb = "follow",
         le.link = "connected" => HopsIn(le) <= TIMEOUT + Slack(le)
  PROVE  Answers(connection_follow_cb(p, lead))
<1>1. LeTimes(le) /\ RecoverTimes(recover)
  BY DEF PromiscInv
<1>. DEFINE r == connection_follow_cb(p, lead)
            u == Updated(le)
<1>2. r.rec = recover /\ r.cb = "follow" /\ "follow" \in Callbacks
  BY SameFields DEF connection_follow_cb, Callbacks
<1>3. LeTimes(u) /\ u.link = le.link /\ (u = le \/ HopsIn(u) <= Slack(u))
  BY <1>1, UpdatedKeeps
<1>4. HopsIn(u) \in Nat /\ Slack(u) \in Nat
  BY <1>3, InTime
<1>5. u.link = "connected" => HopsIn(u) <= TIMEOUT + Slack(u)
  BY <1>3, <1>4, PromiscConsts
<1>6. r.le = u \/ \E i : r.le = [u EXCEPT !.pending = TRUE, !.interval_update = NewInterval, !.instant = i]
  BY SameFields DEF connection_follow_cb
<1>7. \A i : LET v == [u EXCEPT !.pending = TRUE, !.interval_update = NewInterval, !.instant = i]
             IN  LeTimes(v) /\ v.link = u.link /\ HopsIn(v) = HopsIn(u) /\ Slack(v) = Slack(u)
  BY <1>3, AnnouncedKeeps
<1>8. LeTimes(r.le) /\ (r.le.link = "connected" => HopsIn(r.le) <= TIMEOUT + Slack(r.le))
  <2>. HIDE DEF r, u
  <2>1. CASE r.le = u
    BY <1>3, <1>5, <2>1
  <2>2. CASE r.le # u
    <3>1. PICK i : r.le = [u EXCEPT !.pending = TRUE, !.interval_update = NewInterval, !.instant = i]
      BY <1>6, <2>2
    <3>2. LeTimes(r.le) /\ r.le.link = u.link /\ HopsIn(r.le) = HopsIn(u) /\ Slack(r.le) = Slack(u)
      BY <1>7, <3>1
    <3>. QED  BY <1>5, <3>2
  <2>. QED  BY <2>1, <2>2
<1>. HIDE DEF r
<1>. QED  BY <1>1, <1>2, <1>8 DEF Answers, r

LEMMA CallbackAnswers ==
  ASSUME PromiscInv, pc = "sync", NEW p, NEW lead
  PROVE  Answers(Callback(p, lead))
<1>1. packet_cb \in Callbacks
  BY DEF PromiscInv
<1>2. le.link = "connected" => HopsIn(le) <= TIMEOUT + Slack(le)
  <2>1. LeTimes(le) /\ quiet \in Nat /\ (Following => quiet + HopsIn(le) <= TIMEOUT + Slack(le))
    BY DEF PromiscInv
  <2>2. HopsIn(le) \in Nat /\ Slack(le) \in Nat
    BY <2>1, InTime
  <2>. QED  BY <2>1, <2>2, PromiscConsts DEF Following
<1>3. CASE packet_cb = "crc"
  BY <1>3, FollowAnswers DEF Callback
<1>4. CASE packet_cb = "interval"
  BY <1>4, IntervalAnswers DEF Callback
<1>5. CASE packet_cb = "increment"
  BY <1>5, IncrementAnswers DEF Callback
<1>6. CASE packet_cb = "follow"
  BY <1>2, <1>6, ConnectionAnswers DEF Callback
<1>. QED  BY <1>1, <1>3, <1>4, <1>5, <1>6 DEF Callbacks

-----------------------------------------------------------------------------
(* The steps.                                                                *)

LEMMA ResetLe == LeTimes(reset_le) /\ reset_le.link = "inactive"
  BY DEF reset_le, LeTimes, IsLe

LEMMA NotFollowing ==
  ASSUME PromiscInv, LeTimes(le'), RecoverTimes(recover'), ConnTimes(conn'), clk' \in Nat, quiet' \in Nat,
         packet_cb' \in Callbacks, le'.link # "connected"
  PROVE  PromiscInv'
  BY DEF PromiscInv, Following

LEMMA NoRecoverTimes == \A c \in Nat : RecoverTimes(NoRecover(c))
  BY DEF RecoverTimes, NoRecover, IsRecover
LEMMA NoConnTimes == ConnTimes(NoConn)
  BY DEF ConnTimes, NoConn, IsConn

LEMMA PromiscInit == Init => PromiscInv
<1>. SUFFICES ASSUME Init PROVE PromiscInv
  OBVIOUS
<1>1. LeTimes(le) /\ le.link = "inactive" /\ packet_cb \in Callbacks
  BY ResetLe DEF Init, Callbacks
<1>2. RecoverTimes(recover)
  <2>1. PICK c \in Stale : recover = NoRecover(c)
    BY DEF Init
  <2>. QED  BY <2>1, NoRecoverTimes, PromiscAssumption
<1>3. ConnTimes(conn)
  <2>1. PICK i \in Incs, n \in Intervals, c \in Starts :
               conn = [NoConn EXCEPT !.inc = i, !.interval = n, !.chan = c]
    BY DEF Init
  <2>2. n \in Nat
    BY PromiscAssumption
  <2>. QED  BY <2>1, <2>2, NoConnTimes DEF ConnTimes, IsConn
<1>4. clk \in Nat /\ quiet \in Nat
  BY PromiscAssumption DEF Init
<1>. QED  BY <1>1, <1>2, <1>3, <1>4 DEF PromiscInv, Following

LEMMA OverKeeps == PromiscInv /\ Over => PromiscInv'
  BY ResetLe, NoRecoverTimes, NoConnTimes, NotFollowing DEF Over, Callbacks

LEMMA StartKeeps == PromiscInv /\ bt_promisc_le => PromiscInv'
<1>. SUFFICES ASSUME PromiscInv, bt_promisc_le PROVE PromiscInv'
  OBVIOUS
<1>1. LeTimes(le) /\ RecoverTimes(recover) /\ ConnTimes(conn) /\ clk \in Nat /\ quiet \in Nat /\ packet_cb \in Callbacks
  BY DEF PromiscInv
<1>2. ASSUME NEW aa, StartSync(aa)
      PROVE  LeTimes(le') /\ le'.link # "connected" /\ packet_cb' \in Callbacks
  BY <1>1, <1>2 DEF StartSync, LeTimes, IsLe, Callbacks
<1>3. CASE /\ pc = "start" /\ requested
           /\ recover' = [recover EXCEPT !.smallest = Infinite, !.consec = 0]
           /\ StartSync(TARGET) \/ (pc' = "search" /\ le' = reset_le /\ UNCHANGED packet_cb)
           /\ UNCHANGED <<time, conn>>
  <2>1. RecoverTimes(recover')
    BY <1>1, <1>3, PromiscConsts DEF RecoverTimes, IsRecover
  <2>2. LeTimes(le') /\ le'.link # "connected" /\ packet_cb' \in Callbacks
    BY <1>1, <1>2, <1>3, ResetLe
  <2>3. ConnTimes(conn') /\ clk' \in Nat /\ quiet' \in Nat
    BY <1>1, <1>3 DEF time
  <2>. QED  BY <2>1, <2>2, <2>3, NotFollowing
<1>4. CASE Over
  BY <1>4, OverKeeps
<1>5. CASE StartSync(le.aa) /\ UNCHANGED <<recover, time, conn>>
  <2>1. LeTimes(le') /\ le'.link # "connected" /\ packet_cb' \in Callbacks
    BY <1>2, <1>5
  <2>. QED  BY <1>1, <1>5, <2>1, NotFollowing DEF time
<1>. QED  BY <1>3, <1>4, <1>5 DEF bt_promisc_le

LEMMA SearchKeeps == PromiscInv /\ bt_generic_le => PromiscInv'
<1>. SUFFICES ASSUME PromiscInv, bt_generic_le PROVE PromiscInv'
  OBVIOUS
<1>1. LeTimes(le) /\ RecoverTimes(recover) /\ ConnTimes(conn) /\ clk \in Nat /\ quiet \in Nat /\ packet_cb \in Callbacks
      /\ pc = "search" /\ le.link # "connected"
  BY DEF PromiscInv, bt_generic_le
<1>2. UNCHANGED <<recover, conn>>
  BY DEF bt_generic_le
<1>3. PICK aa \in AAs : cb_le_promisc(aa)
  BY DEF bt_generic_le
<1>. DEFINE often == {i \in Slots : see_aa(aa)[i].count > 3}
<1>4. CASE often = {}
  BY <1>1, <1>2, <1>3, <1>4, NotFollowing DEF cb_le_promisc, time
<1>5. CASE often # {}
  <2>1. le' = [le EXCEPT !.aa = see_aa(aa)[First(often)].aa, !.crc = "off"]
        /\ packet_cb' = "crc" /\ clk' = 0 /\ quiet' = 0
    BY <1>3, <1>5 DEF cb_le_promisc, cc2400_idle
  <2>2. LeTimes(le') /\ le'.link # "connected"
    BY <1>1, <2>1 DEF LeTimes, IsLe
  <2>. QED  BY <1>1, <1>2, <2>1, <2>2, NotFollowing DEF Callbacks
<1>. QED  BY <1>4, <1>5

(* A packet: what the callback answers, and quiet is 0.                      *)
LEMMA HeardKeeps == PromiscInv /\ Heard => PromiscInv'
<1>. SUFFICES ASSUME PromiscInv, Heard PROVE PromiscInv'
  OBVIOUS
<1>0. PICK p \in PacketKinds : \E lead \in (IF p = "update" THEN Leads ELSE {0}) :
          /\ Receive(p, lead)
          /\ conn' = [conn EXCEPT !.left = @ - 1,
                                 !.update = IF p = "update" THEN Instant ELSE @,
                                 !.doubt = @ \/ lead # 0 \/ (p = "update" /\ le.conn_interval # conn.interval)]
  BY DEF Heard
<1>1. PICK lead \in (IF p = "update" THEN Leads ELSE {0}) :
          /\ Receive(p, lead)
          /\ conn' = [conn EXCEPT !.left = @ - 1,
                                 !.update = IF p = "update" THEN Instant ELSE @,
                                 !.doubt = @ \/ lead # 0 \/ (p = "update" /\ le.conn_interval # conn.interval)]
  BY <1>0
<1>2. pc = "sync" /\ pc' = pc /\ clk' = clk
  BY DEF Heard, Listening
<1>3. ConnTimes(conn')
  BY <1>1 DEF PromiscInv, ConnTimes, IsConn
<1>4. CASE ~Passes(p)
  BY <1>1, <1>2, <1>3, <1>4 DEF PromiscInv, Receive, Following, LeTimes, RecoverTimes, HopsIn, Slack
<1>5. CASE Passes(p)
  <2>. DEFINE r == Callback(p, lead)
  <2>1. le' = r.le /\ packet_cb' = r.cb /\ recover' = r.rec /\ quiet' = 0
    BY <1>1, <1>5 DEF Receive
  <2>2. Answers(r)
    BY <1>2, CallbackAnswers
  <2>. HIDE DEF r
  <2>3. LeTimes(le') /\ RecoverTimes(recover') /\ packet_cb' \in Callbacks
        /\ (le'.link = "connected" => packet_cb' = "follow" /\ HopsIn(r.le) <= TIMEOUT + Slack(r.le))
    BY <2>1, <2>2 DEF Answers
  <2>4. HopsIn(r.le) = HopsIn(le)' /\ Slack(r.le) = Slack(le)'
    BY <2>1 DEF HopsIn, Slack
  <2>5. HopsIn(le)' \in Nat
    BY <2>2, <2>4, InTime DEF Answers
  <2>6. Following' => quiet' + HopsIn(le)' <= TIMEOUT + Slack(le)'
    BY <2>1, <2>3, <2>4, <2>5 DEF Following
  <2>7. clk' \in Nat /\ quiet' \in Nat
    BY <1>2, <2>1 DEF PromiscInv
  <2>. QED  BY <1>2, <1>3, <2>3, <2>6, <2>7 DEF PromiscInv
<1>. QED  BY <1>4, <1>5

LEMMA AfterEventTimes == ASSUME NEW c, ConnTimes(c) PROVE ConnTimes(AfterEvent(c))
  BY PromiscConsts DEF ConnTimes, IsConn, AfterEvent

LEMMA EventKeeps == PromiscInv /\ (EventEnds \/ OutOfRange) => PromiscInv'
<1>. SUFFICES ASSUME PromiscInv, EventEnds \/ OutOfRange PROVE PromiscInv'
  OBVIOUS
<1>1. UNCHANGED <<pc, le, packet_cb, recover, time>>
  BY DEF EventEnds, OutOfRange
<1>2. ConnTimes(conn')
  <2>1. ConnTimes(conn)
    BY DEF PromiscInv
  <2>2. ConnTimes([conn EXCEPT !.life = @ - 1]) /\ ConnTimes([conn EXCEPT !.next = Gone, !.left = 2])
    BY <2>1 DEF ConnTimes, IsConn
  <2>. QED  BY <2>1, <2>2, AfterEventTimes DEF EventEnds, OutOfRange
<1>. QED  BY <1>1, <1>2 DEF PromiscInv, Following, time, LeTimes, RecoverTimes, HopsIn, Slack

(* Time goes on to the next event or to the hop, whichever is first.         *)
LEMMA PassKeeps == PromiscInv /\ Pass => PromiscInv'
<1>. SUFFICES ASSUME PromiscInv, Pass PROVE PromiscInv'
  OBVIOUS
<1>1. LeTimes(le) /\ ConnTimes(conn) /\ quiet \in Nat /\ clk \in Nat
  BY DEF PromiscInv
<1>2. UNCHANGED <<pc, packet_cb, recover>>
  BY DEF Pass
<1>3. (ToHop \in Nat /\ ToHop >= 1 /\ ToHop = HopsIn(le)) \/ ~Following
  <2>1. Following => le.timer # HopNow
    BY DEF Pass
  <2>2. le.timer \in Nat \cup {HopNow}
    BY <1>1 DEF LeTimes
  <2>. QED  BY <2>1, <2>2, PromiscConsts DEF ToHop, HopsIn
<1>4. Sooner \in Nat /\ (Following => Sooner <= ToHop)
      /\ (conn.next # Gone => Sooner <= conn.next)
  <2>1. conn.next \in Nat \cup {Gone} /\ (Following \/ conn.next # Gone)
    BY <1>1 DEF ConnTimes, Pass
  <2>. QED  BY <1>3, <2>1, PromiscConsts DEF Sooner
<1>5. ConnTimes(conn')
  <2>1. conn' = [conn EXCEPT !.next = IF conn.next = Gone THEN Gone ELSE conn.next - Sooner]
    BY DEF Pass
  <2>2. IsConn(conn') /\ conn'.interval = conn.interval
        /\ conn'.next = IF conn.next = Gone THEN Gone ELSE conn.next - Sooner
    BY <1>1, <2>1 DEF ConnTimes, IsConn
  <2>3. conn.next \in Nat \cup {Gone} /\ conn.interval \in Nat
    BY <1>1 DEF ConnTimes
  <2>4. conn'.next \in Nat \cup {Gone}
    BY <1>4, <2>2, <2>3, PromiscConsts
  <2>. QED  BY <2>2, <2>3, <2>4 DEF ConnTimes
<1>6. clk' \in Nat
  BY <1>1, <1>4, PromiscConsts DEF Pass
<1>7. CASE ~Following
  <2>1. le' = le /\ quiet' = 0 /\ ~Following'
    BY <1>2, <1>7 DEF Pass, Following
  <2>. QED  BY <1>2, <1>5, <1>6, <2>1 DEF PromiscInv, LeTimes, RecoverTimes
<1>8. CASE Following
  <2>1. quiet' = quiet + Sooner
        /\ le' = [le EXCEPT !.timer = IF ToHop = Sooner THEN HopNow ELSE ToHop - Sooner]
    BY <1>8 DEF Pass
  <2>2. IsLe(le') /\ le'.conn_interval = le.conn_interval /\ le'.link = le.link /\ le'.pending = le.pending
        /\ le'.interval_update = le.interval_update
        /\ le'.timer = IF ToHop = Sooner THEN HopNow ELSE ToHop - Sooner
    BY <1>1, <2>1 DEF LeTimes, IsLe
  <2>3. LeTimes(le')
    <3>1. le'.timer \in Nat \cup {HopNow}
      BY <1>3, <1>4, <1>8, <2>2
    <3>. QED  BY <1>1, <2>2, <3>1 DEF LeTimes
  <2>4. Slack(le)' = Slack(le) /\ HopsIn(le)' = HopsIn(le) - Sooner
    BY <1>3, <1>4, <1>8, <2>2, PromiscConsts DEF Slack, HopsIn
  <2>5. HopsIn(le) \in Nat /\ Slack(le) \in Nat
    BY <1>1, InTime
  <2>6. quiet' \in Nat /\ quiet' + HopsIn(le)' <= TIMEOUT + Slack(le)'
    BY <1>1, <1>4, <1>8, <2>1, <2>4, <2>5, PromiscConsts DEF PromiscInv
  <2>. QED  BY <1>2, <1>5, <1>6, <2>2, <2>3, <2>6 DEF PromiscInv, RecoverTimes
<1>. QED  BY <1>7, <1>8

(* The hop, if the last packet is not too long ago, or else the end of it.   *)
LEMMA HopKeeps == PromiscInv /\ HopTurn => PromiscInv'
<1>. SUFFICES ASSUME PromiscInv, HopTurn PROVE PromiscInv'
  OBVIOUS
<1>1. LeTimes(le) /\ ConnTimes(conn) /\ RecoverTimes(recover) /\ quiet \in Nat /\ clk \in Nat /\ packet_cb \in Callbacks
  BY DEF PromiscInv
<1>2. UNCHANGED <<packet_cb, recover, conn>>
  BY DEF HopTurn
<1>3. CASE TimedOut \/ le_jam_count = 1
  <2>1. le' = reset_le /\ clk' = 0 /\ quiet' = 0
    BY <1>3 DEF HopTurn, cc2400_idle
  <2>. QED  BY <1>1, <1>2, <2>1, ResetLe, NotFollowing
<1>4. CASE ~(TimedOut \/ le_jam_count = 1)
  <2>1. le' = Counted(btle_next_hop(le).le) /\ UNCHANGED <<pc, time>> /\ quiet <= TIMEOUT
    BY <1>1, <1>4, PromiscConsts DEF HopTurn, TimedOut
  <2>2. IsLe(le') /\ le'.conn_interval = le.conn_interval /\ le'.link = le.link /\ le'.pending = le.pending
        /\ le'.interval_update = le.interval_update /\ le'.timer = le.conn_interval
    BY <1>1, <2>1 DEF Counted, btle_next_hop, LeTimes, IsLe
  <2>3. LeTimes(le')
    BY <1>1, <2>2 DEF LeTimes
  <2>4. le'.conn_interval \in Nat
    BY <2>3 DEF LeTimes
  <2>5. HopsIn(le') <= Slack(le') /\ HopsIn(le') \in Nat /\ Slack(le') \in Nat
    BY <2>2, <2>4, LoadedInTime
  <2>6. quiet' + HopsIn(le)' <= TIMEOUT + Slack(le)'
    BY <1>1, <2>1, <2>5, PromiscConsts DEF time, HopsIn, Slack
  <2>. QED  BY <1>1, <1>2, <2>1, <2>2, <2>3, <2>6 DEF PromiscInv, time, RecoverTimes, ConnTimes
<1>. QED  BY <1>3, <1>4

(* A connection no longer heard is given up at the first hop after the       *)
(* timeout, whatever updates it announced and whichever hops came between    *)
(* (bt_le_sync, TIMER0_IRQHandler).                                          *)
THEOREM GivesUp == Spec => []GivenUp
<1>1. PromiscInv /\ [Next]_vars => PromiscInv'
  <2>1. PromiscInv /\ UNCHANGED vars => PromiscInv'
    BY DEF PromiscInv, vars, time, Following, LeTimes, RecoverTimes, ConnTimes, HopsIn, Slack
  <2>. QED  BY <2>1, StartKeeps, SearchKeeps, HeardKeeps, EventKeeps, PassKeeps, HopKeeps, OverKeeps DEF Next, Stop
<1>2. PromiscInv => GivenUp
  <2>. SUFFICES ASSUME PromiscInv, Following PROVE quiet <= TIMEOUT + Slack(le)
    BY DEF GivenUp, Slack
  <2>1. quiet \in Nat /\ LeTimes(le) /\ quiet + HopsIn(le) <= TIMEOUT + Slack(le)
    BY DEF PromiscInv
  <2>2. HopsIn(le) \in Nat /\ Slack(le) \in Nat
    BY <2>1, InTime
  <2>. QED  BY <2>1, <2>2, PromiscConsts
<1>. QED  BY <1>1, <1>2, PromiscInit, PTL DEF Spec

-----------------------------------------------------------------------------
(* Ego mode.                                                                 *)

(* The clock, the ticks gone by of a sleep or window, and since the last     *)
(* packet; how long before the next one a window may open.                   *)
Ticks == 0 .. EGO_WRAP - 1
Next4(c) == (c + 1) % 4
Slept == (IF ego_clk < sleep.start THEN ego_clk + EGO_WRAP ELSE ego_clk) - sleep.start
Since == Period - remote.in
Latest == Period - LOCK - 2 - 2 * (MaxMissed - missed)

(* Types.                                                                    *)
EgoTypes ==
  /\ DOMAIN sleep = {"start", "duration"} /\ sleep.start \in Ticks /\ sleep.duration \in Nat
  /\ DOMAIN remote = {"in", "chan"} /\ remote.in \in 0 .. Period /\ remote.chan \in Chans
  /\ ego_clk \in Ticks /\ channel_index \in Chans /\ wait \in Nat /\ missed \in Nat

(* Which wait, radio and sync belong to which state.                         *)
Handlers ==
  /\ doing \in {"no", "lock", "rx"}
  /\ doing = "no" => wait = 0
  /\ doing = "lock" => state = "START_RX"
  /\ doing = "rx" => state = "CAP"
  /\ radio # OFF => state = "CAP" /\ radio = channel_index /\ doing \in {"no", "rx"}
  /\ state = "START_RX" => ego_channel = channel_index
  /\ sync => state = "CAP" /\ heard
  /\ doing = "rx" => sync

(* Where it can be once it has heard a packet, and the timing of each: it    *)
(* has one, reads it, rests (6 ms after it, or 4 ms after a window in which  *)
(* one was lost), sets the receiver up, listens, or has missed one and lets  *)
(* the window run out.                                                       *)
EgoCaught ==
  /\ state = "CAP" /\ doing = "no" /\ sync /\ missed = 0
  /\ Next4(channel_index) = remote.chan
  /\ Since = 0 \/ (Since = 1 /\ late)
EgoReads ==
  /\ state = "CAP" /\ doing = "rx" /\ sync /\ missed = 0
  /\ Next4(channel_index) = remote.chan
  /\ 6 * Ms + Since + wait + 1 <= Latest
EgoRests ==
  /\ state = "SLEEP" /\ doing = "no"
  /\ Next4(channel_index) = remote.chan
  /\ sleep.duration <= 7 * Ms
  /\ Slept <= sleep.duration \/ (Slept = sleep.duration + 1 /\ late)
  /\ 6 * Ms <= Since - Slept + sleep.duration /\ Since - Slept + sleep.duration + 1 <= Latest
Aimed == /\ channel_index = remote.chan /\ sleep.duration = 7 * Ms
         /\ 6 * Ms <= Since - Slept /\ Since - Slept <= Latest
EgoBegins ==
  /\ state = "START_RX" /\ Aimed
  /\ \/ doing = "no" /\ (Slept = 0 \/ (Slept = 1 /\ late))
     \/ doing = "lock" /\ Slept + wait <= LOCK + 1
EgoListens == state = "CAP" /\ doing = "no" /\ ~sync /\ radio = channel_index /\ Aimed
EgoLost ==
  /\ state = "CAP" /\ doing = "no" /\ ~sync
  /\ Next4(channel_index) = remote.chan /\ sleep.duration = 7 * Ms
  /\ Slept <= 7 * Ms \/ (Slept = 7 * Ms + 1 /\ late)
  /\ 6 * Ms <= Since - Slept + Period /\ Since - Slept + Period + 2 <= Latest

Tracks == EgoCaught \/ EgoReads \/ EgoRests \/ EgoBegins \/ EgoListens \/ EgoLost

(* When more packets are lost than it can bear nothing more is claimed.      *)
Tracked == heard => IF missed <= MaxMissed THEN Tracks ELSE remote.in > 0
EgoInv == EgoTypes /\ (mode = 0 /\ ego_requested => Handlers /\ Tracked)

LEMMA EgoConsts ==
  /\ Ms \in Nat /\ Ms >= 1 /\ Period \in Nat /\ Period = 11 * Ms
  /\ EGO_WRAP \in Nat /\ EGO_WRAP > 7 * Ms + 2 /\ EgoStarts \subseteq Ticks
  /\ LOCK \in Nat /\ MaxMissed \in Nat /\ Reads \subseteq Nat
  /\ \A r \in Reads : 6 * Ms + r + 2 * MaxMissed + LOCK + 4 <= Period
  BY EgoAssumption DEF Ticks

LEMMA Next4Chans == \A c \in Chans : Next4(c) \in Chans
  BY DEF Next4, Chans

(* The clock and what has gone by of a sleep.                                *)
LEMMA SleptValue ==
  ASSUME EgoTypes
  PROVE  /\ Slept \in Nat /\ Since \in Int /\ Latest \in Int
         /\ sleep_elapsed <=> Slept >= sleep.duration
<1>1. sleep.start \in Ticks /\ ego_clk \in Ticks /\ remote.in \in 0 .. Period /\ missed \in Nat
  BY DEF EgoTypes
<1>2. Slept \in Nat
  BY <1>1, EgoConsts DEF Slept, Ticks
<1>3. Since \in Int /\ Latest \in Int
  BY <1>1, EgoConsts DEF Since, Latest
<1>4. sleep_elapsed <=> Slept >= sleep.duration
  BY DEF sleep_elapsed, Slept
<1>. QED  BY <1>2, <1>3, <1>4

LEMMA SleptTick ==
  ASSUME EgoTypes, Slept <= 7 * Ms + 1, ego_clk' = (ego_clk + 1) % EGO_WRAP, UNCHANGED sleep
  PROVE  Slept' = Slept + 1
<1>1. sleep.start \in Ticks /\ ego_clk \in Ticks
  BY DEF EgoTypes
<1>2. CASE ego_clk = EGO_WRAP - 1
  <2>1. ego_clk' = 0
    BY <1>2, EgoConsts
  <2>. QED  BY <1>1, <1>2, <2>1, EgoConsts DEF Slept, Ticks
<1>3. CASE ego_clk # EGO_WRAP - 1
  <2>1. ego_clk' = ego_clk + 1
    BY <1>1, <1>3, EgoConsts DEF Ticks
  <2>. QED  BY <1>1, <1>3, <2>1, EgoConsts DEF Slept, Ticks
<1>. QED  BY <1>2, <1>3

LEMMA SleepStarts ==
  ASSUME EgoTypes, NEW n \in Nat, sleep_ms(n), UNCHANGED ego_clk
  PROVE  /\ DOMAIN sleep' = {"start", "duration"} /\ sleep'.start \in Ticks
         /\ sleep'.duration = n * Ms /\ sleep'.duration \in Nat
         /\ Slept' = 0
<1>1. ego_clk \in Ticks /\ ego_clk \in Int
  BY EgoConsts DEF EgoTypes, Ticks
<1>2. sleep' = [start |-> ego_clk, duration |-> n * Ms] /\ n * Ms \in Nat
  BY EgoConsts DEF sleep_ms
<1>3. DOMAIN sleep' = {"start", "duration"} /\ sleep'.start = ego_clk /\ sleep'.duration = n * Ms
  BY <1>2
<1>4. Slept' = 0
  BY <1>1, <1>3 DEF Slept
<1>. QED  BY <1>1, <1>2, <1>3, <1>4

LEMMA SleptSame == UNCHANGED <<sleep, ego_clk>> => Slept' = Slept
  BY DEF Slept

(* The fields a step of the program leaves alone.                            *)
TimesSame == UNCHANGED <<sleep, ego_clk, remote, missed>>
LEMMA TimesKept ==
  ASSUME TimesSame
  PROVE  Slept' = Slept /\ Since' = Since /\ Latest' = Latest
  BY DEF TimesSame, Slept, Since, Latest

-----------------------------------------------------------------------------
(* The types.                                                                *)
LEMMA EgoTypesKept == EgoTypes /\ [EgoNext]_egoVars => EgoTypes'
<1>. SUFFICES ASSUME EgoTypes, [EgoNext]_egoVars PROVE EgoTypes'
  OBVIOUS
<1>0. /\ DOMAIN sleep = {"start", "duration"} /\ sleep.start \in Ticks /\ sleep.duration \in Nat
      /\ DOMAIN remote = {"in", "chan"} /\ remote.in \in 0 .. Period /\ remote.chan \in Chans
      /\ ego_clk \in Ticks /\ channel_index \in Chans /\ wait \in Nat /\ missed \in Nat
      /\ 0 \in Ticks /\ 0 \in Chans /\ 0 .. LOCK \subseteq Nat /\ Reads \subseteq Nat
      /\ Period \in 0 .. Period /\ 0 \in 0 .. Period
  BY EgoConsts DEF EgoTypes, Ticks, Chans
<1>1. ASSUME UNCHANGED <<ego_clk, remote, missed>>,
             UNCHANGED sleep \/ (\E n \in Nat : sleep_ms(n)),
             channel_index' \in Chans, wait' \in Nat
      PROVE  EgoTypes'
  BY <1>0, <1>1, SleepStarts DEF EgoTypes
<1>2. CASE init_state \/ start_rf_state \/ rf_on \/ cap_state \/ do_rx
  BY <1>0, <1>1, <1>2 DEF init_state, start_rf_state, rf_on, cap_state, do_rx, Waits, fsm
<1>3. CASE sleep_state
  BY <1>0, <1>1, <1>3, Next4Chans DEF sleep_state, Next4
<1>4. CASE continuous_cap_state \/ Warm \/ Restart \/ EgoStop
  BY <1>0, <1>1, <1>4 DEF continuous_cap_state, Warm, Restart, EgoStop, Waits, fsm
<1>5. CASE Leaves
  BY <1>0, <1>5 DEF Leaves, EgoTypes
<1>6. CASE \E drop \in BOOLEAN : Sends(drop)
  BY <1>0, <1>6, Next4Chans DEF Sends, EgoTypes, fsm, Next4
<1>7. CASE EgoPass
  <2>1. remote' = [remote EXCEPT !.in = @ - 1] /\ remote.in > 0
    BY <1>7 DEF EgoPass
  <2>2. DOMAIN remote' = {"in", "chan"} /\ remote'.in = remote.in - 1 /\ remote'.chan = remote.chan
    BY <1>0, <2>1
  <2>3. remote'.in \in 0 .. Period
    BY <1>0, <2>1, <2>2, EgoConsts
  <2>4. ego_clk' \in Ticks
    BY <1>0, <1>7, EgoConsts DEF EgoPass, Ticks
  <2>5. wait' \in Nat
    BY <1>0, <1>7 DEF EgoPass
  <2>. QED  BY <1>0, <1>7, <2>2, <2>3, <2>4, <2>5 DEF EgoPass, EgoTypes, fsm
<1>8. CASE UNCHANGED egoVars
  BY <1>0, <1>8 DEF egoVars, device, fsm, EgoTypes
<1>. QED  BY <1>2, <1>3, <1>4, <1>5, <1>6, <1>7, <1>8 DEF EgoNext

-----------------------------------------------------------------------------
(* The steps of one that follows.                                            *)

LEMMA TimeFacts ==
  ASSUME EgoTypes
  PROVE  /\ Slept \in Nat /\ Since \in Nat /\ Since <= Period /\ Latest \in Int /\ missed \in Nat
         /\ missed <= MaxMissed => Latest <= Period - LOCK - 2
         /\ missed = 0 => Latest = Period - LOCK - 2 - 2 * MaxMissed
         /\ remote.in = 0 => Since = Period
         /\ sleep.duration \in Nat /\ wait \in Nat
<1>1. remote.in \in 0 .. Period /\ missed \in Nat /\ sleep.duration \in Nat /\ wait \in Nat
  BY DEF EgoTypes
<1>2. Since \in Nat /\ Since <= Period /\ (remote.in = 0 => Since = Period)
  BY <1>1, EgoConsts DEF Since
<1>3. /\ missed <= MaxMissed => Latest <= Period - LOCK - 2
      /\ missed = 0 => Latest = Period - LOCK - 2 - 2 * MaxMissed
  BY <1>1, EgoConsts DEF Latest
<1>. QED  BY <1>1, <1>2, <1>3, SleptValue

(* While the transmitter is awaited the window of 7 ms stays open.           *)
LEMMA WindowOpen ==
  ASSUME EgoTypes, 6 * Ms <= Since - Slept
  PROVE  Slept <= 5 * Ms /\ Slept < 7 * Ms
  BY TimeFacts, EgoConsts

(* With a packet due the device listens, on the channel of it.               *)
LEMMA ListensWhenDue ==
  ASSUME EgoTypes, missed <= MaxMissed, Tracks, remote.in = 0
  PROVE  EgoListens
<1>. USE TimeFacts, EgoConsts
<1>1. ~EgoCaught
  BY DEF EgoCaught
<1>2. ~EgoReads
  BY DEF EgoReads
<1>3. ~EgoRests
  BY DEF EgoRests
<1>4. ~EgoBegins
  BY DEF EgoBegins, Aimed
<1>5. ~EgoLost
  BY DEF EgoLost
<1>. QED  BY <1>1, <1>2, <1>3, <1>4, <1>5 DEF Tracks

LEMMA StartSteps ==
  ASSUME EgoInv, mode = 0, ego_requested, init_state \/ start_rf_state \/ rf_on
  PROVE  Handlers' /\ Tracked'
<1>1. EgoTypes /\ Handlers /\ Tracked
  BY DEF EgoInv
<1>2. CASE init_state
  <2>1. state = "INIT" /\ state' = "START_RX" /\ doing = "no" /\ UNCHANGED <<radio, sync, doing, wait>>
        /\ channel_index' = 0 /\ ego_channel' = 0 /\ UNCHANGED <<heard, missed, remote>>
    BY <1>2 DEF init_state, Turn
  <2>2. Handlers'
    BY <1>1, <2>1 DEF Handlers
  <2>3. ~Tracks
    BY <2>1 DEF Tracks, EgoCaught, EgoReads, EgoRests, EgoBegins, EgoListens, EgoLost
  <2>. QED  BY <1>1, <2>1, <2>2, <2>3 DEF Tracked
<1>3. CASE start_rf_state
  <2>1. state = "START_RX" /\ doing = "no" /\ doing' = "lock" /\ wait' \in 0 .. LOCK
        /\ UNCHANGED <<radio, sync, state, channel_index, ego_channel, sleep, ego_clk, heard, missed, remote>>
    BY <1>3 DEF start_rf_state, Turn, Waits, fsm
  <2>2. Handlers'
    BY <1>1, <2>1 DEF Handlers
  <2>3. Slept' = Slept /\ Since' = Since /\ Latest' = Latest
    BY <2>1, TimesKept DEF TimesSame
  <2>4. Tracks => EgoBegins'
    <3>. SUFFICES ASSUME Tracks PROVE EgoBegins'
      OBVIOUS
    <3>1. EgoBegins /\ Slept <= 1
      BY <2>1, <1>1, TimeFacts DEF Tracks, EgoCaught, EgoReads, EgoRests, EgoBegins, EgoListens, EgoLost
    <3>2. Aimed'
      BY <2>1, <2>3, <3>1 DEF EgoBegins, Aimed
    <3>3. Slept' + wait' <= LOCK + 1
      BY <1>1, <2>1, <2>3, <3>1, TimeFacts, EgoConsts
    <3>. QED  BY <2>1, <3>2, <3>3 DEF EgoBegins
  <2>. QED  BY <1>1, <2>1, <2>2, <2>4 DEF Tracked, Tracks
<1>4. CASE rf_on
  <2>1. doing = "lock" /\ wait = 0 /\ doing' = "no" /\ radio' = ego_channel /\ ~sync' /\ state' = "CAP"
        /\ UNCHANGED <<channel_index, ego_channel, wait, sleep, ego_clk, heard, missed, remote>>
    BY <1>4 DEF rf_on
  <2>2. state = "START_RX" /\ ego_channel = channel_index
    BY <1>1, <2>1 DEF Handlers
  <2>3. Handlers'
    BY <2>1, <2>2 DEF Handlers
  <2>4. Slept' = Slept /\ Since' = Since /\ Latest' = Latest
    BY <2>1, TimesKept DEF TimesSame
  <2>5. Tracks => EgoListens'
    <3>. SUFFICES ASSUME Tracks PROVE EgoListens'
      OBVIOUS
    <3>1. Aimed
      BY <2>2 DEF Tracks, EgoCaught, EgoReads, EgoRests, EgoBegins, EgoListens, EgoLost
    <3>2. Aimed'
      BY <2>1, <2>4, <3>1 DEF Aimed
    <3>. QED  BY <2>1, <2>2, <3>2 DEF EgoListens
  <2>. QED  BY <1>1, <2>1, <2>3, <2>5 DEF Tracked, Tracks
<1>. QED  BY <1>2, <1>3, <1>4

LEMMA WindowSteps ==
  ASSUME EgoInv, mode = 0, ego_requested, cap_state
  PROVE  Handlers' /\ Tracked'
<1>1. EgoTypes /\ Handlers /\ Tracked
  BY DEF EgoInv
<1>2. state = "CAP" /\ doing = "no" /\ UNCHANGED <<channel_index, ego_channel, ego_clk, heard, missed, remote>>
  BY DEF cap_state, Turn, fsm
<1>3. CASE sync /\ Waits("rx", Reads) /\ UNCHANGED <<fsm, radio, sync>>
  <2>1. doing' = "rx" /\ wait' \in Reads /\ UNCHANGED <<state, sleep, radio, sync>>
    BY <1>3 DEF Waits, fsm
  <2>2. Handlers'
    BY <1>1, <1>2, <1>3, <2>1 DEF Handlers
  <2>3. Slept' = Slept /\ Since' = Since /\ Latest' = Latest
    BY <1>2, <2>1, TimesKept DEF TimesSame
  <2>4. Tracks => EgoReads'
    <3>. SUFFICES ASSUME Tracks PROVE EgoReads'
      OBVIOUS
    <3>1. EgoCaught
      BY <1>2, <1>3 DEF Tracks, EgoCaught, EgoReads, EgoRests, EgoBegins, EgoListens, EgoLost
    <3>2. missed = 0 /\ Next4(channel_index) = remote.chan /\ Since <= 1
      BY <1>1, <3>1, TimeFacts DEF EgoCaught
    <3>3. 6 * Ms + Since' + wait' + 1 <= Latest'
      BY <1>1, <2>1, <2>3, <3>2, TimeFacts, EgoConsts
    <3>. QED  BY <1>2, <1>3, <2>1, <3>2, <3>3 DEF EgoReads, Next4
  <2>. QED  BY <1>1, <1>2, <2>2, <2>4 DEF Tracked, Tracks
<1>4. CASE ~sync /\ sleep_elapsed /\ sleep_ms(4) /\ state' = "SLEEP" /\ RadioOff /\ UNCHANGED <<doing, wait>>
  <2>1. Slept' = 0 /\ sleep'.duration = 4 * Ms
    BY <1>1, <1>2, <1>4, SleepStarts
  <2>2. Handlers'
    BY <1>1, <1>2, <1>4 DEF Handlers, RadioOff
  <2>3. Since' = Since /\ Latest' = Latest
    BY <1>2 DEF Since, Latest
  <2>4. Slept >= sleep.duration
    BY <1>1, <1>4, SleptValue
  <2>5. Tracks => EgoRests'
    <3>. SUFFICES ASSUME Tracks PROVE EgoRests'
      OBVIOUS
    <3>1. EgoListens \/ EgoLost
      BY <1>2, <1>4 DEF Tracks, EgoCaught, EgoReads, EgoRests, EgoBegins
    <3>2. ~EgoListens
      BY <1>1, <2>4, WindowOpen, TimeFacts, EgoConsts DEF EgoListens, Aimed
    <3>3. Next4(channel_index) = remote.chan
      BY <3>1, <3>2 DEF EgoLost
    <3>4. 7 * Ms <= Slept /\ Slept <= 7 * Ms + 1
          /\ 6 * Ms <= Since - Slept + Period /\ Since - Slept + Period + 2 <= Latest
      BY <1>1, <2>4, <3>1, <3>2, TimeFacts, EgoConsts DEF EgoLost
    <3>5. /\ 6 * Ms <= Since' - Slept' + sleep'.duration
          /\ Since' - Slept' + sleep'.duration + 1 <= Latest'
          /\ sleep'.duration <= 7 * Ms /\ Slept' <= sleep'.duration
      BY <1>1, <2>1, <2>3, <3>4, TimeFacts, EgoConsts
    <3>. QED  BY <1>2, <1>4, <3>3, <3>5 DEF EgoRests, Next4
  <2>. QED  BY <1>1, <1>2, <2>2, <2>5 DEF Tracked, Tracks
<1>. QED  BY <1>3, <1>4 DEF cap_state

LEMMA RestSteps ==
  ASSUME EgoInv, mode = 0, ego_requested, do_rx \/ sleep_state
  PROVE  Handlers' /\ Tracked'
<1>1. EgoTypes /\ Handlers /\ Tracked
  BY DEF EgoInv
<1>2. UNCHANGED <<ego_clk, heard, missed, remote>>
  BY DEF do_rx, sleep_state
<1>3. Since' = Since /\ Latest' = Latest
  BY <1>2 DEF Since, Latest
<1>4. CASE do_rx
  <2>1. doing = "rx" /\ wait = 0 /\ doing' = "no" /\ wait' = 0 /\ state' = "SLEEP" /\ RadioOff /\ sleep_ms(6)
        /\ UNCHANGED channel_index
    BY <1>4 DEF do_rx
  <2>2. Handlers'
    BY <1>1, <2>1 DEF Handlers, RadioOff
  <2>3. Slept' = 0 /\ sleep'.duration = 6 * Ms
    BY <1>1, <1>2, <2>1, SleepStarts
  <2>4. Tracks => EgoRests'
    <3>. SUFFICES ASSUME Tracks PROVE EgoRests'
      OBVIOUS
    <3>1. EgoReads
      BY <1>1, <2>1 DEF Handlers, Tracks, EgoCaught, EgoRests, EgoBegins, EgoListens, EgoLost
    <3>2. Next4(channel_index) = remote.chan /\ 6 * Ms + Since + 1 <= Latest
      BY <1>1, <2>1, <3>1, TimeFacts, EgoConsts DEF EgoReads
    <3>3. /\ 6 * Ms <= Since' - Slept' + sleep'.duration
          /\ Since' - Slept' + sleep'.duration + 1 <= Latest'
          /\ sleep'.duration <= 7 * Ms /\ Slept' <= sleep'.duration
      BY <1>1, <1>3, <2>3, <3>2, TimeFacts, EgoConsts
    <3>. QED  BY <1>2, <2>1, <3>2, <3>3 DEF EgoRests, Next4
  <2>. QED  BY <1>1, <1>2, <2>2, <2>4 DEF Tracked, Tracks
<1>5. CASE sleep_state
  <2>1. state = "SLEEP" /\ doing = "no" /\ sleep_elapsed /\ channel_index' = Next4(channel_index)
        /\ ego_channel' = channel_index' /\ sleep_ms(7) /\ state' = "START_RX"
        /\ UNCHANGED <<radio, sync, doing, wait>>
    BY <1>5 DEF sleep_state, Turn, Next4
  <2>2. Handlers'
    BY <1>1, <2>1 DEF Handlers
  <2>3. Slept' = 0 /\ sleep'.duration = 7 * Ms
    BY <1>1, <1>2, <2>1, SleepStarts
  <2>4. Tracks => EgoBegins'
    <3>. SUFFICES ASSUME Tracks PROVE EgoBegins'
      OBVIOUS
    <3>1. EgoRests
      BY <2>1 DEF Tracks, EgoCaught, EgoReads, EgoBegins, EgoListens, EgoLost
    <3>2. Slept >= sleep.duration
      BY <1>1, <2>1, SleptValue
    <3>3. 6 * Ms <= Since' - Slept' /\ Since' - Slept' <= Latest'
      BY <1>1, <1>3, <2>3, <3>1, <3>2, TimeFacts, EgoConsts DEF EgoRests
    <3>4. channel_index' = remote'.chan
      BY <1>2, <2>1, <3>1 DEF EgoRests
    <3>. QED  BY <2>1, <2>3, <3>3, <3>4 DEF EgoBegins, Aimed
  <2>. QED  BY <1>1, <1>2, <2>2, <2>4 DEF Tracked, Tracks
<1>. QED  BY <1>4, <1>5

(* A packet goes out.                                                        *)
LEMMA SendStep ==
  ASSUME EgoInv, mode = 0, ego_requested, NEW drop, Sends(drop)
  PROVE  Handlers' /\ Tracked'
<1>1. EgoTypes /\ Handlers /\ Tracked
  BY DEF EgoInv
<1>2. remote.in = 0 /\ UNCHANGED <<state, channel_index, sleep, ego_channel, radio, doing, wait, ego_clk>>
  BY DEF Sends, fsm
<1>3. remote'.in = Period /\ remote'.chan = Next4(remote.chan) /\ Since' = 0 /\ remote'.in > 0
  BY EgoConsts DEF Sends, Next4, Since
<1>4. remote.chan # OFF
  BY <1>1 DEF EgoTypes, Chans, OFF
<1>5. heard => missed <= MaxMissed /\ EgoListens
  BY <1>1, <1>2, ListensWhenDue, EgoConsts DEF Tracked
<1>6. CASE radio = remote.chan /\ ~drop
  <2>1. sync' /\ heard' /\ missed' = 0
    BY <1>6 DEF Sends
  <2>2. state = "CAP" /\ radio = channel_index /\ doing = "no"
    BY <1>1, <1>4, <1>5, <1>6 DEF Handlers, EgoListens
  <2>3. Handlers'
    BY <1>1, <1>2, <2>1, <2>2 DEF Handlers
  <2>4. EgoCaught'
    BY <1>2, <1>3, <1>6, <2>1, <2>2 DEF EgoCaught, Next4
  <2>. QED  BY <2>1, <2>3, <2>4, EgoConsts DEF Tracked, Tracks
<1>7. CASE ~(radio = remote.chan /\ ~drop)
  <2>1. UNCHANGED <<sync, heard>> /\ missed' = missed + 1
    BY <1>7 DEF Sends
  <2>2. Handlers'
    BY <1>1, <1>2, <2>1 DEF Handlers
  <2>3. CASE heard /\ missed' <= MaxMissed
    <3>1. state = "CAP" /\ doing = "no" /\ ~sync /\ channel_index = remote.chan /\ sleep.duration = 7 * Ms
          /\ 6 * Ms <= Since - Slept /\ Since - Slept <= Latest
      BY <1>5, <2>3 DEF EgoListens, Aimed
    <3>2. Slept' = Slept /\ Latest' = Latest + 2 /\ Slept <= 5 * Ms
      BY <1>1, <1>2, <2>1, <3>1, SleptSame, WindowOpen, TimeFacts, EgoConsts DEF Latest
    <3>3. Slept' <= 7 * Ms /\ 6 * Ms <= Since' - Slept' + Period /\ Since' - Slept' + Period + 2 <= Latest'
      BY <1>1, <1>2, <1>3, <3>1, <3>2, TimeFacts, EgoConsts
    <3>4. EgoLost'
      BY <1>2, <1>3, <2>1, <3>1, <3>3 DEF EgoLost, Next4
    <3>. QED  BY <2>2, <2>3, <3>4 DEF Tracked, Tracks
  <2>4. CASE ~(heard /\ missed' <= MaxMissed)
    BY <1>3, <2>1, <2>2, <2>4 DEF Tracked
  <2>. QED  BY <2>3, <2>4
<1>. QED  BY <1>6, <1>7

(* A tick.                                                                   *)
LEMMA TickStep ==
  ASSUME EgoInv, mode = 0, ego_requested, EgoPass
  PROVE  Handlers' /\ Tracked'
<1>1. EgoTypes /\ Handlers /\ Tracked
  BY DEF EgoInv
<1>2. UNCHANGED <<state, channel_index, sleep, ego_channel, radio, sync, doing, heard, missed>>
      /\ ego_clk' = (ego_clk + 1) % EGO_WRAP
  BY DEF EgoPass, fsm
<1>3. wait' = IF wait > 0 THEN wait - 1 ELSE 0
  BY DEF EgoPass
<1>4. Handlers'
  BY <1>1, <1>2, <1>3 DEF Handlers
<1>5. doing = "no" => wait = 0 /\ ~(late /\ TurnDue)
  <2>1. doing = "no" => wait = 0
    BY <1>1 DEF Handlers
  <2>. QED  BY <2>1 DEF EgoPass
<1>6. doing # "no" => wait > 0
  BY DEF EgoPass
<1>7. TurnDue => late'
  BY Zenon DEF EgoPass
<1>8. Latest' = Latest /\ Since' = Since + 1 /\ remote'.chan = remote.chan /\ Since + 1 <= Period
  <2>1. remote' = [remote EXCEPT !.in = @ - 1] /\ remote.in > 0
    BY DEF EgoPass
  <2>2. remote.in \in 0 .. Period /\ remote'.in = remote.in - 1 /\ remote'.chan = remote.chan
    BY <1>1, <2>1 DEF EgoTypes
  <2>. QED  BY <1>2, <2>1, <2>2, EgoConsts DEF Latest, Since
<1>9. Slept <= 7 * Ms + 1 => Slept' = Slept + 1
  BY <1>1, <1>2, SleptTick
<1>10. heard => missed <= MaxMissed /\ Tracks
  BY <1>1, EgoConsts DEF EgoPass, Tracked
<1>. SUFFICES ASSUME Tracks PROVE Tracks'
  BY <1>2, <1>4, <1>10 DEF Tracked
<1>11. CASE EgoCaught
  <2>1. TurnDue
    BY <1>11 DEF EgoCaught, TurnDue
  <2>2. late' /\ ~late
    BY <1>5, <1>7, <1>11, <2>1 DEF EgoCaught
  <2>3. Since = 0
    BY <1>11, <2>2 DEF EgoCaught
  <2>4. Since' = 1
    BY <1>8, <2>3
  <2>5. EgoCaught'
    BY <1>2, <1>8, <1>11, <2>2, <2>4 DEF EgoCaught, Next4
  <2>. QED  BY <2>5 DEF Tracks
<1>12. CASE EgoReads
  <2>1. wait > 0 /\ 6 * Ms + Since + wait + 1 <= Latest
    BY <1>6, <1>12 DEF EgoReads
  <2>2. 6 * Ms + Since' + wait' + 1 <= Latest'
    BY <1>1, <1>3, <1>8, <2>1, TimeFacts, EgoConsts
  <2>3. EgoReads'
    BY <1>2, <1>8, <1>12, <2>2 DEF EgoReads, Next4
  <2>. QED  BY <2>3 DEF Tracks
<1>13. CASE EgoRests
  <2>1. Slept <= sleep.duration
    <3>1. CASE Slept = sleep.duration + 1 /\ late
      <4>1. sleep_elapsed
        BY <1>1, <3>1, SleptValue, TimeFacts
      <4>. QED  BY <1>5, <1>13, <3>1, <4>1 DEF EgoRests, TurnDue
    <3>. QED  BY <1>13, <3>1 DEF EgoRests
  <2>2. Slept' = Slept + 1
    BY <1>1, <1>9, <1>13, <2>1, TimeFacts, EgoConsts DEF EgoRests
  <2>3. Slept' <= sleep.duration \/ (Slept' = sleep.duration + 1 /\ late')
    <3>1. CASE Slept = sleep.duration
      <4>1. sleep_elapsed
        BY <1>1, <3>1, SleptValue, TimeFacts
      <4>2. late'
        BY <1>7, <1>13, <4>1 DEF EgoRests, TurnDue
      <4>. QED  BY <2>2, <3>1, <4>2
    <3>2. CASE Slept # sleep.duration
      BY <1>1, <2>1, <2>2, <3>2, TimeFacts
    <3>. QED  BY <3>1, <3>2
  <2>4. /\ 6 * Ms <= Since' - Slept' + sleep.duration
        /\ Since' - Slept' + sleep.duration + 1 <= Latest'
    BY <1>1, <1>8, <1>13, <2>2, TimeFacts, EgoConsts DEF EgoRests
  <2>5. EgoRests'
    BY <1>2, <1>8, <1>13, <2>3, <2>4 DEF EgoRests, Next4
  <2>. QED  BY <2>5 DEF Tracks
<1>14. ASSUME Aimed
       PROVE  Slept' = Slept + 1 /\ Aimed'
  <2>1. Slept' = Slept + 1
    BY <1>1, <1>9, <1>14, WindowOpen, TimeFacts, EgoConsts DEF Aimed
  <2>2. 6 * Ms <= Since' - Slept' /\ Since' - Slept' <= Latest'
    BY <1>1, <1>8, <1>14, <2>1, TimeFacts, EgoConsts DEF Aimed
  <2>. QED  BY <1>2, <1>8, <1>14, <2>1, <2>2 DEF Aimed
<1>15. CASE EgoBegins
  <2>1. Slept' = Slept + 1 /\ Aimed'
    BY <1>14, <1>15 DEF EgoBegins
  <2>2. CASE doing = "no"
    <3>1. TurnDue
      BY <1>15, <2>2 DEF EgoBegins, TurnDue
    <3>2. late' /\ ~late
      BY <1>5, <1>7, <2>2, <3>1
    <3>3. Slept = 0
      BY <1>15, <2>2, <3>2 DEF EgoBegins
    <3>4. Slept' = 1
      BY <2>1, <3>3
    <3>5. EgoBegins'
      BY <1>2, <1>15, <2>1, <2>2, <3>2, <3>4 DEF EgoBegins
    <3>. QED  BY <3>5 DEF Tracks
  <2>3. CASE doing = "lock"
    <3>1. Slept' + wait' <= LOCK + 1
      <4>1. Slept + wait <= LOCK + 1 /\ wait > 0
        BY <1>6, <1>15, <2>3 DEF EgoBegins
      <4>. QED  BY <1>1, <1>3, <2>1, <4>1, TimeFacts, EgoConsts
    <3>2. EgoBegins'
      BY <1>2, <1>15, <2>1, <2>3, <3>1 DEF EgoBegins
    <3>. QED  BY <3>2 DEF Tracks
  <2>. QED  BY <1>15, <2>2, <2>3 DEF EgoBegins
<1>16. CASE EgoListens
  BY <1>2, <1>14, <1>16 DEF EgoListens, Tracks
<1>17. CASE EgoLost
  <2>1. Slept <= 7 * Ms
    <3>1. CASE Slept = 7 * Ms + 1 /\ late
      <4>1. sleep_elapsed
        BY <1>1, <1>17, <3>1, SleptValue, TimeFacts, EgoConsts DEF EgoLost
      <4>. QED  BY <1>5, <1>17, <3>1, <4>1 DEF EgoLost, TurnDue
    <3>. QED  BY <1>17, <3>1 DEF EgoLost
  <2>2. Slept' = Slept + 1
    BY <1>1, <1>9, <2>1, TimeFacts, EgoConsts
  <2>3. Slept' <= 7 * Ms \/ (Slept' = 7 * Ms + 1 /\ late')
    <3>1. CASE Slept = 7 * Ms
      <4>1. sleep_elapsed
        BY <1>1, <1>17, <3>1, SleptValue, TimeFacts, EgoConsts DEF EgoLost
      <4>2. late'
        BY <1>7, <1>17, <4>1 DEF EgoLost, TurnDue
      <4>. QED  BY <2>2, <3>1, <4>2
    <3>2. CASE Slept # 7 * Ms
      BY <1>1, <2>1, <2>2, <3>2, TimeFacts, EgoConsts
    <3>. QED  BY <3>1, <3>2
  <2>4. 6 * Ms <= Since' - Slept' + Period /\ Since' - Slept' + Period + 2 <= Latest'
    BY <1>1, <1>8, <1>17, <2>2, TimeFacts, EgoConsts DEF EgoLost
  <2>5. EgoLost'
    BY <1>2, <1>8, <1>17, <2>3, <2>4 DEF EgoLost, Next4
  <2>. QED  BY <2>5 DEF Tracks
<1>. QED  BY <1>11, <1>12, <1>13, <1>15, <1>16, <1>17 DEF Tracks

LEMMA EgoInitially == EgoInit => EgoInv
<1>. SUFFICES ASSUME EgoInit PROVE EgoInv
  OBVIOUS
<1>1. EgoTypes
  <2>1. remote \in [in : 0 .. Period, chan : Chans]
    BY DEF EgoInit
  <2>2. sleep = [start |-> 0, duration |-> 0] /\ channel_index = 0 /\ wait = 0 /\ missed = 0 /\ ego_clk \in EgoStarts
    BY DEF EgoInit
  <2>. QED  BY <2>1, <2>2, EgoConsts DEF EgoTypes, Ticks, Chans
<1>2. Handlers /\ Tracked
  BY DEF EgoInit, Handlers, Tracked
<1>. QED  BY <1>1, <1>2 DEF EgoInv

LEMMA EgoInvKept == EgoInv /\ [EgoNext]_egoVars => EgoInv'
<1>. SUFFICES ASSUME EgoInv, [EgoNext]_egoVars PROVE EgoInv'
  OBVIOUS
<1>1. EgoTypes'
  BY EgoTypesKept DEF EgoInv
<1>2. mode' = mode /\ (ego_requested' => ego_requested)
  BY DEF EgoNext, egoVars, device, init_state, start_rf_state, rf_on, cap_state, do_rx, sleep_state,
         continuous_cap_state, Warm, Restart, EgoStop, Leaves, Sends, EgoPass, fsm
<1>. SUFFICES ASSUME mode = 0, ego_requested, ego_requested' PROVE Handlers' /\ Tracked'
  BY <1>1, <1>2 DEF EgoInv
<1>3. Handlers /\ Tracked
  BY DEF EgoInv
<1>4. CASE UNCHANGED egoVars
  BY <1>3, <1>4 DEF egoVars, device, fsm, Handlers, Tracked, Tracks, EgoCaught, EgoReads, EgoRests, EgoBegins,
                    EgoListens, EgoLost, Aimed, Slept, Since, Latest, Next4
<1>5. ~continuous_cap_state /\ ~Warm /\ ~Restart /\ ~EgoStop /\ ~Leaves
  BY <1>3 DEF Handlers, continuous_cap_state, Warm, Restart, EgoStop, Leaves
<1>. QED  BY <1>4, <1>5, StartSteps, WindowSteps, RestSteps, SendStep, TickStep DEF EgoNext

(* Having heard a packet, ego mode listens on the transmitter's channel      *)
(* whenever one goes out, however late its turns, however long its waits and *)
(* though MaxMissed in a row are lost (ego.c, cap_state, sleep_state).       *)
THEOREM KeepsUp == EgoSpec => []Follows
<1>1. EgoInv => Follows
  <2>. SUFFICES ASSUME EgoInv, mode = 0, ego_requested, heard, missed <= MaxMissed, remote.in = 0
                PROVE  radio = remote.chan
    BY DEF Follows
  <2>1. EgoListens
    BY ListensWhenDue DEF EgoInv, Tracked
  <2>. QED  BY <2>1 DEF EgoListens, Aimed
<1>. QED  BY <1>1, EgoInitially, EgoInvKept, PTL DEF EgoSpec
=============================================================================
