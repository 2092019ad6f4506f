------------------------------- MODULE BtrAfh ------------------------------
(***************************************************************************)
(* btbr follows its master's adaptive hopping: the master announces a map  *)
(* and the instant it counts from, ubtbr hands both to the device, and a   *)
(* timer of btphy.c that the clock interrupt serves switches at the        *)
(* instant (lmp.py, btctl.py, btctl.c:142, btphy.c).  There is one static  *)
(* buffer for the map of whatever timer comes next, timers are forgotten   *)
(* only at start-up, and a connection begins with the basic hopping.       *)
(* The host passes a change on before the master announces the next.       *)
(***************************************************************************)
EXTENDS Integers, Sequences, FiniteSets

CONSTANTS
  BTPHY_TIMER_COUNT,  \* timers (10)
  Maps,               \* the maps a master announces
  Lead,               \* ticks from the announcement to the instant
  Life                \* bound: ticks of a connection

VARIABLES clkn, timers, count, afh_buf, map, announced, piconet, inbox, connections, spoiled, dead
\* timers, count: btphy_timers, its cb given by a flag; afh_buf: the handler's static buffer;
\* map: what hop_state uses; announced: the master's change under way; piconet: the master's map;
\* inbox: requests on their way to the device; spoiled: ghost, the change came too late or a
\* timer of an earlier connection was left.

None == [instant |-> 0, cb |-> FALSE]

---------------------------------------------------------------------------
\* The loop stops once it has looked at count timers, and a timer that is served lowers count.
RECURSIVE Served(_, _, _, _, _)
Served(i, j, ts, n, m) ==
  IF j >= n \/ i > BTPHY_TIMER_COUNT THEN [timers |-> ts, count |-> n, map |-> m]
  ELSE IF ~ts[i].cb THEN Served(i + 1, j, ts, n, m)
  ELSE IF ts[i].instant = clkn' THEN Served(i + 1, j + 1, [ts EXCEPT ![i] = None], n - 1, afh_buf)
  ELSE IF ts[i].instant < clkn' THEN Served(i + 1, j + 1, [ts EXCEPT ![i] = None], n - 1, m)
  ELSE Served(i + 1, j + 1, ts, n, m)
btphy_timers_execute_after == LET r == Served(1, 0, [i \in DOMAIN timers |-> [timers[i] EXCEPT !.instant = @ + 1]], count, map) IN
  timers' = r.timers /\ count' = r.count /\ map' = r.map
btphy_timers_execute == LET r == Served(1, 0, timers, count, map) IN
  timers' = r.timers /\ count' = r.count /\ map' = r.map

btphy_timer_add(instant) ==
  IF count = BTPHY_TIMER_COUNT \/ \A i \in DOMAIN timers : timers[i].cb
  THEN dead' = TRUE /\ UNCHANGED <<timers, count>>
  ELSE /\ \E i \in DOMAIN timers :
            /\ ~timers[i].cb /\ \A k \in 1..(i - 1) : timers[k].cb
            /\ timers' = [timers EXCEPT ![i] = [instant |-> instant, cb |-> TRUE]]
       /\ count' = count + 1 /\ UNCHANGED dead

---------------------------------------------------------------------------
\* Clock interrupt: clock, timers; the master changes its map by the same clock.
btphy_handler ==
  /\ ~dead /\ clkn < Life
  /\ clkn' = clkn + 1
  /\ btphy_timers_execute
  /\ IF announced # << >> /\ announced[1].instant = clkn'
     THEN piconet' = announced[1].map /\ announced' = << >>
     ELSE UNCHANGED <<piconet, announced>>
  /\ spoiled' = (spoiled \/ (inbox # << >> /\ Head(inbox).instant = clkn'))
  /\ UNCHANGED <<afh_buf, inbox, connections, dead>>

\* The master announces a change, with none under way; ubtbr passes it on (handle_set_afh).
handle_set_afh ==
  /\ ~dead /\ announced = << >> /\ inbox = << >> /\ clkn + Lead <= Life
  /\ \E m \in Maps : LET req == [instant |-> clkn + Lead, map |-> m] IN
       announced' = <<req>> /\ inbox' = Append(inbox, req)
  /\ UNCHANGED <<clkn, timers, count, afh_buf, map, piconet, connections, spoiled, dead>>

btctl_handle_set_afh_req ==
  /\ ~dead /\ inbox # << >> /\ inbox' = Tail(inbox)
  /\ afh_buf' = Head(inbox).map
  /\ btphy_timer_add(Head(inbox).instant)
  /\ UNCHANGED <<clkn, map, announced, piconet, connections, spoiled>>

\* The next connection: another master's clock, the basic hopping, the timers as they are.
btphy_set_mode ==
  /\ ~dead /\ connections > 0 /\ connections' = connections - 1
  /\ clkn' \in {0, Lead - 1}
  /\ map' = "basic" /\ piconet' = "basic" /\ announced' = << >>
  /\ spoiled' = (inbox # << >> \/ \E i \in DOMAIN timers : timers[i].cb)
  /\ UNCHANGED <<timers, count, afh_buf, inbox, dead>>

AInit == /\ clkn = 0 /\ timers = [i \in 1..BTPHY_TIMER_COUNT |-> None] /\ count = 0
         /\ afh_buf = "basic" /\ map = "basic" /\ piconet = "basic" /\ announced = << >>
         /\ inbox = << >> /\ connections = 2 /\ spoiled = FALSE /\ dead = FALSE
ANext == btphy_handler \/ handle_set_afh \/ btctl_handle_set_afh_req \/ btphy_set_mode

---------------------------------------------------------------------------
\* The device hops with the map its master hops with, tick for tick, through any number of
\* changes and connections, unless a change reached it after its instant or a timer was left
\* from the connection before; nor does it run out of timers then (btphy.c:55-123, btctl.c:142-154).
MapWithMaster == ~spoiled => (map = piconet /\ ~dead)
============================================================================
