------------------------------ MODULE BtrHost ------------------------------
(***************************************************************************)
(* ubtbr on the host: the prompt of ubertooth-btbr, the thread of each     *)
(* command, the reader thread that hands the device's state answers to the *)
(* command registered, and the discoverable command that alternates two    *)
(* commands of its own (btctl.py, ubertooth-btbr).  The device is what the *)
(* host sees of btctl.c: a state, left and entered with an answer each.    *)
(*                                                                         *)
(* A search (inquiry, inquiry scan) is over when the device is back in     *)
(* STANDBY; a page (page, page scan, l2ping, monitor) may connect first.   *)
(***************************************************************************)
EXTENDS Naturals, Sequences, FiniteSets

VARIABLES
  prompt,    \* the user's thread: "ready", "joining", "raised" or "exited"
  running,   \* prompt._cmd: "none", "search", "page" or "discoverable"
  cmd,       \* the BTCtlCmd thread: its kind, where it is, its _ready
  super,     \* the BTCtlSuperCmd thread
  stopped,   \* its _stopped event
  msg_q,     \* the command's queue
  req_q,     \* requests on their way to the device
  resp_q,    \* answers on their way to the host
  dev,       \* btctl.state of the device, or "dead"
  early      \* ghost: a command was told to stop before it had started
vars == <<prompt, running, cmd, super, stopped, msg_q, req_q, resp_q, dev, early>>

NoCmd == [kind |-> "none", pc |-> "none", ready |-> FALSE]
Device == <<dev, req_q, resp_q>>
Thread == <<cmd, msg_q>>

---------------------------------------------------------------------------
(* A command is built, which registers its queue, and its thread started. *)
_start_cmd(kind) ==
  /\ cmd = NoCmd                               \* register_msg_handler asserts there is no other
  /\ cmd' = [kind |-> kind, pc |-> "new", ready |-> FALSE]
  /\ msg_q' = << >>

\* stop: the request to go idle; the thread that stops the command then joins it.
Stop_ready(c) == /\ req_q' = IF c.ready THEN Append(req_q, "idle") ELSE req_q
                 /\ early' = (early \/ c.pc = "new")
Stop(c) == /\ req_q' = Append(req_q, "idle")
           /\ early' = (early \/ c.pc = "new")

done(c) == c.pc \in {"done", "ended"}

(* The prompt. *)
start_cmd(kind) ==
  /\ prompt = "ready" /\ running = "none"
  /\ running' = kind /\ early' = FALSE /\ stopped' = FALSE
  /\ IF kind = "discoverable" THEN super' = "begin" /\ UNCHANGED Thread
     ELSE _start_cmd(kind) /\ UNCHANGED super
  /\ UNCHANGED <<prompt, Device>>

\* With a command there: one that is done is stopped and joined first, one that runs is left
\* alone, and a discoverable command has no done() to ask.
start_cmd_busy ==
  /\ prompt = "ready" /\ running # "none"
  /\ \/ /\ running = "discoverable" /\ prompt' = "raised"
        /\ UNCHANGED <<req_q, early>>
     \/ /\ running # "discoverable" /\ done(cmd)
        /\ Stop(cmd) /\ prompt' = "joining"
  /\ UNCHANGED <<running, Thread, super, stopped, dev, resp_q>>

do_idle ==
  /\ prompt = "ready" /\ running # "none"
  /\ prompt' = "joining"
  /\ IF running = "discoverable" THEN stopped' = TRUE /\ UNCHANGED <<req_q, early>>
     ELSE Stop(cmd) /\ UNCHANGED stopped
  /\ UNCHANGED <<running, Thread, super, dev, resp_q>>

Joined ==
  /\ prompt = "joining"
  /\ IF running = "discoverable" THEN super = "ended" ELSE cmd.pc = "ended"
  /\ prompt' = "ready" /\ running' = "none" /\ super' = "none" /\ cmd' = NoCmd
  /\ stopped' = FALSE /\ early' = FALSE
  /\ UNCHANGED <<msg_q, Device>>

\* close() stops the reader; nothing ends the command.
do_exit == /\ prompt = "ready" /\ prompt' = "exited"
           /\ UNCHANGED <<running, Thread, super, stopped, Device, early>>

---------------------------------------------------------------------------
(* The thread of a command. *)
_start == /\ cmd.pc = "new" /\ cmd' = [cmd EXCEPT !.pc = "loop"]
          /\ req_q' = Append(req_q, cmd.kind)
          /\ UNCHANGED <<prompt, running, super, stopped, msg_q, dev, resp_q, early>>

\* Ready once searching, or once the link works; any other state ends the command.
_handle_state(msg) ==
  CASE cmd.kind = "search" /\ msg = "search"  -> [cmd EXCEPT !.ready = TRUE]
    [] cmd.kind = "page" /\ msg \in {"page", "paged"} -> cmd
    [] cmd.kind = "page" /\ msg = "connected" -> [cmd EXCEPT !.ready = TRUE]
    [] OTHER -> [cmd EXCEPT !.pc = "done"]

run ==
  /\ cmd.pc = "loop" /\ msg_q # << >>
  /\ msg_q' = Tail(msg_q)
  /\ IF Head(msg_q) = "detach"                 \* LMP_DETACH of the slave's peer
     THEN /\ cmd' = cmd
          /\ IF cmd.ready THEN Stop(cmd) ELSE UNCHANGED <<req_q, early>>
     ELSE cmd' = _handle_state(Head(msg_q)) /\ UNCHANGED <<req_q, early>>
  /\ UNCHANGED <<prompt, running, super, stopped, dev, resp_q>>

run_ends == /\ cmd.pc = "done"                 \* unregister_msg_handler
            /\ cmd' = [cmd EXCEPT !.pc = "ended"]
            /\ msg_q' = << >>
            /\ UNCHANGED <<prompt, running, super, stopped, Device, early>>

\* The reader thread: without a command the answer is only printed.
_handle_msg ==
  /\ resp_q # << >> /\ prompt # "exited"
  /\ resp_q' = Tail(resp_q)
  /\ msg_q' = IF cmd.pc \in {"new", "loop", "done"} THEN Append(msg_q, Head(resp_q)) ELSE msg_q
  /\ UNCHANGED <<prompt, running, cmd, super, stopped, req_q, dev, early>>

---------------------------------------------------------------------------
(* BTCtlDiscoverableCmd: inquiry scan and page scan, two seconds each; the *)
(* command's thread has started within its sleep.                          *)
run_once(from, to, kind) ==
  /\ super = from /\ super' = to /\ _start_cmd(kind)
  /\ UNCHANGED <<prompt, running, stopped, Device, early>>

stop_allowed == done(cmd) \/ ~cmd.ready

_stop_cmd(from, to) ==
  /\ super = from /\ cmd.pc # "new"
  /\ from = "page" => (~stop_allowed => stopped)
  /\ super' = to /\ Stop(cmd)
  /\ UNCHANGED <<prompt, running, Thread, stopped, dev, resp_q>>

SuperJoined(from, to) ==
  /\ super = from /\ cmd.pc = "ended"
  /\ super' = to /\ cmd' = NoCmd
  /\ UNCHANGED <<prompt, running, stopped, msg_q, Device, early>>

run_super ==
  \/ (super = "begin" /\ ~stopped /\ run_once("begin", "scan", "search"))
  \/ _stop_cmd("scan", "joinScan")
  \/ SuperJoined("joinScan", "between")
  \/ run_once("between", "page", "page")
  \/ _stop_cmd("page", "joinPage")
  \/ SuperJoined("joinPage", "begin")
  \/ (super = "begin" /\ stopped /\ super' = "ended"
      /\ UNCHANGED <<prompt, running, Thread, stopped, Device, early>>)

---------------------------------------------------------------------------
(* The device. *)
btctl_set_state(s, msg) == dev' = s /\ resp_q' = Append(resp_q, msg)
btctl_handle_msg ==
  /\ req_q # << >> /\ dev # "dead" /\ req_q' = Tail(req_q)
  /\ \/ Head(req_q) = "idle" /\ dev = "standby" /\ UNCHANGED <<dev, resp_q>>
     \/ Head(req_q) = "idle" /\ dev # "standby" /\ btctl_set_state("standby", "standby")
     \/ Head(req_q) # "idle" /\ dev = "standby" /\ btctl_set_state(Head(req_q), Head(req_q))
     \/ Head(req_q) # "idle" /\ dev # "standby" /\ dev' = "dead" /\ UNCHANGED resp_q
  /\ UNCHANGED <<prompt, running, Thread, super, stopped, early>>

Quiet == UNCHANGED <<prompt, running, Thread, super, stopped, req_q, early>>
SearchEnds == dev \in {"search", "page", "paged"} /\ btctl_set_state("standby", "standby") /\ Quiet
Paged == \/ (dev = "page" /\ btctl_set_state("paged", "paged") /\ Quiet)
         \/ (dev = "paged" /\ btctl_set_state("connected", "connected") /\ Quiet)
LinkEnds == dev = "connected" /\ btctl_set_state("standby", "standby") /\ Quiet
Detached == /\ dev = "connected" /\ Len(resp_q) = 0 /\ ~\E i \in DOMAIN msg_q : msg_q[i] = "detach"
            /\ ~\E i \in DOMAIN req_q : req_q[i] = "idle"
            /\ resp_q' = Append(resp_q, "detach") /\ UNCHANGED dev /\ Quiet

Init == /\ prompt = "ready" /\ running = "none" /\ cmd = NoCmd /\ super = "none" /\ stopped = FALSE
        /\ msg_q = << >> /\ req_q = << >> /\ resp_q = << >> /\ dev = "standby" /\ early = FALSE
Next == \/ \E kind \in {"search", "page", "discoverable"} : start_cmd(kind)
        \/ start_cmd_busy \/ do_idle \/ Joined \/ do_exit
        \/ _start \/ run \/ run_ends \/ _handle_msg \/ run_super
        \/ btctl_handle_msg \/ SearchEnds \/ Paged \/ LinkEnds \/ Detached
Spec == Init /\ [][Next]_vars
\* Threads run, the device works and its searches time out; a link may last for ever.
Fairness == /\ WF_vars(_start) /\ WF_vars(run) /\ WF_vars(run_ends) /\ WF_vars(_handle_msg)
            /\ WF_vars(run_super) /\ WF_vars(Joined) /\ WF_vars(btctl_handle_msg) /\ WF_vars(SearchEnds)
FairSpec == Spec /\ Fairness

---------------------------------------------------------------------------
\* A command that is over has left the device in STANDBY with no answer of its own under way, so
\* the next one neither finds the device busy, which would stop it for good, nor takes an old
\* answer for its own (ubertooth-btbr:56-74, btctl.py:474-489, btctl.c:257-313).
CommandsSeparate ==
  /\ dev # "dead"
  /\ cmd.pc \in {"ended", "none"} => /\ dev = "standby" /\ resp_q = << >>
                                     /\ \A i \in DOMAIN req_q : req_q[i] = "idle"

\* Who stops a command that had started gets the prompt back, with the device in STANDBY,
\* whatever the device was doing (README.md of ubtbr: "You can stop the current command").
StopReturns == (prompt = "joining" /\ ~early) ~> (prompt # "joining")
============================================================================
