-------------------------------- MODULE Dfu --------------------------------
(***************************************************************************)
(* The USB bootloader (firmware/bootloader: main, the DFU request machine, *)
(* the flash writer) and the update tool (ubertooth-dfu), joined by one    *)
(* control pipe on which a request or its answer may be lost.  Flash is a  *)
(* row of blocks of one transfer each; block contents are names, "mixed"   *)
(* what programming a block that is not blank leaves.                      *)
(***************************************************************************)
EXTENDS Integers, Sequences, FiniteSets

CONSTANTS
  Image,         \* the firmware image, a sequence of block contents
  BootBlocks,    \* blocks of the bootloader itself
  FlashBlocks,   \* blocks of the part
  UploadEnd,     \* first block an upload no longer reads
  SectorStarts,  \* blocks at which an erase sector begins
  Asked,         \* what the tool may be asked for: sequences of functions
  MaxLost,       \* requests and answers lost, flash failures: at most so many
  MaxKills,      \* times the tool is killed
  Pins,          \* may the entry jumper be set?
  Unplugs,       \* may the device be unplugged?
  OtherBlocks    \* blocks other programs' requests name; none: no such programs

ASSUME FlashAssumption ==
  /\ {BootBlocks, FlashBlocks, UploadEnd} \subseteq Nat
  /\ 0 < BootBlocks /\ BootBlocks < FlashBlocks
  /\ BootBlocks < UploadEnd /\ UploadEnd <= FlashBlocks
  /\ SectorStarts \subseteq Nat /\ {0, BootBlocks} \subseteq SectorStarts
  /\ Image \in Seq(STRING) \ {<<>>} /\ BootBlocks + Len(Image) <= FlashBlocks

(* main works through the functions it is asked for in this order.         *)
Orders == {<<"upload">>, <<"download">>, <<"reset">>, <<"upload", "download">>,
           <<"upload", "reset">>, <<"download", "reset">>, <<"upload", "download", "reset">>}
ASSUME AskedAssumption == Asked \subseteq Orders

ASSUME BoundsAssumption ==
  /\ {MaxLost, MaxKills} \subseteq Nat /\ {Pins, Unplugs} \subseteq BOOLEAN
  /\ OtherBlocks \subseteq 0 .. FlashBlocks

VARIABLES
  running,          \* what the device runs: "off", "reset", "dfu", "app"
  bootloader_ctrl,  \* the RAM word the application leaves for the bootloader
  pin, use_timeout, \* the entry jumper; the bootloader was entered by it
  state, status, virginity,  \* of the DFU object
  flash, touched,   \* block contents; was one changed since the last reset?
  pipe,             \* the control transfer in progress
  open,             \* the tool's handle names the device that is there now
  pc, todo, asked,  \* the tool: call it makes, functions left and asked for
  block, result,    \* next block of the image or the upload; how it ended
  lost, kills,      \* counters of the bounds
  faultless         \* nothing was lost or failed since the tool started

dfu == <<state, status, virginity, flash, touched>>
boot == <<running, bootloader_ctrl, pin, use_timeout>>
tool == <<pc, todo, asked, block, result>>
bounds == <<lost, kills, faultless>>
vars == <<dfu, boot, pipe, open, tool, bounds>>

Blocks == 0 .. FlashBlocks - 1
Contents == {"boot", "blank", "old", "mixed"} \cup {Image[i] : i \in DOMAIN Image}
States == {"APPDETACH", "DFUIDLE", "DNLOAD_SYNC", "DNLOAD_IDLE", "MANIFEST_SYNC",
           "DFUERROR"}
Statuses == {"OK", "WRITE", "PROG", "ADDRESS", "UNKNOWN", "STALLEDPKT"}
Lengths == {"zero", "right", "other"}   \* wLength: 0, what the request has, neither
Ops == {"DETACH", "DNLOAD", "UPLOAD", "GETSTATUS", "CLRSTATUS", "GETSTATE", "ABORT"}
Idle == [phase |-> "idle"]
Asks(op, len, b, d) ==
  [phase |-> "ask", op |-> op, len |-> len,
   block |-> IF op \in {"DNLOAD", "UPLOAD"} THEN b ELSE 0,
   data |-> IF op = "DNLOAD" THEN d ELSE "none"]
Answers(a, s) == [phase |-> "answer", rv |-> a, state |-> s]
NoAnswer == Answers("error", "none")

----------------------------------------------------------------------------
(* The flash writer: memory_policy and Flash.                              *)

write_permitted_low(b) == \E s \in SectorStarts : s < BootBlocks /\ 0 < s /\ b >= s
write_permitted(b) == b >= BootBlocks
at_sector_boundary(b) == b \in SectorStarts
SameSector(a, b) == \A s \in SectorStarts : a >= s <=> b >= s
Erased_block_only(f, b) == [f EXCEPT ![b] = "blank"]
Erased(f, b) == [a \in Blocks |-> IF SameSector(a, b) THEN "blank" ELSE f[a]]
Cleared(b) == IF at_sector_boundary(b) THEN Erased(flash, b) ELSE flash
Programmed(f, b, d) == [f EXCEPT ![b] = IF @ = "blank" THEN d ELSE "mixed"]

(* An IAP command may fail.  The result of the last, the copy, is dropped. *)
WriteDone(b, d) == [flash |-> Programmed(Cleared(b), b, d), ok |-> TRUE]
WriteFailed(b) == {[flash |-> flash, ok |-> FALSE],
                   [flash |-> Cleared(b), ok |-> FALSE],
                   [flash |-> Cleared(b), ok |-> TRUE]}

----------------------------------------------------------------------------
(* The DFU object: one action per request.                                 *)

Requested(op) == /\ running = "dfu" /\ state # "APPDETACH"
                 /\ pipe.phase = "ask" /\ pipe.op = op
                 /\ UNCHANGED <<boot, open, tool>>
Answer(ok) == pipe' = Answers(IF ok THEN "ok" ELSE "PIPE", state')
set_state(s) == state' = s /\ virginity' = FALSE

error(why) == set_state("DFUERROR") /\ status' = why /\ Answer(FALSE)
Proceed(s) == set_state(s) /\ UNCHANGED status /\ Answer(TRUE)
NoFlash == UNCHANGED <<flash, touched, bounds>>

request_detach ==
  /\ Requested("DETACH") /\ NoFlash
  /\ IF pipe.len = "zero" THEN Proceed("APPDETACH") ELSE error("UNKNOWN")

DnloadAllowed == state \in {"DFUIDLE", "DNLOAD_IDLE"}

dnload_end ==
  /\ Requested("DNLOAD") /\ pipe.len = "zero" /\ NoFlash
  /\ IF state = "DNLOAD_IDLE" THEN Proceed("MANIFEST_SYNC") ELSE error("STALLEDPKT")

dnload_refused ==
  /\ Requested("DNLOAD") /\ NoFlash
  /\ \/ pipe.len = "other" /\ error("UNKNOWN")
     \/ pipe.len = "right" /\ ~DnloadAllowed /\ error("STALLEDPKT")
     \/ pipe.len = "right" /\ DnloadAllowed /\ ~write_permitted(pipe.block) /\ error("WRITE")

Writes == /\ Requested("DNLOAD") /\ pipe.len = "right"
          /\ DnloadAllowed /\ write_permitted(pipe.block)
Wrote(w) == /\ flash' = w.flash
            /\ touched' = (touched \/ w.flash # flash)
            /\ IF w.ok THEN Proceed("DNLOAD_SYNC") ELSE error("PROG")

dnload_block ==
  /\ Writes /\ UNCHANGED bounds
  /\ Wrote(IF pipe.block \in Blocks THEN WriteDone(pipe.block, pipe.data)
                                    ELSE [flash |-> flash, ok |-> FALSE])

dnload_fails ==
  /\ Writes /\ pipe.block \in Blocks
  /\ lost < MaxLost /\ lost' = lost + 1 /\ faultless' = FALSE /\ UNCHANGED kills
  /\ \E w \in WriteFailed(pipe.block) : Wrote(w)

request_upload ==
  /\ Requested("UPLOAD") /\ NoFlash
  /\ \/ pipe.len # "right" /\ error("UNKNOWN")
     \/ pipe.len = "right" /\ state # "DFUIDLE" /\ error("STALLEDPKT")
     \/ /\ pipe.len = "right" /\ state = "DFUIDLE"
        /\ IF pipe.block \in Blocks THEN Proceed("DFUIDLE") ELSE error("ADDRESS")

request_getstatus ==
  /\ Requested("GETSTATUS") /\ NoFlash /\ UNCHANGED status
  /\ IF pipe.len = "right" /\ state = "DNLOAD_SYNC" THEN set_state("DNLOAD_IDLE")
     ELSE IF pipe.len = "right" /\ state = "MANIFEST_SYNC" THEN set_state("DFUIDLE")
     ELSE UNCHANGED <<state, virginity>>
  /\ Answer(pipe.len = "right")

request_clrstatus_state_kept ==
  /\ Requested("CLRSTATUS") /\ NoFlash
  /\ IF pipe.len = "zero" /\ state = "DFUERROR"
     THEN status' = "OK" /\ UNCHANGED <<state, virginity>> /\ Answer(TRUE)
     ELSE error("UNKNOWN")
request_clrstatus ==
  /\ Requested("CLRSTATUS") /\ NoFlash
  /\ IF pipe.len = "zero" /\ state = "DFUERROR"
     THEN status' = "OK" /\ set_state("DFUIDLE") /\ Answer(TRUE)
     ELSE error("UNKNOWN")

request_getstate ==
  /\ Requested("GETSTATE") /\ NoFlash
  /\ IF pipe.len = "right" THEN UNCHANGED <<state, status, virginity>> /\ Answer(TRUE)
                           ELSE error("UNKNOWN")

request_abort ==
  /\ Requested("ABORT") /\ NoFlash
  /\ IF pipe.len = "zero" /\ state # "DFUERROR" THEN Proceed("DFUIDLE")
                                                ELSE error("UNKNOWN")

request_handler ==
  \/ request_detach \/ dnload_end \/ dnload_refused \/ dnload_block \/ dnload_fails
  \/ request_upload \/ request_getstatus \/ request_clrstatus \/ request_getstate
  \/ request_abort

----------------------------------------------------------------------------
(* main() of the bootloader, the reset and the application.  Whenever the  *)
(* device leaves the bus its handles die with the transfer in progress.    *)

OffBus == open' = FALSE /\ pipe' = IF pipe.phase = "ask" THEN NoAnswer ELSE pipe

main ==
  /\ running = "reset"
  /\ running' = IF bootloader_ctrl = "DFU_MODE" \/ pin THEN "dfu" ELSE "app"
  /\ use_timeout' = (pin /\ bootloader_ctrl # "DFU_MODE")
  /\ IF running' = "dfu"
     THEN /\ state' = "DFUIDLE" /\ status' = "OK" /\ virginity' = TRUE /\ touched' = FALSE
          /\ UNCHANGED flash
     ELSE UNCHANGED dfu
  /\ UNCHANGED <<bootloader_ctrl, pin, pipe, open, tool, bounds>>

bootloader_ctrl_kept == bootloader_ctrl
bootloader_ctrl_after == IF use_timeout THEN bootloader_ctrl ELSE "none"
run_bootloader_ends ==
  /\ running = "dfu" /\ running' = "reset" /\ OffBus
  /\ bootloader_ctrl' = bootloader_ctrl_after
  /\ UNCHANGED <<pin, use_timeout, dfu, tool, bounds>>
run_bootloader_detached == state = "APPDETACH" /\ run_bootloader_ends
run_bootloader_timeout == use_timeout /\ virginity /\ run_bootloader_ends

Unplug == /\ Unplugs /\ running # "off" /\ running' = "off" /\ OffBus
          /\ bootloader_ctrl' = "none" /\ faultless' = FALSE
          /\ UNCHANGED <<pin, use_timeout, dfu, tool, lost, kills>>

(* Power fails between the steps of a write.                               *)
UnplugInWrite ==
  /\ Unplugs /\ running = "dfu" /\ state # "APPDETACH" /\ DnloadAllowed
  /\ pipe.phase = "ask" /\ pipe.op = "DNLOAD" /\ pipe.len = "right"
  /\ pipe.block \in Blocks /\ write_permitted(pipe.block)
  /\ flash' \in {Cleared(pipe.block), [Cleared(pipe.block) EXCEPT ![pipe.block] = "mixed"]}
  /\ running' = "off" /\ OffBus /\ bootloader_ctrl' = "none" /\ faultless' = FALSE
  /\ UNCHANGED <<pin, use_timeout, state, status, virginity, touched, tool, lost, kills>>

Plug == /\ running = "off" /\ running' = "reset"
        /\ UNCHANGED <<bootloader_ctrl, pin, use_timeout, dfu, pipe, open, tool, bounds>>

Jumper == /\ Pins /\ pin' = ~pin
          /\ UNCHANGED <<running, bootloader_ctrl, use_timeout, dfu, pipe, open, tool, bounds>>

----------------------------------------------------------------------------
(* The control pipe and other programs that use it.                        *)

Fault == lost < MaxLost /\ lost' = lost + 1 /\ faultless' = FALSE /\ UNCHANGED kills
LoseTransfer ==
  /\ pipe # Idle /\ pipe # NoAnswer /\ Fault /\ pipe' = NoAnswer
  /\ UNCHANGED <<dfu, boot, open, tool>>

OtherRequest ==
  /\ pc = "idle" /\ pipe = Idle /\ running = "dfu" /\ state # "APPDETACH"
  /\ \E op \in Ops, len \in Lengths, b \in OtherBlocks : pipe' = Asks(op, len, b, "old")
  /\ UNCHANGED <<dfu, boot, open, tool, bounds>>

DropAnswer == /\ pc = "idle" /\ pipe.phase = "answer" /\ pipe' = Idle
              /\ UNCHANGED <<dfu, boot, open, tool, bounds>>

----------------------------------------------------------------------------
(* ubertooth-dfu.  pc names the call it is about to make or waits in.      *)

Quiet == UNCHANGED <<dfu, boot, bounds>>
End(r) == pc' = "idle" /\ result' = r /\ todo' = <<>> /\ UNCHANGED <<asked, block>>

Start ==
  /\ pc = "idle" /\ pipe = Idle /\ \E a \in Asked : asked' = a /\ todo' = a
  /\ pc' = "find" /\ result' = "none" /\ block' = BootBlocks /\ faultless' = TRUE
  /\ UNCHANGED <<dfu, boot, pipe, open, lost, kills>>

Opens == open' = TRUE /\ pc' = "get_state" /\ UNCHANGED <<todo, asked, block, result>>

FindDfu == /\ pc \in {"find", "wait"} /\ running = "dfu" /\ Opens
           /\ Quiet /\ UNCHANGED pipe

(* The application, asked by cmd_flash, leaves the word and resets.        *)
cmd_flash ==
  /\ pc = "find" /\ running = "app" /\ pc' = "wait"
  /\ \/ /\ running' = "reset" /\ bootloader_ctrl' = "DFU_MODE"
        /\ UNCHANGED <<pin, use_timeout, bounds>>
     \/ Fault /\ UNCHANGED boot
  /\ UNCHANGED <<dfu, pipe, open, todo, asked, block, result>>

NotFound == /\ \/ pc = "find" /\ running \notin {"dfu", "app"}
               \/ pc = "wait" /\ running # "dfu"
            /\ End("failed") /\ Quiet /\ UNCHANGED <<pipe, open>>

(* What each call asks for.                                                *)
Call == CASE pc \in {"get_state", "check"} -> Asks("GETSTATE", "right", 0, "none")
          [] pc = "abort" -> Asks("ABORT", "zero", 0, "none")
          [] pc = "clear" -> Asks("CLRSTATUS", "zero", 0, "none")
          [] pc = "detach" -> Asks("DETACH", "zero", 0, "none")
          [] pc = "dnload" -> Asks("DNLOAD", "right", block, Image[block - BootBlocks + 1])
          [] pc = "get_status" -> Asks("GETSTATUS", "right", 0, "none")
          [] pc = "upload" -> Asks("UPLOAD", "right", block, "none")

Ask == /\ pc \notin {"idle", "find", "wait"} /\ pipe = Idle
       /\ pipe' = IF open /\ running = "dfu" THEN Call ELSE NoAnswer
       /\ Quiet /\ UNCHANGED <<open, tool>>

Answered(p) == /\ pc = p /\ pipe.phase = "answer" /\ pipe' = Idle
               /\ Quiet /\ UNCHANGED open
Goto(p) == pc' = p /\ UNCHANGED <<todo, asked, block, result>>

(* A function ends: the next one starts, or the tool ends.                 *)
Next_function ==
  IF Len(todo) = 1 THEN End("ok")
  ELSE /\ todo' = Tail(todo) /\ pc' = "get_state" /\ block' = BootBlocks
       /\ UNCHANGED <<asked, result>>

FirstCall == IF Head(todo) = "upload" THEN "upload"
             ELSE IF Head(todo) = "reset" THEN "check" ELSE "dnload"

(* enter_dfu_mode: no case of the switch names the byte an error becomes.  *)
AfterState(s) == CASE s = "DFUIDLE" -> FirstCall
                   [] s \in {"DNLOAD_SYNC", "DNLOAD_IDLE", "MANIFEST_SYNC"} -> "abort"
                   [] s = "DFUERROR" -> "clear"
                   [] OTHER -> "get_state"
enter_dfu_mode ==
  /\ Answered("get_state")
  /\ Goto(IF pipe.rv = "ok" THEN AfterState(pipe.state) ELSE "get_state")
dfu_abort ==
  /\ Answered("abort")
  /\ IF pipe.rv = "ok" THEN Goto("get_state")
     ELSE IF Head(todo) = "reset" THEN Next_function ELSE End("failed")
dfu_clear_status == Answered("clear") /\ Goto("get_state")

(* main drops the result of detach.                                        *)
detach ==
  \/ /\ Answered("check")
     /\ IF pipe.rv = "ok" /\ pipe.state = "DFUIDLE" THEN Goto("detach") ELSE Next_function
  \/ Answered("detach") /\ Next_function

upload ==
  /\ Answered("upload")
  /\ IF pipe.rv # "ok" THEN End("failed")
     ELSE IF block + 1 = UploadEnd THEN Next_function
     ELSE block' = block + 1 /\ UNCHANGED <<pc, todo, asked, result>>

download ==
  /\ Answered("dnload")
  /\ IF pipe.rv = "error" THEN End("failed") ELSE Goto("get_status")
dfu_get_status ==
  /\ Answered("get_status")
  /\ IF block + 1 = BootBlocks + Len(Image) THEN Next_function
     ELSE /\ block' = block + 1 /\ pc' = "dnload" /\ UNCHANGED <<todo, asked, result>>

Killed == /\ pc # "idle" /\ kills < MaxKills /\ kills' = kills + 1
          /\ End("failed") /\ UNCHANGED <<dfu, boot, pipe, open, lost, faultless>>

----------------------------------------------------------------------------
Init ==
  /\ running = "reset" /\ bootloader_ctrl = "none" /\ use_timeout = FALSE
  /\ pin \in (IF Pins THEN BOOLEAN ELSE {FALSE})
  /\ state = "DFUIDLE" /\ status = "OK" /\ virginity = TRUE /\ touched = FALSE
  /\ flash = [b \in Blocks |-> IF b < BootBlocks THEN "boot" ELSE "old"]
  /\ pipe = Idle /\ open = FALSE
  /\ pc = "idle" /\ todo = <<>> /\ asked = <<>> /\ block = BootBlocks /\ result = "none"
  /\ lost = 0 /\ kills = 0 /\ faultless = TRUE

Device == main \/ request_handler \/ run_bootloader_detached
Tool == \/ FindDfu \/ cmd_flash \/ NotFound \/ Ask \/ enter_dfu_mode \/ dfu_abort
        \/ dfu_clear_status \/ detach \/ upload \/ download \/ dfu_get_status
User == Start \/ Killed \/ Unplug \/ UnplugInWrite \/ Plug \/ Jumper \/ OtherRequest

Next == Device \/ run_bootloader_timeout \/ Tool \/ User \/ LoseTransfer \/ DropAnswer

Spec == Init /\ [][Next]_vars

(* The device and the tool do not stop, and the bootloader's timeout comes.*)
Fairness == WF_vars(Device) /\ WF_vars(Tool) /\ WF_vars(run_bootloader_timeout)
FairSpec == Spec /\ Fairness

----------------------------------------------------------------------------
(* Type invariant.                                                         *)
Pipes == {Idle, NoAnswer}
  \cup {Asks(op, len, b, d) : op \in Ops, len \in Lengths, b \in 0 .. FlashBlocks,
                              d \in Contents}
  \cup {Answers(a, s) : a \in {"ok", "PIPE"}, s \in States}
TypeOK ==
  /\ running \in {"off", "reset", "dfu", "app"} /\ bootloader_ctrl \in {"none", "DFU_MODE"}
  /\ {pin, use_timeout, virginity, touched, open, faultless} \subseteq BOOLEAN
  /\ state \in States /\ status \in Statuses
  /\ flash \in [Blocks -> Contents]
  /\ pipe \in Pipes
  /\ pc \in {"idle", "find", "wait", "get_state", "abort", "clear", "check", "detach",
            "dnload", "get_status", "upload"}
  /\ asked \in Asked \cup {<<>>} /\ todo \in Orders \cup {<<>>}
  /\ (pc = "idle" <=> todo = <<>>)
  /\ block \in BootBlocks .. FlashBlocks - 1 /\ result \in {"none", "ok", "failed"}
  /\ lost \in 0 .. MaxLost /\ kills \in 0 .. MaxKills

(* Whatever is asked of it, by whom, and wherever the power fails, the     *)
(* bootloader never erases or programs a block of its own: the block       *)
(* written and every other block of the sector it may erase lie above it.  *)
BootKept == \A b \in 0 .. BootBlocks - 1 : flash[b] = "boot"

(* A download that ends well and met no fault leaves the image in flash    *)
(* whatever state, flash or half-done transfer earlier runs left behind:   *)
(* enter_dfu_mode recovers the machine and every sector is erased afresh.  *)
Written(f) == \A i \in DOMAIN Image : f[BootBlocks + i - 1] = Image[i]
AskedFor(f) == \E i \in DOMAIN asked : asked[i] = f
Succeeds == pc # "idle" /\ result' = "ok" /\ AskedFor("download")
SuccessIfFaultless == [][Succeeds /\ faultless => Written(flash')]_vars

(* The manual's promise without the proviso: a download that ends without  *)
(* an error has written the file to the device.                            *)
SuccessMeansWritten == [][Succeeds => Written(flash')]_vars

(* A device whose flash was changed is not reset by the jumper's timeout   *)
(* before its update has ended.                                            *)
TouchedNotVirgin == running = "dfu" /\ touched => ~virginity

(* What GETSTATUS reports is an error exactly in the error state: no error *)
(* goes unreported and CLRSTATUS, the only way out, clears both.           *)
StatusHonest == running = "dfu" /\ state # "APPDETACH" => (state = "DFUERROR" <=> status # "OK")

(* The tool ends unless the device it talks to has gone: enter_dfu_mode    *)
(* finds its way to DFUIDLE from every state the device can be in.         *)
Gone == pc \notin {"find", "wait"} /\ ~open
ToolEnds == pc # "idle" ~> (pc = "idle" \/ Gone)

(* A reset asked for with no fault on the way leads to the application,    *)
(* and not to the bootloader again, unless the jumper asks for it.         *)
ResetDone == pc = "idle" /\ result = "ok" /\ faultless /\ asked[Len(asked)] = "reset"
Jumpered == running = "dfu" /\ use_timeout
ResetRunsApp == ResetDone ~> (running \in {"app", "off"} \/ Jumpered \/ pc # "idle")

----------------------------------------------------------------------------
(* Why SuccessIfFaultless holds: what ties pipe, device and tool together, *)
(* and how much of the image flash holds at each step of a download.       *)
Calls == {"get_state", "abort", "clear", "check", "detach", "dnload", "get_status", "upload"}
Left == {todo[i] : i \in DOMAIN todo}

Joined ==
  /\ pc # "idle" /\ AskedFor("download") => Head(todo) = "reset" \/ "download" \in Left
  /\ pc # "idle" => result = "none"
  /\ open => running = "dfu"
  /\ pc \in {"find", "wait"} => pipe = Idle
  /\ pc \in Calls =>
       /\ pipe.phase = "ask" => pipe = Call /\ open
       /\ pipe.phase = "answer" /\ open =>
            IF pipe.rv = "error" THEN ~faultless ELSE pipe.state = state
  /\ pc = "upload" => Head(todo) = "upload"
  /\ pc \in {"dnload", "get_status"} => Head(todo) = "download"
  /\ pc \in {"check", "detach"} => Head(todo) = "reset"

(* The image below b is written; what remains of b's sector is blank.      *)
Upto(f, b) ==
  /\ \A i \in 1 .. b - BootBlocks : f[BootBlocks + i - 1] = Image[i]
  /\ b \notin SectorStarts =>
       \A c \in Blocks : c >= b /\ SameSector(c, b) => f[c] = "blank"

(* A download without faults never stands anywhere else.                   *)
DownloadInv ==
  faultless =>
    /\ pc = "dnload" /\ pipe.phase # "answer" =>
         Upto(flash, block) /\ (open => DnloadAllowed)
    /\ pc = "dnload" /\ pipe.phase = "answer" =>
         \/ pipe.rv = "error"
         \/ pipe.rv = "ok" /\ Upto(flash, block + 1) /\ (open => state = "DNLOAD_SYNC")
    /\ pc = "get_status" =>
         /\ Upto(flash, block + 1)
         /\ open => state = (IF pipe.phase = "answer" THEN "DNLOAD_IDLE" ELSE "DNLOAD_SYNC")
    /\ pc # "idle" /\ Head(todo) = "reset" /\ AskedFor("download") => Written(flash)
=============================================================================
