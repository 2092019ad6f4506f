----------------------------- MODULE Dfu_proofs -----------------------------
(***************************************************************************)
(* Proofs about Dfu for every flash layout, every image and every bound:   *)
(* type correctness, that the bootloader keeps its own blocks, that the    *)
(* reported status is honest and that a changed flash is never virgin.     *)
(***************************************************************************)
EXTENDS Dfu, TLAPS, SequenceTheorems

(* Where the tool stands in flash, part by part of its work.               *)
Placed ==
  /\ pc \in {"find", "wait", "get_state", "abort", "clear"} => block = BootBlocks
  /\ pc \in {"dnload", "get_status"} => block \in BootBlocks .. BootBlocks + Len(Image) - 1
  /\ pc = "upload" => block \in BootBlocks .. UploadEnd - 1
Inv == TypeOK /\ Placed /\ BootKept /\ StatusHonest /\ TouchedNotVirgin

LEMMA TailOrders == \A t \in Orders : Len(t) # 1 => Tail(t) \in Orders
<1>1. \A t \in {<<"upload">>, <<"download">>, <<"reset">>} : Len(t) = 1
  OBVIOUS
<1>2. /\ Tail(<<"upload", "download">>) = <<"download">>
      /\ Tail(<<"upload", "reset">>) = <<"reset">>
      /\ Tail(<<"download", "reset">>) = <<"reset">>
      /\ Tail(<<"upload", "download", "reset">>) = <<"download", "reset">>
  OBVIOUS
<1>. QED  BY <1>1, <1>2 DEF Orders

LEMMA AnswerType ==
  /\ Idle \in Pipes /\ NoAnswer \in Pipes
  /\ \A s \in States : \A ok \in BOOLEAN :
       Answers(IF ok THEN "ok" ELSE "PIPE", s) \in Pipes
  BY DEF Pipes

LEMMA AskType ==
  ASSUME NEW op \in Ops, NEW len \in Lengths, NEW b \in 0 .. FlashBlocks, NEW d,
         op = "DNLOAD" => d \in Contents
  PROVE  Asks(op, len, b, d) \in Pipes
<1>1. Asks(op, len, b, d) = Asks(op, len, b, IF op = "DNLOAD" THEN d ELSE "old")
  BY DEF Asks
<1>2. (IF op = "DNLOAD" THEN d ELSE "old") \in Contents
  BY DEF Contents
<1>. QED  BY <1>1, <1>2 DEF Pipes

LEMMA AskFields ==
  ASSUME pipe \in Pipes, pipe.phase = "ask"
  PROVE  pipe.block \in 0 .. FlashBlocks /\ (pipe.op = "DNLOAD" => pipe.data \in Contents)
<1>1. PICK op \in Ops, len \in Lengths, b \in 0 .. FlashBlocks, d \in Contents :
        pipe = Asks(op, len, b, d)
  BY DEF Pipes, Idle, NoAnswer, Answers
<1>. QED  BY <1>1, FlashAssumption DEF Asks

-----------------------------------------------------------------------------
LEMMA InvInit == Init => Inv
<1>. SUFFICES ASSUME Init PROVE Inv
  OBVIOUS
<1>1. flash \in [Blocks -> Contents]
  BY DEF Init, Contents
<1>2. BootKept
  BY FlashAssumption DEF Init, BootKept, Blocks
<1>3. pin \in BOOLEAN
  BY BoundsAssumption DEF Init
<1>4. lost \in 0 .. MaxLost /\ kills \in 0 .. MaxKills /\ block \in BootBlocks .. FlashBlocks - 1
  BY FlashAssumption, BoundsAssumption DEF Init
<1>5. pipe \in Pipes /\ state \in States /\ status \in Statuses
  BY DEF Init, Pipes, States, Statuses
<1>6. /\ {pin, use_timeout, virginity, touched, open, faultless} \subseteq BOOLEAN
  BY <1>3 DEF Init
<1>7. TypeOK
  BY <1>1, <1>4, <1>5, <1>6 DEF Init, TypeOK
<1>8. Placed /\ StatusHonest /\ TouchedNotVirgin
  BY DEF Init, Placed, StatusHonest, TouchedNotVirgin
<1>. QED  BY <1>2, <1>7, <1>8 DEF Inv

-----------------------------------------------------------------------------
(* The requests.  All but the writes end in the same way: the object has a *)
(* legal state and status that agree, and is no more virgin than before.   *)
Outcome ==
  /\ state' \in States /\ status' \in Statuses /\ virginity' \in BOOLEAN
  /\ virginity' => virginity
  /\ pipe' \in Pipes
  /\ state' # "APPDETACH" => (state' = "DFUERROR" <=> status' # "OK")

LEMMA SetOutcome ==
  ASSUME Inv, running = "dfu", state # "APPDETACH",
         NEW s \in States, NEW why \in Statuses \ {"OK"}
  PROVE  /\ error(why) => Outcome
         /\ state # "DFUERROR" /\ s # "DFUERROR" /\ Proceed(s) => Outcome
         /\ s = "APPDETACH" /\ Proceed(s) => Outcome
<1>0. /\ status \in Statuses /\ state \in States
      /\ (state = "DFUERROR" <=> status # "OK")
  BY DEF Inv, TypeOK, StatusHonest
<1>1. ASSUME error(why) PROVE Outcome
  BY <1>1, AnswerType DEF error, set_state, Answer, Outcome, States
<1>2. ASSUME Proceed(s), s = "APPDETACH" \/ (state # "DFUERROR" /\ s # "DFUERROR")
      PROVE  Outcome
  BY <1>0, <1>2, AnswerType DEF Proceed, set_state, Answer, Outcome
<1>. QED  BY <1>1, <1>2

Quiet_request ==
  \/ request_detach \/ dnload_end \/ dnload_refused \/ request_upload
  \/ request_getstatus \/ request_clrstatus \/ request_getstate \/ request_abort

LEMMA QuietOutcome == ASSUME Inv, Quiet_request PROVE Outcome
<1>. USE DEF Requested, States, Statuses
<1>0. /\ running = "dfu" /\ state # "APPDETACH" /\ status \in Statuses /\ state \in States
      /\ virginity \in BOOLEAN
      /\ (state = "DFUERROR" <=> status # "OK")
  BY DEF Quiet_request, Inv, TypeOK, StatusHonest, request_detach, dnload_end,
         dnload_refused, request_upload, request_getstatus, request_clrstatus,
         request_getstate, request_abort
<1>1. CASE request_detach
  BY <1>0, <1>1, SetOutcome DEF request_detach
<1>2. CASE dnload_end
  BY <1>0, <1>2, SetOutcome DEF dnload_end
<1>3. CASE dnload_refused
  BY <1>0, <1>3, SetOutcome DEF dnload_refused
<1>4. CASE request_upload
  BY <1>0, <1>4, SetOutcome DEF request_upload
<1>5. CASE request_getstatus
  BY <1>0, <1>5, AnswerType DEF request_getstatus, set_state, Answer, Outcome
<1>6. CASE request_clrstatus
  <2>1. CASE pipe.len = "zero" /\ state = "DFUERROR"
    BY <1>0, <1>6, <2>1, AnswerType DEF request_clrstatus, set_state, Answer, Outcome
  <2>2. CASE ~(pipe.len = "zero" /\ state = "DFUERROR")
    BY <1>0, <1>6, <2>2, SetOutcome DEF request_clrstatus
  <2>. QED  BY <2>1, <2>2
<1>7. CASE request_getstate
  <2>1. CASE pipe.len = "right"
    BY <1>0, <1>7, <2>1, AnswerType DEF request_getstate, Answer, Outcome
  <2>2. CASE pipe.len # "right"
    BY <1>0, <1>7, <2>2, SetOutcome DEF request_getstate
  <2>. QED  BY <2>1, <2>2
<1>8. CASE request_abort
  BY <1>0, <1>8, SetOutcome DEF request_abort
<1>. QED  BY <1>1, <1>2, <1>3, <1>4, <1>5, <1>6, <1>7, <1>8 DEF Quiet_request

(* The invariant after a request that leaves flash alone.                  *)
LEMMA QuietStep == ASSUME Inv, Quiet_request PROVE Inv'
<1>1. Outcome
  BY QuietOutcome
<1>2. UNCHANGED <<boot, open, tool, flash, touched, bounds>>
  BY DEF Quiet_request, Requested, NoFlash, request_detach, dnload_end,
         dnload_refused, request_upload, request_getstatus, request_clrstatus,
         request_getstate, request_abort
<1>3. TypeOK'
  BY <1>1, <1>2 DEF Inv, TypeOK, Outcome, boot, tool, bounds
<1>4. Placed' /\ BootKept'
  BY <1>2 DEF Inv, Placed, BootKept, tool
<1>5. StatusHonest' /\ TouchedNotVirgin'
  BY <1>1, <1>2 DEF Inv, StatusHonest, TouchedNotVirgin, Outcome, boot
<1>. QED  BY <1>3, <1>4, <1>5 DEF Inv

-----------------------------------------------------------------------------
(* The writes.  No sector that holds a writable block reaches down to the  *)
(* bootloader, because a sector begins where the bootloader ends.          *)
LEMMA Sectors ==
  ASSUME NEW a \in 0 .. BootBlocks - 1, NEW b \in Nat, write_permitted(b)
  PROVE  ~SameSector(a, b) /\ a # b
  BY FlashAssumption DEF write_permitted, SameSector

LEMMA ClearedKeeps ==
  ASSUME TypeOK, BootKept, NEW b \in Blocks, write_permitted(b)
  PROVE  /\ Cleared(b) \in [Blocks -> Contents]
         /\ \A a \in 0 .. BootBlocks - 1 : Cleared(b)[a] = "boot"
<1>1. flash \in [Blocks -> Contents]
  BY DEF TypeOK
<1>2. 0 .. BootBlocks - 1 \subseteq Blocks /\ b \in Nat
  BY FlashAssumption DEF Blocks
<1>3. Erased(flash, b) \in [Blocks -> Contents]
  BY <1>1 DEF Erased, Contents
<1>4. ASSUME NEW a \in 0 .. BootBlocks - 1 PROVE Erased(flash, b)[a] = "boot"
  <2>1. ~SameSector(a, b)
    BY <1>2, Sectors
  <2>. QED  BY <1>2, <2>1 DEF Erased, BootKept
<1>. QED  BY <1>1, <1>3, <1>4 DEF Cleared, BootKept

LEMMA WriteKeeps ==
  ASSUME TypeOK, BootKept, NEW b \in Blocks, write_permitted(b), NEW d \in Contents,
         NEW f, f \in {flash, Cleared(b), Programmed(Cleared(b), b, d),
                       [Cleared(b) EXCEPT ![b] = "mixed"]}
  PROVE  f \in [Blocks -> Contents] /\ \A a \in 0 .. BootBlocks - 1 : f[a] = "boot"
<1>1. /\ Cleared(b) \in [Blocks -> Contents]
      /\ \A a \in 0 .. BootBlocks - 1 : Cleared(b)[a] = "boot"
  BY ClearedKeeps
<1>2. flash \in [Blocks -> Contents] /\ \A a \in 0 .. BootBlocks - 1 : flash[a] = "boot"
  BY DEF TypeOK, BootKept
<1>3. b \notin 0 .. BootBlocks - 1 /\ b \in Blocks
  BY FlashAssumption DEF write_permitted, Blocks
<1>4. /\ 0 .. BootBlocks - 1 \subseteq Blocks /\ "mixed" \in Contents
  BY FlashAssumption DEF Blocks, Contents
<1>5. ASSUME NEW c \in Contents
      PROVE  /\ [Cleared(b) EXCEPT ![b] = c] \in [Blocks -> Contents]
             /\ \A a \in 0 .. BootBlocks - 1 : [Cleared(b) EXCEPT ![b] = c][a] = "boot"
  BY <1>1, <1>3, <1>4
<1>6. \E c \in Contents : Programmed(Cleared(b), b, d) = [Cleared(b) EXCEPT ![b] = c]
  BY <1>4 DEF Programmed
<1>. QED  BY <1>1, <1>2, <1>4, <1>5, <1>6

LEMMA WroteStep ==
  ASSUME Inv, Writes, NEW w, Wrote(w),
         w.flash \in [Blocks -> Contents], \A a \in 0 .. BootBlocks - 1 : w.flash[a] = "boot",
         lost' \in 0 .. MaxLost, faultless' \in BOOLEAN, UNCHANGED kills
  PROVE  Inv'
<1>1. /\ UNCHANGED <<boot, open, tool>> /\ running = "dfu" /\ state \in {"DFUIDLE", "DNLOAD_IDLE"}
  BY DEF Writes, Requested, DnloadAllowed
<1>2. Outcome /\ virginity' = FALSE
  <2>1. CASE w.ok
    <3>1. Proceed("DNLOAD_SYNC")
      BY <2>1 DEF Wrote
    <3>2. "DNLOAD_SYNC" \in States /\ "PROG" \in Statuses \ {"OK"} /\ state # "APPDETACH"
      BY <1>1 DEF States, Statuses
    <3>3. Outcome
      BY <1>1, <3>1, <3>2, SetOutcome
    <3>. QED  BY <3>1, <3>3 DEF Proceed, set_state
  <2>2. CASE ~w.ok
    <3>1. error("PROG")
      BY <2>2 DEF Wrote
    <3>2. "DFUERROR" \in States /\ "PROG" \in Statuses \ {"OK"} /\ state # "APPDETACH"
      BY <1>1 DEF States, Statuses
    <3>3. Outcome
      BY <1>1, <3>1, <3>2, SetOutcome
    <3>. QED  BY <3>1, <3>3 DEF error, set_state
  <2>. QED  BY <2>1, <2>2
<1>3. flash' = w.flash /\ touched' \in BOOLEAN
  BY DEF Wrote
<1>4. TypeOK'
  BY <1>1, <1>2, <1>3 DEF Inv, TypeOK, Outcome, boot, tool
<1>5. Placed' /\ BootKept'
  BY <1>1, <1>3 DEF Inv, Placed, BootKept, tool
<1>6. StatusHonest' /\ TouchedNotVirgin'
  BY <1>1, <1>2 DEF StatusHonest, TouchedNotVirgin, Outcome, boot
<1>. QED  BY <1>4, <1>5, <1>6 DEF Inv

LEMMA WriteFacts ==
  ASSUME Inv, Writes
  PROVE  /\ TypeOK /\ BootKept /\ write_permitted(pipe.block)
         /\ pipe.block \in 0 .. FlashBlocks /\ pipe.data \in Contents
         /\ flash \in [Blocks -> Contents] /\ \A a \in 0 .. BootBlocks - 1 : flash[a] = "boot"
         /\ lost \in 0 .. MaxLost /\ faultless \in BOOLEAN
  BY AskFields DEF Inv, TypeOK, BootKept, Writes, Requested

LEMMA DnloadBlockStep == ASSUME Inv, dnload_block PROVE Inv'
<1>1. Writes /\ lost' = lost /\ faultless' = faultless /\ kills' = kills
  BY DEF dnload_block, bounds
<1>2. CASE pipe.block \in Blocks
  <2>1. DEFINE w == WriteDone(pipe.block, pipe.data)
  <2>2. Wrote(w)
    BY <1>2 DEF dnload_block
  <2>3. w.flash \in [Blocks -> Contents] /\ \A a \in 0 .. BootBlocks - 1 : w.flash[a] = "boot"
    BY <1>1, <1>2, WriteFacts, WriteKeeps DEF WriteDone
  <2>. HIDE DEF w
  <2>. QED  BY <1>1, <2>2, <2>3, WriteFacts, WroteStep
<1>3. CASE pipe.block \notin Blocks
  <2>1. DEFINE w == [flash |-> flash, ok |-> FALSE]
  <2>2. Wrote(w) /\ w.flash = flash
    BY <1>3 DEF dnload_block
  <2>. HIDE DEF w
  <2>. QED  BY <1>1, <2>2, WriteFacts, WroteStep
<1>. QED  BY <1>2, <1>3

LEMMA DnloadFailsStep == ASSUME Inv, dnload_fails PROVE Inv'
<1>1. Writes /\ lost' \in 0 .. MaxLost /\ faultless' = FALSE /\ kills' = kills
  BY BoundsAssumption, WriteFacts DEF dnload_fails
<1>2. PICK w \in WriteFailed(pipe.block) : Wrote(w)
  BY DEF dnload_fails
<1>3. w.flash \in {flash, Cleared(pipe.block)} /\ pipe.block \in Blocks
  BY <1>2 DEF WriteFailed, dnload_fails
<1>4. w.flash \in [Blocks -> Contents] /\ \A a \in 0 .. BootBlocks - 1 : w.flash[a] = "boot"
  BY <1>1, <1>3, WriteFacts, ClearedKeeps
<1>. QED  BY <1>1, <1>2, <1>4, WroteStep

-----------------------------------------------------------------------------
(* The start of the bootloader, its ends and the power.                    *)
LEMMA OffBusType == ASSUME TypeOK, OffBus PROVE pipe' \in Pipes /\ open' = FALSE
  BY AnswerType DEF TypeOK, OffBus

LEMMA MainStep == ASSUME Inv, main PROVE Inv'
<1>1. /\ UNCHANGED <<bootloader_ctrl, pin, pipe, open, tool, bounds, flash>>
      /\ running' \in {"dfu", "app"} /\ use_timeout' \in BOOLEAN
  BY DEF main, dfu, Inv, TypeOK
<1>2. CASE running' = "dfu"
  <2>1. state' = "DFUIDLE" /\ status' = "OK" /\ virginity' = TRUE /\ touched' = FALSE
    BY <1>2 DEF main
  <2>2. TypeOK'
    BY <1>1, <2>1 DEF Inv, TypeOK, tool, bounds, States, Statuses
  <2>. QED  BY <1>1, <2>1, <2>2 DEF Inv, Placed, BootKept, StatusHonest, TouchedNotVirgin, tool
<1>3. CASE running' # "dfu"
  <2>1. UNCHANGED dfu
    BY <1>3 DEF main
  <2>2. TypeOK'
    BY <1>1, <2>1 DEF Inv, TypeOK, dfu, tool, bounds
  <2>. QED  BY <1>1, <1>3, <2>1, <2>2
            DEF Inv, Placed, BootKept, StatusHonest, TouchedNotVirgin, tool, dfu
<1>. QED  BY <1>2, <1>3

LEMMA LeavesStep ==
  ASSUME Inv, OffBus, running' \in {"reset", "off"}, bootloader_ctrl' \in {"none", "DFU_MODE"},
         faultless' \in BOOLEAN, flash' \in [Blocks -> Contents],
         \A a \in 0 .. BootBlocks - 1 : flash'[a] = "boot",
         UNCHANGED <<pin, use_timeout, state, status, virginity, touched, tool, lost, kills>>
  PROVE  Inv'
<1>1. TypeOK'
  BY OffBusType DEF Inv, TypeOK, tool
<1>. QED  BY <1>1 DEF Inv, Placed, BootKept, StatusHonest, TouchedNotVirgin, tool

LEMMA EndsStep ==
  ASSUME Inv, run_bootloader_ends \/ Unplug \/ UnplugInWrite PROVE Inv'
<1>0. /\ flash \in [Blocks -> Contents] /\ \A a \in 0 .. BootBlocks - 1 : flash[a] = "boot"
      /\ bootloader_ctrl \in {"none", "DFU_MODE"} /\ faultless \in BOOLEAN
  BY DEF Inv, TypeOK, BootKept
<1>1. CASE run_bootloader_ends
  BY <1>0, <1>1, LeavesStep DEF run_bootloader_ends, bootloader_ctrl_after, dfu, bounds
<1>2. CASE Unplug
  BY <1>0, <1>2, LeavesStep DEF Unplug, dfu
<1>3. CASE UnplugInWrite
  <2>1. pipe.block \in Blocks /\ write_permitted(pipe.block) /\ pipe.data \in Contents
    BY <1>3, AskFields DEF UnplugInWrite, Inv, TypeOK
  <2>2. flash' \in [Blocks -> Contents] /\ \A a \in 0 .. BootBlocks - 1 : flash'[a] = "boot"
    BY <1>3, <2>1, WriteKeeps DEF UnplugInWrite, Inv
  <2>. QED  BY <1>3, <2>2, LeavesStep DEF UnplugInWrite
<1>. QED  BY <1>1, <1>2, <1>3

(* Steps that change neither the DFU object nor where the tool stands.     *)
LEMMA OutsideStep ==
  ASSUME Inv, LoseTransfer \/ OtherRequest \/ DropAnswer \/ Plug \/ Jumper PROVE Inv'
<1>0. pin \in BOOLEAN /\ lost \in 0 .. MaxLost /\ faultless \in BOOLEAN
  BY DEF Inv, TypeOK
<1>1. /\ UNCHANGED <<dfu, tool, bootloader_ctrl, use_timeout, open, kills>>
      /\ running' = running \/ (running = "off" /\ running' = "reset")
      /\ pin' \in BOOLEAN /\ lost' \in 0 .. MaxLost /\ faultless' \in BOOLEAN
  <2>1. CASE LoseTransfer
    <3>1. lost < MaxLost /\ lost' = lost + 1 /\ faultless' = FALSE
      BY <2>1 DEF LoseTransfer, Fault
    <3>2. lost' \in 0 .. MaxLost
      BY <1>0, <3>1, BoundsAssumption
    <3>3. UNCHANGED <<dfu, boot, open, tool, kills>>
      BY <2>1 DEF LoseTransfer, Fault
    <3>4. pin' \in BOOLEAN
      BY <1>0, <3>3 DEF boot
    <3>. QED  BY <3>1, <3>2, <3>3, <3>4 DEF boot
  <2>2. CASE OtherRequest \/ DropAnswer
    BY <1>0, <2>2 DEF OtherRequest, DropAnswer, boot, bounds
  <2>3. CASE Plug
    BY <1>0, <2>3 DEF Plug, bounds
  <2>4. CASE Jumper
    <3>1. pin' \in BOOLEAN
      BY <2>4 DEF Jumper
    <3>. QED  BY <1>0, <2>4, <3>1 DEF Jumper, bounds
  <2>. QED  BY <2>1, <2>2, <2>3, <2>4
<1>2. pipe' \in Pipes
  <2>1. CASE OtherRequest
    <3>1. PICK op \in Ops, len \in Lengths, b \in OtherBlocks : pipe' = Asks(op, len, b, "old")
      BY <2>1 DEF OtherRequest
    <3>2. b \in 0 .. FlashBlocks /\ "old" \in Contents
      BY BoundsAssumption DEF Contents
    <3>. QED  BY <3>1, <3>2, AskType
  <2>2. CASE LoseTransfer \/ DropAnswer \/ Plug \/ Jumper
    BY <2>2, AnswerType DEF LoseTransfer, DropAnswer, Plug, Jumper, Inv, TypeOK
  <2>. QED  BY <2>1, <2>2
<1>3. TypeOK'
  BY <1>1, <1>2 DEF Inv, TypeOK, dfu, tool
<1>. QED  BY <1>1, <1>3 DEF Inv, Placed, BootKept, StatusHonest, TouchedNotVirgin, dfu, tool

-----------------------------------------------------------------------------
(* The tool.                                                               *)
LEMMA ToolStep ==
  ASSUME Inv, UNCHANGED <<dfu, pin, use_timeout>>,
         running' = running \/ (running = "app" /\ running' = "reset"),
         bootloader_ctrl' \in {"none", "DFU_MODE"},
         pipe' \in Pipes, open' \in BOOLEAN, asked' \in Asked \cup {<<>>},
         todo' \in Orders \cup {<<>>}, pc' = "idle" <=> todo' = <<>>,
         pc' \in {"idle", "find", "wait", "get_state", "abort", "clear", "check", "detach",
                 "dnload", "get_status", "upload"},
         block' \in BootBlocks .. FlashBlocks - 1, result' \in {"none", "ok", "failed"},
         lost' \in 0 .. MaxLost, kills' \in 0 .. MaxKills, faultless' \in BOOLEAN, Placed'
  PROVE  Inv'
<1>1. TypeOK'
  BY DEF Inv, TypeOK, dfu
<1>. QED  BY <1>1 DEF Inv, BootKept, StatusHonest, TouchedNotVirgin, dfu

(* What most of its steps leave alone, and the three ways they go on.      *)
LEMMA QuietToolStep ==
  ASSUME Inv, Quiet, pipe' \in Pipes, open' \in BOOLEAN, UNCHANGED asked,
         todo' \in Orders \cup {<<>>}, pc' = "idle" <=> todo' = <<>>,
         pc' \in {"idle", "find", "wait", "get_state", "abort", "clear", "check", "detach",
                 "dnload", "get_status", "upload"},
         block' \in BootBlocks .. FlashBlocks - 1, result' \in {"none", "ok", "failed"}, Placed'
  PROVE  Inv'
<1>1. /\ lost \in 0 .. MaxLost /\ kills \in 0 .. MaxKills /\ faultless \in BOOLEAN
      /\ bootloader_ctrl \in {"none", "DFU_MODE"} /\ asked \in Asked \cup {<<>>}
  BY DEF Inv, TypeOK
<1>2. UNCHANGED <<dfu, pin, use_timeout, running, bootloader_ctrl, lost, kills, faultless>>
  BY DEF Quiet, boot, bounds
<1>. QED  BY <1>1, <1>2, ToolStep

LEMMA EndStep ==
  ASSUME Inv, Quiet, pipe' \in Pipes, UNCHANGED open, NEW r \in {"ok", "failed"}, End(r)
  PROVE  Inv'
<1>1. block \in BootBlocks .. FlashBlocks - 1 /\ open \in BOOLEAN
  BY DEF Inv, TypeOK
<1>2. Placed'
  BY DEF Placed, End
<1>. QED  BY <1>1, <1>2, QuietToolStep DEF End

LEMMA GotoStep ==
  ASSUME Inv, Quiet, pipe' \in Pipes, UNCHANGED open, pc # "idle",
         NEW p \in Calls, Goto(p),
         p \in {"get_state", "abort", "clear"} => block = BootBlocks,
         p \in {"dnload", "get_status"} => block \in BootBlocks .. BootBlocks + Len(Image) - 1,
         p = "upload" => block \in BootBlocks .. UploadEnd - 1
  PROVE  Inv'
<1>1. /\ block \in BootBlocks .. FlashBlocks - 1 /\ open \in BOOLEAN
      /\ result \in {"none", "ok", "failed"}
      /\ todo \in Orders \cup {<<>>} /\ todo # <<>>
  BY DEF Inv, TypeOK
<1>2. Placed'
  BY DEF Placed, Goto, Calls
<1>. QED  BY <1>1, <1>2, QuietToolStep DEF Goto, Calls

LEMMA OrdersNotEmpty == <<>> \notin Orders
  BY DEF Orders

LEMMA NextFunctionStep ==
  ASSUME Inv, Quiet, pipe' \in Pipes, UNCHANGED open, pc # "idle", Next_function
  PROVE  Inv'
<1>1. /\ open \in BOOLEAN /\ result \in {"none", "ok", "failed"} /\ todo \in Orders
  BY DEF Inv, TypeOK
<1>2. CASE Len(todo) = 1
  BY <1>2, EndStep DEF Next_function
<1>3. CASE Len(todo) # 1
  <2>1. todo' \in Orders /\ todo' # <<>>
    BY <1>1, <1>3, TailOrders, OrdersNotEmpty DEF Next_function
  <2>2. pc' = "get_state" /\ block' = BootBlocks /\ UNCHANGED <<asked, result>>
    BY <1>3 DEF Next_function
  <2>3. BootBlocks \in BootBlocks .. FlashBlocks - 1
    BY FlashAssumption
  <2>4. Placed'
    BY <2>2 DEF Placed
  <2>. QED  BY <1>1, <2>1, <2>2, <2>3, <2>4, QuietToolStep
<1>. QED  BY <1>2, <1>3
LEMMA StartStep == ASSUME Inv, Start PROVE Inv'
<1>1. PICK a \in Asked : asked' = a /\ todo' = a
  BY DEF Start
<1>2. asked' \in Asked \cup {<<>>} /\ todo' \in Orders /\ todo' # <<>>
  BY <1>1, AskedAssumption, OrdersNotEmpty
<1>3. /\ block' = BootBlocks /\ block' \in BootBlocks .. FlashBlocks - 1
      /\ pc' = "find" /\ result' = "none" /\ faultless' = TRUE
      /\ UNCHANGED <<dfu, boot, pipe, open, lost, kills>>
  BY FlashAssumption DEF Start
<1>4. Placed'
  BY <1>3 DEF Placed
<1>. QED  BY <1>2, <1>3, <1>4, ToolStep DEF Inv, TypeOK, boot

LEMMA FindStep == ASSUME Inv, FindDfu \/ NotFound \/ cmd_flash \/ Killed PROVE Inv'
<1>1. CASE FindDfu
  <2>1. /\ Quiet /\ UNCHANGED pipe /\ open' = TRUE /\ pc' = "get_state"
        /\ UNCHANGED <<todo, asked, block, result>> /\ pc \in {"find", "wait"}
    BY <1>1 DEF FindDfu, Opens
  <2>2. Placed'
    BY <2>1 DEF Inv, Placed
  <2>3. pipe' \in Pipes /\ todo' \in Orders /\ todo' # <<>>
    BY <2>1 DEF Inv, TypeOK
  <2>. QED  BY <2>1, <2>2, <2>3, QuietToolStep DEF Inv, TypeOK
<1>2. CASE NotFound
  BY <1>2, EndStep DEF NotFound, Inv, TypeOK
<1>3. CASE cmd_flash
  <2>1. /\ pc = "find" /\ pc' = "wait"
        /\ UNCHANGED <<dfu, pipe, open, todo, asked, block, result, pin, use_timeout, kills>>
        /\ running' = running \/ (running = "app" /\ running' = "reset")
    BY <1>3 DEF cmd_flash, boot, bounds, Fault
  <2>2. /\ bootloader_ctrl' \in {"none", "DFU_MODE"} /\ lost' \in 0 .. MaxLost
        /\ faultless' \in BOOLEAN
    <3>1. lost \in 0 .. MaxLost /\ faultless \in BOOLEAN
          /\ bootloader_ctrl \in {"none", "DFU_MODE"}
      BY DEF Inv, TypeOK
    <3>2. CASE Fault /\ UNCHANGED boot
      <4>1. lost' = lost + 1 /\ lost < MaxLost /\ faultless' = FALSE
        BY <3>2 DEF Fault
      <4>2. lost' \in 0 .. MaxLost
        BY <3>1, <4>1, BoundsAssumption
      <4>. QED  BY <3>1, <3>2, <4>1, <4>2 DEF boot
    <3>3. CASE bootloader_ctrl' = "DFU_MODE" /\ UNCHANGED bounds
      BY <3>1, <3>3 DEF bounds
    <3>. QED  BY <1>3, <3>2, <3>3 DEF cmd_flash
  <2>3. Placed'
    BY <2>1 DEF Inv, Placed
  <2>4. todo' \in Orders /\ todo' # <<>>
    BY <2>1 DEF Inv, TypeOK
  <2>. QED  BY <2>1, <2>2, <2>3, <2>4, ToolStep DEF Inv, TypeOK
<1>4. CASE Killed
  <2>1. kills' \in 0 .. MaxKills
    BY <1>4, BoundsAssumption DEF Killed, Inv, TypeOK
  <2>2. Placed'
    BY <1>4 DEF Killed, End, Placed
  <2>3. UNCHANGED <<dfu, boot, pipe, open, lost, faultless>> /\ End("failed")
    BY <1>4 DEF Killed
  <2>. QED  BY <2>1, <2>2, <2>3, ToolStep DEF Inv, TypeOK, boot, End
<1>. QED  BY <1>1, <1>2, <1>3, <1>4

(* The block a call names is one of the part, and its data are a content.  *)
LEMMA CallType == ASSUME Inv, pc \in Calls PROVE Call \in Pipes
<1>1. block \in BootBlocks .. FlashBlocks - 1 /\ block \in 0 .. FlashBlocks /\ 0 \in 0 .. FlashBlocks
  BY FlashAssumption DEF Inv, TypeOK
<1>2. {"zero", "right"} \subseteq Lengths /\ Ops \subseteq Ops
  BY DEF Lengths
<1>3. CASE pc = "dnload"
  <2>1. block \in BootBlocks .. BootBlocks + Len(Image) - 1
    BY <1>3 DEF Inv, Placed
  <2>2. block - BootBlocks + 1 \in 1 .. Len(Image) /\ DOMAIN Image = 1 .. Len(Image)
    BY <2>1, FlashAssumption
  <2>3. Image[block - BootBlocks + 1] \in Contents
    BY <2>2 DEF Contents
  <2>4. Call = Asks("DNLOAD", "right", block, Image[block - BootBlocks + 1])
    BY <1>3 DEF Call
  <2>. QED  BY <1>1, <1>2, <2>3, <2>4, AskType DEF Ops
<1>4. CASE pc # "dnload"
  <2>1. PICK op \in Ops \ {"DNLOAD"}, len \in Lengths, b \in 0 .. FlashBlocks :
          Call = Asks(op, len, b, "none")
    <3>1. CASE pc \in {"get_state", "check"}
      BY <1>1, <3>1 DEF Call, Ops, Lengths
    <3>2. CASE pc = "abort"
      BY <1>1, <3>2 DEF Call, Ops, Lengths
    <3>3. CASE pc = "clear"
      BY <1>1, <3>3 DEF Call, Ops, Lengths
    <3>4. CASE pc = "detach"
      BY <1>1, <3>4 DEF Call, Ops, Lengths
    <3>5. CASE pc = "get_status"
      BY <1>1, <3>5 DEF Call, Ops, Lengths
    <3>6. CASE pc = "upload"
      BY <1>1, <3>6 DEF Call, Ops, Lengths
    <3>. QED  BY <1>4, <3>1, <3>2, <3>3, <3>4, <3>5, <3>6 DEF Calls
  <2>. QED  BY <2>1, AskType
<1>. QED  BY <1>3, <1>4

LEMMA AskStep == ASSUME Inv, Ask PROVE Inv'
<1>1. pc \in Calls
  BY DEF Ask, Calls, Inv, TypeOK
<1>2. pipe' \in Pipes
  BY <1>1, CallType, AnswerType DEF Ask
<1>3. UNCHANGED <<open, tool>> /\ Quiet
  BY DEF Ask
<1>4. Placed'
  BY <1>3 DEF Inv, Placed, tool
<1>. QED  BY <1>2, <1>3, <1>4, QuietToolStep DEF Inv, TypeOK, tool

LEMMA AnsweredFacts ==
  ASSUME NEW p \in Calls, Answered(p)
  PROVE  pc = p /\ pc # "idle" /\ pipe' \in Pipes /\ Quiet /\ UNCHANGED open
  BY AnswerType DEF Answered, Calls

LEMMA AnswerStep ==
  ASSUME Inv, \/ enter_dfu_mode \/ dfu_abort \/ dfu_clear_status \/ detach \/ upload
              \/ download \/ dfu_get_status
  PROVE  Inv'
<1>0. /\ BootBlocks \in BootBlocks .. BootBlocks + Len(Image) - 1
      /\ BootBlocks \in BootBlocks .. UploadEnd - 1
  BY FlashAssumption
<1>. USE DEF Calls
<1>1. CASE enter_dfu_mode
  <2>1. Answered("get_state") /\ block = BootBlocks
    BY <1>1 DEF enter_dfu_mode, Answered, Inv, Placed
  <2>2. AfterState(pipe.state) \in {"get_state", "abort", "clear", "dnload", "check", "upload"}
    BY DEF AfterState, FirstCall
  <2>3. PICK p \in {"get_state", "abort", "clear", "dnload", "check", "upload"} : Goto(p)
    BY <1>1, <2>2 DEF enter_dfu_mode
  <2>. QED  BY <1>0, <2>1, <2>3, AnsweredFacts, GotoStep
<1>2. CASE dfu_abort
  <2>1. Answered("abort") /\ block = BootBlocks
    BY <1>2 DEF dfu_abort, Answered, Inv, Placed
  <2>2. Goto("get_state") \/ Next_function \/ End("failed")
    BY <1>2 DEF dfu_abort
  <2>. QED  BY <2>1, <2>2, AnsweredFacts, GotoStep, NextFunctionStep, EndStep
<1>3. CASE dfu_clear_status
  <2>1. Answered("clear") /\ block = BootBlocks /\ Goto("get_state")
    BY <1>3 DEF dfu_clear_status, Answered, Inv, Placed
  <2>. QED  BY <2>1, AnsweredFacts, GotoStep
<1>4. CASE detach
  <2>1. Answered("check") \/ Answered("detach")
    BY <1>4 DEF detach
  <2>2. Goto("detach") \/ Next_function
    BY <1>4 DEF detach
  <2>. QED  BY <2>1, <2>2, AnsweredFacts, GotoStep, NextFunctionStep
<1>5. CASE upload
  <2>1. Answered("upload")
    BY <1>5 DEF upload
  <2>2. CASE End("failed") \/ Next_function
    BY <2>1, <2>2, AnsweredFacts, NextFunctionStep, EndStep
  <2>3. CASE block + 1 # UploadEnd /\ block' = block + 1 /\ UNCHANGED <<pc, todo, asked, result>>
    <3>1. block \in BootBlocks .. UploadEnd - 1 /\ pc = "upload"
      BY <2>1 DEF Answered, Inv, Placed
    <3>2. block' \in BootBlocks .. UploadEnd - 1
      BY <2>3, <3>1, FlashAssumption
    <3>3. block' \in BootBlocks .. FlashBlocks - 1
      BY <3>2, FlashAssumption
    <3>4. Placed'
      BY <2>3, <3>1, <3>2 DEF Placed
    <3>. QED  BY <2>1, <2>3, <3>3, <3>4, AnsweredFacts, QuietToolStep DEF Inv, TypeOK
  <2>. QED  BY <1>5, <2>2, <2>3 DEF upload
<1>6. CASE download
  <2>1. Answered("dnload") /\ block \in BootBlocks .. BootBlocks + Len(Image) - 1
    BY <1>6 DEF download, Answered, Inv, Placed
  <2>2. End("failed") \/ Goto("get_status")
    BY <1>6 DEF download
  <2>. QED  BY <2>1, <2>2, AnsweredFacts, GotoStep, EndStep
<1>7. CASE dfu_get_status
  <2>1. Answered("get_status") /\ block \in BootBlocks .. BootBlocks + Len(Image) - 1
    BY <1>7 DEF dfu_get_status, Answered, Inv, Placed
  <2>2. CASE Next_function
    BY <2>1, <2>2, AnsweredFacts, NextFunctionStep
  <2>3. CASE /\ block + 1 # BootBlocks + Len(Image)
             /\ block' = block + 1 /\ pc' = "dnload" /\ UNCHANGED <<todo, asked, result>>
    <3>1. Len(Image) \in Nat
      BY FlashAssumption
    <3>2. block' \in BootBlocks .. BootBlocks + Len(Image) - 1
      BY <2>1, <2>3, <3>1, FlashAssumption
    <3>3. block' \in BootBlocks .. FlashBlocks - 1
      BY <3>1, <3>2, FlashAssumption
    <3>4. Placed'
      BY <2>3, <3>2 DEF Placed
    <3>5. todo \in Orders /\ todo # <<>>
      BY <2>1, AnsweredFacts DEF Inv, TypeOK
    <3>. QED  BY <2>1, <2>3, <3>3, <3>4, <3>5, AnsweredFacts, QuietToolStep DEF Inv, TypeOK
  <2>. QED  BY <1>7, <2>2, <2>3 DEF dfu_get_status
<1>. QED  BY <1>1, <1>2, <1>3, <1>4, <1>5, <1>6, <1>7

-----------------------------------------------------------------------------
(* Inv is an invariant.                                                    *)
LEMMA InvNext == Inv /\ [Next]_vars => Inv'
<1>. SUFFICES ASSUME Inv, [Next]_vars PROVE Inv'
  OBVIOUS
<1>1. CASE Device
  BY <1>1, MainStep, QuietStep, DnloadBlockStep, DnloadFailsStep, EndsStep
     DEF Device, request_handler, Quiet_request, run_bootloader_detached
<1>2. CASE Tool
  BY <1>2, FindStep, AskStep, AnswerStep DEF Tool
<1>3. CASE User
  BY <1>3, StartStep, FindStep, EndsStep, OutsideStep DEF User
<1>4. CASE run_bootloader_timeout \/ LoseTransfer \/ DropAnswer
  BY <1>4, EndsStep, OutsideStep DEF run_bootloader_timeout
<1>5. CASE UNCHANGED vars
  BY <1>5 DEF vars, dfu, boot, tool, bounds, Inv, TypeOK, Placed, BootKept, StatusHonest,
              TouchedNotVirgin
<1>. QED  BY <1>1, <1>2, <1>3, <1>4, <1>5 DEF Next

(* The state of bootloader, pipe and tool keeps its type, and every block  *)
(* the tool names lies in the part.                                        *)
THEOREM TypeCorrect == Spec => []TypeOK
<1>1. Inv => TypeOK
  BY DEF Inv
<1>. QED  BY <1>1, InvInit, InvNext, PTL DEF Spec

(* Whatever flash layout whose sectors begin where the bootloader ends, no *)
(* request, fault or loss of power changes a block of the bootloader.      *)
THEOREM BootKeptHolds == Spec => []BootKept
<1>1. Inv => BootKept
  BY DEF Inv
<1>. QED  BY <1>1, InvInit, InvNext, PTL DEF Spec

(* The reported status is an error exactly in DFUERROR, and a device whose *)
(* flash was changed is past the jumper's timeout.                         *)
THEOREM StatusHolds == Spec => [](StatusHonest /\ TouchedNotVirgin)
<1>1. Inv => StatusHonest /\ TouchedNotVirgin
  BY DEF Inv
<1>. QED  BY <1>1, InvInit, InvNext, PTL DEF Spec

-----------------------------------------------------------------------------
(* A download without faults writes the whole image.  First, what the      *)
(* order of the functions says of those left.                              *)
LEMMA OrderFacts ==
  ASSUME NEW t \in Orders
  PROVE  /\ Head(t) \in {"upload", "download", "reset"}
         /\ Len(t) = 1 => \A i \in DOMAIN t : t[i] = Head(t)
         /\ Head(t) = "reset" => Len(t) = 1
         /\ Head(t) = "download" /\ Len(t) # 1 => Tail(t) = <<"reset">>
         /\ Head(t) = "upload" /\ Len(t) # 1 =>
              \/ Tail(t) = <<"reset">> /\ \A i \in DOMAIN t : t[i] # "download"
              \/ Tail(t)[1] = "download" /\ 1 \in DOMAIN Tail(t) /\ Head(Tail(t)) = "download"
<1>1. CASE t \in {<<"upload">>, <<"download">>, <<"reset">>}
  BY <1>1
<1>2. CASE t = <<"upload", "download">>
  BY <1>2
<1>3. CASE t = <<"upload", "reset">>
  BY <1>3
<1>4. CASE t = <<"download", "reset">>
  BY <1>4
<1>5. CASE t = <<"upload", "download", "reset">>
  BY <1>5
<1>. QED  BY <1>1, <1>2, <1>3, <1>4, <1>5 DEF Orders

DInv == Inv /\ Joined /\ DownloadInv

LEMMA DInvInit == Init => DInv
<1>1. Init => Joined
  BY DEF Init, Joined, Calls
<1>2. Init => DownloadInv
  BY DEF Init, DownloadInv
<1>. QED  BY <1>1, <1>2, InvInit DEF DInv

(* A write without a fault: the block is blank when it is programmed, and  *)
(* what is left of its sector stays blank.                                 *)
LEMMA UptoWrite ==
  ASSUME TypeOK, NEW b \in BootBlocks .. BootBlocks + Len(Image) - 1, Upto(flash, b),
         flash' = Programmed(Cleared(b), b, Image[b - BootBlocks + 1])
  PROVE  Upto(flash', b + 1)
<1>1. /\ b \in Blocks /\ b \in Nat /\ BootBlocks \in Nat /\ Len(Image) \in Nat
      /\ \A c \in Blocks : c \in Nat
      /\ SectorStarts \subseteq Nat /\ BootBlocks \in SectorStarts
  BY FlashAssumption DEF Blocks
<1>2. flash \in [Blocks -> Contents]
  BY DEF TypeOK
<1>3. /\ Cleared(b) \in [Blocks -> Contents]
      /\ \A c \in Blocks : c >= b /\ SameSector(c, b) => Cleared(b)[c] = "blank"
      /\ \A c \in Blocks : c < b /\ c >= BootBlocks => Cleared(b)[c] = flash[c]
  <2>1. CASE b \in SectorStarts
    <3>1. Cleared(b) = [a \in Blocks |-> IF SameSector(a, b) THEN "blank" ELSE flash[a]]
      BY <2>1 DEF Cleared, at_sector_boundary, Erased
    <3>2. \A c \in Blocks : c < b => ~SameSector(c, b)
      BY <1>1, <2>1 DEF SameSector
    <3>. QED  BY <1>2, <3>1, <3>2 DEF Contents
  <2>2. CASE b \notin SectorStarts
    BY <1>2, <2>2 DEF Cleared, at_sector_boundary, Upto
  <2>. QED  BY <2>1, <2>2
<1>4. Cleared(b)[b] = "blank"
  <2>1. SameSector(b, b) /\ b >= b
    BY <1>1 DEF SameSector
  <2>. QED  BY <1>1, <1>3, <2>1
<1>5. flash' = [Cleared(b) EXCEPT ![b] = Image[b - BootBlocks + 1]]
  <2>1. flash' = [Cleared(b) EXCEPT ![b] = IF Cleared(b)[b] = "blank"
                                           THEN Image[b - BootBlocks + 1] ELSE "mixed"]
    BY DEF Programmed
  <2>. QED  BY <1>4, <2>1
<1>6. ASSUME NEW i \in 1 .. b + 1 - BootBlocks
      PROVE  flash'[BootBlocks + i - 1] = Image[i]
  <2>1. CASE i = b - BootBlocks + 1
    BY <1>1, <1>3, <1>5, <2>1
  <2>2. CASE i # b - BootBlocks + 1
    <3>1. i \in 1 .. b - BootBlocks /\ BootBlocks + i - 1 < b /\ BootBlocks + i - 1 >= BootBlocks
      BY <1>1, <2>2
    <3>2. BootBlocks + i - 1 \in Blocks /\ BootBlocks + i - 1 # b
      BY <1>1, <3>1, FlashAssumption DEF Blocks
    <3>3. flash[BootBlocks + i - 1] = Image[i]
      BY <3>1 DEF Upto
    <3>. QED  BY <1>3, <1>5, <3>1, <3>2, <3>3
  <2>. QED  BY <2>1, <2>2
<1>7. ASSUME b + 1 \notin SectorStarts, NEW c \in Blocks, c >= b + 1, SameSector(c, b + 1)
      PROVE  flash'[c] = "blank"
  <2>1. SameSector(c, b)
    <3>1. \A s \in SectorStarts : b + 1 >= s <=> b >= s
      BY <1>1, <1>7
    <3>. QED  BY <1>7, <3>1 DEF SameSector
  <2>2. c # b /\ c >= b
    BY <1>1, <1>7
  <2>. QED  BY <1>3, <1>5, <2>1, <2>2
<1>8. \A i \in 1 .. b + 1 - BootBlocks : flash'[BootBlocks + i - 1] = Image[i]
  BY <1>6
<1>9. b + 1 \notin SectorStarts =>
        \A c \in Blocks : c >= b + 1 /\ SameSector(c, b + 1) => flash'[c] = "blank"
  BY <1>7
<1>10. ASSUME NEW n, n = b + 1 PROVE Upto(flash', n)
  <2>1. \A i \in 1 .. n - BootBlocks : flash'[BootBlocks + i - 1] = Image[i]
    BY <1>1, <1>8, <1>10
  <2>2. n \notin SectorStarts =>
          \A c \in Blocks : c >= n /\ SameSector(c, n) => flash'[c] = "blank"
    BY <1>9, <1>10
  <2>. QED  BY <2>1, <2>2, Zenon DEF Upto
<1>. QED  BY <1>10

LEMMA UptoStart == Upto(flash, BootBlocks)
  BY FlashAssumption DEF Upto

LEMMA UptoEnd == Upto(flash, BootBlocks + Len(Image)) => Written(flash)
  BY FlashAssumption DEF Upto, Written
-----------------------------------------------------------------------------
(* Joined and DownloadInv, step by step.                                   *)
Joint == Joined /\ DownloadInv

LEMMA JointIdle ==
  ASSUME DInv, pc' = "idle", open' => running' = "dfu" PROVE Joint'
  BY DEF Joint, Joined, DownloadInv, Calls

LEMMA JointLeaves ==
  ASSUME DInv, OffBus, UNCHANGED <<tool, state>>,
         faultless' = FALSE \/ (faultless' = faultless /\ flash' = flash)
  PROVE  Joint'
<1>1. open' = FALSE /\ pipe' = IF pipe.phase = "ask" THEN NoAnswer ELSE pipe
  BY DEF OffBus
<1>2. NoAnswer.phase = "answer" /\ NoAnswer.rv = "error" /\ Idle.phase = "idle"
  BY DEF NoAnswer, Answers, Idle
<1>3. Joined'
  BY <1>1, <1>2 DEF DInv, Joined, tool, AskedFor, Left, Calls
<1>4. DownloadInv'
  BY <1>1, <1>2 DEF DInv, DownloadInv, tool, AskedFor, Written, Upto
<1>. QED  BY <1>3, <1>4 DEF Joint

LEMMA JointEnds ==
  ASSUME DInv, run_bootloader_ends \/ Unplug \/ UnplugInWrite PROVE Joint'
  BY JointLeaves DEF run_bootloader_ends, Unplug, UnplugInWrite, dfu, bounds

LEMMA JointMain == ASSUME DInv, main PROVE Joint'
<1>1. /\ open = FALSE
      /\ UNCHANGED <<pipe, open, tool, faultless, flash>>
  BY DEF main, DInv, Joined, dfu, bounds, Inv, TypeOK
<1>2. Joined'
  BY <1>1 DEF DInv, Joined, tool, AskedFor, Left, Calls, Call
<1>3. DownloadInv'
  BY <1>1 DEF DInv, DownloadInv, tool, AskedFor, Written, Upto
<1>. QED  BY <1>2, <1>3 DEF Joint

LEMMA JointOutside ==
  ASSUME DInv, LoseTransfer \/ OtherRequest \/ DropAnswer \/ Plug \/ Jumper PROVE Joint'
<1>1. CASE LoseTransfer
  <2>1. /\ UNCHANGED <<dfu, boot, open, tool>> /\ faultless' = FALSE /\ pipe' = NoAnswer
        /\ pipe # Idle
    BY <1>1 DEF LoseTransfer, Fault
  <2>2. NoAnswer.phase = "answer" /\ NoAnswer.rv = "error"
    BY DEF NoAnswer, Answers
  <2>3. Joined'
    BY <2>1, <2>2 DEF DInv, Joined, tool, boot, AskedFor, Left
  <2>. QED  BY <2>1, <2>3 DEF Joint, DownloadInv
<1>2. CASE OtherRequest \/ DropAnswer
  BY <1>2, JointIdle DEF OtherRequest, DropAnswer, tool, boot, DInv, Joined
<1>3. CASE Plug \/ Jumper
  <2>1. /\ UNCHANGED <<dfu, pipe, open, tool, bounds>>
        /\ running' = running \/ (running = "off" /\ running' = "reset")
    BY <1>3 DEF Plug, Jumper
  <2>2. Joined'
    BY <2>1 DEF DInv, Joined, tool, dfu, bounds, AskedFor, Left, Call
  <2>3. DownloadInv'
    BY <2>1 DEF DInv, DownloadInv, DnloadAllowed, tool, dfu, bounds, AskedFor, Written, Upto
  <2>. QED  BY <2>2, <2>3 DEF Joint
<1>. QED  BY <1>1, <1>2, <1>3

(* A request of the tool is the call it waits in.                          *)
LEMMA RequestFacts ==
  ASSUME DInv, NEW op, Requested(op), pc # "idle"
  PROVE  pc \in Calls /\ pipe = Call /\ open /\ Call.op = op
  BY DEF Requested, DInv, Joined, Inv, TypeOK, Calls, Idle

LEMMA CallOps ==
  ASSUME pc \in Calls
  PROVE  /\ Call.op = "DNLOAD" <=> pc = "dnload"
         /\ Call.op = "GETSTATUS" <=> pc = "get_status"
         /\ pc = "dnload" => /\ Call.len = "right" /\ Call.block = block
                             /\ Call.data = Image[block - BootBlocks + 1]
         /\ pc = "get_status" => Call.len = "right"
<1>1. CASE pc \in {"get_state", "check"}
  BY <1>1 DEF Call, Asks
<1>2. CASE pc = "abort"
  BY <1>2 DEF Call, Asks
<1>3. CASE pc = "clear"
  BY <1>3 DEF Call, Asks
<1>4. CASE pc = "detach"
  BY <1>4 DEF Call, Asks
<1>5. CASE pc = "dnload"
  BY <1>5 DEF Call, Asks
<1>6. CASE pc = "get_status"
  BY <1>6 DEF Call, Asks
<1>7. CASE pc = "upload"
  BY <1>7 DEF Call, Asks
<1>. QED  BY <1>1, <1>2, <1>3, <1>4, <1>5, <1>6, <1>7 DEF Calls

LEMMA AnswerFields ==
  ASSUME NEW a, NEW s
  PROVE  Answers(a, s).phase = "answer" /\ Answers(a, s).rv = a /\ Answers(a, s).state = s
  BY DEF Answers

(* What remains to be shown of a request once it has been answered.        *)
LEMMA JointAnswered ==
  ASSUME DInv, NEW op, Requested(op), pc # "idle", NEW ok \in BOOLEAN, Answer(ok),
         faultless' => faultless,
         faultless' /\ op # "DNLOAD" => flash' = flash,
         faultless' /\ op = "DNLOAD" =>
           ok /\ Upto(flash', block + 1) /\ state' = "DNLOAD_SYNC",
         op = "GETSTATUS" /\ state = "DNLOAD_SYNC" => state' = "DNLOAD_IDLE"
  PROVE  Joint'
<1>1. /\ pc \in Calls /\ open /\ Call.op = op /\ pipe = Call /\ pipe.phase = "ask"
      /\ UNCHANGED <<boot, open, tool>>
  BY RequestFacts DEF Requested
<1>2. /\ pipe'.phase = "answer" /\ pipe'.rv = (IF ok THEN "ok" ELSE "PIPE")
      /\ pipe'.state = state'
  BY AnswerFields DEF Answer
<1>3. Joined'
  BY <1>1, <1>2 DEF DInv, Joined, tool, boot, AskedFor, Left, Calls
<1>4. ASSUME faultless' PROVE DownloadInv'
  <2>1. CASE pc = "dnload"
    <3>1. op = "DNLOAD" /\ Head(todo) = "download"
      BY <1>1, <2>1, CallOps DEF DInv, Joined
    <3>. QED  BY <1>1, <1>2, <1>4, <2>1, <3>1 DEF DownloadInv, tool
  <2>2. CASE pc = "get_status"
    <3>1. op = "GETSTATUS" /\ Head(todo) = "download" /\ flash' = flash
      BY <1>1, <1>4, <2>2, CallOps DEF DInv, Joined
    <3>2. Upto(flash, block + 1) /\ state = "DNLOAD_SYNC"
      BY <1>1, <1>4, <2>2 DEF DInv, DownloadInv
    <3>. QED  BY <1>1, <1>2, <2>2, <3>1, <3>2 DEF DownloadInv, tool
  <2>3. CASE pc \notin {"dnload", "get_status"}
    <3>1. flash' = flash
      BY <1>1, <1>4, <2>3, CallOps
    <3>. QED  BY <1>1, <1>4, <2>3, <3>1 DEF DInv, DownloadInv, tool, AskedFor, Written
  <2>. QED  BY <2>1, <2>2, <2>3
<1>5. ASSUME ~faultless' PROVE DownloadInv'
  BY <1>5 DEF DownloadInv
<1>. QED  BY <1>3, <1>4, <1>5 DEF Joint
LEMMA JointQuietRequest == ASSUME DInv, Quiet_request, pc # "idle" PROVE Joint'
<1>0. flash' = flash /\ faultless' = faultless
  BY DEF Quiet_request, NoFlash, bounds, request_detach, dnload_end, dnload_refused,
         request_upload, request_getstatus, request_clrstatus, request_getstate, request_abort
<1>1. CASE dnload_end \/ dnload_refused
  <2>1. Requested("DNLOAD")
    BY <1>1 DEF dnload_end, dnload_refused
  <2>2. pc = "dnload" /\ pipe.len = "right" /\ pipe.block = block /\ pipe.phase = "ask" /\ open
    BY <2>1, RequestFacts, CallOps DEF Requested
  <2>3. write_permitted(pipe.block)
    BY <2>2, FlashAssumption DEF DInv, Inv, Placed, write_permitted
  <2>4. ~DnloadAllowed
    BY <1>1, <2>2, <2>3 DEF dnload_end, dnload_refused
  <2>5. ~faultless /\ \E ok \in BOOLEAN : Answer(ok)
    BY <1>1, <2>2, <2>4 DEF DInv, DownloadInv, dnload_end, dnload_refused, Proceed, error
  <2>. QED  BY <1>0, <2>1, <2>5, JointAnswered
<1>2. ASSUME NEW op \in {"DETACH", "UPLOAD", "CLRSTATUS", "GETSTATE", "ABORT"}, Requested(op),
             NEW ok \in BOOLEAN, Answer(ok)
      PROVE  Joint'
  BY <1>0, <1>2, JointAnswered
<1>3. CASE request_detach
  BY <1>2, <1>3 DEF request_detach, Proceed, error
<1>4. CASE request_upload
  BY <1>2, <1>4 DEF request_upload, Proceed, error
<1>5. CASE request_clrstatus
  <2>1. Requested("CLRSTATUS") /\ \E ok \in BOOLEAN : Answer(ok)
    BY <1>5 DEF request_clrstatus, error
  <2>. QED  BY <1>2, <2>1
<1>6. CASE request_getstate
  <2>1. Requested("GETSTATE") /\ \E ok \in BOOLEAN : Answer(ok)
    BY <1>6 DEF request_getstate, error
  <2>. QED  BY <1>2, <2>1
<1>7. CASE request_abort
  BY <1>2, <1>7 DEF request_abort, Proceed, error
<1>8. CASE request_getstatus
  <2>1. Requested("GETSTATUS") /\ Answer(pipe.len = "right") /\ (pipe.len = "right") \in BOOLEAN
    BY <1>8 DEF request_getstatus
  <2>2. pipe.len = "right"
    BY <2>1, RequestFacts, CallOps
  <2>3. state = "DNLOAD_SYNC" => state' = "DNLOAD_IDLE"
    BY <1>8, <2>2 DEF request_getstatus, set_state
  <2>4. Answer(TRUE)
    BY <2>1, <2>2 DEF Answer
  <2>5. TRUE \in BOOLEAN /\ "DNLOAD" # "GETSTATUS" /\ Requested("GETSTATUS")
    BY <2>1
  <2>. QED  BY <1>0, <2>3, <2>4, <2>5, JointAnswered
<1>. QED  BY <1>1, <1>3, <1>4, <1>5, <1>6, <1>7, <1>8 DEF Quiet_request

LEMMA JointDnload == ASSUME DInv, dnload_block \/ dnload_fails, pc # "idle" PROVE Joint'
<1>1. Requested("DNLOAD") /\ Writes
  BY DEF dnload_block, dnload_fails, Writes
<1>2. /\ pc = "dnload" /\ pipe.block = block /\ pipe.data = Image[block - BootBlocks + 1]
      /\ pipe.phase = "ask"
  BY <1>1, RequestFacts, CallOps DEF Requested
<1>3. block \in BootBlocks .. BootBlocks + Len(Image) - 1 /\ block \in Blocks
  BY <1>2, FlashAssumption DEF DInv, Inv, Placed, Blocks
<1>4. CASE dnload_block
  <2>1. Wrote(WriteDone(block, Image[block - BootBlocks + 1])) /\ faultless' = faultless
    BY <1>2, <1>3, <1>4 DEF dnload_block, bounds
  <2>2. /\ flash' = Programmed(Cleared(block), block, Image[block - BootBlocks + 1])
        /\ Proceed("DNLOAD_SYNC")
    BY <2>1 DEF Wrote, WriteDone
  <2>3. faultless' => Upto(flash', block + 1)
    BY <1>2, <1>3, <2>1, <2>2, UptoWrite DEF DInv, DownloadInv, Inv
  <2>4. state' = "DNLOAD_SYNC" /\ Answer(TRUE)
    BY <2>2 DEF Proceed, set_state
  <2>5. TRUE \in BOOLEAN /\ "DNLOAD" # "GETSTATUS" /\ pc # "idle" /\ Requested("DNLOAD")
    BY <1>1, <1>2
  <2>6. faultless' => faultless
    BY <2>1
  <2>. QED  BY <2>3, <2>4, <2>5, <2>6, JointAnswered
<1>5. CASE dnload_fails
  <2>1. faultless' = FALSE /\ \E w : Wrote(w)
    BY <1>5 DEF dnload_fails
  <2>2. \E ok \in BOOLEAN : Answer(ok)
    BY <2>1 DEF Wrote, Proceed, error
  <2>. QED  BY <1>1, <1>2, <2>1, <2>2, JointAnswered
<1>. QED  BY <1>4, <1>5

LEMMA JointRequest == ASSUME DInv, request_handler PROVE Joint'
<1>1. CASE pc = "idle"
  <2>1. UNCHANGED <<boot, open, tool>>
    BY DEF request_handler, Requested, request_detach, dnload_end, dnload_refused,
           dnload_block, dnload_fails, Writes, request_upload, request_getstatus,
           request_clrstatus, request_getstate, request_abort
  <2>. QED  BY <1>1, <2>1, JointIdle DEF DInv, Joined, tool, boot
<1>2. CASE pc # "idle"
  BY <1>2, JointQuietRequest, JointDnload DEF request_handler, Quiet_request
<1>. QED  BY <1>1, <1>2

-----------------------------------------------------------------------------
(* The tool's own steps.                                                   *)
LEMMA JointStart == ASSUME DInv, Start PROVE Joint'
<1>1. /\ pc' = "find" /\ pipe = Idle /\ pipe' = pipe /\ open' = open /\ running' = running
      /\ todo' = asked' /\ todo' \in Orders /\ result' = "none"
  BY AskedAssumption DEF Start, boot
<1>2. Left' = {asked'[i] : i \in DOMAIN asked'}
  BY <1>1 DEF Left
<1>3. AskedFor("download")' => "download" \in Left'
  BY <1>2 DEF AskedFor
<1>4. Joined'
  BY <1>1, <1>3 DEF DInv, Joined, Calls
<1>5. Head(todo') = "reset" => ~AskedFor("download")'
  BY <1>1, OrderFacts DEF AskedFor
<1>6. DownloadInv'
  BY <1>1, <1>5 DEF DownloadInv
<1>. QED  BY <1>4, <1>6 DEF Joint

LEMMA JointFind == ASSUME DInv, FindDfu \/ NotFound \/ cmd_flash \/ Killed PROVE Joint'
<1>1. CASE FindDfu
  <2>1. /\ UNCHANGED <<dfu, boot, bounds, pipe, todo, asked, block, result>>
        /\ pc' = "get_state" /\ pc \in {"find", "wait"} /\ open' = TRUE /\ running = "dfu"
    BY <1>1 DEF FindDfu, Quiet, Opens
  <2>2. pipe' = Idle /\ Idle.phase = "idle"
    BY <2>1 DEF DInv, Joined, Idle
  <2>3. Joined'
    BY <2>1, <2>2 DEF DInv, Joined, boot, AskedFor, Left
  <2>4. DownloadInv'
    BY <2>1 DEF DInv, DownloadInv, bounds, dfu, AskedFor, Written
  <2>. QED  BY <2>3, <2>4 DEF Joint
<1>2. CASE NotFound
  BY <1>2, JointIdle DEF NotFound, End, Quiet, boot, DInv, Joined
<1>3. CASE cmd_flash
  <2>1. /\ UNCHANGED <<dfu, pipe, open, todo, asked, block, result>>
        /\ pc' = "wait" /\ pc = "find" /\ running = "app" /\ (faultless' => faultless)
    BY <1>3 DEF cmd_flash, Fault, bounds
  <2>2. open' = FALSE
    BY <2>1 DEF DInv, Joined, Inv, TypeOK
  <2>3. Joined'
    BY <2>1, <2>2 DEF DInv, Joined, AskedFor, Left, Calls
  <2>4. DownloadInv'
    BY <2>1 DEF DInv, DownloadInv, dfu, AskedFor, Written
  <2>. QED  BY <2>3, <2>4 DEF Joint
<1>4. CASE Killed
  BY <1>4, JointIdle DEF Killed, End, boot, DInv, Joined
<1>. QED  BY <1>1, <1>2, <1>3, <1>4

LEMMA JointAsk == ASSUME DInv, Ask PROVE Joint'
<1>1. /\ UNCHANGED <<dfu, boot, bounds, open, tool>> /\ pc \in Calls /\ pipe = Idle
      /\ pipe' = IF open /\ running = "dfu" THEN Call ELSE NoAnswer
  BY DEF Ask, Quiet, Calls, DInv, Inv, TypeOK
<1>2. Idle.phase = "idle" /\ Call.phase = "ask" /\ NoAnswer.phase = "answer" /\ NoAnswer.rv = "error"
  BY <1>1 DEF Idle, Call, Asks, NoAnswer, Answers, Calls
<1>3. CASE open
  <2>1. pipe' = Call /\ Call' = Call
    BY <1>1, <1>3 DEF DInv, Joined, Call, tool
  <2>2. Joined'
    BY <1>1, <1>2, <1>3, <2>1 DEF DInv, Joined, tool, boot, AskedFor, Left, Calls
  <2>3. DownloadInv'
    BY <1>1, <1>2, <2>1 DEF DInv, DownloadInv, DnloadAllowed, tool, dfu, bounds, AskedFor, Written
  <2>. QED  BY <2>2, <2>3 DEF Joint
<1>4. CASE ~open
  <2>1. Joined'
    BY <1>1, <1>2, <1>4 DEF DInv, Joined, tool, AskedFor, Left, Calls
  <2>2. DownloadInv'
    BY <1>1, <1>2, <1>4 DEF DInv, DownloadInv, tool, dfu, bounds, AskedFor, Written
  <2>. QED  BY <2>1, <2>2 DEF Joint
<1>. QED  BY <1>3, <1>4 DEF DInv, Inv, TypeOK
(* What holds when an answer has been taken and the tool goes on.          *)
LEMMA TakenFacts ==
  ASSUME DInv, NEW p \in Calls, Answered(p)
  PROVE  /\ pc = p /\ pc # "idle" /\ pipe.phase = "answer"
         /\ pipe' = Idle /\ Idle.phase = "idle" /\ todo \in Orders
         /\ UNCHANGED <<flash, state, open, running, faultless>>
         /\ open => running = "dfu"
         /\ open /\ pipe.rv = "error" => ~faultless
         /\ open /\ pipe.rv # "error" => pipe.state = state
  BY DEF Answered, Calls, Idle, Quiet, dfu, boot, bounds, DInv, Joined, Inv, TypeOK

LEMMA JointEnd ==
  ASSUME DInv, NEW p \in Calls, Answered(p), NEW r, End(r) PROVE Joint'
  BY TakenFacts, JointIdle DEF End

(* A call that leads to one outside the download.                          *)
LEMMA JointGoto ==
  ASSUME DInv, NEW p \in Calls, Answered(p), p \notin {"dnload", "get_status"},
         NEW q \in Calls \ {"dnload", "get_status"}, Goto(q),
         q = "upload" => Head(todo) = "upload",
         q \in {"check", "detach"} => Head(todo) = "reset"
  PROVE  Joint'
<1>1. /\ pc = p /\ pc # "idle" /\ pipe' = Idle /\ Idle.phase = "idle"
      /\ UNCHANGED <<flash, state, open, running, faultless>> /\ (open => running = "dfu")
  BY TakenFacts
<1>2. pc' = q /\ UNCHANGED <<todo, asked, block, result>>
  BY DEF Goto
<1>3. Joined'
  BY <1>1, <1>2 DEF DInv, Joined, AskedFor, Left, Calls
<1>4. DownloadInv'
  BY <1>1, <1>2 DEF DInv, DownloadInv, AskedFor, Written, Calls
<1>. QED  BY <1>3, <1>4 DEF Joint

LEMMA JointNext ==
  ASSUME DInv, NEW p \in Calls, Answered(p), Next_function,
         Head(todo) = "download" /\ faultless => Written(flash)
  PROVE  Joint'
<1>1. /\ pc = p /\ pc # "idle" /\ pipe' = Idle /\ Idle.phase = "idle" /\ todo \in Orders
      /\ UNCHANGED <<flash, state, open, running, faultless>> /\ (open => running = "dfu")
  BY TakenFacts
<1>2. CASE Len(todo) = 1
  BY <1>2, JointEnd DEF Next_function
<1>3. CASE Len(todo) # 1
  <2>1. /\ todo' = Tail(todo) /\ pc' = "get_state" /\ UNCHANGED <<asked, result>>
    BY <1>3 DEF Next_function
  <2>2. AskedFor("download") => Head(todo) = "reset" \/ "download" \in Left
    BY <1>1 DEF DInv, Joined
  <2>3. AskedFor("download")' = AskedFor("download")
    BY <2>1 DEF AskedFor
  <2>4. AskedFor("download")' => Head(todo') = "reset" \/ "download" \in Left'
    <3>0. Head(<<"reset">>) = "reset"
      OBVIOUS
    <3>1. CASE Head(todo) = "download"
      <4>1. todo' = <<"reset">>
        BY <1>1, <1>3, <2>1, <3>1, OrderFacts
      <4>. QED  BY <3>0, <4>1
    <3>2. CASE Head(todo) = "upload"
      <4>1. CASE \A i \in DOMAIN todo : todo[i] # "download"
        BY <2>2, <2>3, <3>2, <4>1 DEF Left
      <4>2. CASE todo'[1] = "download" /\ 1 \in DOMAIN todo'
        BY <4>2 DEF Left
      <4>. QED  BY <1>1, <1>3, <2>1, <3>2, <4>1, <4>2, OrderFacts
    <3>3. CASE Head(todo) = "reset"
      BY <1>1, <1>3, <3>3, OrderFacts
    <3>. QED  BY <1>1, <3>1, <3>2, <3>3, OrderFacts
  <2>5. Joined'
    BY <1>1, <2>1, <2>4 DEF DInv, Joined, Calls
  <2>6. ASSUME faultless', Head(todo') = "reset", AskedFor("download")' PROVE Written(flash)
    <3>1. CASE Head(todo) = "download"
      BY <1>1, <2>6, <3>1
    <3>2. CASE Head(todo) = "upload"
      <4>1. "download" \in Left
        BY <2>2, <2>3, <2>6, <3>2
      <4>2. todo[1] = "upload" /\ Tail(todo)[1] = "download" /\ Head(Tail(todo)) = "download"
        BY <1>1, <1>3, <3>2, <4>1, OrderFacts DEF Left
      <4>. QED  BY <2>1, <2>6, <4>2
    <3>3. CASE Head(todo) = "reset"
      BY <1>1, <1>3, <3>3, OrderFacts
    <3>. QED  BY <1>1, <3>1, <3>2, <3>3, OrderFacts
  <2>7. DownloadInv'
    BY <1>1, <2>1, <2>6 DEF DownloadInv, Written
  <2>. QED  BY <2>5, <2>7 DEF Joint
<1>. QED  BY <1>2, <1>3
LEMMA JointAnswer ==
  ASSUME DInv, \/ enter_dfu_mode \/ dfu_abort \/ dfu_clear_status \/ detach \/ upload
               \/ download \/ dfu_get_status
  PROVE  Joint'
<1>0. /\ Len(Image) \in Nat /\ BootBlocks \in Nat
      /\ Calls = {"get_state", "abort", "clear", "check", "detach", "dnload", "get_status", "upload"}
  BY FlashAssumption DEF Calls
<1>1. CASE enter_dfu_mode
  <2>1. Answered("get_state") /\ block = BootBlocks /\ pc = "get_state" /\ todo \in Orders
    BY <1>1 DEF enter_dfu_mode, Answered, DInv, Inv, TypeOK, Placed
  <2>2. CASE ~(pipe.rv = "ok" /\ AfterState(pipe.state) = "dnload")
    <3>1. PICK q \in {"get_state", "abort", "clear", "check", "upload"} :
            /\ Goto(q)
            /\ q = "upload" => Head(todo) = "upload"
            /\ q = "check" => Head(todo) = "reset"
      BY <1>1, <2>2 DEF enter_dfu_mode, AfterState, FirstCall
    <3>. QED  BY <1>0, <2>1, <3>1, JointGoto
  <2>3. CASE pipe.rv = "ok" /\ AfterState(pipe.state) = "dnload"
    <3>1. Goto("dnload") /\ pipe.state = "DFUIDLE" /\ Head(todo) = "download"
      BY <1>1, <2>1, <2>3, OrderFacts DEF enter_dfu_mode, AfterState, FirstCall
    <3>2. /\ pipe' = Idle /\ Idle.phase = "idle"
          /\ UNCHANGED <<flash, state, open, running, faultless>> /\ (open => running = "dfu")
          /\ open => state = "DFUIDLE"
      BY <1>0, <2>1, <2>3, <3>1, TakenFacts
    <3>3. pc' = "dnload" /\ UNCHANGED <<todo, asked, block, result>>
      BY <3>1 DEF Goto
    <3>4. Joined'
      BY <2>1, <3>1, <3>2, <3>3 DEF DInv, Joined, AskedFor, Left, Calls
    <3>5. Upto(flash', block')
      BY <2>1, <3>2, <3>3, UptoStart
    <3>6. DownloadInv'
      BY <3>1, <3>2, <3>3, <3>5 DEF DownloadInv, DnloadAllowed
    <3>. QED  BY <3>4, <3>6 DEF Joint
  <2>. QED  BY <2>2, <2>3
<1>2. CASE dfu_abort
  <2>1. Answered("abort")
    BY <1>2 DEF dfu_abort
  <2>2. CASE Goto("get_state")
    BY <1>0, <2>1, <2>2, JointGoto
  <2>3. CASE End("failed")
    BY <1>0, <2>1, <2>3, JointEnd
  <2>4. CASE Head(todo) = "reset" /\ Next_function
    BY <1>0, <2>1, <2>4, JointNext
  <2>. QED  BY <1>2, <2>2, <2>3, <2>4 DEF dfu_abort
<1>3. CASE dfu_clear_status
  BY <1>0, <1>3, JointGoto DEF dfu_clear_status
<1>4. CASE detach
  <2>1. PICK p \in {"check", "detach"} : Answered(p)
    BY <1>4 DEF detach
  <2>2. Head(todo) = "reset"
    BY <2>1 DEF Answered, DInv, Joined
  <2>3. CASE Goto("detach")
    BY <1>0, <2>1, <2>2, <2>3, JointGoto
  <2>4. CASE Next_function
    BY <1>0, <2>1, <2>2, <2>4, JointNext
  <2>. QED  BY <1>4, <2>3, <2>4 DEF detach
<1>5. CASE upload
  <2>1. Answered("upload") /\ Head(todo) = "upload" /\ pc = "upload"
    BY <1>5 DEF upload, Answered, DInv, Joined
  <2>2. CASE End("failed")
    BY <1>0, <2>1, <2>2, JointEnd
  <2>3. CASE Next_function
    BY <1>0, <2>1, <2>3, JointNext
  <2>4. CASE UNCHANGED <<pc, todo, asked, result>>
    <3>1. /\ pipe' = Idle /\ Idle.phase = "idle"
          /\ UNCHANGED <<flash, state, open, running, faultless>> /\ (open => running = "dfu")
      BY <1>0, <2>1, TakenFacts
    <3>2. Joined'
      BY <2>1, <2>4, <3>1 DEF DInv, Joined, AskedFor, Left
    <3>3. DownloadInv'
      BY <2>1, <2>4, <3>1 DEF DownloadInv
    <3>. QED  BY <3>2, <3>3 DEF Joint
  <2>. QED  BY <1>5, <2>2, <2>3, <2>4 DEF upload
<1>6. CASE download
  <2>1. Answered("dnload") /\ pc = "dnload" /\ Head(todo) = "download"
    BY <1>6 DEF download, Answered, DInv, Joined
  <2>2. CASE End("failed")
    BY <1>0, <2>1, <2>2, JointEnd
  <2>3. CASE pipe.rv # "error" /\ Goto("get_status")
    <3>1. /\ pipe' = Idle /\ Idle.phase = "idle" /\ pipe.phase = "answer"
          /\ UNCHANGED <<flash, state, open, running, faultless>> /\ (open => running = "dfu")
      BY <1>0, <2>1, TakenFacts
    <3>2. pc' = "get_status" /\ UNCHANGED <<todo, asked, block, result>>
      BY <2>3 DEF Goto
    <3>3. Joined'
      BY <2>1, <3>1, <3>2 DEF DInv, Joined, AskedFor, Left, Calls
    <3>4. faultless => Upto(flash, block + 1) /\ (open => state = "DNLOAD_SYNC")
      BY <2>1, <2>3, <3>1 DEF DInv, DownloadInv
    <3>5. DownloadInv'
      BY <2>1, <3>1, <3>2, <3>4 DEF DownloadInv
    <3>. QED  BY <3>3, <3>5 DEF Joint
  <2>. QED  BY <1>6, <2>2, <2>3 DEF download
<1>7. CASE dfu_get_status
  <2>1. Answered("get_status") /\ pc = "get_status" /\ Head(todo) = "download"
    BY <1>7 DEF dfu_get_status, Answered, DInv, Joined
  <2>2. /\ pipe' = Idle /\ Idle.phase = "idle" /\ pipe.phase = "answer"
        /\ UNCHANGED <<flash, state, open, running, faultless>> /\ (open => running = "dfu")
    BY <1>0, <2>1, TakenFacts
  <2>3. faultless => Upto(flash, block + 1) /\ (open => state = "DNLOAD_IDLE")
    BY <2>1, <2>2 DEF DInv, DownloadInv
  <2>4. CASE block + 1 = BootBlocks + Len(Image) /\ Next_function
    <3>1. faultless => Written(flash)
      BY <2>3, <2>4, UptoEnd
    <3>. QED  BY <1>0, <2>1, <2>4, <3>1, JointNext
  <2>5. CASE block' = block + 1 /\ pc' = "dnload" /\ UNCHANGED <<todo, asked, result>>
    <3>1. Joined'
      BY <2>1, <2>2, <2>5 DEF DInv, Joined, AskedFor, Left, Calls
    <3>2. DownloadInv'
      BY <2>1, <2>2, <2>3, <2>5 DEF DownloadInv, DnloadAllowed
    <3>. QED  BY <3>1, <3>2 DEF Joint
  <2>. QED  BY <1>7, <2>4, <2>5 DEF dfu_get_status
<1>. QED  BY <1>1, <1>2, <1>3, <1>4, <1>5, <1>6, <1>7

LEMMA DInvNext == DInv /\ [Next]_vars => DInv'
<1>. SUFFICES ASSUME DInv, [Next]_vars PROVE DInv'
  OBVIOUS
<1>1. Inv'
  BY InvNext DEF DInv
<1>2. Joint'
  <2>1. CASE Device
    BY <2>1, JointMain, JointRequest, JointEnds DEF Device, run_bootloader_detached
  <2>2. CASE Tool
    BY <2>2, JointFind, JointAsk, JointAnswer DEF Tool
  <2>3. CASE User
    BY <2>3, JointStart, JointFind, JointEnds, JointOutside DEF User
  <2>4. CASE run_bootloader_timeout \/ LoseTransfer \/ DropAnswer
    BY <2>4, JointEnds, JointOutside DEF run_bootloader_timeout
  <2>5. CASE UNCHANGED vars
    <3>1. Joined'
      BY <2>5 DEF vars, dfu, boot, tool, bounds, DInv, Joined, AskedFor, Left, Call
    <3>2. DownloadInv'
      BY <2>5 DEF vars, dfu, boot, tool, bounds, DInv, DownloadInv, DnloadAllowed, AskedFor,
                  Written
    <3>. QED  BY <3>1, <3>2 DEF Joint
  <2>. QED  BY <2>1, <2>2, <2>3, <2>4, <2>5 DEF Next
<1>. QED  BY <1>1, <1>2 DEF DInv, Joint

(* The step in which the tool reports success is the end of its last       *)
(* function: the last download, or a reset after it.                       *)
LEMMA SuccessNext ==
  ASSUME DInv, NEW p \in Calls, Answered(p), Next_function, Succeeds, faultless,
         Head(todo) = "download" => Written(flash)
  PROVE  Written(flash')
<1>1. /\ pc # "idle" /\ todo \in Orders /\ flash' = flash /\ result = "none"
      /\ result' = "ok" /\ AskedFor("download")
  BY TakenFacts DEF DInv, Joined, Succeeds
<1>2. Len(todo) = 1
  BY <1>1 DEF Next_function
<1>3. CASE Head(todo) = "download"
  BY <1>1, <1>3
<1>4. CASE Head(todo) = "reset"
  BY <1>1, <1>4 DEF DInv, DownloadInv
<1>5. CASE Head(todo) = "upload"
  <2>1. "download" \in Left
    BY <1>1, <1>5 DEF DInv, Joined
  <2>. QED  BY <1>1, <1>2, <1>5, <2>1, OrderFacts DEF Left
<1>. QED  BY <1>1, <1>3, <1>4, <1>5, OrderFacts

LEMMA SuccessStep == ASSUME DInv, Next, Succeeds, faultless PROVE Written(flash')
<1>0. /\ pc # "idle" /\ result' = "ok" /\ result = "none" /\ AskedFor("download")
      /\ Calls = {"get_state", "abort", "clear", "check", "detach", "dnload", "get_status", "upload"}
  BY DEF DInv, Joined, Succeeds, Calls
<1>1. \/ dfu_abort \/ detach \/ upload \/ dfu_get_status
  <2>1. CASE Device \/ run_bootloader_timeout
    BY <1>0, <2>1
       DEF Device, main, run_bootloader_detached, run_bootloader_timeout, run_bootloader_ends,
           request_handler, Requested, request_detach, dnload_end, dnload_refused, dnload_block,
           dnload_fails, Writes, request_upload, request_getstatus, request_clrstatus,
           request_getstate, request_abort, tool
  <2>2. CASE Tool
    BY <1>0, <2>2 DEF Tool, FindDfu, Opens, cmd_flash, NotFound, End, Ask, tool, enter_dfu_mode,
                      Goto, dfu_clear_status, download
  <2>3. CASE User \/ LoseTransfer \/ DropAnswer
    BY <1>0, <2>3 DEF User, Start, Killed, End, Unplug, UnplugInWrite, Plug, Jumper,
                      OtherRequest, LoseTransfer, DropAnswer, tool
  <2>. QED  BY <2>1, <2>2, <2>3 DEF Next
<1>2. CASE dfu_abort
  <2>1. Answered("abort") /\ Head(todo) = "reset" /\ Next_function
    BY <1>0, <1>2 DEF dfu_abort, Goto, End
  <2>. QED  BY <1>0, <2>1, SuccessNext
<1>3. CASE detach
  <2>1. PICK p \in {"check", "detach"} : Answered(p) /\ Next_function
    BY <1>0, <1>3 DEF detach, Goto
  <2>2. Head(todo) = "reset"
    BY <2>1 DEF Answered, DInv, Joined
  <2>. QED  BY <1>0, <2>1, <2>2, SuccessNext
<1>4. CASE upload
  <2>1. Answered("upload") /\ Next_function
    BY <1>0, <1>4 DEF upload, End
  <2>2. Head(todo) = "upload"
    BY <2>1 DEF Answered, DInv, Joined
  <2>. QED  BY <1>0, <2>1, <2>2, SuccessNext
<1>5. CASE dfu_get_status
  <2>1. Answered("get_status") /\ block + 1 = BootBlocks + Len(Image) /\ Next_function
    BY <1>0, <1>5 DEF dfu_get_status
  <2>2. Upto(flash, block + 1)
    BY <2>1 DEF Answered, DInv, DownloadInv
  <2>3. Written(flash)
    BY <2>1, <2>2, UptoEnd
  <2>. QED  BY <1>0, <2>1, <2>3, SuccessNext
<1>. QED  BY <1>1, <1>2, <1>3, <1>4, <1>5

(* A download that ends well and met no fault leaves the image in flash,   *)
(* for every image, every layout of sectors and every state it starts from.*)
THEOREM DownloadsWrite == Spec => SuccessIfFaultless
<1>1. DInv /\ [Next]_vars => [Succeeds /\ faultless => Written(flash')]_vars
  <2>. SUFFICES ASSUME DInv, [Next]_vars, vars' # vars, Succeeds, faultless
                PROVE  Written(flash')
    OBVIOUS
  <2>. QED  BY SuccessStep
<1>. QED  BY <1>1, DInvInit, DInvNext, PTL DEF Spec, SuccessIfFaultless
=============================================================================
