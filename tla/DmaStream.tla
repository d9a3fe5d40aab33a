----------------------------- MODULE DmaStream -----------------------------
(***************************************************************************)
(* One transport-stream input of a TBSECP3 card: the DMA engine that fills *)
(* a ring of buffers, the interrupt it raises, the tasklet that hands the  *)
(* completed buffers to the software demultiplexer, and the feeds that     *)
(* switch the engine on and off (tbsecp3-dma.c, and start_feed, stop_feed, *)
(* the interrupt handler and resume as far as they touch this input).      *)
(*                                                                         *)
(* The fillings the engine completes are numbered 0, 1, 2, ... for ever,   *)
(* and ring says which of them each slot holds.  The driver never sees     *)
(* these numbers, it computes with slot indexes modulo Buffers: the        *)
(* numbers are what the properties compare its indexes with.               *)
(***************************************************************************)
EXTENDS Integers

CONSTANTS
  Buffers,    (* TBSECP3_DMA_BUFFERS, slots of the ring                     *)
  PreBuffers, (* TBSECP3_DMA_PRE_BUFFERS                                    *)
  StatLag,    (* 0: DMA_STAT names the slot being filled; 1: the last full  *)
  Offsets,    (* possible positions of the first sync byte in a buffer      *)
  MaxDone,    (* bound: fillings the engine makes                           *)
  MaxFeeds,   (* bound: feeds open at once                                  *)
  NoRun       (* the abstract stream's value when no run is in progress     *)

ASSUME DmaAssumption ==
  /\ Buffers \in Nat /\ PreBuffers \in Nat /\ StatLag \in {0, 1}
  /\ PreBuffers >= 2 /\ Buffers > PreBuffers + StatLag
  /\ Offsets \subseteq Nat /\ 0 \in Offsets
  /\ MaxDone \in Nat /\ MaxFeeds \in Nat \ {0}
  /\ NoRun \notin Int

VARIABLES
  feeds,        (* adapter->feeds                                           *)
  dmaEn,        (* register DMA_EN                                          *)
  dmaIe,        (* register DMA_IE(ts_in)                                   *)
  intStat,      (* the DMA_IF(ts_in) bit of INT_STAT                        *)
  irq,          (* the handler: "idle", or "acked" before tasklet_schedule  *)
  sched,        (* the tasklet is scheduled                                 *)
  tasklet,      (* "idle", "loop" at the while, "filter" inside an iteration*)
  cnt,          (* dma.cnt                                                  *)
  next_buffer,  (* dma.next_buffer                                          *)
  offset,       (* dma.offset                                               *)
  read_buffer,  (* the tasklet's local read_buffer                          *)
  stop_buffer,  (* the tasklet's local next_buffer                          *)
  spill,        (* filling whose head was copied behind the last slot       *)
  done,         (* fillings completed                                       *)
  slot,         (* the slot the engine is filling, or would go on with      *)
  ring,         (* ring[s]: the last filling completed in slot s, or -1     *)
  out,          (* the last buffer handed to the demultiplexer              *)
  pos,          (* ghost: filling the driver means by its read position     *)
  stopPos,      (* ghost: filling the driver means by stop_buffer           *)
  sound,        (* ghost: the engine has not lapped the read position       *)
  start,        (* ghost: done when the engine was last enabled             *)
  inFlight,     (* ghost: runs pending from before the last enable          *)
  stale,        (* ghost: buffers handed over since the last enable that    *)
                (*   were recorded before it                                *)
  slept         (* ghost: a resume since the last enable                    *)

hwVars      == <<dmaEn, dmaIe, intStat, done, slot, ring, start, inFlight,
                 slept>>
taskletVars == <<tasklet, cnt, next_buffer, offset, read_buffer, stop_buffer,
                 spill, out, pos, stopPos, sound, stale>>
vars        == <<feeds, irq, sched, hwVars, taskletVars>>

Slots  == 0 .. Buffers - 1
NoBuffer == [live |-> FALSE, body |-> 0, tail |-> 0, offset |-> 0]

Inc(i) == (i + 1) % Buffers

(* The slot DMA_STAT names.                                                *)
DMA_STAT == (slot - StatLag) % Buffers

(* How many fillings behind done the tasklet stops, and where it stops.    *)
Margin == StatLag + PreBuffers - 1

(* Fault: no distance is kept to the slot being filled.                    *)
TaskletStopNoMargin == (DMA_STAT + 1) % Buffers

TaskletStop == (DMA_STAT - PreBuffers + 1) % Buffers

(* Runs of the tasklet that events already raised can still cause.         *)
Bit(b)  == IF b THEN 1 ELSE 0
Pending == Bit(intStat) + Bit(irq = "acked") + Bit(sched)

Init ==
  /\ feeds = 0 /\ dmaEn = FALSE /\ dmaIe = FALSE
  /\ intStat = FALSE /\ irq = "idle" /\ sched = FALSE /\ tasklet = "idle"
  /\ cnt = 0 /\ next_buffer = 0 /\ offset = 0
  /\ read_buffer = 0 /\ stop_buffer = 0 /\ spill = 0
  /\ done = 0 /\ slot = 0 /\ ring = [s \in Slots |-> -1]
  /\ start = 0 /\ inFlight = 0 /\ stale = 0 /\ slept = FALSE
  /\ out = NoBuffer /\ pos = 0 /\ stopPos = 0 /\ sound = FALSE

-----------------------------------------------------------------------------
(* The engine and the interrupt handler.                                   *)

(* The engine completes a buffer and goes on with the next slot, whether   *)
(* or not the driver has read what is there.  While it fills a slot, or    *)
(* having left one half filled, the slot holds a mixture; ring keeps the   *)
(* number the slot had, which no buffer that is read in turn has.          *)
HwFill ==
  /\ dmaEn /\ done < MaxDone
  /\ done' = done + 1
  /\ ring' = [ring EXCEPT ![slot] = done]
  /\ slot' = Inc(slot)
  /\ intStat' = (intStat \/ dmaIe)
  /\ sound' = (sound /\ done' < pos + Buffers)
  /\ UNCHANGED <<feeds, dmaEn, dmaIe, irq, sched, start, inFlight, slept,
                 tasklet, cnt, next_buffer, offset, read_buffer, stop_buffer,
                 spill, out, pos, stopPos, stale>>

(* tbsecp3_irq_handler reads INT_STAT and writes it back: the bit clears.  *)
IrqAck ==
  /\ irq = "idle" /\ intStat
  /\ intStat' = FALSE
  /\ irq' = "acked"
  /\ UNCHANGED <<feeds, sched, dmaEn, dmaIe, done, slot, ring, start, inFlight,
                 slept, taskletVars>>

(* Fault: a running tasklet is not scheduled again.                        *)
IrqScheduleIfIdle ==
  /\ irq = "acked"
  /\ irq' = "idle"
  /\ sched' = (sched \/ tasklet = "idle")
  /\ UNCHANGED <<feeds, hwVars, taskletVars>>

(* ... and schedules the tasklet.                                          *)
IrqSchedule ==
  /\ irq = "acked"
  /\ irq' = "idle"
  /\ sched' = TRUE
  /\ UNCHANGED <<feeds, hwVars, taskletVars>>

-----------------------------------------------------------------------------
(* tbsecp3_dma_tasklet.  adap_lock is held exactly while tasklet # "idle". *)

(* The first PreBuffers runs only move next_buffer to the engine.          *)
TaskletPreBuffer ==
  /\ sched /\ tasklet = "idle" /\ cnt < PreBuffers
  /\ sched' = FALSE
  /\ cnt' = cnt + 1
  /\ next_buffer' = TaskletStop
  /\ pos' = done - Margin
  /\ sound' = TRUE
  /\ UNCHANGED <<feeds, irq, hwVars, tasklet, offset, read_buffer, stop_buffer,
                 spill, out, stopPos, stale>>

TaskletStart ==
  /\ sched /\ tasklet = "idle" /\ cnt >= PreBuffers
  /\ sched' = FALSE
  /\ tasklet' = "loop"
  /\ read_buffer' = next_buffer
  /\ stop_buffer' = TaskletStop
  /\ stopPos' = done - Margin
  /\ UNCHANGED <<feeds, irq, hwVars, cnt, next_buffer, offset, spill, out, pos,
                 sound, stale>>

(* Fault: the head of slot 0 is not copied.                                *)
TaskletSyncNoCopy ==
  /\ tasklet = "loop" /\ read_buffer # stop_buffer
  /\ tasklet' = "filter"
  /\ offset' \in Offsets
  /\ UNCHANGED <<feeds, irq, sched, hwVars, cnt, next_buffer, read_buffer,
                 stop_buffer, spill, out, pos, stopPos, sound, stale>>

(* The first half of an iteration: keep the offset if there is a sync byte *)
(* at it, else search for it (the search can find any position, or none);  *)
(* with an offset, copy the head of slot 0 behind the last slot.           *)
TaskletSync ==
  /\ tasklet = "loop" /\ read_buffer # stop_buffer
  /\ tasklet' = "filter"
  /\ offset' \in Offsets
  /\ spill' = IF offset' # 0 /\ read_buffer = Buffers - 1
              THEN ring[0] ELSE spill
  /\ UNCHANGED <<feeds, irq, sched, hwVars, cnt, next_buffer, read_buffer,
                 stop_buffer, out, pos, stopPos, sound, stale>>

(* dvb_dmx_swfilter_packets reads one buffer length from the offset on:    *)
(* the body from this slot, the tail, if the offset makes one, from what   *)
(* lies behind it.  Evaluated at the end of the call, so an overwriting    *)
(* meanwhile is seen.                                                      *)
TaskletFilter ==
  /\ tasklet = "filter"
  /\ tasklet' = "loop"
  /\ out' = [live |-> TRUE,
             body |-> ring[read_buffer],
             tail |-> IF offset = 0 THEN 0
                      ELSE IF read_buffer = Buffers - 1 THEN spill
                      ELSE ring[read_buffer + 1],
             offset |-> offset]
  /\ read_buffer' = Inc(read_buffer)
  /\ pos' = pos + 1
  /\ stale' = stale + Bit(out'.body < start)
  /\ UNCHANGED <<feeds, irq, sched, hwVars, cnt, next_buffer, offset,
                 stop_buffer, spill, stopPos, sound>>

(* Fault: next_buffer is set by the PreBuffers runs only.                  *)
TaskletEndNoStore ==
  /\ tasklet = "loop" /\ read_buffer = stop_buffer
  /\ tasklet' = "idle"
  /\ pos' = stopPos - ((stop_buffer - next_buffer) % Buffers)
  /\ sound' = (done < pos' + Buffers)
  /\ out' = IF sound THEN out ELSE NoBuffer
  /\ read_buffer' = 0 /\ stop_buffer' = 0 /\ stopPos' = 0
  /\ UNCHANGED <<feeds, irq, sched, hwVars, cnt, next_buffer, offset, spill,
                 stale>>

(* The loop ends, its locals with it, and next_buffer is where the next    *)
(* run begins; if the engine had lapped the tasklet, out begins anew.      *)
TaskletEnd ==
  /\ tasklet = "loop" /\ read_buffer = stop_buffer
  /\ tasklet' = "idle"
  /\ next_buffer' = stop_buffer
  /\ pos' = stopPos
  /\ sound' = (done < stopPos + Buffers)
  /\ out' = IF sound THEN out ELSE NoBuffer
  /\ read_buffer' = 0 /\ stop_buffer' = 0 /\ stopPos' = 0
  /\ UNCHANGED <<feeds, irq, sched, hwVars, cnt, offset, spill, stale>>

-----------------------------------------------------------------------------
(* The users: start_feed and stop_feed (the demultiplexer's mutex          *)
(* serialises them), and resume.                                           *)

(* Fault: the count of PreBuffers runs is not restarted.                   *)
DmaEnableKeepCnt ==
  /\ tasklet = "idle"
  /\ offset' = 0 /\ next_buffer' = 0
  /\ dmaIe' = TRUE /\ dmaEn' = TRUE
  /\ slot' \in {slot, 0}
  /\ start' = done /\ inFlight' = Pending /\ stale' = 0 /\ slept' = FALSE
  /\ sound' = FALSE /\ out' = NoBuffer /\ pos' = 0
  /\ UNCHANGED <<intStat, irq, sched, done, ring, tasklet, cnt, read_buffer,
                 stop_buffer, spill, stopPos>>

(* tbsecp3_dma_enable: the engine goes on from its slot or begins at slot  *)
(* 0; the other slots keep what they hold.                                 *)
DmaEnable ==
  /\ tasklet = "idle"
  /\ offset' = 0 /\ cnt' = 0 /\ next_buffer' = 0
  /\ dmaIe' = TRUE /\ dmaEn' = TRUE
  /\ slot' \in {slot, 0}
  /\ start' = done /\ inFlight' = Pending /\ stale' = 0 /\ slept' = FALSE
  /\ sound' = FALSE /\ out' = NoBuffer /\ pos' = 0
  /\ UNCHANGED <<intStat, irq, sched, done, ring, tasklet, read_buffer,
                 stop_buffer, spill, stopPos>>

(* tbsecp3_dma_disable: nothing that is already pending is cancelled.      *)
DmaDisable ==
  /\ tasklet = "idle"
  /\ dmaIe' = FALSE /\ dmaEn' = FALSE
  /\ UNCHANGED <<intStat, irq, sched, done, slot, ring, start, inFlight, slept,
                 taskletVars>>

StartFeed ==
  /\ feeds < MaxFeeds
  /\ feeds' = feeds + 1
  /\ IF feeds = 0 THEN DmaEnable
                  ELSE UNCHANGED <<irq, sched, hwVars, taskletVars>>

(* Fault: the count is tested before it is decremented.                    *)
StopFeedTestFirst ==
  /\ feeds > 0
  /\ feeds' = feeds - 1
  /\ IF feeds = 0 THEN DmaDisable
                  ELSE UNCHANGED <<irq, sched, hwVars, taskletVars>>

StopFeed ==
  /\ feeds > 0
  /\ feeds' = feeds - 1
  /\ IF feeds' = 0 THEN DmaDisable
                   ELSE UNCHANGED <<irq, sched, hwVars, taskletVars>>

(* Suspend and tbsecp3_resume.  Processes are frozen, handler and tasklet  *)
(* have run; tbsecp3_dma_reg_init clears DMA_EN, the mask bit may or may   *)
(* not have survived.  feeds is not looked at.                             *)
Resume ==
  /\ irq = "idle" /\ ~sched /\ tasklet = "idle"
  /\ dmaEn' = FALSE
  /\ dmaIe' \in {dmaIe, FALSE}
  /\ intStat' = FALSE
  /\ slept' = TRUE
  /\ UNCHANGED <<feeds, irq, sched, done, slot, ring, start, inFlight,
                 taskletVars>>

-----------------------------------------------------------------------------
Handler == IrqAck \/ IrqSchedule
Tasklet == \/ TaskletPreBuffer \/ TaskletStart \/ TaskletSync \/ TaskletFilter
           \/ TaskletEnd

Next == HwFill \/ Handler \/ Tasklet \/ StartFeed \/ StopFeed \/ Resume

Spec == Init /\ [][Next]_vars

(* A raised interrupt is taken and a scheduled tasklet runs to its end;    *)
(* the engine, the users and the power state owe nothing.                  *)
FairSpec == Spec /\ WF_vars(Handler) /\ WF_vars(Tasklet)

-----------------------------------------------------------------------------
(* Properties.                                                             *)

(* What was handed over last is a filling of the present stream.           *)
Fresh == out.live /\ sound /\ out.body >= start

(* The input keeps the promise of TsDelivery: the run handed over is the   *)
(* one in out, broken off as soon as the tasklet is lapped; at most the    *)
(* runs that were pending at the enable bring a buffer from before it.     *)
Delivery == INSTANCE TsDelivery WITH
  Depth     <- Buffers,
  Leftovers <- 3,
  NoRun     <- NoRun,
  written   <- done,
  handed    <- IF Fresh THEN out.body ELSE NoRun,
  since     <- start,
  left      <- inFlight - stale

ImplementsDelivery == Delivery!Spec

(* Every variable keeps its type.                                          *)
TypeOK ==
  /\ feeds \in 0 .. MaxFeeds
  /\ dmaEn \in BOOLEAN /\ dmaIe \in BOOLEAN /\ intStat \in BOOLEAN
  /\ irq \in {"idle", "acked"} /\ sched \in BOOLEAN
  /\ tasklet \in {"idle", "loop", "filter"}
  /\ cnt \in 0 .. PreBuffers
  /\ next_buffer \in Slots /\ read_buffer \in Slots /\ stop_buffer \in Slots
  /\ offset \in Offsets
  /\ done \in Nat /\ slot \in Slots /\ ring \in [Slots -> Int]
  /\ spill \in Int /\ pos \in Int /\ stopPos \in Int
  /\ out \in [live : BOOLEAN, body : Int, tail : Int, offset : Offsets]
  /\ sound \in BOOLEAN /\ slept \in BOOLEAN
  /\ start \in Nat /\ inFlight \in 0 .. 3 /\ stale \in Nat

(* Once the demultiplexer has been given a filling of the present stream   *)
(* it gets the fillings one after the other, none twice, none skipped and  *)
(* none half overwritten, for as long as the engine does not lap the       *)
(* tasklet - across any number of wraps of the ring, coalesced interrupts, *)
(* and the engine writing while the loop runs.                             *)
InOrder ==
  [][(Fresh /\ out'.live /\ out' # out) => out'.body = out.body + 1]_vars

(* With a sync offset the packets handed over run past the end of the      *)
(* slot: what follows it is the head of the very next filling, also behind *)
(* the last slot where the tasklet has to copy it.                         *)
TailFollowsBody == Fresh /\ out.offset # 0 => out.tail = out.body + 1

(* After start_feed turns the engine on, nothing recorded before it is     *)
(* handed over when no run was pending, wherever the engine goes on; each  *)
(* run that was still pending uses up one of the PreBuffers runs, so costs *)
(* at most one old buffer.                                                 *)
FreshStart == stale > 0 => stale <= inFlight - 1 + StatLag

(* The engine runs only while there is a feed, and with a feed open it     *)
(* stands still only when a resume stopped it under the feed.              *)
EngineFollowsFeeds ==
  /\ dmaEn => feeds > 0
  /\ feeds > 0 /\ ~slept => dmaEn /\ dmaIe

(* No completed buffer waits for ever: the tasklet gets as close to the    *)
(* engine as the margin allows, no interrupt is lost on the way.           *)
NoBufferStuck ==
  \A d \in 1 .. MaxDone :
    (dmaEn /\ done = d /\ d > start) ~> (~dmaEn \/ pos >= d - Margin)

(* Having been lapped, the tasklet is back in step with the engine.        *)
OverrunHeals ==
  (dmaEn /\ done > start /\ ~sound) ~> (~dmaEn \/ sound)
=============================================================================
