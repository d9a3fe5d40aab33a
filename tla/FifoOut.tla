------------------------------ MODULE FifoOut ------------------------------
(***************************************************************************)
(* Playing a stream into the decoder of a Full-Featured SAA716x card: a    *)
(* writer fills a ring buffer with packets, a worker moves them into a     *)
(* FIFO of the FPGA, the FIFO's empty interrupt calls the worker, and      *)
(* ioctls stop and restart it all (dvb_video_write, do_dvb_video_ioctl,    *)
(* fifo_worker and saa716x_ff_pci_irq in saa716x_ff_main.c).               *)
(*                                                                         *)
(* Everything moves in packets of TS_SIZE bytes and the ring holds a whole *)
(* number of them, so positions are counted in packets.  Packets are       *)
(* numbered in the order in which they are written.                        *)
(***************************************************************************)
EXTENDS Integers, Sequences

CONSTANTS
  Ring,      (* TSOUT_LEN in packets                                        *)
  FifoSize,  (* packets that make the FIFO full                             *)
  MaxWrite,  (* packets in one write()                                      *)
  Ioctls,    (* what the users call: "clear", "demux"                       *)
  Threads,   (* ioctls may come during a write()                            *)
  MaxPackets (* bound: packets written                                      *)

ASSUME FifoAssumption ==
  /\ Ring \in Nat /\ Ring >= 2 /\ FifoSize \in Nat /\ FifoSize >= 2
  /\ MaxWrite \in Nat \ {0} /\ MaxPackets \in Nat
  /\ Ioctls \subseteq {"clear", "demux"} /\ Threads \in BOOLEAN

VARIABLES
  tsout_stat, (* "RESET", "FILL" or "RUN"                                   *)
  ring,       (* tsout.data: the packet in each place                       *)
  pread,      (* tsout.pread                                                *)
  pwrite,     (* tsout.pwrite                                               *)
  ctrl,       (* FPGA_ADDR_FIFO_CTRL: what the FIFO does, interrupt enabled *)
  fifo,       (* packets in the FIFO                                        *)
  writer,     (* where dvb_video_write is                                   *)
  todo,       (* packets it still has to write                              *)
  wctrl,      (* the value of CTRL it has read                              *)
  worker,     (* where fifo_worker is                                       *)
  n,          (* packets it moves                                           *)
  rd,         (* the place it has read                                      *)
  kctrl,      (* the value of CTRL it has read                              *)
  queued,     (* fifo_work is queued                                        *)
  irq,        (* where the handler is                                       *)
  hctrl,      (* the value of CTRL it has read                              *)
  user,       (* where the ioctl is                                         *)
  last,       (* the last ioctl that returned                               *)
  short,      (* ghost: the write() fits beside a third of the ring         *)
  raced,      (* ghost: as CLEAR started the FIFO, a write() or the handler *)
              (* had an older value of CTRL still to write back             *)
  noRoom,     (* ghost: the worker last found no room in the FIFO           *)
  missed,     (* ghost: the worker was last called while in RESET           *)
  next,       (* ghost: number of the next packet written                   *)
  due         (* ghost: number of the packet the FIFO has to get next       *)

ringVars   == <<ring, pread, pwrite>>
writerVars == <<writer, todo, wctrl, short>>
workerVars == <<worker, n, rd, kctrl, noRoom, missed>>
userVars   == <<user, last, raced>>
irqVars    == <<irq, hctrl>>
vars == <<tsout_stat, ringVars, ctrl, fifo, writerVars, workerVars, queued,
          irqVars, userVars, next, due>>

Inc(i) == (i + 1) % Ring

Avail == (pwrite - pread) % Ring

(* dvb_ringbuffer_free is one byte less than what is free, so the last     *)
(* place is never filled.                                                  *)
Free == Ring - Avail - 1

(* The lock tsout.lock is held by the worker's last section.               *)
Locked == worker \in {"locked", "set"}

Off      == [mode |-> "off", en |-> FALSE]
Enable(c) == [c EXCEPT !.en = TRUE]

Init ==
  /\ tsout_stat = "RESET"
  /\ ring = [i \in 0 .. Ring - 1 |-> 0] /\ pread = 0 /\ pwrite = 0
  /\ ctrl = Off /\ fifo = <<>>
  /\ writer = "idle" /\ todo = 0 /\ wctrl = Off
  /\ worker = "idle" /\ n = 0 /\ rd = 0 /\ kctrl = Off
  /\ queued = FALSE /\ irq = "idle" /\ hctrl = Off
  /\ user = "idle" /\ last = "none" /\ short = TRUE /\ raced = FALSE
  /\ noRoom = FALSE /\ missed = FALSE /\ next = 1 /\ due = 1

-----------------------------------------------------------------------------
(* dvb_video_write.                                                        *)

(* In RESET the data is dropped, and a return at once changes nothing.     *)
WriteBegin ==
  /\ writer = "idle" /\ tsout_stat # "RESET" /\ (Threads \/ user = "idle")
  /\ \E w \in 0 .. MaxWrite : todo' = w
  /\ next + todo' - 1 <= MaxPackets
  /\ writer' = "put"
  /\ short' = (todo' <= Ring - 1 - Ring \div 3)
  /\ UNCHANGED <<tsout_stat, ringVars, ctrl, fifo, wctrl, workerVars, queued,
                 irqVars, userVars, next, due>>

WritePut ==
  /\ writer = "put" /\ todo > 0 /\ Free > 0
  /\ ring' = [ring EXCEPT ![pwrite] = next]
  /\ pwrite' = Inc(pwrite)
  /\ next' = next + 1
  /\ todo' = todo - 1
  /\ UNCHANGED <<tsout_stat, pread, ctrl, fifo, writer, wctrl, short,
                 workerVars, queued, irqVars, userVars, due>>

(* O_NONBLOCK or a signal, the ring being full.                            *)
WriteBreak ==
  /\ writer = "put" /\ todo > 0 /\ Free = 0
  /\ todo' = 0
  /\ UNCHANGED <<tsout_stat, ringVars, ctrl, fifo, writer, wctrl, short,
                 workerVars, queued, irqVars, userVars, next, due>>

(* Fault: only a stream that is not running yet is started.                *)
WriteCheckFillOnly ==
  /\ writer = "put" /\ todo = 0
  /\ IF Avail > Ring \div 3
       THEN writer' = "enable" /\ wctrl' = ctrl
       ELSE writer' = "idle" /\ wctrl' = wctrl
  /\ UNCHANGED <<tsout_stat, ringVars, ctrl, fifo, todo, short, workerVars,
                 queued, irqVars, userVars, next, due>>

(* Fault: the stream is started at two thirds of the ring.                 *)
WriteCheckTwoThirds ==
  /\ writer = "put" /\ todo = 0
  /\ IF tsout_stat = "RUN" \/ Avail > (2 * Ring) \div 3
       THEN writer' = "enable" /\ wctrl' = ctrl
       ELSE writer' = "idle" /\ wctrl' = wctrl
  /\ UNCHANGED <<tsout_stat, ringVars, ctrl, fifo, todo, short, workerVars,
                 queued, irqVars, userVars, next, due>>

(* Everything written: is the interrupt to be enabled?  Reads CTRL.        *)
WriteCheck ==
  /\ writer = "put" /\ todo = 0
  /\ IF tsout_stat = "RUN" \/ Avail > Ring \div 3
       THEN writer' = "enable" /\ wctrl' = ctrl
       ELSE writer' = "idle" /\ wctrl' = wctrl
  /\ UNCHANGED <<tsout_stat, ringVars, ctrl, fifo, todo, short, workerVars,
                 queued, irqVars, userVars, next, due>>

WriteEnable ==
  /\ writer = "enable"
  /\ writer' = "idle"
  /\ ctrl' = Enable(wctrl)
  /\ UNCHANGED <<tsout_stat, ringVars, fifo, todo, wctrl, short, workerVars,
                 queued, irqVars, userVars, next, due>>

-----------------------------------------------------------------------------
(* fifo_worker.                                                            *)

WorkBegin ==
  /\ worker = "idle" /\ queued
  /\ queued' = FALSE
  /\ worker' = IF tsout_stat = "RESET" THEN "idle" ELSE "size"
  /\ missed' = (tsout_stat = "RESET")
  /\ UNCHANGED <<tsout_stat, ringVars, ctrl, fifo, writerVars, n, rd, kctrl,
                 irqVars, userVars, noRoom, next, due>>

(* Fault: the FIFO is filled to the brim.                                  *)
RoomFull == (FifoSize - Len(fifo)) % 65536

(* fifoFree, 16 bits wide.                                                 *)
Room == (FifoSize - Len(fifo) - 1) % 65536

WorkSize ==
  /\ worker = "size"
  /\ n' = IF Avail > Room THEN Room ELSE Avail
  /\ worker' = IF n' < 1 THEN "idle" ELSE "copy"
  /\ noRoom' = (Room < 1)
  /\ UNCHANGED <<tsout_stat, ringVars, ctrl, fifo, writerVars, rd, kctrl,
                 queued, irqVars, userVars, missed, next, due>>

(* A packet goes into the FIFO, or nowhere while the FIFO is held reset... *)
WorkCopy ==
  /\ worker = "copy" /\ n > 0
  /\ rd' = pread
  /\ fifo' = IF ctrl.mode = "run" THEN Append(fifo, ring[pread]) ELSE fifo
  /\ due' = ring[pread] + 1
  /\ worker' = "advance"
  /\ UNCHANGED <<tsout_stat, ringVars, ctrl, writerVars, n, kctrl, queued,
                 irqVars, userVars, noRoom, missed, next>>

(* ... and its place is free.                                              *)
WorkAdvance ==
  /\ worker = "advance"
  /\ pread' = Inc(rd)
  /\ n' = n - 1
  /\ worker' = "copy"
  /\ UNCHANGED <<tsout_stat, ring, pwrite, ctrl, fifo, writerVars, rd, kctrl,
                 queued, irqVars, userVars, noRoom, missed, next, due>>

(* The section under tsout.lock: check, set RUN and read CTRL, write CTRL. *)
WorkLock ==
  /\ worker = "copy" /\ n = 0
  /\ worker' = IF tsout_stat # "RESET" THEN "locked" ELSE "idle"
  /\ UNCHANGED <<tsout_stat, ringVars, ctrl, fifo, writerVars, n, rd, kctrl,
                 queued, irqVars, userVars, noRoom, missed, next, due>>

WorkRun ==
  /\ worker = "locked"
  /\ worker' = "set"
  /\ tsout_stat' = "RUN"
  /\ kctrl' = ctrl
  /\ UNCHANGED <<ringVars, ctrl, fifo, writerVars, n, rd, queued, irqVars,
                 userVars, noRoom, missed, next, due>>

(* Fault: the worker leaves the interrupt as it is.                        *)
WorkEnableNot ==
  /\ worker = "set"
  /\ worker' = "idle"
  /\ ctrl' = kctrl
  /\ UNCHANGED <<tsout_stat, ringVars, fifo, writerVars, n, rd, kctrl, queued,
                 irqVars, userVars, noRoom, missed, next, due>>

WorkEnable ==
  /\ worker = "set"
  /\ worker' = "idle"
  /\ ctrl' = Enable(kctrl)
  /\ UNCHANGED <<tsout_stat, ringVars, fifo, writerVars, n, rd, kctrl, queued,
                 irqVars, userVars, noRoom, missed, next, due>>

-----------------------------------------------------------------------------
(* The FIFO and its interrupt.                                             *)

(* The decoder takes a packet.                                             *)
Drain ==
  /\ ctrl.mode = "run" /\ fifo # <<>>
  /\ fifo' = Tail(fifo)
  /\ UNCHANGED <<tsout_stat, ringVars, ctrl, writerVars, workerVars, queued,
                 irqVars, userVars, next, due>>

IrqRead ==
  /\ irq = "idle" /\ ctrl.en /\ fifo = <<>>
  /\ irq' = "write"
  /\ hctrl' = ctrl
  /\ UNCHANGED <<tsout_stat, ringVars, ctrl, fifo, writerVars, workerVars,
                 queued, userVars, next, due>>

(* Disable the interrupt, then queue the work.                             *)
IrqDisable ==
  /\ irq = "write"
  /\ irq' = "queue"
  /\ ctrl' = [hctrl EXCEPT !.en = FALSE]
  /\ UNCHANGED <<tsout_stat, ringVars, fifo, writerVars, workerVars, queued,
                 hctrl, userVars, next, due>>

IrqQueue ==
  /\ irq = "queue"
  /\ irq' = "idle"
  /\ queued' = TRUE
  /\ UNCHANGED <<tsout_stat, ringVars, ctrl, fifo, writerVars, workerVars,
                 hctrl, userVars, next, due>>

-----------------------------------------------------------------------------
(* do_dvb_video_ioctl.                                                     *)

Begins(what) == /\ user = "idle" /\ what \in Ioctls
                /\ (Threads \/ writer = "idle")

(* VIDEO_SELECT_SOURCE of the demultiplexer: no lock, no waiting.          *)
DemuxReset ==
  /\ Begins("demux")
  /\ user' = "demux"
  /\ ctrl' = [mode |-> "reset", en |-> FALSE] /\ fifo' = <<>>
  /\ UNCHANGED <<tsout_stat, ringVars, writerVars, workerVars, queued, irqVars,
                 last, raced, next, due>>

DemuxStat ==
  /\ user = "demux"
  /\ user' = "idle" /\ last' = "demux"
  /\ tsout_stat' = "RESET"
  /\ UNCHANGED <<ringVars, ctrl, fifo, writerVars, workerVars, queued, irqVars,
                 raced, next, due>>

(* VIDEO_CLEAR_BUFFER, also for a source in memory.  Reset under the lock. *)
ClearReset ==
  /\ Begins("clear") /\ ~Locked
  /\ user' = "cancel"
  /\ ctrl' = [mode |-> "reset", en |-> FALSE] /\ fifo' = <<>>
  /\ tsout_stat' = "RESET"
  /\ UNCHANGED <<ringVars, writerVars, workerVars, queued, irqVars, last, raced,
                 next, due>>

(* Fault: the worker is not waited for.                                    *)
ClearNoWait ==
  /\ user = "cancel" /\ irq = "idle"
  /\ user' = "start"
  /\ queued' = FALSE
  /\ UNCHANGED <<tsout_stat, ringVars, ctrl, fifo, writerVars, workerVars,
                 irqVars, last, raced, next, due>>

(* msleep(50), long enough for a handler that is running, and              *)
(* cancel_work_sync, which waits for the worker.                           *)
ClearCancel ==
  /\ user = "cancel" /\ irq = "idle" /\ worker = "idle"
  /\ user' = "start"
  /\ queued' = FALSE
  /\ UNCHANGED <<tsout_stat, ringVars, ctrl, fifo, writerVars, workerVars,
                 irqVars, last, raced, next, due>>

(* Fault: only the interrupt's bit is set, as everywhere else.             *)
ClearStartBit ==
  /\ user = "start"
  /\ user' = "flush"
  /\ ctrl' = Enable(ctrl)
  /\ raced' = (writer = "enable" \/ irq = "write")
  /\ UNCHANGED <<tsout_stat, ringVars, fifo, writerVars, workerVars, queued,
                 irqVars, last, next, due>>

ClearStart ==
  /\ user = "start"
  /\ user' = "flush"
  /\ ctrl' = [mode |-> "run", en |-> FALSE]
  /\ raced' = (writer = "enable" \/ irq = "write")
  /\ UNCHANGED <<tsout_stat, ringVars, fifo, writerVars, workerVars, queued,
                 irqVars, last, next, due>>

(* dvb_ringbuffer_flush: from here on only what is written later plays.    *)
ClearFlush ==
  /\ user = "flush"
  /\ user' = "fill"
  /\ pread' = pwrite
  /\ due' = next
  /\ UNCHANGED <<tsout_stat, ring, pwrite, ctrl, fifo, writerVars, workerVars,
                 queued, irqVars, last, raced, next>>

ClearFill ==
  /\ user = "fill"
  /\ user' = "idle" /\ last' = "clear"
  /\ tsout_stat' = "FILL"
  /\ UNCHANGED <<ringVars, ctrl, fifo, writerVars, workerVars, queued, irqVars,
                 raced, next, due>>

-----------------------------------------------------------------------------
Writer  == WritePut \/ WriteCheck \/ WriteEnable
Worker  == \/ WorkBegin \/ WorkSize \/ WorkCopy \/ WorkAdvance \/ WorkLock
           \/ WorkRun \/ WorkEnable
Handler == IrqRead \/ IrqDisable \/ IrqQueue
User    == DemuxStat \/ ClearCancel \/ ClearStart \/ ClearFlush \/ ClearFill

Next == \/ WriteBegin \/ WriteBreak \/ Writer
        \/ Worker \/ Handler \/ Drain
        \/ DemuxReset \/ ClearReset \/ User

Spec == Init /\ [][Next]_vars

(* A write or ioctl under way goes on, the worker and the handler run, the *)
(* decoder plays.  Nobody has to begin a write or an ioctl, and no signal  *)
(* frees a blocked writer.                                                 *)
FairSpec == /\ Spec
            /\ WF_vars(Writer) /\ WF_vars(Worker) /\ WF_vars(Handler)
            /\ WF_vars(Drain) /\ WF_vars(User)

-----------------------------------------------------------------------------
(* Properties.                                                             *)

Ctrls == [mode : {"off", "reset", "run"}, en : BOOLEAN]

(* Every variable keeps its type.                                          *)
TypeOK ==
  /\ tsout_stat \in {"RESET", "FILL", "RUN"}
  /\ ring \in [0 .. Ring - 1 -> Nat]
  /\ pread \in 0 .. Ring - 1 /\ pwrite \in 0 .. Ring - 1
  /\ ctrl \in Ctrls /\ wctrl \in Ctrls /\ kctrl \in Ctrls /\ hctrl \in Ctrls
  /\ fifo \in Seq(Nat)
  /\ writer \in {"idle", "put", "enable"} /\ todo \in 0 .. MaxWrite
  /\ worker \in {"idle", "size", "copy", "advance", "locked", "set"}
  /\ n \in Nat /\ rd \in 0 .. Ring - 1
  /\ queued \in BOOLEAN /\ irq \in {"idle", "write", "queue"}
  /\ user \in {"idle", "demux", "cancel", "start", "flush", "fill"}
  /\ last \in {"none", "demux", "clear"} /\ short \in BOOLEAN /\ raced \in BOOLEAN
  /\ noRoom \in BOOLEAN /\ missed \in BOOLEAN /\ next \in Nat /\ due \in Nat

(* The worker takes the packets in the order they were written, none twice *)
(* and none overwritten before; those not taken before a CLEAR, and only   *)
(* those, are dropped - whatever writer, worker, handler and ioctls do in  *)
(* between.                                                                *)
PlaysNext ==
  [][(worker = "copy" /\ worker' = "advance") => ring[pread] = due]_vars

(* The packets in the ring that have not been given to the FIFO, in the    *)
(* order in which the reader comes to them.                                *)
Waiting ==
  LET first == IF worker = "advance" THEN Inc(pread) ELSE pread
  IN  [i \in 1 .. (pwrite - first) % Ring |-> ring[(first + i - 1) % Ring]]

(* Ring, worker and FIFO together are a queue in front of a queue: every   *)
(* packet written is given to the FIFO in its turn, or dropped by a CLEAR  *)
(* or a reset, and no other step changes what is waiting.                  *)
Output == INSTANCE OutputQueue
  WITH Capacity <- Ring - 1, Room <- FifoSize - 1,
       queue <- Waiting, decoder <- fifo, on <- ctrl.mode = "run"

ImplementsQueue == Output!Spec

(* The FIFO is never written full, though it is measured only once.        *)
FifoFits == Len(fifo) <= FifoSize - 1

(* After a CLEAR the FIFO is running, whoever else reads and writes back   *)
(* CTRL meanwhile, unless at the moment it was started somebody had an     *)
(* older value still to write.                                             *)
ClearStarts == user = "idle" /\ last = "clear" => ctrl.mode = "run" \/ raced

(* "start FIFO 1": after a CLEAR the FIFO is running.  It does not hold if *)
(* the CLEAR comes during a write().                                       *)
StartsFifo == user = "idle" /\ last = "clear" => ctrl.mode = "run"

(* "stop and reset FIFO 1": after selecting the demultiplexer the output   *)
(* stays in reset.                                                         *)
DemuxStops == user = "idle" /\ last = "demux" => tsout_stat = "RESET"

(* Packets are left in the ring of a running stream, with nothing under    *)
(* way and the interrupt disabled, only if the worker last ran when the    *)
(* FIFO had no room for one.                                               *)
Quiet == /\ worker = "idle" /\ ~queued /\ irq = "idle" /\ writer = "idle"
         /\ user = "idle" /\ last = "clear"

StallOnlyWithoutRoom ==
  Quiet /\ tsout_stat = "RUN" /\ ~ctrl.en => Avail = 0 \/ noRoom

(* Nothing goes on by itself.  A CLEAR and a write() have raced and left   *)
(* the FIFO in reset; or the interrupt is disabled and nobody is about to  *)
(* enable it, as the worker last found the FIFO without room or the stream *)
(* in RESET and returned, or as a write that does not fit beside a third   *)
(* of the ring sleeps in a full one, and would do so when it is done.      *)
Stalled == \/ raced /\ ctrl.mode # "run"
           \/ /\ worker = "idle" /\ ~queued /\ irq = "idle" /\ ~ctrl.en
              /\ noRoom \/ missed \/ (writer = "put" /\ Free = 0 /\ ~short)

(* What is in the ring of a running stream is played, or cleared, or left  *)
(* over in a stall.                                                        *)
PlaysOn == \A p \in 1 .. MaxPackets :
  (due <= p /\ p < next /\ tsout_stat = "RUN")
    ~> (due > p \/ tsout_stat # "RUN" \/ Stalled)

(* A write that finds the ring full is not blocked for ever, except in a   *)
(* stall: whoever could enable the interrupt has done so, or is that write.*)
WriteEnds == (writer = "put") ~> (writer # "put" \/ Stalled)
=============================================================================
