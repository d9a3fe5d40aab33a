------------------------------ MODULE I2cBus ------------------------------
(***************************************************************************)
(* One I2C bus of a TBSECP3 card (tbsecp3-i2c.c): i2c_xfer cuts messages   *)
(* into chunks, gives each to the controller and sleeps until the          *)
(* interrupt handler sets bus->done or a second has passed.                *)
(*                                                                         *)
(* A completion carries no identity: the handler sets the same flag for    *)
(* the chunk waited for and for one given up earlier.  The model labels    *)
(* the controller's command and its answer "cur" or "old" relative to the  *)
(* last write of the CTRL register.                                        *)
(***************************************************************************)
EXTENDS Integers, Sequences

CONSTANTS Clients,      (* threads that transfer                            *)
          Nobody,       (* the mutex is free                                *)
          Transactions  (* sequences of messages [rd, len] they ask for     *)

MaxLen  == 65535   (* i2c_msg.len is 16 bits wide *)
Message == [rd : BOOLEAN, len : 0 .. MaxLen]

ASSUME I2cAssumption ==
  /\ Nobody \notin Clients
  /\ Transactions \subseteq Seq(Message) /\ <<>> \notin Transactions

VARIABLES
  lock,      (* bus->lock: the client inside i2c_xfer, or Nobody            *)
  done,      (* bus->done                                                   *)
  pc,        (* the lock holder: "prepare", "cleared" (done is 0), "wait"   *)
  msgs, i,   (* its messages, and the index of the current one              *)
  remaining, (* bytes of the message not yet transferred                    *)
  start,     (* i2c_ctrl.bits.start                                         *)
  engine,    (* the controller's command: "none", "cur" or "old"            *)
  answer,    (* the command CTRL and DATA report on: "none", "cur", "old"   *)
  nack,      (* the nack bit of that report                                 *)
  intStat,   (* this bus's bit of INT_STAT                                  *)
  irq,       (* the handler: "idle", or "acked" before done = 1             *)
  result,    (* what the last i2c_xfer returned: "none", "ok", "eio"        *)
  frame,     (* ghost: the bus: bytes since START, and whether not STOPped  *)
  stale,     (* ghost: an older command was pending when done was cleared   *)
  late,      (* ghost: the last command ended unanswered                    *)
  verified   (* ghost: every undisturbed chunk was answered with ack        *)

xferRest == <<lock, msgs, i, remaining, start, result>>
xferVars == <<pc, xferRest>>
hwVars   == <<engine, answer, nack, intStat>>
ghosts   == <<frame, stale, late, verified>>
vars     == <<xferVars, done, irq, hwVars, ghosts>>

NoFrame == [bytes |-> 0, open |-> FALSE]

XferMax(m) == IF m.rd THEN 4 ELSE 6

(* Fault: a full last chunk is not seen as the last.                       *)
IsLastStrict(m, r) == r < XferMax(m)
IsLast(m, r) == r <= XferMax(m)

ChunkLen(m, r) == IF r > XferMax(m) THEN XferMax(m) ELSE r

(* The report is this command's, and an acknowledgement.                   *)
Positive == answer = "cur" /\ ~nack

Quiet == engine = "none" /\ ~intStat /\ irq = "idle"

Init ==
  /\ lock = Nobody /\ done = FALSE /\ pc = "prepare"
  /\ msgs = <<>> /\ i = 1 /\ remaining = 0 /\ start = FALSE
  /\ engine = "none" /\ answer = "none" /\ nack = FALSE
  /\ intStat = FALSE /\ irq = "idle" /\ result = "none"
  /\ frame = NoFrame /\ stale = FALSE /\ late = FALSE /\ verified = TRUE

-----------------------------------------------------------------------------
(* i2c_xfer.                                                               *)

(* STAT and CTRL are one register.  Reading it restores the controller to  *)
(* its original state, says the driver: a command still running may or may *)
(* not be dropped.                                                         *)
ReadStat == engine' \in {engine, "none"}

Enter(c) ==
  /\ lock = Nobody
  /\ lock' = c
  /\ \E t \in Transactions : msgs' = t /\ remaining' = t[1].len
  /\ pc' = "prepare" /\ i' = 1 /\ start' = TRUE
  /\ result' = "none" /\ verified' = TRUE
  /\ ReadStat
  /\ UNCHANGED <<done, irq, answer, nack, intStat, frame, stale, late>>

(* The chunk's data is in the DATA register; done is cleared before CTRL.  *)
ClearDone ==
  /\ lock # Nobody /\ pc = "prepare"
  /\ done' = FALSE
  /\ pc' = "cleared"
  /\ stale' = ~Quiet
  /\ UNCHANGED <<xferRest, irq, hwVars, frame, late, verified>>

(* Writing CTRL starts the chunk; a command still running is replaced.     *)
Issue ==
  /\ lock # Nobody /\ pc = "cleared"
  /\ pc' = "wait"
  /\ engine' = "cur"
  /\ answer' = IF answer = "cur" THEN "old" ELSE answer
  /\ frame' = [bytes |-> (IF start THEN 0 ELSE frame.bytes)
                           + ChunkLen(msgs[i], remaining),
               open  |-> ~IsLast(msgs[i], remaining)]
  /\ UNCHANGED <<xferRest, done, irq, nack, intStat, stale, late, verified>>

(* Fault: done is not cleared.                                             *)
StartWithoutClear ==
  \/ /\ lock # Nobody /\ pc = "prepare"
     /\ pc' = "cleared" /\ stale' = ~Quiet
     /\ UNCHANGED <<xferRest, done, irq, hwVars, frame, late, verified>>
  \/ Issue

(* Fault: CTRL is written before done is cleared.                          *)
IssueThenClear ==
  \/ /\ lock # Nobody /\ pc = "prepare"
     /\ pc' = "cleared" /\ stale' = ~Quiet
     /\ engine' = "cur"
     /\ answer' = IF answer = "cur" THEN "old" ELSE answer
     /\ frame' = [bytes |-> (IF start THEN 0 ELSE frame.bytes)
                              + ChunkLen(msgs[i], remaining),
                  open  |-> ~IsLast(msgs[i], remaining)]
     /\ UNCHANGED <<xferRest, done, irq, nack, intStat, late, verified>>
  \/ /\ lock # Nobody /\ pc = "cleared"
     /\ pc' = "wait" /\ done' = FALSE
     /\ UNCHANGED <<xferRest, irq, hwVars, ghosts>>

StartChunk == ClearDone \/ Issue

Return(r) ==
  /\ lock' = Nobody /\ pc' = "prepare" /\ result' = r
  /\ UNCHANGED <<msgs, i, remaining, start>>

(* A second has passed and done is still 0.                                *)
Timeout ==
  /\ lock # Nobody /\ pc = "wait" /\ ~done
  /\ ReadStat
  /\ late' = TRUE
  /\ Return("eio")
  /\ UNCHANGED <<done, irq, answer, nack, intStat, frame, stale, verified>>

(* done = 1, and CTRL reports a nack.  A report read while the command is  *)
(* still running may say anything.                                         *)
Nacked ==
  /\ lock # Nobody /\ pc = "wait" /\ done
  /\ answer = "cur" => nack
  /\ late' = stale
  /\ ReadStat
  /\ Return("eio")
  /\ UNCHANGED <<done, irq, answer, nack, intStat, frame, stale, verified>>

(* Fault: the chunk's length is not taken off what remains.                *)
AckedNoProgress ==
  /\ lock # Nobody /\ pc = "wait" /\ done
  /\ answer = "cur" => ~nack
  /\ late' = stale /\ verified' = (verified /\ (stale \/ Positive))
  /\ ReadStat
  /\ start' = FALSE /\ pc' = "prepare"
  /\ UNCHANGED <<lock, msgs, i, remaining, result, done, irq, answer, nack,
                 intStat, frame, stale>>

(* Fault: the nack bit is not looked at.                                   *)
AckedUnchecked ==
  LET left == remaining - ChunkLen(msgs[i], remaining) IN
  /\ lock # Nobody /\ pc = "wait" /\ done
  /\ late' = stale /\ verified' = (verified /\ (stale \/ Positive))
  /\ ReadStat
  /\ \/ /\ left = 0 /\ i = Len(msgs)
        /\ Return("ok")
     \/ /\ left # 0 \/ i # Len(msgs)
        /\ pc' = "prepare" /\ start' = (left = 0)
        /\ i' = IF left = 0 THEN i + 1 ELSE i
        /\ remaining' = IF left = 0 THEN msgs[i + 1].len ELSE left
        /\ UNCHANGED <<lock, msgs, result>>
  /\ UNCHANGED <<done, irq, answer, nack, intStat, frame, stale>>

(* done = 1 and no nack: on with the next chunk, the next message, or out. *)
Acked ==
  LET left == remaining - ChunkLen(msgs[i], remaining) IN
  /\ lock # Nobody /\ pc = "wait" /\ done
  /\ answer = "cur" => ~nack
  /\ late' = stale /\ verified' = (verified /\ (stale \/ Positive))
  /\ ReadStat
  /\ \/ /\ left = 0 /\ i = Len(msgs)
        /\ Return("ok")
     \/ /\ left = 0 /\ i < Len(msgs)
        /\ i' = i + 1 /\ remaining' = msgs[i + 1].len
        /\ start' = TRUE /\ pc' = "prepare"
        /\ UNCHANGED <<lock, msgs, result>>
     \/ /\ left # 0
        /\ remaining' = left
        /\ start' = FALSE /\ pc' = "prepare"
        /\ UNCHANGED <<lock, msgs, i, result>>
  /\ UNCHANGED <<done, irq, answer, nack, intStat, frame, stale>>

-----------------------------------------------------------------------------
(* The controller and the interrupt handler.                               *)

Complete ==
  /\ engine # "none"
  /\ answer' = engine /\ engine' = "none"
  /\ nack' \in BOOLEAN
  /\ intStat' = TRUE
  /\ UNCHANGED <<xferVars, done, irq, ghosts>>

IrqAck ==
  /\ irq = "idle" /\ intStat
  /\ intStat' = FALSE /\ irq' = "acked"
  /\ UNCHANGED <<xferVars, done, engine, answer, nack, ghosts>>

IrqDone ==
  /\ irq = "acked"
  /\ irq' = "idle" /\ done' = TRUE
  /\ UNCHANGED <<xferVars, hwVars, ghosts>>

-----------------------------------------------------------------------------
Holder  == StartChunk \/ Timeout \/ Nacked \/ Acked
Handler == IrqAck \/ IrqDone

Next == (\E c \in Clients : Enter(c)) \/ Holder \/ Complete \/ Handler

Spec == Init /\ [][Next]_vars

(* The lock holder runs, its timer included; the handler runs when an      *)
(* interrupt is raised; the controller owes no answer.                     *)
FairSpec == Spec /\ WF_vars(Holder) /\ WF_vars(Handler)

-----------------------------------------------------------------------------
(* Properties.                                                             *)

(* Every variable keeps its type.                                          *)
TypeOK ==
  /\ lock \in Clients \cup {Nobody} /\ pc \in {"prepare", "cleared", "wait"}
  /\ done \in BOOLEAN /\ start \in BOOLEAN /\ nack \in BOOLEAN
  /\ msgs \in Transactions \cup {<<>>} /\ i \in Nat \ {0}
  /\ remaining \in 0 .. MaxLen
  /\ engine \in {"none", "cur", "old"} /\ answer \in {"none", "cur", "old"}
  /\ intStat \in BOOLEAN /\ irq \in {"idle", "acked"}
  /\ result \in {"none", "ok", "eio"}
  /\ frame \in [bytes : Nat, open : BOOLEAN]
  /\ stale \in BOOLEAN /\ late \in BOOLEAN /\ verified \in BOOLEAN

Waiting == lock # Nobody /\ pc = "wait"

(* When i2c_xfer finds done set, the CTRL and DATA registers report on the *)
(* chunk it waits for, unless an older command was still pending when this *)
(* one was given to the controller.                                        *)
CompletionIsOwn == Waiting /\ done /\ ~stale => answer = "cur"

(* Only a transfer that timed out, or one disturbed in the same way, can   *)
(* leave something pending: an acknowledged or refused chunk leaves the    *)
(* flag, the interrupt and the controller quiet for the next one.          *)
DisturbedOnlyAfterTimeout == stale => late

(* The answer to the chunk waited for always reaches the waiter: the flag  *)
(* is set, or an interrupt that will set it is on its way.                 *)
NoLostCompletion ==
  Waiting /\ answer = "cur" => done \/ intStat \/ irq = "acked"

(* START ... STOP on the bus encloses one whole message: STOP goes out     *)
(* with the chunk that carries its last byte, and with no other.           *)
FrameIsMessage ==
  Waiting => /\ frame.bytes <= msgs[i].len
             /\ frame.open <=> frame.bytes < msgs[i].len

(* i2c_xfer returns num only if every chunk was answered and acknowledged  *)
(* (disturbed chunks aside) and leaves the bus with a STOP.                *)
OkIsAnswered == result = "ok" => verified /\ ~frame.open

(* i2c_xfer gives the bus back, whatever the controller does.              *)
Released == \A c \in Clients : lock = c ~> lock # c
=============================================================================
