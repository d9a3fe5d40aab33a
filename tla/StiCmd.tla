------------------------------- MODULE StiCmd -------------------------------
(***************************************************************************)
(* Commands to the STi7109 decoder of a Full-Featured SAA716x card: the    *)
(* ioctl that writes a command into a window of the FPGA's memory, rings   *)
(* the decoder and waits for the result, the interrupt handler that takes  *)
(* the result out of the same window, and the decoder's firmware           *)
(* (sti7109_do_raw_cmd and sti7109_raw_cmd in saa716x_ff_cmd.c, and        *)
(* saa716x_ff_pci_irq).  The OSD commands are the same code with variables *)
(* and a window of their own.                                              *)
(*                                                                         *)
(* Commands are numbered in the order in which they are written.  The      *)
(* driver does not see the numbers: it cannot tell which command a result  *)
(* belongs to.                                                             *)
(***************************************************************************)
EXTENDS Integers

CONSTANTS
  Lens,       (* lengths a result may have                                  *)
  Habits,     (* what a firmware may do: say READY before the result        *)
              (* (early), raise a source between service and ICLR (overtakes) *)
  MaxCmds     (* bound: commands written                                    *)

ASSUME StiCmdAssumption ==
  /\ Lens \subseteq Nat \ {0} /\ Lens # {}
  /\ Habits \subseteq [early : BOOLEAN, overtakes : BOOLEAN]
  /\ MaxCmds \in Nat

VARIABLES
  call,           (* where the holder of cmd_lock is; "free": nobody        *)
  cmd,            (* the last command written                               *)
  result_max_len, (* sti7109->result_max_len                                *)
  cmd_ready,      (* sti7109->cmd_ready                                     *)
  result_avail,   (* sti7109->result_avail                                  *)
  result_len,     (* sti7109->result_len                                    *)
  result_data,    (* the command whose result is in it, 0: none             *)
  ret,            (* what the last call returned                            *)
  window,         (* ADDR_CMD_DATA: the command or the result in it         *)
  phi,            (* the decoder's interrupt ISR_CMD is set                 *)
  emi,            (* FPGA_ADDR_EMI_ISR: sources raised for the driver       *)
  irq,            (* the handler: "idle", "serve", or "clear" before ICLR   *)
  isr,            (* its phiISR: sources still to be served                 *)
  fw,             (* the firmware: its command, what it has yet to raise    *)
  habit,          (* of this firmware, for ever                             *)
  late            (* ghost: an older command's answer was outstanding when  *)
                  (* the flags were cleared for the last command            *)

callVars == <<call, cmd, result_max_len, ret, late>>
irqVars  == <<irq, isr>>
fwVars   == <<window, phi, fw, habit>>
vars     == <<callVars, irqVars, fwVars, cmd_ready, result_avail, result_len,
              result_data, emi>>

Sources == {"cmd", "ready"}

(* The handler looks at ISR_CMD before ISR_READY.                          *)
First(s) == IF "cmd" \in s THEN "cmd" ELSE "ready"

Clearing(s) == irq = "clear" /\ First(isr) = s

(* The answer to a command already taken has still to be raised or read.   *)
Outstanding == fw.due \/ ("cmd" \in emi /\ ~Clearing("cmd"))

Clamp(n) == IF n > result_max_len THEN result_max_len ELSE n

Init ==
  /\ call = "free" /\ cmd = 0 /\ result_max_len = 0
  /\ cmd_ready = FALSE /\ result_avail = FALSE
  /\ result_len = 0 /\ result_data = 0
  /\ ret = [ok |-> FALSE, asked |-> 0, len |-> 0, data |-> 0]
  /\ window = [cmd |-> 0, res |-> 0, len |-> 0] /\ phi = FALSE
  /\ emi = {} /\ irq = "idle" /\ isr = {}
  /\ fw = [ack |-> TRUE, due |-> FALSE, job |-> 0]
  /\ late = FALSE /\ habit \in Habits

-----------------------------------------------------------------------------
(* The caller, holding cmd_lock.                                           *)

(* sti7109_raw_cmd; asked is cmd->result_len, 0 for no result wanted.      *)
Call(asked) ==
  /\ call = "free"
  /\ call' = "ready"
  /\ result_max_len' = asked
  /\ UNCHANGED <<cmd, ret, late, irqVars, fwVars, cmd_ready, result_avail,
                 result_len, result_data, emi>>

(* A signal, or a second has passed: -ERESTARTSYS or -EIO.  The flag may   *)
(* rise between the signal and the return.                                 *)
GiveUp ==
  /\ call \in {"ready", "result"}
  /\ call' = "free"
  /\ ret' = [ok |-> FALSE, asked |-> result_max_len, len |-> 0, data |-> 0]
  /\ result_len' = IF call = "result" THEN 0 ELSE result_len
  /\ UNCHANGED <<cmd, result_max_len, late, irqVars, fwVars, cmd_ready,
                 result_avail, result_data, emi>>

(* Fault: result_avail keeps its value.                                    *)
ClearReadyOnly ==
  /\ call = "ready" /\ cmd_ready /\ cmd < MaxCmds
  /\ call' = "write"
  /\ cmd_ready' = FALSE
  /\ late' = Outstanding
  /\ UNCHANGED <<cmd, result_max_len, ret, irqVars, fwVars, result_avail,
                 result_len, result_data, emi>>

(* Fault: the command is written whether or not the decoder is ready.      *)
ClearUnready ==
  /\ call = "ready" /\ cmd < MaxCmds
  /\ call' = "write"
  /\ cmd_ready' = FALSE /\ result_avail' = FALSE
  /\ late' = Outstanding
  /\ UNCHANGED <<cmd, result_max_len, ret, irqVars, fwVars, result_len,
                 result_data, emi>>

ClearFlags ==
  /\ call = "ready" /\ cmd_ready /\ cmd < MaxCmds
  /\ call' = "write"
  /\ cmd_ready' = FALSE /\ result_avail' = FALSE
  /\ late' = Outstanding
  /\ UNCHANGED <<cmd, result_max_len, ret, irqVars, fwVars, result_len,
                 result_data, emi>>

(* Write the command and ring.  The window's first half word is now the    *)
(* command's length.                                                       *)
Write ==
  /\ call = "write"
  /\ call' = IF result_max_len > 0 THEN "result" ELSE "copy"
  /\ cmd' = cmd + 1
  /\ \E n \in Lens : window' = [cmd |-> cmd', res |-> 0, len |-> n]
  /\ phi' = TRUE
  /\ UNCHANGED <<result_max_len, ret, late, irqVars, fw, habit, cmd_ready,
                 result_avail, result_len, result_data, emi>>

(* Fault: what the wait returned is not looked at.                         *)
AcceptAnyway ==
  /\ call = "result"
  /\ call' = "copy"
  /\ result_len' = Clamp(result_len)
  /\ UNCHANGED <<cmd, result_max_len, ret, late, irqVars, fwVars, cmd_ready,
                 result_avail, result_data, emi>>

Accept ==
  /\ call = "result" /\ result_avail
  /\ call' = "copy"
  /\ result_len' = Clamp(result_len)
  /\ UNCHANGED <<cmd, result_max_len, ret, late, irqVars, fwVars, cmd_ready,
                 result_avail, result_data, emi>>

(* The end of sti7109_raw_cmd: the result goes to the user.                *)
Return ==
  /\ call = "copy"
  /\ call' = "free"
  /\ ret' = [ok |-> TRUE, asked |-> result_max_len, len |-> result_len,
             data |-> result_data]
  /\ UNCHANGED <<cmd, result_max_len, late, irqVars, fwVars, cmd_ready,
                 result_avail, result_len, result_data, emi>>

-----------------------------------------------------------------------------
(* saa716x_ff_pci_irq.                                                     *)

IrqEnter ==
  /\ irq = "idle" /\ emi # {}
  /\ irq' = "serve" /\ isr' = emi
  /\ UNCHANGED <<callVars, fwVars, cmd_ready, result_avail, result_len,
                 result_data, emi>>

IrqCmd ==
  /\ irq = "serve" /\ First(isr) = "cmd"
  /\ irq' = "clear"
  /\ result_data' = window.res /\ result_len' = window.len
  /\ result_avail' = TRUE
  /\ UNCHANGED <<isr, callVars, fwVars, cmd_ready, emi>>

IrqReady ==
  /\ irq = "serve" /\ First(isr) = "ready"
  /\ irq' = "clear"
  /\ cmd_ready' = TRUE
  /\ UNCHANGED <<isr, callVars, fwVars, result_avail, result_len, result_data,
                 emi>>

(* Fault: everything raised is cleared, served or not.                     *)
IrqClearAll ==
  /\ irq = "clear"
  /\ emi' = {}
  /\ isr' = isr \ {First(isr)}
  /\ irq' = IF isr' = {} THEN "idle" ELSE "serve"
  /\ UNCHANGED <<callVars, fwVars, cmd_ready, result_avail, result_len,
                 result_data>>

(* ICLR of the source just served.                                         *)
IrqClear ==
  /\ irq = "clear"
  /\ emi' = emi \ {First(isr)}
  /\ isr' = isr \ {First(isr)}
  /\ irq' = IF isr' = {} THEN "idle" ELSE "serve"
  /\ UNCHANGED <<callVars, fwVars, cmd_ready, result_avail, result_len,
                 result_data>>

-----------------------------------------------------------------------------
(* The firmware, as the driver relies on it: it takes a command when it    *)
(* has finished the one before, may or may not have a result, and raises   *)
(* READY once for each command, and once after booting.                    *)

FwTake ==
  /\ phi /\ ~fw.ack /\ ~fw.due
  /\ phi' = FALSE
  /\ \E due \in BOOLEAN : fw' = [ack |-> TRUE, due |-> due, job |-> window.cmd]
  /\ UNCHANGED <<habit, window, callVars, irqVars, cmd_ready, result_avail,
                 result_len, result_data, emi>>

FwResult ==
  /\ fw.due /\ (habit.overtakes \/ ~Clearing("cmd"))
  /\ \E n \in Lens : window' = [cmd |-> 0, res |-> fw.job, len |-> n]
  /\ emi' = emi \cup {"cmd"}
  /\ fw' = [fw EXCEPT !.due = FALSE]
  /\ UNCHANGED <<habit, phi, callVars, irqVars, cmd_ready, result_avail, result_len,
                 result_data>>

FwReady ==
  /\ fw.ack /\ (habit.early \/ ~fw.due) /\ (habit.overtakes \/ ~Clearing("ready"))
  /\ emi' = emi \cup {"ready"}
  /\ fw' = [fw EXCEPT !.ack = FALSE]
  /\ UNCHANGED <<habit, window, phi, callVars, irqVars, cmd_ready, result_avail,
                 result_len, result_data>>

-----------------------------------------------------------------------------
Caller   == ClearFlags \/ Write \/ Accept \/ Return
Handler  == IrqEnter \/ IrqCmd \/ IrqReady \/ IrqClear
Firmware == FwTake \/ FwResult \/ FwReady

Next ==
  \/ \E asked \in Lens \cup {0} : Call(asked)
  \/ GiveUp \/ Caller \/ Handler \/ Firmware

Spec == Init /\ [][Next]_vars

(* The caller goes on, the handler serves what is raised, the firmware     *)
(* works; nobody has to call.                                              *)
FairSpec == Spec /\ WF_vars(Caller) /\ WF_vars(Handler) /\ WF_vars(Firmware)

-----------------------------------------------------------------------------
(* Properties.                                                             *)

(* Every variable keeps its type.                                          *)
TypeOK ==
  /\ call \in {"free", "ready", "write", "result", "copy"}
  /\ cmd \in 0 .. MaxCmds
  /\ result_max_len \in Lens \cup {0}
  /\ cmd_ready \in BOOLEAN /\ result_avail \in BOOLEAN
  /\ result_len \in Nat /\ result_data \in Nat
  /\ ret \in [ok : BOOLEAN, asked : Nat, len : Nat, data : Nat]
  /\ window \in [cmd : Nat, res : Nat, len : Nat]
  /\ phi \in BOOLEAN /\ emi \subseteq Sources
  /\ irq \in {"idle", "serve", "clear"} /\ isr \subseteq Sources
  /\ fw \in [ack : BOOLEAN, due : BOOLEAN, job : Nat]
  /\ late \in BOOLEAN /\ habit \in Habits

(* A call that asked for a result and succeeds has the result of its own   *)
(* command, whatever earlier calls timed out or were interrupted, as long  *)
(* as no older answer was outstanding when the flags were cleared for it.  *)
ResultIsOwn ==
  ret.ok /\ ret.asked > 0 /\ ~late /\ call \in {"free", "ready"}
    => ret.data = cmd

(* No command is begun while an older answer is outstanding: cmd_ready     *)
(* alone sees to that, if READY is the last the firmware has to say about  *)
(* a command.                                                              *)
ReadyGuards == ~habit.early => ~late

(* What the firmware takes from the window is the command written last and *)
(* not a result written over it.                                           *)
CommandIntact ==
  [][(phi /\ ~phi') => (late \/ fw'.job = cmd)]_vars

(* Of windows, flags and interrupts nothing is left to a caller of the     *)
(* channel: with a firmware that says READY last, it is a call executed    *)
(* once and answered to whom it belongs, whoever gave up before.  Of other *)
(* firmware nothing is shown to the specification.                         *)
Shown(v) == IF habit.early THEN 0 ELSE v

Remote == INSTANCE RemoteCall
  WITH given <- Shown(cmd), executed <- Shown(fw.job),
       open <- ~habit.early /\ call \in {"result", "copy"},
       answer <- Shown(IF ret.ok /\ ret.asked > 0 THEN ret.data ELSE 0)

ImplementsCall == Remote!Spec

(* The channel does not die: a READY given is a READY seen, and commands   *)
(* become possible again after any time-out.                               *)
ReadyReturns == []<>(cmd_ready \/ habit.overtakes)

(* "not enough space in result buffer": a call returns no more than was    *)
(* asked for.                                                              *)
ResultFits == ret.ok => ret.len <= ret.asked
=============================================================================
