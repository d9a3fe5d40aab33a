------------------------------ MODULE StiData ------------------------------
(***************************************************************************)
(* Bulk data to the STi7109 decoder of a Full-Featured SAA716x card: the   *)
(* ioctl that cuts the data into blocks, writes them alternately into the  *)
(* two halves of a window and rings for each, the handler that sets        *)
(* block_done and data_ready, and the decoder's firmware                   *)
(* (sti7109_do_raw_data in saa716x_ff_cmd.c, saa716x_ff_pci_irq).          *)
(*                                                                         *)
(* The driver writes the next block while the firmware reads the last one: *)
(* one acknowledgement, without an identity, is all that keeps them apart. *)
(*                                                                         *)
(* The names differ from those of FifoOut, the card's other stream, so     *)
(* that one module can extend both.                                        *)
(***************************************************************************)
EXTENDS Integers

CONSTANTS
  BlockSize, (* data bytes of a full block                                  *)
  Lengths,   (* values of data->data_length                                 *)
  Handles,   (* number of values data_handle has (2^16)                     *)
  MaxXfers   (* bound: transfers begun                                      *)

ASSUME StiDataAssumption ==
  /\ BlockSize \in Nat \ {0} /\ Lengths \subseteq Nat
  /\ Handles \in Nat \ {0} /\ MaxXfers \in Nat

VARIABLES
  call,        (* where the holder of data_lock is; "free": nobody          *)
  len,         (* data->data_length                                         *)
  blockIndex,  (* the local blockIndex                                      *)
  activeBlock, (* the half the next block goes to                           *)
  data_handle, (* sti7109->data_handle                                      *)
  data_ready,  (* sti7109->data_ready                                       *)
  block_done,  (* sti7109->block_done                                       *)
  half,        (* the two halves: which block is in each                    *)
  phi,         (* sources rung for the decoder                              *)
  emi,         (* FPGA_ADDR_EMI_ISR: sources raised for the driver          *)
  handler,     (* the handler: "idle", "serve", or "clear" before ICLR      *)
  isr,         (* its phiISR: sources still to be served                    *)
  fw,          (* the firmware: the half it reads (next), what it has got   *)
  stored,      (* the last data the firmware has completely                 *)
  ret,         (* what the last call returned                               *)
  xfer,        (* ghost: number of the last transfer begun                  *)
  crossed,     (* ghost: an answer has crossed with the time-out it came    *)
               (* too late for, and no transfer has begun in peace since    *)
  lost         (* ghost: the last READY was erased by ICLR before it was    *)
               (* served, or used up by a transfer that ended as a success  *)
               (* before the firmware had all of its data                   *)

driverVars == <<len, blockIndex, activeBlock, data_handle, half, ret, xfer>>
isrVars    == <<handler, isr>>
fwVars     == <<fw, stored, lost>>
dataVars   == <<call, driverVars, data_ready, block_done, phi, emi, isrVars,
                fwVars, crossed>>

Sources == {"block", "data"}

First(s) == IF "block" \in s THEN "block" ELSE "data"
Clearing(s) == handler = "clear" /\ First(isr) = s

(* Fault: a block more when the length is a multiple of the block size.    *)
NumBlocksAlwaysMore(n) == n \div BlockSize + 1

NumBlocks(n) == n \div BlockSize + (IF n % BlockSize > 0 THEN 1 ELSE 0)

(* Only the last block may be shorter.                                     *)
SizeOf(n, i) == IF n % BlockSize > 0 /\ i = NumBlocks(n) - 1
                THEN n % BlockSize ELSE BlockSize

(* The firmware has answered, or is about to: a cancellation comes late.   *)
Answered == \/ "block" \in emi \/ block_done
            \/ fw.ready \/ "data" \in emi \/ data_ready

(* Nothing is left over from the transfers before.                         *)
Settled == /\ phi = {} /\ emi = {} /\ ~block_done
           /\ ~fw.reading /\ ~fw.ready /\ fw.half = 0

Nothing == [xfer |-> 0, handle |-> 0, index |-> 0, num |-> 0, size |-> 0]
Data(x, h, n) == [xfer |-> x, handle |-> h, len |-> n]

DataInit ==
  /\ call = "free" /\ len = 0 /\ blockIndex = 0 /\ activeBlock = 0
  /\ data_handle = 0 /\ data_ready = FALSE /\ block_done = FALSE
  /\ half = [b \in {0, 1} |-> Nothing]
  /\ phi = {} /\ emi = {} /\ handler = "idle" /\ isr = {}
  /\ fw = [half |-> 0, reading |-> FALSE, got |-> 0, ready |-> TRUE]
  /\ stored = Data(0, 0, 0)
  /\ ret = [ok |-> FALSE, data |-> Data(0, 0, 0)]
  /\ xfer = 0 /\ crossed = FALSE /\ lost = FALSE

-----------------------------------------------------------------------------
(* The caller, holding data_lock.                                          *)

Call(n) ==
  /\ call = "free"
  /\ call' = "ready" /\ len' = n
  /\ UNCHANGED <<blockIndex, activeBlock, data_handle, half, ret, xfer,
                 data_ready, block_done, phi, emi, isrVars, fwVars, crossed>>

Fail ==
  /\ call' = "free"
  /\ ret' = [ok |-> FALSE, data |-> Data(0, 0, 0)]

(* A second has passed, or a signal.                                       *)
NotReady ==
  /\ call = "ready"
  /\ Fail
  /\ UNCHANGED <<len, blockIndex, activeBlock, data_handle, half, xfer,
                 data_ready, block_done, phi, emi, isrVars, fwVars, crossed>>

Begin ==
  /\ call = "ready" /\ data_ready /\ xfer < MaxXfers
  /\ data_ready' = FALSE
  /\ call' = IF NumBlocks(len) > 0 THEN "fill" ELSE "last"
  /\ blockIndex' = 0 /\ activeBlock' = 0
  /\ xfer' = xfer + 1
  /\ crossed' = (crossed /\ ~Settled)
  /\ UNCHANGED <<len, data_handle, half, ret, block_done, phi, emi, isrVars,
                 fwVars>>

(* Fault: both blocks go to the same half.                                 *)
FillSameHalf ==
  /\ call = "fill"
  /\ half' = [half EXCEPT ![activeBlock] =
       [xfer |-> xfer, handle |-> data_handle, index |-> blockIndex,
        num |-> NumBlocks(len), size |-> SizeOf(len, blockIndex)]]
  /\ call' = IF blockIndex > 0 THEN "wait" ELSE "ring"
  /\ UNCHANGED <<len, blockIndex, activeBlock, data_handle, ret, xfer,
                 data_ready, block_done, phi, emi, isrVars, fwVars, crossed>>

(* Write header and data of a block.                                       *)
Fill ==
  /\ call = "fill"
  /\ half' = [half EXCEPT ![activeBlock] =
       [xfer |-> xfer, handle |-> data_handle, index |-> blockIndex,
        num |-> NumBlocks(len), size |-> SizeOf(len, blockIndex)]]
  /\ activeBlock' = 1 - activeBlock
  /\ call' = IF blockIndex > 0 THEN "wait" ELSE "ring"
  /\ UNCHANGED <<len, blockIndex, data_handle, ret, xfer, data_ready,
                 block_done, phi, emi, isrVars, fwVars, crossed>>

(* The block before has been read.                                         *)
BlockDone ==
  /\ call = "wait" /\ block_done
  /\ call' = "ring"
  /\ UNCHANGED <<driverVars, data_ready, block_done, phi, emi, isrVars, fwVars,
                 crossed>>

ClearDone ==
  /\ call = "ring"
  /\ block_done' = FALSE
  /\ call' = "rung"
  /\ UNCHANGED <<driverVars, data_ready, phi, emi, isrVars, fwVars, crossed>>

RingDecoder ==
  /\ call = "rung"
  /\ phi' = phi \cup {"block"}
  /\ blockIndex' = blockIndex + 1
  /\ call' = IF blockIndex' < NumBlocks(len) THEN "fill" ELSE "last"
  /\ UNCHANGED <<len, activeBlock, data_handle, half, ret, xfer, data_ready,
                 block_done, emi, isrVars, fwVars, crossed>>

Finish ==
  /\ call = "last" /\ block_done
  /\ call' = "free"
  /\ block_done' = FALSE
  /\ ret' = [ok |-> TRUE, data |-> Data(xfer, data_handle, len)]
  /\ data_handle' = (data_handle + 1) % Handles
  /\ lost' = (lost \/ stored # ret'.data)
  /\ UNCHANGED <<len, blockIndex, activeBlock, half, xfer, data_ready, phi,
                 emi, isrVars, fw, stored, crossed>>

(* Fault: the firmware is not told to cancel.                              *)
TimeoutSilent ==
  /\ call \in {"wait", "last"} /\ ~block_done
  /\ Fail
  /\ crossed' = (crossed \/ Answered)
  /\ UNCHANGED <<len, blockIndex, activeBlock, data_handle, half, xfer, phi,
                 data_ready, block_done, emi, isrVars, fwVars>>

(* A second without an acknowledgement: tell the firmware to cancel.       *)
Timeout ==
  /\ call \in {"wait", "last"} /\ ~block_done
  /\ Fail
  /\ phi' = phi \cup {"data"}
  /\ crossed' = (crossed \/ Answered)
  /\ UNCHANGED <<len, blockIndex, activeBlock, data_handle, half, xfer,
                 data_ready, block_done, emi, isrVars, fwVars>>

-----------------------------------------------------------------------------
(* saa716x_ff_pci_irq.                                                     *)

IrqEnter ==
  /\ handler = "idle" /\ emi # {}
  /\ handler' = "serve" /\ isr' = emi
  /\ UNCHANGED <<call, driverVars, data_ready, block_done, phi, emi, fwVars,
                 crossed>>

IrqBlock ==
  /\ handler = "serve" /\ First(isr) = "block"
  /\ handler' = "clear"
  /\ block_done' = TRUE
  /\ UNCHANGED <<isr, call, driverVars, data_ready, phi, emi, fwVars, crossed>>

IrqData ==
  /\ handler = "serve" /\ First(isr) = "data"
  /\ handler' = "clear"
  /\ data_ready' = TRUE
  /\ UNCHANGED <<isr, call, driverVars, block_done, phi, emi, fwVars, crossed>>

IrqClear ==
  /\ handler = "clear"
  /\ emi' = emi \ {First(isr)}
  /\ isr' = isr \ {First(isr)}
  /\ handler' = IF isr' = {} THEN "idle" ELSE "serve"
  /\ UNCHANGED <<call, driverVars, data_ready, block_done, phi, fwVars,
                 crossed>>

-----------------------------------------------------------------------------
(* The firmware, as the driver relies on it.                               *)

FwTake ==
  /\ "block" \in phi /\ ~fw.reading /\ ~fw.ready
  /\ phi' = phi \ {"block"}
  /\ fw' = [fw EXCEPT !.reading = TRUE]
  /\ UNCHANGED <<call, driverVars, data_ready, block_done, emi, isrVars,
                 stored, lost, crossed>>

(* A block has been read: acknowledge it and turn to the other half; after *)
(* the last one the data is complete, and READY (ISR_DATA) is due.         *)
FwDone ==
  LET b    == half[fw.half]
      got  == b.size + (IF b.index = 0 THEN 0 ELSE fw.got)
      whole == b.index = b.num - 1
  IN
  /\ fw.reading
  /\ emi' = emi \cup {"block"}
  /\ fw' = [half |-> IF whole THEN 0 ELSE 1 - fw.half, reading |-> FALSE,
            got |-> got, ready |-> whole]
  /\ stored' = IF whole THEN Data(b.xfer, b.handle, got) ELSE stored
  /\ crossed' = (crossed \/ "data" \in phi)
  /\ UNCHANGED <<call, driverVars, data_ready, block_done, phi, isrVars, lost>>

FwReady ==
  /\ fw.ready
  /\ emi' = emi \cup {"data"}
  /\ fw' = [fw EXCEPT !.ready = FALSE]
  /\ lost' = Clearing("data")
  /\ UNCHANGED <<call, driverVars, data_ready, block_done, phi, isrVars,
                 stored, crossed>>

(* "cancel the transfer and reset the data handling".                      *)
FwCancel ==
  /\ "data" \in phi /\ ~fw.ready
  /\ phi' = {}
  /\ fw' = [half |-> 0, reading |-> FALSE, got |-> 0, ready |-> TRUE]
  /\ UNCHANGED <<call, driverVars, data_ready, block_done, emi, isrVars,
                 stored, lost, crossed>>

-----------------------------------------------------------------------------
Caller    == \/ Begin \/ Fill \/ BlockDone \/ ClearDone \/ RingDecoder
             \/ Finish \/ Timeout
Interrupt == IrqEnter \/ IrqBlock \/ IrqData \/ IrqClear
Firmware  == FwTake \/ FwDone \/ FwReady \/ FwCancel

DataNext == \/ \E n \in Lengths : Call(n)
            \/ NotReady \/ Caller \/ Interrupt \/ Firmware

DataSpec == DataInit /\ [][DataNext]_dataVars

(* The caller goes on (its timers expire), the handler serves what is      *)
(* raised, the firmware works; nobody has to call.                         *)
DataFairSpec ==
  /\ DataSpec
  /\ WF_dataVars(Caller) /\ WF_dataVars(Interrupt) /\ WF_dataVars(Firmware)

-----------------------------------------------------------------------------
(* Properties.                                                             *)

(* Every variable keeps its type.                                          *)
DataTypeOK ==
  /\ call \in {"free", "ready", "fill", "wait", "ring", "rung", "last"}
  /\ len \in Nat /\ blockIndex \in Nat /\ activeBlock \in {0, 1}
  /\ data_handle \in 0 .. Handles - 1
  /\ data_ready \in BOOLEAN /\ block_done \in BOOLEAN
  /\ half \in [{0, 1} -> [xfer : Nat, handle : 0 .. Handles - 1, index : Nat,
                          num : Nat, size : 0 .. BlockSize]]
  /\ phi \subseteq Sources /\ emi \subseteq Sources
  /\ handler \in {"idle", "serve", "clear"} /\ isr \subseteq Sources
  /\ fw \in [half : {0, 1}, reading : BOOLEAN, got : Nat, ready : BOOLEAN]
  /\ stored \in [xfer : Nat, handle : 0 .. Handles - 1, len : Nat]
  /\ ret \in [ok : BOOLEAN,
              data : [xfer : Nat, handle : 0 .. Handles - 1, len : Nat]]
  /\ xfer \in 0 .. MaxXfers /\ crossed \in BOOLEAN /\ lost \in BOOLEAN

(* A half is never written while the firmware reads it or has been rung to *)
(* read it - also after time-outs and cancellations, until an answer comes *)
(* too late, and again once a transfer has begun with nothing left over.   *)
InUse(b) == fw.half = b /\ (fw.reading \/ "block" \in phi)

HalfNotInUse ==
  [][~crossed => \A b \in {0, 1} : half'[b] # half[b] => ~InUse(b)]_dataVars

(* A transfer that succeeds has left its data, all of it and nothing else, *)
(* with the firmware under the handle it returns, with the same exception. *)
HandleRefers ==
  call \in {"free", "ready"} /\ ret.ok => stored = ret.data \/ crossed

(* Transfers become possible again after every time-out, whatever answers  *)
(* come too late for it, unless a READY is erased before it is served, or  *)
(* an acknowledgement left over makes a transfer succeed too early: nobody *)
(* then tells the firmware that it waits for data in vain.                 *)
ReadyReturns == []<>(data_ready \/ lost)
=============================================================================
