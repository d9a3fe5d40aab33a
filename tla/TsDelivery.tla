----------------------------- MODULE TsDelivery -----------------------------
(***************************************************************************)
(* What one transport-stream input promises the demultiplexer, with no     *)
(* word about rings, interrupts and tasklets: a run of consecutive buffer  *)
(* fillings, each handed over when it and the head of its successor are    *)
(* complete and before the engine comes round to them again.  A run ends   *)
(* when the stream is switched or when the reader has been lapped; the     *)
(* next one begins anywhere the same holds, but not before the switch.     *)
(* After a switch a few buffers of the old stream may still come, before   *)
(* the run begins.                                                         *)
(***************************************************************************)
EXTENDS Integers

CONSTANTS Depth,     (* how many fillings stay readable: the slots of a ring *)
          Leftovers, (* old buffers a switch may leave to come               *)
          NoRun      (* no run in progress                                   *)

VARIABLES written, (* fillings completed                                    *)
          handed,  (* the last one handed over in the current run, or NoRun *)
          since,   (* written when the stream was last switched             *)
          left     (* old buffers that may still come                       *)

vars == <<written, handed, since, left>>

Init == written = 0 /\ handed = NoRun /\ since = 0 /\ left = 0

Write == written' = written + 1 /\ UNCHANGED <<handed, since, left>>

Lap == written' = written + 1 /\ handed' = NoRun /\ UNCHANGED <<since, left>>

Switch == /\ handed' = NoRun /\ since' = written /\ left' \in 0 .. Leftovers
          /\ UNCHANGED written

Leftover == /\ handed = NoRun /\ left > 0
            /\ left' = left - 1 /\ UNCHANGED <<written, handed, since>>

Hand == /\ handed' \in Int
        /\ IF handed = NoRun THEN since <= handed' ELSE handed' = handed + 1
        /\ written - Depth < handed' /\ handed' + 1 < written
        /\ UNCHANGED <<written, since, left>>

Next == Write \/ Lap \/ Switch \/ Leftover \/ Hand

Spec == Init /\ [][Next]_vars
=============================================================================
