---------------------------- MODULE OutputQueue ----------------------------
(***************************************************************************)
(* What the output of a Full-Featured card promises whoever writes to it,  *)
(* with no word about rings, workers, interrupts and registers: a bounded  *)
(* queue of packets and behind it a decoder with a smaller one.  A packet  *)
(* written goes to the end of the queue, and from its front to the         *)
(* decoder, or nowhere while the decoder is held off; only clearing the    *)
(* queue and resetting the decoder drop anything else.                     *)
(***************************************************************************)
EXTENDS Integers, Sequences

CONSTANTS Capacity, (* of the queue                                         *)
          Room      (* of the decoder                                       *)

VARIABLES queue,    (* written, and not handed to the decoder yet           *)
          decoder,  (* handed to the decoder, and not played yet            *)
          on,       (* the decoder takes and plays packets                  *)
          next      (* the packet written next: they are numbered           *)

vars == <<queue, decoder, on, next>>

Init == queue = <<>> /\ decoder = <<>> /\ on = FALSE /\ next = 1

Write == /\ Len(queue) < Capacity
         /\ queue' = Append(queue, next) /\ next' = next + 1
         /\ UNCHANGED <<decoder, on>>

Hand == /\ queue # <<>> /\ Len(decoder) < Room
        /\ queue' = Tail(queue)
        /\ decoder' = IF on THEN Append(decoder, Head(queue)) ELSE decoder
        /\ UNCHANGED <<on, next>>

Play == /\ on /\ decoder # <<>>
        /\ decoder' = Tail(decoder)
        /\ UNCHANGED <<queue, on, next>>

Clear == queue' = <<>> /\ UNCHANGED <<decoder, on, next>>

Reset == decoder' = <<>> /\ on' = FALSE /\ UNCHANGED <<queue, next>>

Switch == on' \in BOOLEAN /\ UNCHANGED <<queue, decoder, next>>

Next == Write \/ Hand \/ Play \/ Clear \/ Reset \/ Switch

Spec == Init /\ [][Next]_vars
=============================================================================
