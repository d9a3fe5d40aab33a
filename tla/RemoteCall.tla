----------------------------- MODULE RemoteCall -----------------------------
(***************************************************************************)
(* What the command channel of a Full-Featured card promises its callers,  *)
(* with no word about windows, flags and interrupts: calls are executed    *)
(* one at a time, in the order given, each once; a caller gets the result  *)
(* of his own call, after it has been executed and at most once, or none.  *)
(* A call that is given up may still be executed, but before the next.     *)
(***************************************************************************)
EXTENDS Integers

VARIABLES given,    (* calls given so far                                   *)
          executed, (* the last of them that has been executed              *)
          open,     (* somebody still waits for the last one                *)
          answer    (* the call whose result was returned last, 0: none     *)

vars == <<given, executed, open, answer>>

Init == given = 0 /\ executed = 0 /\ open = FALSE /\ answer = 0

Give == /\ ~open /\ executed = given
        /\ given' = given + 1 /\ open' = TRUE
        /\ UNCHANGED <<executed, answer>>

Execute == /\ executed < given
           /\ executed' = executed + 1
           /\ UNCHANGED <<given, open, answer>>

Answer == /\ open /\ executed = given
          /\ open' = FALSE /\ answer' = given
          /\ UNCHANGED <<given, executed>>

(* Given up, or no result wanted.                                          *)
NoAnswer == /\ open' = FALSE /\ answer' = 0
            /\ UNCHANGED <<given, executed>>

Next == Give \/ Execute \/ Answer \/ NoAnswer

Spec == Init /\ [][Next]_vars
=============================================================================
