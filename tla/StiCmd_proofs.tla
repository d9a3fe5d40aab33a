--------------------------- MODULE StiCmd_proofs ---------------------------
(***************************************************************************)
(* The safety properties of StiCmd, proved for any lengths, any firmware   *)
(* habits and any number of commands.                                      *)
(*                                                                         *)
(* The argument: the right to give the next command is a token that is in  *)
(* one place at a time - with the firmware, in the interrupt, in cmd_ready,*)
(* with the caller about to write, or in the command rung but not taken.   *)
(* With a firmware that says READY last, what follows READY follows the    *)
(* result; and what is under way when no answer was outstanding belongs to *)
(* the last command.                                                       *)
(***************************************************************************)
EXTENDS StiCmd, TLAPS

(* Raised for the driver and not yet turned into a flag.                   *)
Unserved(s) == s \in emi /\ ~Clearing(s)

(* What the handler still has to serve is what is raised.                  *)
IsrRaised ==
  /\ isr \subseteq emi
  /\ irq = "idle" <=> isr = {}

(* The token is never in two places.                                       *)
OneToken ==
  /\ fw.ack => ~Unserved("ready") /\ ~cmd_ready /\ call # "write" /\ ~phi
  /\ Unserved("ready") => ~cmd_ready /\ call # "write" /\ ~phi
  /\ cmd_ready => call # "write" /\ ~phi
  /\ call = "write" => ~phi

(* READY is the last the firmware says: behind it there is no answer.      *)
Quiet == ~fw.due /\ ~Unserved("cmd")

ReadyLast ==
  ~habit.early =>
    /\ fw.due => fw.ack
    /\ cmd_ready => Quiet
    /\ "ready" \in isr /\ ~Clearing("ready") =>
         ~fw.due /\ ("cmd" \in emi => "cmd" \in isr)

(* If nothing was outstanding when the flags were cleared, everything      *)
(* about answers is about the last command.                                *)
AboutLast ==
  ~late =>
    /\ call = "write" => Quiet /\ ~result_avail
    /\ phi => window.cmd = cmd /\ Quiet /\ ~result_avail
    /\ fw.due => fw.job = cmd
    /\ Unserved("cmd") => window.res = cmd
    /\ result_avail => result_data = cmd

(* The bound is looked at before the command is written.                   *)
Bounded == call = "write" => cmd < MaxCmds

Waited == call = "copy" /\ result_max_len > 0 => result_avail

IInv == /\ TypeOK /\ Bounded /\ IsrRaised /\ OneToken /\ ReadyLast /\ ReadyGuards
        /\ AboutLast /\ Waited /\ ResultIsOwn

LEMMA InitInvariant == Init => IInv
  <1> SUFFICES ASSUME Init PROVE IInv
    OBVIOUS
  <1> USE StiCmdAssumption DEF Init
  <1>1. TypeOK
    <2>1. /\ cmd_ready \in BOOLEAN /\ result_avail \in BOOLEAN
          /\ phi \in BOOLEAN /\ late \in BOOLEAN
      OBVIOUS
    <2>2. /\ ret \in [ok : BOOLEAN, asked : Nat, len : Nat, data : Nat]
          /\ window \in [cmd : Nat, res : Nat, len : Nat]
          /\ fw \in [ack : BOOLEAN, due : BOOLEAN, job : Nat]
      OBVIOUS
    <2>3. cmd \in 0 .. MaxCmds /\ result_len \in Nat /\ result_data \in Nat
      OBVIOUS
    <2> QED BY <2>1, <2>2, <2>3 DEF TypeOK
  <1>2. Bounded /\ IsrRaised /\ OneToken /\ ReadyLast
    BY DEF Bounded, IsrRaised, OneToken, ReadyLast, Quiet, Unserved, Clearing
  <1>3. ReadyGuards /\ AboutLast
    BY DEF ReadyGuards, AboutLast, Unserved
  <1>4. Waited /\ ResultIsOwn
    BY DEF Waited, ResultIsOwn
  <1> QED BY <1>1, <1>2, <1>3, <1>4 DEF IInv

-----------------------------------------------------------------------------
(* The type invariant.                                                     *)
LEMMA TypeStep == IInv /\ [Next]_vars => (TypeOK /\ Bounded)'
  <1> SUFFICES ASSUME TypeOK, Bounded, [Next]_vars PROVE (TypeOK /\ Bounded)'
    BY DEF IInv
  <1> USE DEF TypeOK, Bounded, callVars, irqVars, fwVars
  <1> USE StiCmdAssumption DEF Sources
  <1>1. ASSUME NEW asked \in Lens \cup {0}, Call(asked) PROVE (TypeOK /\ Bounded)'
    BY <1>1 DEF Call
  <1>2. CASE GiveUp
    BY <1>2 DEF GiveUp
  <1>3. CASE ClearFlags
    <2>1. Outstanding \in BOOLEAN
      BY DEF Outstanding
    <2>2. /\ late' \in BOOLEAN /\ cmd_ready' \in BOOLEAN
          /\ result_avail' \in BOOLEAN
      BY <1>3, <2>1 DEF ClearFlags
    <2> QED BY <1>3, <2>2 DEF ClearFlags
  <1>4. CASE Write
    <2>1. PICK l \in Lens : window' = [cmd |-> cmd', res |-> 0, len |-> l]
      BY <1>4 DEF Write
    <2>2. cmd' \in 0 .. MaxCmds /\ cmd' \in Nat
      BY <1>4 DEF Write
    <2>3. window' \in [cmd : Nat, res : Nat, len : Nat]
      BY <2>1, <2>2
    <2>4. call' \in {"result", "copy"} /\ phi' \in BOOLEAN
      BY <1>4 DEF Write
    <2> QED BY <1>4, <2>2, <2>3, <2>4 DEF Write
  <1>5. CASE Accept
    <2>1. Clamp(result_len) \in Nat
      BY DEF Clamp
    <2> QED BY <1>5, <2>1 DEF Accept
  <1>6. CASE Return
    BY <1>6 DEF Return
  <1>7. CASE IrqEnter
    BY <1>7 DEF IrqEnter
  <1>8. CASE IrqCmd
    BY <1>8 DEF IrqCmd
  <1>9. CASE IrqReady
    BY <1>9 DEF IrqReady
  <1>10. CASE IrqClear
    BY <1>10 DEF IrqClear
  <1>11. CASE FwTake
    <2>1. PICK due \in BOOLEAN :
            fw' = [ack |-> TRUE, due |-> due, job |-> window.cmd]
      BY <1>11 DEF FwTake
    <2>2. fw' \in [ack : BOOLEAN, due : BOOLEAN, job : Nat]
      BY <2>1
    <2>3. phi' \in BOOLEAN
      BY <1>11 DEF FwTake
    <2> QED BY <1>11, <2>2, <2>3 DEF FwTake
  <1>12. CASE FwResult
    <2>1. PICK l \in Lens : window' = [cmd |-> 0, res |-> fw.job, len |-> l]
      BY <1>12 DEF FwResult
    <2>2. window' \in [cmd : Nat, res : Nat, len : Nat]
      BY <2>1
    <2>3. fw' \in [ack : BOOLEAN, due : BOOLEAN, job : Nat]
      BY <1>12 DEF FwResult
    <2>4. emi' \subseteq Sources
      BY <1>12 DEF FwResult
    <2> QED BY <1>12, <2>2, <2>3, <2>4 DEF FwResult
  <1>13. CASE FwReady
    BY <1>13 DEF FwReady
  <1>14. CASE UNCHANGED vars
    BY <1>14 DEF vars, callVars, irqVars, fwVars
  <1> QED BY <1>1, <1>2, <1>3, <1>4, <1>5, <1>6, <1>7,
             <1>8, <1>9, <1>10, <1>11, <1>12, <1>13, <1>14
             DEF Next, Caller, Handler, Firmware

(* The handler serves what is raised.                                      *)
LEMMA IsrStep == IInv /\ [Next]_vars => IsrRaised'
  <1> SUFFICES ASSUME TypeOK, IsrRaised, [Next]_vars PROVE IsrRaised'
    BY DEF IInv
  <1> USE DEF IsrRaised, First, TypeOK, Sources, callVars, irqVars, fwVars
  <1>1. ASSUME NEW asked \in Lens \cup {0}, Call(asked) PROVE IsrRaised'
    BY <1>1 DEF Call
  <1>2. CASE GiveUp
    BY <1>2 DEF GiveUp
  <1>3. CASE ClearFlags
    BY <1>3 DEF ClearFlags
  <1>4. CASE Write
    BY <1>4 DEF Write
  <1>5. CASE Accept
    BY <1>5 DEF Accept
  <1>6. CASE Return
    BY <1>6 DEF Return
  <1>7. CASE IrqEnter
    BY <1>7 DEF IrqEnter
  <1>8. CASE IrqCmd
    BY <1>8 DEF IrqCmd
  <1>9. CASE IrqReady
    BY <1>9 DEF IrqReady
  <1>10. CASE IrqClear
    BY <1>10 DEF IrqClear
  <1>11. CASE FwTake
    BY <1>11 DEF FwTake
  <1>12. CASE FwResult
    BY <1>12 DEF FwResult
  <1>13. CASE FwReady
    BY <1>13 DEF FwReady
  <1>14. CASE UNCHANGED vars
    BY <1>14 DEF vars, callVars, irqVars, fwVars
  <1> QED BY <1>1, <1>2, <1>3, <1>4, <1>5, <1>6, <1>7,
             <1>8, <1>9, <1>10, <1>11, <1>12, <1>13, <1>14
             DEF Next, Caller, Handler, Firmware

(* When READY is served, it has been raised and CMD is not behind it.      *)
LEMMA ReadyServed ==
  ASSUME TypeOK, IsrRaised, irq = "serve", First(isr) = "ready"
  PROVE  "ready" \in isr /\ "cmd" \notin isr /\ Unserved("ready")
  BY DEF TypeOK, IsrRaised, First, Sources, Unserved, Clearing

(* The token moves on, or is lost when the ICLR overtakes it, but is never *)
(* doubled.                                                                *)
LEMMA TokenStep == IInv /\ [Next]_vars => OneToken'
  <1> SUFFICES ASSUME TypeOK, IsrRaised, OneToken, [Next]_vars PROVE OneToken'
    BY DEF IInv
  <1> USE DEF OneToken, Unserved, Clearing, First, callVars, irqVars, fwVars
  <1>1. ASSUME NEW asked \in Lens \cup {0}, Call(asked) PROVE OneToken'
    BY <1>1 DEF Call
  <1>2. CASE GiveUp
    BY <1>2 DEF GiveUp
  <1>3. CASE ClearFlags
    BY <1>3 DEF ClearFlags
  <1>4. CASE Write
    BY <1>4 DEF Write
  <1>5. CASE Accept
    BY <1>5 DEF Accept
  <1>6. CASE Return
    BY <1>6 DEF Return
  <1>7. CASE IrqEnter
    BY <1>7 DEF IrqEnter
  <1>8. CASE IrqCmd
    BY <1>8 DEF IrqCmd
  <1>9. CASE IrqReady
    <2>1. Unserved("ready") /\ "ready" \in isr /\ "cmd" \notin isr
      BY <1>9, ReadyServed DEF IrqReady
    <2> QED BY <1>9, <2>1 DEF IrqReady
  <1>10. CASE IrqClear
    BY <1>10 DEF IrqClear
  <1>11. CASE FwTake
    BY <1>11 DEF FwTake
  <1>12. CASE FwResult
    BY <1>12 DEF FwResult
  <1>13. CASE FwReady
    BY <1>13 DEF FwReady
  <1>14. CASE UNCHANGED vars
    BY <1>14 DEF vars, callVars, irqVars, fwVars
  <1> QED BY <1>1, <1>2, <1>3, <1>4, <1>5, <1>6, <1>7,
             <1>8, <1>9, <1>10, <1>11, <1>12, <1>13, <1>14
             DEF Next, Caller, Handler, Firmware

(* READY stays the last.                                                   *)
LEMMA ReadyStep == IInv /\ [Next]_vars => ReadyLast'
  <1> SUFFICES ASSUME TypeOK, IsrRaised, OneToken, ReadyLast, [Next]_vars PROVE ReadyLast'
    BY DEF IInv
  <1> USE DEF ReadyLast, Quiet, OneToken, IsrRaised, Unserved, Clearing, First, callVars, irqVars, fwVars
  <1>1. ASSUME NEW asked \in Lens \cup {0}, Call(asked) PROVE ReadyLast'
    BY <1>1 DEF Call
  <1>2. CASE GiveUp
    BY <1>2 DEF GiveUp
  <1>3. CASE ClearFlags
    BY <1>3 DEF ClearFlags
  <1>4. CASE Write
    BY <1>4 DEF Write
  <1>5. CASE Accept
    BY <1>5 DEF Accept
  <1>6. CASE Return
    BY <1>6 DEF Return
  <1>7. CASE IrqEnter
    BY <1>7 DEF IrqEnter
  <1>8. CASE IrqCmd
    BY <1>8 DEF IrqCmd
  <1>9. CASE IrqReady
    <2>1. Unserved("ready") /\ "ready" \in isr /\ "cmd" \notin isr
      BY <1>9, ReadyServed DEF IrqReady
    <2> QED BY <1>9, <2>1 DEF IrqReady
  <1>10. CASE IrqClear
    BY <1>10 DEF IrqClear
  <1>11. CASE FwTake
    BY <1>11 DEF FwTake
  <1>12. CASE FwResult
    BY <1>12 DEF FwResult
  <1>13. CASE FwReady
    BY <1>13 DEF FwReady
  <1>14. CASE UNCHANGED vars
    BY <1>14 DEF vars, callVars, irqVars, fwVars
  <1> QED BY <1>1, <1>2, <1>3, <1>4, <1>5, <1>6, <1>7,
             <1>8, <1>9, <1>10, <1>11, <1>12, <1>13, <1>14
             DEF Next, Caller, Handler, Firmware

(* So nothing is outstanding when a command is begun.                      *)
LEMMA GuardStep == IInv /\ [Next]_vars => ReadyGuards'
  <1> SUFFICES ASSUME TypeOK, ReadyLast, ReadyGuards, [Next]_vars PROVE ReadyGuards'
    BY DEF IInv
  <1> USE DEF ReadyGuards, ReadyLast, Quiet, Unserved, Outstanding, callVars, irqVars, fwVars
  <1>1. ASSUME NEW asked \in Lens \cup {0}, Call(asked) PROVE ReadyGuards'
    BY <1>1 DEF Call
  <1>2. CASE GiveUp
    BY <1>2 DEF GiveUp
  <1>3. CASE ClearFlags
    BY <1>3 DEF ClearFlags
  <1>4. CASE Write
    BY <1>4 DEF Write
  <1>5. CASE Accept
    BY <1>5 DEF Accept
  <1>6. CASE Return
    BY <1>6 DEF Return
  <1>7. CASE IrqEnter
    BY <1>7 DEF IrqEnter
  <1>8. CASE IrqCmd
    BY <1>8 DEF IrqCmd
  <1>9. CASE IrqReady
    BY <1>9 DEF IrqReady
  <1>10. CASE IrqClear
    BY <1>10 DEF IrqClear
  <1>11. CASE FwTake
    BY <1>11 DEF FwTake
  <1>12. CASE FwResult
    BY <1>12 DEF FwResult
  <1>13. CASE FwReady
    BY <1>13 DEF FwReady
  <1>14. CASE UNCHANGED vars
    BY <1>14 DEF vars, callVars, irqVars, fwVars
  <1> QED BY <1>1, <1>2, <1>3, <1>4, <1>5, <1>6, <1>7,
             <1>8, <1>9, <1>10, <1>11, <1>12, <1>13, <1>14
             DEF Next, Caller, Handler, Firmware

(* What is under way is about the last command.                            *)
LEMMA AboutStep == IInv /\ [Next]_vars => AboutLast'
  <1> SUFFICES ASSUME TypeOK, IsrRaised, OneToken, AboutLast, [Next]_vars PROVE AboutLast'
    BY DEF IInv
  <1> USE DEF AboutLast, Quiet, Outstanding, OneToken, IsrRaised, Unserved, Clearing, First, callVars, irqVars, fwVars
  <1>1. ASSUME NEW asked \in Lens \cup {0}, Call(asked) PROVE AboutLast'
    BY <1>1 DEF Call
  <1>2. CASE GiveUp
    BY <1>2 DEF GiveUp
  <1>3. CASE ClearFlags
    BY <1>3 DEF ClearFlags
  <1>4. CASE Write
    BY <1>4 DEF Write
  <1>5. CASE Accept
    BY <1>5 DEF Accept
  <1>6. CASE Return
    BY <1>6 DEF Return
  <1>7. CASE IrqEnter
    BY <1>7 DEF IrqEnter
  <1>8. CASE IrqCmd
    BY <1>8 DEF IrqCmd
  <1>9. CASE IrqReady
    BY <1>9 DEF IrqReady
  <1>10. CASE IrqClear
    BY <1>10 DEF IrqClear
  <1>11. CASE FwTake
    BY <1>11 DEF FwTake
  <1>12. CASE FwResult
    BY <1>12 DEF FwResult
  <1>13. CASE FwReady
    BY <1>13 DEF FwReady
  <1>14. CASE UNCHANGED vars
    BY <1>14 DEF vars, callVars, irqVars, fwVars
  <1> QED BY <1>1, <1>2, <1>3, <1>4, <1>5, <1>6, <1>7,
             <1>8, <1>9, <1>10, <1>11, <1>12, <1>13, <1>14
             DEF Next, Caller, Handler, Firmware

(* A call that wanted a result has waited for one.                         *)
LEMMA WaitedStep == IInv /\ [Next]_vars => Waited'
  <1> SUFFICES ASSUME Waited, [Next]_vars PROVE Waited'
    BY DEF IInv
  <1> USE DEF Waited, callVars, irqVars, fwVars
  <1>1. ASSUME NEW asked \in Lens \cup {0}, Call(asked) PROVE Waited'
    BY <1>1 DEF Call
  <1>2. CASE GiveUp
    BY <1>2 DEF GiveUp
  <1>3. CASE ClearFlags
    BY <1>3 DEF ClearFlags
  <1>4. CASE Write
    BY <1>4 DEF Write
  <1>5. CASE Accept
    BY <1>5 DEF Accept
  <1>6. CASE Return
    BY <1>6 DEF Return
  <1>7. CASE IrqEnter
    BY <1>7 DEF IrqEnter
  <1>8. CASE IrqCmd
    BY <1>8 DEF IrqCmd
  <1>9. CASE IrqReady
    BY <1>9 DEF IrqReady
  <1>10. CASE IrqClear
    BY <1>10 DEF IrqClear
  <1>11. CASE FwTake
    BY <1>11 DEF FwTake
  <1>12. CASE FwResult
    BY <1>12 DEF FwResult
  <1>13. CASE FwReady
    BY <1>13 DEF FwReady
  <1>14. CASE UNCHANGED vars
    BY <1>14 DEF vars, callVars, irqVars, fwVars
  <1> QED BY <1>1, <1>2, <1>3, <1>4, <1>5, <1>6, <1>7,
             <1>8, <1>9, <1>10, <1>11, <1>12, <1>13, <1>14
             DEF Next, Caller, Handler, Firmware

(* It returns its own.                                                     *)
LEMMA OwnStep == IInv /\ [Next]_vars => ResultIsOwn'
  <1> SUFFICES ASSUME TypeOK, OneToken, AboutLast, Waited, ResultIsOwn, [Next]_vars PROVE ResultIsOwn'
    BY DEF IInv
  <1> USE DEF ResultIsOwn, AboutLast, Waited, callVars, irqVars, fwVars
  <1>1. ASSUME NEW asked \in Lens \cup {0}, Call(asked) PROVE ResultIsOwn'
    BY <1>1 DEF Call
  <1>2. CASE GiveUp
    BY <1>2 DEF GiveUp
  <1>3. CASE ClearFlags
    BY <1>3 DEF ClearFlags
  <1>4. CASE Write
    BY <1>4 DEF Write
  <1>5. CASE Accept
    BY <1>5 DEF Accept
  <1>6. CASE Return
    BY <1>6 DEF Return
  <1>7. CASE IrqEnter
    BY <1>7 DEF IrqEnter
  <1>8. CASE IrqCmd
    BY <1>8 DEF IrqCmd
  <1>9. CASE IrqReady
    BY <1>9 DEF IrqReady
  <1>10. CASE IrqClear
    BY <1>10 DEF IrqClear
  <1>11. CASE FwTake
    BY <1>11 DEF FwTake
  <1>12. CASE FwResult
    BY <1>12 DEF FwResult
  <1>13. CASE FwReady
    BY <1>13 DEF FwReady
  <1>14. CASE UNCHANGED vars
    BY <1>14 DEF vars, callVars, irqVars, fwVars
  <1> QED BY <1>1, <1>2, <1>3, <1>4, <1>5, <1>6, <1>7,
             <1>8, <1>9, <1>10, <1>11, <1>12, <1>13, <1>14
             DEF Next, Caller, Handler, Firmware

-----------------------------------------------------------------------------
(* IInv holds in every state the caller, the handler and the firmware can  *)
(* reach together.                                                         *)
THEOREM CmdInvariant == Spec => []IInv
  <1>1. IInv /\ [Next]_vars => IInv'
    BY TypeStep, IsrStep, TokenStep, ReadyStep, GuardStep, AboutStep, WaitedStep,
       OwnStep
       DEF IInv
  <1> QED BY InitInvariant, <1>1, PTL DEF Spec

(* Every variable keeps its type, whatever the lengths and the firmware.   *)
THEOREM CmdTypeCorrect == Spec => []TypeOK
  <1>1. IInv => TypeOK
    BY DEF IInv
  <1> QED BY <1>1, CmdInvariant, PTL

(* A firmware that says READY last is never given a command while it still *)
(* owes an answer, though nothing but cmd_ready is looked at.              *)
THEOREM GuardTheorem == Spec => []ReadyGuards
  <1>1. IInv => ReadyGuards
    BY DEF IInv
  <1> QED BY <1>1, CmdInvariant, PTL

(* A result returned is the result of the command it was asked for, unless *)
(* an older answer was outstanding when that was given.                    *)
THEOREM ResultTheorem == Spec => []ResultIsOwn
  <1>1. IInv => ResultIsOwn
    BY DEF IInv
  <1> QED BY <1>1, CmdInvariant, PTL

(* Neither is a command overwritten in the window it shares with results.  *)
THEOREM IntactTheorem == Spec => CommandIntact
  <1>1. IInv /\ [Next]_vars => [(phi /\ ~phi') => (late \/ fw'.job = cmd)]_vars
    <2> SUFFICES ASSUME IInv, Next, phi, ~phi', ~late PROVE fw'.job = cmd
      OBVIOUS
    <2>1. FwTake
      BY DEF Next, Caller, Handler, Firmware, Call, GiveUp, ClearFlags, Write,
             Accept, Return, IrqEnter, IrqCmd, IrqReady, IrqClear, FwResult,
             FwReady, fwVars
    <2>2. fw'.job = window.cmd
      BY <2>1 DEF FwTake
    <2> QED BY <2>2 DEF IInv, AboutLast
  <1> QED BY <1>1, CmdInvariant, PTL DEF Spec, CommandIntact

-----------------------------------------------------------------------------
(* The channel as a remote call.                                           *)

(* With READY last, the firmware has taken all commands but one that is    *)
(* rung for.                                                               *)
InTurn == ~habit.early => fw.job = IF phi THEN cmd - 1 ELSE cmd

LEMMA HabitStays == [Next]_vars => habit' = habit
  BY DEF Next, Caller, Handler, Firmware, Call, GiveUp, ClearFlags, Write,
     Accept, Return, IrqEnter, IrqCmd, IrqReady, IrqClear, FwTake, FwResult,
     FwReady, fwVars, vars

LEMMA TurnStep == IInv /\ InTurn /\ [Next]_vars => InTurn'
  <1> SUFFICES ASSUME ~habit.early, ~late, TypeOK, OneToken, AboutLast, InTurn,
                      [Next]_vars
               PROVE  InTurn'
    BY HabitStays DEF IInv, ReadyGuards, InTurn
  <1> USE DEF InTurn, callVars, irqVars, fwVars
  <1>1. CASE Write
    <2>1. ~phi /\ cmd \in Nat
      BY <1>1, StiCmdAssumption DEF Write, OneToken, TypeOK
    <2> QED BY <1>1, <2>1 DEF Write
  <1>2. CASE FwTake
    BY <1>2 DEF FwTake, AboutLast
  <1>3. CASE FwResult \/ FwReady
    BY <1>3 DEF FwResult, FwReady, TypeOK
  <1>4. CASE (\E asked \in Lens \cup {0} : Call(asked)) \/ GiveUp \/ ClearFlags
             \/ Accept \/ Return \/ Handler
    BY <1>4 DEF Call, GiveUp, ClearFlags, Accept, Return, Handler, IrqEnter,
       IrqCmd, IrqReady, IrqClear
  <1>5. CASE UNCHANGED vars
    BY <1>5 DEF vars
  <1> QED BY <1>1, <1>2, <1>3, <1>4, <1>5 DEF Next, Caller, Firmware

LEMMA CalledStep ==
  ASSUME IInv, InTurn, [Next]_vars, ~habit.early, habit' = habit
  PROVE  [Remote!Next]_(Remote!vars)
  <1> DEFINE open == call \in {"result", "copy"}
  <1> DEFINE answer == IF ret.ok /\ ret.asked > 0 THEN ret.data ELSE 0
  <1>0. /\ ~late /\ TypeOK /\ OneToken /\ AboutLast /\ Waited
        /\ fw.job = IF phi THEN cmd - 1 ELSE cmd
    BY DEF IInv, ReadyGuards, InTurn
  <1>s. /\ Shown(cmd) = cmd /\ Shown(fw.job) = fw.job /\ Shown(answer) = answer
        /\ Shown(cmd)' = cmd' /\ Shown(fw.job)' = fw'.job
        /\ Shown(answer)' = answer'
        /\ (~habit.early /\ open) = open /\ (~habit.early /\ open)' = open'
    BY DEF Shown
  <1> SUFFICES Remote!Next \/ UNCHANGED <<cmd, fw.job, open, answer>>
    BY <1>s DEF Remote!vars
  <1> USE DEF callVars, irqVars, fwVars
  <1>1. CASE Write
    <2>1. ~phi /\ fw.job = cmd
      BY <1>0, <1>1 DEF Write, OneToken
    <2> QED BY <1>1, <2>1, <1>s DEF Write, Remote!Next, Remote!Give
  <1>2. CASE FwTake
    <2>1. phi /\ window.cmd = cmd /\ fw.job = cmd - 1 /\ cmd \in Nat
      BY <1>0, <1>2, StiCmdAssumption DEF FwTake, AboutLast, TypeOK
    <2>2. fw'.job = cmd /\ UNCHANGED <<cmd, open, answer>>
      BY <1>2, <2>1 DEF FwTake
    <2> QED BY <2>1, <2>2, <1>s DEF Remote!Next, Remote!Execute
  <1>3. CASE Return
    <2>1. open /\ ~open' /\ UNCHANGED <<cmd, fw>>
      BY <1>3 DEF Return
    <2>2. CASE result_max_len > 0
      <3>1. result_data = cmd /\ ~phi /\ fw.job = cmd
        BY <1>0, <1>3, <2>2 DEF Return, Waited, AboutLast
      <3>2. answer' = cmd
        BY <1>3, <2>2, <3>1 DEF Return
      <3> QED BY <2>1, <3>1, <3>2, <1>s DEF Remote!Next, Remote!Answer
    <2>3. CASE ~(result_max_len > 0)
      <3>1. answer' = 0
        BY <1>3, <2>3 DEF Return
      <3> QED BY <2>1, <3>1, <1>s DEF Remote!Next, Remote!NoAnswer
    <2> QED BY <2>2, <2>3
  <1>4. CASE GiveUp
    <2>1. ~open' /\ answer' = 0 /\ UNCHANGED <<cmd, fw>>
      BY <1>4 DEF GiveUp
    <2> QED BY <2>1, <1>s DEF Remote!Next, Remote!NoAnswer
  <1>5. CASE FwResult \/ FwReady
    BY <1>0, <1>5 DEF FwResult, FwReady, TypeOK
  <1>6. CASE (\E asked \in Lens \cup {0} : Call(asked)) \/ ClearFlags
             \/ Accept \/ Handler
    BY <1>6 DEF Call, ClearFlags, Accept, Handler, IrqEnter, IrqCmd, IrqReady,
       IrqClear
  <1>7. CASE UNCHANGED vars
    BY <1>7 DEF vars
  <1> QED BY <1>1, <1>2, <1>3, <1>4, <1>5, <1>6, <1>7 DEF Next, Caller, Firmware

LEMMA RemoteStep == IInv /\ InTurn /\ [Next]_vars => [Remote!Next]_(Remote!vars)
  <1> SUFFICES ASSUME IInv, InTurn, [Next]_vars
               PROVE  [Remote!Next]_(Remote!vars)
    OBVIOUS
  <1>a. habit' = habit
    BY HabitStays
  <1>b. CASE habit.early
    BY <1>a, <1>b DEF Remote!vars, Shown
  <1>c. CASE ~habit.early
    BY <1>a, <1>c, CalledStep
  <1> QED BY <1>b, <1>c

(* Commands to firmware that says READY last are remote calls: each is     *)
(* executed once and in its turn, and who asks for a result gets the one   *)
(* of his own command or an error, over all time-outs and signals.         *)
THEOREM CallTheorem == Spec => ImplementsCall
  <1>1. Init => InTurn /\ Remote!Init
    BY DEF Init, InTurn, Shown, Remote!Init
  <1>2. IInv /\ InTurn /\ [Next]_vars => InTurn'
    BY TurnStep
  <1>3. IInv /\ InTurn /\ [Next]_vars => [Remote!Next]_(Remote!vars)
    BY RemoteStep
  <1> QED
    BY <1>1, <1>2, <1>3, CmdInvariant, PTL DEF Spec, ImplementsCall, Remote!Spec
=============================================================================
