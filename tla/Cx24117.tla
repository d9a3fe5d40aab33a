------------------------------ MODULE Cx24117 ------------------------------
(***************************************************************************)
(* The two demodulators of a CX24117 (dvb-frontends/cx24117.c).  Both are  *)
(* driven by the firmware of the chip, which takes one command at a time   *)
(* from one set of registers; fe_lock serialises the commands.  A command  *)
(* first makes sure of the firmware, and loads it when register 0xeb does  *)
(* not say that it runs.                                                   *)
(*                                                                         *)
(* A command asks for a mode of one demodulator, or leaves the modes as    *)
(* they are ("other": LNB, tone, DiSEqC, set-up, readings).  The clock     *)
(* dividers, which belong to one demodulator, and the registers that are   *)
(* only read are left out.                                                 *)
(***************************************************************************)
EXTENDS Naturals

CONSTANTS Demods,   \* the demodulators
          NoOne,    \* owner of a free lock; no command
          Glitches, \* bound: how many transfers of the bus may fail
          Polls,    \* bound: readings of EXECUTE before a command is given up
          Retunes,  \* bound: how often a tuning is tried
          InitRest, \* commands of init after the first
          LoadRest  \* commands that end the loading of the firmware

Modes == {"wake", "sleep", "tune"}
Commands == [of : Demods, do : Modes \cup {"other"}]

ASSUME NoOneAssumption == NoOne \notin Demods \cup Commands
ASSUME GlitchesAssumption == Glitches \in Nat
ASSUME PollsAssumption == Polls \in Nat
ASSUME RetunesAssumption == Retunes \in Nat \ {0}
ASSUME InitAssumption == InitRest \in Nat
ASSUME LoadAssumption == LoadRest \in Nat \ {0}

VARIABLES
  \* the chip
  flag,    \* register 0xeb reads 0x0a
  running, \* the firmware runs
  args,    \* the command in the command registers
  execute, \* CX24117_REG_EXECUTE
  doing,   \* the command the firmware is at
  mode,    \* of each demodulator
  left,    \* transfers that may still fail
  \* priv
  fe_lock, \* its holder
  skip_fw_load,
  \* the call of each frontend
  call,    \* what it asks for
  pc,      \* where it is
  todo,    \* commands it has still to give, with the one it is at
  setup,   \* commands the loading has still to give
  i,       \* times it has found EXECUTE set
  \* history
  open,    \* between init and sleep
  loads,   \* times the loading was begun
  fine,    \* nothing has gone wrong in this call
  due      \* the mode asked for by the last call that did, if that has
           \* returned 0 and was fine; else "any"

chip == <<flag, running, args, execute, doing, mode>>
priv == <<fe_lock, skip_fw_load>>
steps == <<pc, todo, setup, i>>
vars == <<chip, left, priv, steps, call, open, loads, fine, due>>

TypeOK == /\ flag \in BOOLEAN /\ running \in BOOLEAN /\ execute \in BOOLEAN
          /\ args \in Commands /\ doing \in Commands \cup {NoOne}
          /\ mode \in [Demods -> Modes \cup {"reset"}]
          /\ left \in 0..Glitches
          /\ fe_lock \in Demods \cup {NoOne} /\ skip_fw_load \in BOOLEAN
          /\ call \in [Demods -> Modes \cup {"other"}]
          /\ pc \in [Demods -> {"idle", "lock", "check", "load", "upload",
                                "write", "start", "poll"}]
          /\ todo \in [Demods -> Nat] /\ setup \in [Demods -> 0..LoadRest]
          /\ i \in [Demods -> 0..Polls]
          /\ open \in [Demods -> BOOLEAN]
          /\ loads \in Nat
          /\ fine \in [Demods -> BOOLEAN] /\ due \in [Demods -> Modes \cup {"any"}]

\* The firmware may run already, from before the module was loaded.
Init == /\ flag \in BOOLEAN /\ running = flag /\ execute = FALSE
        /\ args \in [of : Demods, do : {"other"}] /\ doing = NoOne
        /\ mode = [d \in Demods |-> "reset"]
        /\ left = Glitches
        /\ fe_lock = NoOne /\ skip_fw_load = FALSE
        /\ call = [d \in Demods |-> "other"]
        /\ pc = [d \in Demods |-> "idle"] /\ todo = [d \in Demods |-> 0]
        /\ setup = [d \in Demods |-> 0] /\ i = [d \in Demods |-> 0]
        /\ open = [d \in Demods |-> FALSE]
        /\ loads = 0
        /\ fine = [d \in Demods |-> TRUE] /\ due = [d \in Demods |-> "any"]

-----------------------------------------------------------------------------
(* The firmware: takes the command when EXECUTE is set, and clears EXECUTE *)
(* when it has done it.                                                    *)

Take == /\ running /\ execute /\ doing = NoOne
        /\ doing' = args
        /\ UNCHANGED <<flag, running, args, execute, mode, left, priv, steps,
                       call, open, loads, fine, due>>

Do == /\ doing # NoOne
      /\ mode' = IF doing.do = "other" THEN mode
                 ELSE [mode EXCEPT ![doing.of] = doing.do]
      /\ execute' = FALSE
      /\ doing' = NoOne
      /\ UNCHANGED <<flag, running, args, left, priv, steps, call, open,
                     loads, fine, due>>

-----------------------------------------------------------------------------
(* A transfer fails: the driver sees an error, or ignores it.              *)

Glitch == left > 0 /\ left' = left - 1
NoGlitch == UNCHANGED left

Goto(d, l) == pc' = [pc EXCEPT ![d] = l]
Spoil(d, bad) == fine' = [fine EXCEPT ![d] = @ /\ ~bad]

\* The call is over; its callers unlock, whatever it returns, and every error
\* of the loading resets skip_fw_load.
Return(d, ok) ==
    /\ fe_lock' = NoOne
    /\ skip_fw_load' = FALSE
    /\ Goto(d, "idle")
    /\ todo' = [todo EXCEPT ![d] = 0]
    /\ setup' = [setup EXCEPT ![d] = 0]
    /\ i' = [i EXCEPT ![d] = 0]
    /\ call' = [call EXCEPT ![d] = "other"]
    /\ fine' = [fine EXCEPT ![d] = TRUE]
    /\ due' = [due EXCEPT ![d] = IF call[d] = "other" THEN @
                                 ELSE IF ok /\ fine[d] THEN call[d] ELSE "any"]

Fail(d) == Return(d, FALSE)

-----------------------------------------------------------------------------
(* The calls of a frontend, one at a time: the thread of the frontend      *)
(* begins with init, ends with sleep, and ignores what both return.        *)

Begin(d, c, n) ==
    /\ pc[d] = "idle"
    /\ open[d] <=> c # "wake"
    /\ open' = [open EXCEPT ![d] = c # "sleep"]
    /\ call' = [call EXCEPT ![d] = c]
    /\ Goto(d, "lock")
    /\ todo' = [todo EXCEPT ![d] = n]
    /\ due' = [due EXCEPT ![d] = IF c = "other" THEN @ ELSE "any"]
    /\ UNCHANGED <<chip, left, priv, setup, i, loads, fine>>

initfe(d) == Begin(d, "wake", InitRest + 1)
set_frontend(d) == Begin(d, "tune", Retunes)
sleep(d) == Begin(d, "sleep", 1)
other(d) == Begin(d, "other", 1)

Call(d) == initfe(d) \/ set_frontend(d) \/ sleep(d) \/ other(d)

\* The command it is at: loading, and init after its first, change no mode.
Command(d) == [of |-> d,
               do |-> IF setup[d] > 0 \/ (call[d] = "wake" /\ todo[d] <= InitRest)
                      THEN "other" ELSE call[d]]

-----------------------------------------------------------------------------
\* Fault: the command is executed without the lock.
LockNot(d) == /\ pc[d] = "lock"
              /\ fe_lock' = d
              /\ Goto(d, "check")
              /\ UNCHANGED <<chip, left, skip_fw_load, todo, setup, i, call, open, loads, fine, due>>

Lock(d) == /\ pc[d] = "lock" /\ fe_lock = NoOne
           /\ fe_lock' = d
           /\ Goto(d, "check")
           /\ UNCHANGED <<chip, left, skip_fw_load, todo, setup, i, call, open, loads, fine, due>>

\* A read of 0xeb that fails is an error number, which is not 0x0a.
firmware_ondemand(d) ==
    /\ pc[d] = "check"
    /\ \/ /\ skip_fw_load \/ flag
          /\ NoGlitch /\ Goto(d, "write")
          /\ UNCHANGED <<priv, todo, setup, i, call, fine, due>>
       \/ /\ ~skip_fw_load
          /\ \/ ~flag /\ NoGlitch
             \/ Glitch
          /\ \/ /\ skip_fw_load' = TRUE
                /\ Goto(d, "load")
                /\ UNCHANGED <<fe_lock, todo, setup, i, call, fine, due>>
             \/ Fail(d)
    /\ UNCHANGED <<chip, open, loads>>

\* The registers before the upload.  They reset the chip, both demodulators of
\* it; one of them is 0xeb, which is set from here on.
Reset(d) ==
    /\ running' = FALSE /\ execute' = FALSE /\ doing' = NoOne
    /\ mode' = [e \in Demods |-> "reset"]
    /\ loads' = loads + 1
    /\ due' = [e \in Demods |-> "any"]
    /\ Spoil(d, call[d] = "wake" /\ todo[d] <= InitRest)
    /\ Goto(d, "upload")

\* Fault: 0xeb is left at 0x0c, its value during the reset.
load_firmware_NoFlag(d) ==
    /\ pc[d] = "load"
    /\ Reset(d)
    /\ flag' = FALSE
    /\ NoGlitch
    /\ UNCHANGED <<args, priv, todo, setup, i, call, open>>

load_firmware(d) ==
    /\ pc[d] = "load"
    /\ Reset(d)
    /\ \/ flag' = TRUE /\ NoGlitch
       \/ flag' = FALSE /\ Glitch
    /\ UNCHANGED <<args, priv, todo, setup, i, call, open>>

\* There may be no memory for the message, it may fail, or a register after it.
Upload(d) ==
    /\ pc[d] = "upload"
    /\ \/ /\ \/ running' = TRUE /\ NoGlitch
             \/ running' = FALSE /\ Glitch
          /\ setup' = [setup EXCEPT ![d] = LoadRest]
          /\ Goto(d, "check")
          /\ UNCHANGED <<priv, todo, i, call, fine, due>>
       \/ /\ NoGlitch \/ Glitch
          /\ Fail(d)
          /\ UNCHANGED running
    /\ UNCHANGED <<flag, args, execute, doing, mode, open, loads>>

\* A command is not fine that meets an older one not yet done.
writecmd(d) ==
    /\ pc[d] = "write"
    /\ \/ /\ NoGlitch
          /\ args' = Command(d)
          /\ Spoil(d, execute \/ doing # NoOne)
       \/ /\ Glitch
          /\ UNCHANGED args
          /\ Spoil(d, TRUE)
    /\ Goto(d, "start")
    /\ UNCHANGED <<flag, running, execute, doing, mode, priv, todo, setup, i,
                   call, open, loads, due>>

Execute(d) ==
    /\ pc[d] = "start"
    /\ \/ NoGlitch /\ execute' = TRUE /\ UNCHANGED fine
       \/ Glitch /\ UNCHANGED execute /\ Spoil(d, TRUE)
    /\ Goto(d, "poll")
    /\ UNCHANGED <<flag, running, args, doing, mode, priv, todo, setup, i,
                   call, open, loads, due>>

\* What follows a command that returned 0.  In the loading, the next one, or the
\* command the firmware was loaded for.
Loading(d) ==
    /\ setup[d] > 0
    /\ setup' = [setup EXCEPT ![d] = @ - 1]
    /\ IF setup[d] = 1 THEN Goto(d, "write") /\ skip_fw_load' = FALSE
       ELSE Goto(d, "check") /\ UNCHANGED skip_fw_load
    /\ i' = [i EXCEPT ![d] = 0]
    /\ UNCHANGED <<fe_lock, todo, call, fine, due>>

\* The next of init, with the lock held, or another try to tune.
Again(d) ==
    /\ setup[d] = 0 /\ todo[d] > 1
    /\ todo' = [todo EXCEPT ![d] = @ - 1]
    /\ IF call[d] = "wake" THEN Goto(d, "check") /\ UNCHANGED fe_lock
       ELSE Goto(d, "lock") /\ fe_lock' = NoOne
    /\ i' = [i EXCEPT ![d] = 0]
    /\ UNCHANGED <<skip_fw_load, setup, call, fine, due>>

Done(d) == \/ Loading(d) \/ Again(d)
           \/ /\ setup[d] = 0 /\ (todo[d] = 1 \/ call[d] = "tune")
              /\ Return(d, TRUE)

\* The loop of cmd_execute_nolock: a read that fails is not 0.
Poll(d) ==
    /\ pc[d] = "poll"
    /\ \/ ~execute /\ NoGlitch /\ Done(d)
       \/ /\ \/ execute /\ NoGlitch
             \/ Glitch
          /\ IF i[d] < Polls
             THEN i' = [i EXCEPT ![d] = @ + 1] /\ UNCHANGED <<priv, pc, todo, setup, call, fine, due>>
             ELSE Fail(d)
    /\ UNCHANGED <<chip, open, loads>>

cmd_execute_nolock(d) == \/ firmware_ondemand(d) \/ load_firmware(d) \/ Upload(d)
                         \/ writecmd(d) \/ Execute(d) \/ Poll(d)

Next == \/ Take \/ Do
        \/ \E d \in Demods : Call(d) \/ Lock(d) \/ cmd_execute_nolock(d)

Spec == Init /\ [][Next]_vars

-----------------------------------------------------------------------------
\* fe_lock and the wait for EXECUTE keep the commands of the two frontends
\* apart: when a call that asks for a mode has returned 0, no transfer of it
\* failed and no older command was still being done when it began, then the
\* demodulator is in that mode until the next such call, whatever the other
\* frontend does short of loading the firmware anew.
ModeAsAsked == \A d \in Demods : due[d] \in {"any", mode[d]}

\* "Make sure we don't recurse" (cx24117.c:476), "check if firmware is already
\* running" (:458): the firmware is loaded once, and then once more at most for
\* each transfer that fails.
LoadCostsATransfer == loads <= 1 + (Glitches - left)

\* "Ensure firmware is always loaded if required" (cx24117.c:490): a command
\* that passed the check finds the firmware running, unless a transfer failed.
CheckedIsLoaded == \A d \in Demods : pc[d] = "write" /\ left = Glitches => running
=============================================================================
