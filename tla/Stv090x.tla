------------------------------ MODULE Stv090x ------------------------------
(***************************************************************************)
(* The two paths of one STV0900 demodulator (dvb-frontends/stv090x.c), as  *)
(* the S2-6400 uses it.  A frontend is a path: its kernel thread calls     *)
(* init, then any number of searches, then sleep.  The paths share         *)
(*   - the repeater to the two tuners: a path opens its gate under the     *)
(*     tuner_lock and closes it before it gives the lock back;             *)
(*   - the power and clock registers, read, modified and written under the *)
(*     demod_lock: the FEC and TS clocks serve both paths;                 *)
(*   - the master clock, set by the first init.                            *)
(*                                                                         *)
(* A call is a sequence of sections: each has the tuner behind the gate,   *)
(* or a list of registers under the demod_lock.  What lies between two     *)
(* sections touches registers of the path alone; it decides which section  *)
(* comes next, and any of its transfers may end the call.                  *)
(***************************************************************************)
EXTENDS Naturals

CONSTANTS Paths,     \* the demodulators of the chip
          NoOne,     \* owner of a lock that is free
          Rounds     \* bound: frequencies that get_coldlock tries

ASSUME PathsAssumption == Paths # {}
ASSUME NoOneAssumption == NoOne \notin Paths
ASSUME RoundsAssumption == Rounds \in Nat
ASSUME ClockNamesAssumption == Paths \cap {"fec", "ts"} = {}

VARIABLES
  \* registers of the chip
  gate,     \* I2CRPT.I2CT_ON of each path
  standby,  \* SYNTCTRL.STANDBY
  adc,      \* TSTTNR1.ADC1_PON, TSTTNR3.ADC2_PON
  stop1,    \* the clocks stopped in STOPCLK1: "fec", and a path's own
  stop2,    \* the clocks stopped in STOPCLK2: "ts", and a path's own
  \* internal
  mclk,     \* internal->mclk is not 0
  tuner,    \* who holds internal->tuner_lock
  demod,    \* who holds internal->demod_lock
  \* the call of each path
  sec, at,  \* its section, and where in it
  n,        \* index of the register in the section, or round of get_coldlock
  reg,      \* what it has read from STOPCLK1 or STOPCLK2
  full,     \* full_standby
  \* history
  open,     \* between the calls of init and sleep
  awake,    \* init has succeeded since
  slept,    \* the last call was a sleep that succeeded
  dirty,    \* a failed write has left the path's gate open
  failed,   \* mclk is 0 since a transfer of an init has failed
  spoilt,   \* since the path's clocks were started, a path has written back
            \* what a failed read of a clock register gave it
  blind     \* the last sleep could not read whether the other ADC is off

chip == <<gate, standby, adc, stop1, stop2>>
locks == <<tuner, demod>>
call == <<sec, at, n, reg, full>>
reads == <<spoilt, blind>>
history == <<open, awake, slept, dirty, failed, reads>>
vars == <<chip, mclk, locks, call, history>>

TunerSections == {"clkout", "tuner", "setup", "status", "step", "locked",
                  "freq", "freq2", "band", "rest"}
RegisterSections == {"wake", "down", "vit"}
Sections == {"idle", "mclk", "oops"} \cup TunerSections \cup RegisterSections
Clocks(shared) == {shared} \cup Paths

TypeOK == /\ gate \in [Paths -> BOOLEAN] /\ standby \in BOOLEAN
          /\ adc \in [Paths -> BOOLEAN]
          /\ stop1 \subseteq Clocks("fec") /\ stop2 \subseteq Clocks("ts")
          /\ mclk \in BOOLEAN
          /\ tuner \in Paths \cup {NoOne} /\ demod \in Paths \cup {NoOne}
          /\ sec \in [Paths -> Sections]
          /\ at \in [Paths -> {"want", "in", "read", "write"}]
          /\ n \in [Paths -> Nat]
          /\ reg \in [Paths -> SUBSET ({"fec", "ts"} \cup Paths)]
          /\ full \in [Paths -> BOOLEAN]
          /\ open \in [Paths -> BOOLEAN] /\ awake \in [Paths -> BOOLEAN]
          /\ slept \in [Paths -> BOOLEAN] /\ dirty \in [Paths -> BOOLEAN]
          /\ failed \in BOOLEAN
          /\ spoilt \in [Paths -> BOOLEAN] /\ blind \in BOOLEAN

\* After stv090x_setup: gates closed, the PLL on; nothing was stopped yet.
Init == /\ gate = [p \in Paths |-> FALSE] /\ standby = FALSE
        /\ adc = [p \in Paths |-> TRUE]
        /\ stop1 = {} /\ stop2 = {}
        /\ mclk = FALSE
        /\ tuner = NoOne /\ demod = NoOne
        /\ sec = [p \in Paths |-> "idle"] /\ at = [p \in Paths |-> "want"]
        /\ n = [p \in Paths |-> 0] /\ reg = [p \in Paths |-> {}]
        /\ full = [p \in Paths |-> FALSE]
        /\ open = [p \in Paths |-> FALSE] /\ awake = [p \in Paths |-> FALSE]
        /\ slept = [p \in Paths |-> FALSE] /\ dirty = [p \in Paths |-> FALSE]
        /\ failed = FALSE
        /\ spoilt = [p \in Paths |-> FALSE] /\ blind = FALSE

-----------------------------------------------------------------------------
(* The sections of each call: those that may follow one that succeeded or  *)
(* failed.  "ok" and "error" end the call.                                 *)

stv090x_init(s, ok) ==
    CASE ~ok -> {"error"}
      [] ok /\ s = "clkout" -> {"mclk"}
      [] ok /\ s = "wake" -> {"tuner", "error"}
      [] ok /\ s = "tuner" -> {"ok", "error"}

stv090x_sleep(s, ok) == IF ~ok THEN {"error"}
                        ELSE IF s = "rest" THEN {"down"} ELSE {"ok"}

\* Its error, -1, is taken for a lock.  Only low symbol rates step through
\* frequencies, with two sections each.
stv090x_get_coldlock(s, ok, k) ==
    CASE ~ok -> {"freq"}
      [] ok /\ s = "vit" -> {"freq", "step", "ok"}
      [] ok /\ s = "step" -> {"locked"}
      [] ok /\ s = "locked" -> {"freq"} \cup IF k < Rounds THEN {"step"} ELSE {"ok"}

stv090x_get_sig_params(s, ok) == IF ~ok THEN {"error"}
                                 ELSE {"band", "ok"} \cup IF s = "freq" THEN {"freq2"} ELSE {}

stv090x_algo(s, ok, k) ==
    CASE s = "setup" -> {"error"} \cup IF ok THEN {"status"} ELSE {}
      [] s = "status" -> {"error"} \cup IF ok THEN {"vit"} ELSE {}
      [] s = "vit" -> {"error"} \cup IF ok THEN stv090x_get_coldlock(s, ok, k) ELSE {}
      [] s \in {"step", "locked"} -> stv090x_get_coldlock(s, ok, k)
      [] s \in {"freq", "freq2"} -> stv090x_get_sig_params(s, ok)
      [] s = "band" -> {"ok"}

Following(s, ok, k) == CASE s \in {"clkout", "wake", "tuner"} -> stv090x_init(s, ok)
                         [] s \in {"rest", "down"} -> stv090x_sleep(s, ok)
                         [] OTHER -> stv090x_algo(s, ok, k)

\* What the end of a section leaves.
Enter(p, s) == /\ sec' = [sec EXCEPT ![p] = s]
               /\ at' = [at EXCEPT ![p] = "want"]
               /\ n' = [n EXCEPT ![p] = CASE s = "step" /\ sec[p] = "vit" -> 1
                                          [] s = "step" /\ sec[p] # "vit" -> @ + 1
                                          [] s = "locked" -> @
                                          [] OTHER -> 0]
               /\ reg' = [reg EXCEPT ![p] = {}]
               /\ full' = [full EXCEPT ![p] = FALSE]

Leave(p, ok) ==
    \E s \in Following(sec[p], ok, n[p]) :
      /\ Enter(p, IF s \in {"ok", "error"} THEN "idle" ELSE s)
      /\ awake' = [awake EXCEPT ![p] = @ \/ (sec[p] = "tuner" /\ s = "ok")]
      /\ slept' = [slept EXCEPT ![p] = @ \/ (sec[p] = "down" /\ s = "ok")]
      /\ failed' = (failed \/ (sec[p] = "clkout" /\ ~ok /\ ~mclk))
      /\ UNCHANGED open

-----------------------------------------------------------------------------
(* stv090x_i2c_gate_ctrl.                                                  *)

\* The register write of the gate; one that fails may have reached the chip.
WriteGate(p, on, ok) ==
    /\ \E g \in IF ok THEN {on} ELSE {on, gate[p]} :
         gate' = [gate EXCEPT ![p] = g] /\ dirty' = [dirty EXCEPT ![p] = ~ok /\ g]
    /\ UNCHANGED <<standby, adc, stop1, stop2, mclk, demod, reads>>

\* On an error the lock is given back.
GateOpen(p) ==
    /\ sec[p] \in TunerSections /\ at[p] = "want" /\ tuner = NoOne
    /\ \/ /\ WriteGate(p, TRUE, TRUE) /\ tuner' = p
          /\ at' = [at EXCEPT ![p] = "in"]
          /\ UNCHANGED <<sec, n, reg, full, open, awake, slept, failed>>
       \/ WriteGate(p, TRUE, FALSE) /\ Leave(p, FALSE) /\ UNCHANGED tuner

\* Fault: err_gateoff unlocks and does not close the gate.
GateCloseOnlyOnSuccess(p) ==
    /\ sec[p] \in TunerSections /\ at[p] = "in"
    /\ tuner' = NoOne
    /\ \/ \E done \in BOOLEAN : WriteGate(p, ~done, TRUE) /\ Leave(p, done)
       \/ WriteGate(p, FALSE, FALSE) /\ Leave(p, FALSE)

\* The callback of the tuner, and the gate; a callback that failed has gone to
\* err_gateoff.
GateClose(p) ==
    /\ sec[p] \in TunerSections /\ at[p] = "in"
    /\ tuner' = NoOne
    /\ \/ \E done \in BOOLEAN : WriteGate(p, FALSE, done) /\ Leave(p, done)
       \/ WriteGate(p, FALSE, TRUE) /\ Leave(p, FALSE)

-----------------------------------------------------------------------------
(* stv090x_set_mclk, and the power-on that init writes after it.  A lost   *)
(* write to NCOARSE is not noticed.                                        *)

\* Fault: the clock is set and not stored.
SetMclkNotStored(p) ==
    /\ sec[p] = "mclk"
    /\ standby' = FALSE
    /\ Enter(p, "wake")
    /\ UNCHANGED <<gate, adc, stop1, stop2, mclk, locks, history>>

SetMclk(p) ==
    /\ sec[p] = "mclk"
    /\ \E lost \in BOOLEAN, ok \in BOOLEAN :
         /\ mclk' = (mclk \/ ~lost)
         /\ failed' = ((failed \/ lost) /\ ~mclk')
         /\ \E s \in IF ok THEN {FALSE} ELSE {FALSE, standby} : standby' = s
         /\ Enter(p, IF ok THEN "wake" ELSE "idle")
    /\ UNCHANGED <<gate, adc, stop1, stop2, locks, open, awake, slept, dirty,
                   reads>>

-----------------------------------------------------------------------------
(* The registers under the demod_lock.  (The power of DiSEqC, set after    *)
(* that of the ADC, is left out.)                                          *)

Registers(s) == CASE s = "wake" -> <<"SYNTCTRL", "ADC", "STOPCLK1", "STOPCLK2">>
                  [] s = "down" -> <<"ADC", "STOPCLK1", "STOPCLK2", "SYNTCTRL">>
                  [] s = "vit" -> <<"STOPCLK2">>
Register(p) == Registers(sec[p])[n[p]]

\* Fault: vitclk_ctl does not lock, nor, then, unlock.
DemodLockNotForVit(p) ==
    /\ sec[p] \in RegisterSections /\ at[p] = "want"
    /\ IF sec[p] = "vit" THEN UNCHANGED demod ELSE demod = NoOne /\ demod' = p
    /\ at' = [at EXCEPT ![p] = "read"]
    /\ n' = [n EXCEPT ![p] = 1]
    /\ UNCHANGED <<chip, mclk, tuner, sec, reg, full, history>>

DemodLock(p) ==
    /\ sec[p] \in RegisterSections /\ at[p] = "want" /\ demod = NoOne
    /\ demod' = p
    /\ at' = [at EXCEPT ![p] = "read"]
    /\ n' = [n EXCEPT ![p] = 1]
    /\ UNCHANGED <<chip, mclk, tuner, sec, reg, full, history>>

\* A read that fails gives the errno: the low byte of -EIO has the bits of all
\* clocks set but one.
Value(shared, v) == {v, Clocks(shared)}

\* stv090x_read_reg.  Before it reads STOPCLK1, sleep has looked whether the
\* ADC of the other path is off; a failed read of that reads as on.
Looks(p) == sec[p] = "down" /\ Register(p) = "STOPCLK1"

ReadReg(p) ==
    /\ sec[p] \in RegisterSections /\ at[p] = "read"
    /\ \E v \in CASE Register(p) = "STOPCLK1" -> Value("fec", stop1)
                  [] Register(p) = "STOPCLK2" -> Value("ts", stop2)
                  [] OTHER -> {{}} :
         reg' = [reg EXCEPT ![p] = v]
    /\ IF Looks(p)
         THEN \E b \in BOOLEAN :
                /\ full' = [full EXCEPT ![p] = ~b /\ \A q \in Paths \ {p} : ~adc[q]]
                /\ blind' = b
         ELSE UNCHANGED <<full, blind>>
    /\ at' = [at EXCEPT ![p] = "write"]
    /\ UNCHANGED <<chip, mclk, locks, sec, n, open, awake, slept, dirty, failed, spoilt>>

\* stv090x_write_reg, with the fields the section sets.
Set(p, up, r, shared) == IF sec[p] = "vit" THEN r \ {p}
                         ELSE IF up THEN r \ {shared, p}
                         ELSE r \cup {p} \cup (IF full[p] THEN {shared} ELSE {})

\* What a failed read gave is about to be written back.
Misread(p) ==
    LET Errno(shared, v) == reg[p] = Clocks(shared) /\ v # reg[p]
    IN  \/ Register(p) = "STOPCLK1" /\ Errno("fec", stop1)
        \/ Register(p) = "STOPCLK2" /\ Errno("ts", stop2)

Write(p) ==
    LET up == sec[p] = "wake"
    IN  /\ spoilt' = [q \in Paths |-> ~(up /\ n[p] = 4 /\ q = p) /\ (spoilt[q] \/ Misread(p))]
        /\ CASE Register(p) = "SYNTCTRL" -> standby' = ~up /\ UNCHANGED <<adc, stop1, stop2>>
             [] Register(p) = "ADC" -> adc' = [adc EXCEPT ![p] = up] /\ UNCHANGED <<standby, stop1, stop2>>
             [] Register(p) = "STOPCLK1" -> stop1' = Set(p, up, reg[p], "fec") /\ UNCHANGED <<standby, adc, stop2>>
             [] Register(p) = "STOPCLK2" -> stop2' = Set(p, up, reg[p], "ts") /\ UNCHANGED <<standby, adc, stop1>>

\* Fault: sleep leaves the power of the chip on.
LastForgetsPower(p) == n[p] = 4 \/ sec[p] = "vit" \/ (n[p] = 3 /\ sec[p] = "down")

\* SYNTCTRL is the last register of sleep, for the last path to go.
Last(p) == \/ n[p] = 4 \/ sec[p] = "vit"
           \/ n[p] = 3 /\ sec[p] = "down" /\ ~full[p]

WriteReg(p) ==
    /\ sec[p] \in RegisterSections /\ at[p] = "write"
    /\ \/ /\ Write(p)
          /\ IF Last(p) THEN demod' = NoOne /\ Leave(p, TRUE)
             ELSE /\ at' = [at EXCEPT ![p] = "read"] /\ n' = [n EXCEPT ![p] = @ + 1]
                  /\ UNCHANGED <<demod, sec, reg, full, open, awake, slept, failed>>
       \/ /\ Write(p) \/ UNCHANGED <<standby, adc, stop1, stop2, spoilt>>
          /\ demod' = NoOne /\ Leave(p, FALSE)
    /\ UNCHANGED <<gate, mclk, tuner, dirty, blind>>

-----------------------------------------------------------------------------
(* The calls.  The thread of a frontend ignores what init returns.         *)

Begin(p, s) == /\ sec[p] = "idle"
               /\ Enter(p, s)
               /\ UNCHANGED <<chip, mclk, locks, dirty, failed, reads>>

StartInit(p) == /\ ~open[p]
                /\ Begin(p, IF mclk THEN "wake" ELSE "clkout")
                /\ open' = [open EXCEPT ![p] = TRUE]
                /\ slept' = [slept EXCEPT ![p] = FALSE]
                /\ UNCHANGED awake

\* Before the tuner is set up the symbol rate is divided by the master clock.
StartSearch(p) == /\ open[p]
                  /\ Begin(p, IF mclk THEN "setup" ELSE "oops")
                  /\ UNCHANGED <<open, awake, slept>>

StartSleep(p) == /\ open[p]
                 /\ Begin(p, "rest")
                 /\ open' = [open EXCEPT ![p] = FALSE]
                 /\ awake' = [awake EXCEPT ![p] = FALSE]
                 /\ UNCHANGED slept

Calls(p) == StartInit(p) \/ StartSearch(p) \/ StartSleep(p)
Continues(p) == GateOpen(p) \/ GateClose(p) \/ DemodLock(p) \/ SetMclk(p) \/ ReadReg(p) \/ WriteReg(p)

Next == \E p \in Paths : Calls(p) \/ Continues(p)

Spec == Init /\ [][Next]_vars

-----------------------------------------------------------------------------
\* What a path needs of the chip.
Powered(p) == /\ ~standby /\ adc[p]
              /\ stop1 \cap {"fec", p} = {} /\ "ts" \notin stop2

\* "FEC clock is shared between the two paths, only stop it when full standby
\* is possible" (stv090x.c:4089), and likewise the TS clock and the power: a
\* path whose init has succeeded has all it needs until its own sleep begins,
\* whatever the other path does and whichever writes and reads fail, unless what
\* a failed read gave has been written back to a clock register since.
AwakePathRuns == \A p \in Paths : awake[p] /\ ~spoilt[p] => Powered(p)

\* Without the exception it does not hold.
AwakePathAlwaysRuns == \A p \in Paths : awake[p] => Powered(p)

\* The converse, which the check of the other path's ADC is for: when both
\* paths sleep, and the sleep of neither has failed, the chip is powered off,
\* unless the last could not read the other's ADC.
AsleepIsStandby ==
    (\A p \in Paths : slept[p]) =>
      (standby /\ "fec" \in stop1 /\ "ts" \in stop2) \/ blind

\* The tuner_lock is used "as a FSM to control the state in which access is
\* serialized between two tuners" (stv090x.c:759): while a tuner is accessed the
\* gate of the other path is shut, unless a failed write has left it open.
TunerAlone ==
    \A p, q \in Paths : p # q /\ at[p] = "in" /\ gate[q] => dirty[q]

\* The search divides by internal->mclk: it is 0 there only when a transfer of
\* the init that had to set it has failed.
MclkKnown == [][\A p \in Paths : sec[p] = "idle" /\ sec'[p] = "oops" => failed]_vars

\* "In case of any error, the lock is unlocked and exit within the relevant
\* operations" (stv090x.c:764): a lock is held within a section that has not
\* ended, by its path, and by no other.
LocksGivenBack ==
    \A p \in Paths : /\ tuner = p <=> at[p] = "in"
                     /\ demod = p <=> at[p] \in {"read", "write"}
=============================================================================
