--------------------------- MODULE Stv090x_proofs ---------------------------
(***************************************************************************)
(* The safety properties of Stv090x, proved for any number of paths and    *)
(* rounds, any read and any write failing.                                 *)
(*                                                                         *)
(* The argument about the shared clocks: what a path has read of a         *)
(* register is an error or what the register still holds when it writes it *)
(* (Fresh), for it has the demod_lock; and whoever has found all other     *)
(* ADCs off still finds them off at its last write (Full).  So a sleeping  *)
(* path stops what is shared only when no other path has gone past its     *)
(* ADC, and an error that is written back is noted as such.                *)
(***************************************************************************)
EXTENDS Stv090x, TLAPS

InSection(p) == at[p] \in {"read", "write"}

(* A lock is asked for only at the section that needs it.                  *)
Placed == \A p \in Paths :
            /\ at[p] = "in" => sec[p] \in TunerSections
            /\ InSection(p) => /\ sec[p] \in RegisterSections
                               /\ n[p] \in 1..4
                               /\ sec[p] = "vit" => n[p] = 1

(* What was read is a value of the register to be written.                 *)
ReadTyped == \A p \in Paths :
               at[p] = "write" =>
                 /\ Register(p) = "STOPCLK1" => reg[p] \subseteq Clocks("fec")
                 /\ Register(p) = "STOPCLK2" => reg[p] \subseteq Clocks("ts")

(* A gate is open behind the lock, or a write of it has failed.            *)
GateShut == \A p \in Paths : gate[p] => at[p] = "in" \/ dirty[p]

LockInv == TypeOK /\ Placed /\ ReadTyped /\ LocksGivenBack /\ GateShut

(* What may follow a section.                                              *)
LEMMA FollowingType ==
    ASSUME NEW x \in TunerSections \cup RegisterSections, NEW ok \in BOOLEAN, NEW k,
           NEW s \in Following(x, ok, k)
    PROVE  /\ s \in (TunerSections \cup RegisterSections \cup {"mclk", "ok", "error"})
                    \ {"clkout", "wake", "rest"}
           /\ s = "mclk" <=> x = "clkout" /\ ok
           /\ s = "tuner" => x = "wake" /\ ok
           /\ s = "down" <=> x = "rest" /\ ok
           /\ s = "ok" => ok \/ x = "band"
  <1> USE DEF TunerSections, RegisterSections
  <1>1. CASE x \in {"clkout", "wake", "tuner"}
    BY <1>1 DEF Following, stv090x_init
  <1>2. CASE x \in {"rest", "down"}
    BY <1>2 DEF Following, stv090x_sleep
  <1>3. CASE x \in {"setup", "status", "vit", "step", "locked", "freq", "freq2", "band"}
    <2>1. Following(x, ok, k) = stv090x_algo(x, ok, k)
      BY <1>3 DEF Following
    <2>2. CASE x \in {"setup", "status", "band"}
      BY <2>1, <2>2 DEF stv090x_algo
    <2>3. CASE x = "vit"
      BY <2>1, <2>3 DEF stv090x_algo, stv090x_get_coldlock
    <2>4. CASE x \in {"step", "locked"}
      BY <2>1, <2>4 DEF stv090x_algo, stv090x_get_coldlock
    <2>5. CASE x \in {"freq", "freq2"}
      BY <2>1, <2>5 DEF stv090x_algo, stv090x_get_sig_params
    <2> QED BY <1>3, <2>2, <2>3, <2>4, <2>5
  <1> QED BY <1>1, <1>2, <1>3

LEMMA RegisterIs ==
    ASSUME NEW p \in Paths
    PROVE  /\ sec[p] = "wake" => /\ n[p] = 1 => Register(p) = "SYNTCTRL"
                                 /\ n[p] = 2 => Register(p) = "ADC"
                                 /\ n[p] = 3 => Register(p) = "STOPCLK1"
                                 /\ n[p] = 4 => Register(p) = "STOPCLK2"
           /\ sec[p] = "down" => /\ n[p] = 1 => Register(p) = "ADC"
                                 /\ n[p] = 2 => Register(p) = "STOPCLK1"
                                 /\ n[p] = 3 => Register(p) = "STOPCLK2"
                                 /\ n[p] = 4 => Register(p) = "SYNTCTRL"
           /\ sec[p] = "vit" /\ n[p] = 1 => Register(p) = "STOPCLK2"
  BY DEF Register, Registers

LEMMA InitLock == Init => LockInv
  <1> SUFFICES ASSUME Init PROVE LockInv
    OBVIOUS
  <1> USE NoOneAssumption DEF Init
  <1>1. /\ gate \in [Paths -> BOOLEAN] /\ standby \in BOOLEAN
        /\ adc \in [Paths -> BOOLEAN] /\ mclk \in BOOLEAN
        /\ full \in [Paths -> BOOLEAN]
        /\ open \in [Paths -> BOOLEAN] /\ awake \in [Paths -> BOOLEAN]
        /\ slept \in [Paths -> BOOLEAN] /\ dirty \in [Paths -> BOOLEAN]
        /\ failed \in BOOLEAN
        /\ spoilt \in [Paths -> BOOLEAN] /\ blind \in BOOLEAN
    OBVIOUS
  <1>2. /\ stop1 \subseteq Clocks("fec") /\ stop2 \subseteq Clocks("ts")
        /\ tuner \in Paths \cup {NoOne} /\ demod \in Paths \cup {NoOne}
        /\ at \in [Paths -> {"want", "in", "read", "write"}]
        /\ n \in [Paths -> Nat]
        /\ reg \in [Paths -> SUBSET ({"fec", "ts"} \cup Paths)]
    OBVIOUS
  <1>3. sec \in [Paths -> Sections]
    BY DEF Sections
  <1>4. TypeOK
    BY <1>1, <1>2, <1>3 DEF TypeOK
  <1>5. Placed /\ ReadTyped /\ LocksGivenBack /\ GateShut
    BY DEF Placed, ReadTyped, LocksGivenBack, GateShut, InSection
  <1> QED BY <1>4, <1>5 DEF LockInv

(* The variables of the call and of history, typed.                        *)
CallTyped == /\ sec' \in [Paths -> Sections]
             /\ at' \in [Paths -> {"want", "in", "read", "write"}]
             /\ n' \in [Paths -> Nat]
             /\ reg' \in [Paths -> SUBSET ({"fec", "ts"} \cup Paths)]
             /\ full' \in [Paths -> BOOLEAN]
HistoryTyped == /\ open' \in [Paths -> BOOLEAN] /\ awake' \in [Paths -> BOOLEAN]
                /\ slept' \in [Paths -> BOOLEAN] /\ failed' \in BOOLEAN
ReadsTyped == spoilt' \in [Paths -> BOOLEAN] /\ blind' \in BOOLEAN

LEMMA EnterTyped ==
    ASSUME TypeOK, NEW p \in Paths, NEW s \in Sections, Enter(p, s)
    PROVE  CallTyped
  <1> USE DEF TypeOK, Enter, CallTyped
  <1>1. n' \in [Paths -> Nat]
    OBVIOUS
  <1>2. /\ sec' \in [Paths -> Sections]
        /\ at' \in [Paths -> {"want", "in", "read", "write"}]
    OBVIOUS
  <1>3. full' \in [Paths -> BOOLEAN]
    OBVIOUS
  <1>4. reg' \in [Paths -> SUBSET ({"fec", "ts"} \cup Paths)]
    OBVIOUS
  <1> QED BY <1>1, <1>2, <1>3, <1>4

LEMMA LeaveTyped ==
    ASSUME TypeOK, NEW p \in Paths, NEW ok \in BOOLEAN, Leave(p, ok),
           sec[p] \in TunerSections \cup RegisterSections
    PROVE  CallTyped /\ HistoryTyped
  <1>1. PICK s \in Following(sec[p], ok, n[p]) :
          /\ Enter(p, IF s \in {"ok", "error"} THEN "idle" ELSE s)
          /\ awake' = [awake EXCEPT ![p] = @ \/ (sec[p] = "tuner" /\ s = "ok")]
          /\ slept' = [slept EXCEPT ![p] = @ \/ (sec[p] = "down" /\ s = "ok")]
          /\ failed' = (failed \/ (sec[p] = "clkout" /\ ~ok /\ ~mclk))
          /\ UNCHANGED open
    BY DEF Leave
  <1>2. (IF s \in {"ok", "error"} THEN "idle" ELSE s) \in Sections
    BY FollowingType DEF Sections
  <1>3. CallTyped
    BY <1>1, <1>2, EnterTyped
  <1>4. awake' \in [Paths -> BOOLEAN]
    BY <1>1, Zenon DEF TypeOK
  <1>5. slept' \in [Paths -> BOOLEAN]
    BY <1>1 DEF TypeOK
  <1>6. open' \in [Paths -> BOOLEAN] /\ failed' \in BOOLEAN
    BY <1>1 DEF TypeOK
  <1> QED BY <1>3, <1>4, <1>5, <1>6 DEF HistoryTyped

-----------------------------------------------------------------------------
(* The locks and the gate: every action keeps LockInv.                     *)

LEMMA LeaveFrame ==
    ASSUME TypeOK, NEW p \in Paths, NEW ok \in BOOLEAN, Leave(p, ok),
           sec[p] \in TunerSections \cup RegisterSections
    PROVE  /\ at' = [at EXCEPT ![p] = "want"]
           /\ \A q \in Paths \ {p} : /\ sec'[q] = sec[q] /\ n'[q] = n[q]
                                     /\ reg'[q] = reg[q] /\ full'[q] = full[q]
           /\ sec'[p] \in (TunerSections \cup RegisterSections \cup {"mclk", "idle"})
                          \ {"clkout", "wake", "rest"}
  <1>1. PICK s \in Following(sec[p], ok, n[p]) :
          Enter(p, IF s \in {"ok", "error"} THEN "idle" ELSE s)
    BY DEF Leave
  <1>2. s \in (TunerSections \cup RegisterSections \cup {"mclk", "ok", "error"})
               \ {"clkout", "wake", "rest"}
    BY FollowingType
  <1>3. sec' = [sec EXCEPT ![p] = IF s \in {"ok", "error"} THEN "idle" ELSE s]
    BY <1>1 DEF Enter
  <1> QED BY <1>1, <1>2, <1>3 DEF Enter, TypeOK

LEMMA WriteGateTyped ==
    ASSUME TypeOK, NEW p \in Paths, NEW on \in BOOLEAN, NEW ok \in BOOLEAN, WriteGate(p, on, ok)
    PROVE  /\ gate' \in [Paths -> BOOLEAN] /\ dirty' \in [Paths -> BOOLEAN]
           /\ \A q \in Paths \ {p} : gate'[q] = gate[q] /\ dirty'[q] = dirty[q]
           /\ gate'[p] => (on /\ ok) \/ dirty'[p]
  <1>1. PICK g \in IF ok THEN {on} ELSE {on, gate[p]} :
          gate' = [gate EXCEPT ![p] = g] /\ dirty' = [dirty EXCEPT ![p] = ~ok /\ g]
    BY DEF WriteGate
  <1>2. g \in BOOLEAN /\ (ok => g = on)
    BY <1>1 DEF TypeOK
  <1>3. gate' \in [Paths -> BOOLEAN]
    BY <1>1, <1>2 DEF TypeOK
  <1>4. dirty' \in [Paths -> BOOLEAN]
    BY <1>1, <1>2 DEF TypeOK
  <1>5. \A q \in Paths \ {p} : gate'[q] = gate[q] /\ dirty'[q] = dirty[q]
    BY <1>1 DEF TypeOK
  <1>6. gate'[p] = g /\ (dirty'[p] <=> ~ok /\ g)
    BY <1>1, <1>2 DEF TypeOK
  <1> QED BY <1>2, <1>3, <1>4, <1>5, <1>6

(* Registers that no step under the demod_lock has changed are as typed.   *)
Still == UNCHANGED <<standby, adc, stop1, stop2, mclk, spoilt, blind>>

LEMMA GateOpenStep ==
    ASSUME LockInv, NEW p \in Paths, GateOpen(p) PROVE LockInv'
  <1> USE NoOneAssumption DEF LockInv
  <1>1. /\ sec[p] \in TunerSections /\ at[p] = "want" /\ tuner = NoOne
        /\ UNCHANGED demod /\ Still
    BY DEF GateOpen, WriteGate, Still, reads
  <1>2. CASE /\ WriteGate(p, TRUE, TRUE) /\ tuner' = p
             /\ at' = [at EXCEPT ![p] = "in"]
             /\ UNCHANGED <<sec, n, reg, full, open, awake, slept, failed>>
    <2>1. TypeOK'
      <3>1. gate' \in [Paths -> BOOLEAN] /\ dirty' \in [Paths -> BOOLEAN]
        BY <1>2, WriteGateTyped
      <3> QED BY <1>1, <1>2, <3>1 DEF TypeOK, Still
    <2>2. Placed' /\ ReadTyped' /\ LocksGivenBack'
      BY <1>1, <1>2 DEF Placed, ReadTyped, LocksGivenBack, TypeOK, InSection, Register
    <2>3. GateShut'
      BY <1>1, <1>2, WriteGateTyped DEF GateShut, TypeOK
    <2> QED BY <2>1, <2>2, <2>3
  <1>3. CASE WriteGate(p, TRUE, FALSE) /\ Leave(p, FALSE) /\ UNCHANGED tuner
    <2>1. /\ gate' \in [Paths -> BOOLEAN] /\ dirty' \in [Paths -> BOOLEAN]
          /\ \A q \in Paths \ {p} : gate'[q] = gate[q] /\ dirty'[q] = dirty[q]
          /\ gate'[p] => dirty'[p]
      BY <1>3, WriteGateTyped
    <2>2. CallTyped /\ HistoryTyped
      BY <1>1, <1>3, LeaveTyped
    <2>3. TypeOK'
      BY <1>1, <1>3, <2>1, <2>2 DEF TypeOK, CallTyped, HistoryTyped, Still
    <2>4. /\ at' = [at EXCEPT ![p] = "want"]
          /\ \A q \in Paths \ {p} : sec'[q] = sec[q] /\ n'[q] = n[q] /\ reg'[q] = reg[q]
      BY <1>1, <1>3, LeaveFrame
    <2>5. Placed' /\ ReadTyped' /\ LocksGivenBack' /\ GateShut'
      BY <1>1, <1>3, <2>1, <2>4
         DEF Placed, ReadTyped, LocksGivenBack, GateShut, TypeOK, InSection, Register
    <2> QED BY <2>3, <2>5
  <1> QED BY <1>2, <1>3 DEF GateOpen

LEMMA GateCloseStep ==
    ASSUME LockInv, NEW p \in Paths, GateClose(p) PROVE LockInv'
  <1> USE NoOneAssumption DEF LockInv
  <1>1. /\ sec[p] \in TunerSections /\ at[p] = "in" /\ tuner' = NoOne
        /\ UNCHANGED demod /\ Still
    BY DEF GateClose, WriteGate, Still, reads
  <1>2. PICK done \in BOOLEAN, ok \in BOOLEAN : WriteGate(p, FALSE, ok) /\ Leave(p, done)
    BY DEF GateClose
  <1>3. /\ gate' \in [Paths -> BOOLEAN] /\ dirty' \in [Paths -> BOOLEAN]
        /\ \A q \in Paths \ {p} : gate'[q] = gate[q] /\ dirty'[q] = dirty[q]
        /\ gate'[p] => dirty'[p]
    BY <1>2, WriteGateTyped
  <1>4. CallTyped /\ HistoryTyped
    BY <1>1, <1>2, LeaveTyped
  <1>5. TypeOK'
    BY <1>1, <1>3, <1>4 DEF TypeOK, CallTyped, HistoryTyped, Still
  <1>6. /\ at' = [at EXCEPT ![p] = "want"]
        /\ \A q \in Paths \ {p} : sec'[q] = sec[q] /\ n'[q] = n[q] /\ reg'[q] = reg[q]
    BY <1>1, <1>2, LeaveFrame
  <1>7. Placed' /\ ReadTyped' /\ LocksGivenBack' /\ GateShut'
    BY <1>1, <1>3, <1>6
       DEF Placed, ReadTyped, LocksGivenBack, GateShut, TypeOK, InSection, Register
  <1> QED BY <1>5, <1>7

(* Calls begin and set_mclk works outside the locks.                       *)
LEMMA OutsideStep ==
    ASSUME LockInv, NEW p \in Paths, NEW s \in Sections, sec[p] \in {"idle", "mclk"}, Enter(p, s),
           UNCHANGED <<gate, adc, stop1, stop2, tuner, demod, dirty, spoilt, blind>>,
           standby' \in BOOLEAN, mclk' \in BOOLEAN, HistoryTyped
    PROVE  LockInv'
  <1>1. TypeOK'
    BY EnterTyped DEF LockInv, TypeOK, CallTyped, HistoryTyped
  <1>2. at[p] = "want"
    BY DEF LockInv, Placed, InSection, TypeOK, TunerSections, RegisterSections
  <1>3. Placed' /\ ReadTyped'
    BY <1>2 DEF LockInv, Placed, ReadTyped, Enter, TypeOK, InSection, Register
  <1>4. LocksGivenBack' /\ GateShut'
    BY <1>2 DEF LockInv, LocksGivenBack, GateShut, Enter, TypeOK
  <1> QED BY <1>1, <1>3, <1>4 DEF LockInv

LEMMA SetMclkStep ==
    ASSUME LockInv, NEW p \in Paths, SetMclk(p) PROVE LockInv'
  <1>1. PICK lost \in BOOLEAN, ok \in BOOLEAN :
          /\ mclk' = (mclk \/ ~lost)
          /\ failed' = ((failed \/ lost) /\ ~mclk')
          /\ \E s \in IF ok THEN {FALSE} ELSE {FALSE, standby} : standby' = s
          /\ Enter(p, IF ok THEN "wake" ELSE "idle")
    BY DEF SetMclk
  <1>2. mclk' \in BOOLEAN /\ failed' \in BOOLEAN /\ standby' \in BOOLEAN
    BY <1>1 DEF LockInv, TypeOK
  <1>3. (IF ok THEN "wake" ELSE "idle") \in Sections
    BY DEF Sections, RegisterSections
  <1>4. HistoryTyped
    BY <1>2 DEF SetMclk, LockInv, TypeOK, HistoryTyped
  <1> QED BY <1>1, <1>2, <1>3, <1>4, OutsideStep DEF SetMclk, locks, reads

LEMMA CallStep ==
    ASSUME LockInv, NEW p \in Paths, Calls(p) PROVE LockInv'
  <1>1. PICK s \in Sections : Begin(p, s)
    BY DEF Calls, StartInit, StartSearch, StartSleep, Sections, TunerSections, RegisterSections
  <1>2. /\ sec[p] = "idle" /\ Enter(p, s)
        /\ UNCHANGED <<gate, adc, stop1, stop2, tuner, demod, dirty, spoilt, blind>>
        /\ UNCHANGED <<standby, mclk, failed>>
    BY <1>1 DEF Begin, chip, locks, reads
  <1>3. HistoryTyped
    BY <1>2 DEF Calls, StartInit, StartSearch, StartSleep, LockInv, TypeOK, HistoryTyped
  <1> QED BY <1>2, <1>3, OutsideStep DEF LockInv, TypeOK

LEMMA DemodLockStep ==
    ASSUME LockInv, NEW p \in Paths, DemodLock(p) PROVE LockInv'
  <1> USE NoOneAssumption DEF LockInv, chip, history, reads
  <1>1. TypeOK'
    BY DEF DemodLock, TypeOK
  <1>2. Placed' /\ ReadTyped'
    BY DEF DemodLock, Placed, ReadTyped, TypeOK, InSection, Register, Clocks
  <1>3. LocksGivenBack' /\ GateShut'
    BY DEF DemodLock, LocksGivenBack, GateShut, TypeOK
  <1> QED BY <1>1, <1>2, <1>3

(* The value read, and the decision of sleep.                              *)
LEMMA ReadEffect ==
    ASSUME LockInv, NEW p \in Paths, ReadReg(p)
    PROVE  /\ sec[p] \in RegisterSections /\ at[p] = "read"
           /\ at' = [at EXCEPT ![p] = "write"]
           /\ \E v \in SUBSET ({"fec", "ts"} \cup Paths) :
                /\ reg' = [reg EXCEPT ![p] = v]
                /\ Register(p) = "STOPCLK1" => v \in {stop1, Clocks("fec")}
                /\ Register(p) = "STOPCLK2" => v \in {stop2, Clocks("ts")}
           /\ \E b \in BOOLEAN :
                /\ full' = [full EXCEPT ![p] = b]
                /\ Looks(p) => b = (~blind' /\ \A q \in Paths \ {p} : ~adc[q])
                /\ ~Looks(p) => b = full[p] /\ blind' = blind
           /\ blind' \in BOOLEAN
           /\ UNCHANGED <<chip, mclk, locks, sec, n, open, awake, slept, dirty, failed,
                          spoilt>>
  <1>1. PICK v \in CASE Register(p) = "STOPCLK1" -> Value("fec", stop1)
                     [] Register(p) = "STOPCLK2" -> Value("ts", stop2)
                     [] OTHER -> {{}} :
          reg' = [reg EXCEPT ![p] = v]
    BY DEF ReadReg
  <1>2. /\ v \in SUBSET ({"fec", "ts"} \cup Paths)
        /\ Register(p) = "STOPCLK1" => v \in {stop1, Clocks("fec")}
        /\ Register(p) = "STOPCLK2" => v \in {stop2, Clocks("ts")}
    <2>1. CASE Register(p) = "STOPCLK1"
      BY <1>1, <2>1 DEF Value, Clocks, LockInv, TypeOK
    <2>2. CASE Register(p) = "STOPCLK2"
      BY <1>1, <2>2 DEF Value, Clocks, LockInv, TypeOK
    <2>3. CASE Register(p) \notin {"STOPCLK1", "STOPCLK2"}
      BY <1>1, <2>3
    <2> QED BY <2>1, <2>2, <2>3
  <1>3. CASE Looks(p)
    <2> DEFINE c == ~blind' /\ \A q \in Paths \ {p} : ~adc[q]
    <2>1. full' = [full EXCEPT ![p] = c] /\ blind' \in BOOLEAN
      BY <1>3 DEF ReadReg
    <2>2. c \in BOOLEAN
      OBVIOUS
    <2> QED BY <1>1, <1>2, <1>3, <2>1, <2>2 DEF ReadReg
  <1>4. CASE ~Looks(p)
    <2>1. full' = [full EXCEPT ![p] = full[p]] /\ full[p] \in BOOLEAN /\ blind' = blind
      BY <1>4 DEF ReadReg, LockInv, TypeOK
    <2>2. blind' \in BOOLEAN
      BY <2>1 DEF LockInv, TypeOK
    <2> QED BY <1>1, <1>2, <1>4, <2>1, <2>2 DEF ReadReg
  <1> QED BY <1>3, <1>4

LEMMA ReadStep ==
    ASSUME LockInv, NEW p \in Paths, ReadReg(p) PROVE LockInv'
  <1> USE NoOneAssumption DEF LockInv, chip, locks
  <1>1. PICK v \in SUBSET ({"fec", "ts"} \cup Paths) :
          /\ reg' = [reg EXCEPT ![p] = v]
          /\ Register(p) = "STOPCLK1" => v \in {stop1, Clocks("fec")}
          /\ Register(p) = "STOPCLK2" => v \in {stop2, Clocks("ts")}
    BY ReadEffect
  <1>2. PICK b \in BOOLEAN : full' = [full EXCEPT ![p] = b]
    BY ReadEffect
  <1>3. /\ at[p] = "read" /\ at' = [at EXCEPT ![p] = "write"]
        /\ blind' \in BOOLEAN
        /\ UNCHANGED <<chip, mclk, locks, sec, n, open, awake, slept, dirty, failed,
                       spoilt>>
    BY ReadEffect
  <1>4. TypeOK'
    <2>1. reg' \in [Paths -> SUBSET ({"fec", "ts"} \cup Paths)]
      BY <1>1 DEF TypeOK
    <2>2. full' \in [Paths -> BOOLEAN]
      BY <1>2 DEF TypeOK
    <2> QED BY <1>3, <2>1, <2>2 DEF TypeOK
  <1>5. Placed' /\ LocksGivenBack' /\ GateShut'
    BY <1>3 DEF Placed, LocksGivenBack, GateShut, TypeOK, InSection
  <1>6. ReadTyped'
    BY <1>1, <1>3 DEF ReadTyped, TypeOK, Register
  <1> QED BY <1>4, <1>5, <1>6

LEMMA WriteTyped ==
    ASSUME LockInv, NEW p \in Paths, at[p] = "write",
           Write(p) \/ UNCHANGED <<standby, adc, stop1, stop2, spoilt>>
    PROVE  /\ standby' \in BOOLEAN /\ adc' \in [Paths -> BOOLEAN]
           /\ stop1' \subseteq Clocks("fec") /\ stop2' \subseteq Clocks("ts")
           /\ spoilt' \in [Paths -> BOOLEAN]
  <1>1. CASE UNCHANGED <<standby, adc, stop1, stop2, spoilt>>
    BY <1>1 DEF LockInv, TypeOK
  <1>2. CASE Write(p)
    <2>0. spoilt' \in [Paths -> BOOLEAN]
      <3> DEFINE Spoilt(q) == ~(sec[p] = "wake" /\ n[p] = 4 /\ q = p) /\ (spoilt[q] \/ Misread(p))
      <3>1. spoilt' = [q \in Paths |-> Spoilt(q)]
        BY <1>2 DEF Write
      <3>2. \A q \in Paths : Spoilt(q) \in BOOLEAN
        OBVIOUS
      <3> HIDE DEF Spoilt
      <3> QED BY <3>1, <3>2
    <2>1. Register(p) \in {"SYNTCTRL", "ADC", "STOPCLK1", "STOPCLK2"}
      <3>1. n[p] \in {1, 2, 3, 4} /\ sec[p] \in {"wake", "down", "vit"} /\ (sec[p] = "vit" => n[p] = 1)
        BY DEF LockInv, Placed, InSection, RegisterSections
      <3> QED BY <3>1, RegisterIs
    <2>2. CASE Register(p) = "SYNTCTRL"
      BY <1>2, <2>0, <2>2 DEF Write, LockInv, TypeOK
    <2>3. CASE Register(p) = "ADC"
      BY <1>2, <2>0, <2>3 DEF Write, LockInv, TypeOK
    <2>4. CASE Register(p) = "STOPCLK1"
      <3>1. reg[p] \subseteq Clocks("fec")
        BY <2>4 DEF LockInv, ReadTyped
      <3>2. stop1' = Set(p, sec[p] = "wake", reg[p], "fec") /\ UNCHANGED <<standby, adc, stop2>>
        BY <1>2, <2>4 DEF Write
      <3>3. Set(p, sec[p] = "wake", reg[p], "fec") \subseteq Clocks("fec")
        BY <3>1 DEF Set, Clocks
      <3> QED BY <2>0, <3>2, <3>3 DEF LockInv, TypeOK
    <2>5. CASE Register(p) = "STOPCLK2"
      <3>1. reg[p] \subseteq Clocks("ts")
        BY <2>5 DEF LockInv, ReadTyped
      <3>2. stop2' = Set(p, sec[p] = "wake", reg[p], "ts") /\ UNCHANGED <<standby, adc, stop1>>
        BY <1>2, <2>5 DEF Write
      <3>3. Set(p, sec[p] = "wake", reg[p], "ts") \subseteq Clocks("ts")
        BY <3>1 DEF Set, Clocks
      <3> QED BY <2>0, <3>2, <3>3 DEF LockInv, TypeOK
    <2> QED BY <2>1, <2>2, <2>3, <2>4, <2>5
  <1> QED BY <1>1, <1>2

LEMMA WriteStep ==
    ASSUME LockInv, NEW p \in Paths, WriteReg(p) PROVE LockInv'
  <1> USE NoOneAssumption DEF LockInv
  <1>1. /\ sec[p] \in RegisterSections /\ at[p] = "write"
        /\ UNCHANGED <<gate, mclk, tuner, dirty, blind>>
        /\ Write(p) \/ UNCHANGED <<standby, adc, stop1, stop2, spoilt>>
    BY DEF WriteReg
  <1>2. /\ standby' \in BOOLEAN /\ adc' \in [Paths -> BOOLEAN]
        /\ stop1' \subseteq Clocks("fec") /\ stop2' \subseteq Clocks("ts")
        /\ spoilt' \in [Paths -> BOOLEAN]
    BY <1>1, WriteTyped
  <1>3. ASSUME demod' = NoOne, NEW ok \in BOOLEAN, Leave(p, ok) PROVE LockInv'
    <2>1. CallTyped /\ HistoryTyped
      BY <1>1, <1>3, LeaveTyped
    <2>2. TypeOK'
      BY <1>1, <1>2, <1>3, <2>1 DEF TypeOK, CallTyped, HistoryTyped
    <2>3. /\ at' = [at EXCEPT ![p] = "want"]
          /\ \A q \in Paths \ {p} : sec'[q] = sec[q] /\ n'[q] = n[q] /\ reg'[q] = reg[q]
      BY <1>1, <1>3, LeaveFrame
    <2>4. Placed' /\ ReadTyped' /\ LocksGivenBack' /\ GateShut'
      BY <1>1, <1>3, <2>3
         DEF Placed, ReadTyped, LocksGivenBack, GateShut, TypeOK, InSection, Register
    <2> QED BY <2>2, <2>4
  <1>4. CASE /\ Write(p) /\ ~Last(p)
             /\ at' = [at EXCEPT ![p] = "read"] /\ n' = [n EXCEPT ![p] = @ + 1]
             /\ UNCHANGED <<demod, sec, reg, full, open, awake, slept, failed>>
    <2>1. TypeOK'
      BY <1>1, <1>2, <1>4 DEF TypeOK
    <2>2. n[p] \in 1..3 /\ sec[p] # "vit"
      BY <1>1, <1>4 DEF Last, Placed, InSection, RegisterSections
    <2>3. Placed' /\ ReadTyped' /\ LocksGivenBack' /\ GateShut'
      BY <1>1, <1>4, <2>2
         DEF Placed, ReadTyped, LocksGivenBack, GateShut, TypeOK, InSection, Register
    <2> QED BY <2>1, <2>3
  <1> QED BY <1>3, <1>4 DEF WriteReg

LEMMA LockStep == LockInv /\ [Next]_vars => LockInv'
  <1> SUFFICES ASSUME LockInv, [Next]_vars PROVE LockInv'
    OBVIOUS
  <1>1. CASE UNCHANGED vars
    BY <1>1 DEF vars, chip, locks, call, history, reads, LockInv, TypeOK, Placed, ReadTyped,
                LocksGivenBack, GateShut, InSection, Register
  <1>2. ASSUME NEW p \in Paths, Calls(p) \/ Continues(p) PROVE LockInv'
    BY <1>2, CallStep, GateOpenStep, GateCloseStep, DemodLockStep, SetMclkStep,
       ReadStep, WriteStep DEF Continues
  <1> QED BY <1>1, <1>2 DEF Next

THEOREM LockInvariant == Spec => []LockInv
  BY InitLock, LockStep, PTL DEF Spec

-----------------------------------------------------------------------------
(* Every variable of the chip keeps its type.                              *)
THEOREM StvTypeCorrect == Spec => []TypeOK
  <1>1. LockInv => TypeOK
    BY DEF LockInv
  <1> QED BY <1>1, LockInvariant, PTL

(* The tuner_lock and the demod_lock of stv090x.c are held within a section *)
(* that has not ended, by its path, whatever fails.                        *)
THEOREM LocksTheorem == Spec => []LocksGivenBack
  <1>1. LockInv => LocksGivenBack
    BY DEF LockInv
  <1> QED BY <1>1, LockInvariant, PTL

(* While stv090x_i2c_gate_ctrl lets one path at its tuner, the gate of any  *)
(* other is shut, unless a write that failed has left it open.             *)
THEOREM TunerTheorem == Spec => []TunerAlone
  <1>1. LockInv => TunerAlone
    BY NoOneAssumption DEF LockInv, LocksGivenBack, GateShut, TunerAlone
  <1> QED BY <1>1, LockInvariant, PTL

-----------------------------------------------------------------------------
(* The shared registers.                                                   *)

(* A path writes back what the register still holds, or an error.          *)
Fresh == \A p \in Paths : at[p] = "write" =>
           /\ Register(p) = "STOPCLK1" => reg[p] \in {stop1, Clocks("fec")}
           /\ Register(p) = "STOPCLK2" => reg[p] \in {stop2, Clocks("ts")}

(* The other ADCs are as sleep has found them, and it stops only then at   *)
(* the TS clock.                                                           *)
Full == \A p \in Paths :
          /\ full[p] => InSection(p) /\ sec[p] = "down" /\ n[p] >= 2
          /\ InSection(p) /\ sec[p] = "down" =>
               /\ n[p] > 2 \/ (n[p] = 2 /\ at[p] = "write") =>
                    (full[p] <=> ~blind /\ \A q \in Paths \ {p} : ~adc[q])
               /\ n[p] = 4 => full[p]

Runs(p) == Powered(p) \/ spoilt[p]

(* Init has everything on when it comes to the tuner.                      *)
Waking == \A p \in Paths :
            /\ InSection(p) /\ sec[p] = "wake" =>
                 /\ n[p] >= 2 => ~standby
                 /\ n[p] >= 3 => adc[p]
                 /\ n[p] >= 4 => stop1 \cap {"fec", p} = {}
            /\ sec[p] = "tuner" \/ awake[p] => Runs(p)

(* Sleep has everything off when it ends.                                  *)
Going == \A p \in Paths :
           /\ sec[p] \in {"rest", "down"} => ~awake[p] /\ ~open[p]
           /\ InSection(p) /\ sec[p] = "down" =>
                /\ n[p] >= 2 => ~adc[p]
                /\ n[p] >= 3 /\ full[p] => "fec" \in stop1
                /\ n[p] >= 4 => "ts" \in stop2
           /\ slept[p] => sec[p] = "idle" /\ ~open[p] /\ ~adc[p]

PathInv == Fresh /\ Full /\ Waking /\ Going /\ AsleepIsStandby

LEMMA InitPath == Init => PathInv
  BY PathsAssumption
     DEF Init, PathInv, Fresh, Full, Waking, Runs, Powered, Going, AsleepIsStandby, InSection

(* What the end of a section does to the history.                          *)
LEMMA LeaveHistory ==
    ASSUME TypeOK, NEW p \in Paths, NEW ok \in BOOLEAN, Leave(p, ok),
           sec[p] \in TunerSections \cup RegisterSections
    PROVE  /\ \A q \in Paths \ {p} : awake'[q] = awake[q] /\ slept'[q] = slept[q]
           /\ awake'[p] => awake[p] \/ (sec[p] = "tuner" /\ ok)
           /\ slept'[p] => slept[p] \/ (sec[p] = "down" /\ ok)
           /\ slept[p] => slept'[p]
           /\ UNCHANGED open
           /\ sec'[p] = "tuner" => sec[p] = "wake" /\ ok
           /\ sec'[p] = "down" => sec[p] = "rest"
           /\ sec'[p] \notin {"rest", "wake"}
           /\ ok /\ sec[p] = "down" => sec'[p] = "idle"
           /\ ~full'[p]
           /\ sec'[p] = "mclk" \/ sec[p] # "clkout" \/ ok \/ mclk \/ failed'
           /\ failed => failed'
           /\ sec[p] = "clkout" => (sec'[p] = "mclk" <=> ok)
  <1>1. PICK s \in Following(sec[p], ok, n[p]) :
          /\ Enter(p, IF s \in {"ok", "error"} THEN "idle" ELSE s)
          /\ awake' = [awake EXCEPT ![p] = @ \/ (sec[p] = "tuner" /\ s = "ok")]
          /\ slept' = [slept EXCEPT ![p] = @ \/ (sec[p] = "down" /\ s = "ok")]
          /\ failed' = (failed \/ (sec[p] = "clkout" /\ ~ok /\ ~mclk))
          /\ UNCHANGED open
    BY DEF Leave
  <1>2. /\ s \in (TunerSections \cup RegisterSections \cup {"mclk", "ok", "error"})
                  \ {"clkout", "wake", "rest"}
        /\ s = "mclk" <=> sec[p] = "clkout" /\ ok
        /\ s = "tuner" => sec[p] = "wake" /\ ok
        /\ s = "down" <=> sec[p] = "rest" /\ ok
        /\ s = "ok" => ok \/ sec[p] = "band"
    BY FollowingType
  <1>3. /\ sec'[p] = IF s \in {"ok", "error"} THEN "idle" ELSE s
        /\ ~full'[p]
    BY <1>1 DEF Enter, TypeOK
  <1>4. /\ \A q \in Paths \ {p} : awake'[q] = awake[q]
        /\ awake'[p] => awake[p] \/ (sec[p] = "tuner" /\ ok)
    <2>1. awake'[p] = (awake[p] \/ (sec[p] = "tuner" /\ s = "ok"))
      BY <1>1 DEF TypeOK
    <2> QED BY <1>1, <1>2, <2>1 DEF TypeOK
  <1>5. /\ \A q \in Paths \ {p} : slept'[q] = slept[q]
        /\ slept'[p] => slept[p] \/ (sec[p] = "down" /\ ok)
        /\ slept[p] => slept'[p]
    <2>1. slept'[p] = (slept[p] \/ (sec[p] = "down" /\ s = "ok"))
      BY <1>1 DEF TypeOK
    <2> QED BY <1>1, <1>2, <2>1 DEF TypeOK
  <1>6. ok /\ sec[p] = "down" => sec'[p] = "idle"
    BY <1>3 DEF Following, stv090x_sleep
  <1>7. (failed => failed') /\ (sec[p] # "clkout" \/ ok \/ mclk \/ failed')
    BY <1>1
  <1>8. sec[p] = "clkout" => (sec'[p] = "mclk" <=> ok)
    BY <1>2, <1>3
  <1> QED BY <1>1, <1>2, <1>3, <1>4, <1>5, <1>6, <1>7, <1>8

LEMMA LeavePath ==
    ASSUME LockInv, PathInv, NEW p \in Paths, NEW ok \in BOOLEAN, Leave(p, ok),
           sec[p] \in TunerSections, UNCHANGED <<standby, adc, stop1, stop2, spoilt, blind>>
    PROVE  PathInv'
  <1> USE DEF LockInv, PathInv
  <1>1. sec[p] \notin {"idle", "wake", "down", "vit"}
    BY DEF TunerSections
  <1>2. /\ at' = [at EXCEPT ![p] = "want"]
        /\ \A q \in Paths \ {p} : /\ sec'[q] = sec[q] /\ n'[q] = n[q]
                                  /\ reg'[q] = reg[q] /\ full'[q] = full[q]
    BY LeaveFrame
  <1>3. /\ \A q \in Paths \ {p} : awake'[q] = awake[q] /\ slept'[q] = slept[q]
        /\ awake'[p] => awake[p] \/ sec[p] = "tuner"
        /\ slept'[p] => slept[p]
        /\ UNCHANGED open
        /\ sec'[p] # "tuner" /\ (sec'[p] = "down" => sec[p] = "rest") /\ sec'[p] # "rest"
        /\ ~full'[p]
    BY <1>1, LeaveHistory
  <1>4. ~slept[p]
    BY <1>1 DEF Going
  <1>5. at'[p] = "want" /\ \A q \in Paths \ {p} : at'[q] = at[q]
    BY <1>2 DEF TypeOK
  <1>6. Fresh'
    BY <1>2, <1>5 DEF Fresh, Register
  <1>7. Full'
    BY <1>2, <1>3, <1>5 DEF Full, InSection
  <1>8. Waking'
    BY <1>2, <1>3, <1>5 DEF Waking, Runs, Powered, InSection
  <1>9. Going'
    BY <1>2, <1>3, <1>4, <1>5 DEF Going, InSection
  <1>10. AsleepIsStandby'
    BY <1>3, <1>4 DEF AsleepIsStandby
  <1> QED BY <1>6, <1>7, <1>8, <1>9, <1>10

LEMMA TunerPath ==
    ASSUME LockInv, PathInv, NEW p \in Paths, GateOpen(p) \/ GateClose(p) PROVE PathInv'
  <1>1. sec[p] \in TunerSections /\ UNCHANGED <<standby, adc, stop1, stop2, spoilt, blind>>
    BY DEF GateOpen, GateClose, WriteGate, reads
  <1>2. ASSUME NEW ok \in BOOLEAN, Leave(p, ok) PROVE PathInv'
    BY <1>1, <1>2, LeavePath
  <1>3. CASE /\ at[p] = "want" /\ at' = [at EXCEPT ![p] = "in"]
             /\ UNCHANGED <<sec, n, reg, full, open, awake, slept, failed>>
    <2>1. \A q \in Paths : /\ at'[q] = "write" <=> at[q] = "write"
                           /\ at'[q] = "read" <=> at[q] = "read"
      BY <1>3 DEF LockInv, TypeOK
    <2>2. Fresh' /\ Full'
      BY <1>1, <1>3, <2>1 DEF PathInv, Fresh, Full, InSection, Register
    <2>3. Waking' /\ Going' /\ AsleepIsStandby'
      BY <1>1, <1>3, <2>1 DEF PathInv, Waking, Runs, Powered, Going, AsleepIsStandby, InSection
    <2> QED BY <2>2, <2>3 DEF PathInv
  <1> QED BY <1>2, <1>3 DEF GateOpen, GateClose

(* A call that begins, and set_mclk, which may only clear standby.         *)
LEMMA OutsidePath ==
    ASSUME LockInv, PathInv, NEW p \in Paths, Calls(p) \/ SetMclk(p) PROVE PathInv'
  <1> USE DEF LockInv
  <1>1. /\ sec[p] \in {"idle", "mclk"}
        /\ UNCHANGED <<adc, stop1, stop2, spoilt, blind>> /\ (standby' => standby)
        /\ sec[p] = "mclk" \/ standby' = standby
    <2>1. CASE Calls(p)
      BY <2>1 DEF Calls, StartInit, StartSearch, StartSleep, Begin, chip, reads
    <2>2. CASE SetMclk(p)
      <3>1. PICK s \in {FALSE, standby} : standby' = s
        BY <2>2 DEF SetMclk
      <3>2. standby' => standby
        BY <3>1, Zenon
      <3> QED BY <2>2, <3>2 DEF SetMclk, reads
    <2> QED BY <2>1, <2>2
  <1>2. \E s \in {"idle", "wake", "clkout", "setup", "oops", "rest"} :
          Enter(p, s) /\ (s = "rest" => ~awake'[p] /\ ~open'[p])
    <2>1. CASE StartInit(p) \/ StartSearch(p)
      BY <2>1 DEF StartInit, StartSearch, Begin
    <2>2. CASE StartSleep(p)
      BY <2>2 DEF StartSleep, Begin, TypeOK
    <2>3. CASE SetMclk(p)
      BY <2>3 DEF SetMclk
    <2> QED BY <2>1, <2>2, <2>3 DEF Calls
  <1>3. /\ \A q \in Paths \ {p} : /\ sec'[q] = sec[q] /\ at'[q] = at[q] /\ n'[q] = n[q]
                                  /\ reg'[q] = reg[q] /\ full'[q] = full[q]
        /\ sec'[p] \in {"idle", "wake", "clkout", "setup", "oops", "rest"}
        /\ at'[p] = "want" /\ ~full'[p]
        /\ sec'[p] = "rest" => ~awake'[p] /\ ~open'[p]
    BY <1>2 DEF Enter, TypeOK
  <1>4. /\ \A q \in Paths : awake'[q] => awake[q]
        /\ \A q \in Paths \ {p} : open'[q] = open[q] /\ slept'[q] = slept[q]
        /\ ~slept'[p]
    <2>1. CASE SetMclk(p)
      BY <2>1 DEF SetMclk, PathInv, Going, TypeOK
    <2>2. CASE StartInit(p)
      BY <2>2 DEF StartInit, TypeOK
    <2>3. CASE StartSearch(p) \/ StartSleep(p)
      BY <2>3 DEF StartSearch, StartSleep, PathInv, Going, TypeOK
    <2> QED BY <2>1, <2>2, <2>3 DEF Calls
  <1>5. Fresh'
    BY <1>1, <1>3 DEF PathInv, Fresh, Register
  <1>6. Full'
    BY <1>1, <1>3 DEF PathInv, Full, InSection
  <1>7. Waking'
    BY <1>1, <1>3, <1>4 DEF PathInv, Waking, Runs, Powered, InSection
  <1>8. Going'
    BY <1>1, <1>3, <1>4 DEF PathInv, Going, InSection
  <1>9. AsleepIsStandby'
    BY <1>4 DEF AsleepIsStandby
  <1> QED BY <1>5, <1>6, <1>7, <1>8, <1>9 DEF PathInv

LEMMA DemodLockPath ==
    ASSUME LockInv, PathInv, NEW p \in Paths, DemodLock(p) PROVE PathInv'
  <1> USE DEF LockInv, chip, history, reads
  <1>1. /\ at[p] = "want" /\ at'[p] = "read" /\ n'[p] = 1
        /\ \A q \in Paths \ {p} : at'[q] = at[q] /\ n'[q] = n[q]
        /\ UNCHANGED <<chip, mclk, tuner, sec, reg, full, history>>
    BY DEF DemodLock, TypeOK
  <1>2. ~full[p]
    BY <1>1 DEF PathInv, Full, InSection
  <1>3. Fresh' /\ Full'
    BY <1>1, <1>2 DEF PathInv, Fresh, Full, InSection, Register
  <1>4. Waking' /\ Going' /\ AsleepIsStandby'
    BY <1>1 DEF PathInv, Waking, Runs, Powered, Going, AsleepIsStandby, InSection
  <1> QED BY <1>3, <1>4 DEF PathInv

LEMMA ReadPath ==
    ASSUME LockInv, PathInv, NEW p \in Paths, ReadReg(p) PROVE PathInv'
  <1> USE DEF LockInv, chip
  <1>1. PICK v \in SUBSET ({"fec", "ts"} \cup Paths) :
          /\ reg' = [reg EXCEPT ![p] = v]
          /\ Register(p) = "STOPCLK1" => v \in {stop1, Clocks("fec")}
          /\ Register(p) = "STOPCLK2" => v \in {stop2, Clocks("ts")}
    BY ReadEffect
  <1>2. PICK b \in BOOLEAN :
          /\ full' = [full EXCEPT ![p] = b]
          /\ Looks(p) => b = (~blind' /\ \A q \in Paths \ {p} : ~adc[q])
          /\ ~Looks(p) => b = full[p] /\ blind' = blind
    BY ReadEffect
  <1>3. /\ at[p] = "read" /\ at'[p] = "write"
        /\ \A q \in Paths \ {p} : at'[q] = at[q]
        /\ UNCHANGED <<chip, sec, n, open, awake, slept, spoilt>>
        /\ n[p] \in 1..4 /\ (sec[p] = "vit" => n[p] = 1) /\ sec[p] \in RegisterSections
    BY ReadEffect DEF TypeOK, Placed, InSection
  <1>4. \A q \in Paths \ {p} : ~InSection(q)
    BY <1>3 DEF InSection, LocksGivenBack
  <1>5. Fresh'
    BY <1>1, <1>3 DEF PathInv, Fresh, Register, TypeOK, Clocks
  <1>6. Full'
    <2>1. CASE Looks(p)
      <3>1. n[p] = 2 /\ sec[p] = "down"
        BY <1>3, <2>1, RegisterIs DEF Looks
      <3>2. full'[p] = (~blind' /\ \A q \in Paths \ {p} : ~adc[q])
        BY <1>2, <2>1 DEF TypeOK
      <3>3. \A q \in Paths \ {p} : full'[q] = full[q]
        BY <1>2 DEF TypeOK
      <3>4. \A q \in Paths \ {p} : ~full[q]
        BY <1>4 DEF PathInv, Full
      <3>5. \A q \in Paths \ {p} : ~InSection(q)' /\ ~full'[q]
        BY <1>3, <1>4, <3>3, <3>4 DEF InSection
      <3>6. InSection(p)' /\ sec'[p] = "down" /\ n'[p] = 2 /\ adc' = adc
        BY <1>3, <3>1 DEF InSection
      <3>7. n'[p] >= 2 /\ n'[p] # 4
        BY <3>6
      <3>8. full'[p] <=> ~blind' /\ \A q \in Paths \ {p} : ~adc'[q]
        BY <3>2, <3>6, Zenon
      <3> QED BY <3>5, <3>6, <3>7, <3>8, Zenon DEF Full
    <2>2. CASE ~Looks(p)
      <3>1. full' = full /\ blind' = blind
        BY <1>2, <2>2 DEF TypeOK
      <3>2. sec[p] = "down" => n[p] # 2
        BY <2>2, RegisterIs DEF Looks
      <3> QED BY <1>3, <3>1, <3>2 DEF PathInv, Full, InSection
    <2> QED BY <2>1, <2>2
  <1>7. Waking'
    BY <1>3 DEF PathInv, Waking, Runs, Powered, InSection
  <1>8. AsleepIsStandby'
    <2>1. CASE sec[p] = "down"
      <3>1. ~slept[p]
        BY <2>1 DEF PathInv, Going
      <3> QED BY <1>3, <3>1 DEF AsleepIsStandby
    <2>2. CASE sec[p] # "down"
      <3>1. blind' = blind
        BY <1>2, <2>2 DEF Looks
      <3> QED BY <1>3, <3>1 DEF PathInv, AsleepIsStandby
    <2> QED BY <2>1, <2>2
  <1>9. Going'
    <2>1. \A q \in Paths : n[q] >= 3 /\ InSection(q) => full'[q] = full[q]
      <3>1. n[p] >= 3 => ~Looks(p)
        BY <1>3, RegisterIs DEF Looks
      <3> QED BY <1>2, <3>1 DEF TypeOK
    <2> QED BY <1>3, <2>1 DEF PathInv, Going, InSection
  <1> QED BY <1>5, <1>6, <1>7, <1>8, <1>9 DEF PathInv

(* What is written back to a clock register has no fewer clocks stopped    *)
(* than the register, and no more, unless the read failed.                 *)
LEMMA WriteBack ==
    ASSUME LockInv, PathInv, NEW p \in Paths, at[p] = "write"
    PROVE  /\ sec[p] \in {"wake", "down", "vit"} /\ n[p] \in {1, 2, 3, 4}
           /\ sec[p] = "vit" => n[p] = 1
           /\ Register(p) = "STOPCLK1" => stop1 \subseteq reg[p] /\ (~Misread(p) => reg[p] = stop1)
           /\ Register(p) = "STOPCLK2" => stop2 \subseteq reg[p] /\ (~Misread(p) => reg[p] = stop2)
  <1>1. /\ sec[p] \in {"wake", "down", "vit"} /\ n[p] \in {1, 2, 3, 4}
        /\ sec[p] = "vit" => n[p] = 1
    BY DEF LockInv, Placed, InSection, RegisterSections
  <1>2. /\ Register(p) = "STOPCLK1" => stop1 \subseteq reg[p] /\ (~Misread(p) => reg[p] = stop1)
        /\ Register(p) = "STOPCLK2" => stop2 \subseteq reg[p] /\ (~Misread(p) => reg[p] = stop2)
    BY DEF LockInv, TypeOK, PathInv, Fresh, Misread
  <1> QED BY <1>1, <1>2

(* A register written by a section that goes on, or by its last write.     *)
LEMMA WriteWake ==
    ASSUME LockInv, PathInv, NEW p \in Paths, at[p] = "write", Write(p), sec[p] = "wake"
    PROVE  /\ n[p] = 1 => ~standby' /\ UNCHANGED <<adc, stop1, stop2>>
           /\ n[p] = 2 => adc' = [adc EXCEPT ![p] = TRUE] /\ UNCHANGED <<standby, stop1, stop2>>
           /\ n[p] = 3 => /\ stop1' \cap {"fec", p} = {} /\ (~Misread(p) => stop1' \subseteq stop1)
                          /\ UNCHANGED <<standby, adc, stop2>>
           /\ n[p] = 4 => /\ stop2' \cap {"ts", p} = {} /\ (~Misread(p) => stop2' \subseteq stop2)
                          /\ UNCHANGED <<standby, adc, stop1>>
  <1>1. CASE n[p] \in {1, 2}
    BY <1>1, RegisterIs DEF Write
  <1>2. CASE n[p] = 3
    <2>1. stop1' = reg[p] \ {"fec", p} /\ UNCHANGED <<standby, adc, stop2>>
      BY <1>2, RegisterIs DEF Write, Set
    <2>2. ~Misread(p) => reg[p] = stop1
      BY <1>2, RegisterIs, WriteBack
    <2> QED BY <1>2, <2>1, <2>2
  <1>3. CASE n[p] = 4
    <2>1. stop2' = reg[p] \ {"ts", p} /\ UNCHANGED <<standby, adc, stop1>>
      BY <1>3, RegisterIs DEF Write, Set
    <2>2. ~Misread(p) => reg[p] = stop2
      BY <1>3, RegisterIs, WriteBack
    <2> QED BY <1>3, <2>1, <2>2
  <1> QED BY <1>1, <1>2, <1>3

LEMMA WriteDown ==
    ASSUME LockInv, PathInv, NEW p \in Paths, at[p] = "write", Write(p), sec[p] = "down"
    PROVE  /\ n[p] = 1 => adc' = [adc EXCEPT ![p] = FALSE] /\ UNCHANGED <<standby, stop1, stop2>>
           /\ n[p] = 2 => /\ stop1 \subseteq stop1' /\ (full[p] => "fec" \in stop1')
                          /\ ~full[p] /\ ~Misread(p) => stop1' \subseteq stop1 \cup {p}
                          /\ UNCHANGED <<standby, adc, stop2>>
           /\ n[p] = 3 => /\ stop2 \subseteq stop2' /\ (full[p] => "ts" \in stop2')
                          /\ ~full[p] /\ ~Misread(p) => stop2' \subseteq stop2 \cup {p}
                          /\ UNCHANGED <<standby, adc, stop1>>
           /\ n[p] = 4 => standby' /\ UNCHANGED <<adc, stop1, stop2>>
  <1>1. CASE n[p] \in {1, 4}
    BY <1>1, RegisterIs DEF Write
  <1>2. CASE n[p] = 2
    <2>1. /\ stop1' = reg[p] \cup {p} \cup (IF full[p] THEN {"fec"} ELSE {})
          /\ UNCHANGED <<standby, adc, stop2>>
      BY <1>2, RegisterIs DEF Write, Set
    <2>2. stop1 \subseteq reg[p] /\ (~Misread(p) => reg[p] = stop1)
      BY <1>2, RegisterIs, WriteBack
    <2> QED BY <1>2, <2>1, <2>2
  <1>3. CASE n[p] = 3
    <2>1. /\ stop2' = reg[p] \cup {p} \cup (IF full[p] THEN {"ts"} ELSE {})
          /\ UNCHANGED <<standby, adc, stop1>>
      BY <1>3, RegisterIs DEF Write, Set
    <2>2. stop2 \subseteq reg[p] /\ (~Misread(p) => reg[p] = stop2)
      BY <1>3, RegisterIs, WriteBack
    <2> QED BY <1>3, <2>1, <2>2
  <1> QED BY <1>1, <1>2, <1>3

LEMMA WriteVit ==
    ASSUME LockInv, PathInv, NEW p \in Paths, at[p] = "write", Write(p), sec[p] = "vit"
    PROVE  /\ stop2 \ {p} \subseteq stop2' /\ UNCHANGED <<standby, adc, stop1>>
           /\ ~Misread(p) => stop2' \subseteq stop2
  <1>1. Register(p) = "STOPCLK2"
    BY WriteBack, RegisterIs
  <1>2. stop2' = reg[p] \ {p} /\ UNCHANGED <<standby, adc, stop1>>
    BY <1>1 DEF Write, Set
  <1> QED BY <1>1, <1>2, WriteBack

(* Whom the write of an error harms: all but the path that has just started *)
(* its last clock.                                                         *)
LEMMA WriteSpoils ==
    ASSUME NEW p \in Paths, Write(p), NEW q \in Paths,
           ~(sec[p] = "wake" /\ n[p] = 4 /\ q = p), spoilt[q] \/ Misread(p)
    PROVE  spoilt'[q]
  BY DEF Write

(* What any write, also one that fails, does to the other paths.           *)
LEMMA WriteOthers ==
    ASSUME LockInv, PathInv, NEW p \in Paths, sec[p] \in RegisterSections, at[p] = "write",
           Write(p) \/ UNCHANGED <<standby, adc, stop1, stop2, spoilt>>
    PROVE  /\ adc' \in [Paths -> BOOLEAN]
           /\ \A q \in Paths \ {p} : adc'[q] = adc[q] /\ (Runs(q) => Runs(q)')
           /\ sec[p] # "down" => (Runs(p) => Runs(p)')
           /\ sec[p] = "down" /\ n[p] # 1 => adc' = adc
           /\ sec[p] # "wake" => /\ standby => standby'
                                 /\ "fec" \in stop1 => "fec" \in stop1'
                                 /\ "ts" \in stop2 => "ts" \in stop2'
  <1> USE ClockNamesAssumption DEF LockInv, PathInv
  <1>1. CASE UNCHANGED <<standby, adc, stop1, stop2, spoilt>>
    BY <1>1 DEF Runs, Powered, TypeOK
  <1>2. CASE Write(p)
    <2>1. /\ n[p] \in {1, 2, 3, 4} /\ (sec[p] = "vit" => n[p] = 1)
          /\ sec[p] \in {"wake", "down", "vit"}
      BY DEF Placed, InSection, RegisterSections
    <2>2. adc' \in [Paths -> BOOLEAN] /\ \A q \in Paths \ {p} : adc'[q] = adc[q]
      <3>1. adc' = adc \/ \E b \in BOOLEAN : adc' = [adc EXCEPT ![p] = b]
        BY <1>2, <2>1, WriteWake, WriteDown, WriteVit
      <3> QED BY <3>1 DEF TypeOK
    <2>3. sec[p] = "down" /\ n[p] # 1 => adc' = adc
      BY <1>2, <2>1, WriteDown
    <2>4. sec[p] # "wake" => /\ standby => standby'
                             /\ "fec" \in stop1 => "fec" \in stop1'
                             /\ "ts" \in stop2 => "ts" \in stop2'
      <3>1. CASE sec[p] = "down"
        BY <1>2, <2>1, <3>1, WriteDown
      <3>2. CASE sec[p] = "vit"
        BY <1>2, <3>2, WriteVit
      <3> QED BY <2>1, <3>1, <3>2
    <2>5. ASSUME NEW q \in Paths, q # p \/ sec[p] # "down", Runs(q) PROVE Runs(q)'
      <3>1. CASE sec[p] = "wake" /\ n[p] = 4 /\ q = p
        <4>1. ~standby /\ adc[p] /\ stop1 \cap {"fec", p} = {}
          BY <3>1 DEF Waking, InSection
        <4>2. "ts" \notin stop2' /\ UNCHANGED <<standby, adc, stop1>>
          BY <1>2, <3>1, WriteWake
        <4> QED BY <3>1, <4>1, <4>2 DEF Runs, Powered
      <3>2. CASE ~(sec[p] = "wake" /\ n[p] = 4 /\ q = p) /\ (spoilt[q] \/ Misread(p))
        BY <1>2, <2>5, <3>2, WriteSpoils DEF Runs
      <3>3. CASE ~spoilt[q] /\ ~Misread(p)
        <4>1. Powered(q)
          BY <2>5, <3>3 DEF Runs
        <4>2. CASE sec[p] = "wake"
          <5>1. stop1' \subseteq stop1 /\ stop2' \subseteq stop2 /\ (standby' => standby)
            BY <1>2, <2>1, <3>3, <4>2, WriteWake
          <5>2. adc'[q]
            <6>1. adc' = adc \/ adc' = [adc EXCEPT ![p] = TRUE]
              BY <1>2, <2>1, <4>2, WriteWake
            <6> QED BY <4>1, <6>1 DEF Powered, TypeOK
          <5> QED BY <4>1, <5>1, <5>2 DEF Runs, Powered
        <4>3. CASE sec[p] = "vit"
          <5>1. stop2' \subseteq stop2 /\ UNCHANGED <<standby, adc, stop1>>
            BY <1>2, <3>3, <4>3, WriteVit
          <5> QED BY <4>1, <5>1 DEF Runs, Powered
        <4>4. CASE sec[p] = "down"
          <5>1. q # p /\ adc[q]
            BY <2>5, <4>1, <4>4 DEF Powered
          <5>2. ~full[p] /\ n[p] # 4
            <6>1. full[p] => n[p] \in {2, 3, 4}
              BY <2>1 DEF Full
            <6> QED BY <4>4, <5>1, <6>1 DEF Full, InSection
          <5>3. /\ stop1' \subseteq stop1 \cup {p} /\ stop2' \subseteq stop2 \cup {p}
                /\ standby' = standby
            BY <1>2, <2>1, <3>3, <4>4, <5>2, WriteDown
          <5> QED BY <2>2, <4>1, <5>1, <5>3 DEF Runs, Powered
        <4> QED BY <2>1, <4>2, <4>3, <4>4
      <3> QED BY <3>1, <3>2, <3>3
    <2> QED BY <2>2, <2>3, <2>4, <2>5
  <1> QED BY <1>1, <1>2

LEMMA WriteOn ==
    ASSUME LockInv, PathInv, NEW p \in Paths, sec[p] \in RegisterSections, at[p] = "write",
           Write(p), ~Last(p),
           at' = [at EXCEPT ![p] = "read"], n' = [n EXCEPT ![p] = @ + 1],
           UNCHANGED <<demod, sec, reg, full, open, awake, slept, failed, blind>>
    PROVE  PathInv'
  <1> USE DEF LockInv, PathInv
  <1>1. /\ at'[p] = "read" /\ n'[p] = n[p] + 1
        /\ \A q \in Paths \ {p} : at'[q] = at[q] /\ n'[q] = n[q]
    BY DEF TypeOK
  <1>2. \A q \in Paths \ {p} : ~InSection(q)
    BY DEF InSection, LocksGivenBack
  <1>3. n[p] \in 1..4 /\ (sec[p] = "vit" => n[p] = 1) /\ sec[p] \in {"wake", "down", "vit"}
    BY DEF Placed, InSection, RegisterSections
  <1>4. /\ sec[p] # "vit" /\ n[p] \in 1..3
        /\ sec[p] = "down" /\ n[p] = 3 => full[p]
    BY <1>3 DEF Last
  <1>5. Fresh'
    BY <1>1, <1>2 DEF Fresh, InSection
  <1>6. Full'
    <2>1. sec[p] = "down" /\ n[p] # 1 => adc' = adc
      BY WriteOthers
    <2> QED BY <1>1, <1>2, <1>3, <1>4, <2>1 DEF Full, InSection
  <1>7. Waking'
    <2>1. CASE sec[p] = "wake"
      <3>1. /\ n'[p] >= 2 => ~standby'
            /\ n'[p] >= 3 => adc'[p]
            /\ n'[p] >= 4 => stop1' \cap {"fec", p} = {}
        BY <1>1, <1>4, <2>1, WriteWake DEF Waking, InSection, TypeOK
      <3> QED BY <1>1, <1>2, <2>1, <3>1, WriteOthers DEF Waking, InSection
    <2>2. CASE sec[p] = "down"
      BY <1>1, <1>2, <2>2, WriteOthers DEF Waking, Going, InSection
    <2> QED BY <1>3, <1>4, <2>1, <2>2
  <1>8. Going'
    <2>1. CASE sec[p] = "wake"
      BY <1>1, <1>2, <2>1, WriteOthers DEF Going, InSection
    <2>2. CASE sec[p] = "down"
      <3>1. /\ n'[p] >= 2 => ~adc'[p]
            /\ n'[p] >= 3 /\ full'[p] => "fec" \in stop1'
            /\ n'[p] >= 4 => "ts" \in stop2'
        BY <1>1, <1>4, <2>2, WriteDown DEF Going, InSection, TypeOK
      <3> QED BY <1>1, <1>2, <2>2, <3>1, WriteOthers DEF Going, InSection
    <2> QED BY <1>3, <1>4, <2>1, <2>2
  <1>9. AsleepIsStandby'
    <2>1. ~slept[p]
      BY <1>3 DEF Going
    <2> QED BY <2>1 DEF AsleepIsStandby
  <1> QED BY <1>5, <1>6, <1>7, <1>8, <1>9

LEMMA WriteEnds ==
    ASSUME LockInv, PathInv, NEW p \in Paths, sec[p] \in RegisterSections, at[p] = "write",
           Write(p) \/ UNCHANGED <<standby, adc, stop1, stop2, spoilt>>, UNCHANGED blind,
           NEW ok \in BOOLEAN, ok => Write(p) /\ Last(p), Leave(p, ok)
    PROVE  PathInv'
  <1> USE DEF LockInv, PathInv
  <1>1. /\ at'[p] = "want"
        /\ \A q \in Paths \ {p} : /\ at'[q] = at[q] /\ n'[q] = n[q] /\ sec'[q] = sec[q]
                                  /\ reg'[q] = reg[q] /\ full'[q] = full[q]
    BY LeaveFrame DEF TypeOK
  <1>2. \A q \in Paths \ {p} : ~InSection(q)
    BY DEF InSection, LocksGivenBack
  <1>3. n[p] \in 1..4 /\ (sec[p] = "vit" => n[p] = 1) /\ sec[p] \in {"wake", "down", "vit"}
    BY DEF Placed, InSection, RegisterSections
  <1>4. /\ \A q \in Paths \ {p} : awake'[q] = awake[q] /\ slept'[q] = slept[q]
        /\ awake'[p] => awake[p]
        /\ slept'[p] => slept[p] \/ (sec[p] = "down" /\ ok)
        /\ UNCHANGED open
        /\ sec'[p] = "tuner" => sec[p] = "wake" /\ ok
        /\ sec'[p] \notin {"rest", "down"}
        /\ ok /\ sec[p] = "down" => sec'[p] = "idle"
        /\ ~full'[p]
    BY <1>3, LeaveHistory
  <1>5. Fresh'
    BY <1>1, <1>2 DEF Fresh, InSection
  <1>6. Full'
    BY <1>1, <1>2, <1>4 DEF Full, InSection
  <1>7. Waking'
    <2>1. sec'[p] = "tuner" => Runs(p)'
      <3> SUFFICES ASSUME sec'[p] = "tuner" PROVE Runs(p)'
        OBVIOUS
      <3>1. sec[p] = "wake" /\ Write(p) /\ Last(p)
        BY <1>4
      <3>2. n[p] = 4
        BY <1>3, <3>1 DEF Last
      <3>3. ~standby /\ adc[p] /\ stop1 \cap {"fec", p} = {}
        BY <3>1, <3>2 DEF Waking, InSection
      <3>4. "ts" \notin stop2' /\ UNCHANGED <<standby, adc, stop1>>
        BY <3>1, <3>2, WriteWake
      <3> QED BY <3>3, <3>4 DEF Runs, Powered
    <2>2. awake'[p] => Runs(p)'
      BY <1>4, WriteOthers DEF Waking, Going
    <2> QED BY <1>1, <1>2, <1>4, <2>1, <2>2, WriteOthers DEF Waking, InSection
  <1>8. ok /\ sec[p] = "down" => ~adc'[p] /\ ~open[p] /\ sec'[p] = "idle"
    <2> SUFFICES ASSUME ok, sec[p] = "down" PROVE ~adc'[p] /\ ~open[p] /\ sec'[p] = "idle"
      OBVIOUS
    <2>1. n[p] \in {3, 4}
      BY <1>3 DEF Last
    <2>2. ~adc[p] /\ adc' = adc
      BY <2>1, WriteOthers DEF Going, InSection
    <2> QED BY <1>4, <2>2 DEF Going
  <1>9. ~slept[p]
    BY <1>3 DEF Going
  <1>10. Going'
    BY <1>1, <1>2, <1>4, <1>8, <1>9, WriteOthers DEF Going, InSection
  <1>11. AsleepIsStandby'
    <2> SUFFICES ASSUME \A q \in Paths : slept'[q], ~blind
                 PROVE  standby' /\ "fec" \in stop1' /\ "ts" \in stop2'
      BY DEF AsleepIsStandby
    <2>1. sec[p] = "down" /\ ok
      BY <1>4, <1>9
    <2>2. \A q \in Paths \ {p} : ~adc[q]
      BY <1>4 DEF Going
    <2>3. n[p] \in {3, 4}
      BY <1>3, <2>1 DEF Last
    <2>4. full[p] /\ n[p] = 4
      BY <2>1, <2>2, <2>3 DEF Full, InSection, Last
    <2>5. standby' /\ UNCHANGED <<adc, stop1, stop2>>
      BY <2>1, <2>4, WriteDown
    <2> QED BY <2>1, <2>4, <2>5 DEF Going, InSection
  <1> QED BY <1>5, <1>6, <1>7, <1>10, <1>11

LEMMA PathStep == LockInv /\ PathInv /\ [Next]_vars => PathInv'
  <1> SUFFICES ASSUME LockInv, PathInv, [Next]_vars PROVE PathInv'
    OBVIOUS
  <1>1. CASE UNCHANGED vars
    BY <1>1 DEF vars, chip, locks, call, history, reads, PathInv, Fresh, Full, Waking, Runs,
                Powered, Going, AsleepIsStandby, InSection, Register
  <1>2. ASSUME NEW p \in Paths, WriteReg(p) PROVE PathInv'
    <2>1. sec[p] \in RegisterSections /\ at[p] = "write" /\ UNCHANGED blind
      BY <1>2 DEF WriteReg
    <2>2. \/ Write(p) /\ Last(p) /\ Leave(p, TRUE)
          \/ /\ Write(p) /\ ~Last(p)
             /\ at' = [at EXCEPT ![p] = "read"] /\ n' = [n EXCEPT ![p] = @ + 1]
             /\ UNCHANGED <<demod, sec, reg, full, open, awake, slept, failed>>
          \/ /\ Write(p) \/ UNCHANGED <<standby, adc, stop1, stop2, spoilt>>
             /\ Leave(p, FALSE)
      BY <1>2 DEF WriteReg
    <2> QED BY <2>1, <2>2, WriteOn, WriteEnds
  <1>3. ASSUME NEW p \in Paths, Calls(p) \/ Continues(p), ~WriteReg(p) PROVE PathInv'
    BY <1>3, TunerPath, OutsidePath, DemodLockPath, ReadPath DEF Continues
  <1> QED BY <1>1, <1>2, <1>3 DEF Next

THEOREM PathInvariant == Spec => []PathInv
  BY InitPath, PathStep, LockInvariant, PTL DEF Spec

(* While its init has succeeded and its sleep has not begun, a path has the *)
(* power and the clocks it needs, its own and those it shares, whatever    *)
(* fails, unless what a failed read gave has been written back to a clock  *)
(* register since its clocks were started.                                 *)
THEOREM AwakeTheorem == Spec => []AwakePathRuns
  <1>1. PathInv => AwakePathRuns
    BY DEF PathInv, Waking, Runs, AwakePathRuns
  <1> QED BY <1>1, PathInvariant, PTL

(* When every path has gone through stv090x_sleep the chip is powered off, *)
(* unless the last could not read whether the others' ADCs are off.        *)
THEOREM AsleepTheorem == Spec => []AsleepIsStandby
  <1>1. PathInv => AsleepIsStandby
    BY DEF PathInv
  <1> QED BY <1>1, PathInvariant, PTL

-----------------------------------------------------------------------------
(* The master clock: while it is 0 an open path is still on its way to set *)
(* it, or a transfer of an init has failed.                                *)

Known == ~mclk => \A p \in Paths : open[p] => failed \/ sec[p] \in {"clkout", "mclk"}

NoOops == \A p \in Paths : sec[p] = "idle" /\ sec'[p] = "oops" => failed

LEMMA KnownLeave ==
    ASSUME LockInv, Known, NEW p \in Paths, NEW ok \in BOOLEAN, Leave(p, ok),
           sec[p] \in TunerSections \cup RegisterSections, UNCHANGED mclk
    PROVE  Known' /\ NoOops
  <1> USE DEF LockInv
  <1>1. \A q \in Paths \ {p} : sec'[q] = sec[q]
    BY LeaveFrame
  <1>2. /\ sec'[p] # "oops" /\ sec[p] # "mclk"
    BY LeaveFrame DEF TunerSections, RegisterSections
  <1>3. /\ UNCHANGED open /\ (failed => failed')
        /\ sec[p] = "clkout" /\ ~mclk => sec'[p] = "mclk" \/ failed'
    BY LeaveHistory
  <1>4. Known'
    BY <1>1, <1>2, <1>3 DEF Known
  <1> QED BY <1>1, <1>2, <1>4 DEF NoOops

LEMMA KnownStep == LockInv /\ Known /\ [Next]_vars => Known' /\ NoOops
  <1> SUFFICES ASSUME LockInv, Known, [Next]_vars PROVE Known' /\ NoOops
    OBVIOUS
  <1> USE DEF LockInv
  <1>0. ASSUME UNCHANGED <<sec, open, mclk, failed>> PROVE Known' /\ NoOops
    BY <1>0 DEF Known, NoOops
  <1>1. CASE UNCHANGED vars
    BY <1>0, <1>1 DEF vars, call, history
  <1>2. ASSUME NEW p \in Paths, GateOpen(p) \/ GateClose(p) PROVE Known' /\ NoOops
    <2>1. sec[p] \in TunerSections /\ UNCHANGED mclk
      BY <1>2 DEF GateOpen, GateClose, WriteGate
    <2>2. \/ UNCHANGED <<sec, open, failed>>
          \/ \E ok \in BOOLEAN : Leave(p, ok)
      BY <1>2 DEF GateOpen, GateClose
    <2> QED BY <1>0, <2>1, <2>2, KnownLeave
  <1>3. ASSUME NEW p \in Paths, WriteReg(p) PROVE Known' /\ NoOops
    <2>1. sec[p] \in RegisterSections /\ UNCHANGED mclk
      BY <1>3 DEF WriteReg
    <2>2. \/ UNCHANGED <<sec, open, failed>>
          \/ \E ok \in BOOLEAN : Leave(p, ok)
      BY <1>3 DEF WriteReg
    <2> QED BY <1>0, <2>1, <2>2, KnownLeave
  <1>4. ASSUME NEW p \in Paths, DemodLock(p) \/ ReadReg(p) PROVE Known' /\ NoOops
    BY <1>0, <1>4 DEF DemodLock, ReadReg, history
  <1>5. ASSUME NEW p \in Paths, SetMclk(p) PROVE Known' /\ NoOops
    <2>1. sec[p] = "mclk" /\ (mclk' \/ failed') /\ UNCHANGED open
      BY <1>5 DEF SetMclk
    <2>2. \E s \in {"idle", "wake"} : sec' = [sec EXCEPT ![p] = s]
      BY <1>5 DEF SetMclk, Enter
    <2> QED BY <2>1, <2>2 DEF Known, NoOops, TypeOK
  <1>6. ASSUME NEW p \in Paths, Calls(p) PROVE Known' /\ NoOops
    <2>1. sec[p] = "idle" /\ UNCHANGED <<mclk, failed>>
      BY <1>6 DEF Calls, StartInit, StartSearch, StartSleep, Begin
    <2>2. CASE StartInit(p)
      <3>1. /\ sec' = [sec EXCEPT ![p] = IF mclk THEN "wake" ELSE "clkout"]
            /\ open' = [open EXCEPT ![p] = TRUE]
        BY <2>2 DEF StartInit, Begin, Enter
      <3> QED BY <2>1, <3>1 DEF Known, NoOops, TypeOK
    <2>3. CASE StartSearch(p)
      <3>1. /\ sec' = [sec EXCEPT ![p] = IF mclk THEN "setup" ELSE "oops"]
            /\ open[p] /\ UNCHANGED open
        BY <2>3 DEF StartSearch, Begin, Enter
      <3> QED BY <2>1, <3>1 DEF Known, NoOops, TypeOK
    <2>4. CASE StartSleep(p)
      <3>1. /\ sec' = [sec EXCEPT ![p] = "rest"]
            /\ open' = [open EXCEPT ![p] = FALSE]
        BY <2>4 DEF StartSleep, Begin, Enter
      <3> QED BY <2>1, <3>1 DEF Known, NoOops, TypeOK
    <2> QED BY <1>6, <2>2, <2>3, <2>4 DEF Calls
  <1> QED BY <1>1, <1>2, <1>3, <1>4, <1>5, <1>6 DEF Next, Continues

(* stv090x_set_srate divides by a master clock that is not 0, unless a     *)
(* transfer of the init that was to set it has failed.                     *)
THEOREM MclkTheorem == Spec => MclkKnown
  <1>1. Init => Known
    BY DEF Init, Known
  <1>2. LockInv /\ Known /\ [Next]_vars => Known' /\ [NoOops]_vars
    BY KnownStep
  <1>3. [NoOops]_vars => [\A p \in Paths : sec[p] = "idle" /\ sec'[p] = "oops" => failed]_vars
    BY DEF NoOops
  <1> QED BY <1>1, <1>2, <1>3, LockInvariant, PTL DEF Spec, MclkKnown
=============================================================================
