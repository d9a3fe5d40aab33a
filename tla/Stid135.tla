------------------------------ MODULE Stid135 ------------------------------
(***************************************************************************)
(* The frontends of one STiD135 demodulator chip (dvb-frontends/stid135).  *)
(* They share the chip handle, whose Error flag is sticky: it belongs to   *)
(* no operation, some register accesses are skipped while it is set and    *)
(* others reset it (chip.c).  Most operations of a frontend run under the  *)
(* status_lock of the shared base; the search for a carrier releases it    *)
(* while it waits, read_status only tries it, and sleep does not take it.  *)
(*                                                                         *)
(* A frontend's own operations are serialised by the DVB core.  What a     *)
(* register access does is abstracted to its effect on Error, on the error *)
(* the caller accumulates, and on the lock bits the driver decides by.     *)
(***************************************************************************)
EXTENDS Naturals, FiniteSets

CONSTANTS Frontends,  \* the frontends attached to the chip
          NoOne,      \* owner of the status_lock when it is free
          Glitches,   \* bound: bus transfers that may fail
          Polls,      \* bound: rounds of the wait for the demodulator
          Bytes       \* length of a DiSEqC message

ASSUME NoOneAssumption == NoOne \notin Frontends
ASSUME BoundsAssumption == /\ Glitches \in Nat
                           /\ Polls \in Nat \ {0}
                           /\ Bytes \in Nat \ {0}

VARIABLES err,     \* hChip->Error of the demodulator's handle
          left,    \* bus transfers that may still fail
          sig,     \* per demodulator: is there a signal it can lock to
          owner,   \* who holds base->status_lock
          pc,      \* where each frontend's operation is
          waiting, \* the operation is in mutex_lock
          n,       \* rounds of the wait done, or bytes still to send
          e,       \* the error the operation has accumulated
          res,     \* demod_results[].locked
          result,  \* pResult->locked of the search: "none", or why it is set
          cached,  \* signal_info.locked
          reading, \* history: the last reading of the lock bits since the tune
          falseNo  \* history: readings that missed a lock

chip == <<err, left, sig>>
lock == <<owner, waiting>>
status == <<cached, reading, falseNo>>
vars == <<chip, lock, pc, n, e, res, result, status>>

LockedSteps == {"tune", "search", "algo", "poll", "params", "poll2", "fec",
                "nodata", "result", "lost", "after", "band", "stats",
                "short", "send", "fifo"}
Steps == {"idle", "sleep"} \cup LockedSteps

TypeOK == /\ err \in BOOLEAN /\ left \in 0..Glitches
          /\ sig \in [Frontends -> BOOLEAN]
          /\ owner \in Frontends \cup {NoOne}
          /\ pc \in [Frontends -> Steps]
          /\ waiting \in [Frontends -> BOOLEAN]
          /\ n \in [Frontends -> Nat]
          /\ e \in [Frontends -> BOOLEAN]
          /\ res \in [Frontends -> BOOLEAN]
          /\ cached \in [Frontends -> BOOLEAN]
          /\ result \in [Frontends -> {"none", "read", "glitch", "old"}]
          /\ reading \in [Frontends -> {"no", "yes", "torn"}]
          /\ falseNo \in Nat

Init == /\ err = FALSE /\ left = Glitches
        /\ sig = [f \in Frontends |-> FALSE]
        /\ owner = NoOne
        /\ waiting = [f \in Frontends |-> FALSE]
        /\ pc = [f \in Frontends |-> "idle"]
        /\ n = [f \in Frontends |-> 0]
        /\ e = [f \in Frontends |-> FALSE]
        /\ res = [f \in Frontends |-> FALSE]
        /\ cached = [f \in Frontends |-> FALSE]
        /\ result = [f \in Frontends |-> "none"]
        /\ reading = [f \in Frontends |-> "no"]
        /\ falseNo = 0

-----------------------------------------------------------------------------
(* Register accesses.  h is the state of the handle with the error an      *)
(* operation accumulates: [err, left, e].  Each operator gives the states  *)
(* that a run of accesses of its kind may leave; a run in which several    *)
(* transfers fail ends like one in which the last of them does.            *)

Handle(f) == [err |-> err, left |-> left, e |-> e[f]]
Failed(h) == {[err |-> TRUE, left |-> k, e |-> TRUE] : k \in {j \in 0..Glitches : j < h.left}}

\* ChipGetField: not done, and no error to its caller, while Error is set.
GetFields(h) == IF h.err THEN {h} ELSE {h} \cup Failed(h)

\* ChipSetField, ChipSetRegisters, ChipGetRegisters: an error while Error is
\* set.  ChipSetField writes even when its read failed, and that write may
\* hide the failure: C leaves open whether |= loads Error before the call.
SetFields(h) == IF h.err THEN {[h EXCEPT !.e = TRUE]}
                ELSE {h} \cup Failed(h)
                     \cup {[h EXCEPT !.left = g.left] : g \in Failed(h)}

\* ChipSetOneRegister, ChipGetOneRegister first, then any: Error is reset
\* before the first access, and again by a later one.
Registers(h) == LET c == [h EXCEPT !.err = FALSE] IN
                {c} \cup Failed(c)
                \cup {[g EXCEPT !.err = FALSE] : g \in Failed(c)}
                \cup {[c EXCEPT !.left = g.left] : g \in Failed(c)}

\* Field or burst accesses first, then Registers.
FieldsThenRegisters(h) == Registers([h EXCEPT !.e = @ \/ h.err])

\* A function that begins with "if (hChip->Error) return FE_LLA_I2C_ERROR".
Checked(h, done) == IF h.err THEN {[h EXCEPT !.e = TRUE]} ELSE done

-----------------------------------------------------------------------------
(* The functions of stid135_drv.c by their accesses.                       *)

GetLoFreqHz(h) == GetFields(h)
set_rfmux_path(h) == SetFields(h)
set_pls(h) == Checked(h, SetFields(h))
reset_modcodes_filter(h) == Checked(h, Registers(h))
set_reg_init_values(h) == Registers(h)
GetSignalParams(h) == FieldsThenRegisters(h)
manage_matype_info(h) == SetFields(h) \cup FieldsThenRegisters(h)
TrackingOptimization(h) == FieldsThenRegisters(h)
reset_obs_registers(h) == FieldsThenRegisters(h)
get_current_llr(h) == {[g EXCEPT !.e = h.e] : g \in SetFields(h)}

\* Fault: the band power is read with field accesses only.
BandPowerByFields(h) == GetFields(h)

get_band_power_demod_not_locked(h) == Registers(h)

set_mis_filtering(h) == Checked(h, SetFields(h) \cup FieldsThenRegisters(h))
get_signal_info(h) == Checked(h, FieldsThenRegisters(h))
diseqc_init(h) == Checked(h, Registers(h))
diseqc_receive(h) == Checked(h, GetFields(h) \cup Registers(h))
set_22khz_cont(h) == Checked(h, SetFields(h))
tuner_enable(h) == Registers(h)
TunerDisable(h) == Registers(h)

-----------------------------------------------------------------------------
(* Steps.  Leaves is what a step does to the handle and to the error of    *)
(* its operation, In says that the frontend is at a step of its operation  *)
(* and not waiting for the lock.                                           *)

In(f, step) == pc[f] = step /\ ~waiting[f]
To(f, step) == pc' = [pc EXCEPT ![f] = step]
Leaves(f, h) == err' = h.err /\ left' = h.left /\ e' = [e EXCEPT ![f] = h.e]

\* mutex_unlock and return; the locals of the operation are gone.
Return(f, h) == /\ Leaves(f, [h EXCEPT !.e = FALSE])
                /\ owner' = NoOne
                /\ To(f, "idle")
                /\ n' = [n EXCEPT ![f] = 0]
                /\ result' = [result EXCEPT ![f] = "none"]

\* An operation begins, and waits for the lock.
Start(f, step) == /\ pc[f] = "idle"
                  /\ To(f, step)
                  /\ waiting' = [waiting EXCEPT ![f] = TRUE]
                  /\ UNCHANGED <<chip, owner, n, e, res, result, status>>

MutexLock(f) == /\ waiting[f] /\ owner = NoOne
                /\ owner' = f
                /\ waiting' = [waiting EXCEPT ![f] = FALSE]
                /\ UNCHANGED <<chip, pc, n, e, res, result, status>>

\* The signal at a demodulator comes and goes.
Weather(f) == /\ sig' = [sig EXCEPT ![f] = ~@]
              /\ UNCHANGED <<err, left, lock, pc, n, e, res, result, status>>

-----------------------------------------------------------------------------
(* Tuning: stid135_set_parameters, fe_stid135_search, FE_STiD135_Algo.     *)

StartTune(f) == Start(f, "tune")

\* Fault: signal_info.locked is kept until the status is read again.
SetupKeepsLocked(f) ==
    /\ In(f, "tune")
    /\ \E h \in Registers(Handle(f)) : Leaves(f, h)
    /\ reading' = [reading EXCEPT ![f] = "no"]
    /\ To(f, "search")
    /\ UNCHANGED <<lock, sig, n, cached, res, result, falseNo>>

\* PLS and modcodes, then the lock state of the last tune is forgotten.
Setup(f) ==
    /\ In(f, "tune")
    /\ \E h1 \in GetLoFreqHz(Handle(f)) : \E h2 \in set_rfmux_path(h1) :
       \E h3 \in set_pls(h2) : \E h4 \in reset_modcodes_filter(h3) : Leaves(f, h4)
    /\ cached' = [cached EXCEPT ![f] = FALSE]
    /\ reading' = [reading EXCEPT ![f] = "no"]
    /\ To(f, "search")
    /\ UNCHANGED <<lock, sig, n, res, result, falseNo>>

\* An error already in Error, or in a register of the prologue, ends the search.
Search(f) ==
    /\ In(f, "search")
    /\ IF err THEN Leaves(f, [Handle(f) EXCEPT !.e = TRUE]) /\ To(f, "after")
       ELSE \E h \in set_reg_init_values([Handle(f) EXCEPT !.e = FALSE]) :
              /\ Leaves(f, [h EXCEPT !.e = @ \/ e[f]])
              /\ To(f, IF h.e THEN "after" ELSE "algo")
    /\ UNCHANGED <<lock, sig, n, res, result, status>>

\* The errors of the Algo stay in Error, if at all: fe_stid135_search puts its
\* own answer in their place.
Keeps(f, h) == Leaves(f, [h EXCEPT !.e = e[f]])

\* The Algo stops the demodulator (unless that write fails) and starts the
\* search for a carrier.
StartSearch(f) ==
    /\ In(f, "algo")
    /\ \E h \in FieldsThenRegisters(Handle(f)) :
         /\ Keeps(f, h)
         /\ \E s \in {FALSE} \cup (IF h.left < left THEN {sig[f]} ELSE {}) :
              sig' = [sig EXCEPT ![f] = s]
    /\ To(f, "poll")
    /\ UNCHANGED <<lock, n, res, result, status>>

\* FE_STiD135_GetDemodLock: one round.  A value that could not be read is all
\* ones in the width of its field, 0xFF when the access was skipped: a failed
\* read of the state looks like DVB-S with the lock bit 0xFF ("odd"), a failed
\* read of the lock bit like a lock.
DemodLock(f, h) ==
    IF h.err THEN {[h |-> h, bit |-> "no"]}
    ELSE {[h |-> h, bit |-> IF sig[f] THEN "yes" ELSE "no"]}
         \cup {[h |-> g, bit |-> b] : g \in Failed(h),
                 b \in {"no", "odd"} \cup (IF sig[f] THEN {"yes"} ELSE {})}

\* Fault: the lock is not taken again after the 10 ms.
WaitForgetsLock(f) == /\ owner' = NoOne
                      /\ n' = [n EXCEPT ![f] = @ + 1]
                      /\ UNCHANGED <<pc, waiting>>

\* The lock is released for the 10 ms between two rounds.
Wait(f) == /\ owner' = NoOne
           /\ waiting' = [waiting EXCEPT ![f] = TRUE]
           /\ n' = [n EXCEPT ![f] = @ + 1]
           /\ UNCHANGED pc

\* Algo waits for the demodulator alone, WaitForLock once more before the FEC.
AfterDemodLock(f, bit) ==
    To(f, IF pc[f] = "poll" THEN IF bit = "yes" THEN "params" ELSE "lost"
          ELSE IF bit = "no" THEN "nodata" ELSE "fec")

GetDemodLock(f) ==
    /\ In(f, "poll") \/ In(f, "poll2")
    /\ IF n[f] = Polls
         THEN AfterDemodLock(f, "no") /\ UNCHANGED <<err, left, e, lock, n>>
         ELSE \E r \in DemodLock(f, Handle(f)) :
                IF r.bit = "no" THEN Keeps(f, r.h) /\ Wait(f)
                ELSE /\ \E h \in (IF r.bit = "yes" THEN SetFields(r.h) ELSE {r.h}) : Keeps(f, h)
                     /\ AfterDemodLock(f, r.bit)
                     /\ UNCHANGED <<lock, n>>
    /\ UNCHANGED <<sig, res, result, status>>

\* The parameters of the carrier; one out of range is given up.  A DVB-S2
\* carrier then has to lock its packet delineator in time: when it does not,
\* Algo returns with the signal type RANGEOK and the "locked" of old.
Params(f) ==
    /\ In(f, "params")
    /\ n' = [n EXCEPT ![f] = 0]
    /\ \E h1 \in GetSignalParams(Handle(f)) :
         \/ Keeps(f, h1) /\ To(f, "lost") /\ UNCHANGED result
         \/ /\ h1.err \/ ~sig[f]
            /\ Keeps(f, h1) /\ To(f, "result")
            /\ result' = [result EXCEPT ![f] = IF res[f] THEN "old" ELSE "none"]
         \/ \E h2 \in GetFields(h1) : \E h3 \in manage_matype_info(h2) \cup {h1} :
            \E h4 \in SetFields(h3) : Keeps(f, h4) /\ To(f, "poll2") /\ UNCHANGED result
    /\ UNCHANGED <<lock, sig, res, status>>

\* FE_STiD135_GetFECLock and the line of the stream merger, waited for with
\* the lock held.  A failed read counts as a lock, as above.
FecLock(f) ==
    /\ In(f, "fec") /\ ~err
    /\ \E r \in {[h |-> g, why |-> "glitch"] : g \in Failed(Handle(f))}
                \cup (IF sig[f] THEN {[h |-> Handle(f), why |-> "read"]} ELSE {}) :
         /\ \E h \in FieldsThenRegisters(r.h) : Keeps(f, h)
         /\ result' = [result EXCEPT ![f] = r.why]
    /\ res' = [res EXCEPT ![f] = TRUE]
    /\ To(f, "result")
    /\ UNCHANGED <<lock, sig, n, status>>

NoFecLock(f) ==
    /\ In(f, "nodata") \/ (In(f, "fec") /\ (err \/ ~sig[f]))
    /\ res' = [res EXCEPT ![f] = FALSE]
    /\ To(f, "lost")
    /\ UNCHANGED <<chip, lock, n, e, result, status>>

\* The end of fe_stid135_search, for a carrier in range ...
SearchResult(f) ==
    /\ In(f, "result")
    /\ IF err THEN /\ Leaves(f, [Handle(f) EXCEPT !.e = TRUE])
                   /\ result' = [result EXCEPT ![f] = "none"]
       ELSE /\ \E h1 \in TrackingOptimization(Handle(f)) :
               \E h2 \in reset_obs_registers(h1) : Leaves(f, h2)
            /\ UNCHANGED result
    /\ To(f, "after")
    /\ UNCHANGED <<lock, sig, n, res, status>>

\* ... and for no carrier: no error, whatever went wrong, unless Error is set.
SearchLost(f) ==
    /\ In(f, "lost")
    /\ Leaves(f, [Handle(f) EXCEPT !.e = @ \/ err])
    /\ To(f, "after")
    /\ UNCHANGED <<lock, sig, n, res, result, status>>

\* Fault: an error returns without mutex_unlock.
AfterSearchLeaksLock(f) ==
    /\ In(f, "after")
    /\ IF e[f] THEN /\ Leaves(f, [Handle(f) EXCEPT !.e = FALSE]) /\ To(f, "idle")
                    /\ UNCHANGED <<owner, n, result>>
       ELSE \E h \in get_band_power_demod_not_locked(Handle(f)) : Return(f, h)
    /\ UNCHANGED <<sig, waiting, res, status>>

\* The end of stid135_set_parameters.
AfterSearch(f) ==
    /\ In(f, "after")
    /\ IF e[f] THEN Return(f, Handle(f))
       ELSE \E h1 \in (IF result[f] # "none" THEN get_current_llr(Handle(f))
                       ELSE get_band_power_demod_not_locked(Handle(f))) :
            \E h2 \in set_mis_filtering(h1) : Return(f, h2)
    /\ UNCHANGED <<sig, waiting, res, status>>

-----------------------------------------------------------------------------
(* stid135_read_status.  When the lock is busy it answers cached, at once  *)
(* and without a trace; that answer is what CachedLockIsTrue is about.     *)

\* fe_stid135_get_lock_status.  Skipped accesses make it "not locked" without
\* an error; the bits of a failed one, and of those skipped after it, are set.
LockStatus(f) ==
    IF err THEN {[h |-> Handle(f), locked |-> FALSE]}
    ELSE {[h |-> Handle(f), locked |-> sig[f]]}
         \cup {[h |-> g, locked |-> b] : g \in Failed(Handle(f)), b \in BOOLEAN}

Reading(r) == IF ~r.locked THEN "no" ELSE IF r.h.e THEN "torn" ELSE "yes"
Missed(f, r) == IF ~r.h.e /\ ~r.locked /\ sig[f] THEN 1 ELSE 0

Status(f) ==
    /\ pc[f] = "idle" /\ owner = NoOne
    /\ \E r \in LockStatus(f) :
         /\ cached' = [cached EXCEPT ![f] = r.locked]
         /\ reading' = [reading EXCEPT ![f] = Reading(r)]
         /\ falseNo' = falseNo + Missed(f, r)
         /\ IF r.h.e THEN Return(f, r.h)
            ELSE /\ Leaves(f, r.h) /\ owner' = f
                 /\ To(f, IF r.locked THEN "stats" ELSE "band")
                 /\ UNCHANGED <<n, result>>
    /\ UNCHANGED <<sig, waiting, res>>

\* Not locked: the power of the band is read; its error is not returned.
StatusNoLock(f) ==
    /\ In(f, "band")
    /\ \E h \in get_band_power_demod_not_locked(Handle(f)) : Return(f, h)
    /\ UNCHANGED <<sig, waiting, res, status>>

\* Locked: at most every five seconds the statistics are read, and the lock
\* bits with them.
StatusLock(f) ==
    /\ In(f, "stats")
    /\ \/ Return(f, Handle(f)) /\ UNCHANGED <<cached, reading>>
       \/ \E h \in get_signal_info(Handle(f)) :
            /\ Return(f, h)
            /\ IF h.left = left
                 THEN IF err THEN UNCHANGED <<cached, reading>>
                      ELSE /\ cached' = [cached EXCEPT ![f] = sig[f]]
                           /\ reading' = [reading EXCEPT ![f] = IF sig[f] THEN "yes" ELSE "no"]
                 ELSE /\ \E b \in BOOLEAN : cached' = [cached EXCEPT ![f] = b]
                      /\ reading' = [reading EXCEPT ![f] = "torn"]
    /\ UNCHANGED <<sig, waiting, res, falseNo>>

-----------------------------------------------------------------------------
(* The short operations: init, tone, DiSEqC, sleep.                        *)

StartShort(f) == Start(f, "short")
StartSend(f) == Start(f, "send")

\* stid135_init, stid135_set_tone, stid135_recv_slave_reply.
Short(f) ==
    /\ In(f, "short")
    /\ \/ \E h1 \in tuner_enable(Handle(f)) : \E h2 \in diseqc_init(h1) :
          \E h3 \in set_rfmux_path(h2) : Return(f, h3)
       \/ \E h \in set_22khz_cont(Handle(f)) : Return(f, h)
       \/ \E h \in diseqc_receive(Handle(f)) : Return(f, h)
    /\ UNCHANGED <<sig, waiting, res, status>>

\* stid135_send_master_cmd, up to the bytes.
SendBegin(f) ==
    /\ In(f, "send")
    /\ \E h1 \in diseqc_init(Handle(f)) :
         IF h1.err THEN Return(f, h1)
         ELSE /\ \E h2 \in SetFields(h1) : Leaves(f, h2)
              /\ To(f, "fifo") /\ n' = [n EXCEPT ![f] = Bytes]
              /\ UNCHANGED <<owner, result>>
    /\ UNCHANGED <<sig, waiting, res, status>>

\* A byte is written when the FIFO reads "not full".  Once Error is set the
\* read is skipped and gives 0xFF: the loop spins, and nothing it does resets
\* Error.  (A FIFO that is really full drains; that wait is left out.)
SendByte(f) ==
    /\ In(f, "fifo") /\ n[f] > 0 /\ ~err
    /\ \E h1 \in GetFields(Handle(f)) :
         IF h1.err THEN Leaves(f, h1) /\ UNCHANGED n
         ELSE \E h2 \in Registers(h1) : Leaves(f, h2) /\ n' = [n EXCEPT ![f] = @ - 1]
    /\ UNCHANGED <<sig, lock, pc, res, result, status>>

SendEnd(f) ==
    /\ In(f, "fifo") /\ n[f] = 0
    /\ \E h \in SetFields(Handle(f)) : Return(f, h)
    /\ UNCHANGED <<sig, waiting, res, status>>

\* stid135_sleep, without the lock.  Of its three writes, a millisecond apart,
\* each does to the handle what all of them do.
StartSleep(f) == /\ pc[f] = "idle"
                 /\ To(f, "sleep")
                 /\ UNCHANGED <<chip, lock, n, e, res, result, status>>

Sleep(f) ==
    /\ pc[f] = "sleep"
    /\ \E h \in TunerDisable(Handle(f)) : Keeps(f, h)
    /\ To(f, "idle")
    /\ UNCHANGED <<sig, lock, n, res, result, status>>

-----------------------------------------------------------------------------
Starts(f) == StartTune(f) \/ StartShort(f) \/ StartSend(f) \/ StartSleep(f)

Continues(f) == \/ Setup(f) \/ Search(f) \/ StartSearch(f) \/ GetDemodLock(f)
                \/ Params(f) \/ FecLock(f) \/ NoFecLock(f)
                \/ SearchResult(f) \/ SearchLost(f) \/ AfterSearch(f)
                \/ StatusNoLock(f) \/ StatusLock(f) \/ Short(f)
                \/ SendBegin(f) \/ SendByte(f) \/ SendEnd(f) \/ Sleep(f)

Next == \E f \in Frontends :
          Starts(f) \/ Continues(f) \/ MutexLock(f) \/ Status(f) \/ Weather(f)

Spec == Init /\ [][Next]_vars

\* A started operation goes on, a mutex is handed to those who wait for it,
\* and the thread of each open frontend reads its status every second.
FairSpec == /\ Spec
            /\ \A f \in Frontends : WF_vars(Continues(f)) /\ SF_vars(MutexLock(f))
            /\ SF_vars(\E f \in Frontends : Status(f))

-----------------------------------------------------------------------------
\* stid135_set_parameters and the others bracket what they do with the lock of
\* the base, and GetDemodLock gives it away in between: a frontend that has
\* passed mutex_lock is the owner until it unlocks.
SectionOwned == \A f \in Frontends : pc[f] \in LockedSteps /\ ~waiting[f] => owner = f

\* While the chip is busy read_status answers FE_HAS_LOCK only if the last
\* reading of the lock bits since the last tune was "locked", or was cut short
\* by a failed transfer, after which signal_info.locked holds bits nobody read.
CachedLockIsTrue ==
    \A f \in Frontends : cached[f] /\ pc[f] # "tune" => reading[f] \in {"yes", "torn"}

\* A sticky Error makes get_lock_status miss a lock, of any frontend; the
\* band power read after it resets Error, so a failed transfer costs at most
\* one such reading.
GlitchCostsOneReading == falseNo <= Glitches - left

\* pResult is "Result of the search" (stid135_drv.c:2371): a search that takes
\* the locked path of set_parameters has itself read the lock of the FEC.
ResultIsOfThisSearch ==
    \A f \in Frontends : pc[f] = "after" => result[f] \in {"none", "read"}

\* The loop over the DiSEqC FIFO of a frontend reads a flag nobody resets.
Hung == \E f \in Frontends : In(f, "fifo") /\ n[f] > 0 /\ err

\* Every operation of every frontend ends, unless one of them is caught in the
\* FIFO loop with the lock of all.
OperationEnds == \A f \in Frontends : pc[f] # "idle" ~> (pc[f] = "idle" \/ Hung)

\* "Error (if any)" is what fe_stid135_diseqc_send returns (stid135_drv.c:5475):
\* with an error it returns as well.
SendEnds == \A f \in Frontends : pc[f] = "fifo" ~> pc[f] = "idle"

\* A failed transfer does not leave the chip handle in error for good.
ErrorHeals == err ~> (~err \/ Hung)
=============================================================================
