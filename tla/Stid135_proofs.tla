--------------------------- MODULE Stid135_proofs ---------------------------
(***************************************************************************)
(* The safety properties of Stid135, proved for any number of frontends,   *)
(* failing transfers, rounds and bytes.                                    *)
(*                                                                         *)
(* The argument about the sticky Error: whatever a run of accesses does,   *)
(* it sets Error only with a transfer that fails (Worse).  A reading that  *)
(* Error made miss a lock is charged to that transfer, and while the       *)
(* frontend goes on to the band power, which resets Error, it has the lock *)
(* and nobody else can take a second reading (Charged).                    *)
(***************************************************************************)
EXTENDS Stid135, TLAPS

Handles == [err : BOOLEAN, left : 0..Glitches, e : BOOLEAN]

(* What accesses may do to a handle h: Error is set only at the cost of a  *)
(* failing transfer.                                                       *)
Worse(h, g) == /\ g \in Handles
               /\ g.left <= h.left
               /\ g.err => h.err \/ g.left < h.left

(* ... and what they may do if they reset Error.                           *)
Reset(h, g) == Worse(h, g) /\ (g.err => g.left < h.left)

LEMMA FailedWorse ==
    ASSUME NEW h \in Handles, NEW g \in Failed(h) PROVE Reset(h, g) /\ g.err /\ g.e
  <1> PICK k \in 0..Glitches : k < h.left /\ g = [err |-> TRUE, left |-> k, e |-> TRUE]
    BY DEF Failed
  <1>1. g \in Handles /\ g.left = k /\ g.err /\ g.e
    BY DEF Handles
  <1>2. h.left \in Nat /\ k \in Nat
    BY BoundsAssumption DEF Handles
  <1> QED BY <1>1, <1>2 DEF Worse, Reset

(* Only the error returned is changed.                                     *)
LEMMA OnlyE ==
    ASSUME NEW h \in Handles, NEW b \in BOOLEAN
    PROVE  /\ [h EXCEPT !.e = b] \in Handles
           /\ [h EXCEPT !.e = b].left = h.left
           /\ [h EXCEPT !.e = b].err = h.err
           /\ Worse(h, [h EXCEPT !.e = b])
  <1>1. /\ [h EXCEPT !.e = b] \in Handles
        /\ [h EXCEPT !.e = b].left = h.left
        /\ [h EXCEPT !.e = b].err = h.err
    BY DEF Handles
  <1>2. h.left \in Nat
    BY BoundsAssumption DEF Handles
  <1> QED BY <1>1, <1>2 DEF Worse

LEMMA WorseTransitive ==
    ASSUME NEW h \in Handles, NEW g, NEW k, Worse(h, g), Worse(g, k)
    PROVE  Worse(h, k)
  BY BoundsAssumption DEF Handles, Worse

LEMMA GetFieldsWorse ==
    ASSUME NEW h \in Handles, NEW g \in GetFields(h) PROVE Worse(h, g)
  <1>1. CASE g = h
    BY <1>1, BoundsAssumption DEF Worse, Handles
  <1>2. CASE g \in Failed(h)
    BY <1>2, FailedWorse DEF Reset
  <1> QED BY <1>1, <1>2 DEF GetFields

LEMMA SetFieldsWorse ==
    ASSUME NEW h \in Handles, NEW g \in SetFields(h) PROVE Worse(h, g)
  <1>1. CASE g = h
    BY <1>1, BoundsAssumption DEF Worse, Handles
  <1>4. CASE g = [h EXCEPT !.e = TRUE]
    BY <1>4, OnlyE
  <1>2. CASE g \in Failed(h)
    BY <1>2, FailedWorse DEF Reset
  <1>3. CASE \E k \in Failed(h) : g = [h EXCEPT !.left = k.left]
    <2> PICK k \in Failed(h) : g = [h EXCEPT !.left = k.left]
      BY <1>3
    <2>1. Worse(h, k)
      BY FailedWorse DEF Reset
    <2> QED BY <2>1, BoundsAssumption DEF Worse, Handles
  <1> QED BY <1>1, <1>2, <1>3, <1>4 DEF SetFields

LEMMA RegistersReset ==
    ASSUME NEW h \in Handles, NEW g \in Registers(h) PROVE Reset(h, g)
  <1> DEFINE c == [h EXCEPT !.err = FALSE]
  <1>1. c \in Handles /\ c.left = h.left /\ ~c.err
    BY DEF Handles
  <1> HIDE DEF c
  <1>2. CASE g = c
    BY <1>1, <1>2, BoundsAssumption DEF Reset, Worse, Handles
  <1>3. ASSUME NEW k \in Failed(c),
               g \in {k, [k EXCEPT !.err = FALSE], [c EXCEPT !.left = k.left]}
        PROVE  Reset(h, g)
    <2>1. k \in Handles /\ k.left < c.left
      BY <1>1, FailedWorse DEF Reset, Worse
    <2>2. g \in Handles /\ g.left = k.left
      BY <1>1, <1>3, <2>1 DEF Handles
    <2> QED BY <1>1, <2>1, <2>2, BoundsAssumption DEF Reset, Worse, Handles
  <1>4. g = c \/ \E k \in Failed(c) :
                   g \in {k, [k EXCEPT !.err = FALSE], [c EXCEPT !.left = k.left]}
    BY DEF Registers, c
  <1> QED BY <1>2, <1>3, <1>4

LEMMA FieldsThenRegistersWorse ==
    ASSUME NEW h \in Handles, NEW g \in FieldsThenRegisters(h) PROVE Worse(h, g)
  <1> DEFINE c == [h EXCEPT !.e = @ \/ h.err]
  <1>1. c \in Handles /\ c.left = h.left /\ c.err = h.err
    BY DEF Handles
  <1>2. g \in Registers(c)
    BY DEF FieldsThenRegisters
  <1> HIDE DEF c
  <1>3. Reset(c, g)
    BY <1>1, <1>2, RegistersReset
  <1> QED BY <1>1, <1>3 DEF Reset, Worse

LEMMA CheckedWorse ==
    ASSUME NEW h \in Handles, NEW done, \A g \in done : Worse(h, g),
           NEW g \in Checked(h, done)
    PROVE  Worse(h, g)
  <1>1. g \in done \/ g = [h EXCEPT !.e = TRUE]
    BY DEF Checked
  <1> QED BY <1>1, OnlyE

(* Every function the driver calls.                                        *)
LEMMA FunctionsWorse ==
    ASSUME NEW h \in Handles
    PROVE  /\ \A g \in GetLoFreqHz(h) : Worse(h, g)
           /\ \A g \in set_rfmux_path(h) : Worse(h, g)
           /\ \A g \in set_pls(h) : Worse(h, g)
           /\ \A g \in reset_modcodes_filter(h) : Worse(h, g)
           /\ \A g \in set_reg_init_values(h) : Worse(h, g)
           /\ \A g \in GetSignalParams(h) : Worse(h, g)
           /\ \A g \in manage_matype_info(h) : Worse(h, g)
           /\ \A g \in TrackingOptimization(h) : Worse(h, g)
           /\ \A g \in reset_obs_registers(h) : Worse(h, g)
           /\ \A g \in get_current_llr(h) : Worse(h, g)
           /\ \A g \in get_band_power_demod_not_locked(h) : Reset(h, g)
           /\ \A g \in set_mis_filtering(h) : Worse(h, g)
           /\ \A g \in get_signal_info(h) : Worse(h, g)
           /\ \A g \in diseqc_init(h) : Worse(h, g)
           /\ \A g \in diseqc_receive(h) : Worse(h, g)
           /\ \A g \in set_22khz_cont(h) : Worse(h, g)
           /\ \A g \in tuner_enable(h) : Worse(h, g)
           /\ \A g \in TunerDisable(h) : Worse(h, g)
  <1>1. \A g \in GetFields(h) : Worse(h, g)
    BY GetFieldsWorse
  <1>2. \A g \in SetFields(h) : Worse(h, g)
    BY SetFieldsWorse
  <1>3. \A g \in Registers(h) : Reset(h, g) /\ Worse(h, g)
    BY RegistersReset DEF Reset
  <1>4. \A g \in FieldsThenRegisters(h) : Worse(h, g)
    BY FieldsThenRegistersWorse
  <1>5. \A g \in get_current_llr(h) : Worse(h, g)
    <2> SUFFICES ASSUME NEW k \in SetFields(h) PROVE Worse(h, [k EXCEPT !.e = h.e])
      BY DEF get_current_llr
    <2> QED BY <1>2 DEF Worse, Handles
  <1>6. /\ \A g \in set_pls(h) : Worse(h, g)
        /\ \A g \in set_22khz_cont(h) : Worse(h, g)
    BY <1>2, CheckedWorse DEF set_pls, set_22khz_cont
  <1>7. /\ \A g \in reset_modcodes_filter(h) : Worse(h, g)
        /\ \A g \in diseqc_init(h) : Worse(h, g)
    BY <1>3, CheckedWorse DEF reset_modcodes_filter, diseqc_init
  <1>8. \A g \in set_mis_filtering(h) : Worse(h, g)
    BY <1>2, <1>4, CheckedWorse DEF set_mis_filtering
  <1>9. \A g \in diseqc_receive(h) : Worse(h, g)
    BY <1>1, <1>3, CheckedWorse DEF diseqc_receive
  <1>10. \A g \in get_signal_info(h) : Worse(h, g)
    BY <1>4, CheckedWorse DEF get_signal_info
  <1>11. /\ \A g \in GetLoFreqHz(h) : Worse(h, g)
         /\ \A g \in set_rfmux_path(h) : Worse(h, g)
    BY <1>1, <1>2 DEF GetLoFreqHz, set_rfmux_path
  <1>12. /\ \A g \in set_reg_init_values(h) : Worse(h, g)
         /\ \A g \in tuner_enable(h) : Worse(h, g)
         /\ \A g \in TunerDisable(h) : Worse(h, g)
         /\ \A g \in get_band_power_demod_not_locked(h) : Reset(h, g)
    BY <1>3 DEF set_reg_init_values, tuner_enable, TunerDisable, get_band_power_demod_not_locked
  <1>13. /\ \A g \in GetSignalParams(h) : Worse(h, g)
         /\ \A g \in manage_matype_info(h) : Worse(h, g)
         /\ \A g \in TrackingOptimization(h) : Worse(h, g)
         /\ \A g \in reset_obs_registers(h) : Worse(h, g)
    BY <1>2, <1>4 DEF GetSignalParams, manage_matype_info, TrackingOptimization, reset_obs_registers
  <1> QED BY <1>5, <1>6, <1>7, <1>8, <1>9, <1>10, <1>11, <1>12, <1>13

-----------------------------------------------------------------------------
(* What every step does to the handle.                                     *)

ChipStep == /\ err' \in BOOLEAN /\ left' \in 0..Glitches
            /\ e' \in [Frontends -> BOOLEAN]
            /\ left' <= left
            /\ err' => err \/ left' < left

LEMMA HandleType ==
    ASSUME TypeOK, NEW f \in Frontends
    PROVE  /\ Handle(f) \in Handles
           /\ Handle(f).err = err /\ Handle(f).left = left /\ Handle(f).e = e[f]
           /\ left \in Nat
           /\ Worse(Handle(f), Handle(f))
  <1>1. /\ Handle(f) \in Handles
        /\ Handle(f).err = err /\ Handle(f).left = left /\ Handle(f).e = e[f]
    BY DEF TypeOK, Handle, Handles
  <1>2. left \in Nat
    BY BoundsAssumption DEF TypeOK
  <1> QED BY <1>1, <1>2 DEF Worse

LEMMA LeavesStep ==
    ASSUME TypeOK, NEW f \in Frontends, NEW h, Worse(Handle(f), h), Leaves(f, h)
    PROVE  ChipStep
  <1>1. h \in Handles /\ h.left <= left /\ (h.err => err \/ h.left < left)
    BY HandleType DEF Worse
  <1>2. err' = h.err /\ left' = h.left /\ e' = [e EXCEPT ![f] = h.e]
    BY DEF Leaves
  <1>3. err' \in BOOLEAN /\ left' \in 0..Glitches
    BY <1>1, <1>2 DEF Handles
  <1>4. e' \in [Frontends -> BOOLEAN]
    BY <1>1, <1>2 DEF Handles, TypeOK
  <1>5. left' <= left /\ (err' => err \/ left' < left)
    BY <1>1, <1>2
  <1> QED BY <1>3, <1>4, <1>5 DEF ChipStep

(* The same if the operation keeps its own error, or gives it up.          *)
LEMMA WithError ==
    ASSUME TypeOK, NEW f \in Frontends, NEW h, Worse(Handle(f), h), NEW b \in BOOLEAN
    PROVE  Worse(Handle(f), [h EXCEPT !.e = b])
  <1>1. h \in Handles /\ Handle(f) \in Handles
    BY HandleType DEF Worse
  <1> QED BY <1>1, OnlyE, WorseTransitive

LEMMA KeepsStep ==
    ASSUME TypeOK, NEW f \in Frontends, NEW h, Worse(Handle(f), h), Keeps(f, h)
    PROVE  ChipStep
  <1>1. e[f] \in BOOLEAN
    BY DEF TypeOK
  <1> QED BY <1>1, WithError, LeavesStep DEF Keeps

LEMMA ReturnStep ==
    ASSUME TypeOK, NEW f \in Frontends, NEW h, Worse(Handle(f), h), Return(f, h)
    PROVE  ChipStep
  BY WithError, LeavesStep DEF Return

(* The results of two accesses one after the other.                        *)
LEMMA Then ==
    ASSUME TypeOK, NEW f \in Frontends, NEW h, Worse(Handle(f), h)
    PROVE  /\ h \in Handles
           /\ \A g : Worse(h, g) => Worse(Handle(f), g)
  BY HandleType, WorseTransitive DEF Worse

LEMMA TuneChip ==
    ASSUME TypeOK, NEW f \in Frontends, Setup(f) \/ Search(f) \/ StartSearch(f)
    PROVE  ChipStep
  <1>1. CASE Setup(f)
    <2>1. PICK h1 \in GetLoFreqHz(Handle(f)) : \E h2 \in set_rfmux_path(h1) :
            \E h3 \in set_pls(h2) : \E h4 \in reset_modcodes_filter(h3) : Leaves(f, h4)
      BY <1>1 DEF Setup
    <2>2. Worse(Handle(f), h1)
      BY HandleType, FunctionsWorse
    <2>3. PICK h2 \in set_rfmux_path(h1) : \E h3 \in set_pls(h2) :
            \E h4 \in reset_modcodes_filter(h3) : Leaves(f, h4)
      BY <2>1
    <2>4. Worse(Handle(f), h2)
      BY <2>2, Then, FunctionsWorse
    <2>5. PICK h3 \in set_pls(h2) : \E h4 \in reset_modcodes_filter(h3) : Leaves(f, h4)
      BY <2>3
    <2>6. Worse(Handle(f), h3)
      BY <2>4, Then, FunctionsWorse
    <2>7. PICK h4 \in reset_modcodes_filter(h3) : Leaves(f, h4)
      BY <2>5
    <2>8. Worse(Handle(f), h4)
      BY <2>6, Then, FunctionsWorse
    <2> QED BY <2>7, <2>8, LeavesStep
  <1>2. CASE Search(f)
    <2>1. CASE err
      BY <1>2, <2>1, HandleType, OnlyE, LeavesStep DEF Search
    <2>2. CASE ~err
      <3> DEFINE h0 == [Handle(f) EXCEPT !.e = FALSE]
      <3>1. PICK h \in set_reg_init_values(h0) : Leaves(f, [h EXCEPT !.e = @ \/ e[f]])
        BY <1>2, <2>2 DEF Search
      <3>2. Worse(Handle(f), h0)
        BY HandleType, OnlyE
      <3> HIDE DEF h0
      <3>3. Worse(Handle(f), h)
        BY <3>1, <3>2, Then, FunctionsWorse
      <3>4. (h.e \/ e[f]) \in BOOLEAN
        OBVIOUS
      <3>5. Worse(Handle(f), [h EXCEPT !.e = h.e \/ e[f]])
        BY <3>3, <3>4, WithError
      <3> QED BY <3>1, <3>5, LeavesStep
    <2> QED BY <2>1, <2>2
  <1>3. CASE StartSearch(f)
    <2>1. PICK h \in FieldsThenRegisters(Handle(f)) : Keeps(f, h)
      BY <1>3 DEF StartSearch
    <2> QED BY <2>1, HandleType, FieldsThenRegistersWorse, KeepsStep
  <1> QED BY <1>1, <1>2, <1>3

LEMMA LockChip ==
    ASSUME TypeOK, NEW f \in Frontends, GetDemodLock(f) \/ Params(f)
    PROVE  ChipStep
  <1>1. CASE GetDemodLock(f)
    <2>1. CASE UNCHANGED <<err, left, e>>
      BY <2>1, HandleType DEF TypeOK, ChipStep
    <2>2. ASSUME NEW r \in DemodLock(f, Handle(f)) PROVE Worse(Handle(f), r.h)
      <3>1. r.h = Handle(f) \/ r.h \in Failed(Handle(f))
        BY DEF DemodLock
      <3> QED BY <3>1, HandleType, FailedWorse DEF Reset
    <2>3. ASSUME NEW r \in DemodLock(f, Handle(f)),
                 Keeps(f, r.h) \/ \E h \in (IF r.bit = "yes" THEN SetFields(r.h) ELSE {r.h}) : Keeps(f, h)
          PROVE  ChipStep
      <3>1. Worse(Handle(f), r.h)
        BY <2>2
      <3>2. ASSUME NEW h \in SetFields(r.h), Keeps(f, h) PROVE ChipStep
        BY <3>1, <3>2, Then, SetFieldsWorse, KeepsStep
      <3> QED BY <2>3, <3>1, <3>2, KeepsStep
    <2> QED BY <1>1, <2>1, <2>3 DEF GetDemodLock
  <1>2. CASE Params(f)
    <2>1. PICK h1 \in GetSignalParams(Handle(f)) :
            \/ Keeps(f, h1)
            \/ \E h2 \in GetFields(h1) : \E h3 \in manage_matype_info(h2) \cup {h1} :
                 \E h4 \in SetFields(h3) : Keeps(f, h4)
      BY <1>2 DEF Params
    <2>2. Worse(Handle(f), h1)
      BY HandleType, FunctionsWorse
    <2>3. ASSUME NEW h2 \in GetFields(h1), NEW h3 \in manage_matype_info(h2) \cup {h1},
                 NEW h4 \in SetFields(h3), Keeps(f, h4)
          PROVE  ChipStep
      <3>1. Worse(Handle(f), h2)
        BY <2>2, Then, GetFieldsWorse
      <3>2. Worse(Handle(f), h3)
        BY <2>2, <3>1, Then, FunctionsWorse
      <3>3. Worse(Handle(f), h4)
        BY <3>2, Then, SetFieldsWorse
      <3> QED BY <2>3, <3>3, KeepsStep
    <2> QED BY <2>1, <2>2, <2>3, KeepsStep
  <1> QED BY <1>1, <1>2

LEMMA ResultChip ==
    ASSUME TypeOK, NEW f \in Frontends,
           FecLock(f) \/ NoFecLock(f) \/ SearchResult(f) \/ SearchLost(f) \/ AfterSearch(f)
    PROVE  ChipStep
  <1>1. CASE FecLock(f)
    <2>1. PICK r \in {[h |-> g, why |-> "glitch"] : g \in Failed(Handle(f))}
                     \cup (IF sig[f] THEN {[h |-> Handle(f), why |-> "read"]} ELSE {}) :
            \E h \in FieldsThenRegisters(r.h) : Keeps(f, h)
      BY <1>1 DEF FecLock
    <2>2. r.h = Handle(f) \/ r.h \in Failed(Handle(f))
      OBVIOUS
    <2>3. Worse(Handle(f), r.h)
      BY <2>2, HandleType, FailedWorse DEF Reset
    <2>4. PICK h \in FieldsThenRegisters(r.h) : Keeps(f, h)
      BY <2>1
    <2>5. Worse(Handle(f), h)
      BY <2>3, Then, FieldsThenRegistersWorse
    <2> QED BY <2>4, <2>5, KeepsStep
  <1>2. CASE NoFecLock(f)
    BY <1>2, HandleType DEF NoFecLock, chip, TypeOK, ChipStep
  <1>3. CASE SearchResult(f)
    <2>1. CASE err
      BY <1>3, <2>1, HandleType, OnlyE, LeavesStep DEF SearchResult
    <2>2. CASE ~err
      <3>1. PICK h1 \in TrackingOptimization(Handle(f)) :
              \E h2 \in reset_obs_registers(h1) : Leaves(f, h2)
        BY <1>3, <2>2 DEF SearchResult
      <3>2. Worse(Handle(f), h1)
        BY HandleType, FunctionsWorse
      <3>3. PICK h2 \in reset_obs_registers(h1) : Leaves(f, h2)
        BY <3>1
      <3>4. Worse(Handle(f), h2)
        BY <3>2, Then, FunctionsWorse
      <3> QED BY <3>3, <3>4, LeavesStep
    <2> QED BY <2>1, <2>2
  <1>4. CASE SearchLost(f)
    <2>1. (e[f] \/ err) \in BOOLEAN
      OBVIOUS
    <2>2. Leaves(f, [Handle(f) EXCEPT !.e = e[f] \/ err])
      BY <1>4, HandleType DEF SearchLost
    <2>3. Worse(Handle(f), [Handle(f) EXCEPT !.e = e[f] \/ err])
      BY <2>1, HandleType, OnlyE
    <2> QED BY <2>2, <2>3, LeavesStep
  <1>5. CASE AfterSearch(f)
    <2>1. CASE Return(f, Handle(f))
      BY <2>1, HandleType, ReturnStep
    <2>2. ASSUME NEW h1 \in get_current_llr(Handle(f)) \cup get_band_power_demod_not_locked(Handle(f)),
                 NEW h2 \in set_mis_filtering(h1), Return(f, h2)
          PROVE  ChipStep
      <3>1. Worse(Handle(f), h1)
        BY HandleType, FunctionsWorse DEF Reset
      <3>2. Worse(Handle(f), h2)
        BY <3>1, Then, FunctionsWorse
      <3> QED BY <2>2, <3>2, ReturnStep
    <2> QED BY <1>5, <2>1, <2>2 DEF AfterSearch
  <1> QED BY <1>1, <1>2, <1>3, <1>4, <1>5

(* The band power also resets Error.                                       *)
LEMMA StatusChip ==
    ASSUME TypeOK, NEW f \in Frontends, Status(f) \/ StatusNoLock(f) \/ StatusLock(f)
    PROVE  ChipStep /\ (StatusNoLock(f) /\ err' => left' < left)
  <1>1. CASE Status(f)
    <2>1. PICK r \in LockStatus(f) : Return(f, r.h) \/ Leaves(f, r.h)
      BY <1>1 DEF Status
    <2>2. r.h = Handle(f) \/ r.h \in Failed(Handle(f))
      BY DEF LockStatus
    <2>3. Worse(Handle(f), r.h)
      BY <2>2, HandleType, FailedWorse DEF Reset
    <2>4. ChipStep
      BY <2>1, <2>3, LeavesStep, ReturnStep
    <2>5. pc[f] = "idle" /\ ~StatusNoLock(f)
      BY <1>1 DEF Status, StatusNoLock, In
    <2> QED BY <2>4, <2>5
  <1>2. CASE StatusNoLock(f)
    <2>1. PICK h \in get_band_power_demod_not_locked(Handle(f)) : Return(f, h)
      BY <1>2 DEF StatusNoLock
    <2>2. Reset(Handle(f), h)
      BY HandleType, FunctionsWorse
    <2>3. ChipStep
      BY <2>1, <2>2, ReturnStep DEF Reset
    <2>4. err' = h.err /\ left' = h.left
      <3>1. h \in Handles
        BY <2>2 DEF Reset, Worse
      <3> QED BY <2>1, <3>1, OnlyE DEF Return, Leaves
    <2> QED BY <2>2, <2>3, <2>4, HandleType DEF Reset
  <1>3. CASE StatusLock(f)
    <2>1. CASE Return(f, Handle(f))
      BY <2>1, <1>3, HandleType, ReturnStep DEF StatusLock, StatusNoLock, In
    <2>2. CASE \E h \in get_signal_info(Handle(f)) : Return(f, h)
      BY <2>2, <1>3, HandleType, FunctionsWorse, ReturnStep DEF StatusLock, StatusNoLock, In
    <2> QED BY <1>3, <2>1, <2>2 DEF StatusLock
  <1> QED BY <1>1, <1>2, <1>3

LEMMA ShortChip ==
    ASSUME TypeOK, NEW f \in Frontends,
           Short(f) \/ SendBegin(f) \/ SendByte(f) \/ SendEnd(f) \/ Sleep(f)
    PROVE  ChipStep
  <1>1. CASE Short(f)
    <2>1. ASSUME NEW h1 \in tuner_enable(Handle(f)), NEW h2 \in diseqc_init(h1),
                 NEW h3 \in set_rfmux_path(h2), Return(f, h3)
          PROVE  ChipStep
      <3>1. Worse(Handle(f), h1)
        BY HandleType, FunctionsWorse
      <3>2. Worse(Handle(f), h2)
        BY <3>1, Then, FunctionsWorse
      <3>3. Worse(Handle(f), h3)
        BY <3>2, Then, FunctionsWorse
      <3> QED BY <2>1, <3>3, ReturnStep
    <2>2. ASSUME NEW h \in set_22khz_cont(Handle(f)) \cup diseqc_receive(Handle(f)), Return(f, h)
          PROVE  ChipStep
      BY <2>2, HandleType, FunctionsWorse, ReturnStep
    <2> QED BY <1>1, <2>1, <2>2 DEF Short
  <1>2. CASE SendBegin(f)
    <2>1. PICK h1 \in diseqc_init(Handle(f)) :
            Return(f, h1) \/ \E h2 \in SetFields(h1) : Leaves(f, h2)
      BY <1>2 DEF SendBegin
    <2>2. Worse(Handle(f), h1)
      BY HandleType, FunctionsWorse
    <2>3. ASSUME NEW h2 \in SetFields(h1), Leaves(f, h2) PROVE ChipStep
      BY <2>2, <2>3, Then, SetFieldsWorse, LeavesStep
    <2> QED BY <2>1, <2>2, <2>3, ReturnStep
  <1>3. CASE SendByte(f)
    <2>1. PICK h1 \in GetFields(Handle(f)) :
            Leaves(f, h1) \/ \E h2 \in Registers(h1) : Leaves(f, h2)
      BY <1>3 DEF SendByte
    <2>2. Worse(Handle(f), h1)
      BY HandleType, GetFieldsWorse
    <2>3. ASSUME NEW h2 \in Registers(h1), Leaves(f, h2) PROVE ChipStep
      BY <2>2, <2>3, Then, RegistersReset, LeavesStep DEF Reset
    <2> QED BY <2>1, <2>2, <2>3, LeavesStep
  <1>4. CASE SendEnd(f)
    BY <1>4, HandleType, SetFieldsWorse, ReturnStep DEF SendEnd
  <1>5. CASE Sleep(f)
    BY <1>5, HandleType, FunctionsWorse, KeepsStep DEF Sleep
  <1> QED BY <1>1, <1>2, <1>3, <1>4, <1>5

-----------------------------------------------------------------------------
(* The invariant.                                                          *)

(* Only an operation that is to enter a section waits for the lock.        *)
Waits == \A f \in Frontends :
           waiting[f] => pc[f] \in {"tune", "short", "send", "poll", "poll2"}

(* While Error is set, the transfer that set it has not cost a reading yet, *)
(* unless the frontend that lost one is about to reset Error.              *)
Charged == err => falseNo < Glitches - left \/ \E f \in Frontends : pc[f] = "band"

IInv == /\ TypeOK /\ SectionOwned /\ Waits
        /\ CachedLockIsTrue /\ GlitchCostsOneReading /\ Charged

LEMMA InitInvariant == Init => IInv
  <1> SUFFICES ASSUME Init PROVE IInv
    OBVIOUS
  <1>1. TypeOK
    <2>1. left \in 0..Glitches /\ falseNo \in Nat /\ n \in [Frontends -> Nat]
      BY BoundsAssumption DEF Init
    <2>2. /\ err \in BOOLEAN
          /\ sig \in [Frontends -> BOOLEAN] /\ waiting \in [Frontends -> BOOLEAN]
          /\ e \in [Frontends -> BOOLEAN] /\ res \in [Frontends -> BOOLEAN]
          /\ cached \in [Frontends -> BOOLEAN]
      BY DEF Init
    <2>3. /\ owner \in Frontends \cup {NoOne} /\ pc \in [Frontends -> Steps]
          /\ result \in [Frontends -> {"none", "read", "glitch", "old"}]
          /\ reading \in [Frontends -> {"no", "yes", "torn"}]
      BY DEF Init, Steps
    <2> QED BY <2>1, <2>2, <2>3 DEF TypeOK
  <1>2. SectionOwned /\ Waits /\ CachedLockIsTrue
    BY DEF Init, SectionOwned, LockedSteps, Waits, CachedLockIsTrue
  <1>3. GlitchCostsOneReading /\ Charged
    BY BoundsAssumption DEF Init, GlitchCostsOneReading, Charged
  <1> QED BY <1>1, <1>2, <1>3 DEF IInv

(* The handle and the operation's error change by ChipStep in every step.  *)
LEMMA EveryChipStep ==
    ASSUME TypeOK, [Next]_vars PROVE ChipStep
  <1>1. CASE UNCHANGED <<err, left, e>>
    BY <1>1, HandleType DEF ChipStep, TypeOK
  <1>2. ASSUME NEW f \in Frontends, Continues(f) \/ Status(f) PROVE ChipStep
    BY <1>2, TuneChip, LockChip, ResultChip, StatusChip, ShortChip DEF Continues
  <1>3. ASSUME NEW f \in Frontends, Starts(f) \/ MutexLock(f) PROVE ChipStep
    BY <1>3, <1>1 DEF Starts, StartTune, StartShort, StartSend, StartSleep, Start, MutexLock, chip
  <1>4. ASSUME NEW f \in Frontends, Weather(f) PROVE ChipStep
    BY <1>4, <1>1 DEF Weather
  <1>5. CASE UNCHANGED vars
    BY <1>5, <1>1 DEF vars, chip
  <1> QED BY <1>2, <1>3, <1>4, <1>5 DEF Next

(* The rest of the state: what a step of frontend f does to it.            *)
Typed == /\ sig' \in [Frontends -> BOOLEAN]
         /\ owner' \in Frontends \cup {NoOne}
         /\ pc' \in [Frontends -> Steps]
         /\ waiting' \in [Frontends -> BOOLEAN]
         /\ n' \in [Frontends -> Nat]
         /\ res' \in [Frontends -> BOOLEAN]
         /\ cached' \in [Frontends -> BOOLEAN]
         /\ result' \in [Frontends -> {"none", "read", "glitch", "old"}]
         /\ reading' \in [Frontends -> {"no", "yes", "torn"}]
         /\ falseNo' \in Nat

LEMMA StartTyped ==
    ASSUME TypeOK, NEW f \in Frontends, Starts(f) \/ MutexLock(f) \/ Weather(f)
    PROVE  Typed
  <1> USE DEF TypeOK, Typed, Steps, LockedSteps, chip, lock, status
  <1>1. CASE Starts(f)
    BY <1>1 DEF Starts, StartTune, StartShort, StartSend, StartSleep, Start, To
  <1>2. CASE MutexLock(f)
    BY <1>2 DEF MutexLock
  <1>3. CASE Weather(f)
    BY <1>3 DEF Weather
  <1> QED BY <1>1, <1>2, <1>3

LEMMA SearchTyped ==
    ASSUME TypeOK, NEW f \in Frontends,
           Setup(f) \/ Search(f) \/ StartSearch(f) \/ GetDemodLock(f) \/ Params(f)
    PROVE  Typed
  <1> USE DEF TypeOK, Typed, Steps, LockedSteps, chip, lock, status, To
  <1>1. CASE Setup(f)
    BY <1>1 DEF Setup
  <1>2. CASE Search(f)
    BY <1>2 DEF Search
  <1>3. CASE StartSearch(f)
    <2>1. sig' \in [Frontends -> BOOLEAN]
      <3> PICK s \in BOOLEAN : sig' = [sig EXCEPT ![f] = s]
        BY <1>3 DEF StartSearch
      <3> QED OBVIOUS
    <2> QED BY <1>3, <2>1 DEF StartSearch
  <1>4. CASE GetDemodLock(f)
    <2>1. \/ (\E bit : AfterDemodLock(f, bit)) /\ UNCHANGED <<owner, waiting, n>>
          \/ Wait(f)
      BY <1>4 DEF GetDemodLock
    <2>2. pc' \in [Frontends -> Steps]
      BY <2>1 DEF AfterDemodLock, Wait
    <2>3. CASE UNCHANGED <<owner, waiting, n>>
      BY <1>4, <2>2, <2>3 DEF GetDemodLock
    <2>4. CASE Wait(f)
      BY <1>4, <2>2, <2>4 DEF GetDemodLock, Wait
    <2> QED BY <2>1, <2>3, <2>4
  <1>5. CASE Params(f)
    <2>1. pc' \in [Frontends -> Steps]
      BY <1>5 DEF Params
    <2>2. result' \in [Frontends -> {"none", "read", "glitch", "old"}]
      BY <1>5 DEF Params
    <2> QED BY <1>5, <2>1, <2>2 DEF Params
  <1> QED BY <1>1, <1>2, <1>3, <1>4, <1>5

LEMMA ResultTyped ==
    ASSUME TypeOK, NEW f \in Frontends,
           FecLock(f) \/ NoFecLock(f) \/ SearchResult(f) \/ SearchLost(f) \/ AfterSearch(f)
    PROVE  Typed
  <1> USE DEF TypeOK, Typed, Steps, LockedSteps, chip, lock, status, To
  <1>1. CASE FecLock(f)
    <2>1. PICK r \in {[h |-> g, why |-> "glitch"] : g \in Failed(Handle(f))}
                     \cup (IF sig[f] THEN {[h |-> Handle(f), why |-> "read"]} ELSE {}) :
            result' = [result EXCEPT ![f] = r.why]
      BY <1>1 DEF FecLock
    <2>2. r.why \in {"read", "glitch"}
      OBVIOUS
    <2>3. result' \in [Frontends -> {"none", "read", "glitch", "old"}]
      BY <2>1, <2>2
    <2> QED BY <1>1, <2>3 DEF FecLock
  <1>2. CASE NoFecLock(f)
    BY <1>2 DEF NoFecLock
  <1>3. CASE SearchResult(f)
    <2>1. result' \in [Frontends -> {"none", "read", "glitch", "old"}]
      BY <1>3 DEF SearchResult
    <2> QED BY <1>3, <2>1 DEF SearchResult
  <1>4. CASE SearchLost(f)
    BY <1>4 DEF SearchLost
  <1>5. CASE AfterSearch(f)
    <2>1. \E h : Return(f, h)
      BY <1>5 DEF AfterSearch
    <2> QED BY <1>5, <2>1 DEF AfterSearch, Return
  <1> QED BY <1>1, <1>2, <1>3, <1>4, <1>5

LEMMA ReturnTyped ==
    ASSUME TypeOK, NEW f \in Frontends, \E h : Return(f, h)
    PROVE  /\ owner' \in Frontends \cup {NoOne}
           /\ pc' \in [Frontends -> Steps]
           /\ n' \in [Frontends -> Nat]
           /\ result' \in [Frontends -> {"none", "read", "glitch", "old"}]
  BY DEF TypeOK, Return, To, Steps

LEMMA StatusTyped ==
    ASSUME TypeOK, NEW f \in Frontends, Status(f) \/ StatusNoLock(f) \/ StatusLock(f)
    PROVE  Typed
  <1> USE DEF TypeOK, Typed, Steps, LockedSteps, chip, lock, status, To
  <1>1. CASE Status(f)
    <2>1. PICK r \in LockStatus(f) :
            /\ cached' = [cached EXCEPT ![f] = r.locked]
            /\ reading' = [reading EXCEPT ![f] = Reading(r)]
            /\ falseNo' = falseNo + Missed(f, r)
            /\ \/ Return(f, r.h)
               \/ /\ owner' = f
                  /\ To(f, IF r.locked THEN "stats" ELSE "band")
                  /\ UNCHANGED <<n, result>>
      BY <1>1 DEF Status
    <2>2. r.locked \in BOOLEAN
      <3>1. CASE err
        <4>1. r = [h |-> Handle(f), locked |-> FALSE]
          BY <3>1 DEF LockStatus
        <4> QED BY <4>1
      <3>2. CASE ~err
        <4>1. r = [h |-> Handle(f), locked |-> sig[f]]
              \/ \E g \in Failed(Handle(f)), b \in BOOLEAN : r = [h |-> g, locked |-> b]
          BY <3>2 DEF LockStatus
        <4> QED BY <4>1
      <3> QED BY <3>1, <3>2
    <2>6. Reading(r) \in {"no", "yes", "torn"} /\ Missed(f, r) \in {0, 1}
      BY DEF Reading, Missed
    <2>3. cached' \in [Frontends -> BOOLEAN]
      BY <2>1, <2>2
    <2>4. reading' \in [Frontends -> {"no", "yes", "torn"}] /\ falseNo' \in Nat
      BY <2>1, <2>6
    <2>5. /\ owner' \in Frontends \cup {NoOne} /\ pc' \in [Frontends -> Steps]
          /\ n' \in [Frontends -> Nat]
          /\ result' \in [Frontends -> {"none", "read", "glitch", "old"}]
      BY <2>1, ReturnTyped
    <2> QED BY <1>1, <2>3, <2>4, <2>5 DEF Status
  <1>2. CASE StatusNoLock(f)
    BY <1>2 DEF StatusNoLock, Return
  <1>3. CASE StatusLock(f)
    <2>1. \E h : Return(f, h)
      BY <1>3 DEF StatusLock
    <2>2. cached' \in [Frontends -> BOOLEAN]
      <3>1. cached' = cached \/ \E b \in BOOLEAN : cached' = [cached EXCEPT ![f] = b]
        BY <1>3 DEF StatusLock
      <3> QED BY <3>1
    <2>3. reading' \in [Frontends -> {"no", "yes", "torn"}]
      BY <1>3 DEF StatusLock
    <2> QED BY <1>3, <2>1, <2>2, <2>3, ReturnTyped DEF StatusLock
  <1> QED BY <1>1, <1>2, <1>3

LEMMA ShortTyped ==
    ASSUME TypeOK, NEW f \in Frontends,
           Short(f) \/ SendBegin(f) \/ SendByte(f) \/ SendEnd(f) \/ Sleep(f)
    PROVE  Typed
  <1> USE DEF TypeOK, Typed, Steps, LockedSteps, chip, lock, status, To
  <1>1. CASE Short(f)
    <2>1. \E h : Return(f, h)
      BY <1>1 DEF Short
    <2> QED BY <1>1, <2>1 DEF Short, Return
  <1>2. CASE SendBegin(f)
    BY <1>2, BoundsAssumption DEF SendBegin, Return
  <1>3. CASE SendByte(f)
    BY <1>3 DEF SendByte
  <1>4. CASE SendEnd(f)
    BY <1>4 DEF SendEnd, Return
  <1>5. CASE Sleep(f)
    BY <1>5 DEF Sleep
  <1> QED BY <1>1, <1>2, <1>3, <1>4, <1>5

LEMMA TypeStep == ASSUME TypeOK, [Next]_vars PROVE TypeOK'
  <1>1. ChipStep
    BY EveryChipStep
  <1>2. Typed
    <2>1. CASE UNCHANGED vars
      BY <2>1 DEF vars, chip, lock, status, TypeOK, Typed
    <2>2. CASE Next
      BY <2>2, StartTyped, SearchTyped, ResultTyped, StatusTyped, ShortTyped DEF Next, Continues
    <2> QED BY <2>1, <2>2
  <1> QED BY <1>1, <1>2 DEF ChipStep, Typed, TypeOK

-----------------------------------------------------------------------------
(* The lock.  A step that goes on inside a section moves pc of a frontend  *)
(* that has the lock, or lets it wait for it again; one that returns gives *)
(* the lock back.                                                          *)

Inside(f) == /\ pc[f] \in LockedSteps /\ ~waiting[f]
             /\ \/ \E s \in LockedSteps : To(f, s) /\ UNCHANGED <<owner, waiting>>
                \/ pc[f] \in {"poll", "poll2"} /\ Wait(f)
                \/ (\E h : Return(f, h)) /\ UNCHANGED waiting

LEMMA SectionSteps ==
    ASSUME TypeOK, NEW f \in Frontends, Continues(f)
    PROVE  Inside(f) \/ Sleep(f)
  <1> USE DEF In, Inside, LockedSteps, lock
  <1>1. CASE Setup(f) \/ Search(f) \/ StartSearch(f) \/ Params(f)
    BY <1>1 DEF Setup, Search, StartSearch, Params, To
  <1>2. CASE GetDemodLock(f)
    <2>1. ASSUME NEW bit, AfterDemodLock(f, bit), UNCHANGED <<owner, waiting>> PROVE Inside(f)
      BY <1>2, <2>1 DEF GetDemodLock, AfterDemodLock, To
    <2>2. CASE n[f] = Polls
      BY <1>2, <2>1, <2>2 DEF GetDemodLock
    <2>3. CASE n[f] # Polls
      <3>1. PICK r \in DemodLock(f, Handle(f)) :
              IF r.bit = "no" THEN Wait(f)
              ELSE AfterDemodLock(f, r.bit) /\ UNCHANGED <<lock, n>>
        BY <1>2, <2>3, Zenon DEF GetDemodLock
      <3> QED BY <1>2, <2>1, <3>1 DEF GetDemodLock
    <2> QED BY <2>2, <2>3
  <1>3. CASE FecLock(f) \/ NoFecLock(f) \/ SearchResult(f) \/ SearchLost(f)
    BY <1>3 DEF FecLock, NoFecLock, SearchResult, SearchLost, To
  <1>4. CASE AfterSearch(f)
    BY <1>4 DEF AfterSearch
  <1>5. CASE StatusNoLock(f) \/ StatusLock(f)
    BY <1>5 DEF StatusNoLock, StatusLock
  <1>6. CASE Short(f)
    BY <1>6 DEF Short
  <1>7. CASE SendBegin(f)
    BY <1>7 DEF SendBegin, To
  <1>8. CASE SendByte(f)
    <2>1. To(f, "fifo")
      BY <1>8 DEF SendByte, To, TypeOK
    <2> QED BY <1>8, <2>1 DEF SendByte
  <1>9. CASE SendEnd(f)
    BY <1>9 DEF SendEnd
  <1> QED BY <1>1, <1>2, <1>3, <1>4, <1>5, <1>6, <1>7, <1>8, <1>9 DEF Continues

LEMMA OwnedStep ==
    ASSUME IInv, [Next]_vars PROVE SectionOwned' /\ Waits'
  <1> USE NoOneAssumption DEF IInv, TypeOK, SectionOwned, Waits, LockedSteps
  <1>1. CASE UNCHANGED vars
    BY <1>1 DEF vars, lock
  <1>2. ASSUME NEW f \in Frontends, Inside(f) PROVE SectionOwned' /\ Waits'
    <2>1. CASE \E s \in LockedSteps : To(f, s) /\ UNCHANGED <<owner, waiting>>
      BY <1>2, <2>1 DEF Inside, To
    <2>2. CASE pc[f] \in {"poll", "poll2"} /\ Wait(f)
      BY <1>2, <2>2 DEF Inside, Wait
    <2>3. CASE (\E h : Return(f, h)) /\ UNCHANGED waiting
      BY <1>2, <2>3 DEF Inside, Return, To
    <2> QED BY <1>2, <2>1, <2>2, <2>3 DEF Inside
  <1>3. ASSUME NEW f \in Frontends, Sleep(f) PROVE SectionOwned' /\ Waits'
    BY <1>3 DEF Sleep, To, lock
  <1>4. ASSUME NEW f \in Frontends, Starts(f) PROVE SectionOwned' /\ Waits'
    BY <1>4 DEF Starts, StartTune, StartShort, StartSend, StartSleep, Start, To, lock
  <1>5. ASSUME NEW f \in Frontends, MutexLock(f) PROVE SectionOwned' /\ Waits'
    BY <1>5 DEF MutexLock
  <1>6. ASSUME NEW f \in Frontends, Status(f) PROVE SectionOwned' /\ Waits'
    <2>1. \/ \E h : Return(f, h)
          \/ owner' = f /\ (To(f, "stats") \/ To(f, "band"))
      BY <1>6 DEF Status
    <2>2. pc[f] = "idle" /\ owner = NoOne /\ waiting' = waiting
      BY <1>6 DEF Status
    <2> QED BY <2>1, <2>2 DEF Return, To
  <1>7. ASSUME NEW f \in Frontends, Weather(f) PROVE SectionOwned' /\ Waits'
    BY <1>7 DEF Weather, lock
  <1> QED BY <1>1, <1>2, <1>3, <1>4, <1>5, <1>6, <1>7, SectionSteps DEF Next

(* Only the setup of a tune and the status write the cached lock, and it   *)
(* is the setup that leaves "tune".                                        *)
LEMMA CachedStep ==
    ASSUME IInv, [Next]_vars PROVE CachedLockIsTrue'
  <1> USE DEF IInv, TypeOK, CachedLockIsTrue
  <1>1. ASSUME UNCHANGED <<cached, reading>>,
               \A f \in Frontends : pc[f] = "tune" => pc'[f] = "tune"
        PROVE  CachedLockIsTrue'
    BY <1>1
  <1>2. CASE UNCHANGED vars
    BY <1>1, <1>2 DEF vars, status
  <1>3. ASSUME NEW f \in Frontends, Starts(f) \/ MutexLock(f) \/ Weather(f)
        PROVE  CachedLockIsTrue'
    BY <1>1, <1>3 DEF Starts, StartTune, StartShort, StartSend, StartSleep, Start, To,
                      MutexLock, Weather, status
  <1>4. ASSUME NEW f \in Frontends, Setup(f) PROVE CachedLockIsTrue'
    BY <1>4 DEF Setup, To
  <1>5. ASSUME NEW f \in Frontends, Status(f) PROVE CachedLockIsTrue'
    <2>1. PICK r \in LockStatus(f) :
            /\ cached' = [cached EXCEPT ![f] = r.locked]
            /\ reading' = [reading EXCEPT ![f] = Reading(r)]
      BY <1>5 DEF Status
    <2>2. pc[f] # "tune" /\ \E s : pc' = [pc EXCEPT ![f] = s]
      BY <1>5 DEF Status, Return, To
    <2>3. r.locked => Reading(r) \in {"yes", "torn"}
      BY DEF Reading
    <2> QED BY <2>1, <2>2, <2>3
  <1>6. ASSUME NEW f \in Frontends, StatusLock(f) PROVE CachedLockIsTrue'
    <2>1. pc[f] # "tune" /\ pc' = [pc EXCEPT ![f] = "idle"]
      BY <1>6 DEF StatusLock, Return, To, In
    <2>2. CASE UNCHANGED <<cached, reading>>
      BY <2>1, <2>2
    <2>3. CASE /\ cached' = [cached EXCEPT ![f] = sig[f]]
               /\ reading' = [reading EXCEPT ![f] = IF sig[f] THEN "yes" ELSE "no"]
      BY <2>1, <2>3
    <2>4. CASE /\ \E b \in BOOLEAN : cached' = [cached EXCEPT ![f] = b]
               /\ reading' = [reading EXCEPT ![f] = "torn"]
      BY <2>1, <2>4
    <2> QED BY <1>6, <2>2, <2>3, <2>4 DEF StatusLock
  <1>7. ASSUME NEW f \in Frontends, Continues(f), ~Setup(f), ~StatusLock(f)
        PROVE  CachedLockIsTrue'
    <2>1. UNCHANGED <<cached, reading>>
      BY <1>7 DEF Continues, Search, StartSearch, GetDemodLock, Params, FecLock, NoFecLock,
                  SearchResult, SearchLost, AfterSearch, StatusNoLock, Short, SendBegin,
                  SendByte, SendEnd, Sleep, status
    <2>2. pc[f] # "tune"
      BY <1>7 DEF Continues, Search, StartSearch, GetDemodLock, Params, FecLock, NoFecLock,
                  SearchResult, SearchLost, AfterSearch, StatusNoLock, Short, SendBegin,
                  SendByte, SendEnd, Sleep, In
    <2>3. \E s : pc' = [pc EXCEPT ![f] = s]
      <3>1. CASE Inside(f)
        <4>1. CASE Wait(f)
          BY <4>1 DEF Wait
        <4> QED BY <3>1, <4>1 DEF Inside, Return, To
      <3>2. CASE Sleep(f)
        BY <3>2 DEF Sleep, To
      <3> QED BY <1>7, <3>1, <3>2, SectionSteps
    <2> QED BY <1>1, <2>1, <2>2, <2>3
  <1> QED BY <1>2, <1>3, <1>4, <1>5, <1>6, <1>7 DEF Next

LEMMA OnePaid ==
    ASSUME NEW g \in Nat, NEW k \in Nat, NEW a \in Nat, NEW b \in Nat, k <= g - a, b < a
    PROVE  k < g - b
  OBVIOUS

(* Missed readings are paid for.                                           *)
LEMMA ChargedStep ==
    ASSUME IInv, [Next]_vars PROVE GlitchCostsOneReading' /\ Charged'
  <1> USE BoundsAssumption DEF IInv, GlitchCostsOneReading, Charged
  <1>0. /\ left \in Nat /\ left' \in Nat /\ left' <= left /\ falseNo \in Nat
        /\ err' => err \/ left' < left
    BY EveryChipStep, HandleType DEF ChipStep, TypeOK
  <1>1. ASSUME falseNo' = falseNo,
               (\A f \in Frontends : pc[f] = "band" => pc'[f] = "band") \/ (err' => left' < left)
        PROVE  GlitchCostsOneReading' /\ Charged'
    <2>1. Glitches \in Nat /\ falseNo <= Glitches - left
      OBVIOUS
    <2>2. falseNo' <= Glitches - left'
      BY <1>0, <1>1, <2>1
    <2>3. left' < left => falseNo' < Glitches - left'
      BY <1>0, <1>1, <2>1, OnePaid
    <2>4. CASE err' /\ ~(left' < left)
      <3>1. err /\ left' = left
        BY <1>0, <2>4
      <3>2. falseNo' < Glitches - left' \/ \E f \in Frontends : pc[f] = "band"
        BY <1>1, <3>1
      <3>3. \A f \in Frontends : pc[f] = "band" => pc'[f] = "band"
        BY <1>1, <2>4
      <3> QED BY <2>2, <3>2, <3>3
    <2> QED BY <2>2, <2>3, <2>4
  <1>2. CASE UNCHANGED vars
    BY <1>1, <1>2 DEF vars, status
  <1>3. ASSUME NEW f \in Frontends, Starts(f) \/ MutexLock(f) \/ Weather(f)
        PROVE  GlitchCostsOneReading' /\ Charged'
    <2>1. falseNo' = falseNo
      BY <1>3 DEF Starts, StartTune, StartShort, StartSend, StartSleep, Start,
                  MutexLock, Weather, status
    <2>2. \/ pc' = pc
          \/ pc[f] = "idle" /\ \E s : pc' = [pc EXCEPT ![f] = s]
      BY <1>3 DEF Starts, StartTune, StartShort, StartSend, StartSleep, Start, To,
                  MutexLock, Weather
    <2> QED BY <1>1, <2>1, <2>2 DEF TypeOK
  <1>4. ASSUME NEW f \in Frontends, Status(f)
        PROVE  GlitchCostsOneReading' /\ Charged'
    <2>1. PICK r \in LockStatus(f) :
            /\ falseNo' = falseNo + Missed(f, r)
            /\ \/ r.h.e
               \/ To(f, IF r.locked THEN "stats" ELSE "band")
      BY <1>4 DEF Status
    <2>2. \A g \in Frontends : pc[g] # "band"
      BY <1>4, NoOneAssumption DEF Status, SectionOwned, Waits, LockedSteps
    <2>3. CASE Missed(f, r) = 0
      <3>1. falseNo' = falseNo
        BY <1>0, <2>1, <2>3
      <3> QED BY <3>1, <1>1, <2>2
    <2>4. CASE Missed(f, r) # 0
      <3>1. ~r.h.e /\ ~r.locked /\ sig[f] /\ falseNo' = falseNo + 1
        BY <2>1, <2>4 DEF Missed
      <3>2. err
        <4> SUFFICES ASSUME ~err PROVE FALSE
          OBVIOUS
        <4>1. r = [h |-> Handle(f), locked |-> sig[f]]
              \/ \E g \in Failed(Handle(f)), b \in BOOLEAN : r = [h |-> g, locked |-> b]
          BY DEF LockStatus
        <4>2. \A g \in Failed(Handle(f)) : g.e
          BY FailedWorse, HandleType
        <4> QED BY <3>1, <4>1, <4>2
      <3>3. falseNo < Glitches - left
        BY <2>2, <3>2
      <3>4. pc'[f] = "band"
        BY <2>1, <3>1 DEF To, TypeOK
      <3> QED BY <1>0, <3>1, <3>3, <3>4
    <2> QED BY <2>3, <2>4
  <1>5. ASSUME NEW f \in Frontends, StatusNoLock(f)
        PROVE  GlitchCostsOneReading' /\ Charged'
    BY <1>1, <1>5, StatusChip DEF StatusNoLock, status
  <1>6. ASSUME NEW f \in Frontends, Continues(f), ~StatusNoLock(f)
        PROVE  GlitchCostsOneReading' /\ Charged'
    <2>1. falseNo' = falseNo
      BY <1>6 DEF Continues, Setup, Search, StartSearch, GetDemodLock, Params, FecLock,
                  NoFecLock, SearchResult, SearchLost, AfterSearch, StatusLock, Short,
                  SendBegin, SendByte, SendEnd, Sleep, status
    <2>2. pc[f] # "band"
      BY <1>6 DEF Continues, Setup, Search, StartSearch, GetDemodLock, Params, FecLock,
                  NoFecLock, SearchResult, SearchLost, AfterSearch, StatusLock, Short,
                  SendBegin, SendByte, SendEnd, Sleep, In
    <2>3. \E s : pc' = [pc EXCEPT ![f] = s]
      <3>1. CASE Inside(f)
        <4>1. CASE Wait(f)
          BY <4>1 DEF Wait, TypeOK
        <4> QED BY <3>1, <4>1 DEF Inside, Return, To
      <3>2. CASE Sleep(f)
        BY <3>2 DEF Sleep, To
      <3> QED BY <1>6, <3>1, <3>2, SectionSteps
    <2> QED BY <1>1, <2>1, <2>2, <2>3 DEF TypeOK
  <1> QED BY <1>2, <1>3, <1>4, <1>5, <1>6 DEF Next

THEOREM Invariant == Spec => []IInv
  <1>1. IInv /\ [Next]_vars => IInv'
    BY TypeStep, OwnedStep, CachedStep, ChargedStep DEF IInv
  <1> QED BY <1>1, InitInvariant, PTL DEF Spec

-----------------------------------------------------------------------------
(* Every variable of the driver keeps its type.                            *)
THEOREM StidTypeCorrect == Spec => []TypeOK
  <1>1. IInv => TypeOK
    BY DEF IInv
  <1> QED BY <1>1, Invariant, PTL

(* A frontend of stid135-fe.c that has passed mutex_lock owns the lock of  *)
(* the base until it unlocks, also around the waits of GetDemodLock.       *)
THEOREM OwnedTheorem == Spec => []SectionOwned
  <1>1. IInv => SectionOwned
    BY DEF IInv
  <1> QED BY <1>1, Invariant, PTL

(* What stid135_read_status answers while the chip is busy was read since  *)
(* the last tune began.                                                    *)
THEOREM CachedTheorem == Spec => []CachedLockIsTrue
  <1>1. IInv => CachedLockIsTrue
    BY DEF IInv
  <1> QED BY <1>1, Invariant, PTL

(* For every failing transfer at most one reading of a frontend's status   *)
(* misses a lock through the sticky Error.                                 *)
THEOREM GlitchTheorem == Spec => []GlitchCostsOneReading
  <1>1. IInv => GlitchCostsOneReading
    BY DEF IInv
  <1> QED BY <1>1, Invariant, PTL
=============================================================================
