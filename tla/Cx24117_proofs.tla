--------------------------- MODULE Cx24117_proofs ---------------------------
(***************************************************************************)
(* The safety properties of Cx24117, proved for any number of demodulators *)
(* and commands, failing transfers and readings.                           *)
(***************************************************************************)
EXTENDS Cx24117, TLAPS

USE NoOneAssumption, GlitchesAssumption, PollsAssumption, RetunesAssumption,
    InitAssumption, LoadAssumption

(***************************************************************************)
(* What the types need.                                                    *)
(***************************************************************************)
LEMMA CommandTyped ==
    ASSUME TypeOK, NEW d \in Demods
    PROVE  /\ Command(d) \in Commands
           /\ Command(d).of = d
           /\ Command(d).do \in {"other", call[d]}
  BY DEF TypeOK, Command, Commands

LEMMA ReturnTyped ==
    ASSUME TypeOK, NEW d \in Demods, NEW ok \in BOOLEAN, Return(d, ok)
    PROVE  /\ fe_lock' \in Demods \cup {NoOne} /\ skip_fw_load' \in BOOLEAN
           /\ call' \in [Demods -> Modes \cup {"other"}]
           /\ pc' \in [Demods -> {"idle", "lock", "check", "load", "upload",
                                  "write", "start", "poll"}]
           /\ todo' \in [Demods -> Nat] /\ setup' \in [Demods -> 0..LoadRest]
           /\ i' \in [Demods -> 0..Polls]
           /\ fine' \in [Demods -> BOOLEAN]
           /\ due' \in [Demods -> Modes \cup {"any"}]
  <1>1. due' \in [Demods -> Modes \cup {"any"}]
    BY DEF TypeOK, Return
  <1>2. 0 \in Nat /\ 0 \in 0..LoadRest /\ 0 \in 0..Polls
    OBVIOUS
  <1> QED BY <1>1, <1>2 DEF TypeOK, Return, Goto

LEMMA GlitchTyped ==
    ASSUME TypeOK, Glitch \/ NoGlitch PROVE left' \in 0..Glitches
  BY DEF TypeOK, Glitch, NoGlitch

LEMMA SpoilTyped ==
    ASSUME TypeOK, NEW d \in Demods, NEW bad, Spoil(d, bad)
    PROVE  fine' \in [Demods -> BOOLEAN]
  BY DEF TypeOK, Spoil

THEOREM Typed == TypeOK /\ [Next]_vars => TypeOK'
  <1> SUFFICES ASSUME TypeOK, [Next]_vars PROVE TypeOK'
    OBVIOUS
  <1>1. CASE UNCHANGED vars
    BY <1>1 DEF TypeOK, vars, chip, priv, steps
  <1>2. CASE Take
    BY <1>2 DEF TypeOK, Take, priv, steps
  <1>3. CASE Do
    <2>1. mode' \in [Demods -> Modes \cup {"reset"}]
      BY <1>3 DEF TypeOK, Do, Commands
    <2> QED BY <1>3, <2>1 DEF TypeOK, Do, priv, steps
  <1>4. ASSUME NEW d \in Demods, Call(d) PROVE TypeOK'
    <2>1. PICK c \in Modes \cup {"other"}, n \in Nat : Begin(d, c, n)
      BY <1>4 DEF Call, initfe, set_frontend, sleep, other, Modes
    <2>2. due' \in [Demods -> Modes \cup {"any"}]
      BY <2>1 DEF Begin, TypeOK
    <2> QED BY <2>1, <2>2 DEF Begin, TypeOK, Goto, chip, priv
  <1>5. ASSUME NEW d \in Demods, Lock(d) PROVE TypeOK'
    BY <1>5 DEF Lock, TypeOK, Goto, chip
  <1>6. ASSUME NEW d \in Demods, firmware_ondemand(d) PROVE TypeOK'
    <2>1. left' \in 0..Glitches
      BY <1>6, GlitchTyped DEF firmware_ondemand
    <2>2. CASE Fail(d)
      BY <1>6, <2>1, <2>2, ReturnTyped DEF firmware_ondemand, TypeOK, Fail, chip
    <2>3. CASE ~Fail(d)
      BY <1>6, <2>1, <2>3 DEF firmware_ondemand, TypeOK, Goto, chip, priv
    <2> QED BY <2>2, <2>3
  <1>7. ASSUME NEW d \in Demods, load_firmware(d) PROVE TypeOK'
    <2>1. left' \in 0..Glitches
      BY <1>7, GlitchTyped DEF load_firmware
    <2>2. fine' \in [Demods -> BOOLEAN]
      BY <1>7, SpoilTyped DEF load_firmware, Reset
    <2>3. flag' \in BOOLEAN /\ running' \in BOOLEAN /\ execute' \in BOOLEAN
      BY <1>7 DEF load_firmware, Reset
    <2>4. /\ mode' \in [Demods -> Modes \cup {"reset"}]
          /\ due' \in [Demods -> Modes \cup {"any"}]
          /\ loads' \in Nat /\ doing' \in Commands \cup {NoOne}
      BY <1>7 DEF load_firmware, Reset, TypeOK
    <2> QED BY <1>7, <2>1, <2>2, <2>3, <2>4 DEF load_firmware, Reset, TypeOK, Goto, priv
  <1>8. ASSUME NEW d \in Demods, Upload(d) PROVE TypeOK'
    <2>1. left' \in 0..Glitches
      BY <1>8, GlitchTyped DEF Upload
    <2>4. running' \in BOOLEAN
      BY <1>8 DEF Upload, TypeOK
    <2>2. CASE Fail(d) /\ UNCHANGED running
      BY <1>8, <2>1, <2>2, <2>4, ReturnTyped DEF Upload, TypeOK, Fail
    <2>3. CASE ~(Fail(d) /\ UNCHANGED running)
      BY <1>8, <2>1, <2>3, <2>4 DEF Upload, TypeOK, Goto, priv
    <2> QED BY <2>2, <2>3
  <1>9. ASSUME NEW d \in Demods, writecmd(d) PROVE TypeOK'
    <2>1. left' \in 0..Glitches
      BY <1>9, GlitchTyped DEF writecmd
    <2>2. fine' \in [Demods -> BOOLEAN]
      BY <1>9, SpoilTyped DEF writecmd
    <2>3. args' \in Commands
      BY <1>9, CommandTyped DEF writecmd, TypeOK
    <2> QED BY <1>9, <2>1, <2>2, <2>3 DEF writecmd, TypeOK, Goto, priv
  <1>10. ASSUME NEW d \in Demods, Execute(d) PROVE TypeOK'
    <2>1. left' \in 0..Glitches
      BY <1>10, GlitchTyped DEF Execute
    <2>2. fine' \in [Demods -> BOOLEAN]
      BY <1>10, SpoilTyped DEF Execute, TypeOK
    <2>3. execute' \in BOOLEAN
      BY <1>10 DEF Execute, TypeOK
    <2> QED BY <1>10, <2>1, <2>2, <2>3 DEF Execute, TypeOK, Goto, priv
  <1>11. ASSUME NEW d \in Demods, Poll(d) PROVE TypeOK'
    <2>1. left' \in 0..Glitches
      BY <1>11, GlitchTyped DEF Poll
    <2>2. CASE Return(d, TRUE) \/ Fail(d)
      BY <1>11, <2>1, <2>2, ReturnTyped DEF Poll, TypeOK, Fail, chip
    <2>3. CASE Loading(d)
      <3>1. skip_fw_load' \in BOOLEAN
        BY <2>3 DEF Loading, TypeOK
      <3> QED BY <1>11, <2>1, <2>3, <3>1 DEF Poll, Loading, TypeOK, Goto, chip
    <2>5. CASE Again(d)
      BY <1>11, <2>1, <2>5 DEF Poll, Again, TypeOK, Goto, chip
    <2>4. CASE i[d] < Polls /\ i' = [i EXCEPT ![d] = @ + 1]
               /\ UNCHANGED <<priv, pc, todo, setup, call, fine, due>>
      BY <1>11, <2>1, <2>4 DEF Poll, TypeOK, chip, priv
    <2> QED BY <1>11, <2>2, <2>3, <2>4, <2>5 DEF Poll, Done
  <1> QED BY <1>1, <1>2, <1>3, <1>4, <1>5, <1>6, <1>7, <1>8, <1>9, <1>10, <1>11
          DEF Next, cmd_execute_nolock

(***************************************************************************)
(* Who holds the lock, and the firmware clears EXECUTE when it is done.    *)
(***************************************************************************)
Busy(d) == pc[d] \in {"check", "load", "upload", "write", "start", "poll"}

Locked == /\ \A d \in Demods : Busy(d) => fe_lock = d
          /\ doing # NoOne => execute

THEOREM LockedKept == TypeOK /\ Locked /\ [Next]_vars => Locked'
  <1> SUFFICES ASSUME TypeOK, Locked, [Next]_vars PROVE Locked'
    OBVIOUS
  <1>1. CASE UNCHANGED vars \/ Take \/ Do
    BY <1>1 DEF Locked, Busy, vars, chip, priv, steps, Take, Do
  <1>2. ASSUME NEW d \in Demods, Call(d) PROVE Locked'
    <2>1. PICK c, n : Begin(d, c, n)
      BY <1>2 DEF Call, initfe, set_frontend, sleep, other
    <2> QED BY <2>1 DEF Begin, Locked, Busy, Goto, TypeOK, chip, priv
  <1>3. ASSUME NEW d \in Demods, Lock(d) PROVE Locked'
    BY <1>3 DEF Lock, Locked, Busy, Goto, TypeOK, chip
  <1>4. ASSUME NEW d \in Demods, cmd_execute_nolock(d) PROVE Locked'
    <2>1. Busy(d)
      BY <1>4 DEF Busy, cmd_execute_nolock, firmware_ondemand, load_firmware,
                  Upload, writecmd, Execute, Poll
    <2>2. \A e \in Demods \ {d} : ~Busy(e) /\ pc'[e] = pc[e]
      <3>1. \A e \in Demods \ {d} : ~Busy(e)
        BY <2>1 DEF Locked
      <3>2. \/ UNCHANGED pc
            \/ \E l : Goto(d, l)
        BY <1>4 DEF cmd_execute_nolock, firmware_ondemand, load_firmware, Upload, Reset,
             writecmd, Execute, Poll, Done, Loading, Again, Return, Fail
      <3> QED BY <3>1, <3>2 DEF Goto, TypeOK
    <2>3. fe_lock' = fe_lock \/ Goto(d, "idle") \/ Goto(d, "lock")
      BY <1>4 DEF cmd_execute_nolock, firmware_ondemand, Upload, load_firmware,
           writecmd, Execute, Poll, Done, Loading, Again, Return, Fail, priv
    <2>5. Busy(d)' => fe_lock' = d
      BY <2>1, <2>3 DEF Locked, Busy, Goto, TypeOK
    <2>4. doing' # NoOne => execute'
      BY <1>4 DEF Locked, cmd_execute_nolock, firmware_ondemand, Upload,
           load_firmware, Reset, writecmd, Execute, Poll, chip
    <2> QED BY <2>2, <2>4, <2>5 DEF Locked, Busy
  <1> QED BY <1>1, <1>2, <1>3, <1>4 DEF Next

(***************************************************************************)
(* Every loading is charged to a transfer, but the first.  A loading is    *)
(* owed while 0xeb does not say that the firmware runs, and from the check *)
(* that failed to the reset.                                               *)
(***************************************************************************)
Owed == ~flag \/ \E d \in Demods : pc[d] = "load"

Charged == loads + (IF Owed THEN 1 ELSE 0) <= 1 + (Glitches - left)

LEMMA GlitchCosts ==
    ASSUME TypeOK
    PROVE  /\ left \in Nat /\ left <= Glitches /\ loads \in Nat
           /\ Glitch => left' = left - 1 /\ left' \in Nat
           /\ NoGlitch => left' = left
  BY DEF TypeOK, Glitch, NoGlitch

THEOREM ChargedKept ==
    TypeOK /\ Locked /\ Charged /\ [Next]_vars => Charged'
  <1> SUFFICES ASSUME TypeOK, Locked, Charged, [Next]_vars PROVE Charged'
    OBVIOUS
  <1> USE GlitchCosts
  <1>1. CASE UNCHANGED vars \/ Take \/ Do
    BY <1>1 DEF Charged, Owed, vars, chip, priv, steps, Take, Do
  <1>2. ASSUME NEW d \in Demods, Call(d) PROVE Charged'
    <2>1. PICK c, n : Begin(d, c, n)
      BY <1>2 DEF Call, initfe, set_frontend, sleep, other
    <2>2. Owed' <=> Owed
      BY <2>1 DEF Begin, Owed, Goto, TypeOK, chip
    <2> QED BY <2>1, <2>2 DEF Begin, Charged
  <1>3. ASSUME NEW d \in Demods, Lock(d) PROVE Charged'
    <2>1. Owed' <=> Owed
      BY <1>3 DEF Lock, Owed, Goto, TypeOK, chip
    <2> QED BY <1>3, <2>1 DEF Lock, Charged
  <1>4. ASSUME NEW d \in Demods, firmware_ondemand(d) PROVE Charged'
    <2>1. flag' = flag /\ loads' = loads /\ (Glitch \/ NoGlitch)
      BY <1>4 DEF firmware_ondemand, chip
    <2>2. CASE Glitch
      BY <2>1, <2>2 DEF Charged
    <2>3. CASE ~Glitch
      <3>1. Owed' => Owed
        BY <1>4, <2>1, <2>3 DEF firmware_ondemand, Owed, Goto, TypeOK, Fail, Return
      <3> QED BY <2>1, <2>3, <3>1 DEF Charged
    <2> QED BY <2>2, <2>3
  <1>5. ASSUME NEW d \in Demods, load_firmware(d) PROVE Charged'
    <2>1. Owed
      BY <1>5 DEF load_firmware, Owed
    <2>2. Owed' => ~flag'
      <3>1. \A e \in Demods : pc'[e] # "load"
        BY <1>5 DEF load_firmware, Reset, Goto, TypeOK, Locked, Busy
      <3> QED BY <3>1 DEF Owed
    <2> QED BY <1>5, <2>1, <2>2 DEF load_firmware, Reset, Charged
  <1>6. ASSUME NEW d \in Demods,
               Upload(d) \/ writecmd(d) \/ Execute(d) \/ Poll(d)
        PROVE  Charged'
    <2>1. flag' = flag /\ loads' = loads /\ (Glitch \/ NoGlitch)
      BY <1>6 DEF Upload, writecmd, Execute, Poll, chip
    <2>2. \/ UNCHANGED pc
          \/ \E l \in {"idle", "lock", "check", "write", "start", "poll"} : Goto(d, l)
      BY <1>6 DEF Upload, writecmd, Execute, Poll, Done, Loading, Again, Return, Fail
    <2>3. Owed' => Owed
      BY <2>1, <2>2 DEF Owed, Goto, TypeOK
    <2> QED BY <2>1, <2>3 DEF Charged
  <1> QED BY <1>1, <1>2, <1>3, <1>4, <1>5, <1>6 DEF Next, cmd_execute_nolock

(***************************************************************************)
(* The modes.  A mode is sure that is due, or that an init has set with    *)
(* its first command; no command that may still be done takes it back      *)
(* (Kept).  A command that is fine is the one in the registers when        *)
(* EXECUTE is set (Given), and when EXECUTE is clear again it has been     *)
(* done (Waits).                                                           *)
(***************************************************************************)
Past(d) == call[d] = "wake" /\ todo[d] <= InitRest

Sure(d, m) == due[d] = m \/ (Past(d) /\ fine[d] /\ m = "wake")

Harmless(c, d, m) == c # NoOne /\ c.of = d => c.do \in {"other", m}

During(d) == /\ call[d] # "other" => due[d] = "any"
             /\ Past(d) => Busy(d)

Kept(d) == \A m \in Modes :
             Sure(d, m) => /\ mode[d] = m
                           /\ Harmless(args, d, m)
                           /\ Harmless(doing, d, m)

Given(d) == pc[d] = "start" /\ fine[d] =>
              args = Command(d) /\ ~execute /\ doing = NoOne

Waits(d) == pc[d] = "poll" /\ fine[d] =>
              /\ args = Command(d)
              /\ execute => doing \in {NoOne, args}
              /\ ~execute => Command(d).do \in {"other", mode[d]}

Sound(d) == During(d) /\ Kept(d) /\ Given(d) /\ Waits(d)

Steps(d) == Call(d) \/ Lock(d) \/ cmd_execute_nolock(d)

(* A frontend changes nothing of the other's call, but what the loading    *)
(* takes from all of them.                                                 *)
LEMMA OthersCall ==
    ASSUME TypeOK, NEW d \in Demods, Steps(d), NEW e \in Demods, e # d
    PROVE  /\ pc'[e] = pc[e] /\ todo'[e] = todo[e] /\ setup'[e] = setup[e]
           /\ call'[e] = call[e] /\ fine'[e] = fine[e]
           /\ due'[e] = due[e] \/ due'[e] = "any"
  <1> DEFINE Same == /\ pc'[e] = pc[e] /\ todo'[e] = todo[e] /\ setup'[e] = setup[e]
                     /\ call'[e] = call[e] /\ fine'[e] = fine[e]
                     /\ due'[e] = due[e] \/ due'[e] = "any"
  <1>1. ASSUME NEW ok, Return(d, ok) PROVE Same
    BY <1>1 DEF Return, Goto, TypeOK
  <1>2. ASSUME Call(d) PROVE Same
    <2>1. PICK c, n : Begin(d, c, n)
      BY <1>2 DEF Call, initfe, set_frontend, sleep, other
    <2> QED BY <2>1 DEF Begin, Goto, TypeOK
  <1>3. ASSUME Lock(d) PROVE Same
    BY <1>3 DEF Lock, Goto, TypeOK
  <1>4. ASSUME firmware_ondemand(d) PROVE Same
    BY <1>1, <1>4 DEF firmware_ondemand, Goto, TypeOK, Fail, priv
  <1>5. ASSUME load_firmware(d) PROVE Same
    BY <1>5 DEF load_firmware, Reset, Spoil, Goto, TypeOK
  <1>6. ASSUME Upload(d) PROVE Same
    BY <1>1, <1>6 DEF Upload, Goto, TypeOK, Fail
  <1>7. ASSUME writecmd(d) \/ Execute(d) PROVE Same
    BY <1>7 DEF writecmd, Execute, Spoil, Goto, TypeOK
  <1>8. ASSUME Loading(d) \/ Again(d) PROVE Same
    BY <1>8 DEF Loading, Again, Goto, TypeOK
  <1>9. ASSUME Poll(d) PROVE Same
    BY <1>1, <1>8, <1>9 DEF Poll, Done, Fail
  <1> QED BY <1>2, <1>3, <1>4, <1>5, <1>6, <1>7, <1>9 DEF Steps, cmd_execute_nolock

LEMMA OthersSound ==
    ASSUME TypeOK, Locked, NEW d \in Demods, Steps(d),
           NEW e \in Demods, e # d, Sound(e)
    PROVE  Sound(e)'
  <1>1. /\ pc'[e] = pc[e] /\ todo'[e] = todo[e] /\ setup'[e] = setup[e]
        /\ call'[e] = call[e] /\ fine'[e] = fine[e]
        /\ due'[e] = due[e] \/ due'[e] = "any"
    BY OthersCall
  <1>2. During(e)'
    BY <1>1 DEF Sound, During, Past, Busy
  <1>3. Command(e)' = Command(e)
    BY <1>1 DEF Command
  <1>4. CASE Call(d) \/ Lock(d)
    <2>1. UNCHANGED chip
      <3>1. CASE Lock(d)
        BY <3>1 DEF Lock
      <3>2. CASE Call(d)
        BY <3>2 DEF Call, initfe, set_frontend, sleep, other, Begin
      <3> QED BY <1>4, <3>1, <3>2
    <2>2. \A m \in Modes : Sure(e, m)' => Sure(e, m)
      BY <1>1 DEF Sure, Past, Modes
    <2>3. Kept(e)'
      BY <2>1, <2>2 DEF chip, Sound, Kept, Harmless
    <2>4. Given(e)' /\ Waits(e)'
      BY <1>1, <1>3, <2>1 DEF chip, Sound, Given, Waits
    <2> QED BY <1>2, <2>3, <2>4 DEF Sound
  <1>5. CASE cmd_execute_nolock(d)
    <2>1. ~Busy(e)
      BY <1>5 DEF Locked, Busy, cmd_execute_nolock, firmware_ondemand, load_firmware,
                  Upload, writecmd, Execute, Poll
    <2>2. Given(e)' /\ Waits(e)'
      BY <1>1, <2>1 DEF Busy, Given, Waits
    <2>3. \A m \in Modes : Sure(e, m)' => due'[e] = m /\ Sure(e, m)
      BY <1>1, <2>1 DEF Sound, During, Sure, Past, Modes
    <2>4. ASSUME load_firmware(d) PROVE Kept(e)'
      <3>1. due'[e] = "any"
        BY <2>4 DEF load_firmware, Reset
      <3>2. \A m \in Modes : ~Sure(e, m)'
        BY <2>3, <3>1 DEF Modes
      <3> QED BY <3>2 DEF Kept, Modes
    <2>5. ASSUME ~load_firmware(d) PROVE Kept(e)'
      <3>1. mode' = mode /\ doing' = doing
        BY <1>5, <2>5 DEF cmd_execute_nolock, firmware_ondemand, Upload, writecmd,
                          Execute, Poll, chip
      <3>2. args' = args \/ args' = Command(d)
        BY <1>5, <2>5 DEF cmd_execute_nolock, firmware_ondemand, Upload, writecmd,
                          Execute, Poll, chip
      <3>3. Command(d).of # e
        BY CommandTyped
      <3>4. Command(d) # NoOne
        BY CommandTyped
      <3>5. ASSUME NEW m \in Modes, Sure(e, m)' PROVE mode'[e] = m /\ Harmless(args', e, m) /\ Harmless(doing', e, m)
        <4>1. mode[e] = m /\ Harmless(args, e, m) /\ Harmless(doing, e, m)
          BY <2>3, <3>5 DEF Sound, Kept
        <4>2. Harmless(Command(d), e, m)
          BY <3>3 DEF Harmless
        <4> QED BY <3>1, <3>2, <4>1, <4>2
      <3>6. \A m \in Modes : Harmless(args, e, m)' <=> Harmless(args', e, m)
        BY DEF Harmless
      <3>7. \A m \in Modes : Harmless(doing, e, m)' <=> Harmless(doing', e, m)
        BY DEF Harmless
      <3> QED BY <3>5, <3>6, <3>7 DEF Kept, Modes
    <2>6. Kept(e)'
      BY <2>4, <2>5
    <2> QED BY <1>2, <2>2, <2>6 DEF Sound
  <1> QED BY <1>4, <1>5 DEF Steps

(* A step of the driver that disturbs nothing in the chip, and after which *)
(* no more is sure.                                                        *)
LEMMA QuietKept ==
    ASSUME NEW d \in Demods, Kept(d), UNCHANGED <<args, doing, mode>>,
           \A m \in Modes : Sure(d, m)' => Sure(d, m)
    PROVE  Kept(d)'
  <1>1. ASSUME NEW m \in Modes, Sure(d, m)'
        PROVE  (mode[d] = m /\ Harmless(args, d, m) /\ Harmless(doing, d, m))'
    <2>1. mode[d] = m /\ Harmless(args, d, m) /\ Harmless(doing, d, m)
      BY <1>1 DEF Kept
    <2> QED BY <2>1 DEF Harmless
  <1> QED BY <1>1 DEF Kept, Modes

(* When the command of a fine call has been done, the mode is there.       *)
Settled(d) == /\ mode[d] = call[d]
              /\ Harmless(args, d, call[d])
              /\ Harmless(doing, d, call[d])

LEMMA DoneSettled ==
    ASSUME TypeOK, Locked, NEW d \in Demods, Sound(d), pc[d] = "poll", fine[d],
           ~execute, setup[d] = 0, call[d] # "other"
    PROVE  Settled(d)
  <1>1. doing = NoOne
    BY DEF Locked
  <1>2. CASE Past(d)
    BY <1>2 DEF Sound, Kept, Sure, Settled, Past, Modes
  <1>3. CASE ~Past(d)
    <2>1. Command(d).do = call[d]
      BY <1>3 DEF Command, Past
    <2>2. args = Command(d) /\ mode[d] = call[d]
      BY <2>1 DEF Sound, Waits
    <2> QED BY <1>1, <2>1, <2>2 DEF Settled, Harmless
  <1> QED BY <1>2, <1>3

LEMMA ReturnSound ==
    ASSUME TypeOK, NEW d \in Demods, NEW ok \in BOOLEAN, Return(d, ok), Sound(d),
           UNCHANGED <<args, doing, mode>>,
           ok /\ fine[d] /\ call[d] # "other" => Settled(d)
    PROVE  Sound(d)'
  <1>1. /\ pc'[d] = "idle" /\ call'[d] = "other"
        /\ due'[d] = IF call[d] = "other" THEN due[d]
                     ELSE IF ok /\ fine[d] THEN call[d] ELSE "any"
    BY DEF Return, Goto, TypeOK
  <1>2. During(d)' /\ Given(d)' /\ Waits(d)'
    BY <1>1 DEF During, Past, Given, Waits
  <1>3. CASE due'[d] \in {due[d], "any"}
    <2>1. \A m \in Modes : Sure(d, m)' => Sure(d, m)
      BY <1>1, <1>3 DEF Sure, Past, Modes
    <2> QED BY <1>2, <2>1, QuietKept DEF Sound
  <1>4. CASE due'[d] \notin {due[d], "any"}
    <2>1. ok /\ fine[d] /\ call[d] # "other" /\ due'[d] = call[d]
      BY <1>1, <1>4
    <2>2. Settled(d)
      BY <2>1
    <2>3. ASSUME NEW m \in Modes, Sure(d, m)'
          PROVE  (mode[d] = m /\ Harmless(args, d, m) /\ Harmless(doing, d, m))'
      <3>1. m = call[d]
        BY <1>1, <2>1, <2>3 DEF Sure, Past
      <3> QED BY <2>2, <3>1 DEF Settled, Harmless
    <2>4. Kept(d)'
      BY <2>3 DEF Kept, Modes
    <2> QED BY <1>2, <2>4 DEF Sound
  <1> QED BY <1>3, <1>4

(* The frontend's own steps.                                               *)
LEMMA CallSound ==
    ASSUME TypeOK, NEW d \in Demods, Sound(d), Call(d) PROVE Sound(d)'
  <1>1. PICK c \in Modes \cup {"other"}, n \in Nat :
          Begin(d, c, n) /\ (c = "wake" => n = InitRest + 1)
    BY DEF Call, initfe, set_frontend, sleep, other, Modes
  <1>2. /\ pc'[d] = "lock" /\ call'[d] = c /\ todo'[d] = n /\ fine'[d] = fine[d]
        /\ due'[d] = IF c = "other" THEN due[d] ELSE "any"
        /\ UNCHANGED <<args, doing, mode>>
    BY <1>1 DEF Begin, Goto, TypeOK, chip
  <1>3. ~Past(d)'
    BY <1>1, <1>2 DEF Past
  <1>4. During(d)' /\ Given(d)' /\ Waits(d)'
    BY <1>2, <1>3 DEF During, Given, Waits
  <1>5. \A m \in Modes : Sure(d, m)' => Sure(d, m)
    BY <1>2, <1>3 DEF Sure, Modes
  <1> QED BY <1>2, <1>4, <1>5, QuietKept DEF Sound

LEMMA LockSound ==
    ASSUME TypeOK, NEW d \in Demods, Sound(d), Lock(d) PROVE Sound(d)'
  <1>1. /\ pc'[d] = "check" /\ UNCHANGED <<args, doing, mode, call, todo, fine, due>>
    BY DEF Lock, Goto, TypeOK, chip
  <1>2. During(d)' /\ Given(d)' /\ Waits(d)'
    BY <1>1 DEF Sound, During, Past, Busy, Given, Waits
  <1>3. \A m \in Modes : Sure(d, m)' => Sure(d, m)
    BY <1>1 DEF Sure, Past
  <1> QED BY <1>1, <1>2, <1>3, QuietKept DEF Sound

LEMMA OndemandSound ==
    ASSUME TypeOK, NEW d \in Demods, Sound(d), firmware_ondemand(d) PROVE Sound(d)'
  <1>1. UNCHANGED <<args, doing, mode>>
    BY DEF firmware_ondemand, chip
  <1>2. CASE Fail(d)
    BY <1>1, <1>2, ReturnSound DEF Fail
  <1>3. CASE ~Fail(d)
    <2>1. pc'[d] \in {"write", "load"} /\ UNCHANGED <<call, todo, fine, due>>
      BY <1>3 DEF firmware_ondemand, Goto, TypeOK, chip
    <2>2. During(d)' /\ Given(d)' /\ Waits(d)'
      BY <2>1 DEF Sound, During, Past, Busy, Given, Waits
    <2>3. \A m \in Modes : Sure(d, m)' => Sure(d, m)
      BY <2>1 DEF Sure, Past
    <2> QED BY <1>1, <2>2, <2>3, QuietKept DEF Sound
  <1> QED BY <1>2, <1>3

LEMMA LoadSound ==
    ASSUME TypeOK, NEW d \in Demods, Sound(d), load_firmware(d) PROVE Sound(d)'
  <1>1. /\ pc'[d] = "upload" /\ due'[d] = "any" /\ UNCHANGED <<call, todo>>
        /\ fine'[d] => ~Past(d)
    BY DEF load_firmware, Reset, Spoil, Past, Goto, TypeOK
  <1>2. During(d)' /\ Given(d)' /\ Waits(d)'
    BY <1>1 DEF Sound, During, Past, Busy, Given, Waits
  <1>3. \A m \in Modes : ~Sure(d, m)'
    BY <1>1 DEF Sure, Past, Modes
  <1> QED BY <1>2, <1>3 DEF Sound, Kept, Modes

LEMMA UploadSound ==
    ASSUME TypeOK, NEW d \in Demods, Sound(d), Upload(d) PROVE Sound(d)'
  <1>1. UNCHANGED <<args, doing, mode>>
    BY DEF Upload
  <1>2. CASE Fail(d)
    BY <1>1, <1>2, ReturnSound DEF Fail
  <1>3. CASE ~Fail(d)
    <2>1. pc'[d] = "check" /\ UNCHANGED <<call, todo, fine, due>>
      BY <1>3 DEF Upload, Goto, TypeOK
    <2>2. During(d)' /\ Given(d)' /\ Waits(d)'
      BY <2>1 DEF Sound, During, Past, Busy, Given, Waits
    <2>3. \A m \in Modes : Sure(d, m)' => Sure(d, m)
      BY <2>1 DEF Sure, Past
    <2> QED BY <1>1, <2>2, <2>3, QuietKept DEF Sound
  <1> QED BY <1>2, <1>3

LEMMA WriteSound ==
    ASSUME TypeOK, NEW d \in Demods, Sound(d), writecmd(d) PROVE Sound(d)'
  <1>1. /\ pc'[d] = "start" /\ UNCHANGED <<call, todo, setup, due, doing, mode, execute>>
        /\ fine'[d] => fine[d] /\ ~execute /\ doing = NoOne
        /\ args' = args \/ args' = Command(d)
        /\ fine'[d] => args' = Command(d)
    BY DEF writecmd, Spoil, Goto, TypeOK
  <1>2. Command(d)' = Command(d)
    BY <1>1 DEF Command
  <1>3. During(d)' /\ Given(d)' /\ Waits(d)'
    BY <1>1, <1>2 DEF Sound, During, Past, Busy, Given, Waits
  <1>4. ASSUME NEW m \in Modes, Sure(d, m)'
        PROVE  (mode[d] = m /\ Harmless(args, d, m) /\ Harmless(doing, d, m))'
    <2>1. Sure(d, m)
      BY <1>1, <1>4 DEF Sure, Past
    <2>2. mode[d] = m /\ Harmless(args, d, m) /\ Harmless(doing, d, m)
      BY <2>1 DEF Sound, Kept
    <2>3. Command(d).do = "other"
      <3>1. CASE Past(d)
        BY <3>1 DEF Command, Past
      <3>2. CASE ~Past(d)
        <4>1. due[d] # "any"
          BY <2>1, <3>2 DEF Sure, Modes
        <4> QED BY <4>1, CommandTyped DEF Sound, During
      <3> QED BY <3>1, <3>2
    <2> QED BY <1>1, <2>2, <2>3 DEF Harmless
  <1> QED BY <1>3, <1>4 DEF Sound, Kept, Modes

LEMMA ExecuteSound ==
    ASSUME TypeOK, NEW d \in Demods, Sound(d), Execute(d) PROVE Sound(d)'
  <1>1. /\ pc'[d] = "poll" /\ UNCHANGED <<call, todo, setup, due, args, doing, mode>>
        /\ fine'[d] => fine[d] /\ execute'
    BY DEF Execute, Spoil, Goto, TypeOK
  <1>2. Command(d)' = Command(d)
    BY <1>1 DEF Command
  <1>3. pc[d] = "start"
    BY DEF Execute
  <1>4. During(d)' /\ Given(d)' /\ Waits(d)'
    BY <1>1, <1>2, <1>3 DEF Sound, During, Past, Busy, Given, Waits
  <1>5. \A m \in Modes : Sure(d, m)' => Sure(d, m)
    BY <1>1 DEF Sure, Past
  <1> QED BY <1>1, <1>4, <1>5, QuietKept DEF Sound

LEMMA PollSound ==
    ASSUME TypeOK, Locked, NEW d \in Demods, Sound(d), Poll(d) PROVE Sound(d)'
  <1>1. pc[d] = "poll" /\ UNCHANGED chip
    BY DEF Poll
  <1>2. UNCHANGED <<args, execute, doing, mode>>
    BY <1>1 DEF chip
  <1>3. CASE Fail(d)
    BY <1>2, <1>3, ReturnSound DEF Fail
  <1>4. CASE UNCHANGED <<priv, pc, todo, setup, call, fine, due>>
    <2>1. Command(d)' = Command(d)
      BY <1>4 DEF Command
    <2>2. During(d)' /\ Given(d)' /\ Waits(d)'
      BY <1>2, <1>4, <2>1 DEF Sound, During, Past, Busy, Given, Waits
    <2>3. \A m \in Modes : Sure(d, m)' => Sure(d, m)
      BY <1>4 DEF Sure, Past
    <2> QED BY <1>2, <2>2, <2>3, QuietKept DEF Sound
  <1>5. CASE ~execute /\ setup[d] = 0 /\ Return(d, TRUE)
    BY <1>1, <1>2, <1>5, DoneSettled, ReturnSound
  <1>6. CASE Loading(d)
    <2>1. pc'[d] \in {"write", "check"} /\ UNCHANGED <<todo, call, fine, due>>
      BY <1>6 DEF Loading, Goto, TypeOK
    <2>2. During(d)' /\ Given(d)' /\ Waits(d)'
      BY <2>1 DEF Sound, During, Past, Busy, Given, Waits
    <2>3. \A m \in Modes : Sure(d, m)' => Sure(d, m)
      BY <2>1 DEF Sure, Past
    <2> QED BY <1>2, <2>2, <2>3, QuietKept DEF Sound
  <1>7. CASE ~execute /\ Again(d)
    <2>1. /\ pc'[d] = (IF call[d] = "wake" THEN "check" ELSE "lock")
          /\ todo[d] \in Nat /\ todo'[d] = todo[d] - 1 /\ setup[d] = 0
          /\ UNCHANGED <<call, fine, due>>
      BY <1>7 DEF Again, Goto, TypeOK
    <2>2. During(d)' /\ Given(d)' /\ Waits(d)'
      BY <2>1 DEF Sound, During, Past, Busy, Given, Waits
    <2>3. CASE fine[d] /\ call[d] = "wake"
      <3>1. Settled(d)
        BY <1>1, <1>7, <2>1, <2>3, DoneSettled
      <3>2. due[d] = "any"
        BY <2>3 DEF Sound, During
      <3>3. ASSUME NEW m \in Modes, Sure(d, m)'
            PROVE  (mode[d] = m /\ Harmless(args, d, m) /\ Harmless(doing, d, m))'
        <4>1. m = "wake"
          BY <2>1, <3>2, <3>3 DEF Sure, Modes
        <4> QED BY <1>2, <2>3, <3>1, <4>1 DEF Settled, Harmless
      <3>4. Kept(d)'
        BY <3>3 DEF Kept, Modes
      <3> QED BY <2>2, <3>4 DEF Sound
    <2>4. CASE ~(fine[d] /\ call[d] = "wake")
      <3>1. \A m \in Modes : Sure(d, m)' => Sure(d, m)
        BY <2>1, <2>4 DEF Sure, Past
      <3> QED BY <1>2, <2>2, <3>1, QuietKept DEF Sound
    <2> QED BY <2>3, <2>4
  <1> QED BY <1>3, <1>4, <1>5, <1>6, <1>7 DEF Poll, Done

(* The firmware's.                                                         *)
LEMMA TakeSound ==
    ASSUME TypeOK, NEW d \in Demods, Sound(d), Take PROVE Sound(d)'
  <1>1. /\ doing' = args /\ execute
        /\ UNCHANGED <<args, execute, mode, pc, todo, setup, call, fine, due>>
    BY DEF Take, steps
  <1>2. Command(d)' = Command(d)
    BY <1>1 DEF Command
  <1>3. During(d)' /\ Given(d)' /\ Waits(d)'
    BY <1>1, <1>2 DEF Sound, During, Past, Busy, Given, Waits
  <1>4. ASSUME NEW m \in Modes, Sure(d, m)'
        PROVE  (mode[d] = m /\ Harmless(args, d, m) /\ Harmless(doing, d, m))'
    <2>1. mode[d] = m /\ Harmless(args, d, m)
      BY <1>1, <1>4 DEF Sound, Kept, Sure, Past
    <2> QED BY <1>1, <2>1 DEF Harmless
  <1> QED BY <1>3, <1>4 DEF Sound, Kept, Modes

LEMMA DoSound ==
    ASSUME TypeOK, Locked, NEW d \in Demods, Sound(d), Do PROVE Sound(d)'
  <1>1. /\ doing \in Commands /\ execute /\ doing' = NoOne /\ ~execute'
        /\ mode'[d] = IF doing.of = d /\ doing.do # "other" THEN doing.do ELSE mode[d]
        /\ UNCHANGED <<args, pc, todo, setup, call, fine, due>>
    BY DEF Do, Locked, TypeOK, Commands, steps
  <1>2. Command(d)' = Command(d) /\ Command(d).of = d
    BY <1>1, CommandTyped DEF Command
  <1>3. During(d)' /\ Given(d)' /\ Waits(d)'
    BY <1>1, <1>2 DEF Sound, During, Past, Busy, Given, Waits
  <1>4. ASSUME NEW m \in Modes, Sure(d, m)'
        PROVE  (mode[d] = m /\ Harmless(args, d, m) /\ Harmless(doing, d, m))'
    <2>1. mode[d] = m /\ Harmless(args, d, m) /\ Harmless(doing, d, m)
      BY <1>1, <1>4 DEF Sound, Kept, Sure, Past
    <2> QED BY <1>1, <2>1 DEF Harmless
  <1> QED BY <1>3, <1>4 DEF Sound, Kept, Modes

LEMMA UnchangedSound ==
    ASSUME NEW d \in Demods, Sound(d), UNCHANGED vars PROVE Sound(d)'
  <1>1. UNCHANGED <<args, execute, doing, mode, pc, todo, setup, call, fine, due>>
    BY DEF vars, chip, steps
  <1>2. Command(d)' = Command(d)
    BY <1>1 DEF Command
  <1>3. During(d)' /\ Given(d)' /\ Waits(d)'
    BY <1>1, <1>2 DEF Sound, During, Past, Busy, Given, Waits
  <1>4. \A m \in Modes : Sure(d, m)' => Sure(d, m)
    BY <1>1 DEF Sure, Past
  <1> QED BY <1>1, <1>3, <1>4, QuietKept DEF Sound

THEOREM SoundKept ==
    ASSUME TypeOK, Locked, \A d \in Demods : Sound(d), [Next]_vars
    PROVE  \A d \in Demods : Sound(d)'
  <1> SUFFICES ASSUME NEW e \in Demods PROVE Sound(e)'
    OBVIOUS
  <1>1. CASE UNCHANGED vars
    BY <1>1, UnchangedSound
  <1>2. CASE Take \/ Do
    BY <1>2, TakeSound, DoSound
  <1>3. ASSUME NEW d \in Demods, Steps(d) PROVE Sound(e)'
    <2>1. CASE d # e
      BY <1>3, <2>1, OthersSound
    <2>2. CASE d = e
      BY <1>3, <2>2, CallSound, LockSound, OndemandSound, LoadSound, UploadSound,
         WriteSound, ExecuteSound, PollSound DEF Steps, cmd_execute_nolock
    <2> QED BY <2>1, <2>2
  <1> QED BY <1>1, <1>2, <1>3 DEF Next, Steps

(***************************************************************************)
(* The theorems.                                                           *)
(***************************************************************************)
IInv == TypeOK /\ Locked /\ Charged /\ \A d \in Demods : Sound(d)

(* All of it holds in every state of every behaviour.                      *)
THEOREM CxInvariant == Spec => []IInv
  <1>1. Init => IInv
    <2> SUFFICES ASSUME Init PROVE IInv
      OBVIOUS
    <2>1. TypeOK
      <3>1. args \in Commands
        BY DEF Init, Commands
      <3>2. flag \in BOOLEAN /\ running \in BOOLEAN /\ execute \in BOOLEAN
        BY DEF Init
      <3>3. left \in 0..Glitches /\ 0 \in 0..LoadRest /\ 0 \in 0..Polls
        BY DEF Init
      <3>4. /\ open \in [Demods -> BOOLEAN] /\ fine \in [Demods -> BOOLEAN]
            /\ skip_fw_load \in BOOLEAN
        BY DEF Init
      <3>5. /\ mode \in [Demods -> Modes \cup {"reset"}]
            /\ due \in [Demods -> Modes \cup {"any"}]
            /\ call \in [Demods -> Modes \cup {"other"}]
        BY DEF Init
      <3>6. /\ pc \in [Demods -> {"idle", "lock", "check", "load", "upload",
                                 "write", "start", "poll"}]
            /\ todo \in [Demods -> Nat] /\ setup \in [Demods -> 0..LoadRest]
            /\ i \in [Demods -> 0..Polls]
        BY <3>3 DEF Init
      <3> QED BY <3>1, <3>2, <3>3, <3>4, <3>5, <3>6 DEF Init, TypeOK
    <2>2. Locked
      BY DEF Init, Locked, Busy
    <2>3. Charged
      BY DEF Init, Charged, Owed
    <2>4. ASSUME NEW d \in Demods PROVE Sound(d)
      <3>1. pc[d] = "idle" /\ call[d] = "other" /\ due[d] = "any"
        BY DEF Init
      <3> QED BY <3>1 DEF Sound, During, Past, Kept, Sure, Given, Waits, Modes
    <2> QED BY <2>1, <2>2, <2>3, <2>4 DEF IInv
  <1>2. IInv /\ [Next]_vars => IInv'
    <2> SUFFICES ASSUME IInv, [Next]_vars PROVE IInv'
      OBVIOUS
    <2>1. TypeOK' /\ Locked' /\ Charged'
      BY Typed, LockedKept, ChargedKept DEF IInv
    <2>2. \A d \in Demods : Sound(d)'
      BY SoundKept DEF IInv
    <2> QED BY <2>1, <2>2 DEF IInv
  <1> QED BY <1>1, <1>2, PTL DEF Spec

\* Every variable keeps its type: the chip and priv of Cx24117.
THEOREM CxTypeCorrect == Spec => []TypeOK
  <1>1. IInv => TypeOK
    BY DEF IInv
  <1> QED BY <1>1, CxInvariant, PTL

\* What a successful and fine call asked of its demodulator holds until its
\* frontend asks for something else: cmd_execute and its lock.
THEOREM ModeTheorem == Spec => []ModeAsAsked
  <1>1. IInv => ModeAsAsked
    <2> SUFFICES ASSUME IInv, NEW d \in Demods PROVE due[d] \in {"any", mode[d]}
      BY DEF ModeAsAsked
    <2>1. due[d] \in Modes => mode[d] = due[d]
      BY DEF IInv, Sound, Kept, Sure
    <2> QED BY <2>1 DEF IInv, TypeOK
  <1> QED BY <1>1, CxInvariant, PTL

\* The firmware is loaded once, and once more for each transfer that fails:
\* firmware_ondemand with register 0xeb and skip_fw_load.
THEOREM LoadTheorem == Spec => []LoadCostsATransfer
  <1>1. IInv => LoadCostsATransfer
    <2> SUFFICES ASSUME IInv PROVE LoadCostsATransfer
      OBVIOUS
    <2>1. loads \in Nat /\ left \in Nat
      BY DEF IInv, TypeOK
    <2> QED BY <2>1 DEF IInv, Charged, LoadCostsATransfer
  <1> QED BY <1>1, CxInvariant, PTL

=============================================================================
