------------------------- MODULE FullFeatured_proofs -------------------------
(***************************************************************************)
(* Theorems about the two streams to a Full-Featured SAA716x card.         *)
(* FifoOut: for every ring, FIFO, write size and bound that FifoAssumption *)
(* admits.  StiData: for every block size, set of lengths, number of       *)
(* handles and bound that StiDataAssumption admits.                        *)
(***************************************************************************)
EXTENDS FifoOut, StiData, SequenceTheorems, TLAPS

(* Division with remainder, and that the remainder is the only one.        *)
LEMMA DivMod ==
  ASSUME NEW N \in Nat \ {0}, NEW a \in Int
  PROVE  /\ a % N \in 0 .. N - 1
         /\ a \div N \in Int
         /\ a = N * (a \div N) + (a % N)
  OBVIOUS

LEMMA ModUnique ==
  ASSUME NEW N \in Nat \ {0}, NEW k \in Int, NEW r \in 0 .. N - 1
  PROVE  (N * k + r) % N = r
  OBVIOUS

Places == 0 .. Ring - 1

(* The distance from place p to place q, and the next place, by cases.     *)
Dist(p, q) == IF p <= q THEN q - p ELSE q - p + Ring
Following(p) == IF p = Ring - 1 THEN 0 ELSE p + 1

LEMMA IndexIs ==
  ASSUME NEW p \in Places, NEW q \in Places
  PROVE  (q - p) % Ring = Dist(p, q) /\ Inc(p) = Following(p)
<1>1. Ring \in Nat \ {0} /\ p \in 0 .. Ring - 1 /\ q \in 0 .. Ring - 1
  BY FifoAssumption DEF Places
<1>2. (q - p) % Ring = Dist(p, q)
  <2>1. CASE p <= q
    <3>1. q - p \in 0 .. Ring - 1 /\ Ring * 0 + (q - p) = q - p
      BY <1>1, <2>1
    <3> QED BY <1>1, <2>1, <3>1, ModUnique DEF Dist
  <2>2. CASE p > q
    <3>1. q - p + Ring \in 0 .. Ring - 1 /\ -1 \in Int
      BY <1>1, <2>2
    <3>2. Ring * (-1) + (q - p + Ring) = q - p
      BY <1>1
    <3> QED BY <1>1, <2>2, <3>1, <3>2, ModUnique DEF Dist
  <2> QED BY <1>1, <2>1, <2>2
<1>3. Inc(p) = Following(p)
  <2>1. CASE p = Ring - 1
    <3>1. Ring * 1 + 0 = p + 1 /\ 0 \in 0 .. Ring - 1 /\ 1 \in Int
      BY <1>1, <2>1
    <3> QED BY <1>1, <2>1, <3>1, ModUnique DEF Inc, Following
  <2>2. CASE p # Ring - 1
    <3>1. Ring * 0 + (p + 1) = p + 1 /\ p + 1 \in 0 .. Ring - 1
      BY <1>1, <2>2
    <3> QED BY <1>1, <2>2, <3>1, ModUnique DEF Inc, Following
  <2> QED BY <2>1, <2>2
<1> QED BY <1>2, <1>3

(* How distances change when the reader or the writer goes on a place.     *)
LEMMA DistFacts ==
  ASSUME NEW p \in Places, NEW q \in Places, NEW i \in Places
  PROVE  /\ Following(p) \in Places
         /\ Dist(p, q) \in 0 .. Ring - 1
         /\ Dist(p, p) = 0
         /\ Dist(p, i) = Dist(p, q) => i = q
         /\ Dist(p, q) < Ring - 1 => Dist(p, Following(q)) = Dist(p, q) + 1
         /\ p # q => Dist(Following(p), q) = Dist(p, q) - 1
         /\ Dist(Following(p), p) = Ring - 1
  BY FifoAssumption DEF Places, Dist, Following

(* fifoFree never says more than there is room for.                        *)
LEMMA RoomFits ==
  ASSUME TypeOK, FifoFits
  PROVE  Room \in Nat /\ Room + Len(fifo) <= FifoSize - 1
<1> DEFINE a == FifoSize - Len(fifo) - 1
<1> DEFINE w == 65536
<1>1. w \in Nat \ {0} /\ a \in Nat /\ Len(fifo) \in Nat /\ FifoSize \in Nat
  BY FifoAssumption DEF TypeOK, FifoFits
<1>2. a % w \in Nat /\ a % w <= a
  <2> HIDE DEF a, w
  <2>1. a % w \in 0 .. w - 1 /\ a \div w \in Int /\ a = w * (a \div w) + (a % w)
    BY <1>1, DivMod
  <2>2. CASE a \div w >= 0
    BY <1>1, <2>1, <2>2
  <2>3. CASE a \div w <= -1
    BY <1>1, <2>1, <2>3
  <2> QED BY <2>1, <2>2, <2>3
<1> QED BY <1>1, <1>2 DEF Room

-----------------------------------------------------------------------------
(* The inductive invariant.                                                *)

(* What the worker has still to move fits in the FIFO and is in the ring:  *)
(* the decoder only makes room and the writers only add.                   *)
WorkFits ==
  /\ worker = "copy" => n <= Avail /\ n + Len(fifo) <= FifoSize - 1
  /\ worker = "advance" => /\ n >= 1 /\ n <= Avail /\ rd = pread
                           /\ n - 1 + Len(fifo) <= FifoSize - 1

(* From its reset on a CLEAR keeps the worker from starting the stream,    *)
(* and once it has waited the worker does nothing.                         *)
ClearQuiet ==
  /\ user \in {"cancel", "start", "flush", "fill"} =>
       tsout_stat = "RESET" /\ ~Locked
  /\ user \in {"start", "flush", "fill"} => worker = "idle"

(* The number of the packet at the reader.                                 *)
Front == IF worker = "advance" THEN due - 1 ELSE due

(* Between reader and writer the ring holds what was written last, without *)
(* a gap.                                                                  *)
RingInOrder ==
  /\ next = Front + Avail
  /\ \A i \in Places :
       Dist(pread, i) < Avail => ring[i] = Front + Dist(pread, i)

(* With the interrupt disabled a running stream has the work under way or  *)
(* coming, or nothing to play, or the worker found no room.                *)
SomebodyGoesOn ==
  tsout_stat = "RUN" /\ ~ctrl.en =>
    \/ user = "demux" \/ irq = "queue" \/ queued \/ worker # "idle"
    \/ writer # "idle" \/ Avail = 0 \/ noRoom

IInv == /\ TypeOK /\ FifoFits /\ WorkFits /\ ClearQuiet /\ RingInOrder
        /\ SomebodyGoesOn

-----------------------------------------------------------------------------
(* The steps the invariant's parts are about, by name; the others of Next  *)
(* are told apart where they matter.                                       *)
LEMMA InitInv == Init => IInv
  <1> SUFFICES ASSUME Init PROVE IInv
    OBVIOUS
  <1> USE FifoAssumption DEF Init
  <1>1. TypeOK
    <2>1. Off \in Ctrls
      BY DEF Off, Ctrls
    <2>2. ring \in [0 .. Ring - 1 -> Nat]
      OBVIOUS
    <2>3. 0 \in 0 .. Ring - 1 /\ fifo \in Seq(Nat)
      OBVIOUS
    <2>4. todo \in 0 .. MaxWrite
      OBVIOUS
    <2> QED BY <2>1, <2>2, <2>3, <2>4 DEF TypeOK
  <1>2. Avail = 0
    <2>1. 0 \in Places
      BY DEF Places
    <2>2. (pwrite - pread) % Ring = Dist(pread, pwrite)
      BY <2>1, IndexIs
    <2> QED BY <2>2 DEF Avail, Dist
  <1>3. FifoFits /\ WorkFits /\ ClearQuiet /\ SomebodyGoesOn
    BY DEF FifoFits, WorkFits, ClearQuiet, SomebodyGoesOn
  <1>4. RingInOrder
    BY <1>2, DistFacts DEF RingInOrder, Front, Places, Dist
  <1> QED BY <1>1, <1>3, <1>4 DEF IInv

(* What Avail is, before a step and after one that keeps the pointers.     *)
LEMMA AvailIs ==
  ASSUME TypeOK
  PROVE  Avail = Dist(pread, pwrite) /\ Avail \in 0 .. Ring - 1
<1>1. pread \in Places /\ pwrite \in Places
  BY DEF TypeOK, Places
<1> QED BY <1>1, IndexIs, DistFacts DEF Avail

-----------------------------------------------------------------------------
(* The type invariant.                                                     *)
LEMMA TypeStep == IInv /\ [Next]_vars => TypeOK'
  <1> SUFFICES ASSUME TypeOK, FifoFits, WorkFits, [Next]_vars PROVE TypeOK'
    BY DEF IInv
  <1> USE DEF TypeOK, ringVars, writerVars, workerVars, userVars, irqVars
  <1> USE FifoAssumption
  <1>0. /\ \A p \in 0 .. Ring - 1 : Inc(p) \in 0 .. Ring - 1
        /\ Avail \in Nat /\ Room \in Nat
    <2>1. \A p \in Places : Inc(p) \in Places
      BY IndexIs, DistFacts
    <2>2. Avail \in Nat
      BY AvailIs
    <2>3. Room \in Nat
      BY RoomFits
    <2> QED BY <2>1, <2>2, <2>3 DEF Places
  <1>1. CASE WriteBegin
    BY <1>1 DEF WriteBegin
  <1>2. CASE WriteBreak
    BY <1>2 DEF WriteBreak
  <1>3. CASE WritePut
    BY <1>0, <1>3 DEF WritePut
  <1>4. CASE WriteCheck
    BY <1>4 DEF WriteCheck
  <1>5. CASE WriteEnable
    <2>1. ctrl' \in Ctrls
      BY <1>5 DEF WriteEnable, Enable, Ctrls
    <2> QED BY <1>5, <2>1 DEF WriteEnable
  <1>6. CASE WorkBegin
    <2>1. worker' \in {"idle", "size"} /\ queued' \in BOOLEAN
      BY <1>6 DEF WorkBegin
    <2>2. missed' \in BOOLEAN
      BY <1>6, Zenon DEF WorkBegin
    <2>3. UNCHANGED <<tsout_stat, ring, pread, pwrite, ctrl, fifo, writer, todo,
                      wctrl, short, n, rd, kctrl, noRoom, irq, hctrl, user, last,
                      raced, next, due>>
      BY <1>6 DEF WorkBegin
    <2> QED BY <2>1, <2>2, <2>3
  <1>7. CASE WorkSize
    <2>1. n' \in Nat
      BY <1>0, <1>7 DEF WorkSize
    <2>2. noRoom' \in BOOLEAN
      BY <1>7 DEF WorkSize
    <2> QED BY <1>7, <2>1, <2>2 DEF WorkSize
  <1>8. CASE WorkCopy
    BY <1>8 DEF WorkCopy
  <1>9. CASE WorkAdvance
    <2>1. n' \in Nat
      BY <1>9 DEF WorkAdvance, WorkFits
    <2>2. pread' \in 0 .. Ring - 1
      BY <1>0, <1>9 DEF WorkAdvance
    <2> QED BY <1>9, <2>1, <2>2 DEF WorkAdvance
  <1>10. CASE WorkLock
    BY <1>10 DEF WorkLock
  <1>11. CASE WorkRun
    BY <1>11 DEF WorkRun
  <1>12. CASE WorkEnable
    <2>1. ctrl' \in Ctrls
      BY <1>12 DEF WorkEnable, Enable, Ctrls
    <2> QED BY <1>12, <2>1 DEF WorkEnable
  <1>13. CASE Drain
    BY <1>13 DEF Drain
  <1>14. CASE IrqRead
    BY <1>14 DEF IrqRead
  <1>15. CASE IrqDisable
    <2>1. ctrl' \in Ctrls
      BY <1>15 DEF IrqDisable, Ctrls
    <2> QED BY <1>15, <2>1 DEF IrqDisable
  <1>16. CASE IrqQueue
    BY <1>16 DEF IrqQueue
  <1>17. CASE DemuxReset
    BY <1>17 DEF DemuxReset, Ctrls
  <1>18. CASE DemuxStat
    BY <1>18 DEF DemuxStat
  <1>19. CASE ClearReset
    BY <1>19 DEF ClearReset, Ctrls
  <1>20. CASE ClearCancel
    BY <1>20 DEF ClearCancel
  <1>21. CASE ClearStart
    BY <1>21 DEF ClearStart, Ctrls
  <1>22. CASE ClearFlush
    BY <1>22 DEF ClearFlush
  <1>23. CASE ClearFill
    BY <1>23 DEF ClearFill
  <1>24. CASE UNCHANGED vars
    BY <1>24 DEF vars
  <1> QED
    BY <1>1, <1>2, <1>3, <1>4, <1>5, <1>6, <1>7, <1>8, <1>9, <1>10, <1>11,
       <1>12, <1>13, <1>14, <1>15, <1>16, <1>17, <1>18, <1>19, <1>20, <1>21,
       <1>22, <1>23, <1>24 DEF Next, Writer, Worker, Handler, User

-----------------------------------------------------------------------------
(* The FIFO is never full, because what the worker moves always fits.      *)
LEMMA FitsStep == IInv /\ [Next]_vars => (FifoFits /\ WorkFits)'
  <1> SUFFICES ASSUME TypeOK, FifoFits, WorkFits, ClearQuiet, [Next]_vars
               PROVE  (FifoFits /\ WorkFits)'
    BY DEF IInv
  <1> USE FifoAssumption
  <1> USE DEF FifoFits, WorkFits, ringVars, writerVars, workerVars, userVars,
              irqVars
  <1>0. /\ Avail \in 0 .. Ring - 1 /\ n \in Nat /\ Len(fifo) \in Nat
        /\ fifo \in Seq(Nat) /\ pread \in Places /\ pwrite \in Places
        /\ ring[pread] \in Nat
    BY AvailIs DEF TypeOK, Places
  <1>1. CASE WritePut
    <2>1. Dist(pread, pwrite) < Ring - 1 /\ Avail = Dist(pread, pwrite)
      BY <1>0, <1>1, AvailIs DEF WritePut, Free
    <2>2. Avail' = Avail + 1
      <3>1. pwrite' = Following(pwrite) /\ pwrite' \in Places
        BY <1>0, <1>1, IndexIs, DistFacts DEF WritePut
      <3>2. Avail' = Dist(pread, pwrite')
        BY <1>0, <1>1, <3>1, IndexIs DEF WritePut, Avail
      <3> QED BY <1>0, <2>1, <3>1, <3>2, DistFacts
    <2> QED BY <1>0, <1>1, <2>2 DEF WritePut
  <1>2. CASE WorkSize
    <2>1. Room \in Nat /\ Room + Len(fifo) <= FifoSize - 1
      BY RoomFits
    <2>2. n' <= Avail /\ n' + Len(fifo) <= FifoSize - 1
      BY <1>0, <1>2, <2>1 DEF WorkSize
    <2>3. Avail' = Avail
      BY <1>2 DEF WorkSize, Avail
    <2> QED BY <1>0, <1>2, <2>2, <2>3 DEF WorkSize
  <1>3. CASE WorkCopy
    <2>1. Len(fifo') \in Nat /\ Len(fifo') <= Len(fifo) + 1
      BY <1>0, <1>3 DEF WorkCopy
    <2>2. Avail' = Avail
      BY <1>3 DEF WorkCopy, Avail
    <2> QED BY <1>0, <1>3, <2>1, <2>2 DEF WorkCopy
  <1>4. CASE WorkAdvance
    <2>1. Avail = Dist(pread, pwrite) /\ pread # pwrite
      BY <1>0, <1>4, AvailIs, DistFacts DEF WorkAdvance
    <2>2. Avail' = Avail - 1
      <3>1. pread' = Following(pread) /\ pread' \in Places
        BY <1>0, <1>4, IndexIs, DistFacts DEF WorkAdvance
      <3>2. Avail' = Dist(pread', pwrite)
        BY <1>0, <1>4, <3>1, IndexIs DEF WorkAdvance, Avail
      <3> QED BY <1>0, <2>1, <3>1, <3>2, DistFacts
    <2> QED BY <1>0, <1>4, <2>2 DEF WorkAdvance
  <1>5. CASE Drain
    <2>1. Len(fifo') \in Nat /\ Len(fifo') <= Len(fifo)
      BY <1>0, <1>5 DEF Drain
    <2>2. Avail' = Avail
      BY <1>5 DEF Drain, Avail
    <2> QED BY <1>0, <1>5, <2>1, <2>2 DEF Drain
  <1>6. CASE DemuxReset \/ ClearReset
    <2>1. Len(fifo') = 0
      BY <1>6 DEF DemuxReset, ClearReset
    <2>2. Avail' = Avail
      BY <1>6 DEF DemuxReset, ClearReset, Avail
    <2> QED BY <1>0, <1>6, <2>1, <2>2 DEF DemuxReset, ClearReset
  <1>7. CASE ClearFlush
    BY <1>7 DEF ClearFlush, ClearQuiet
  <1>8. CASE WriteBegin \/ WriteBreak \/ WriteCheck \/ WriteEnable
    <2>1. Avail' = Avail
      BY <1>8 DEF WriteBegin, WriteBreak, WriteCheck, WriteEnable, Avail
    <2> QED BY <1>8, <2>1 DEF WriteBegin, WriteBreak, WriteCheck, WriteEnable
  <1>9. CASE WorkBegin \/ WorkLock \/ WorkRun \/ WorkEnable
    BY <1>9 DEF WorkBegin, WorkLock, WorkRun, WorkEnable
  <1>10. CASE IrqRead \/ IrqDisable \/ IrqQueue
    <2>1. Avail' = Avail
      BY <1>10 DEF IrqRead, IrqDisable, IrqQueue, Avail
    <2> QED BY <1>10, <2>1 DEF IrqRead, IrqDisable, IrqQueue
  <1>11. CASE DemuxStat \/ ClearCancel \/ ClearStart \/ ClearFill
    <2>1. Avail' = Avail
      BY <1>11 DEF DemuxStat, ClearCancel, ClearStart, ClearFill, Avail
    <2> QED BY <1>11, <2>1 DEF DemuxStat, ClearCancel, ClearStart, ClearFill
  <1>12. CASE UNCHANGED vars
    BY <1>12 DEF vars, Avail
  <1> QED
    BY <1>1, <1>2, <1>3, <1>4, <1>5, <1>6, <1>7, <1>8, <1>9, <1>10, <1>11,
       <1>12 DEF Next, Writer, Worker, Handler, User

-----------------------------------------------------------------------------
(* A CLEAR finds the worker outside its lock, and waits for it.            *)
LEMMA ClearStep == IInv /\ [Next]_vars => ClearQuiet'
  <1> SUFFICES ASSUME ClearQuiet, [Next]_vars PROVE ClearQuiet'
    BY DEF IInv
  <1> USE DEF ClearQuiet, Locked, ringVars, writerVars, workerVars, userVars,
              irqVars
  <1>1. CASE WriteBegin \/ WriteBreak \/ WritePut \/ WriteCheck \/
       WriteEnable
    BY <1>1 DEF WriteBegin, WriteBreak, WritePut, WriteCheck, WriteEnable
  <1>2. CASE WorkBegin \/ WorkSize \/ WorkCopy \/ WorkAdvance \/
       WorkLock
    BY <1>2 DEF WorkBegin, WorkSize, WorkCopy, WorkAdvance, WorkLock
  <1>3. CASE WorkRun \/ WorkEnable
    BY <1>3 DEF WorkRun, WorkEnable
  <1>4. CASE Drain \/ IrqRead \/ IrqDisable \/ IrqQueue
    BY <1>4 DEF Drain, IrqRead, IrqDisable, IrqQueue
  <1>5. CASE DemuxReset \/ DemuxStat
    BY <1>5 DEF DemuxReset, DemuxStat, Begins
  <1>6. CASE ClearReset \/ ClearCancel \/ ClearStart \/ ClearFlush \/
       ClearFill
    BY <1>6 DEF ClearReset, ClearCancel, ClearStart, ClearFlush, ClearFill
  <1>7. CASE UNCHANGED vars
    BY <1>7 DEF vars
  <1> QED
    BY <1>1, <1>2, <1>3, <1>4, <1>5, <1>6, <1>7 DEF Next, Writer, Worker,
       Handler, User

-----------------------------------------------------------------------------
(* The ring's contents.                                                    *)
LEMMA RingStep == IInv /\ [Next]_vars => RingInOrder'
  <1> SUFFICES ASSUME TypeOK, WorkFits, ClearQuiet, RingInOrder, [Next]_vars
               PROVE  RingInOrder'
    BY DEF IInv
  <1> USE FifoAssumption
  <1> USE DEF RingInOrder, Front, ringVars, writerVars, workerVars, userVars,
              irqVars
  <1>0. /\ Avail \in 0 .. Ring - 1 /\ n \in Nat /\ next \in Nat /\ due \in Nat
        /\ pread \in Places /\ pwrite \in Places /\ Avail = Dist(pread, pwrite)
    BY AvailIs DEF TypeOK, Places
  <1>a. \A i \in Places : Dist(pread, i) \in 0 .. Ring - 1
    BY <1>0, DistFacts
  <1>1. CASE WritePut
    <2>1. Dist(pread, pwrite) < Ring - 1 /\ Avail = Dist(pread, pwrite)
      BY <1>0, <1>1, AvailIs DEF WritePut, Free
    <2>2. Avail' = Avail + 1
      <3>1. pwrite' = Following(pwrite) /\ pwrite' \in Places
        BY <1>0, <1>1, IndexIs, DistFacts DEF WritePut
      <3>2. Avail' = Dist(pread, pwrite')
        BY <1>0, <1>1, <3>1, IndexIs DEF WritePut, Avail
      <3> QED BY <1>0, <2>1, <3>1, <3>2, DistFacts
    <2>3. next' = Front' + Avail' /\ Front' = Front
      BY <1>0, <1>1, <2>2 DEF WritePut
    <2>4. ASSUME NEW i \in Places, Dist(pread, i) < Avail'
          PROVE  ring'[i] = Front + Dist(pread, i)
      <3>1. CASE i = pwrite
        <4>1. ring'[i] = next
          BY <1>0, <1>1, <3>1 DEF WritePut, TypeOK, Places
        <4> QED BY <1>0, <3>1, <4>1
      <3>2. CASE i # pwrite
        <4>1. ring'[i] = ring[i]
          BY <1>0, <1>1, <3>2 DEF WritePut, TypeOK, Places
        <4>2. Dist(pread, i) < Avail
          BY <1>0, <1>a, <2>2, <2>4, <3>2, DistFacts
        <4> QED BY <4>1, <4>2
      <3> QED BY <3>1, <3>2
    <2> QED BY <1>1, <2>3, <2>4 DEF WritePut, Dist
  <1>2. CASE WorkCopy
    <2>1. Avail > 0 /\ Dist(pread, pread) = 0
      BY <1>0, <1>2, DistFacts DEF WorkCopy, WorkFits
    <2>2. ring[pread] = due
      BY <1>0, <1>2, <2>1 DEF WorkCopy
    <2>3. due' = due + 1 /\ Front' = Front /\ Avail' = Avail
      BY <1>0, <1>2, <2>2 DEF WorkCopy, Avail
    <2> QED BY <1>2, <2>3 DEF WorkCopy, Dist
  <1>3. CASE WorkAdvance
    <2>1. Avail = Dist(pread, pwrite) /\ pread # pwrite
      BY <1>0, <1>3, AvailIs, DistFacts DEF WorkAdvance, WorkFits
    <2>2. Avail' = Avail - 1
      <3>1. pread' = Following(pread) /\ pread' \in Places
        BY <1>0, <1>3, IndexIs, DistFacts DEF WorkAdvance, WorkFits
      <3>2. Avail' = Dist(pread', pwrite)
        BY <1>0, <1>3, <3>1, IndexIs DEF WorkAdvance, Avail
      <3> QED BY <1>0, <2>1, <3>1, <3>2, DistFacts
    <2>3. Front' = Front + 1 /\ next' = Front' + Avail'
      BY <1>0, <1>3, <2>2 DEF WorkAdvance
    <2>4. pread' = Following(pread) /\ ring' = ring
      BY <1>0, <1>3, IndexIs DEF WorkAdvance, WorkFits
    <2>5. ASSUME NEW i \in Places, Dist(Following(pread), i) < Avail'
          PROVE  ring[i] = Front + 1 + Dist(Following(pread), i)
      <3>1. CASE i = pread
        BY <1>0, <2>2, <2>5, <3>1, DistFacts
      <3>2. CASE i # pread
        <4>1. Dist(Following(pread), i) = Dist(pread, i) - 1
          BY <1>0, <3>2, DistFacts
        <4>2. Dist(pread, i) < Avail
          BY <1>0, <1>a, <2>2, <2>5, <4>1
        <4>3. ring[i] = Front + Dist(pread, i)
          BY <4>2
        <4> QED BY <1>0, <1>a, <4>1, <4>3
      <3> QED BY <3>1, <3>2
    <2> QED BY <2>3, <2>4, <2>5 DEF Dist
  <1>4. CASE ClearFlush
    <2>1. Avail' = 0
      <3>1. Avail' = Dist(pwrite, pwrite)
        BY <1>0, <1>4, IndexIs DEF ClearFlush, Avail
      <3> QED BY <1>0, <3>1, DistFacts
    <2>2. next' = Front' + Avail'
      BY <1>0, <1>4, <2>1 DEF ClearFlush, ClearQuiet
    <2>3. \A i \in Places : ~(Dist(pwrite, i) < Avail')
      BY <1>0, <2>1, DistFacts
    <2> QED BY <1>4, <2>2, <2>3 DEF ClearFlush, Dist
  <1>5. CASE WriteBegin \/ WriteBreak \/ WriteCheck \/ WriteEnable
    <2>1. Avail' = Avail /\ Front' = Front
      BY <1>5 DEF WriteBegin, WriteBreak, WriteCheck, WriteEnable, Avail
    <2> QED BY <1>5, <2>1 DEF WriteBegin, WriteBreak, WriteCheck,
          WriteEnable, Dist
  <1>6. CASE WorkBegin \/ WorkSize \/ WorkLock \/ WorkRun \/ WorkEnable
    <2>1. Avail' = Avail /\ Front' = Front
      BY <1>6 DEF WorkBegin, WorkSize, WorkLock, WorkRun, WorkEnable, Avail
    <2> QED BY <1>6, <2>1 DEF WorkBegin, WorkSize, WorkLock, WorkRun,
          WorkEnable, Dist
  <1>7. CASE Drain \/ IrqRead \/ IrqDisable \/ IrqQueue
    <2>1. Avail' = Avail /\ Front' = Front
      BY <1>7 DEF Drain, IrqRead, IrqDisable, IrqQueue, Avail
    <2> QED BY <1>7, <2>1 DEF Drain, IrqRead, IrqDisable, IrqQueue, Dist
  <1>8. CASE DemuxReset \/ DemuxStat \/ ClearReset \/ ClearCancel
    <2>1. Avail' = Avail /\ Front' = Front
      BY <1>8 DEF DemuxReset, DemuxStat, ClearReset, ClearCancel, Avail
    <2> QED BY <1>8, <2>1 DEF DemuxReset, DemuxStat, ClearReset,
          ClearCancel, Dist
  <1>9. CASE ClearStart \/ ClearFill
    <2>1. Avail' = Avail /\ Front' = Front
      BY <1>9 DEF ClearStart, ClearFill, Avail
    <2> QED BY <1>9, <2>1 DEF ClearStart, ClearFill, Dist
  <1>10. CASE UNCHANGED vars
    BY <1>10 DEF vars, Avail, Dist
  <1> QED
    BY <1>1, <1>2, <1>3, <1>4, <1>5, <1>6, <1>7, <1>8, <1>9, <1>10 DEF
       Next, Writer, Worker, Handler, User

-----------------------------------------------------------------------------
(* Every step that disables the interrupt or idles the worker leaves       *)
(* somebody to go on.                                                      *)
LEMMA StallStep == IInv /\ [Next]_vars => SomebodyGoesOn'
  <1> SUFFICES ASSUME TypeOK, FifoFits, ClearQuiet, SomebodyGoesOn, [Next]_vars
               PROVE  SomebodyGoesOn'
    BY DEF IInv
  <1> USE DEF SomebodyGoesOn, ringVars, writerVars, workerVars, userVars,
              irqVars
  <1>1. CASE WriteBegin \/ WriteBreak \/ WritePut
    BY <1>1 DEF WriteBegin, WriteBreak, WritePut
  <1>2. CASE WriteCheck
    <2>1. Avail' = Avail /\ (tsout_stat = "RUN" => writer' = "enable")
      BY <1>2 DEF WriteCheck, Avail
    <2> QED BY <1>2, <2>1 DEF WriteCheck
  <1>3. CASE WriteEnable
    <2>1. ctrl'.en
      BY <1>3 DEF WriteEnable, Enable, TypeOK, Ctrls
    <2> QED BY <2>1
  <1>4. CASE WorkBegin
    BY <1>4 DEF WorkBegin
  <1>5. CASE WorkSize
    <2>1. Avail \in Nat /\ Room \in Nat /\ Avail' = Avail
      BY <1>5, FifoAssumption, AvailIs, RoomFits DEF WorkSize, Avail
    <2>2. worker' = "copy" \/ Avail = 0 \/ Room < 1
      BY <1>5, <2>1 DEF WorkSize
    <2>3. Room < 1 => noRoom'
      BY <1>5 DEF WorkSize
    <2> QED BY <2>1, <2>2, <2>3
  <1>6. CASE WorkCopy \/ WorkAdvance \/ WorkRun
    BY <1>6 DEF WorkCopy, WorkAdvance, WorkRun
  <1>7. CASE WorkLock
    BY <1>7 DEF WorkLock
  <1>8. CASE WorkEnable
    <2>1. ctrl'.en
      BY <1>8 DEF WorkEnable, Enable, TypeOK, Ctrls
    <2> QED BY <2>1
  <1>9. CASE Drain \/ IrqRead
    BY <1>9 DEF Drain, IrqRead, Avail
  <1>10. CASE IrqDisable
    BY <1>10 DEF IrqDisable
  <1>11. CASE IrqQueue
    BY <1>11 DEF IrqQueue
  <1>12. CASE DemuxReset
    BY <1>12 DEF DemuxReset
  <1>13. CASE DemuxStat \/ ClearReset \/ ClearFill
    BY <1>13 DEF DemuxStat, ClearReset, ClearFill
  <1>14. CASE ClearCancel \/ ClearStart \/ ClearFlush
    BY <1>14 DEF ClearCancel, ClearStart, ClearFlush, ClearQuiet
  <1>15. CASE UNCHANGED vars
    BY <1>15 DEF vars, Avail
  <1> QED
    BY <1>1, <1>2, <1>3, <1>4, <1>5, <1>6, <1>7, <1>8, <1>9, <1>10, <1>11,
       <1>12, <1>13, <1>14, <1>15 DEF Next, Writer, Worker, Handler, User

-----------------------------------------------------------------------------
(* The theorems.                                                           *)

(* The conjunction of the above is an invariant.                           *)
LEMMA Inductive == Spec => []IInv
<1>1. IInv /\ [Next]_vars => IInv'
  BY TypeStep, FitsStep, ClearStep, RingStep, StallStep DEF IInv
<1> QED
  BY InitInv, <1>1, PTL DEF Spec

(* Every variable of the output path keeps its type.                       *)
THEOREM TypeCorrect == Spec => []TypeOK
<1>1. IInv => TypeOK
  BY DEF IInv
<1> QED BY <1>1, Inductive, PTL

(* The FIFO is never written full, though fifo_worker measures it once and *)
(* moves the packets afterwards.                                           *)
THEOREM NeverFull == Spec => []FifoFits
<1>1. IInv => FifoFits
  BY DEF IInv
<1> QED BY <1>1, Inductive, PTL

(* Whatever the writer, fifo_worker, the interrupt and the ioctls do in    *)
(* between, a running stream with packets left and nothing under way has   *)
(* its interrupt enabled or had no room in the FIFO.                       *)
THEOREM NeverForgotten == Spec => []StallOnlyWithoutRoom
<1>1. IInv => StallOnlyWithoutRoom
  BY DEF IInv, SomebodyGoesOn, StallOnlyWithoutRoom, Quiet
<1> QED BY <1>1, Inductive, PTL

(* fifo_worker moves the packets in the order they were written, none      *)
(* twice and none overwritten before.                                      *)
THEOREM PlaysInOrder == Spec => PlaysNext
<1>1. ASSUME IInv, [Next]_vars
      PROVE  [worker = "copy" /\ worker' = "advance" => ring[pread] = due]_vars
  <2>1. SUFFICES ASSUME worker = "copy", worker' = "advance"
                 PROVE  ring[pread] = due
    OBVIOUS
  <2>2. n > 0
    BY <1>1, <2>1 DEF Next, Writer, Worker, Handler, User, vars, workerVars,
       WriteBegin, WriteBreak, WritePut, WriteCheck, WriteEnable, WorkBegin,
       WorkSize, WorkCopy, WorkAdvance, WorkLock, WorkRun, WorkEnable, Drain,
       IrqRead, IrqDisable, IrqQueue, DemuxReset, DemuxStat, ClearReset,
       ClearCancel, ClearStart, ClearFlush, ClearFill
  <2>3. TypeOK /\ WorkFits /\ RingInOrder
    BY <1>1 DEF IInv
  <2>4. /\ pread \in Places /\ pwrite \in Places /\ n \in Nat /\ due \in Nat
        /\ Avail \in 0 .. Ring - 1 /\ Ring \in Nat
    BY <2>3, AvailIs, FifoAssumption DEF TypeOK, Places
  <2>5. Dist(pread, pread) = 0 /\ Avail > 0
    BY <2>1, <2>2, <2>3, <2>4, DistFacts DEF WorkFits
  <2> QED BY <2>1, <2>3, <2>4, <2>5 DEF RingInOrder, Front
<1> QED BY <1>1, Inductive, PTL DEF Spec, PlaysNext

-----------------------------------------------------------------------------
(* CLEAR and the FIFO's control register.                                  *)

(* From the moment CLEAR starts the FIFO it runs, and so says every value  *)
(* of CTRL that somebody has read and still has to write back, unless one  *)
(* of them was older than the start.                                       *)
Started == \/ user \in {"flush", "fill"}
           \/ user = "idle" /\ last = "clear"

ClearHolds ==
  Started /\ ~raced =>
    /\ ctrl.mode = "run"
    /\ worker = "set" => kctrl.mode = "run"
    /\ irq = "write" => hctrl.mode = "run"
    /\ writer = "enable" => wctrl.mode = "run"

LEMMA HoldsStep == IInv /\ ClearHolds /\ [Next]_vars => ClearHolds'
  <1> SUFFICES ASSUME TypeOK, ClearQuiet, ClearHolds, [Next]_vars
               PROVE  ClearHolds'
    BY DEF IInv
  <1> USE DEF ClearHolds, Started, ringVars, writerVars, workerVars, userVars,
              irqVars
  <1>1. CASE WriteBegin \/ WriteBreak \/ WritePut \/ WriteCheck
    BY <1>1 DEF WriteBegin, WriteBreak, WritePut, WriteCheck
  <1>2. CASE WriteEnable
    <2>1. ctrl'.mode = wctrl.mode
      BY <1>2 DEF WriteEnable, Enable, TypeOK, Ctrls
    <2> QED BY <1>2, <2>1 DEF WriteEnable
  <1>3. CASE WorkBegin \/ WorkSize \/ WorkCopy \/ WorkAdvance \/ WorkLock \/ WorkRun
    BY <1>3 DEF WorkBegin, WorkSize, WorkCopy, WorkAdvance, WorkLock, WorkRun
  <1>4. CASE WorkEnable
    <2>1. ctrl'.mode = kctrl.mode
      BY <1>4 DEF WorkEnable, Enable, TypeOK, Ctrls
    <2> QED BY <1>4, <2>1 DEF WorkEnable
  <1>5. CASE Drain \/ IrqRead
    BY <1>5 DEF Drain, IrqRead
  <1>6. CASE IrqDisable
    <2>1. ctrl'.mode = hctrl.mode
      BY <1>6 DEF IrqDisable, TypeOK, Ctrls
    <2> QED BY <1>6, <2>1 DEF IrqDisable
  <1>7. CASE IrqQueue
    BY <1>7 DEF IrqQueue
  <1>8. CASE DemuxReset \/ DemuxStat
    BY <1>8 DEF DemuxReset, DemuxStat, Begins
  <1>9. CASE ClearReset \/ ClearCancel \/ ClearFlush \/ ClearFill
    BY <1>9 DEF ClearReset, ClearCancel, ClearFlush, ClearFill, Begins
  <1>10. CASE ClearStart
    <2>1. worker = "idle"
      BY <1>10 DEF ClearStart, ClearQuiet
    <2> QED BY <1>10, <2>1 DEF ClearStart
  <1>11. CASE UNCHANGED vars
    BY <1>11 DEF vars
  <1> QED
    BY <1>1, <1>2, <1>3, <1>4, <1>5, <1>6, <1>7, <1>8, <1>9, <1>10, <1>11
       DEF Next, Writer, Worker, Handler, User

(* "start FIFO 1": the FIFO runs after every VIDEO_CLEAR_BUFFER, whatever  *)
(* writes, interrupts, worker and ioctls did before and do afterwards,     *)
(* unless at the very moment it was started a write() or the handler had   *)
(* read CTRL and not yet written it back.                                  *)
THEOREM ClearTheorem == Spec => []ClearStarts
<1>1. Init => ClearHolds
  BY DEF Init, ClearHolds, Started
<1>2. IInv /\ ClearHolds /\ [Next]_vars => ClearHolds'
  BY HoldsStep
<1>3. ClearHolds => ClearStarts
  BY DEF ClearHolds, Started, ClearStarts
<1> QED BY <1>1, <1>2, <1>3, Inductive, PTL DEF Spec

-----------------------------------------------------------------------------
(* The output path is a queue in front of a queue.                         *)

Numbers(a, b) == [i \in 1 .. b - a |-> a + i - 1]

LEMMA NumbersSeq ==
  ASSUME NEW a \in Nat, NEW b \in Nat, a <= b
  PROVE  /\ Numbers(a, b) \in Seq(Nat) /\ Len(Numbers(a, b)) = b - a
         /\ \A i \in 1 .. b - a : Numbers(a, b)[i] = a + i - 1
<1>1. b - a \in Nat /\ \A i \in 1 .. b - a : a + i - 1 \in Nat
  OBVIOUS
<1> QED BY <1>1 DEF Numbers

LEMMA NumbersAre ==
  ASSUME NEW a \in Nat, NEW b \in Nat, a <= b
  PROVE  /\ a = b => Numbers(a, b) = <<>>
         /\ Append(Numbers(a, b), b) = Numbers(a, b + 1)
         /\ a < b => /\ Numbers(a, b) # <<>> /\ Head(Numbers(a, b)) = a
                     /\ Tail(Numbers(a, b)) = Numbers(a + 1, b)
<1> DEFINE s == Numbers(a, b)
<1>1. s \in Seq(Nat) /\ Len(s) = b - a /\ \A i \in 1 .. b - a : s[i] = a + i - 1
  BY NumbersSeq
<1>2. a = b => s = <<>>
  BY <1>1, EmptySeq
<1>3. Append(s, b) = Numbers(a, b + 1)
  <2> DEFINE t == Numbers(a, b + 1)
  <2> DEFINE u == Append(s, b)
  <2>1. /\ t \in Seq(Nat) /\ Len(t) = b + 1 - a
        /\ \A i \in 1 .. b + 1 - a : t[i] = a + i - 1
    <3>1. b + 1 \in Nat /\ a <= b + 1
      OBVIOUS
    <3> QED BY <3>1, NumbersSeq
  <2>2. /\ u \in Seq(Nat) /\ Len(u) = Len(s) + 1
        /\ \A i \in 1 .. Len(s) : u[i] = s[i]
        /\ u[Len(s) + 1] = b
    <3> HIDE DEF s
    <3> QED BY <1>1, AppendProperties
  <2>3. Len(u) = Len(t) /\ \A i \in 1 .. Len(u) : u[i] = t[i]
    <3>1. Len(s) = b - a /\ Len(u) = b - a + 1 /\ Len(t) = b - a + 1
      BY <1>1, <2>1, <2>2
    <3>2. ASSUME NEW i \in 1 .. b - a + 1 PROVE u[i] = t[i]
      <4> HIDE DEF s, t, u
      <4>1. i \in 1 .. b + 1 - a /\ t[i] = a + i - 1
        BY <2>1
      <4>2. CASE i = b - a + 1
        BY <2>2, <3>1, <4>1, <4>2
      <4>3. CASE i \in 1 .. b - a
        BY <1>1, <2>2, <3>1, <4>1, <4>3
      <4> QED BY <4>2, <4>3
    <3> QED BY <3>1, <3>2
  <2> QED
    <3> HIDE DEF t, u
    <3>1. u = t
      BY <2>1, <2>2, <2>3, SeqEqual
    <3> QED BY <3>1 DEF t, u
<1>4. ASSUME a < b
      PROVE  s # <<>> /\ Head(s) = a /\ Tail(s) = Numbers(a + 1, b)
  <2> DEFINE t == Numbers(a + 1, b)
  <2> DEFINE u == Tail(s)
  <2>1. /\ t \in Seq(Nat) /\ Len(t) = b - (a + 1)
        /\ \A i \in 1 .. b - (a + 1) : t[i] = a + 1 + i - 1
    <3>1. a + 1 \in Nat /\ a + 1 <= b
      BY <1>4
    <3> QED BY <3>1, NumbersSeq
  <2>2. s # <<>> /\ Head(s) = s[1] /\ s[1] = a
    BY <1>1, <1>4
  <2>3. /\ u \in Seq(Nat) /\ Len(u) = Len(s) - 1
        /\ \A i \in 1 .. Len(u) : u[i] = s[i + 1]
    <3> HIDE DEF s
    <3> QED BY <1>1, <2>2, HeadTailProperties
  <2>4. Len(u) = Len(t) /\ \A i \in 1 .. Len(u) : u[i] = t[i]
    <3> HIDE DEF s, t, u
    <3> QED BY <1>1, <1>4, <2>1, <2>3
  <2> QED
    <3> HIDE DEF t, u
    <3>1. u = t
      BY <2>1, <2>3, <2>4, SeqEqual
    <3> QED BY <2>2, <3>1 DEF t, u
<1> QED BY <1>1, <1>2, <1>3, <1>4

(* The place i places behind p, and how far it is from there.              *)
LEMMA Behind ==
  ASSUME NEW p \in Places, NEW i \in 0 .. Ring - 1
  PROVE  (p + i) % Ring \in Places /\ Dist(p, (p + i) % Ring) = i
<1>1. Ring \in Nat \ {0} /\ p \in 0 .. Ring - 1
  BY FifoAssumption DEF Places
<1>2. CASE p + i < Ring
  <2>1. p + i \in 0 .. Ring - 1 /\ Ring * 0 + (p + i) = p + i
    BY <1>1, <1>2
  <2> QED BY <1>1, <2>1, ModUnique DEF Places, Dist
<1>3. CASE p + i >= Ring
  <2>1. p + i - Ring \in 0 .. Ring - 1 /\ Ring * 1 + (p + i - Ring) = p + i
    BY <1>1, <1>3
  <2> QED BY <1>1, <2>1, ModUnique DEF Places, Dist
<1> QED BY <1>1, <1>2, <1>3

(* What waits in the ring are the packets from the next to be played to    *)
(* the last written.                                                       *)
WaitingInOrder ==
  /\ due \in Nat /\ next \in Nat /\ due <= next /\ next - due <= Ring - 1
  /\ Waiting = Numbers(due, next)

LEMMA WaitingIs == IInv => WaitingInOrder
<1> SUFFICES ASSUME IInv PROVE WaitingInOrder
  OBVIOUS
<1>1. /\ TypeOK /\ WorkFits /\ RingInOrder
      /\ pread \in Places /\ pwrite \in Places /\ due \in Nat /\ next \in Nat
      /\ Ring \in Nat \ {0} /\ Avail \in 0 .. Ring - 1
      /\ Avail = Dist(pread, pwrite)
  <2>1. TypeOK /\ WorkFits /\ RingInOrder
    BY DEF IInv
  <2>2. /\ pread \in Places /\ pwrite \in Places /\ due \in Nat /\ next \in Nat
        /\ Ring \in Nat \ {0}
    BY <2>1, FifoAssumption DEF TypeOK, Places
  <2>3. Avail = Dist(pread, pwrite)
    BY <2>2, IndexIs DEF Avail
  <2> QED BY <2>1, <2>2, <2>3, DistFacts
<1> DEFINE first == IF worker = "advance" THEN Inc(pread) ELSE pread
<1> DEFINE m == Dist(first, pwrite)
<1> DEFINE at(i) == (first + i - 1) % Ring
<1>2. first \in Places /\ m \in 0 .. Ring - 1 /\ m = next - due
  <2>1. CASE worker = "advance"
    <3>1. Avail > 0 /\ pread # pwrite
      BY <1>1, <2>1, DistFacts DEF WorkFits, TypeOK
    <3>2. first = Following(pread) /\ first \in Places /\ m = Avail - 1
      BY <1>1, <2>1, <3>1, IndexIs, DistFacts
    <3> QED BY <1>1, <2>1, <3>1, <3>2 DEF RingInOrder, Front
  <2>2. CASE worker # "advance"
    BY <1>1, <2>2 DEF RingInOrder, Front
  <2> QED BY <2>1, <2>2
<1>3. (pwrite - first) % Ring = m
  BY <1>1, <1>2, IndexIs
<1>4. ASSUME NEW i \in 1 .. m PROVE ring[at(i)] = due + i - 1
  <2>1. i - 1 \in 0 .. Ring - 1 /\ first + (i - 1) = first + i - 1
    BY <1>1, <1>2 DEF Places
  <2>2. at(i) \in Places /\ Dist(first, at(i)) = i - 1
    BY <1>2, <2>1, Behind
  <2>3. CASE worker = "advance"
    <3>1. first = Following(pread) /\ m = Avail - 1
      <4>1. n \in Nat /\ n >= 1 /\ n <= Avail
        BY <1>1, <2>3 DEF WorkFits, TypeOK
      <4>2. Avail > 0 /\ pread # pwrite
        BY <1>1, <4>1, DistFacts
      <4> QED BY <1>1, <2>3, <4>2, IndexIs, DistFacts
    <3>2. pread # at(i)
      BY <1>1, <1>2, <2>2, <3>1, DistFacts
    <3>3. Dist(pread, at(i)) = i
      <4>1. Dist(Following(pread), at(i)) = Dist(pread, at(i)) - 1
        BY <1>1, <2>2, <3>2, DistFacts
      <4>2. Dist(pread, at(i)) \in Int
        BY <1>1, <2>2, DistFacts
      <4> QED BY <2>2, <3>1, <4>1, <4>2
    <3> QED BY <1>1, <1>2, <2>2, <2>3, <3>1, <3>3 DEF RingInOrder, Front
  <2>4. CASE worker # "advance"
    BY <1>1, <1>2, <2>2, <2>4 DEF RingInOrder, Front
  <2> QED BY <2>3, <2>4
<1>5. Waiting = [i \in 1 .. m |-> ring[at(i)]]
  BY <1>3 DEF Waiting
<1>6. Waiting = [i \in 1 .. m |-> due + i - 1]
  BY <1>4, <1>5
<1> QED BY <1>1, <1>2, <1>6 DEF Numbers, WaitingInOrder

(* Every step is a step of the queue, or none.  What waits is told by due  *)
(* and next alone, which only three steps change.                          *)
LEMMA QueueStep == IInv /\ IInv' /\ [Next]_vars => [Output!Next]_(Output!vars)
<1> DEFINE on == ctrl.mode = "run"
<1>1. IInv' => WaitingInOrder'
  BY WaitingIs, PTL
<1> SUFFICES ASSUME IInv, WaitingInOrder', [Next]_vars
             PROVE  Output!Next \/ UNCHANGED <<Waiting, fifo, on, next>>
  BY <1>1 DEF Output!vars
<1> DEFINE Same == UNCHANGED <<Waiting, next>>
<1>2. /\ due \in Nat /\ next \in Nat /\ due <= next /\ next - due <= Ring - 1
      /\ Waiting = Numbers(due, next) /\ Waiting' = Numbers(due', next')
      /\ TypeOK /\ FifoFits /\ WorkFits /\ RingInOrder
  BY WaitingIs DEF WaitingInOrder, IInv
<1>3. ASSUME UNCHANGED <<due, next>> PROVE Same
  BY <1>2, <1>3
<1> USE DEF ringVars, writerVars, workerVars, userVars, irqVars
<1>4. CASE WritePut
  <2>1. Free > 0 /\ next' = next + 1 /\ UNCHANGED <<due, fifo, on>>
    BY <1>4 DEF WritePut
  <2>2. Waiting' = Append(Waiting, next)
    BY <1>2, <2>1, NumbersAre
  <2>3. Len(Waiting) < Ring - 1
    <3>1. Len(Waiting) = next - due
      BY <1>2, NumbersSeq
    <3>2. next - due <= Avail /\ Avail \in Int /\ Avail < Ring - 1 /\ Ring \in Int
      <4>1. pread \in Places /\ pwrite \in Places /\ Ring \in Nat
        BY <1>2, FifoAssumption DEF TypeOK, Places
      <4>2. Avail \in Int
        BY <4>1, IndexIs, DistFacts DEF Avail
      <4> QED BY <1>2, <2>1, <4>1, <4>2 DEF Free, RingInOrder, Front
    <3> QED BY <1>2, <3>1, <3>2
  <2> QED BY <2>1, <2>2, <2>3 DEF Output!Next, Output!Write
<1>5. CASE WorkCopy
  <2>1. worker = "copy" /\ n > 0 /\ UNCHANGED <<next, on>>
        /\ fifo' = (IF on THEN Append(fifo, ring[pread]) ELSE fifo)
        /\ due' = ring[pread] + 1
    BY <1>5 DEF WorkCopy
  <2>2. n \in Nat /\ n <= Avail /\ n + Len(fifo) <= FifoSize - 1 /\ Len(fifo) \in Nat
    BY <1>2, <2>1 DEF WorkFits, TypeOK
  <2>3. ring[pread] = due /\ due < next
    <3>1. pread \in Places /\ pwrite \in Places /\ Ring \in Nat
      BY <1>2, FifoAssumption DEF TypeOK, Places
    <3>2. Avail \in Int /\ Avail > 0 /\ Dist(pread, pread) = 0
      BY <2>1, <2>2, <3>1, IndexIs, DistFacts DEF Avail
    <3>3. Front = due
      BY <2>1 DEF Front
    <3> QED BY <1>2, <3>1, <3>2, <3>3 DEF RingInOrder
  <2>4. Waiting # <<>> /\ Head(Waiting) = due /\ Waiting' = Tail(Waiting)
    BY <1>2, <2>1, <2>3, NumbersAre
  <2>5. Len(fifo) < FifoSize - 1
    BY <2>1, <2>2, FifoAssumption
  <2> QED BY <2>1, <2>3, <2>4, <2>5 DEF Output!Next, Output!Hand
<1>6. CASE ClearFlush
  <2>1. due' = next /\ UNCHANGED <<next, fifo, on>>
    BY <1>6 DEF ClearFlush
  <2>2. Waiting' = <<>>
    BY <1>2, <2>1, NumbersAre
  <2> QED BY <2>1, <2>2 DEF Output!Next, Output!Clear
<1>7. CASE Drain
  <2>1. UNCHANGED <<due, next, on>> /\ on /\ fifo # <<>> /\ fifo' = Tail(fifo)
    BY <1>7 DEF Drain
  <2> QED BY <1>3, <2>1 DEF Output!Next, Output!Play
<1>8. CASE DemuxReset \/ ClearReset
  <2>1. UNCHANGED <<due, next>> /\ fifo' = <<>> /\ ctrl'.mode = "reset"
    BY <1>8 DEF DemuxReset, ClearReset
  <2> QED BY <1>3, <2>1 DEF Output!Next, Output!Reset
<1>9. CASE WriteEnable \/ WorkEnable \/ IrqDisable \/ ClearStart
  <2>1. UNCHANGED <<due, next, fifo>>
    BY <1>9 DEF WriteEnable, WorkEnable, IrqDisable, ClearStart
  <2> QED BY <1>3, <2>1 DEF Output!Next, Output!Switch
<1>10. CASE \/ WriteBegin \/ WriteBreak \/ WriteCheck
            \/ WorkBegin \/ WorkSize \/ WorkAdvance \/ WorkLock \/ WorkRun
            \/ IrqRead \/ IrqQueue \/ DemuxStat \/ ClearCancel \/ ClearFill
            \/ UNCHANGED vars
  <2>1. UNCHANGED <<due, next, fifo, ctrl>>
    BY <1>10 DEF WriteBegin, WriteBreak, WriteCheck, WorkBegin, WorkSize,
       WorkAdvance, WorkLock, WorkRun, IrqRead, IrqQueue, DemuxStat, ClearCancel,
       ClearFill, vars
  <2> QED BY <1>3, <2>1
<1> QED
  BY <1>4, <1>5, <1>6, <1>7, <1>8, <1>9, <1>10
     DEF Next, Writer, Worker, Handler, User

(* fifo_worker, the ring and the FIFO together are the bounded queue that  *)
(* dvb_video_write takes them for: packets go to the FIFO in the order     *)
(* written, and none disappears but by VIDEO_CLEAR_BUFFER or a reset.      *)
THEOREM QueueTheorem == Spec => ImplementsQueue
<1>1. Init => Output!Init
  <2> SUFFICES ASSUME Init PROVE Output!Init
    OBVIOUS
  <2>1. WaitingInOrder
    BY InitInv, WaitingIs
  <2>2. Waiting = <<>>
    BY <2>1, NumbersAre DEF WaitingInOrder, Init
  <2> QED BY <2>2 DEF Init, Off, Output!Init
<1>2. IInv /\ IInv' /\ [Next]_vars => [Output!Next]_(Output!vars)
  BY QueueStep
<1> QED
  BY <1>1, <1>2, Inductive, PTL DEF Spec, ImplementsQueue, Output!Spec

-----------------------------------------------------------------------------
(* StiData.                                                                *)

(* The block last rung for has not been read to its end.                   *)
Unread == fw.reading \/ "block" \in phi

(* Its acknowledgement is raised and not served; served and not used.      *)
AckDue == "block" \in emi /\ ~Clearing("block")
Acked  == AckDue \/ block_done

(* READY has still to be raised, served or used.                           *)
ReadyDue == "data" \in emi /\ ~Clearing("data")
Ready    == fw.ready \/ ReadyDue \/ data_ready

(* The block with index i of the transfer, as its header says.             *)
Block(i) == [xfer |-> xfer, handle |-> data_handle, index |-> i,
             num |-> NumBlocks(len), size |-> SizeOf(len, i)]

InTransfer == call \in {"fill", "wait", "ring", "rung", "last"}

(* The handler serves what is raised.                                      *)
Serving ==
  /\ handler = "idle" <=> isr = {}
  /\ isr \subseteq emi

(* One rung block is at most at one place on its way there and back.       *)
OneAck ==
  /\ ~(fw.reading /\ "block" \in phi)
  /\ Unread => ~Acked
  /\ ~(AckDue /\ block_done)

(* READY is at one place, too, and not with a cancellation under way.      *)
OneReady ==
  /\ ~(fw.ready /\ (ReadyDue \/ data_ready)) /\ ~(ReadyDue /\ data_ready)
  /\ Ready => "data" \notin phi

(* Between transfers nothing is under way but a cancellation.              *)
Rest ==
  call \in {"free", "ready"} =>
    /\ ~Acked
    /\ "data" \notin phi => ~Unread /\ fw.half = 0

(* The blocks before blockIndex have been rung for, and blockIndex is the  *)
(* next or, in wait, ring and rung, already written.                       *)
Stage ==
  /\ call = "fill" => blockIndex < NumBlocks(len) /\ activeBlock = blockIndex % 2
  /\ call \in {"wait", "ring", "rung"} =>
       /\ blockIndex < NumBlocks(len) /\ activeBlock = (blockIndex + 1) % 2
       /\ half[blockIndex % 2] = Block(blockIndex)
  /\ call = "wait" => blockIndex > 0
  /\ call = "last" => blockIndex = NumBlocks(len)
  /\ call \in {"ring", "rung"} => ~Unread /\ ~AckDue
  /\ call = "rung" => ~block_done

(* Where the firmware is, and what it has got.                             *)
Progress ==
  InTransfer =>
    /\ "data" \notin phi
    /\ blockIndex = 0 => ~Unread /\ ~Acked /\ ~Ready /\ fw.half = 0
    /\ blockIndex > 0 /\ Unread =>
         /\ ~Ready
         /\ fw.half = (blockIndex - 1) % 2
         /\ half[(blockIndex - 1) % 2] = Block(blockIndex - 1)
         /\ blockIndex > 1 => fw.got = (blockIndex - 1) * BlockSize
    /\ blockIndex > 0 /\ ~Unread =>
         /\ blockIndex < NumBlocks(len) =>
              ~Ready /\ fw.half = blockIndex % 2 /\ fw.got = blockIndex * BlockSize
         /\ blockIndex = NumBlocks(len) =>
              fw.half = 0 /\ stored = Data(xfer, data_handle, len)

(* The last transfer that succeeded, until the next begins.                *)
Refers ==
  call \in {"free", "ready"} /\ ret.ok => stored = ret.data /\ "data" \notin phi

(* All of this holds unless an answer has crossed with its time-out.       *)
Peace == OneAck /\ OneReady /\ Rest /\ Stage /\ Progress /\ Refers

DataIInv == DataTypeOK /\ Serving /\ (~crossed => Peace)

-----------------------------------------------------------------------------
LEMMA Parity ==
  \A i \in Nat : /\ i % 2 \in {0, 1}
                 /\ (i + 1) % 2 = 1 - (i % 2)
                 /\ (i + 1) % 2 # i % 2
  OBVIOUS

(* The blocks make up the data: all but the last are full.                 *)
LEMMA BlocksAre ==
  ASSUME NEW m \in Nat
  PROVE  /\ NumBlocks(m) \in Nat
         /\ \A i \in Nat : SizeOf(m, i) \in 0 .. BlockSize
         /\ \A i \in Nat : i < NumBlocks(m) - 1 => SizeOf(m, i) = BlockSize
         /\ NumBlocks(m) > 0 => /\ NumBlocks(m) - 1 \in Nat
                                /\ (NumBlocks(m) - 1) * BlockSize
                                     + SizeOf(m, NumBlocks(m) - 1) = m
<1> DEFINE q == m \div BlockSize
<1> DEFINE r == m % BlockSize
<1>1. /\ BlockSize \in Nat \ {0} /\ r \in 0 .. BlockSize - 1 /\ q \in Int
      /\ m = BlockSize * q + r
  BY StiDataAssumption, DivMod
<1>2. q \in Nat /\ q * BlockSize \in Nat /\ BlockSize * q = q * BlockSize
  BY <1>1
<1>3. (q - 1) * BlockSize + BlockSize = q * BlockSize
  BY <1>1, <1>2
<1>4. NumBlocks(m) = q + (IF r > 0 THEN 1 ELSE 0)
  BY DEF NumBlocks
<1>5. \A i : SizeOf(m, i) = IF r > 0 /\ i = NumBlocks(m) - 1 THEN r ELSE BlockSize
  BY DEF SizeOf
<1> HIDE DEF q, r
<1>6. NumBlocks(m) \in Nat
  BY <1>1, <1>2, <1>4
<1>7. \A i \in Nat : SizeOf(m, i) \in 0 .. BlockSize
  BY <1>1, <1>5
<1>8. \A i \in Nat : i < NumBlocks(m) - 1 => SizeOf(m, i) = BlockSize
  BY <1>5, <1>6
<1>9. ASSUME NumBlocks(m) > 0
      PROVE  /\ NumBlocks(m) - 1 \in Nat
             /\ (NumBlocks(m) - 1) * BlockSize
                  + SizeOf(m, NumBlocks(m) - 1) = m
  <2>1. CASE r > 0
    <3>1. NumBlocks(m) - 1 = q /\ SizeOf(m, NumBlocks(m) - 1) = r
      BY <1>2, <1>4, <1>5, <2>1
    <3> QED BY <1>1, <1>2, <3>1
  <2>2. CASE ~(r > 0)
    <3>1. NumBlocks(m) - 1 = q - 1 /\ SizeOf(m, NumBlocks(m) - 1) = BlockSize
      BY <1>1, <1>2, <1>4, <1>5, <2>2
    <3>2. r = 0
      BY <1>1, <2>2
    <3>3. (q - 1) * BlockSize + BlockSize = m
      BY <1>1, <1>2, <1>3, <3>2
    <3>4. NumBlocks(m) - 1 \in Nat
      BY <1>6, <1>9
    <3> QED BY <3>1, <3>3, <3>4, Zenon
  <2> QED BY <2>1, <2>2
<1> QED BY <1>6, <1>7, <1>8, <1>9

LEMMA DataInitInv == DataInit => DataIInv
  <1> SUFFICES ASSUME DataInit PROVE DataIInv
    OBVIOUS
  <1> USE DEF DataInit
  <1>1. DataTypeOK
    <2>1. 0 \in 0 .. Handles - 1 /\ 0 \in 0 .. BlockSize /\ 0 \in 0 .. MaxXfers
      BY StiDataAssumption
    <2>2. half \in [{0, 1} -> [xfer : Nat, handle : 0 .. Handles - 1, index : Nat,
                               num : Nat, size : 0 .. BlockSize]]
      BY <2>1 DEF Nothing
    <2>3. ret \in [ok : BOOLEAN,
                   data : [xfer : Nat, handle : 0 .. Handles - 1, len : Nat]]
      BY <2>1 DEF Data
    <2>4. stored \in [xfer : Nat, handle : 0 .. Handles - 1, len : Nat]
      BY <2>1 DEF Data
    <2> QED BY <2>1, <2>2, <2>3, <2>4 DEF DataTypeOK, Sources
  <1>2. Serving /\ OneAck /\ OneReady /\ Rest
    BY DEF Serving, OneAck, OneReady, Rest, Unread, Acked, AckDue, Ready, ReadyDue
  <1>3. Stage /\ Progress /\ Refers
    BY DEF Stage, Progress, InTransfer, Refers
  <1> QED BY <1>1, <1>2, <1>3 DEF DataIInv, Peace

-----------------------------------------------------------------------------
(* The type invariant of StiData.                                          *)
LEMMA DataTypeStep == DataTypeOK /\ [DataNext]_dataVars => DataTypeOK'
  <1> SUFFICES ASSUME DataTypeOK, [DataNext]_dataVars PROVE DataTypeOK'
    OBVIOUS
  <1> USE DEF DataTypeOK, driverVars, isrVars, fwVars
  <1> USE StiDataAssumption
  <1>1. ASSUME NEW m \in Lengths, Call(m) PROVE DataTypeOK'
    BY <1>1 DEF Call
  <1>f. Fail => ret' \in [ok : BOOLEAN,
                  data : [xfer : Nat, handle : 0 .. Handles - 1, len : Nat]]
    BY DEF Fail, Data
  <1>2. CASE NotReady
    BY <1>2, <1>f DEF NotReady, Fail
  <1>3. CASE Begin
    <2>1. call' \in {"fill", "last"}
      BY <1>3 DEF Begin
    <2>2. xfer' \in 0 .. MaxXfers
      BY <1>3 DEF Begin
    <2> QED BY <1>3, <2>1, <2>2 DEF Begin
  <1>4. CASE Fill
    <2>1. NumBlocks(len) \in Nat /\ SizeOf(len, blockIndex) \in 0 .. BlockSize
      BY BlocksAre
    <2>2. half' \in [{0, 1} -> [xfer : Nat, handle : 0 .. Handles - 1, index : Nat,
                                num : Nat, size : 0 .. BlockSize]]
      BY <1>4, <2>1 DEF Fill
    <2>3. activeBlock' \in {0, 1} /\ call' \in {"wait", "ring"}
      BY <1>4 DEF Fill
    <2> QED BY <1>4, <2>2, <2>3 DEF Fill
  <1>5. CASE BlockDone \/ ClearDone
    BY <1>5 DEF BlockDone, ClearDone
  <1>6. CASE RingDecoder
    <2>1. call' \in {"fill", "last"} /\ phi' \subseteq Sources
      BY <1>6 DEF RingDecoder, Sources
    <2> QED BY <1>6, <2>1 DEF RingDecoder
  <1>7. CASE Finish
    <2>1. ret' \in [ok : BOOLEAN,
                    data : [xfer : Nat, handle : 0 .. Handles - 1, len : Nat]]
      BY <1>7 DEF Finish, Data
    <2>2. data_handle' \in 0 .. Handles - 1
      <3>1. data_handle + 1 \in Int /\ Handles \in Nat \ {0}
        OBVIOUS
      <3> QED BY <1>7, <3>1, DivMod DEF Finish
    <2> QED BY <1>7, <2>1, <2>2 DEF Finish
  <1>8. CASE Timeout
    BY <1>8, <1>f DEF Timeout, Fail, Sources
  <1>9. CASE IrqEnter \/ IrqBlock \/ IrqData
    BY <1>9 DEF IrqEnter, IrqBlock, IrqData
  <1>10. CASE IrqClear
    <2>1. handler' \in {"idle", "serve", "clear"}
      BY <1>10 DEF IrqClear
    <2> QED BY <1>10, <2>1 DEF IrqClear
  <1>11. CASE FwTake
    <2>1. fw' \in [half : {0, 1}, reading : BOOLEAN, got : Nat, ready : BOOLEAN]
      BY <1>11 DEF FwTake
    <2> QED BY <1>11, <2>1 DEF FwTake
  <1>12. CASE FwDone
    <2> DEFINE b == half[fw.half]
    <2> DEFINE got == b.size + (IF b.index = 0 THEN 0 ELSE fw.got)
    <2> DEFINE whole == b.index = b.num - 1
    <2>1. /\ b.size \in Nat /\ b.xfer \in Nat /\ b.handle \in 0 .. Handles - 1
          /\ fw.got \in Nat /\ fw.half \in {0, 1} /\ 1 - fw.half \in {0, 1}
      OBVIOUS
    <2>2. got \in Nat /\ whole \in BOOLEAN
      BY <2>1
    <2>3. /\ emi' = emi \cup {"block"}
          /\ fw' = [half |-> IF whole THEN 0 ELSE 1 - fw.half, reading |-> FALSE,
                    got |-> got, ready |-> whole]
          /\ stored' = IF whole THEN Data(b.xfer, b.handle, got) ELSE stored
      BY <1>12 DEF FwDone
    <2> HIDE DEF got, whole, b
    <2>4. fw' \in [half : {0, 1}, reading : BOOLEAN, got : Nat, ready : BOOLEAN]
      BY <2>1, <2>2, <2>3
    <2>5. stored' \in [xfer : Nat, handle : 0 .. Handles - 1, len : Nat]
      BY <2>1, <2>2, <2>3 DEF Data
    <2>6. emi' \subseteq Sources
      BY <2>3 DEF Sources
    <2> QED BY <1>12, <2>4, <2>5, <2>6 DEF FwDone
  <1>13. CASE FwReady
    <2>1. fw' \in [half : {0, 1}, reading : BOOLEAN, got : Nat, ready : BOOLEAN]
      BY <1>13 DEF FwReady
    <2>2. emi' \subseteq Sources
      BY <1>13 DEF FwReady, Sources
    <2>3. lost' \in BOOLEAN
      BY <1>13, Zenon DEF FwReady, Clearing
    <2>4. UNCHANGED <<call, len, blockIndex, activeBlock, data_handle, half, ret,
                      xfer, data_ready, block_done, phi, handler, isr, stored,
                      crossed>>
      BY <1>13 DEF FwReady
    <2> QED BY <2>1, <2>2, <2>3, <2>4
  <1>14. CASE FwCancel
    BY <1>14 DEF FwCancel
  <1>15. CASE UNCHANGED dataVars
    BY <1>15 DEF dataVars
  <1> QED
    BY <1>1, <1>2, <1>3, <1>4, <1>5, <1>6, <1>7, <1>8, <1>9, <1>10, <1>11,
       <1>12, <1>13, <1>14, <1>15 DEF DataNext, Caller, Interrupt, Firmware

-----------------------------------------------------------------------------
(* The handler serves what is in isr, "block" first.                       *)
LEMMA FirstIs ==
  ASSUME DataTypeOK, Serving, handler # "idle"
  PROVE  /\ First(isr) \in isr /\ First(isr) \in {"block", "data"}
         /\ First(isr) = "block" <=> "block" \in isr
         /\ First(isr) \in emi
  BY DEF DataTypeOK, Serving, First, Sources

(* What the handler does to an acknowledgement and to READY: they are      *)
(* raised, then served, and clearing them takes away what was served.      *)
LEMMA InterruptIs ==
  ASSUME DataTypeOK, Serving, Interrupt,
         ~(AckDue /\ block_done), ~(ReadyDue /\ data_ready)
  PROVE  /\ Serving'
         /\ AckDue' \/ block_done' <=> AckDue \/ block_done
         /\ ReadyDue' \/ data_ready' <=> ReadyDue \/ data_ready
         /\ ~(AckDue' /\ block_done') /\ ~(ReadyDue' /\ data_ready')
         /\ AckDue' => AckDue
         /\ UNCHANGED <<call, driverVars, phi, fwVars>>
  <1> USE DEF DataTypeOK, isrVars, driverVars, fwVars, AckDue, ReadyDue, Clearing
  <1>1. CASE IrqEnter
    BY <1>1 DEF IrqEnter, Serving
  <1>2. CASE IrqBlock
    BY <1>2, FirstIs DEF IrqBlock, Serving
  <1>3. CASE IrqData
    BY <1>3, FirstIs DEF IrqData, Serving
  <1>4. CASE IrqClear
    BY <1>4, FirstIs DEF IrqClear, Serving
  <1> QED BY <1>1, <1>2, <1>3, <1>4 DEF Interrupt

(* What the others leave alone of the handler and what it serves.          *)
LEMMA HandlerKept ==
  ASSUME isr' = isr, handler' = handler
  PROVE  /\ emi \subseteq emi' => (Serving => Serving')
         /\ emi' = emi => (AckDue' <=> AckDue) /\ (ReadyDue' <=> ReadyDue)
         /\ emi' = emi \cup {"block"} =>
              (ReadyDue' <=> ReadyDue) /\ (AckDue' <=> ~Clearing("block"))
         /\ emi' = emi \cup {"data"} =>
              (AckDue' <=> AckDue) /\ (ReadyDue' <=> ~Clearing("data"))
  BY DEF Serving, AckDue, ReadyDue, Clearing

-----------------------------------------------------------------------------
(* A block, its acknowledgement and READY are each at one place.           *)
LEMMA MailStep ==
  ASSUME DataTypeOK, Serving, Peace, ~crossed', [DataNext]_dataVars
  PROVE  (OneAck /\ OneReady)'
  <1> USE DEF Peace
  <1> USE DEF OneAck, OneReady, Unread, Acked, Ready, driverVars, isrVars, fwVars
  <1>1. CASE (\E m \in Lengths : Call(m)) \/ NotReady \/ Fill \/ BlockDone
    BY <1>1, HandlerKept DEF Call, NotReady, Fill, BlockDone, Fail
  <1>2. CASE Begin
    BY <1>2, HandlerKept DEF Begin
  <1>3. CASE ClearDone
    BY <1>3, HandlerKept DEF ClearDone
  <1>4. CASE RingDecoder
    <2>1. ~fw.reading /\ "block" \notin phi /\ ~AckDue /\ ~block_done /\ "data" \notin phi
      BY <1>4 DEF RingDecoder, Stage, Progress, InTransfer
    <2> QED BY <1>4, <2>1, HandlerKept DEF RingDecoder
  <1>5. CASE Finish
    BY <1>5, HandlerKept DEF Finish
  <1>6. CASE Timeout
    <2>1. ~Answered
      BY <1>6 DEF Timeout
    <2>2. ~Acked /\ ~Ready
      BY <2>1 DEF Answered, AckDue, ReadyDue
    <2> QED BY <1>6, <2>2, HandlerKept DEF Timeout, Fail
  <1>7. CASE Interrupt
    <2>1. UNCHANGED <<fw, phi>>
      BY <1>7, InterruptIs
    <2> QED BY <1>7, <2>1, InterruptIs
  <1>8. CASE FwTake
    <2>1. fw'.reading /\ fw'.ready = fw.ready /\ "block" \notin phi'
      BY <1>8 DEF FwTake, DataTypeOK
    <2>2. "data" \in phi' => "data" \in phi
      BY <1>8 DEF FwTake
    <2> QED BY <1>8, <2>1, <2>2, HandlerKept DEF FwTake
  <1>9. CASE FwDone
    <2>1. fw.reading /\ "data" \notin phi
      BY <1>9 DEF FwDone
    <2>2. ~fw'.reading /\ emi' = emi \cup {"block"}
      BY <1>9 DEF FwDone
    <2>3. ~Ready
      <3>1. InTransfer
        BY <2>1 DEF Rest, InTransfer, DataTypeOK
      <3> QED BY <2>1, <3>1 DEF Progress, DataTypeOK
    <2> QED BY <1>9, <2>1, <2>2, <2>3, HandlerKept DEF FwDone
  <1>10. CASE FwReady
    <2>1. fw.ready
      BY <1>10 DEF FwReady
    <2>2. ~fw'.ready /\ fw'.reading = fw.reading /\ emi' = emi \cup {"data"}
      BY <1>10 DEF FwReady, DataTypeOK
    <2> QED BY <1>10, <2>1, <2>2, HandlerKept DEF FwReady
  <1>11. CASE FwCancel
    BY <1>11, HandlerKept DEF FwCancel
  <1>12. CASE UNCHANGED dataVars
    BY <1>12, HandlerKept DEF dataVars
  <1> QED
    BY <1>1, <1>2, <1>3, <1>4, <1>5, <1>6, <1>7, <1>8, <1>9, <1>10, <1>11,
       <1>12 DEF DataNext, Caller, Firmware

-----------------------------------------------------------------------------
(* Where driver and firmware are in a transfer, and what the firmware has. *)
LEMMA BlockKept ==
  ASSUME len' = len, xfer' = xfer, data_handle' = data_handle
  PROVE  \A i : Block(i)' = Block(i)
  BY DEF Block

LEMMA StageStep ==
  ASSUME DataTypeOK, Serving, Peace, ~crossed', [DataNext]_dataVars
  PROVE  (Rest /\ Stage /\ Progress /\ Refers)'
  <1> USE DEF Peace, Unread, Acked, Ready, driverVars, isrVars, fwVars
  <1>0. /\ blockIndex \in Nat /\ NumBlocks(len) \in Nat /\ len \in Nat
        /\ call \in {"free", "ready"} <=> ~InTransfer
    BY BlocksAre DEF DataTypeOK, InTransfer
  <1>1. CASE (\E m \in Lengths : Call(m)) \/ NotReady
    BY <1>1, HandlerKept DEF Call, NotReady, Fail, Rest, Stage, Progress,
       Refers, InTransfer
  <1>2. CASE Begin
    <2>1. /\ call = "ready" /\ data_ready /\ len' = len /\ blockIndex' = 0
          /\ activeBlock' = 0 /\ ~data_ready'
          /\ call' = IF NumBlocks(len) > 0 THEN "fill" ELSE "last"
          /\ UNCHANGED <<half, block_done, phi, emi, isr, handler, fw>>
      BY <1>2 DEF Begin
    <2>2. "data" \notin phi /\ ~fw.ready /\ ~ReadyDue
      BY <2>1 DEF OneReady
    <2>3. ~Unread /\ ~Acked /\ fw.half = 0
      BY <2>1, <2>2 DEF Rest
    <2>4. 0 % 2 = 0
      OBVIOUS
    <2> QED BY <1>0, <2>1, <2>2, <2>3, <2>4, HandlerKept DEF Rest, Stage,
            Progress, Refers, InTransfer
  <1>3. CASE Fill
    <2>1. /\ call = "fill" /\ blockIndex < NumBlocks(len)
          /\ activeBlock = blockIndex % 2
      BY <1>3 DEF Fill, Stage
    <2>2. /\ half' = [half EXCEPT ![activeBlock] = Block(blockIndex)]
          /\ activeBlock' = 1 - activeBlock
          /\ call' = IF blockIndex > 0 THEN "wait" ELSE "ring"
          /\ UNCHANGED <<len, blockIndex, data_handle, ret, xfer, stored, data_ready,
                         block_done, phi, emi, isr, handler, fw>>
      BY <1>3 DEF Fill, Block
    <2>3. half'[blockIndex % 2] = Block(blockIndex)
      BY <1>0, <2>1, <2>2, Parity DEF DataTypeOK
    <2>4. blockIndex > 0 => half'[(blockIndex - 1) % 2] = half[(blockIndex - 1) % 2]
      <3>1. blockIndex > 0 => /\ blockIndex - 1 \in Nat
                              /\ (blockIndex - 1) % 2 # blockIndex % 2
                              /\ (blockIndex - 1) % 2 \in {0, 1}
        BY <1>0, Parity
      <3> QED BY <2>1, <2>2, <3>1 DEF DataTypeOK
    <2>5. activeBlock' = (blockIndex + 1) % 2
      BY <1>0, <2>1, <2>2, Parity
    <2>6. Stage'
      BY <1>0, <2>1, <2>2, <2>3, <2>5, BlockKept, HandlerKept DEF Stage, Progress,
         InTransfer
    <2>7. Progress'
      BY <1>0, <2>1, <2>2, <2>4, BlockKept, HandlerKept DEF Progress, InTransfer
    <2> QED BY <2>2, <2>6, <2>7 DEF Rest, Refers
  <1>4. CASE BlockDone
    <2>1. /\ call = "wait" /\ block_done /\ call' = "ring"
          /\ UNCHANGED <<len, blockIndex, activeBlock, data_handle, half, ret, xfer,
                         stored, data_ready, block_done, phi, emi, isr, handler, fw>>
      BY <1>4 DEF BlockDone
    <2>2. ~Unread /\ ~AckDue
      BY <2>1 DEF OneAck
    <2>3. Stage'
      BY <2>1, <2>2, BlockKept, HandlerKept DEF Stage
    <2>4. Progress'
      BY <1>0, <2>1, <2>2, BlockKept, HandlerKept DEF Progress, InTransfer, Stage
    <2> QED BY <2>1, <2>3, <2>4 DEF Rest, Refers
  <1>5. CASE ClearDone
    <2>1. /\ call = "ring" /\ ~block_done' /\ call' = "rung"
          /\ UNCHANGED <<len, blockIndex, activeBlock, data_handle, half, ret, xfer,
                         stored, data_ready, phi, emi, isr, handler, fw>>
      BY <1>5 DEF ClearDone
    <2>2. ~Unread /\ ~AckDue
      BY <2>1 DEF Stage
    <2>3. Stage'
      BY <2>1, <2>2, BlockKept, HandlerKept DEF Stage
    <2>4. Progress'
      BY <1>0, <2>1, <2>2, BlockKept, HandlerKept DEF Progress, InTransfer, Stage
    <2> QED BY <2>1, <2>3, <2>4 DEF Rest, Refers
  <1>6. CASE RingDecoder
    <2> DEFINE next1 == blockIndex + 1
    <2>1. /\ call = "rung" /\ phi' = phi \cup {"block"} /\ blockIndex' = next1
          /\ call' = IF next1 < NumBlocks(len) THEN "fill" ELSE "last"
          /\ UNCHANGED <<len, activeBlock, data_handle, half, ret, xfer, stored,
                         data_ready, block_done, emi, isr, handler, fw>>
      BY <1>6 DEF RingDecoder
    <2>2. /\ blockIndex < NumBlocks(len) /\ activeBlock = next1 % 2
          /\ half[blockIndex % 2] = Block(blockIndex)
          /\ ~Unread /\ ~Acked
      BY <2>1 DEF Stage
    <2>3. ~Ready /\ "data" \notin phi /\ fw.half = blockIndex % 2
          /\ (blockIndex > 0 => fw.got = blockIndex * BlockSize)
      BY <1>0, <2>1, <2>2 DEF Progress, InTransfer
    <2>4. /\ next1 \in Nat /\ next1 > 0 /\ next1 - 1 = blockIndex
          /\ next1 > 1 => blockIndex > 0
          /\ next1 < NumBlocks(len) \/ next1 = NumBlocks(len)
      BY <1>0, <2>2
    <2> HIDE DEF next1
    <2>5. Stage'
      BY <1>0, <2>1, <2>2, <2>4, BlockKept, HandlerKept DEF Stage
    <2>6. Progress'
      BY <1>0, <2>1, <2>2, <2>3, <2>4, BlockKept, HandlerKept DEF Progress, InTransfer
    <2> QED BY <2>1, <2>5, <2>6 DEF Rest, Refers
  <1>7. CASE Finish
    <2>1. /\ call = "last" /\ block_done /\ call' = "free" /\ ~block_done'
          /\ ret' = [ok |-> TRUE, data |-> Data(xfer, data_handle, len)]
          /\ UNCHANGED <<stored, phi, emi, isr, handler, fw>>
      BY <1>7 DEF Finish
    <2>2. ~Unread /\ ~AckDue
      BY <2>1 DEF OneAck
    <2>3. /\ blockIndex > 0 /\ blockIndex = NumBlocks(len) /\ "data" \notin phi
          /\ fw.half = 0 /\ stored = Data(xfer, data_handle, len)
      BY <1>0, <2>1, <2>2 DEF Stage, Progress, InTransfer
    <2> QED BY <2>1, <2>2, <2>3, HandlerKept DEF Rest, Stage, Progress, Refers, InTransfer
  <1>8. CASE Timeout
    <2>1. ~block_done /\ "block" \notin emi /\ call' = "free" /\ ~ret'.ok
      BY <1>8 DEF Timeout, Answered, Fail
    <2>2. emi' = emi /\ isr' = isr /\ handler' = handler /\ block_done' = block_done
          /\ "data" \in phi'
      BY <1>8 DEF Timeout
    <2> QED BY <2>1, <2>2 DEF Rest, Stage, Progress, Refers,
            InTransfer, AckDue
  <1>9. CASE Interrupt
    <2>1. /\ UNCHANGED <<call, len, blockIndex, activeBlock, data_handle, half, ret,
                         xfer, stored, phi, fw>>
          /\ Acked' <=> Acked
          /\ Ready' <=> Ready
          /\ AckDue' => AckDue
      BY <1>9, InterruptIs DEF OneAck, OneReady
    <2>2. Rest' /\ Refers'
      BY <2>1 DEF Rest, Refers
    <2>3. Stage'
      BY <2>1, BlockKept DEF Stage
    <2>4. Progress'
      BY <2>1, BlockKept DEF Progress, InTransfer
    <2> QED BY <2>2, <2>3, <2>4
  <1>10. CASE FwTake
    <2>1. /\ "block" \in phi /\ ~fw.reading /\ phi' = phi \ {"block"}
          /\ fw' = [fw EXCEPT !.reading = TRUE]
          /\ UNCHANGED <<call, len, blockIndex, activeBlock, data_handle, half, ret,
                         xfer, stored, data_ready, block_done, emi, isr, handler>>
      BY <1>10 DEF FwTake
    <2>2. /\ fw'.reading /\ fw'.half = fw.half /\ fw'.got = fw.got
          /\ fw'.ready = fw.ready
      BY <2>1 DEF DataTypeOK
    <2>3. Rest' /\ Refers'
      BY <2>1, <2>2, HandlerKept DEF Rest, Refers
    <2>4. Stage'
      BY <2>1, <2>2, BlockKept, HandlerKept DEF Stage
    <2>5. Progress'
      BY <2>1, <2>2, BlockKept, HandlerKept DEF Progress, InTransfer
    <2> QED BY <2>3, <2>4, <2>5
  <1>11. CASE FwDone
    <2> DEFINE b == half[fw.half]
    <2> DEFINE got == b.size + (IF b.index = 0 THEN 0 ELSE fw.got)
    <2> DEFINE whole == b.index = b.num - 1
    <2> DEFINE prev == blockIndex - 1
    <2>1. /\ fw.reading /\ "data" \notin phi
          /\ emi' = emi \cup {"block"}
          /\ fw' = [half |-> IF whole THEN 0 ELSE 1 - fw.half, reading |-> FALSE,
                    got |-> got, ready |-> whole]
          /\ stored' = IF whole THEN Data(b.xfer, b.handle, got) ELSE stored
          /\ UNCHANGED <<call, len, blockIndex, activeBlock, data_handle, half, ret,
                         xfer, data_ready, block_done, phi, isr, handler>>
      BY <1>11 DEF FwDone
    <2>2. InTransfer /\ blockIndex > 0
      BY <1>0, <2>1 DEF Rest, Progress
    <2>3. /\ ~Ready /\ fw.half = prev % 2 /\ b = Block(prev)
          /\ blockIndex > 1 => fw.got = prev * BlockSize
      BY <2>1, <2>2 DEF Progress
    <2>4. /\ b.xfer = xfer /\ b.handle = data_handle /\ b.index = prev
          /\ b.num = NumBlocks(len) /\ b.size = SizeOf(len, prev)
      BY <2>3 DEF Block
    <2>5. prev \in Nat /\ prev + 1 = blockIndex /\ BlockSize \in Nat
      BY <1>0, <2>2, StiDataAssumption
    <2>6. got = prev * BlockSize + SizeOf(len, prev)
      <3>1. CASE prev = 0
        <4>1. SizeOf(len, prev) \in 0 .. BlockSize
          BY <1>0, <2>5, BlocksAre
        <4>2. prev * BlockSize = 0
          BY <2>5, <3>1
        <4>3. got = SizeOf(len, prev)
          BY <2>4, <2>5, <3>1, <4>1
        <4> QED BY <2>5, <4>1, <4>2, <4>3
      <3>2. CASE prev # 0
        <4>1. SizeOf(len, prev) \in Nat /\ prev * BlockSize \in Nat
              /\ fw.got = prev * BlockSize
          BY <1>0, <2>3, <2>5, <3>2, BlocksAre
        <4> QED BY <2>4, <3>2, <4>1
      <3> QED BY <3>1, <3>2
    <2>7. call \notin {"ring", "rung"} /\ "block" \notin phi /\ blockIndex <= NumBlocks(len)
      BY <1>0, <2>1, <2>2 DEF Stage, OneAck, InTransfer
    <2>8. ~fw'.reading
      BY <2>1
    <2>9. CASE blockIndex = NumBlocks(len)
      <3>1. whole /\ got = len
        BY <1>0, <2>4, <2>5, <2>6, <2>9, BlocksAre
      <3>2. fw'.half = 0 /\ stored' = Data(xfer, data_handle, len)
        BY <2>1, <2>4, <3>1
      <3> HIDE DEF b, got, whole, prev
      <3>3. Progress'
        BY <1>0, <2>1, <2>2, <2>7, <2>8, <2>9, <3>2, BlockKept DEF Progress, InTransfer
      <3>4. Stage'
        BY <2>1, <2>7, <2>8, <2>9, BlockKept DEF Stage
      <3> QED BY <2>1, <2>2, <3>3, <3>4 DEF Rest, Refers, InTransfer
    <2>10. CASE blockIndex < NumBlocks(len)
      <3>1. ~whole /\ SizeOf(len, prev) = BlockSize
        <4>1. blockIndex \in Nat /\ NumBlocks(len) \in Nat /\ prev < NumBlocks(len) - 1
          BY <1>0, <2>5, <2>10
        <4>2. SizeOf(len, prev) = BlockSize
          BY <1>0, <2>5, <4>1, BlocksAre
        <4> QED BY <2>4, <2>5, <4>1, <4>2
      <3>2. fw'.half = blockIndex % 2 /\ ~fw'.ready /\ stored' = stored
        BY <2>1, <2>3, <2>5, <3>1, Parity
      <3>3. fw'.got = blockIndex * BlockSize
        <4>1. prev * BlockSize + BlockSize = (prev + 1) * BlockSize
          BY <2>5
        <4>2. fw'.got = prev * BlockSize + BlockSize
          BY <2>1, <2>6, <3>1
        <4> QED BY <2>5, <4>1, <4>2, Zenon
      <3> HIDE DEF b, got, whole, prev
      <3>4. ~Ready'
        BY <2>1, <2>3, <3>2, HandlerKept
      <3>5. Progress'
        BY <1>0, <2>1, <2>2, <2>7, <2>8, <2>10, <3>2, <3>3, <3>4, BlockKept
           DEF Progress, InTransfer
      <3>6. Stage'
        BY <2>1, <2>7, <2>8, <2>10, BlockKept DEF Stage
      <3> QED BY <2>1, <2>2, <3>2, <3>5, <3>6 DEF Rest, Refers, InTransfer
    <2> QED BY <1>0, <2>7, <2>9, <2>10
  <1>12. CASE FwReady
    <2>1. /\ fw.ready /\ emi' = emi \cup {"data"}
          /\ fw' = [fw EXCEPT !.ready = FALSE]
          /\ UNCHANGED <<call, len, blockIndex, activeBlock, data_handle, half, ret,
                         xfer, stored, data_ready, block_done, phi, isr, handler>>
      BY <1>12 DEF FwReady
    <2>2. fw'.reading = fw.reading /\ fw'.half = fw.half /\ fw'.got = fw.got
      BY <2>1 DEF DataTypeOK
    <2>3. Rest' /\ Refers'
      BY <2>1, <2>2, HandlerKept DEF Rest, Refers
    <2>4. Stage'
      BY <2>1, <2>2, BlockKept, HandlerKept DEF Stage
    <2>5. Progress'
      BY <2>1, <2>2, BlockKept, HandlerKept DEF Progress, InTransfer
    <2> QED BY <2>3, <2>4, <2>5
  <1>13. CASE FwCancel
    <2>1. /\ "data" \in phi /\ phi' = {} /\ ~fw'.reading /\ fw'.half = 0
          /\ UNCHANGED <<call, ret, stored, block_done, emi, isr, handler>>
      BY <1>13 DEF FwCancel
    <2>2. call \in {"free", "ready"}
      BY <1>0, <2>1 DEF Progress
    <2> QED BY <2>1, <2>2, HandlerKept DEF Rest, Stage, Progress, Refers,
            InTransfer
  <1>14. CASE UNCHANGED dataVars
    <2>1. UNCHANGED <<call, len, blockIndex, activeBlock, data_handle, half, ret,
                      xfer, stored, data_ready, block_done, phi, emi, isr, handler, fw>>
      BY <1>14 DEF dataVars
    <2>2. Stage'
      BY <2>1, BlockKept, HandlerKept DEF Stage
    <2>3. Progress'
      BY <2>1, BlockKept, HandlerKept DEF Progress, InTransfer
    <2> QED BY <2>1, <2>2, <2>3, HandlerKept DEF Rest, Refers
  <1> QED
    BY <1>1, <1>2, <1>3, <1>4, <1>5, <1>6, <1>7, <1>8, <1>9, <1>10, <1>11,
       <1>12, <1>13, <1>14 DEF DataNext, Caller, Firmware

-----------------------------------------------------------------------------
(* The theorems about StiData.                                             *)

(* The handler serves what is raised, crossed or not.                      *)
LEMMA ServingStep ==
  ASSUME DataTypeOK, Serving, [DataNext]_dataVars
  PROVE  Serving'
  <1> USE DEF driverVars, isrVars, fwVars
  <1>1. CASE (\E m \in Lengths : Call(m)) \/ NotReady \/ Caller
    BY <1>1, HandlerKept DEF Call, NotReady, Caller, Begin, Fill, BlockDone,
       ClearDone, RingDecoder, Finish, Timeout
  <1>2. CASE IrqEnter
    BY <1>2 DEF IrqEnter, Serving
  <1>3. CASE IrqBlock
    BY <1>3, FirstIs DEF IrqBlock, Serving
  <1>4. CASE IrqData
    BY <1>4, FirstIs DEF IrqData, Serving
  <1>5. CASE IrqClear
    BY <1>5, FirstIs DEF IrqClear, Serving, DataTypeOK
  <1>6. CASE Firmware
    BY <1>6, HandlerKept DEF Firmware, FwTake, FwDone, FwReady, FwCancel
  <1>7. CASE UNCHANGED dataVars
    BY <1>7, HandlerKept DEF dataVars
  <1> QED BY <1>1, <1>2, <1>3, <1>4, <1>5, <1>6, <1>7 DEF DataNext, Interrupt

(* No step takes back a crossing but a transfer that begins in peace.      *)
LEMMA CrossedIs ==
  ASSUME DataTypeOK, [DataNext]_dataVars, ~crossed'
  PROVE  ~crossed \/ (Begin /\ Settled)
  <1>1. CASE (\E m \in Lengths : Call(m)) \/ NotReady \/ Caller
    BY <1>1 DEF Call, NotReady, Caller, Begin, Fill, BlockDone, ClearDone,
       RingDecoder, Finish, Timeout
  <1>2. CASE Interrupt \/ Firmware
    BY <1>2 DEF Interrupt, IrqEnter, IrqBlock, IrqData, IrqClear, Firmware,
       FwTake, FwDone, FwReady, FwCancel
  <1>3. CASE UNCHANGED dataVars
    BY <1>3 DEF dataVars
  <1> QED BY <1>1, <1>2, <1>3 DEF DataNext

LEMMA PeaceBegins ==
  ASSUME DataTypeOK, Begin, Settled
  PROVE  Peace'
  <1>1. /\ blockIndex' = 0 /\ activeBlock' = 0 /\ len' = len /\ ~data_ready'
        /\ call' = IF NumBlocks(len) > 0 THEN "fill" ELSE "last"
        /\ UNCHANGED <<block_done, phi, emi, fw>>
    BY DEF Begin, driverVars, isrVars, fwVars
  <1>2. /\ phi' = {} /\ emi' = {} /\ ~block_done' /\ ~fw'.reading
        /\ ~fw'.ready /\ fw'.half = 0
    BY <1>1 DEF Settled
  <1>3. OneAck' /\ OneReady' /\ Rest' /\ Refers'
    BY <1>1, <1>2 DEF OneAck, OneReady, Rest, Refers, Unread, Acked, AckDue, Ready,
       ReadyDue
  <1>4. 0 % 2 = 0 /\ NumBlocks(len) \in Nat
    <2>1. 0 % 2 = 0
      OBVIOUS
    <2>2. len \in Nat
      BY DEF DataTypeOK
    <2> QED BY <2>1, <2>2, BlocksAre
  <1>5. Stage'
    BY <1>1, <1>2, <1>4 DEF Stage
  <1>6. Progress'
    BY <1>1, <1>2 DEF Progress, InTransfer, Unread, Acked, AckDue, Ready, ReadyDue
  <1> QED BY <1>3, <1>5, <1>6 DEF Peace

LEMMA DataInductive == DataSpec => []DataIInv
  <1>1. ASSUME DataIInv, [DataNext]_dataVars PROVE DataIInv'
    <2>1. DataTypeOK' /\ Serving'
      BY <1>1, DataTypeStep, ServingStep DEF DataIInv
    <2>2. ASSUME ~crossed' PROVE Peace'
      <3>1. CASE ~crossed
        BY <1>1, <2>2, <3>1, MailStep, StageStep DEF DataIInv, Peace
      <3>2. CASE Begin /\ Settled
        BY <1>1, <3>2, PeaceBegins DEF DataIInv
      <3> QED BY <1>1, <2>2, <3>1, <3>2, CrossedIs DEF DataIInv
    <2> QED BY <2>1, <2>2 DEF DataIInv
  <1> QED BY DataInitInv, <1>1, PTL DEF DataSpec

(* Every variable of the block transfer keeps its type.                    *)
THEOREM DataTypeCorrect == DataSpec => []DataTypeOK
  <1>1. DataInit => DataTypeOK
    BY DataInitInv DEF DataIInv
  <1> QED BY <1>1, DataTypeStep, PTL DEF DataSpec

(* sti7109_do_raw_data returns success only when the firmware has all of   *)
(* the data, for every length, under the handle it returns - after any     *)
(* time-outs and cancellations, unless an answer has come too late for one *)
(* and no transfer has begun since with nothing left over.                 *)
THEOREM HandleTheorem == DataSpec => []HandleRefers
  <1>1. DataIInv => HandleRefers
    BY DEF DataIInv, Peace, Refers, HandleRefers
  <1> QED BY <1>1, DataInductive, PTL

(* sti7109_do_raw_data never writes into the half the firmware reads or is *)
(* about to read, though it writes a block while the one before is read;   *)
(* with the same exception.                                                *)
THEOREM HalvesTheorem == DataSpec => HalfNotInUse
  <1>1. ASSUME DataIInv, [DataNext]_dataVars
        PROVE  [~crossed => \A b \in {0, 1} :
                  half'[b] # half[b] => ~InUse(b)]_dataVars
    <2> SUFFICES ASSUME ~crossed, NEW b \in {0, 1}, half'[b] # half[b]
                 PROVE  ~InUse(b)
      OBVIOUS
    <2>1. Fill
      BY <1>1 DEF DataNext, Caller, Interrupt, Firmware, dataVars, driverVars, Call,
         NotReady, Begin, BlockDone, ClearDone, RingDecoder, Finish, Timeout,
         IrqEnter, IrqBlock, IrqData, IrqClear, FwTake, FwDone, FwReady, FwCancel
    <2>2. b = activeBlock /\ call = "fill"
      BY <1>1, <2>1 DEF Fill, DataIInv, DataTypeOK
    <2>3. b = blockIndex % 2 /\ blockIndex \in Nat
      BY <1>1, <2>2 DEF DataIInv, Peace, Stage, DataTypeOK
    <2>4. Unread => blockIndex > 0 /\ fw.half = (blockIndex - 1) % 2
      BY <1>1, <2>2, <2>3 DEF DataIInv, Peace, Progress, InTransfer
    <2>5. Unread => fw.half # b
      <3>1. blockIndex > 0 => /\ blockIndex - 1 \in Nat
                              /\ (blockIndex - 1) % 2 # blockIndex % 2
        BY <2>3, Parity
      <3> QED BY <2>3, <2>4, <3>1
    <2> QED BY <2>5 DEF InUse, Unread
  <1> QED BY <1>1, DataInductive, PTL DEF DataSpec, HalfNotInUse
=============================================================================
