-------------------------- MODULE DmaStream_proofs --------------------------
(***************************************************************************)
(* Theorems about DmaStream for every ring size, margin, status convention *)
(* and bound that DmaAssumption admits.                                    *)
(***************************************************************************)
EXTENDS DmaStream, TLAPS

-----------------------------------------------------------------------------
(* Indexes modulo a positive N: what the ring's arithmetic rests on.       *)

(* Division with remainder.                                                *)
LEMMA DivMod ==
  ASSUME NEW N \in Nat \ {0}, NEW a \in Int
  PROVE  /\ a % N \in 0 .. N - 1
         /\ a \div N \in Int
         /\ a = N * (a \div N) + (a % N)
  OBVIOUS

(* The remainder is determined by any such equation.                       *)
LEMMA ModUnique ==
  ASSUME NEW N \in Nat \ {0}, NEW k \in Int, NEW r \in 0 .. N - 1
  PROVE  (N * k + r) % N = r
  OBVIOUS

LEMMA MulSub ==
  ASSUME NEW N \in Int, NEW p \in Int, NEW q \in Int
  PROVE  /\ N * p \in Int /\ N * q \in Int
         /\ N * (p - q) = N * p - N * q
         /\ N * (p + q) = N * p + N * q
  OBVIOUS

LEMMA MulBound ==
  ASSUME NEW N \in Nat \ {0}, NEW q \in Int
  PROVE  /\ q >= 1 => N * q >= N
         /\ q <= -1 => N * q <= -N
         /\ q = 0 => N * q = 0
  OBVIOUS

(* Multiples of N do not matter.                                           *)
LEMMA ModShift ==
  ASSUME NEW N \in Nat \ {0}, NEW a \in Int, NEW k \in Int
  PROVE  (a + N * k) % N = a % N
<1> DEFINE q == a \div N
<1> DEFINE r == a % N
<1>1. q \in Int /\ r \in 0 .. N - 1 /\ a = N * q + r
  BY DivMod
<1>2. N * q \in Int /\ N * k \in Int /\ N * (q + k) = N * q + N * k
  BY <1>1, MulSub
<1> HIDE DEF q, r
<1>3. a + N * k = N * (q + k) + r /\ q + k \in Int
  BY <1>1, <1>2
<1>4. (N * (q + k) + r) % N = r
  BY <1>1, <1>3, ModUnique
<1> QED
  BY <1>3, <1>4 DEF r

(* A remainder may be taken before an addition or a subtraction.           *)
LEMMA ModAdd ==
  ASSUME NEW N \in Nat \ {0}, NEW a \in Int, NEW c \in Int
  PROVE  /\ ((a % N) + c) % N = (a + c) % N
         /\ (c - (a % N)) % N = (c - a) % N
<1> DEFINE q == a \div N
<1> DEFINE r == a % N
<1>1. q \in Int /\ r \in 0 .. N - 1 /\ a = N * q + r
  BY DivMod
<1>2. N * q \in Int /\ N * (0 - q) \in Int /\ N * (0 - q) = 0 - N * q
  BY <1>1, MulSub
<1> HIDE DEF q, r
<1>3. (r + c) % N = (a + c) % N
  <2>1. a + c = (r + c) + N * q /\ r + c \in Int
    BY <1>1, <1>2
  <2> QED
    BY <2>1, <1>1, ModShift
<1>4. (c - r) % N = (c - a) % N
  <2>1. c - a = (c - r) + N * (0 - q) /\ c - r \in Int /\ 0 - q \in Int
    BY <1>1, <1>2
  <2> QED
    BY <2>1, ModShift
<1> QED
  BY <1>3, <1>4 DEF r

(* Two numbers less than N apart with the same remainder are the same.     *)
LEMMA ModEq ==
  ASSUME NEW N \in Nat \ {0}, NEW a \in Int, NEW b \in Int,
         a % N = b % N, a - N < b, b < a + N
  PROVE  a = b
<1> DEFINE p == a \div N
<1> DEFINE q == b \div N
<1> DEFINE r == a % N
<1>1. p \in Int /\ q \in Int /\ r \in 0 .. N - 1 /\ a = N * p + r /\ b = N * q + r
  BY DivMod
<1>2. N * p \in Int /\ N * q \in Int /\ N * (q - p) = N * q - N * p
  BY <1>1, MulSub
<1> HIDE DEF p, q, r
<1>3. b - a = N * (q - p) /\ q - p \in Int
  BY <1>1, <1>2
<1>4. CASE q - p >= 1
  BY <1>3, <1>4, MulBound
<1>5. CASE q - p <= -1
  BY <1>3, <1>5, MulBound
<1>6. CASE q - p = 0
  BY <1>3, <1>6, MulBound
<1> QED
  BY <1>3, <1>4, <1>5, <1>6

(* Small numbers are their own remainder; no remainder exceeds its number. *)
LEMMA ModSmall ==
  ASSUME NEW N \in Nat \ {0}, NEW a \in Nat
  PROVE  /\ a < N => a % N = a
         /\ a % N <= a
<1>1. ASSUME a < N PROVE a % N = a
  <2>1. a \in 0 .. N - 1 /\ N * 0 + a = a
    BY <1>1
  <2> QED
    BY <2>1, ModUnique
<1>2. CASE a >= N
  BY <1>2, DivMod
<1> QED
  BY <1>1, <1>2

(* The next index.                                                         *)
LEMMA ModInc ==
  ASSUME NEW N \in Nat \ {0}, NEW a \in Int
  PROVE  (a + 1) % N = IF a % N = N - 1 THEN 0 ELSE (a % N) + 1
<1>1. a % N \in 0 .. N - 1
  BY DivMod
<1>2. (a + 1) % N = ((a % N) + 1) % N
  <2> DEFINE one == 1
  <2>1. one \in Int
    OBVIOUS
  <2> HIDE DEF one
  <2>2. ((a % N) + one) % N = (a + one) % N
    BY <2>1, ModAdd
  <2> QED
    BY <2>2 DEF one
<1>3. CASE a % N = N - 1
  <2>1. (a % N) + 1 = N * 1 + 0
    BY <1>3
  <2> QED
    BY <1>2, <1>3, <2>1, ModUnique
<1>4. CASE a % N # N - 1
  <2>1. (a % N) + 1 \in Nat /\ (a % N) + 1 < N
    BY <1>1, <1>4
  <2> QED
    BY <1>2, <1>4, <2>1, ModSmall
<1> QED
  BY <1>3, <1>4

-----------------------------------------------------------------------------
(* The ring size is positive and every index stays inside the ring.        *)
LEMMA IndexTypes ==
  /\ Buffers \in Nat \ {0} /\ Margin \in Nat /\ Margin >= 1 /\ Margin < Buffers
  /\ \A a \in Int : a % Buffers \in Slots
  BY DmaAssumption, DivMod DEF Margin, Slots

(* The slot of filling n, counted back or on from the one being filled.    *)
At(n) == (slot - (done - n)) % Buffers

(* What the lemmas about slots need of the types.                          *)
Counted == done \in Nat /\ slot \in Slots /\ ring \in [Slots -> Int] /\ start \in Nat

LEMMA CountedOf == TypeOK => Counted
  BY DEF TypeOK, Counted

LEMMA SlotType == Counted => slot \in Int /\ done \in Int
  BY DEF Counted, Slots

LEMMA AtType ==
  ASSUME Counted, NEW n \in Int
  PROVE  At(n) \in Slots
<1> DEFINE a == slot - (done - n)
<1>1. a \in Int
  BY SlotType
<1> HIDE DEF a
<1>2. a % Buffers \in Slots
  BY <1>1, IndexTypes
<1> QED
  BY <1>2 DEF At, a

(* The slot being filled is that of the filling to come.                   *)
LEMMA AtDone == Counted => At(done) = slot
<1> SUFFICES ASSUME Counted PROVE At(done) = slot
  OBVIOUS
<1>1. slot - (done - done) = slot /\ slot \in Nat /\ slot < Buffers
  BY DmaAssumption DEF Counted, Slots
<1>2. slot % Buffers = slot
  BY <1>1, IndexTypes, ModSmall
<1> QED
  BY <1>1, <1>2 DEF At

(* The slot behind that of filling n is that of n + 1.                     *)
LEMMA AtInc ==
  ASSUME Counted, NEW n \in Int
  PROVE  /\ Inc(At(n)) = At(n + 1)
         /\ At(n) = Buffers - 1 => At(n + 1) = 0
         /\ At(n) # Buffers - 1 => At(n + 1) = At(n) + 1
<1> DEFINE a == slot - (done - n)
<1> DEFINE one == 1
<1>1. Buffers \in Nat \ {0} /\ one \in Int /\ a \in Int
  BY IndexTypes, SlotType
<1>2. slot - (done - (n + 1)) = a + 1
  BY SlotType
<1>3. At(n) = a % Buffers /\ At(n + 1) = (a + 1) % Buffers
  BY <1>2 DEF At
<1> HIDE DEF a
<1>4. ((a % Buffers) + one) % Buffers = (a + one) % Buffers
  <2> HIDE DEF one
  <2> QED
    BY <1>1, ModAdd
<1> QED
  BY <1>1, <1>3, <1>4, ModInc DEF Inc

(* Fillings less than a ring apart have different slots.                   *)
LEMMA AtDiffers ==
  ASSUME Counted, NEW n \in Int, NEW m \in Int, n < m, m < n + Buffers
  PROVE  At(n) # At(m)
<1> SUFFICES ASSUME At(n) = At(m) PROVE FALSE
  OBVIOUS
<1> DEFINE a == slot - (done - n)
<1> DEFINE b == slot - (done - m)
<1>1. a \in Int /\ b \in Int /\ b - a = m - n
  BY SlotType
<1>2. a % Buffers = b % Buffers
  BY DEF At
<1> HIDE DEF a, b
<1>3. a - Buffers < b /\ b < a + Buffers /\ a # b
  BY <1>1, IndexTypes
<1> QED
  BY <1>1, <1>2, <1>3, IndexTypes, ModEq

(* A filling more, and the engine one slot on, leave every slot in place.  *)
LEMMA AtFill ==
  ASSUME Counted, slot' = Inc(slot), done' = done + 1, NEW n \in Int
  PROVE  (slot' - (done' - n)) % Buffers = At(n)
<1> DEFINE a == slot + 1
<1> DEFINE c == n - (done + 1)
<1>1. a \in Int /\ c \in Int /\ a + c = slot - (done - n)
  BY SlotType
<1>2. slot' - (done' - n) = (a % Buffers) + c
  <2>1. slot' = a % Buffers /\ slot' \in Int
    BY <1>1, IndexTypes, DivMod DEF Inc
  <2> QED
    BY <2>1, SlotType
<1> HIDE DEF a, c
<1>3. ((a % Buffers) + c) % Buffers = (a + c) % Buffers
  BY <1>1, IndexTypes, ModAdd
<1> QED
  BY <1>1, <1>2, <1>3 DEF At

(* Where the tasklet stops: the slot of the filling Margin before done.    *)
LEMMA TaskletStopIs ==
  ASSUME Counted
  PROVE  TaskletStop = At(done - Margin) /\ done - Margin \in Int
<1> DEFINE a == slot - StatLag
<1> DEFINE c == 1 - PreBuffers
<1>1. /\ Buffers \in Nat \ {0} /\ a \in Int /\ c \in Int /\ done - Margin \in Int
      /\ a + c = slot - (done - (done - Margin))
  BY DmaAssumption, SlotType DEF Margin
<1>2. TaskletStop = ((a % Buffers) + c) % Buffers
  <2>1. a % Buffers \in Int
    BY <1>1, DivMod
  <2>2. (a % Buffers) - PreBuffers + 1 = (a % Buffers) + c
    BY <2>1, DmaAssumption
  <2> QED
    BY <2>2 DEF TaskletStop, DMA_STAT
<1> HIDE DEF a, c
<1>3. ((a % Buffers) + c) % Buffers = (a + c) % Buffers
  BY <1>1, ModAdd
<1> QED
  BY <1>1, <1>2, <1>3 DEF At

OutType == [live : BOOLEAN, body : Int, tail : Int, offset : Offsets]

LEMMA NoBufferType == NoBuffer \in OutType
  BY DmaAssumption DEF NoBuffer, OutType

-----------------------------------------------------------------------------
LEMMA DmaTypeInit == Init => TypeOK
<1> SUFFICES ASSUME Init PROVE TypeOK
  OBVIOUS
<1>1. 0 \in Slots /\ 0 \in Offsets /\ 0 \in 0 .. MaxFeeds /\ 0 \in 0 .. PreBuffers
  BY DmaAssumption DEF Slots
<1>2. out \in [live : BOOLEAN, body : Int, tail : Int, offset : Offsets]
  BY NoBufferType DEF Init, OutType
<1>3. /\ done \in Nat /\ start \in Nat /\ inFlight \in 0 .. 3 /\ stale \in Nat
      /\ spill \in Int /\ pos \in Int /\ stopPos \in Int
      /\ ring \in [Slots -> Int]
  BY DEF Init
<1>4. /\ feeds \in 0 .. MaxFeeds /\ cnt \in 0 .. PreBuffers
      /\ next_buffer \in Slots /\ read_buffer \in Slots /\ stop_buffer \in Slots
      /\ offset \in Offsets /\ slot \in Slots
  BY <1>1 DEF Init
<1>5. /\ dmaEn \in BOOLEAN /\ dmaIe \in BOOLEAN /\ intStat \in BOOLEAN
      /\ sched \in BOOLEAN /\ sound \in BOOLEAN /\ slept \in BOOLEAN
      /\ irq \in {"idle", "acked"} /\ tasklet \in {"idle", "loop", "filter"}
  BY DEF Init
<1> QED
  BY <1>2, <1>3, <1>4, <1>5 DEF TypeOK

LEMMA DmaTypeStep == TypeOK /\ [Next]_vars => TypeOK'
<1> SUFFICES ASSUME TypeOK, [Next]_vars PROVE TypeOK'
  OBVIOUS
<1> USE DEF TypeOK
<1>0. 0 \in Slots /\ Buffers - 1 \in Slots
  BY DmaAssumption DEF Slots
<1>1. CASE HwFill
  <2>1. Inc(slot) \in Slots
    <3>1. slot + 1 \in Int
      BY DEF Slots
    <3> QED
      BY <3>1, IndexTypes DEF Inc
  <2>2. ring' \in [Slots -> Int] /\ done' \in Nat
    BY <1>1 DEF HwFill
  <2> QED
    BY <1>1, <2>1, <2>2 DEF HwFill
<1>2. CASE IrqAck
  BY <1>2 DEF IrqAck, taskletVars
<1>3. CASE IrqSchedule
  BY <1>3 DEF IrqSchedule, hwVars, taskletVars
<1>4. CASE TaskletPreBuffer
  <2>1. TaskletStop \in Slots /\ done - Margin \in Int
    BY TaskletStopIs, AtType, CountedOf
  <2>2. cnt' \in 0 .. PreBuffers
    BY <1>4, DmaAssumption DEF TaskletPreBuffer
  <2> QED
    BY <1>4, <2>1, <2>2 DEF TaskletPreBuffer, hwVars
<1>5. CASE TaskletStart
  <2>1. TaskletStop \in Slots /\ done - Margin \in Int
    BY TaskletStopIs, AtType, CountedOf
  <2> QED
    BY <1>5, <2>1 DEF TaskletStart, hwVars
<1>6. CASE TaskletSync
  <2>1. spill' \in Int
    BY <1>6, <1>0 DEF TaskletSync
  <2> QED
    BY <1>6, <2>1 DEF TaskletSync, hwVars
<1>7. CASE TaskletFilter
  <2>1. ring[read_buffer] \in Int
    OBVIOUS
  <2>2. read_buffer # Buffers - 1 => ring[read_buffer + 1] \in Int
    BY IndexTypes DEF Slots
  <2>3. out' \in [live : BOOLEAN, body : Int, tail : Int, offset : Offsets]
    BY <1>7, <2>1, <2>2 DEF TaskletFilter
  <2>4. read_buffer' \in Slots
    <3>1. read_buffer + 1 \in Int
      BY DEF Slots
    <3> QED
      BY <1>7, <3>1, IndexTypes DEF TaskletFilter, Inc
  <2>5. stale' \in Nat
    BY <1>7 DEF TaskletFilter, Bit
  <2> QED
    BY <1>7, <2>3, <2>4, <2>5 DEF TaskletFilter, hwVars
<1>8. CASE TaskletEnd
  BY <1>8, <1>0, NoBufferType DEF TaskletEnd, hwVars, OutType
<1>9. CASE StartFeed
  <2>1. CASE feeds = 0
    <3>1. slot' \in Slots
      BY <1>9, <2>1, <1>0 DEF StartFeed, DmaEnable
    <3>2. inFlight' \in 0 .. 3
      BY <1>9, <2>1 DEF StartFeed, DmaEnable, Pending, Bit
    <3>3. out' \in [live : BOOLEAN, body : Int, tail : Int, offset : Offsets]
      BY <1>9, <2>1, NoBufferType DEF StartFeed, DmaEnable, OutType
    <3>4. /\ feeds' \in 0 .. MaxFeeds /\ cnt' \in 0 .. PreBuffers
          /\ next_buffer' \in Slots /\ offset' \in Offsets
      BY <1>9, <2>1, DmaAssumption DEF StartFeed, DmaEnable, Slots
    <3>5. /\ done' \in Nat /\ start' \in Nat /\ stale' \in Nat /\ pos' \in Int
          /\ ring' \in [Slots -> Int] /\ spill' \in Int /\ stopPos' \in Int
          /\ read_buffer' \in Slots /\ stop_buffer' \in Slots
      BY <1>9, <2>1 DEF StartFeed, DmaEnable
    <3>6. /\ dmaEn' \in BOOLEAN /\ dmaIe' \in BOOLEAN /\ intStat' \in BOOLEAN
          /\ irq' \in {"idle", "acked"} /\ sched' \in BOOLEAN
          /\ tasklet' \in {"idle", "loop", "filter"}
          /\ sound' \in BOOLEAN /\ slept' \in BOOLEAN
      BY <1>9, <2>1 DEF StartFeed, DmaEnable
    <3> QED
      BY <3>1, <3>2, <3>3, <3>4, <3>5, <3>6
  <2>2. CASE feeds # 0
    BY <1>9, <2>2, DmaAssumption DEF StartFeed, hwVars, taskletVars
  <2> QED
    BY <2>1, <2>2
<1>10. CASE StopFeed
  <2>1. feeds' \in 0 .. MaxFeeds
    BY <1>10, DmaAssumption DEF StopFeed
  <2>2. CASE feeds' = 0
    BY <1>10, <2>1, <2>2 DEF StopFeed, DmaDisable, taskletVars
  <2>3. CASE feeds' # 0
    BY <1>10, <2>1, <2>3 DEF StopFeed, hwVars, taskletVars
  <2> QED
    BY <2>2, <2>3
<1>11. CASE Resume
  BY <1>11 DEF Resume, taskletVars
<1>12. CASE UNCHANGED vars
  BY <1>12 DEF vars, hwVars, taskletVars
<1> QED
  BY <1>1, <1>2, <1>3, <1>4, <1>5, <1>6, <1>7, <1>8, <1>9, <1>10, <1>11, <1>12
  DEF Next, Handler, Tasklet

(* DMA stream type correctness: the indexes stay inside the ring whatever  *)
(* the interleaving (tbsecp3_dma_tasklet's mask arithmetic).               *)
THEOREM DmaTypeCorrect == Spec => []TypeOK
  BY DmaTypeInit, DmaTypeStep, PTL DEF Spec

-----------------------------------------------------------------------------
(***************************************************************************)
(* The inductive invariant.  The driver's slot indexes are the slots of    *)
(* the fillings pos and stopPos, both at least Margin behind the engine,   *)
(* and pos less than Buffers behind it unless lapped; the slots filled     *)
(* since the enable hold the latest filling that came to them, the others  *)
(* something older than the enable; what was handed over is the filling    *)
(* before pos, or an old one if pos is not past start; and every run of    *)
(* the tasklet since the enable was paid for by a filling or by a run      *)
(* pending at the enable, so few of them can have reached an old slot.     *)
(***************************************************************************)
Positions ==
  /\ cnt > 0 => pos <= done - Margin
  /\ tasklet = "idle" /\ cnt > 0 => next_buffer = At(pos)
  /\ tasklet # "idle" => /\ cnt = PreBuffers
                         /\ read_buffer = At(pos)
                         /\ stop_buffer = At(stopPos)
                         /\ pos <= stopPos /\ stopPos <= done - Margin
  /\ tasklet = "filter" => pos < stopPos
  /\ sound => done < pos + Buffers

RingHolds ==
  /\ start <= done
  /\ \A s \in Slots : ring[s] < done
  /\ \A n \in Int : start <= n /\ n < done => ring[At(n)] >= n
  /\ \A n \in Int : start <= n /\ n < done /\ done < n + Buffers => ring[At(n)] = n
  /\ \A n \in Int : n < start /\ done < n + Buffers => ring[At(n)] < start

HandedOver ==
  /\ out.live => cnt = PreBuffers
  /\ out.live /\ sound => IF pos > start THEN out.body = pos - 1
                                         ELSE out.body < start
  /\ Fresh /\ out.offset # 0 => out.tail = out.body + 1
  /\ (tasklet = "filter" /\ sound /\ pos >= start /\ offset # 0
       /\ read_buffer = Buffers - 1) => spill = pos + 1

Oldest == start + 1 - StatLag - inFlight

RunsPaid ==
  /\ cnt < PreBuffers => Pending + cnt <= (done - start) + inFlight
  /\ cnt < PreBuffers => stale = 0
  /\ cnt = PreBuffers => Oldest + stale <= pos
  /\ stale > 0 => Oldest + stale <= start

IInv == TypeOK /\ Positions /\ RingHolds /\ HandedOver /\ RunsPaid

(* The types the steps below need.                                         *)
Numbers ==
  /\ cnt \in 0 .. PreBuffers /\ done \in Nat /\ start \in Nat
  /\ inFlight \in Nat /\ stale \in Nat
  /\ pos \in Int /\ stopPos \in Int /\ spill \in Int
  /\ sound \in BOOLEAN

LEMMA NumbersOf == TypeOK => Numbers /\ Counted
  BY DEF TypeOK, Numbers, Counted

LEMMA PendingType ==
  /\ Pending \in Nat
  /\ sched = TRUE => Pending >= 1
  BY DEF Pending, Bit

(* A fresh filling is the one before pos, and pos is past start.           *)
LEMMA FreshIs ==
  IInv /\ Fresh => out.body = pos - 1 /\ pos > start /\ sound /\ out.live
<1> SUFFICES ASSUME IInv, Fresh
             PROVE  out.body = pos - 1 /\ pos > start /\ sound /\ out.live
  OBVIOUS
<1>1. out.body \in Int /\ start \in Int /\ out.body >= start /\ out.live /\ sound
  BY DEF IInv, TypeOK, Fresh
<1> QED
  BY <1>1 DEF IInv, HandedOver

(* Steps that touch neither the ring nor the reader's variables.           *)
LEMMA SameReader ==
  ASSUME UNCHANGED <<done, slot, ring, start, tasklet, cnt, next_buffer, offset,
                     read_buffer, stop_buffer, spill, out, pos, stopPos, sound>>
  PROVE  /\ Positions => Positions'
         /\ RingHolds => RingHolds'
         /\ HandedOver => HandedOver'
<1>1. Positions => Positions'
  BY DEF Positions, Margin, At
<1>2. RingHolds => RingHolds'
  BY DEF RingHolds, At
<1>3. HandedOver => HandedOver'
  BY DEF HandedOver, Fresh
<1> QED
  BY <1>1, <1>2, <1>3

(* Steps of the reader leave the ring alone.                               *)
LEMMA SameRing ==
  ASSUME UNCHANGED <<done, slot, ring, start>>
  PROVE  /\ RingHolds => RingHolds'
         /\ \A n \in Int : (slot' - (done' - n)) % Buffers = At(n)
  BY DEF RingHolds, At

(* A step that leaves the session and the reader's progress alone and      *)
(* makes no run pending keeps RunsPaid.                                    *)
LEMMA SameRuns ==
  ASSUME Numbers, RunsPaid,
         UNCHANGED <<done, start, inFlight, stale, cnt, pos>>,
         Pending' <= Pending
  PROVE  RunsPaid'
<1> DEFINE p == Pending
<1> DEFINE q == Pending'
<1>1. p \in Nat /\ q \in Nat /\ q <= p
  BY PendingType DEF Pending, Bit
<1>2. cnt < PreBuffers => p + cnt <= (done - start) + inFlight
  BY DEF RunsPaid
<1> HIDE DEF p, q
<1>3. cnt < PreBuffers => q + cnt <= (done - start) + inFlight
  BY <1>1, <1>2, DmaAssumption DEF Numbers
<1>4. cnt' < PreBuffers => q + cnt' <= (done' - start') + inFlight'
  BY <1>3
<1>5. /\ cnt' < PreBuffers => stale' = 0
      /\ cnt' = PreBuffers => Oldest' + stale' <= pos'
      /\ stale' > 0 => Oldest' + stale' <= start'
  BY DEF RunsPaid, Oldest
<1> QED
  BY <1>4, <1>5 DEF RunsPaid, q

LEMMA InitInv == Init => IInv
<1> SUFFICES ASSUME Init PROVE IInv
  OBVIOUS
<1>1. TypeOK
  BY DmaTypeInit
<1>2. Positions
  BY DmaAssumption DEF Init, Positions
<1>3. HandedOver
  BY DEF Init, HandedOver, NoBuffer, Fresh
<1>4. RunsPaid
  BY DmaAssumption DEF Init, RunsPaid, Pending, Bit
<1>5. RingHolds
  <2>1. \A n \in Int : At(n) \in Slots
    BY <1>1, AtType, CountedOf
  <2>2. start = 0 /\ done = 0 /\ \A s \in Slots : ring[s] = -1
    BY DEF Init
  <2> QED
    BY <2>1, <2>2 DEF RingHolds
<1> QED
  BY <1>1, <1>2, <1>3, <1>4, <1>5 DEF IInv

(* Filling the next slot keeps what RingHolds says of the others.          *)
LEMMA FillHolds ==
  ASSUME IInv, HwFill
  PROVE  RingHolds'
<1>1. Counted /\ Buffers \in Nat \ {0}
  BY NumbersOf, IndexTypes DEF IInv
<1>2. /\ start' = start /\ done' = done + 1 /\ slot' = Inc(slot)
      /\ ring' = [ring EXCEPT ![slot] = done]
  BY DEF HwFill
<1>3. /\ start \in Int /\ done \in Int /\ start <= done
      /\ ring'[slot] = done /\ At(done) = slot
      /\ \A s \in Slots : s # slot => ring'[s] = ring[s]
      /\ \A s \in Slots : ring[s] \in Int /\ ring[s] < done
  BY <1>1, <1>2, AtDone DEF IInv, RingHolds, Counted
<1>4. \A n \in Int : At(n) \in Slots /\ (slot' - (done' - n)) % Buffers = At(n)
  BY <1>1, <1>2, AtType, AtFill
<1>5. \A n \in Int : n < done /\ done < n + Buffers => At(n) # slot
  <2> TAKE n \in Int
  <2> HAVE n < done /\ done < n + Buffers
  <2> QED
    BY <1>1, <1>3, AtDiffers
<1>6. \A s \in Slots : ring'[s] < done + 1
  BY <1>3
<1>7. \A n \in Int : start <= n /\ n < done + 1 => ring'[At(n)] >= n
  <2> TAKE n \in Int
  <2> HAVE start <= n /\ n < done + 1
  <2>1. CASE At(n) = slot
    BY <1>3, <2>1
  <2>2. CASE At(n) # slot
    <3>1. n # done
      BY <1>3, <2>2
    <3>2. ring[At(n)] >= n
      BY <1>3, <3>1 DEF IInv, RingHolds
    <3> QED
      BY <1>3, <1>4, <2>2, <3>2
  <2> QED
    BY <2>1, <2>2
<1>8. \A n \in Int : start <= n /\ n < done + 1 /\ done + 1 < n + Buffers
                       => ring'[At(n)] = n
  <2> TAKE n \in Int
  <2> HAVE start <= n /\ n < done + 1 /\ done + 1 < n + Buffers
  <2>1. CASE n = done
    BY <1>3, <2>1
  <2>2. CASE n # done
    <3>1. n < done /\ done < n + Buffers
      BY <1>1, <1>3, <2>2
    <3>2. ring[At(n)] = n
      BY <3>1 DEF IInv, RingHolds
    <3> QED
      BY <1>3, <1>4, <1>5, <3>1, <3>2
  <2> QED
    BY <2>1, <2>2
<1>9. \A n \in Int : n < start /\ done + 1 < n + Buffers => ring'[At(n)] < start
  <2> TAKE n \in Int
  <2> HAVE n < start /\ done + 1 < n + Buffers
  <2>1. n < done /\ done < n + Buffers
    BY <1>1, <1>3
  <2>2. ring[At(n)] < start
    BY <2>1 DEF IInv, RingHolds
  <2> QED
    BY <1>3, <1>4, <1>5, <2>1, <2>2
<1>10. start <= done + 1
  BY <1>3
<1> QED
  BY <1>2, <1>4, <1>6, <1>7, <1>8, <1>9, <1>10 DEF RingHolds, At

LEMMA HwFillInv ==
  IInv /\ HwFill => Positions' /\ RingHolds' /\ HandedOver' /\ RunsPaid'
<1> SUFFICES ASSUME IInv, HwFill
             PROVE  Positions' /\ RingHolds' /\ HandedOver' /\ RunsPaid'
  OBVIOUS
<1>1. Numbers /\ Counted
  BY NumbersOf DEF IInv
<1>2. /\ UNCHANGED <<start, inFlight, stale, tasklet, cnt, next_buffer, offset,
                     read_buffer, stop_buffer, spill, out, pos, stopPos>>
      /\ done' = done + 1 /\ sound' = (sound /\ done' < pos + Buffers)
      /\ slot' = Inc(slot)
  BY DEF HwFill
<1>3. Positions'
  <2>1. sound' => done' < pos' + Buffers
    BY <1>2
  <2>2. \A p \in Int : p <= done - Margin => p <= done' - Margin
    BY <1>1, <1>2, IndexTypes DEF Numbers
  <2>3. (cnt > 0 => pos <= done' - Margin)
    /\ (tasklet # "idle" => stopPos <= done' - Margin)
    BY <1>1, <2>2 DEF IInv, Positions, Numbers
  <2>4. At(pos)' = At(pos) /\ At(stopPos)' = At(stopPos)
    <3>1. /\ (slot' - (done' - pos)) % Buffers = At(pos)
          /\ (slot' - (done' - stopPos)) % Buffers = At(stopPos)
      BY <1>1, <1>2, AtFill DEF Numbers
    <3> QED
      BY <1>2, <3>1 DEF At
  <2> QED
    BY <1>2, <2>1, <2>3, <2>4 DEF IInv, Positions, Margin
<1>4. HandedOver'
  BY <1>2 DEF IInv, HandedOver, Fresh
<1>5. RunsPaid'
  <2>1. Pending' \in Nat /\ Pending' <= Pending + 1
    BY DEF HwFill, Pending, Bit
  <2>2. cnt' < PreBuffers => Pending' + cnt' <= (done' - start') + inFlight'
    <3> DEFINE p == Pending
    <3> DEFINE q == Pending'
    <3>1. p \in Nat /\ q \in Nat /\ q <= p + 1
      BY <2>1, PendingType
    <3>2. cnt < PreBuffers => p + cnt <= (done - start) + inFlight
      BY DEF IInv, RunsPaid
    <3> HIDE DEF p, q
    <3>3. cnt < PreBuffers => q + cnt <= ((done + 1) - start) + inFlight
      BY <1>1, <3>1, <3>2, DmaAssumption DEF Numbers
    <3> QED
      BY <1>2, <3>3 DEF q
  <2> QED
    BY <1>2, <2>2 DEF IInv, RunsPaid, Oldest
<1> QED
  BY <1>3, <1>4, <1>5, FillHolds

LEMMA HandlerInv ==
  IInv /\ Handler => Positions' /\ RingHolds' /\ HandedOver' /\ RunsPaid'
<1> SUFFICES ASSUME IInv, Handler
             PROVE  Positions' /\ RingHolds' /\ HandedOver' /\ RunsPaid'
  OBVIOUS
<1>1. UNCHANGED <<done, slot, ring, start, inFlight, stale, tasklet, cnt,
                  next_buffer, offset, read_buffer, stop_buffer, spill, out, pos,
                  stopPos, sound>>
  BY DEF Handler, IrqAck, IrqSchedule, hwVars, taskletVars
<1>2. Pending' <= Pending
  BY DEF IInv, TypeOK, Handler, IrqAck, IrqSchedule, hwVars, Pending, Bit
<1> QED
  BY <1>1, <1>2, SameReader, SameRuns, NumbersOf DEF IInv

LEMMA PreBufferInv ==
  IInv /\ TaskletPreBuffer
    => Positions' /\ RingHolds' /\ HandedOver' /\ RunsPaid'
<1> SUFFICES ASSUME IInv, TaskletPreBuffer
             PROVE  Positions' /\ RingHolds' /\ HandedOver' /\ RunsPaid'
  OBVIOUS
<1>1. Numbers /\ Counted
  BY NumbersOf DEF IInv
<1>2. /\ UNCHANGED <<done, slot, ring, start, inFlight, stale, tasklet, out,
                     intStat, irq>>
      /\ tasklet = "idle" /\ cnt < PreBuffers /\ cnt' = cnt + 1
      /\ pos' = done - Margin /\ sound' = TRUE
      /\ sched = TRUE /\ sched' = FALSE
  BY DEF TaskletPreBuffer, hwVars, IInv, TypeOK
<1>3. Positions'
  <2>1. next_buffer' = At(pos)'
    BY TaskletStopIs, <1>1, <1>2 DEF TaskletPreBuffer, At
  <2>2. done' < pos' + Buffers /\ pos' <= done' - Margin
    BY <1>1, <1>2, IndexTypes DEF Numbers
  <2> QED
    BY <1>2, <2>1, <2>2 DEF Positions, Margin
<1>4. ~out.live /\ ~out'.live
  BY <1>1, <1>2, DmaAssumption DEF IInv, HandedOver, Numbers
<1>5. HandedOver'
  BY <1>2, <1>4 DEF HandedOver, Fresh
<1>6. RunsPaid'
  <2> DEFINE p == Pending
  <2> DEFINE q == Pending'
  <2>1. p = q + 1 /\ q \in Nat
    BY <1>2 DEF Pending, Bit
  <2>2. p + cnt <= (done - start) + inFlight /\ stale = 0
    BY <1>2 DEF IInv, RunsPaid
  <2> HIDE DEF p, q
  <2>3. q + (cnt + 1) <= (done - start) + inFlight
    BY <1>1, <2>1, <2>2, DmaAssumption DEF Numbers
  <2>4. q + cnt' <= (done' - start') + inFlight'
    BY <1>2, <2>3
  <2>5. cnt + 1 = PreBuffers => (start + 1 - StatLag - inFlight) + 0 <= done - Margin
    BY <1>1, <2>1, <2>3, DmaAssumption DEF Numbers, Margin
  <2>6. cnt' = PreBuffers => Oldest' + stale' <= pos'
    BY <1>2, <2>2, <2>5 DEF Oldest
  <2>7. stale' = 0
    BY <1>2, <2>2
  <2> QED
    BY <2>4, <2>6, <2>7 DEF RunsPaid, q
<1> QED
  BY <1>2, <1>3, <1>5, <1>6, SameRing DEF IInv

LEMMA StartInv ==
  IInv /\ TaskletStart => Positions' /\ RingHolds' /\ HandedOver' /\ RunsPaid'
<1> SUFFICES ASSUME IInv, TaskletStart
             PROVE  Positions' /\ RingHolds' /\ HandedOver' /\ RunsPaid'
  OBVIOUS
<1>1. Numbers /\ Counted
  BY NumbersOf DEF IInv
<1>2. /\ UNCHANGED <<done, slot, ring, start, inFlight, stale, cnt, out, pos,
                     sound, offset, intStat, irq, next_buffer, spill>>
      /\ tasklet = "idle" /\ tasklet' = "loop" /\ cnt >= PreBuffers
      /\ read_buffer' = next_buffer /\ stop_buffer' = TaskletStop
      /\ stopPos' = done - Margin /\ sched' = FALSE
  BY DEF TaskletStart, hwVars
<1>3. cnt = PreBuffers /\ cnt > 0
  BY <1>1, <1>2, DmaAssumption DEF Numbers
<1>4. Positions'
  <2>1. stop_buffer' = At(stopPos)'
    BY TaskletStopIs, <1>1, <1>2 DEF At
  <2>2. read_buffer' = At(pos)' /\ pos' <= stopPos'
    BY <1>2, <1>3 DEF IInv, Positions, At
  <2>3. stopPos' <= done' - Margin
    BY <1>1, <1>2, IndexTypes DEF Numbers
  <2> QED
    BY <1>2, <1>3, <2>1, <2>2, <2>3 DEF IInv, Positions, Margin
<1>5. HandedOver'
  BY <1>2 DEF IInv, HandedOver, Fresh
<1>6. RunsPaid'
  <2>1. Pending' <= Pending
    BY <1>2 DEF Pending, Bit
  <2> QED
    BY <1>1, <1>2, <2>1, SameRuns DEF IInv
<1> QED
  BY <1>2, <1>4, <1>5, <1>6, SameRing DEF IInv

(* A filling the tasklet has before it in the ring: never an older one     *)
(* than it means, and that one if not lapped; before start, an old one.    *)
LEMMA RingAt ==
  ASSUME IInv, NEW p \in Int, p < done
  PROVE  /\ At(p) \in Slots /\ ring[At(p)] \in Int
         /\ start <= p => ring[At(p)] >= p
         /\ start <= p /\ done < p + Buffers => ring[At(p)] = p
         /\ p < start /\ done < p + Buffers => ring[At(p)] < start
<1>1. Counted
  BY NumbersOf DEF IInv
<1>2. At(p) \in Slots
  BY <1>1, AtType
<1> QED
  BY <1>1, <1>2 DEF IInv, RingHolds, Counted

LEMMA SyncInv ==
  IInv /\ TaskletSync => Positions' /\ RingHolds' /\ HandedOver' /\ RunsPaid'
<1> SUFFICES ASSUME IInv, TaskletSync
             PROVE  Positions' /\ RingHolds' /\ HandedOver' /\ RunsPaid'
  OBVIOUS
<1>1. Numbers /\ Counted
  BY NumbersOf DEF IInv
<1>2. /\ UNCHANGED <<done, slot, ring, start, inFlight, stale, cnt, out, pos,
                     stopPos, sound, intStat, irq, sched, next_buffer,
                     read_buffer, stop_buffer>>
      /\ tasklet = "loop" /\ tasklet' = "filter" /\ read_buffer # stop_buffer
      /\ spill' = IF offset' # 0 /\ read_buffer = Buffers - 1
                  THEN ring[0] ELSE spill
  BY DEF TaskletSync, hwVars
<1>3. /\ read_buffer = At(pos) /\ pos < stopPos
      /\ stopPos <= done - Margin /\ pos + 1 < done
  <2>1. /\ read_buffer = At(pos) /\ stop_buffer = At(stopPos)
        /\ pos <= stopPos /\ stopPos <= done - Margin
    BY <1>2 DEF IInv, Positions
  <2>2. pos # stopPos
    BY <1>2, <2>1
  <2> QED
    BY <1>1, <2>1, <2>2, IndexTypes DEF Numbers
<1>4. Positions'
  <2>1. At(pos)' = At(pos) /\ At(stopPos)' = At(stopPos)
    BY <1>2 DEF At
  <2> QED
    BY <1>2, <1>3, <2>1 DEF IInv, Positions, Margin
<1>5. HandedOver'
  <2>1. ASSUME sound, pos >= start, offset' # 0, read_buffer = Buffers - 1
        PROVE  spill' = pos + 1
    <3>1. At(pos + 1) = 0
      BY <1>1, <1>3, <2>1, AtInc DEF Numbers
    <3>2. done < (pos + 1) + Buffers /\ start <= pos + 1
      BY <1>1, <2>1, DmaAssumption DEF IInv, Positions, Numbers
    <3>3. ring[At(pos + 1)] = pos + 1
      BY <1>1, <1>3, <3>2, RingAt DEF Numbers
    <3> QED
      BY <1>2, <2>1, <3>1, <3>3
  <2> QED
    BY <1>2, <2>1 DEF IInv, HandedOver, Fresh
<1>6. RunsPaid'
  <2>1. Pending' <= Pending
    BY <1>2, PendingType DEF Pending, Bit
  <2> QED
    BY <1>1, <1>2, <2>1, SameRuns DEF IInv
<1> QED
  BY <1>2, <1>4, <1>5, <1>6, SameRing DEF IInv

(* What one iteration of the loop hands over.                              *)
LEMMA FilterHands ==
  ASSUME IInv, TaskletFilter
  PROVE  /\ out'.live /\ out'.offset = offset /\ out'.body \in Int
         /\ pos >= start => out'.body >= start
         /\ sound /\ pos >= start => out'.body = pos
         /\ sound /\ pos < start => out'.body < start
         /\ sound /\ pos >= start /\ offset # 0 => out'.tail = pos + 1
         /\ pos + 1 < done /\ pos < stopPos /\ tasklet = "filter"
<1>1. Numbers /\ Counted
  BY NumbersOf DEF IInv
<1>2. /\ read_buffer = At(pos) /\ pos < stopPos /\ pos + 1 < done
      /\ tasklet = "filter"
  <2>1. /\ read_buffer = At(pos) /\ pos < stopPos /\ stopPos <= done - Margin
        /\ tasklet = "filter"
    BY DEF TaskletFilter, IInv, Positions
  <2> QED
    BY <1>1, <2>1, IndexTypes DEF Numbers
<1>3. /\ out'.live /\ out'.offset = offset /\ out'.body = ring[read_buffer]
      /\ offset # 0 => out'.tail = IF read_buffer = Buffers - 1
                                   THEN spill ELSE ring[read_buffer + 1]
  BY DEF TaskletFilter
<1>4. sound => done < pos + Buffers
  BY DEF IInv, Positions
<1>5. /\ out'.body \in Int
      /\ pos >= start => out'.body >= start
      /\ sound /\ pos >= start => out'.body = pos
      /\ sound /\ pos < start => out'.body < start
  <2>1. /\ ring[At(pos)] \in Int
        /\ start <= pos => ring[At(pos)] >= pos
        /\ start <= pos /\ done < pos + Buffers => ring[At(pos)] = pos
        /\ pos < start /\ done < pos + Buffers => ring[At(pos)] < start
    <3>1. pos < done
      BY <1>1, <1>2 DEF Numbers
    <3> QED
      BY <1>1, <3>1, RingAt DEF Numbers
  <2> QED
    BY <1>1, <1>2, <1>3, <1>4, <2>1 DEF Numbers
<1>6. ASSUME sound, pos >= start, offset # 0 PROVE out'.tail = pos + 1
  <2>1. CASE read_buffer = Buffers - 1
    BY <1>2, <1>3, <1>6, <2>1 DEF IInv, HandedOver
  <2>2. CASE read_buffer # Buffers - 1
    <3>1. read_buffer + 1 = At(pos + 1)
      BY <1>1, <1>2, <2>2, AtInc DEF Numbers
    <3>2. done < (pos + 1) + Buffers /\ start <= pos + 1
      BY <1>1, <1>4, <1>6, DmaAssumption DEF Numbers
    <3>3. ring[At(pos + 1)] = pos + 1
      BY <1>1, <1>2, <3>2, RingAt DEF Numbers
    <3> QED
      BY <1>3, <1>6, <2>2, <3>1, <3>3
  <2> QED
    BY <2>1, <2>2
<1> QED
  BY <1>2, <1>3, <1>5, <1>6

LEMMA FilterInv ==
  IInv /\ TaskletFilter => Positions' /\ RingHolds' /\ HandedOver' /\ RunsPaid'
<1> SUFFICES ASSUME IInv, TaskletFilter
             PROVE  Positions' /\ RingHolds' /\ HandedOver' /\ RunsPaid'
  OBVIOUS
<1>1. Numbers /\ Counted
  BY NumbersOf DEF IInv
<1>2. /\ UNCHANGED <<done, slot, ring, start, inFlight, cnt, stopPos, sound,
                     offset, spill, intStat, irq, sched, next_buffer,
                     stop_buffer>>
      /\ tasklet' = "loop" /\ read_buffer' = Inc(read_buffer) /\ pos' = pos + 1
      /\ stale' = stale + Bit(out'.body < start)
  BY DEF TaskletFilter, hwVars
<1>3. /\ cnt = PreBuffers /\ read_buffer = At(pos)
      /\ stop_buffer = At(stopPos) /\ pos < stopPos
      /\ stopPos <= done - Margin
  BY FilterHands DEF IInv, Positions
<1>4. Positions'
  <2>1. read_buffer' = At(pos)'
    <3>1. Inc(At(pos)) = At(pos + 1)
      BY <1>1, AtInc DEF Numbers
    <3>2. At(pos)' = At(pos + 1)
      BY <1>2 DEF At
    <3> QED
      BY <1>2, <1>3, <3>1, <3>2
  <2>2. pos' <= stopPos' /\ pos' <= done' - Margin
    BY <1>1, <1>2, <1>3, IndexTypes DEF Numbers
  <2>3. sound' => done' < pos' + Buffers
    <3>1. sound => done < pos + Buffers
      BY DEF IInv, Positions
    <3>2. sound => done < (pos + 1) + Buffers
      BY <1>1, <3>1, DmaAssumption DEF Numbers
    <3> QED
      BY <1>2, <3>2
  <2>4. stop_buffer' = At(stopPos)'
    BY <1>2, <1>3 DEF At
  <2> QED
    BY <1>2, <1>3, <2>1, <2>2, <2>3, <2>4 DEF Positions, Margin
<1>5. HandedOver'
  <2>1. sound => IF pos' > start THEN out'.body = pos' - 1 ELSE out'.body < start
    BY <1>1, <1>2, FilterHands DEF Numbers
  <2>2. ASSUME sound, out'.body >= start, out'.offset # 0
        PROVE  out'.tail = out'.body + 1
    <3>1. pos >= start
      BY <1>1, <2>2, FilterHands DEF Numbers
    <3> QED
      BY <2>2, <3>1, FilterHands
  <2> QED
    BY <1>2, <1>3, <2>1, <2>2 DEF HandedOver, Fresh
<1>6. RunsPaid'
  <2>1. /\ Oldest + stale <= pos /\ Oldest \in Int
        /\ stale > 0 => Oldest + stale <= start
    BY <1>1, <1>3, DmaAssumption DEF IInv, RunsPaid, Oldest, Numbers
  <2>2. Oldest + stale' <= pos' /\ (stale' > 0 => Oldest + stale' <= start)
    <3>1. CASE out'.body < start
      <4>1. stale' = stale + 1
        BY <1>2, <3>1 DEF Bit
      <4>2. pos < start
        BY <1>1, <3>1, FilterHands DEF Numbers
      <4> QED
        BY <1>1, <1>2, <2>1, <4>1, <4>2 DEF Numbers
    <3>2. CASE ~(out'.body < start)
      <4>1. stale' = stale
        BY <1>1, <1>2, <3>2 DEF Bit, Numbers
      <4> QED
        BY <1>1, <1>2, <2>1, <4>1 DEF Numbers
    <3> QED
      BY <3>1, <3>2
  <2>3. Oldest' = Oldest /\ cnt' = PreBuffers /\ start' = start
    BY <1>2, <1>3 DEF Oldest
  <2> QED
    BY <2>2, <2>3, DmaAssumption DEF RunsPaid
<1> QED
  BY <1>2, <1>4, <1>5, <1>6, SameRing DEF IInv

(* When the loop ends unlapped, it ends exactly at stopPos.                *)
LEMMA EndsAtStop ==
  ASSUME IInv, TaskletEnd
  PROVE  /\ sound => pos = stopPos
         /\ pos <= stopPos /\ stopPos <= done - Margin /\ cnt = PreBuffers
         /\ stop_buffer = At(stopPos)
<1>1. Numbers /\ Counted
  BY NumbersOf DEF IInv
<1>2. /\ At(pos) = At(stopPos) /\ stop_buffer = At(stopPos)
      /\ pos <= stopPos /\ stopPos <= done - Margin /\ cnt = PreBuffers
  BY DEF IInv, Positions, TaskletEnd
<1>3. ASSUME sound, pos # stopPos PROVE FALSE
  <2>1. done < pos + Buffers
    BY <1>3 DEF IInv, Positions
  <2>2. pos < stopPos /\ stopPos < pos + Buffers
    BY <1>1, <1>2, <1>3, <2>1, IndexTypes DEF Numbers
  <2> QED
    BY <1>1, <1>2, <2>2, AtDiffers DEF Numbers
<1> QED
  BY <1>2, <1>3

LEMMA EndInv ==
  IInv /\ TaskletEnd => Positions' /\ RingHolds' /\ HandedOver' /\ RunsPaid'
<1> SUFFICES ASSUME IInv, TaskletEnd
             PROVE  Positions' /\ RingHolds' /\ HandedOver' /\ RunsPaid'
  OBVIOUS
<1>1. Numbers
  BY NumbersOf DEF IInv
<1>2. /\ UNCHANGED <<done, slot, ring, start, inFlight, stale, cnt, offset,
                     spill, intStat, irq, sched>>
      /\ tasklet' = "idle" /\ next_buffer' = stop_buffer /\ pos' = stopPos
      /\ sound' = (done < stopPos + Buffers)
      /\ out' = IF sound THEN out ELSE NoBuffer
  BY DEF TaskletEnd, hwVars
<1>3. Positions'
  <2>1. next_buffer' = At(pos)'
    BY <1>2, EndsAtStop DEF At
  <2> QED
    BY <1>2, <2>1, EndsAtStop DEF Positions, Margin
<1>4. HandedOver'
  <2>1. CASE sound
    BY <1>2, <2>1, EndsAtStop DEF IInv, HandedOver, Fresh
  <2>2. CASE ~sound
    BY <1>2, <2>2 DEF HandedOver, NoBuffer, Fresh
  <2> QED
    BY <2>1, <2>2
<1>5. RunsPaid'
  <2>1. Oldest + stale <= pos /\ Oldest \in Int
    BY <1>1, EndsAtStop, DmaAssumption DEF IInv, RunsPaid, Oldest, Numbers
  <2>2. Oldest + stale <= stopPos
    BY <1>1, <2>1, EndsAtStop DEF Numbers
  <2>3. Oldest' + stale' <= pos'
    BY <1>2, <2>2 DEF Oldest
  <2>4. stale' > 0 => Oldest' + stale' <= start'
    BY <1>2 DEF IInv, RunsPaid, Oldest
  <2>5. cnt' = PreBuffers
    BY <1>2, EndsAtStop
  <2> QED
    BY <2>3, <2>4, <2>5, DmaAssumption DEF RunsPaid
<1> QED
  BY <1>2, <1>3, <1>4, <1>5, SameRing DEF IInv

LEMMA StartFeedInv ==
  IInv /\ StartFeed => Positions' /\ RingHolds' /\ HandedOver' /\ RunsPaid'
<1> SUFFICES ASSUME IInv, StartFeed
             PROVE  Positions' /\ RingHolds' /\ HandedOver' /\ RunsPaid'
  OBVIOUS
<1>1. Numbers /\ Counted
  BY NumbersOf DEF IInv
<1>2. CASE feeds = 0
  <2>1. /\ UNCHANGED <<intStat, irq, sched, tasklet, done, ring>>
        /\ tasklet = "idle" /\ cnt' = 0 /\ start' = done /\ inFlight' = Pending
        /\ stale' = 0 /\ sound' = FALSE /\ out' = NoBuffer
        /\ slot' \in {slot, 0}
    BY <1>2 DEF StartFeed, DmaEnable
  <2>2. Positions' /\ HandedOver'
    BY <2>1, DmaAssumption DEF Positions, HandedOver, NoBuffer, Fresh
  <2>3. RingHolds'
    <3>1. \A n \in Int : (slot' - (done - n)) % Buffers \in Slots
      <4>1. slot' \in Int /\ done \in Int
        BY <1>1, <2>1, SlotType
      <4> QED
        BY <4>1, IndexTypes
    <3>2. done \in Int /\ \A s \in Slots : ring[s] < done
      BY <1>1, SlotType DEF IInv, RingHolds
    <3> QED
      BY <2>1, <3>1, <3>2 DEF RingHolds, At
  <2>4. RunsPaid'
    <3> DEFINE p == Pending
    <3> DEFINE q == Pending'
    <3>1. q = p /\ p \in Nat
      BY <2>1, PendingType DEF Pending
    <3> HIDE DEF p, q
    <3>2. q + 0 <= (done - done) + p
      BY <1>1, <3>1 DEF Numbers
    <3>3. q + cnt' <= (done' - start') + inFlight'
      BY <2>1, <3>2 DEF p
    <3>4. cnt' # PreBuffers /\ stale' = 0
      BY <2>1, DmaAssumption
    <3> QED
      BY <3>3, <3>4 DEF RunsPaid, q
  <2> QED
    BY <2>2, <2>3, <2>4
<1>3. CASE feeds # 0
  <2>1. UNCHANGED <<irq, sched, hwVars, taskletVars>>
    BY <1>3 DEF StartFeed
  <2>2. Pending' <= Pending
    BY <2>1, PendingType DEF hwVars, Pending, Bit
  <2> QED
    BY <1>1, <2>1, <2>2, SameReader, SameRuns DEF IInv, hwVars, taskletVars
<1> QED
  BY <1>2, <1>3

LEMMA StopFeedInv ==
  IInv /\ StopFeed => Positions' /\ RingHolds' /\ HandedOver' /\ RunsPaid'
<1> SUFFICES ASSUME IInv, StopFeed
             PROVE  Positions' /\ RingHolds' /\ HandedOver' /\ RunsPaid'
  OBVIOUS
<1>1. UNCHANGED <<irq, sched, intStat, done, slot, ring, start, inFlight,
                  taskletVars>>
  <2>1. CASE feeds' = 0
    BY <2>1 DEF StopFeed, DmaDisable
  <2>2. CASE feeds' # 0
    BY <2>2 DEF StopFeed, hwVars
  <2> QED
    BY <2>1, <2>2
<1>2. Pending' <= Pending
  BY <1>1, PendingType DEF Pending, Bit
<1> QED
  BY <1>1, <1>2, SameReader, SameRuns, NumbersOf DEF IInv, taskletVars

LEMMA ResumeInv ==
  IInv /\ Resume => Positions' /\ RingHolds' /\ HandedOver' /\ RunsPaid'
<1> SUFFICES ASSUME IInv, Resume
             PROVE  Positions' /\ RingHolds' /\ HandedOver' /\ RunsPaid'
  OBVIOUS
<1>1. /\ UNCHANGED <<irq, sched, done, slot, ring, start, inFlight, taskletVars>>
      /\ intStat' = FALSE
  BY DEF Resume
<1>2. Pending' <= Pending
  BY <1>1, PendingType DEF Pending, Bit
<1> QED
  BY <1>1, <1>2, SameReader, SameRuns, NumbersOf DEF IInv, taskletVars

LEMMA StepInv == IInv /\ [Next]_vars => IInv'
<1> SUFFICES ASSUME IInv, [Next]_vars PROVE IInv'
  OBVIOUS
<1>1. TypeOK'
  BY DmaTypeStep DEF IInv
<1>2. CASE UNCHANGED vars
  <2>1. UNCHANGED <<irq, sched, hwVars, taskletVars>>
    BY <1>2 DEF vars
  <2>2. Pending' <= Pending
    BY <2>1, PendingType DEF hwVars, Pending, Bit
  <2> QED
    BY <1>1, <2>1, <2>2, SameReader, SameRuns, NumbersOf
    DEF IInv, hwVars, taskletVars
<1>3. CASE Next
  <2>1. Positions' /\ RingHolds' /\ HandedOver' /\ RunsPaid'
    BY <1>3, HwFillInv, HandlerInv, PreBufferInv, StartInv, SyncInv, FilterInv,
       EndInv, StartFeedInv, StopFeedInv, ResumeInv DEF Next, Tasklet
  <2> QED
    BY <1>1, <2>1 DEF IInv
<1> QED
  BY <1>2, <1>3

-----------------------------------------------------------------------------
(* The indexes and counters of the driver stand for positions in the       *)
(* stream of fillings, in every reachable state.                           *)
THEOREM InductiveInvariant == Spec => []IInv
  BY InitInv, StepInv, PTL DEF Spec

(* The packets behind the end of a buffer of the present stream are the    *)
(* head of the next filling (the copy behind the last slot in              *)
(* tbsecp3_dma_tasklet).                                                   *)
THEOREM TailTheorem == Spec => []TailFollowsBody
<1>1. IInv => TailFollowsBody
  BY DEF IInv, HandedOver, TailFollowsBody
<1> QED
  BY <1>1, InductiveInvariant, PTL

(* After start_feed no more old buffers are handed over than the runs      *)
(* pending at that moment account for (the PreBuffers runs of              *)
(* tbsecp3_dma_tasklet), whichever slot the engine goes on with.           *)
THEOREM FreshTheorem == Spec => []FreshStart
<1>1. IInv => FreshStart
  <2> SUFFICES ASSUME IInv, stale > 0 PROVE stale <= inFlight - 1 + StatLag
    BY DEF FreshStart
  <2>1. /\ (start + 1 - StatLag - inFlight) + stale <= start
        /\ stale \in Int /\ start \in Int /\ inFlight \in Int
    BY DEF IInv, RunsPaid, TypeOK, Oldest
  <2> QED
    BY <2>1, DmaAssumption
<1> QED
  BY <1>1, InductiveInvariant, PTL

(* Once a filling of the present stream has been handed over, buffers      *)
(* arrive in order, none lost, repeated or half overwritten, while the     *)
(* engine does not lap tbsecp3_dma_tasklet.                                *)
THEOREM OrderTheorem == Spec => InOrder
<1> DEFINE A == (Fresh /\ out'.live /\ out' # out) => out'.body = out.body + 1
<1>1. IInv /\ [Next]_vars => [A]_vars
  <2> SUFFICES ASSUME IInv, [Next]_vars, Fresh, out'.live, out' # out
               PROVE  out'.body = out.body + 1
    OBVIOUS
  <2>1. TaskletFilter
    <3>1. ~(HwFill \/ TaskletPreBuffer \/ TaskletStart \/ TaskletSync)
      BY DEF HwFill, TaskletPreBuffer, TaskletStart, TaskletSync
    <3>2. ~(Handler \/ Resume \/ UNCHANGED vars)
      BY DEF Handler, IrqAck, IrqSchedule, Resume, vars, taskletVars
    <3>3. ~TaskletEnd
      BY DEF TaskletEnd, NoBuffer
    <3>4. ~StartFeed
      <4>1. ASSUME StartFeed PROVE out' = NoBuffer \/ out' = out
        BY <4>1 DEF StartFeed, DmaEnable, taskletVars
      <4> QED
        BY <4>1 DEF NoBuffer
    <3>5. ~StopFeed
      BY DEF StopFeed, DmaDisable, taskletVars
    <3> QED
      BY <3>1, <3>2, <3>3, <3>4, <3>5 DEF Next, Tasklet
  <2>2. out.body = pos - 1 /\ pos > start /\ sound /\ pos \in Int /\ start \in Int
    BY FreshIs DEF IInv, TypeOK
  <2>3. out'.body = pos
    BY <2>1, <2>2, FilterHands
  <2> QED
    BY <2>2, <2>3
<1> QED
  BY <1>1, InductiveInvariant, PTL DEF Spec, InOrder

(* start_feed and stop_feed keep the engine running exactly while there is *)
(* a feed, resume being the one exception.                                 *)
THEOREM FeedsTheorem == Spec => []EngineFollowsFeeds
<1>1. Init => EngineFollowsFeeds
  BY DEF Init, EngineFollowsFeeds
<1>2. TypeOK /\ EngineFollowsFeeds /\ [Next]_vars => EngineFollowsFeeds'
  <2> SUFFICES ASSUME TypeOK, EngineFollowsFeeds, [Next]_vars
               PROVE  EngineFollowsFeeds'
    OBVIOUS
  <2>1. feeds \in Nat
    BY DEF TypeOK
  <2>2. CASE StartFeed
    BY <2>1, <2>2 DEF StartFeed, DmaEnable, EngineFollowsFeeds, hwVars
  <2>3. CASE StopFeed
    BY <2>1, <2>3 DEF StopFeed, DmaDisable, EngineFollowsFeeds, hwVars
  <2>4. CASE Resume
    BY <2>4 DEF Resume, EngineFollowsFeeds
  <2>5. CASE UNCHANGED <<feeds, dmaEn, dmaIe, slept>>
    BY <2>5 DEF EngineFollowsFeeds
  <2> QED
    BY <2>2, <2>3, <2>4, <2>5
    DEF Next, Handler, Tasklet, HwFill, IrqAck, IrqSchedule, TaskletPreBuffer,
        TaskletStart, TaskletSync, TaskletFilter, TaskletEnd, vars, hwVars
<1> QED
  BY <1>1, <1>2, DmaTypeCorrect, PTL DEF Spec

-----------------------------------------------------------------------------
(* The detailed input implements the abstract stream.                      *)
Handed == IF Fresh THEN out.body ELSE NoRun
Left   == inFlight - stale

LEMMA DeliveryStep ==
  IInv /\ [Next]_vars => [Delivery!Next]_<<done, Handed, start, Left>>
<1> SUFFICES ASSUME IInv, [Next]_vars
             PROVE  Delivery!Next \/ UNCHANGED <<done, Handed, start, Left>>
  OBVIOUS
<1> USE DEF Fresh, Handed, Left
<1>1. CASE HwFill
  <2>1. UNCHANGED <<out, start, inFlight, stale>> /\ done' = done + 1
        /\ (sound' => sound)
    BY <1>1 DEF HwFill
  <2>2. Handed' = Handed \/ Handed' = NoRun
    BY <2>1
  <2> QED
    BY <2>1, <2>2 DEF Delivery!Next, Delivery!Write, Delivery!Lap
<1>2. CASE Handler
  BY <1>2 DEF Handler, IrqAck, IrqSchedule, hwVars, taskletVars
<1>3. CASE TaskletPreBuffer
  <2>1. ~out.live
    BY <1>3, DmaAssumption DEF TaskletPreBuffer, IInv, HandedOver, TypeOK
  <2> QED
    BY <1>3, <2>1 DEF TaskletPreBuffer, hwVars
<1>4. CASE TaskletStart \/ TaskletSync
  BY <1>4 DEF TaskletStart, TaskletSync, hwVars
<1>5. CASE TaskletFilter
  <2>1. UNCHANGED <<done, sound, start, inFlight>>
        /\ stale' = stale + Bit(out'.body < start)
    BY <1>5 DEF TaskletFilter, hwVars
  <2>2. /\ pos \in Int /\ start \in Int /\ inFlight \in Int /\ stale \in Int
        /\ done \in Int /\ out'.body \in Int
    BY <1>5, FilterHands DEF IInv, TypeOK
  <2>3. CASE out'.body < start
    <3>1. ~Fresh
      <4>1. pos < start
        BY <1>5, <2>2, <2>3, FilterHands
      <4> QED
        BY <2>2, <4>1, FreshIs
    <3>2. Handed = NoRun /\ Handed' = NoRun
      BY <2>1, <2>2, <2>3, <3>1
    <3>3. stale' = stale + 1 /\ stale' > 0
      BY <2>1, <2>2, <2>3 DEF Bit, IInv, TypeOK
    <3>4. inFlight - stale > 0
      <4>1. (start + 1 - StatLag - inFlight) + stale' <= start
        <5>1. stale' > 0 => Oldest' + stale' <= start'
          BY StepInv DEF IInv, RunsPaid
        <5> QED
          BY <2>1, <3>3, <5>1 DEF Oldest
      <4> QED
        BY <2>2, <3>3, <4>1, DmaAssumption
    <3>5. Left' = Left - 1
      BY <2>1, <2>2, <3>3
    <3> QED
      BY <2>1, <3>2, <3>4, <3>5 DEF Delivery!Next, Delivery!Leftover
  <2>4. CASE ~(out'.body < start)
    <3>1. stale' = stale
      BY <2>1, <2>2, <2>4 DEF Bit
    <3>2. CASE ~sound
      BY <2>1, <3>1, <3>2
    <3>3. CASE sound
      <4>1. pos >= start /\ out'.body = pos /\ out'.live
        BY <1>5, <2>2, <2>4, <3>3, FilterHands
      <4>2. Handed' = pos
        BY <2>1, <2>2, <3>3, <4>1
      <4>3. IF Handed = NoRun THEN start <= pos ELSE pos = Handed + 1
        <5>1. CASE Fresh
          BY <2>2, <4>1, <5>1, FreshIs, DmaAssumption
        <5>2. CASE ~Fresh
          BY <4>1, <5>2, <2>2
        <5> QED
          BY <5>1, <5>2
      <4>4. done - Buffers < pos /\ pos + 1 < done
        <5>1. done < pos + Buffers /\ Buffers \in Int
          BY <3>3, DmaAssumption DEF IInv, Positions
        <5> QED
          BY <1>5, <2>2, <5>1, FilterHands
      <4> QED
        BY <2>1, <2>2, <3>1, <4>2, <4>3, <4>4 DEF Delivery!Next, Delivery!Hand
    <3> QED
      BY <3>2, <3>3 DEF IInv, TypeOK
  <2> QED
    BY <2>3, <2>4
<1>6. CASE TaskletEnd
  <2>1. UNCHANGED <<done, start, inFlight, stale>>
        /\ out' = (IF sound THEN out ELSE NoBuffer)
        /\ sound' = (done < stopPos + Buffers)
    BY <1>6 DEF TaskletEnd, hwVars
  <2>2. sound => sound'
    BY <1>6, <2>1, EndsAtStop DEF IInv, Positions
  <2> QED
    BY <2>1, <2>2 DEF NoBuffer
<1>7. CASE StartFeed
  <2>1. CASE feeds = 0
    <3>1. Handed' = NoRun /\ UNCHANGED done /\ start' = done
      BY <1>7, <2>1 DEF StartFeed, DmaEnable, NoBuffer
    <3>2. Left' \in 0 .. 3
      <4>1. inFlight' \in 0 .. 3 /\ stale' = 0
        BY <1>7, <2>1, DmaTypeStep DEF StartFeed, DmaEnable, IInv, TypeOK
      <4> QED
        BY <4>1
    <3> QED
      BY <3>1, <3>2 DEF Delivery!Next, Delivery!Switch
  <2>2. CASE feeds # 0
    BY <1>7, <2>2 DEF StartFeed, hwVars, taskletVars
  <2> QED
    BY <2>1, <2>2
<1>8. CASE StopFeed
  BY <1>8 DEF StopFeed, DmaDisable, hwVars, taskletVars
<1>9. CASE Resume
  BY <1>9 DEF Resume, taskletVars
<1>10. CASE UNCHANGED vars
  BY <1>10 DEF vars, hwVars, taskletVars
<1> QED
  BY <1>1, <1>2, <1>3, <1>4, <1>5, <1>6, <1>7, <1>8, <1>9, <1>10
  DEF Next, Tasklet

(* Every behaviour of the DMA input is one of the abstract stream.         *)
THEOREM RefinementTheorem == Spec => ImplementsDelivery
<1>1. Init => Delivery!Init
  BY DEF Init, NoBuffer, Delivery!Init, Fresh
<1>2. IInv /\ [Next]_vars => [Delivery!Next]_<<done, Handed, start, Left>>
  BY DeliveryStep
<1>3. IInv /\ [Next]_vars => [Delivery!Next]_(Delivery!vars)
  BY <1>2 DEF Handed, Left, Delivery!vars
<1> QED
  BY <1>1, <1>3, InductiveInvariant, PTL DEF Spec, ImplementsDelivery, Delivery!Spec
=============================================================================
