--------------------------- MODULE I2cBus_proofs ---------------------------
(***************************************************************************)
(* The safety properties of I2cBus, proved for any clients and any set of  *)
(* transactions with messages of up to 65535 bytes.                        *)
(*                                                                         *)
(* The properties are not inductive: that the completion found belongs to  *)
(* the chunk waited for depends on what the previous chunk left behind, so *)
(* IInv says where the command, the interrupt and the flag are during an   *)
(* undisturbed wait, and that everything is quiet between chunks until     *)
(* some transfer has timed out.                                            *)
(***************************************************************************)
EXTENDS I2cBus, TLAPS

(* Inside i2c_xfer there is a current message.                             *)
HolderSound ==
  /\ pc # "prepare" => lock # Nobody
  /\ lock # Nobody => /\ msgs \in Transactions /\ i \in 1 .. Len(msgs)
                      /\ remaining <= msgs[i].len
                      /\ result = "none"

(* In an undisturbed wait the chunk is in exactly one place: at the        *)
(* controller, in INT_STAT, in the handler, or in bus->done.               *)
Undisturbed ==
  (Waiting /\ ~stale) =>
    \/ engine = "cur" /\ answer # "cur" /\ ~intStat /\ irq = "idle" /\ ~done
    \/ /\ engine = "none" /\ answer = "cur"
       /\ \/ intStat /\ irq = "idle" /\ ~done
          \/ ~intStat /\ irq = "acked" /\ ~done
          \/ ~intStat /\ irq = "idle" /\ done

(* Between chunks nothing is pending, unless a transfer timed out.         *)
QuietBetween ==
  /\ ~late /\ ~Waiting => Quiet
  /\ pc = "cleared" /\ ~stale => Quiet /\ ~done

(* Where the transfer stands in the message is where the bus frame stands. *)
FrameFollows ==
  lock # Nobody =>
    /\ (pc # "wait" /\ start)  => remaining = msgs[i].len
    /\ (pc # "wait" /\ ~start) => frame.bytes = msgs[i].len - remaining
    /\ pc = "wait" =>
         /\ frame.bytes = msgs[i].len - remaining + ChunkLen(msgs[i], remaining)
         /\ frame.open <=> ~IsLast(msgs[i], remaining)

Finished == verified /\ (result = "ok" => ~frame.open)

IInv == /\ TypeOK /\ HolderSound /\ Undisturbed /\ QuietBetween
        /\ DisturbedOnlyAfterTimeout /\ NoLostCompletion /\ FrameFollows
        /\ Finished

-----------------------------------------------------------------------------
LEMMA MaxLenNat == MaxLen \in Nat
  BY DEF MaxLen

(* A chunk never exceeds what remains, and is the last exactly when it     *)
(* takes all of it.                                                        *)
LEMMA Chunks ==
  ASSUME NEW m \in Message, NEW r \in 0 .. MaxLen
  PROVE  /\ ChunkLen(m, r) \in 0 .. r
         /\ r - ChunkLen(m, r) \in 0 .. r
         /\ IsLast(m, r) <=> r - ChunkLen(m, r) = 0
         /\ IsLast(m, r) \in BOOLEAN
  BY MaxLenNat DEF Message, ChunkLen, IsLast, XferMax

(* Every index of a transaction is a message with a length.                *)
LEMMA MessageAt ==
  ASSUME NEW t \in Transactions, NEW j \in 1 .. Len(t)
  PROVE  t[j] \in Message /\ t[j].len \in 0 .. MaxLen
  <1>1. t \in Seq(Message)
    BY I2cAssumption
  <1>2. t[j] \in Message
    BY <1>1
  <1> QED BY <1>2 DEF Message

LEMMA NotEmpty ==
  ASSUME NEW t \in Transactions
  PROVE  Len(t) \in Nat /\ 1 \in 1 .. Len(t)
  <1>1. t \in Seq(Message) /\ t # <<>>
    BY I2cAssumption
  <1> QED BY <1>1

LEMMA InitInvariant == Init => IInv
  <1> SUFFICES ASSUME Init PROVE IInv
    OBVIOUS
  <1> USE DEF Init
  <1>1. TypeOK
    <2>1. frame \in [bytes : Nat, open : BOOLEAN]
      BY DEF NoFrame
    <2>2. /\ done \in BOOLEAN /\ start \in BOOLEAN /\ nack \in BOOLEAN
          /\ intStat \in BOOLEAN /\ stale \in BOOLEAN /\ late \in BOOLEAN
          /\ verified \in BOOLEAN
      OBVIOUS
    <2>3. remaining \in 0 .. MaxLen /\ i \in Nat \ {0}
      BY MaxLenNat
    <2> QED BY <2>1, <2>2, <2>3 DEF TypeOK
  <1>2. HolderSound /\ Undisturbed /\ QuietBetween
    BY DEF HolderSound, Undisturbed, QuietBetween, Waiting, Quiet
  <1>3. DisturbedOnlyAfterTimeout /\ NoLostCompletion
    BY DEF DisturbedOnlyAfterTimeout, NoLostCompletion, Waiting
  <1>4. FrameFollows /\ Finished
    BY DEF FrameFollows, Finished
  <1> QED BY <1>1, <1>2, <1>3, <1>4 DEF IInv

-----------------------------------------------------------------------------
(* The type invariant.                                                     *)
LEMMA TypeStep == IInv /\ [Next]_vars => TypeOK'
  <1> SUFFICES ASSUME TypeOK, HolderSound, [Next]_vars PROVE TypeOK'
    BY DEF IInv
  <1> USE MaxLenNat DEF TypeOK
  <1>1. ASSUME NEW c \in Clients, Enter(c) PROVE TypeOK'
    <2>1. PICK t \in Transactions : msgs' = t /\ remaining' = t[1].len
      BY <1>1 DEF Enter
    <2>2. remaining' \in 0 .. MaxLen
      BY <2>1, MessageAt, NotEmpty
    <2>3. /\ start' \in BOOLEAN /\ verified' \in BOOLEAN /\ i' \in Nat \ {0}
      BY <1>1 DEF Enter
    <2>4. lock' \in Clients \cup {Nobody} /\ msgs' \in Transactions \cup {<<>>}
      BY <1>1, <2>1 DEF Enter
    <2>5. /\ done' \in BOOLEAN /\ irq' \in {"idle", "acked"}
          /\ engine' \in {"none", "cur", "old"}
          /\ answer' \in {"none", "cur", "old"}
          /\ nack' \in BOOLEAN /\ intStat' \in BOOLEAN
          /\ frame' \in [bytes : Nat, open : BOOLEAN] /\ stale' \in BOOLEAN
          /\ late' \in BOOLEAN
      BY <1>1 DEF Enter, ReadStat
    <2>6. pc' = "prepare" /\ result' = "none"
      BY <1>1 DEF Enter
    <2> QED BY <2>2, <2>3, <2>4, <2>5, <2>6
  <1>2. CASE ClearDone
    <2>1. done' \in BOOLEAN /\ stale' \in BOOLEAN
      BY <1>2 DEF ClearDone, Quiet
    <2>2. /\ pc' = "cleared"
          /\ UNCHANGED <<xferRest, irq, hwVars, frame, late, verified>>
      BY <1>2 DEF ClearDone, xferRest
    <2> QED BY <2>1, <2>2 DEF xferRest, hwVars
  <1>3. CASE Issue
    <2>1. msgs[i] \in Message
      BY <1>3, MessageAt DEF Issue, xferRest, HolderSound
    <2>2. ChunkLen(msgs[i], remaining) \in Nat
          /\ IsLast(msgs[i], remaining) \in BOOLEAN
      BY <2>1, Chunks
    <2>3. frame' \in [bytes : Nat, open : BOOLEAN]
      BY <1>3, <2>2 DEF Issue, xferRest
    <2> QED BY <1>3, <2>3 DEF Issue, xferRest
  <1>4. CASE Timeout
    BY <1>4 DEF Timeout, Return, ReadStat
  <1>5. CASE Nacked
    BY <1>5 DEF Nacked, Return, ReadStat
  <1>6. CASE Acked
    <2> DEFINE left == remaining - ChunkLen(msgs[i], remaining)
    <2>1. msgs \in Transactions /\ i \in 1 .. Len(msgs) /\ Len(msgs) \in Nat
      BY <1>6, NotEmpty DEF Acked, HolderSound
    <2>2. left \in 0 .. MaxLen
      BY <2>1, MessageAt, Chunks
    <2>3. i < Len(msgs) => msgs[i + 1].len \in 0 .. MaxLen
      BY <2>1, MessageAt
    <2>4. verified' \in BOOLEAN
      BY <1>6 DEF Acked, Positive
    <2> HIDE DEF left
    <2>5. /\ msgs' = msgs /\ lock' \in Clients \cup {Nobody}
          /\ pc' = "prepare" /\ result' \in {"none", "ok", "eio"}
      BY <1>6 DEF Acked, Return
    <2>6. start' \in BOOLEAN
      BY <1>6 DEF Acked, Return
    <2>7. i' \in Nat \ {0} /\ remaining' \in 0 .. MaxLen
      BY <1>6, <2>1, <2>2, <2>3 DEF Acked, Return, left
    <2>8. late' \in BOOLEAN
      BY <1>6 DEF Acked
    <2>9. /\ done' \in BOOLEAN /\ irq' \in {"idle", "acked"}
          /\ engine' \in {"none", "cur", "old"}
          /\ answer' \in {"none", "cur", "old"}
          /\ nack' \in BOOLEAN /\ intStat' \in BOOLEAN
          /\ frame' \in [bytes : Nat, open : BOOLEAN] /\ stale' \in BOOLEAN
      BY <1>6 DEF Acked, ReadStat
    <2> QED BY <2>4, <2>5, <2>6, <2>7, <2>8, <2>9
  <1>7. CASE Complete
    BY <1>7 DEF Complete, xferVars, xferRest, ghosts
  <1>8. CASE IrqAck
    <2>1. intStat' \in BOOLEAN
      BY <1>8 DEF IrqAck
    <2>2. irq' = "acked" /\ UNCHANGED <<xferVars, done, engine, answer, nack, ghosts>>
      BY <1>8 DEF IrqAck
    <2> QED BY <2>1, <2>2 DEF xferVars, xferRest, ghosts
  <1>9. CASE IrqDone
    <2>1. done' \in BOOLEAN
      BY <1>9 DEF IrqDone
    <2>2. irq' = "idle" /\ UNCHANGED <<xferVars, hwVars, ghosts>>
      BY <1>9 DEF IrqDone
    <2> QED BY <2>1, <2>2 DEF xferVars, xferRest, hwVars, ghosts
  <1>10. CASE UNCHANGED vars
    BY <1>10 DEF vars, xferVars, xferRest, hwVars, ghosts
  <1> QED BY <1>1, <1>2, <1>3, <1>4, <1>5, <1>6, <1>7, <1>8, <1>9, <1>10
          DEF Next, Holder, StartChunk, Handler

-----------------------------------------------------------------------------
(* The other conjuncts.                                                    *)
LEMMA HolderStep == IInv /\ [Next]_vars => HolderSound'
  <1> SUFFICES ASSUME TypeOK, HolderSound, [Next]_vars PROVE HolderSound'
    BY DEF IInv
  <1> USE DEF HolderSound
  <1>1. ASSUME NEW c \in Clients, Enter(c) PROVE HolderSound'
    <2>1. PICK t \in Transactions : msgs' = t /\ remaining' = t[1].len
      BY <1>1 DEF Enter
    <2>2. remaining' <= msgs'[1].len
      BY <2>1, MessageAt, NotEmpty, MaxLenNat
    <2> QED BY <1>1, <2>1, <2>2, NotEmpty DEF Enter
  <1>2. CASE ClearDone
    BY <1>2 DEF ClearDone, xferRest
  <1>3. CASE Issue
    BY <1>3 DEF Issue, xferRest
  <1>4. CASE Timeout \/ Nacked
    BY <1>4 DEF Timeout, Nacked, Return
  <1>5. CASE Acked
    <2> DEFINE left == remaining - ChunkLen(msgs[i], remaining)
    <2>1. msgs \in Transactions /\ i \in 1 .. Len(msgs) /\ Len(msgs) \in Nat
      BY <1>5, NotEmpty DEF Acked
    <2>2. msgs[i] \in Message /\ msgs[i].len \in Nat /\ remaining \in 0 .. MaxLen
      BY <2>1, MessageAt, MaxLenNat DEF TypeOK
    <2>3. left \in 0 .. remaining
      BY <2>2, Chunks
    <2>4. i < Len(msgs) => msgs[i + 1].len \in Nat
      BY <2>1, MessageAt, MaxLenNat
    <2> HIDE DEF left
    <2>5. CASE lock' = Nobody
      BY <1>5, <2>5 DEF Acked, Return
    <2>6. CASE left = 0 /\ i < Len(msgs) /\ lock' # Nobody
      BY <1>5, <2>1, <2>4, <2>6 DEF Acked, Return, left
    <2>7. CASE left # 0 /\ lock' # Nobody
      BY <1>5, <2>3, <2>1, <2>2, <2>7, MaxLenNat DEF Acked, Return, left
    <2> QED BY <1>5, <2>1, <2>5, <2>6, <2>7 DEF Acked, Return, left
  <1>6. CASE Complete \/ IrqAck \/ IrqDone \/ UNCHANGED vars
    BY <1>6 DEF Complete, IrqAck, IrqDone, vars, xferVars, xferRest
  <1> QED BY <1>1, <1>2, <1>3, <1>4, <1>5, <1>6
          DEF Next, Holder, StartChunk, Handler

LEMMA UndisturbedStep == IInv /\ [Next]_vars => Undisturbed'
  <1> SUFFICES ASSUME TypeOK, HolderSound, Undisturbed, QuietBetween, [Next]_vars,
                      Waiting', ~stale'
               PROVE  Undisturbed'
    BY DEF IInv, Undisturbed
  <1> USE DEF Undisturbed, Waiting
  <1>1. ASSUME NEW c \in Clients, Enter(c) PROVE Undisturbed'
    BY <1>1 DEF Enter
  <1>2. CASE ClearDone
    BY <1>2 DEF ClearDone, xferRest
  <1>3. CASE Issue
    <2>1. Quiet /\ ~done
      BY <1>3 DEF Issue, QuietBetween
    <2> QED BY <1>3, <2>1 DEF Issue, Quiet
  <1>4. CASE Timeout \/ Nacked \/ Acked
    BY <1>4 DEF Timeout, Nacked, Acked, Return
  <1>5. CASE Complete
    BY <1>5 DEF Complete, xferVars, xferRest, ghosts
  <1>6. CASE IrqAck
    BY <1>6 DEF IrqAck, xferVars, xferRest, ghosts
  <1>7. CASE IrqDone
    BY <1>7 DEF IrqDone, xferVars, xferRest, hwVars, ghosts
  <1>8. CASE UNCHANGED vars
    BY <1>8 DEF vars, xferVars, xferRest, hwVars, ghosts
  <1> QED BY <1>1, <1>2, <1>3, <1>4, <1>5, <1>6, <1>7, <1>8
          DEF Next, Holder, StartChunk, Handler

LEMMA QuietStep ==
  IInv /\ [Next]_vars => QuietBetween' /\ DisturbedOnlyAfterTimeout'
  <1> SUFFICES ASSUME TypeOK, HolderSound, Undisturbed, QuietBetween,
                      DisturbedOnlyAfterTimeout, [Next]_vars
               PROVE  QuietBetween' /\ DisturbedOnlyAfterTimeout'
    BY DEF IInv
  <1> USE DEF QuietBetween, DisturbedOnlyAfterTimeout, Waiting, Quiet
  <1>1. ASSUME NEW c \in Clients, Enter(c)
        PROVE  QuietBetween' /\ DisturbedOnlyAfterTimeout'
    BY <1>1 DEF Enter, ReadStat, HolderSound
  <1>2. CASE ClearDone
    BY <1>2 DEF ClearDone, xferRest, hwVars
  <1>3. CASE Issue
    BY <1>3 DEF Issue, xferRest
  <1>4. CASE Timeout
    BY <1>4 DEF Timeout, Return, ReadStat
  <1>5. CASE Nacked
    BY <1>5 DEF Nacked, Return, ReadStat, Undisturbed
  <1>6. CASE Acked
    <2>1. pc' = "prepare" /\ late' = stale /\ stale' = stale
          /\ UNCHANGED <<intStat, irq>>
          /\ (engine = "none" => engine' = "none")
      BY <1>6 DEF Acked, Return, ReadStat
    <2>2. Waiting /\ done
      BY <1>6 DEF Acked
    <2> QED BY <2>1, <2>2 DEF Undisturbed
  <1>7. CASE Complete
    BY <1>7 DEF Complete, xferVars, xferRest, ghosts
  <1>8. CASE IrqAck
    BY <1>8 DEF IrqAck, xferVars, xferRest, ghosts
  <1>9. CASE IrqDone
    BY <1>9 DEF IrqDone, xferVars, xferRest, hwVars, ghosts
  <1>10. CASE UNCHANGED vars
    BY <1>10 DEF vars, xferVars, xferRest, hwVars, ghosts
  <1> QED BY <1>1, <1>2, <1>3, <1>4, <1>5, <1>6, <1>7, <1>8, <1>9, <1>10
          DEF Next, Holder, StartChunk, Handler

LEMMA NoLostStep == IInv /\ [Next]_vars => NoLostCompletion'
  <1> SUFFICES ASSUME TypeOK, NoLostCompletion, [Next]_vars,
                      Waiting', answer' = "cur"
               PROVE  done' \/ intStat' \/ irq' = "acked"
    BY DEF IInv, NoLostCompletion
  <1> USE DEF NoLostCompletion, Waiting
  <1>1. ASSUME NEW c \in Clients, Enter(c) PROVE FALSE
    BY <1>1 DEF Enter
  <1>2. CASE ClearDone \/ Issue \/ Timeout \/ Nacked \/ Acked
    BY <1>2 DEF ClearDone, Issue, xferRest, Timeout, Nacked, Acked, Return
  <1>3. CASE Complete
    BY <1>3 DEF Complete
  <1>4. CASE IrqAck
    BY <1>4 DEF IrqAck
  <1>5. CASE IrqDone
    BY <1>5 DEF IrqDone
  <1>6. CASE UNCHANGED vars
    BY <1>6 DEF vars, xferVars, xferRest, hwVars, ghosts
  <1> QED BY <1>1, <1>2, <1>3, <1>4, <1>5, <1>6
          DEF Next, Holder, StartChunk, Handler

LEMMA FrameStep == IInv /\ [Next]_vars => FrameFollows'
  <1> SUFFICES ASSUME TypeOK, HolderSound, FrameFollows, [Next]_vars,
                      lock' # Nobody
               PROVE  FrameFollows'
    BY DEF IInv, FrameFollows
  <1> USE DEF FrameFollows
  <1>1. ASSUME NEW c \in Clients, Enter(c) PROVE FrameFollows'
    <2>1. pc' = "prepare" /\ start' /\ remaining' = msgs'[i'].len
      BY <1>1 DEF Enter
    <2> QED BY <2>1
  <1>2. CASE ClearDone
    BY <1>2 DEF ClearDone, xferRest
  <1>3. CASE Issue
    <2> DEFINE chunk == ChunkLen(msgs[i], remaining)
    <2>0. msgs[i] \in Message /\ msgs[i].len \in Nat /\ remaining \in 0 .. MaxLen
      BY <1>3, MessageAt, MaxLenNat DEF Issue, xferRest, HolderSound, TypeOK
    <2>1. chunk \in Nat /\ remaining \in Nat /\ msgs[i].len \in Nat
      BY <2>0, Chunks, MaxLenNat
    <2>2. frame'.bytes = msgs[i].len - remaining + chunk
      BY <1>3, <2>1 DEF Issue, xferRest, TypeOK
    <2>3. frame'.open <=> ~IsLast(msgs[i], remaining)
      BY <1>3 DEF Issue, xferRest
    <2>4. pc' = "wait" /\ UNCHANGED <<msgs, i, remaining, start>>
      BY <1>3 DEF Issue, xferRest
    <2>5. ChunkLen(msgs[i], remaining)' = chunk
          /\ IsLast(msgs[i], remaining)' = IsLast(msgs[i], remaining)
      BY <2>4 DEF ChunkLen, IsLast, XferMax
    <2> HIDE DEF chunk
    <2> QED BY <2>2, <2>3, <2>4, <2>5
  <1>4. CASE Timeout \/ Nacked
    BY <1>4 DEF Timeout, Nacked, Return
  <1>5. CASE Acked
    <2> DEFINE left == remaining - ChunkLen(msgs[i], remaining)
    <2>1. /\ frame' = frame /\ pc' = "prepare" /\ msgs' = msgs
          /\ \/ i' = i + 1 /\ remaining' = msgs[i + 1].len /\ start' = TRUE
             \/ i' = i /\ remaining' = left /\ start' = FALSE
      BY <1>5 DEF Acked, Return
    <2>0. msgs[i] \in Message /\ msgs[i].len \in Nat /\ remaining \in 0 .. MaxLen
      BY <1>5, MessageAt, MaxLenNat DEF Acked, HolderSound, TypeOK
    <2>2. ChunkLen(msgs[i], remaining) \in Nat /\ remaining \in Nat
          /\ msgs[i].len \in Nat
      BY <2>0, Chunks, MaxLenNat
    <2>3. frame.bytes = msgs[i].len - remaining + ChunkLen(msgs[i], remaining)
      BY <1>5 DEF Acked
    <2>4. frame.bytes = msgs[i].len - left
      BY <2>2, <2>3
    <2> HIDE DEF left
    <2> QED BY <2>1, <2>4
  <1>6. CASE Complete \/ IrqAck \/ IrqDone \/ UNCHANGED vars
    <2>1. UNCHANGED <<lock, pc, msgs, i, remaining, start, frame>>
      BY <1>6 DEF Complete, IrqAck, IrqDone, vars, xferVars, xferRest, ghosts
    <2>2. UNCHANGED <<ChunkLen(msgs[i], remaining), IsLast(msgs[i], remaining)>>
      BY <2>1 DEF ChunkLen, IsLast, XferMax
    <2> QED BY <2>1, <2>2
  <1> QED BY <1>1, <1>2, <1>3, <1>4, <1>5, <1>6
          DEF Next, Holder, StartChunk, Handler

(* CompletionIsOwn makes an undisturbed acknowledgement a positive answer. *)
LEMMA FinishedStep == IInv /\ [Next]_vars => Finished'
  <1> SUFFICES ASSUME TypeOK, HolderSound, Undisturbed, FrameFollows, Finished,
                      [Next]_vars
               PROVE  Finished'
    BY DEF IInv
  <1> USE DEF Finished
  <1>1. ASSUME NEW c \in Clients, Enter(c) PROVE Finished'
    BY <1>1 DEF Enter
  <1>2. CASE ClearDone
    BY <1>2 DEF ClearDone, xferRest
  <1>3. CASE Issue
    <2>1. verified' = verified /\ result' = result /\ result = "none"
      BY <1>3 DEF Issue, xferRest, HolderSound
    <2> QED BY <2>1
  <1>4. CASE Timeout \/ Nacked
    BY <1>4 DEF Timeout, Nacked, Return
  <1>5. CASE Acked
    <2>1. stale \/ Positive
      BY <1>5 DEF Acked, Undisturbed, Waiting, Positive
    <2>2. verified'
      BY <1>5, <2>1 DEF Acked
    <2>3. ASSUME result' = "ok" PROVE ~frame'.open
      <3>1. remaining - ChunkLen(msgs[i], remaining) = 0
        BY <1>5, <2>3 DEF Acked, Return, HolderSound
      <3>2. IsLast(msgs[i], remaining)
        BY <1>5, <3>1, MessageAt, Chunks DEF Acked, HolderSound, TypeOK
      <3>3. frame' = frame /\ pc = "wait" /\ lock # Nobody
        BY <1>5 DEF Acked
      <3> QED BY <3>2, <3>3 DEF FrameFollows
    <2> QED BY <2>2, <2>3
  <1>6. CASE Complete \/ IrqAck \/ IrqDone \/ UNCHANGED vars
    <2>1. UNCHANGED <<verified, result, frame>>
      BY <1>6 DEF Complete, IrqAck, IrqDone, vars, xferVars, xferRest, ghosts
    <2> QED BY <2>1
  <1> QED BY <1>1, <1>2, <1>3, <1>4, <1>5, <1>6
          DEF Next, Holder, StartChunk, Handler

-----------------------------------------------------------------------------
(* IInv holds in every state i2c_xfer, the handler and the controller can  *)
(* reach together.                                                         *)
THEOREM InductiveInvariant == Spec => []IInv
  <1>1. IInv /\ [Next]_vars => IInv'
    BY TypeStep, HolderStep, UndisturbedStep, QuietStep, NoLostStep, FrameStep,
       FinishedStep
       DEF IInv
  <1> QED BY InitInvariant, <1>1, PTL DEF Spec

(* Every variable keeps its type, for messages of any length.              *)
THEOREM TypeTheorem == Spec => []TypeOK
  <1>1. IInv => TypeOK
    BY DEF IInv
  <1> QED BY <1>1, InductiveInvariant, PTL

(* An undisturbed i2c_xfer reads CTRL and DATA as its own chunk left them. *)
THEOREM OwnTheorem == Spec => []CompletionIsOwn
  <1>1. IInv => CompletionIsOwn
    BY DEF IInv, Undisturbed, CompletionIsOwn
  <1> QED BY <1>1, InductiveInvariant, PTL

(* Only a timed-out transfer, or a transfer after it, disturbs the next.   *)
THEOREM DisturbedTheorem == Spec => []DisturbedOnlyAfterTimeout
  <1>1. IInv => DisturbedOnlyAfterTimeout
    BY DEF IInv
  <1> QED BY <1>1, InductiveInvariant, PTL

(* A completion of the chunk waited for is never lost on the way.          *)
THEOREM NoLostTheorem == Spec => []NoLostCompletion
  <1>1. IInv => NoLostCompletion
    BY DEF IInv
  <1> QED BY <1>1, InductiveInvariant, PTL

(* Each message is one START ... STOP on the bus, whatever its length.     *)
THEOREM FrameTheorem == Spec => []FrameIsMessage
  <1>1. IInv => FrameIsMessage
    <2> SUFFICES ASSUME TypeOK, HolderSound, FrameFollows, Waiting
                 PROVE  /\ frame.bytes <= msgs[i].len
                        /\ frame.open <=> frame.bytes < msgs[i].len
      BY DEF IInv, FrameIsMessage
    <2> DEFINE chunk == ChunkLen(msgs[i], remaining)
               last  == IsLast(msgs[i], remaining)
    <2>1. msgs[i] \in Message /\ msgs[i].len \in Nat /\ remaining \in 0 .. MaxLen
      BY MessageAt, MaxLenNat DEF Waiting, HolderSound, TypeOK
    <2>2. chunk \in 0 .. remaining /\ (last <=> remaining - chunk = 0)
      BY <2>1, Chunks
    <2>3. frame.bytes = msgs[i].len - remaining + chunk /\ (frame.open <=> ~last)
      BY DEF Waiting, FrameFollows
    <2> HIDE DEF chunk, last
    <2> QED BY <2>1, <2>2, <2>3, MaxLenNat
  <1> QED BY <1>1, InductiveInvariant, PTL

(* i2c_xfer reports success only for a transfer that was acknowledged      *)
(* throughout and closed with a STOP.                                      *)
THEOREM OkTheorem == Spec => []OkIsAnswered
  <1>1. IInv => OkIsAnswered
    BY DEF IInv, Finished, OkIsAnswered
  <1> QED BY <1>1, InductiveInvariant, PTL
=============================================================================
