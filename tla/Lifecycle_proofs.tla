--------------------------- MODULE Lifecycle_proofs ---------------------------
(***************************************************************************)
(* Theorems about Lifecycle for any number of adapters and buses, any      *)
(* board, and any set of failing calls.                                    *)
(***************************************************************************)
EXTENDS Lifecycle, WellFoundedInduction, TLAPS

-----------------------------------------------------------------------------
(* The orders, place by place.                                             *)

LEMMA InitOrderIs ==
  /\ DOMAIN InitOrder = 1 .. 13 /\ Len(InitOrder) = 13
  /\ InitOrder[1] = "adapter" /\ InitOrder[2] = "dmx" /\ InitOrder[3] = "dmxdev"
  /\ InitOrder[4] = "fe_hw" /\ InitOrder[5] = "fe_mem" /\ InitOrder[6] = "net"
  /\ InitOrder[7] = "fe" /\ InitOrder[8] = "fe2" /\ InitOrder[9] = "sec"
  /\ InitOrder[10] = "sec2" /\ InitOrder[11] = "ca"
  /\ InitOrder[12] = "registered" /\ InitOrder[13] = "registered2"
  BY DEF InitOrder

LEMMA UnwindOrderIs ==
  /\ DOMAIN UnwindOrder = 1 .. 7
  /\ UnwindOrder[1] = "fe" /\ UnwindOrder[2] = "net" /\ UnwindOrder[3] = "fe_mem"
  /\ UnwindOrder[4] = "fe_hw" /\ UnwindOrder[5] = "dmxdev"
  /\ UnwindOrder[6] = "dmx" /\ UnwindOrder[7] = "adapter"
  BY DEF UnwindOrder

LEMMA ExitOrderIs ==
  /\ DOMAIN ExitOrder = 1 .. 13
  /\ ExitOrder[1] = "ca" /\ ExitOrder[2] = "registered" /\ ExitOrder[3] = "sec"
  /\ ExitOrder[4] = "fe" /\ ExitOrder[5] = "registered2" /\ ExitOrder[6] = "sec2"
  /\ ExitOrder[7] = "fe2" /\ ExitOrder[8] = "net" /\ ExitOrder[9] = "fe_mem"
  /\ ExitOrder[10] = "fe_hw" /\ ExitOrder[11] = "dmxdev" /\ ExitOrder[12] = "dmx"
  /\ ExitOrder[13] = "adapter"
  BY DEF ExitOrder

(* Every step of the removal but the last has one behind it.               *)
LEMMA RemoveOrderIs ==
  /\ RemoveOrder[1] = "mask"
  /\ After("mask") = "free_irq" /\ After("free_irq") = "detach"
  /\ After("detach") = "kill" /\ After("kill") = "dma_free"
  /\ After("dma_free") = "i2c_exit" /\ After("i2c_exit") = "put"
<1>1. /\ DOMAIN RemoveOrder = 1 .. 7
      /\ RemoveOrder[1] = "mask" /\ RemoveOrder[2] = "free_irq"
      /\ RemoveOrder[3] = "detach" /\ RemoveOrder[4] = "kill"
      /\ RemoveOrder[5] = "dma_free" /\ RemoveOrder[6] = "i2c_exit"
      /\ RemoveOrder[7] = "put"
  BY DEF RemoveOrder
<1>2. ASSUME NEW n \in 1 .. 6
      PROVE  After(RemoveOrder[n]) = RemoveOrder[n + 1]
  <2> DEFINE c == CHOOSE m \in DOMAIN RemoveOrder :
                    RemoveOrder[m] = RemoveOrder[n]
  <2>1. c \in 1 .. 7 /\ RemoveOrder[c] = RemoveOrder[n]
    BY <1>1
  <2>2. c = n
    <3> HIDE DEF c
    <3> QED BY <1>1, <2>1
  <2>3. After(RemoveOrder[n]) = RemoveOrder[1 + c]
    BY Zenon DEF After
  <2> HIDE DEF c
  <2> QED BY <2>2, <2>3
<1>3. /\ After(RemoveOrder[1]) = RemoveOrder[2]
      /\ After(RemoveOrder[2]) = RemoveOrder[3]
      /\ After(RemoveOrder[3]) = RemoveOrder[4]
      /\ After(RemoveOrder[4]) = RemoveOrder[5]
      /\ After(RemoveOrder[5]) = RemoveOrder[6]
      /\ After(RemoveOrder[6]) = RemoveOrder[7]
  BY <1>2
<1> QED BY <1>1, <1>3

LEMMA ElementsAre ==
  /\ Elements(InitOrder) = {"adapter", "dmx", "dmxdev", "fe_hw", "fe_mem",
       "net", "fe", "fe2", "sec", "sec2", "ca", "registered", "registered2"}
  /\ Elements(UnwindOrder) = {"fe", "net", "fe_mem", "fe_hw", "dmxdev", "dmx",
       "adapter"}
  /\ Elements(ExitOrder) = Elements(InitOrder)
  BY InitOrderIs, UnwindOrderIs, ExitOrderIs DEF Elements

(* A set of numbers that is not empty has a least one.                     *)
LEMMA Least ==
  ASSUME NEW S \in SUBSET Nat, S # {}
  PROVE  \E n \in S : \A m \in S : n <= m
<1>1. PICK n \in S : \A m \in S : <<m, n>> \notin OpToRel(<, Nat)
  BY NatLessThanWellFounded, WFMin
<1>2. ASSUME NEW m \in S PROVE ~ (m < n)
  <2>1. <<m, n>> \in Nat \X Nat /\ <<m, n>>[1] = m /\ <<m, n>>[2] = n
    OBVIOUS
  <2>2. <<m, n>> \notin OpToRel(<, Nat)
    BY <1>1
  <2> QED BY <2>1, <2>2, Zenon DEF OpToRel
<1> QED BY <1>2

(* FirstOf finds the part before which none stands in the order.           *)
LEMMA FirstOfIs ==
  ASSUME NEW order, NEW len \in Nat, DOMAIN order = 1 .. len,
         NEW parts, parts # {}, parts \subseteq Elements(order)
  PROVE  \E n \in 1 .. len : /\ FirstOf(order, parts) = order[n]
                             /\ order[n] \in parts
                             /\ \A m \in 1 .. n - 1 : order[m] \notin parts
<1> DEFINE S == {n \in 1 .. len : order[n] \in parts}
<1>1. S \in SUBSET Nat /\ S # {}
  BY DEF Elements
<1>2. PICK n \in S : \A m \in S : n <= m
  BY <1>1, Least
<1>3. \A m \in 1 .. n - 1 : order[m] \notin parts
  BY <1>2
<1> DEFINE c == CHOOSE i \in DOMAIN order :
                  order[i] \in parts /\ \A m \in 1 .. i - 1 : order[m] \notin parts
<1>4. /\ c \in DOMAIN order /\ order[c] \in parts
      /\ \A m \in 1 .. c - 1 : order[m] \notin parts
  BY <1>2, <1>3
<1>5. FirstOf(order, parts) = order[c]
  BY DEF FirstOf
<1> QED BY <1>4, <1>5

-----------------------------------------------------------------------------
(* The parts of an adapter.                                                *)

Parts == Elements(InitOrder)

(* The parts that come before the n-th step of tbsecp3_dvb_init.           *)
Before(n) == {p \in Parts : Present(p) /\ \E m \in 1 .. n - 1 : p = InitOrder[m]}

(* Those there is an error label for, before a frontend.                   *)
Early == {"adapter", "dmx", "dmxdev", "fe_hw", "fe_mem", "net"}

(* Everything stands on what it needs.                                     *)
Stands(parts) == \A p \in parts : Needs(p) \subseteq parts

LEMMA BeforeStep ==
  /\ Before(1) = {}
  /\ \A n \in 1 .. 13 :
       Before(n + 1) = IF Present(InitOrder[n])
                         THEN Before(n) \cup {InitOrder[n]} ELSE Before(n)
<1>1. Before(1) = {}
  BY DEF Before
<1>2. ASSUME NEW n \in 1 .. 13
      PROVE  Before(n + 1) = IF Present(InitOrder[n])
                               THEN Before(n) \cup {InitOrder[n]} ELSE Before(n)
  <2>1. InitOrder[n] \in Parts
    BY InitOrderIs DEF Parts, Elements
  <2>2. \A m \in 1 .. (n + 1) - 1 : m \in 1 .. n - 1 \/ m = n
    OBVIOUS
  <2>3. \A m \in 1 .. n - 1 : m \in 1 .. (n + 1) - 1
    OBVIOUS
  <2>4. n \in 1 .. (n + 1) - 1
    OBVIOUS
  <2> QED BY <2>1, <2>2, <2>3, <2>4 DEF Before
<1> QED BY <1>1, <1>2

LEMMA BeforeEarly == \A n \in 1 .. 7 : Before(n) \subseteq Early
  BY InitOrderIs DEF Before, Early

(* What a part needs comes before it, and the board has it.                *)
LEMMA NeedsBefore ==
  ASSUME NEW n \in 1 .. 13, Present(InitOrder[n])
  PROVE  Needs(InitOrder[n]) \subseteq Before(n) \ {"sec", "sec2"}
<1>1. /\ Present("adapter") /\ Present("dmx") /\ Present("fe")
      /\ Present("sec2") => Present("fe2")
      /\ Present("registered2") => Present("fe2")
  BY LifecycleAssumption DEF Present, Optional
<1>2. /\ 1 < n /\ Present("adapter") => "adapter" \in Before(n)
      /\ 2 < n /\ Present("dmx") => "dmx" \in Before(n)
      /\ 7 < n /\ Present("fe") => "fe" \in Before(n)
      /\ 8 < n /\ Present("fe2") => "fe2" \in Before(n)
  <2>1. {"adapter", "dmx", "fe", "fe2"} \subseteq Parts
    BY ElementsAre DEF Parts
  <2>2. /\ 1 < n => 1 \in 1 .. n - 1
        /\ 2 < n => 2 \in 1 .. n - 1
        /\ 7 < n => 7 \in 1 .. n - 1
        /\ 8 < n => 8 \in 1 .. n - 1
    OBVIOUS
  <2> QED BY <2>1, <2>2, InitOrderIs DEF Before
<1>3. CASE n \in 1 .. 6
  BY <1>1, <1>2, <1>3, InitOrderIs DEF Needs
<1>4. CASE n \in 7 .. 10
  BY <1>1, <1>2, <1>4, InitOrderIs DEF Needs
<1>5. CASE n \in 11 .. 13
  BY <1>1, <1>2, <1>5, InitOrderIs DEF Needs
<1> QED BY <1>3, <1>4, <1>5

(* Nothing is taken from under what is still there: tbsecp3_dvb_exit gives *)
(* back a part only when what needs it is gone...                          *)
LEMMA ExitStands ==
  ASSUME NEW parts \in SUBSET Parts, Stands(parts),
         Elements(ExitOrder) \cap parts # {}
  PROVE  LET p == FirstOf(ExitOrder, Elements(ExitOrder) \cap parts)
         IN  p \in parts /\ Stands(parts \ {p})
<1> DEFINE todo == Elements(ExitOrder) \cap parts
<1> DEFINE p == FirstOf(ExitOrder, todo)
<1>1. todo = parts
  BY ElementsAre DEF Parts
<1>2. PICK n \in 1 .. 13 : /\ p = ExitOrder[n] /\ ExitOrder[n] \in parts
                           /\ \A m \in 1 .. n - 1 : ExitOrder[m] \notin parts
  <2>1. todo # {} /\ todo \subseteq Elements(ExitOrder)
    OBVIOUS
  <2> DEFINE len == 13
  <2>2. DOMAIN ExitOrder = 1 .. len /\ len \in Nat
    BY ExitOrderIs
  <2> HIDE DEF todo, len
  <2>3. \E n \in 1 .. len : /\ p = ExitOrder[n] /\ ExitOrder[n] \in todo
                            /\ \A m \in 1 .. n - 1 : ExitOrder[m] \notin todo
    BY <2>1, <2>2, FirstOfIs, Zenon
  <2> QED BY <1>1, <2>3 DEF len
<1> HIDE DEF p
<1>3. ASSUME NEW q \in parts, q # p PROVE p \notin Needs(q)
  <2>1. q \in {"adapter", "dmx", "dmxdev", "fe_hw", "fe_mem", "net", "fe",
               "fe2", "sec", "sec2", "ca", "registered", "registered2"}
    BY ElementsAre DEF Parts
  <2>2. CASE n \in 1 .. 4
    BY <1>2, <1>3, <2>1, <2>2, ExitOrderIs DEF Needs
  <2>3. CASE n \in 5 .. 8
    BY <1>2, <1>3, <2>1, <2>3, ExitOrderIs DEF Needs
  <2>4. CASE n \in 9 .. 11
    BY <1>2, <1>3, <2>1, <2>4, ExitOrderIs DEF Needs
  <2>5. CASE n \in 12 .. 13
    BY <1>2, <1>3, <2>1, <2>5, ExitOrderIs DEF Needs
  <2> QED BY <2>2, <2>3, <2>4, <2>5
<1>4. Stands(parts \ {p})
  BY <1>3 DEF Stands
<1> QED BY <1>2, <1>4 DEF p

(* ... and so do the error labels.                                         *)
LEMMA UnwindStands ==
  ASSUME NEW parts \in SUBSET Early, Stands(parts),
         Elements(UnwindOrder) \cap parts # {}
  PROVE  LET p == FirstOf(UnwindOrder, Elements(UnwindOrder) \cap parts)
         IN  p \in parts /\ p # "fe" /\ Stands(parts \ {p})
<1> DEFINE todo == Elements(UnwindOrder) \cap parts
<1> DEFINE p == FirstOf(UnwindOrder, todo)
<1>1. todo = parts
  BY ElementsAre DEF Early
<1>2. PICK n \in 1 .. 7 : /\ p = UnwindOrder[n] /\ UnwindOrder[n] \in parts
                          /\ \A m \in 1 .. n - 1 : UnwindOrder[m] \notin parts
  <2>1. todo # {} /\ todo \subseteq Elements(UnwindOrder)
    OBVIOUS
  <2> DEFINE len == 7
  <2>2. DOMAIN UnwindOrder = 1 .. len /\ len \in Nat
    BY UnwindOrderIs
  <2> HIDE DEF todo, len
  <2>3. \E n \in 1 .. len : /\ p = UnwindOrder[n] /\ UnwindOrder[n] \in todo
                            /\ \A m \in 1 .. n - 1 : UnwindOrder[m] \notin todo
    BY <2>1, <2>2, FirstOfIs, Zenon
  <2> QED BY <1>1, <2>3 DEF len
<1> HIDE DEF p
<1>3. ASSUME NEW q \in parts, q # p PROVE p \notin Needs(q)
  <2>1. q \in {"adapter", "dmx", "dmxdev", "fe_hw", "fe_mem", "net"}
    BY DEF Early
  <2> QED BY <1>2, <1>3, <2>1, UnwindOrderIs DEF Needs
<1>4. Stands(parts \ {p}) /\ p # "fe"
  BY <1>2, <1>3 DEF Stands, Early
<1> QED BY <1>2, <1>4 DEF p

-----------------------------------------------------------------------------
(* The inductive invariant: what there is, by where probe or remove is.    *)

(* Where the handler may be called, or may not have returned yet.          *)
Live == {"int_en", "attach", "unwind", "bound", "mask", "free_irq"}

HeldAt ==
  /\ pc = "unbound" => held = {}
  /\ pc \in {"kzalloc", "err0"} => held = {"pci"}
  /\ pc \in {"ioremap", "err1"} => held = {"pci", "dev"}
  /\ pc \notin {"unbound", "kzalloc", "err0", "ioremap", "err1"} =>
       {"pci", "dev", "mmio"} \subseteq held
  /\ pc \in Live \ {"free_irq"} => "irq" \in held
  /\ "irq" \in held => pc \in Live

BuffersAt ==
  /\ pc \in Live \cup {"i2c_init", "irq", "err4", "err3", "detach", "kill",
                       "dma_free"} => buf = Adapters
  /\ pc = "dma_init" => buf = 1 .. k - 1
  /\ pc \in {"unbound", "kzalloc", "ioremap", "err2", "err1", "err0",
             "i2c_exit", "put"} => buf = {}

BusesAt ==
  /\ pc \in Live \cup {"irq", "err4", "detach", "kill", "dma_free", "i2c_exit"}
       => bus = Buses
  /\ pc = "i2c_init" => bus = 1 .. k - 1 /\ k <= NBuses
  /\ pc \in {"unbound", "kzalloc", "ioremap", "dma_init", "err3", "err2", "err1",
             "err0", "put"} => bus = {}

(* The adapters before the k-th are through, those behind it untouched.    *)
(* About an adapter that failed in dvb_register_frontend only LeftBehind   *)
(* is known once its attach is over.                                       *)
PartsAt ==
  /\ pc \notin Live \cup {"detach"} =>
       \A a \in Adapters \ unregistered : att[a] = {}
  /\ pc = "int_en" => \A a \in Adapters : att[a] = {}
  /\ pc \in {"attach", "unwind"} => \A a \in k + 1 .. N : att[a] = {}
  /\ pc = "attach" => /\ att[k] \subseteq Before(j)
                      /\ Before(j) \ {"sec", "sec2"} \subseteq att[k]
  /\ pc = "unwind" => att[k] \subseteq
       IF k \in unregistered THEN Early \cup {"fe", "sec", "fe2", "sec2", "ca"}
                             ELSE Early
  /\ pc = "detach" => \A a \in (1 .. k - 1) \ unregistered : att[a] = {}

FailedAt ==
  /\ pc \in {"ioremap", "dma_init", "i2c_init", "irq", "int_en"} => failed = {}
  /\ pc \in {"attach", "unwind"} => failed \subseteq 1 .. k - 1
  /\ FailedHasNothing

UnregisteredAt ==
  /\ pc \in {"kzalloc", "ioremap", "dma_init", "i2c_init", "irq", "int_en",
             "err0", "err1", "err2", "err3", "err4"} => unregistered = {}
  /\ pc = "attach" => unregistered \subseteq 1 .. k - 1
  /\ pc = "unwind" => unregistered \subseteq 1 .. k
  /\ \A a \in unregistered : \/ LeftBehind(a) /\ a \in failed
                             \/ pc = "unwind" /\ a = k

PartsStand == \A a \in Adapters \ unregistered : Stands(att[a])

ClientsAt ==
  /\ clients # {} => pc \in Live \cup {"detach", "kill", "dma_free", "i2c_exit"}
  /\ \A a \in Adapters \ unregistered :
       "client" \in Board /\ "fe" \in att[a] => a \in clients

HandlerAt == handler = "run" => pc \in Live

TaskletsAt ==
  /\ pc \notin Live \cup {"detach", "kill"} =>
       \A a \in Adapters : tasklet[a] = "idle"
  /\ pc = "kill" => \A a \in 1 .. k - 1 : tasklet[a] = "idle"

FeedsAt == dma = feed /\ \A a \in Adapters : feed[a] => "dmxdev" \in att[a]

IInv == /\ TypeOK /\ HeldAt /\ BuffersAt /\ BusesAt /\ PartsAt /\ FailedAt
        /\ UnregisteredAt /\ PartsStand /\ ClientsAt
        /\ HandlerAt /\ TaskletsAt /\ FeedsAt

-----------------------------------------------------------------------------
LEMMA InitInv == Init => IInv
  <1> SUFFICES ASSUME Init PROVE IInv
    OBVIOUS
  <1>0. 1 \in Adapters /\ N \in Nat /\ 1 \in DOMAIN InitOrder
    BY LifecycleAssumption, InitOrderIs DEF Adapters
  <1>1. TypeOK
    BY <1>0 DEF Init, TypeOK, Adapters
  <1>2. HeldAt /\ BuffersAt /\ BusesAt
    BY DEF Init, HeldAt, BuffersAt, BusesAt, Live
  <1>3. PartsAt /\ FailedAt /\ UnregisteredAt /\ PartsStand /\ ClientsAt
    BY DEF Init, PartsAt, FailedAt, UnregisteredAt, PartsStand, ClientsAt,
       Stands, FailedHasNothing, Live
  <1>4. HandlerAt /\ TaskletsAt /\ FeedsAt
    BY DEF Init, HandlerAt, TaskletsAt, FeedsAt, Live
  <1> QED BY <1>1, <1>2, <1>3, <1>4 DEF IInv

(* The type invariant in three parts.                                      *)
Labels == {"unbound", "kzalloc", "ioremap", "dma_init", "i2c_init", "irq",
           "int_en", "attach", "unwind", "bound", "err0", "err1", "err2", "err3",
           "err4", "mask", "free_irq", "detach", "kill", "dma_free", "i2c_exit",
           "put"}

PlaceOK == /\ pc \in Labels /\ j \in 1 .. 13
           /\ k \in Nat /\ 1 <= k /\ (pc # "i2c_init" => k <= N)

ThingsOK ==
  /\ held \subseteq {"pci", "dev", "mmio", "irq"}
  /\ buf \subseteq Adapters /\ bus \subseteq Buses /\ failed \subseteq Adapters
  /\ att \in [Adapters -> SUBSET Parts]
  /\ clients \subseteq Adapters /\ modules \subseteq Adapters
  /\ unregistered \subseteq Adapters

DoingsOK ==
  /\ intEn \in BOOLEAN /\ pend \in [Adapters -> BOOLEAN]
  /\ handler \in {"idle", "run"}
  /\ tasklet \in [Adapters -> {"idle", "sched", "run", "rerun"}]
  /\ feed \in [Adapters -> BOOLEAN] /\ dma \in [Adapters -> BOOLEAN]

LEMMA TypeParts == TypeOK <=> PlaceOK /\ ThingsOK /\ DoingsOK
  <1>1. Elements(RemoveOrder) = {"mask", "free_irq", "detach", "kill",
                                 "dma_free", "i2c_exit", "put"}
    BY DEF Elements, RemoveOrder
  <1>2. {"unbound", "kzalloc", "ioremap", "dma_init", "i2c_init", "irq",
         "int_en", "attach", "unwind", "bound",
         "err0", "err1", "err2", "err3", "err4"} \cup Elements(RemoveOrder) = Labels
    BY <1>1 DEF Labels
  <1>3. DOMAIN InitOrder = 1 .. 13
    BY InitOrderIs
  <1> QED BY <1>2, <1>3 DEF TypeOK, PlaceOK, ThingsOK, DoingsOK, Parts

(* Handler, tasklets, users and engines leave the rest alone.              *)
Others ==
  \/ HandlerEnter \/ HandlerLeave
  \/ \E a \in Adapters : \/ TaskletRun(a) \/ TaskletEnd(a)
                         \/ UserStart(a) \/ UserStop(a) \/ Fill(a)

LEMMA OthersLeave ==
  Others \/ UNCHANGED vars => UNCHANGED <<pc, k, j, held, buf, bus, dvb>>
  BY DEF Others, vars, HandlerEnter, HandlerLeave, TaskletRun, TaskletEnd,
     UserStart, UserStop, Fill, progress, resources

(* What tbsecp3_dma_init leaves when it fails, and tbsecp3_dma_free always:*)
(* nothing, as the buffers there are are the first ones.                   *)
LEMMA FreesAll ==
  ASSUME NEW n \in Int, buf = 1 .. n
  PROVE  buf \ DmaFreed = {}
  BY DEF DmaFreed


-----------------------------------------------------------------------------
(* The type invariant.                                                     *)
LEMMA GotoPlace ==
  ASSUME NEW label \in Labels, Goto(label) PROVE PlaceOK'
  BY LifecycleAssumption DEF Goto, PlaceOK

LEMMA PlaceStep == TypeOK /\ [Next]_vars => PlaceOK'
  <1> SUFFICES ASSUME PlaceOK, [Next]_vars PROVE PlaceOK'
    BY TypeParts
  <1>0. N \in Nat
    BY LifecycleAssumption
  <1> USE DEF progress
  <1>1. CASE Enable
    BY <1>1, GotoPlace DEF Enable, Labels
  <1>2. CASE Kzalloc
    BY <1>2, GotoPlace DEF Kzalloc, Labels
  <1>3. CASE Ioremap
    BY <1>3, GotoPlace DEF Ioremap, Labels
  <1>4. CASE DmaInit
    <2>1. CASE Goto("i2c_init") \/ Goto("err2")
      BY <2>1, GotoPlace DEF Labels
    <2>2. CASE k < N /\ k' = k + 1 /\ pc' = pc /\ j' = j
      BY <1>0, <2>2 DEF PlaceOK
    <2> QED BY <1>4, <2>1, <2>2 DEF DmaInit
  <1>5. CASE I2cInit
    <2>1. CASE Goto("irq") \/ Goto("err3")
      BY <2>1, GotoPlace DEF Labels
    <2>2. CASE pc = "i2c_init" /\ k' = k + 1 /\ pc' = pc /\ j' = j
      BY <2>2 DEF PlaceOK
    <2> QED BY <1>5, <2>1, <2>2 DEF I2cInit
  <1>6. CASE RequestIrq
    BY <1>6, GotoPlace DEF RequestIrq, Labels
  <1>7. CASE IntEnable
    BY <1>7, GotoPlace DEF IntEnable, Labels
  <1>n. NextAdapter => PlaceOK'
    <2>1. Goto("bound") => PlaceOK'
      BY GotoPlace DEF Labels
    <2>2. k < N /\ pc' = "attach" /\ k' = k + 1 /\ j' = 1 => PlaceOK'
      BY <1>0 DEF PlaceOK, Labels
    <2> QED BY <2>1, <2>2 DEF NextAdapter
  <1>j. j < 13 /\ pc = "attach" /\ pc' = pc /\ k' = k /\ j' = j + 1 => PlaceOK'
    BY DEF PlaceOK
  <1>8. CASE DvbInit
    BY <1>8, <1>n, <1>j, InitOrderIs DEF DvbInit
  <1>9. CASE DvbInitFails
    <2>1. CASE /\ pc = "attach" /\ InitOrder[j] \in {"sec", "sec2"}
               /\ j' = j + 1 /\ UNCHANGED <<pc, k>>
      BY <2>1, <1>j, InitOrderIs DEF PlaceOK
    <2>2. CASE pc' = "unwind" /\ pc = "attach" /\ UNCHANGED <<k, j>>
      BY <2>2 DEF PlaceOK, Labels
    <2> QED BY <1>9, <1>n, <2>1, <2>2 DEF DvbInitFails
  <1>10. CASE DvbUnwind
    BY <1>10, <1>n DEF DvbUnwind, PlaceOK
  <1>11. CASE ProbeError
    BY <1>11, GotoPlace DEF ProbeError, Labels
  <1>12. CASE Remove
    BY <1>12, RemoveOrderIs, GotoPlace DEF Remove, Labels
  <1>13. CASE IntDisable
    BY <1>13, RemoveOrderIs, GotoPlace DEF IntDisable, Labels
  <1>14. CASE FreeIrq
    <2>1. CASE Goto(After("free_irq"))
      BY <2>1, RemoveOrderIs, GotoPlace DEF Labels
    <2>2. CASE UNCHANGED <<pc, k, j>>
      BY <2>2 DEF PlaceOK
    <2> QED BY <1>14, <2>1, <2>2 DEF FreeIrq
  <1>15. CASE Detach \/ KillTasklets
    <2>1. CASE Goto(After("detach")) \/ Goto(After("kill"))
      BY <2>1, RemoveOrderIs, GotoPlace DEF Labels
    <2>2. CASE UNCHANGED <<pc, k, j>>
      BY <2>2 DEF PlaceOK
    <2>3. CASE pc # "i2c_init" /\ k < N /\ k' = k + 1 /\ UNCHANGED <<pc, j>>
      BY <1>0, <2>3 DEF PlaceOK
    <2> QED BY <1>15, <2>1, <2>2, <2>3 DEF Detach, KillTasklets
  <1>16. CASE DmaFree \/ I2cExit
    BY <1>16, RemoveOrderIs, GotoPlace DEF DmaFree, I2cExit, Labels
  <1>17. CASE Put
    BY <1>17, GotoPlace DEF Put, Labels
  <1>18. CASE Others \/ UNCHANGED vars
    BY <1>18, OthersLeave DEF PlaceOK
  <1> QED
    BY <1>1, <1>2, <1>3, <1>4, <1>5, <1>6, <1>7, <1>8, <1>9, <1>10, <1>11,
       <1>12, <1>13, <1>14, <1>15, <1>16, <1>17, <1>18
       DEF Next, Probing, Removing, Others

LEMMA ThingsStep == TypeOK /\ BusesAt /\ [Next]_vars => ThingsOK'
  <1> SUFFICES ASSUME PlaceOK, ThingsOK, BusesAt, [Next]_vars PROVE ThingsOK'
    BY TypeParts
  <1> USE DEF resources, dvb
  <1>k. pc # "i2c_init" => k \in Adapters
    BY DEF PlaceOK, Adapters
  <1>1. CASE Enable \/ Kzalloc \/ Ioremap
    BY <1>1 DEF Enable, Kzalloc, Ioremap, ThingsOK
  <1>2. CASE DmaInit
    BY <1>2, <1>k DEF DmaInit, ThingsOK
  <1>3. CASE I2cInit
    <2>1. k \in Buses
      BY <1>3 DEF I2cInit, BusesAt, PlaceOK, Buses
    <2> QED BY <1>3, <2>1 DEF I2cInit, ThingsOK
  <1>4. CASE RequestIrq \/ IntEnable \/ ProbeError
    BY <1>4 DEF RequestIrq, IntEnable, ProbeError, ThingsOK
  <1>5. CASE DvbInit
    <2>1. InitOrder[j] \in Parts
      BY InitOrderIs DEF PlaceOK, Parts, Elements
    <2>2. att[k] \in SUBSET Parts
      BY <1>5, <1>k DEF DvbInit, ThingsOK
    <2>3. \E v \in SUBSET Parts : att' = [att EXCEPT ![k] = v]
      BY <1>5, <2>1, <2>2 DEF DvbInit
    <2>4. clients' \subseteq Adapters /\ modules' \subseteq Adapters
      BY <1>5, <1>k DEF DvbInit, TakeClients, ThingsOK
    <2> QED BY <1>5, <2>3, <2>4 DEF DvbInit, ThingsOK
  <1>6. CASE DvbInitFails
    <2>1. clients' \subseteq Adapters /\ modules' \subseteq Adapters
      BY <1>6, <1>k DEF DvbInitFails, TakeClients, ThingsOK
    <2>2. failed' \subseteq Adapters /\ unregistered' \subseteq Adapters
      BY <1>6, <1>k DEF DvbInitFails, ThingsOK
    <2> QED BY <1>6, <2>1, <2>2 DEF DvbInitFails, ThingsOK
  <1>7. CASE DvbUnwind
    <2>1. att[k] \in SUBSET Parts /\ k \in Adapters
      BY <1>7, <1>k DEF DvbUnwind, ThingsOK
    <2>2. att' = att \/ \E v \in SUBSET Parts : att' = [att EXCEPT ![k] = v]
      BY <1>7, <2>1 DEF DvbUnwind
    <2>3. failed' = failed \/ failed' = failed \cup {k}
      BY <1>7 DEF DvbUnwind
    <2> QED BY <1>7, <2>1, <2>2, <2>3 DEF DvbUnwind, ThingsOK
  <1>8. CASE Detach
    <2>1. att[k] \in SUBSET Parts
      BY <1>8, <1>k DEF Detach, ThingsOK
    <2>2. att' = att \/ \E v \in SUBSET Parts : att' = [att EXCEPT ![k] = v]
      BY <1>8, <2>1 DEF Detach
    <2> QED BY <1>8, <2>2 DEF Detach, ThingsOK
  <1>9. CASE Remove \/ IntDisable \/ FreeIrq \/ KillTasklets
    BY <1>9 DEF Remove, IntDisable, FreeIrq, KillTasklets, ThingsOK
  <1>10. CASE DmaFree \/ I2cExit \/ Put
    BY <1>10 DEF DmaFree, I2cExit, Put, ThingsOK
  <1>11. CASE Others \/ UNCHANGED vars
    BY <1>11, OthersLeave DEF ThingsOK
  <1> QED
    BY <1>1, <1>2, <1>3, <1>4, <1>5, <1>6, <1>7, <1>8, <1>9, <1>10, <1>11
       DEF Next, Probing, Removing, Others

LEMMA DoingsStep == TypeOK /\ [Next]_vars => DoingsOK'
  <1> SUFFICES ASSUME DoingsOK, [Next]_vars PROVE DoingsOK'
    BY TypeParts
  <1> USE DEF DoingsOK, activity
  <1>1. CASE Enable \/ Kzalloc \/ RequestIrq \/ I2cInit
    BY <1>1 DEF Enable, Kzalloc, RequestIrq, I2cInit
  <1>2. CASE Ioremap
    BY <1>2 DEF Ioremap
  <1>3. CASE DmaInit
    BY <1>3 DEF DmaInit
  <1>4. CASE IntEnable \/ IntDisable
    BY <1>4 DEF IntEnable, IntDisable
  <1>5. CASE DvbInit \/ DvbInitFails \/ DvbUnwind \/ ProbeError
    BY <1>5 DEF DvbInit, DvbInitFails, DvbUnwind, ProbeError
  <1>6. CASE Remove \/ FreeIrq \/ Detach \/ KillTasklets
    BY <1>6 DEF Remove, FreeIrq, Detach, KillTasklets
  <1>7. CASE DmaFree \/ I2cExit \/ Put
    BY <1>7 DEF DmaFree, I2cExit, Put
  <1>8. CASE HandlerEnter
    BY <1>8 DEF HandlerEnter
  <1>9. CASE HandlerLeave
    BY <1>9 DEF HandlerLeave
  <1>10. ASSUME NEW a \in Adapters, TaskletRun(a) \/ TaskletEnd(a)
         PROVE  DoingsOK'
    BY <1>10 DEF TaskletRun, TaskletEnd
  <1>11. ASSUME NEW a \in Adapters, UserStart(a) \/ UserStop(a) \/ Fill(a)
         PROVE  DoingsOK'
    BY <1>11 DEF UserStart, UserStop, Fill
  <1>12. CASE UNCHANGED vars
    BY <1>12 DEF vars
  <1> QED
    BY <1>1, <1>2, <1>3, <1>4, <1>5, <1>6, <1>7, <1>8, <1>9, <1>10, <1>11,
       <1>12 DEF Next, Probing, Removing

LEMMA TypeStep == IInv /\ [Next]_vars => TypeOK'
  <1> SUFFICES ASSUME IInv, [Next]_vars PROVE TypeOK'
    OBVIOUS
  <1>1. PlaceOK' /\ ThingsOK' /\ DoingsOK'
    BY PlaceStep, ThingsStep, DoingsStep DEF IInv
  <1>2. TypeOK' <=> (PlaceOK /\ ThingsOK /\ DoingsOK)'
    BY TypeParts, PTL
  <1> QED BY <1>1, <1>2

-----------------------------------------------------------------------------
(* Resources follow the probe and the removal.                             *)
LEMMA ResourcesStep == IInv /\ [Next]_vars => (HeldAt /\ BuffersAt /\ BusesAt)'
  <1> SUFFICES ASSUME PlaceOK, ThingsOK, HeldAt, BuffersAt, BusesAt, [Next]_vars
               PROVE  (HeldAt /\ BuffersAt /\ BusesAt)'
    BY TypeParts DEF IInv
  <1>0. /\ N \in Nat /\ N >= 1 /\ NBuses \in Nat /\ NBuses >= 1 /\ k \in Nat
        /\ k >= 1 /\ (pc # "i2c_init" => k <= N)
    BY LifecycleAssumption DEF PlaceOK
  <1> USE DEF Goto, Live, progress, resources, HeldAt, BuffersAt, BusesAt
  <1>1. CASE Enable \/ Kzalloc
    BY <1>1 DEF Enable, Kzalloc
  <1>2. CASE Ioremap
    <2>1. 1 .. 1 - 1 = {}
      OBVIOUS
    <2> QED BY <1>2, <2>1 DEF Ioremap
  <1>3. CASE DmaInit
    <2>1. pc = "dma_init" /\ buf = 1 .. k - 1 /\ bus = {} /\ k <= N
      BY <1>0, <1>3 DEF DmaInit
    <2>2. CASE buf' = buf \cup {k}
      <3>1. buf' = 1 .. k
        BY <1>0, <2>1, <2>2
      <3> QED BY <1>0, <1>3, <2>1, <2>2, <3>1 DEF DmaInit, Adapters
    <2>3. CASE buf' = buf \ DmaFreed /\ Goto("err2")
      <3>1. buf' = {}
        BY <1>0, <2>1, <2>3, FreesAll
      <3> QED BY <1>3, <2>1, <2>3, <3>1 DEF DmaInit
    <2> QED BY <1>3, <2>2, <2>3 DEF DmaInit
  <1>4. CASE I2cInit
    <2>1. pc = "i2c_init" /\ bus = 1 .. k - 1 /\ buf = Adapters /\ k <= NBuses
      BY <1>4 DEF I2cInit
    <2>2. CASE bus' = bus \cup {k}
      <3>1. bus' = 1 .. k
        BY <1>0, <2>1, <2>2
      <3> QED BY <1>0, <1>4, <2>1, <2>2, <3>1 DEF I2cInit, Buses
    <2>3. CASE bus' = bus \ (1 .. k) /\ Goto("err3")
      <3>1. bus' = {}
        BY <1>0, <2>1, <2>3
      <3> QED BY <1>4, <2>1, <2>3, <3>1 DEF I2cInit
    <2> QED BY <1>4, <2>2, <2>3 DEF I2cInit
  <1>5. CASE RequestIrq \/ IntEnable
    BY <1>5 DEF RequestIrq, IntEnable
  <1>6. CASE DvbInit \/ DvbInitFails \/ DvbUnwind
    BY <1>6 DEF DvbInit, DvbInitFails, DvbUnwind, NextAdapter
  <1>7. CASE ProbeError
    <2>1. pc = "err3" => buf \ DmaFreed = {}
      BY <1>0, FreesAll DEF Adapters
    <2> QED BY <1>7, <2>1 DEF ProbeError, ThingsOK
  <1>8. CASE Remove \/ IntDisable
    BY <1>8, RemoveOrderIs DEF Remove, IntDisable
  <1>9. CASE FreeIrq
    BY <1>9, RemoveOrderIs DEF FreeIrq
  <1>10. CASE Detach \/ KillTasklets
    BY <1>10, RemoveOrderIs DEF Detach, KillTasklets
  <1>11. CASE DmaFree
    <2>1. pc = "dma_free" => buf \ DmaFreed = {}
      BY <1>0, FreesAll DEF Adapters
    <2> QED BY <1>11, <2>1, RemoveOrderIs DEF DmaFree
  <1>12. CASE I2cExit \/ Put
    BY <1>12, RemoveOrderIs DEF I2cExit, Put, ThingsOK
  <1>13. CASE Others \/ UNCHANGED vars
    BY <1>13, OthersLeave
  <1> QED
    BY <1>1, <1>2, <1>3, <1>4, <1>5, <1>6, <1>7, <1>8, <1>9, <1>10, <1>11,
       <1>12, <1>13 DEF Next, Probing, Removing, Others

-----------------------------------------------------------------------------
(* The parts of the adapters, and who has failed.                          *)
PartsInv == PartsAt /\ FailedAt /\ UnregisteredAt /\ PartsStand

(* LeftBehind after the step, of an adapter named before it.               *)
LeftThen(a) ==
  /\ a \in unregistered'
  /\ \/ att'[a] \subseteq {"sec", "fe2", "sec2", "ca"}
     \/ "fe2" \in Board /\ {"registered", "dmxdev"} \subseteq att'[a]

LEMMA PartsStep == IInv /\ [Next]_vars => PartsInv'
  <1> SUFFICES ASSUME PlaceOK, ThingsOK, PartsAt, FailedAt, UnregisteredAt,
                      PartsStand, [Next]_vars
               PROVE  PartsInv'
    BY TypeParts DEF IInv
  <1>0. /\ N \in Nat /\ N >= 1 /\ k \in Nat /\ k >= 1 /\ j \in 1 .. 13
        /\ (pc # "i2c_init" => k \in Adapters)
    BY LifecycleAssumption DEF PlaceOK, Adapters
  <1>e. Stands({})
    BY DEF Stands
  <1> USE DEF dvb, PartsInv
  <1>1. CASE Enable
    BY <1>1, <1>e DEF Enable, Goto, Live, PartsAt, FailedAt, FailedHasNothing,
       UnregisteredAt, PartsStand, ThingsOK
  <1>2. CASE Kzalloc \/ Ioremap
    BY <1>2 DEF Kzalloc, Ioremap, Goto, Live, PartsAt, FailedAt,
       FailedHasNothing, LeftBehind, UnregisteredAt, PartsStand
  <1>3. CASE DmaInit \/ I2cInit \/ RequestIrq
    BY <1>3 DEF DmaInit, I2cInit, RequestIrq, Goto, Live, PartsAt, FailedAt,
       FailedHasNothing, UnregisteredAt, PartsStand
  <1>4. CASE IntEnable
    BY <1>0, <1>4, BeforeStep DEF IntEnable, resources, Goto, Live, PartsAt,
       FailedAt, FailedHasNothing, UnregisteredAt, PartsStand, Adapters

  (* The next adapter, or the end of the attach.                           *)
  <1>n. ASSUME NextAdapter, pc \in {"attach", "unwind"},
               att' = [att EXCEPT ![k] = att'[k]],
               k \notin unregistered' => Stands(att'[k]),
               unregistered' \ {k} = unregistered \ {k},
               k \in unregistered' => LeftThen(k) /\ k \in failed',
               \/ failed' = failed
               \/ /\ failed' = failed \cup {k}
                  /\ att'[k] = {} \/ LeftThen(k)
        PROVE  PartsInv'
    <2>1. k \in Adapters /\ \A a \in Adapters \ {k} : att'[a] = att[a]
      BY <1>0, <1>n DEF ThingsOK
    <2>2. PartsStand'
      BY <1>n, <2>1 DEF PartsStand
    <2>3. failed \subseteq 1 .. k - 1 /\ \A a \in failed : att[a] = {} \/ LeftBehind(a)
      BY <1>n DEF FailedAt, FailedHasNothing
    <2>u. unregistered \subseteq 1 .. k
      BY <1>0, <1>n DEF UnregisteredAt
    <2>4. /\ failed' \subseteq 1 .. k
          /\ \A a \in failed' : att'[a] = {} \/ LeftBehind(a)'
      <3>1. \A a \in failed : a \in Adapters \ {k} /\ a \in 1 .. k
        BY <1>0, <2>3 DEF ThingsOK
      <3>2. \A a \in failed : att'[a] = {} \/ LeftBehind(a)'
        BY <1>n, <2>1, <2>3, <3>1 DEF LeftBehind
      <3>3. k \in 1 .. k
        BY <1>0
      <3>4. ASSUME failed' = failed \cup {k}, att'[k] = {} \/ LeftThen(k)
            PROVE  \A a \in failed' : att'[a] = {} \/ LeftBehind(a)'
        BY <3>2, <3>4 DEF LeftThen, LeftBehind
      <3> QED BY <1>n, <3>1, <3>2, <3>3, <3>4
    <2>v. /\ unregistered' \subseteq 1 .. k
          /\ \A a \in unregistered' : LeftBehind(a)' /\ a \in failed'
      <3>1. k \in 1 .. k /\ failed \subseteq failed'
        BY <1>0, <1>n
      <3>2. ASSUME NEW a \in unregistered', a # k
            PROVE  LeftBehind(a)' /\ a \in failed'
        <4>1. a \in unregistered /\ a \in Adapters
          BY <1>n, <3>2 DEF ThingsOK
        <4>2. LeftBehind(a) /\ a \in failed
          BY <3>2, <4>1 DEF UnregisteredAt
        <4> QED BY <2>1, <3>1, <3>2, <4>1, <4>2 DEF LeftBehind
      <3>3. ASSUME NEW a \in unregistered'
            PROVE  LeftBehind(a)' /\ a \in failed' /\ a \in 1 .. k
        <4>1. CASE a = k
          BY <1>n, <3>1, <4>1 DEF LeftThen, LeftBehind
        <4>2. CASE a # k
          <5>1. a \in unregistered
            BY <1>n, <4>2
          <5> QED BY <2>u, <3>2, <4>2, <5>1
        <4> QED BY <4>1, <4>2
      <3> QED BY <3>3
    <2>5. \A a \in k + 1 .. N : att'[a] = {}
      BY <1>0, <1>n, <2>1 DEF PartsAt, Adapters
    <2>6. CASE pc' = "attach" /\ k < N /\ k' = k + 1 /\ j' = 1
      <3>1. att'[k + 1] = {} /\ \A a \in k + 2 .. N : att'[a] = {}
        BY <1>0, <2>5, <2>6
      <3>2. PartsAt'
        BY <1>0, <2>6, <3>1, BeforeStep DEF PartsAt, Live
      <3>3. FailedAt'
        BY <1>0, <2>4, <2>6 DEF FailedAt, FailedHasNothing
      <3>4. UnregisteredAt'
        BY <1>0, <2>v, <2>6 DEF UnregisteredAt
      <3> QED BY <2>2, <3>2, <3>3, <3>4
    <2>7. CASE Goto("bound")
      <3>1. UnregisteredAt'
        BY <2>v, <2>7 DEF UnregisteredAt, Goto
      <3> QED BY <2>2, <2>4, <2>7, <3>1
              DEF Goto, PartsAt, FailedAt, FailedHasNothing, Live
    <2> QED BY <1>n, <2>6, <2>7 DEF NextAdapter
  (* An adapter whose attach goes on, or is unwound: the others stay.      *)
  <1>m. ASSUME pc \in {"attach", "unwind"}, pc' \in {"attach", "unwind"}, k' = k,
               att' = [att EXCEPT ![k] = att'[k]], UNCHANGED failed,
               k \notin unregistered' => Stands(att'[k]),
               unregistered' \ {k} = unregistered \ {k},
               k \in unregistered' => pc' = "unwind",
               pc' = "attach" => /\ att'[k] \subseteq Before(j')
                                 /\ Before(j') \ {"sec", "sec2"} \subseteq att'[k],
               pc' = "unwind" => att'[k] \subseteq
                 IF k \in unregistered' THEN Early \cup {"fe", "sec", "fe2", "sec2", "ca"}
                                        ELSE Early
        PROVE  PartsInv'
    <2>1. k \in Adapters /\ \A a \in Adapters \ {k} : att'[a] = att[a]
      BY <1>0, <1>m DEF ThingsOK
    <2>2. PartsStand'
      BY <1>m, <2>1 DEF PartsStand
    <2>3. PartsAt'
      <3>1. \A a \in k + 1 .. N : att'[a] = {}
        BY <1>0, <1>m, <2>1 DEF PartsAt, Adapters
      <3> QED BY <1>m, <3>1 DEF PartsAt, Live
    <2>4. ASSUME NEW a \in Adapters, a # k, LeftBehind(a)
          PROVE  LeftBehind(a)'
      BY <1>m, <2>1, <2>4 DEF LeftBehind
    <2>5. FailedAt'
      <3>1. \A a \in failed : a # k /\ a \in Adapters
        BY <1>0, <1>m DEF FailedAt, ThingsOK
      <3>2. \A a \in failed : att[a] = {} \/ LeftBehind(a)
        BY <1>m DEF FailedAt, FailedHasNothing
      <3>3. \A a \in failed' : att'[a] = {} \/ LeftBehind(a)'
        BY <1>m, <2>1, <2>4, <3>1, <3>2
      <3>4. failed' \subseteq 1 .. k' - 1
        BY <1>m DEF FailedAt
      <3> QED BY <1>m, <3>3, <3>4 DEF FailedAt, FailedHasNothing
    <2>6. UnregisteredAt'
      <3>1. unregistered \ {k} \subseteq 1 .. k - 1
        BY <1>0, <1>m DEF UnregisteredAt
      <3>2. /\ pc' = "attach" => unregistered' \subseteq 1 .. k' - 1
            /\ pc' = "unwind" => unregistered' \subseteq 1 .. k'
        <4>1. k \in 1 .. k /\ 1 .. k - 1 \subseteq 1 .. k
          BY <1>0
        <4> QED BY <1>m, <3>1, <4>1
      <3>3. ASSUME NEW a \in unregistered', a # k
            PROVE  LeftBehind(a)' /\ a \in failed'
        <4>1. a \in unregistered /\ a \in Adapters
          BY <1>m, <3>3 DEF ThingsOK
        <4>2. LeftBehind(a) /\ a \in failed
          BY <3>3, <4>1 DEF UnregisteredAt
        <4> QED BY <1>m, <2>4, <3>3, <4>1, <4>2
      <3> QED BY <1>m, <3>2, <3>3 DEF UnregisteredAt
    <2> QED BY <2>2, <2>3, <2>5, <2>6
  <1>5. CASE DvbInit
    <2> DEFINE p == InitOrder[j]
    <2> DEFINE v == IF Present(p) THEN att[k] \cup {p} ELSE att[k]
    <2>1. /\ pc = "attach" /\ k \in Adapters /\ failed' = failed
          /\ unregistered' = unregistered
          /\ att[k] \subseteq Before(j) /\ Before(j) \ {"sec", "sec2"} \subseteq att[k]
      BY <1>0, <1>5 DEF DvbInit, PartsAt
    <2>2. att' = [att EXCEPT ![k] = v] /\ att'[k] = v
      BY <1>5, <2>1 DEF DvbInit, ThingsOK
    <2>u. k \notin unregistered
      BY <1>0, <2>1 DEF UnregisteredAt
    <2>3. Stands(v)
      <3>1. Stands(att[k])
        BY <2>1, <2>u DEF PartsStand
      <3>2. Present(p) => Needs(p) \subseteq att[k]
        BY <1>0, <2>1, NeedsBefore
      <3> QED BY <3>1, <3>2 DEF Stands
    <2>4. v \subseteq Before(j + 1) /\ Before(j + 1) \ {"sec", "sec2"} \subseteq v
      <3>1. Before(j + 1) = IF Present(p) THEN Before(j) \cup {p} ELSE Before(j)
        BY <1>0, BeforeStep
      <3> HIDE DEF p
      <3> QED BY <2>1, <3>1
    <2> HIDE DEF v, p
    <2>5. att' = [att EXCEPT ![k] = att'[k]] /\ Stands(att'[k])
      BY <2>2, <2>3
    <2>6. CASE NextAdapter
      <3> HIDE DEF PartsInv, dvb
      <3> QED BY <1>n, <2>1, <2>u, <2>5, <2>6
    <2>7. CASE j' = j + 1 /\ UNCHANGED <<pc, k>>
      <3>1. att'[k] \subseteq Before(j') /\ Before(j') \ {"sec", "sec2"} \subseteq att'[k]
        BY <2>2, <2>4, <2>7
      <3> HIDE DEF PartsInv, dvb
      <3> QED BY <1>m, <2>1, <2>u, <2>5, <2>7, <3>1
    <2> QED BY <1>5, <2>6, <2>7 DEF DvbInit
  <1>6. CASE DvbInitFails
    <2> DEFINE p == InitOrder[j]
    <2>1. /\ pc = "attach" /\ k \in Adapters /\ att' = att /\ Present(p)
          /\ att[k] \subseteq Before(j) /\ Before(j) \ {"sec", "sec2"} \subseteq att[k]
          /\ p \notin {"ca", "fe2"}
          /\ unregistered' = IF p \in {"registered", "registered2"}
                               THEN unregistered \cup {k} ELSE unregistered
      BY <1>0, <1>6 DEF DvbInitFails, PartsAt
    <2>u. k \notin unregistered /\ unregistered' \ {k} = unregistered \ {k}
      BY <1>0, <2>1 DEF UnregisteredAt
    <2>s. Stands(att[k]) /\ att' = [att EXCEPT ![k] = att'[k]] /\ att'[k] = att[k]
      BY <2>1, <2>u DEF PartsStand, ThingsOK
    <2>2. CASE p \in {"sec", "sec2"} /\ j' = j + 1 /\ UNCHANGED <<pc, k, failed>>
      <3>1. Before(j + 1) = Before(j) \cup {p}
        BY <1>0, <2>1, BeforeStep
      <3>2. att[k] \subseteq Before(j + 1)
            /\ Before(j + 1) \ {"sec", "sec2"} \subseteq att[k]
        BY <2>1, <2>2, <3>1
      <3>3. unregistered' = unregistered
        BY <2>1, <2>2
      <3> HIDE DEF PartsInv, dvb, p
      <3> QED BY <1>m, <2>1, <2>2, <2>u, <2>s, <3>2, <3>3
    <2>3. CASE p = "registered2" /\ failed' = failed \cup {k} /\ NextAdapter
      <3>1. j = 13
        BY <1>0, <2>3, InitOrderIs
      <3>2. "fe2" \in Board
        <4>1. Present("registered2")
          BY <2>1, <2>3
        <4> QED BY <4>1, LifecycleAssumption DEF Present, Optional
      <3>3. {"registered", "dmxdev"} \subseteq Before(13)
        <4>1. Present("registered") /\ Present("dmxdev")
          BY DEF Present, Optional
        <4> QED BY <4>1, InitOrderIs, ElementsAre DEF Before, Parts
      <3>4. {"registered", "dmxdev"} \subseteq att[k]
        BY <2>1, <3>1, <3>3
      <3>5. unregistered' = unregistered \cup {k}
        BY <2>1, <2>3
      <3>6. LeftThen(k)
        <4>1. k \in unregistered' /\ {"registered", "dmxdev"} \subseteq att'[k]
          BY <2>1, <3>4, <3>5
        <4> QED BY <3>2, <4>1 DEF LeftThen
      <3> HIDE DEF PartsInv, dvb, p
      <3> QED BY <1>n, <2>1, <2>3, <2>u, <2>s, <3>5, <3>6
    <2>4. CASE /\ p \notin {"sec", "sec2", "registered2"} /\ pc' = "unwind"
               /\ UNCHANGED <<k, j, failed>>
      <3>1. j \in 1 .. 7 \/ (j = 12 /\ p = "registered")
        BY <1>0, <2>1, <2>4, InitOrderIs
      <3>2. CASE j \in 1 .. 7
        <4>1. att[k] \subseteq Early
          BY <2>1, <3>2, BeforeEarly
        <4>2. p \notin {"registered", "registered2"}
          BY <3>2, InitOrderIs
        <4>3. unregistered' = unregistered
          BY <2>1, <4>2
        <4> HIDE DEF PartsInv, dvb, p
        <4> QED BY <1>m, <2>1, <2>4, <2>u, <2>s, <4>1, <4>3
      <3>3. CASE j = 12 /\ p = "registered"
        <4>1. att[k] \subseteq Early \cup {"fe", "sec", "fe2", "sec2", "ca"}
          <5>1. Before(12) \subseteq Early \cup {"fe", "sec", "fe2", "sec2", "ca"}
            BY InitOrderIs DEF Before, Early
          <5> QED BY <2>1, <3>3, <5>1
        <4>2. k \in unregistered'
          BY <2>1, <3>3
        <4> HIDE DEF PartsInv, dvb, p
        <4> QED BY <1>m, <2>1, <2>4, <2>u, <2>s, <4>1, <4>2
      <3> QED BY <3>1, <3>2, <3>3
    <2> QED BY <1>6, <2>1, <2>2, <2>3, <2>4 DEF DvbInitFails
  <1>7. CASE DvbUnwind
    <2> DEFINE todo == Elements(UnwindOrder) \cap att[k]
    <2> DEFINE p == FirstOf(UnwindOrder, todo)
    <2> DEFINE more == IF k \in unregistered
                         THEN Early \cup {"fe", "sec", "fe2", "sec2", "ca"} ELSE Early
    <2>1. /\ pc = "unwind" /\ k \in Adapters /\ att[k] \subseteq more
          /\ unregistered' = unregistered
          /\ k \notin unregistered => Stands(att[k])
      BY <1>0, <1>7 DEF DvbUnwind, PartsAt, PartsStand
    <2>2. CASE todo # {} /\ UNCHANGED <<progress, failed>>
      <3>1. PICK gone \in {{p}} \cup (IF p = "fe" THEN {{"fe", "sec"}} ELSE {}) :
              att' = [att EXCEPT ![k] = @ \ gone]
        BY <1>7, <2>2 DEF DvbUnwind
      <3>2. k \notin unregistered => Stands(att[k] \ gone)
        <4>1. ASSUME k \notin unregistered
              PROVE  p # "fe" /\ Stands(att[k] \ {p})
          BY <2>1, <2>2, <4>1, UnwindStands
        <4> HIDE DEF p
        <4> QED BY <3>1, <4>1
      <3>3. att'[k] = att[k] \ gone /\ att' = [att EXCEPT ![k] = att'[k]]
        BY <2>1, <3>1 DEF ThingsOK
      <3>4. pc' = "unwind" /\ k' = k
        BY <2>1, <2>2 DEF progress
      <3>5. att'[k] \subseteq more
        BY <2>1, <3>3
      <3> HIDE DEF PartsInv, dvb, p, todo
      <3> QED BY <1>m, <2>1, <2>2, <3>2, <3>3, <3>4, <3>5
    <2>3. CASE /\ todo = {} /\ failed' = failed \cup {k}
               /\ NextAdapter /\ UNCHANGED att
      <3>1. k \notin unregistered => att[k] = {}
        BY <2>1, <2>3, ElementsAre DEF Early
      <3>2. k \in unregistered => LeftThen(k)
        <4>1. k \in unregistered => att[k] \subseteq {"sec", "fe2", "sec2", "ca"}
          BY <2>1, <2>3, ElementsAre DEF Early
        <4>2. att' = att
          BY <2>3
        <4> HIDE DEF todo, p, more
        <4> QED BY <2>1, <4>1, <4>2 DEF LeftThen
      <3>3. att' = [att EXCEPT ![k] = att'[k]] /\ att'[k] = att[k]
        BY <2>1, <2>3 DEF ThingsOK
      <3> HIDE DEF PartsInv, dvb, p, todo
      <3> QED BY <1>e, <1>n, <2>1, <2>3, <3>1, <3>2, <3>3
    <2> QED BY <1>7, <2>2, <2>3 DEF DvbUnwind
  <1>8. CASE ProbeError
    BY <1>8 DEF ProbeError, Goto, Live, PartsAt, FailedAt, FailedHasNothing,
       UnregisteredAt, LeftBehind, PartsStand
  <1>9. CASE Remove \/ IntDisable
    BY <1>9, RemoveOrderIs DEF Remove, IntDisable, resources, Goto, Live,
       PartsAt, FailedAt, FailedHasNothing, UnregisteredAt, LeftBehind, PartsStand
  <1>10. CASE FreeIrq
    <2>1. 1 .. 1 - 1 = {}
      OBVIOUS
    <2> QED BY <1>10, <2>1, RemoveOrderIs DEF FreeIrq, progress, Goto, Live,
            PartsAt, FailedAt, FailedHasNothing, UnregisteredAt, LeftBehind,
            PartsStand
  <1>11. CASE Detach
    <2> DEFINE todo == IF k \in failed THEN {} ELSE Elements(ExitOrder) \cap att[k]
    <2> DEFINE p == FirstOf(ExitOrder, todo)
    <2>1. /\ pc = "detach" /\ k \in Adapters /\ att[k] \in SUBSET Parts
          /\ k \notin unregistered => Stands(att[k])
          /\ failed' = failed /\ unregistered' = unregistered
          /\ \A a \in (1 .. k - 1) \ unregistered : att[a] = {}
          /\ \A a \in unregistered : LeftBehind(a) /\ a \in failed
      BY <1>0, <1>11 DEF Detach, PartsAt, PartsStand, UnregisteredAt, ThingsOK
    <2>2. CASE todo # {} /\ UNCHANGED progress
      <3>1. /\ k \notin failed /\ k \notin unregistered
            /\ todo = Elements(ExitOrder) \cap att[k]
        BY <2>1, <2>2
      <3>2. p \in att[k] /\ Stands(att[k] \ {p})
        BY <2>1, <2>2, <3>1, ExitStands
      <3> HIDE DEF p
      <3>3. att' = [att EXCEPT ![k] = att[k] \ {p}]
        BY <1>11, <2>2 DEF Detach, p
      <3>4. att'[k] = att[k] \ {p} /\ \A a \in Adapters \ {k} : att'[a] = att[a]
        BY <2>1, <3>3 DEF ThingsOK
      <3>5. PartsStand'
        BY <2>1, <3>2, <3>4 DEF PartsStand
      <3>6. PartsAt'
        <4>1. \A a \in (1 .. k - 1) \ unregistered : att'[a] = {}
          BY <1>0, <2>1, <3>4 DEF Adapters
        <4> QED BY <2>1, <2>2, <4>1 DEF PartsAt, Live, progress
      <3>b. \A a \in Adapters \ {k} : LeftBehind(a) => LeftBehind(a)'
        BY <2>1, <3>4 DEF LeftBehind
      <3>7. FailedAt'
        BY <2>1, <2>2, <3>1, <3>4, <3>b
           DEF FailedAt, FailedHasNothing, progress, ThingsOK
      <3>8. UnregisteredAt'
        BY <2>1, <2>2, <3>1, <3>b DEF UnregisteredAt, progress, ThingsOK
      <3> QED BY <3>5, <3>6, <3>7, <3>8
    <2>3. CASE todo = {} /\ UNCHANGED att
      <3>1. k \notin unregistered => att[k] = {}
        <4>1. k \in failed => att[k] = {} \/ LeftBehind(k)
          BY <2>1 DEF FailedAt, FailedHasNothing
        <4> QED BY <2>1, <2>3, <4>1, ElementsAre DEF Parts, LeftBehind
      <3>b. \A a \in Adapters : LeftBehind(a)' = LeftBehind(a)
        BY <2>1, <2>3 DEF LeftBehind
      <3>2. CASE k < N /\ k' = k + 1 /\ UNCHANGED <<pc, j>>
        <4>1. \A a \in (1 .. k' - 1) \ unregistered : att'[a] = {}
          BY <1>0, <2>1, <2>3, <3>1, <3>2
        <4> QED BY <2>1, <2>3, <3>b, <3>2, <4>1 DEF PartsAt, FailedAt,
                FailedHasNothing, UnregisteredAt, PartsStand, Live, ThingsOK
      <3>3. CASE k = N /\ Goto("kill")
        <4>1. \A a \in Adapters \ unregistered : att'[a] = {}
          BY <1>0, <2>1, <2>3, <3>1, <3>3 DEF Adapters
        <4> QED BY <1>e, <2>1, <2>3, <3>b, <3>3, <4>1 DEF Goto, PartsAt, FailedAt,
                FailedHasNothing, UnregisteredAt, PartsStand, Live, ThingsOK
      <3> QED BY <1>0, <1>11, <2>1, <2>3, <3>2, <3>3, RemoveOrderIs
              DEF Detach, Adapters
    <2> QED BY <1>11, <2>2, <2>3 DEF Detach
  <1>12. CASE KillTasklets \/ DmaFree \/ I2cExit
    BY <1>12, RemoveOrderIs DEF KillTasklets, DmaFree, I2cExit, resources, Goto,
       Live, PartsAt, FailedAt, FailedHasNothing, UnregisteredAt, LeftBehind,
       PartsStand
  <1>13. CASE Put
    BY <1>13 DEF Put, Goto, Live, PartsAt, FailedAt, FailedHasNothing,
       UnregisteredAt, LeftBehind, PartsStand
  <1>14. CASE Others \/ UNCHANGED vars
    BY <1>14, OthersLeave DEF PartsAt, FailedAt, FailedHasNothing,
       UnregisteredAt, LeftBehind, PartsStand
  <1> QED
    BY <1>1, <1>2, <1>3, <1>4, <1>5, <1>6, <1>7, <1>8, <1>9, <1>10, <1>11,
       <1>12, <1>13, <1>14 DEF Next, Probing, Removing, Others

-----------------------------------------------------------------------------
(* The clients are there for their frontends.                              *)
LEMMA ClientsStep == IInv /\ [Next]_vars => ClientsAt'
  <1> SUFFICES ASSUME PlaceOK, ThingsOK, PartsAt, ClientsAt, [Next]_vars
               PROVE  ClientsAt'
    BY TypeParts DEF IInv
  <1> USE DEF dvb, Live
  <1>k. pc # "i2c_init" => k \in Adapters
    BY DEF PlaceOK, Adapters
  <1>1. CASE Enable
    BY <1>1 DEF Enable, Goto, ClientsAt
  <1>2. CASE Kzalloc \/ Ioremap \/ DmaInit \/ I2cInit \/ RequestIrq \/ IntEnable
    BY <1>2 DEF Kzalloc, Ioremap, DmaInit, I2cInit, RequestIrq, IntEnable, Goto,
       resources, ClientsAt
  <1>3. CASE DvbInit
    <2> DEFINE p == InitOrder[j]
    <2>1. /\ pc = "attach" /\ k \in Adapters /\ unregistered' = unregistered
          /\ pc' \in {"attach", "bound"}
          /\ \A a \in Adapters : "fe" \in att'[a] =>
               "fe" \in att[a] \/ (a = k /\ p = "fe")
      BY <1>3, <1>k DEF DvbInit, NextAdapter, Goto, ThingsOK
    <2>2. /\ clients \subseteq clients'
          /\ p = "fe" /\ "client" \in Board => k \in clients'
      BY <1>3 DEF DvbInit, TakeClients
    <2> HIDE DEF p
    <2> QED BY <2>1, <2>2 DEF ClientsAt
  <1>4. CASE DvbInitFails
    <2>1. /\ pc' \in Live /\ att' = att /\ clients \subseteq clients'
          /\ unregistered \subseteq unregistered'
      BY <1>4 DEF DvbInitFails, NextAdapter, Goto, TakeClients
    <2> QED BY <2>1 DEF ClientsAt
  <1>5. CASE DvbUnwind
    <2>1. /\ pc' \in Live /\ UNCHANGED <<clients, unregistered>>
          /\ \A a \in Adapters : att'[a] \subseteq att[a]
      BY <1>5, <1>k DEF DvbUnwind, NextAdapter, Goto, progress, ThingsOK
    <2> QED BY <2>1 DEF ClientsAt
  <1>6. CASE ProbeError
    BY <1>6 DEF ProbeError, Goto, ClientsAt, PartsAt
  <1>7. CASE Remove \/ IntDisable \/ FreeIrq
    BY <1>7, RemoveOrderIs DEF Remove, IntDisable, FreeIrq, Goto, resources,
       progress, ClientsAt
  <1>8. CASE Detach
    <2>1. /\ pc' \in {"detach", "kill"} /\ UNCHANGED <<clients, unregistered>>
          /\ \A a \in Adapters : att'[a] \subseteq att[a]
      BY <1>8, <1>k, RemoveOrderIs DEF Detach, Goto, progress, ThingsOK
    <2> QED BY <1>8, <2>1 DEF Detach, ClientsAt
  <1>9. CASE KillTasklets \/ DmaFree
    BY <1>9, RemoveOrderIs DEF KillTasklets, DmaFree, Goto, resources, ClientsAt
  <1>10. CASE I2cExit
    BY <1>10, RemoveOrderIs DEF I2cExit, Goto, ClientsAt, PartsAt
  <1>11. CASE Put
    BY <1>11 DEF Put, Goto, ClientsAt
  <1>12. CASE Others \/ UNCHANGED vars
    BY <1>12, OthersLeave DEF ClientsAt
  <1> QED
    BY <1>1, <1>2, <1>3, <1>4, <1>5, <1>6, <1>7, <1>8, <1>9, <1>10, <1>11,
       <1>12 DEF Next, Probing, Removing, Others

-----------------------------------------------------------------------------
(* Who is at work.                                                         *)
LEMMA DoersStep == IInv /\ [Next]_vars => (HandlerAt /\ TaskletsAt /\ FeedsAt)'
  <1> SUFFICES ASSUME PlaceOK, ThingsOK, DoingsOK, HeldAt, PartsAt, UnregisteredAt,
                      HandlerAt, TaskletsAt, FeedsAt, [Next]_vars
               PROVE  (HandlerAt /\ TaskletsAt /\ FeedsAt)'
    BY TypeParts DEF IInv
  <1>0. /\ N \in Nat /\ k \in Nat /\ (pc # "i2c_init" => k \in Adapters)
    BY LifecycleAssumption DEF PlaceOK, Adapters
  <1> USE DEF HandlerAt, TaskletsAt, FeedsAt, Live, dvb
  <1>1. CASE Enable \/ Kzalloc \/ RequestIrq \/ I2cInit
    BY <1>1 DEF Enable, Kzalloc, RequestIrq, I2cInit, Goto, activity
  <1>2. CASE Ioremap
    BY <1>2 DEF Ioremap, Goto
  <1>3. CASE DmaInit
    <2>u. unregistered = {}
      BY <1>3 DEF DmaInit, UnregisteredAt
    <2>1. \A a \in Adapters : ~feed[a]
      BY <1>3, <2>u DEF DmaInit, PartsAt
    <2>2. feed = [a \in Adapters |-> FALSE]
      BY <2>1 DEF DoingsOK
    <2>3. dma' = feed
      BY <1>3, <2>2 DEF DmaInit
    <2> QED BY <1>3, <2>3 DEF DmaInit, Goto
  <1>4. CASE IntEnable
    BY <1>4 DEF IntEnable, Goto, resources
  <1>5. CASE DvbInit
    <2>1. \A a \in Adapters : att[a] \subseteq att'[a]
      BY <1>0, <1>5 DEF DvbInit, ThingsOK
    <2> QED BY <1>5, <2>1 DEF DvbInit, NextAdapter, Goto, activity
  <1>6. CASE DvbInitFails
    BY <1>6 DEF DvbInitFails, NextAdapter, Goto, activity
  <1>7. CASE DvbUnwind
    <2> DEFINE todo == Elements(UnwindOrder) \cap att[k]
    <2> DEFINE p == FirstOf(UnwindOrder, todo)
    <2>1. \A a \in Adapters : feed[a] => "dmxdev" \in att'[a]
      <3>1. k \in Adapters /\ pc = "unwind"
        BY <1>0, <1>7 DEF DvbUnwind
      <3>2. CASE att' = att
        BY <3>2
      <3>3. ASSUME NEW gone \in {{p}} \cup (IF p = "fe" THEN {{"fe", "sec"}} ELSE {}),
                   MayRelease(k, p), att' = [att EXCEPT ![k] = att[k] \ gone]
            PROVE  \A a \in Adapters : feed[a] => "dmxdev" \in att'[a]
        <4> HIDE DEF p
        <4>1. feed[k] => "dmxdev" \notin gone
          BY <3>3 DEF MayRelease
        <4> QED BY <3>1, <3>3, <4>1 DEF ThingsOK
      <3> QED BY <1>7, <3>2, <3>3 DEF DvbUnwind
    <2> QED BY <1>7, <2>1 DEF DvbUnwind, NextAdapter, Goto, activity, progress
  <1>8. CASE ProbeError
    BY <1>8 DEF ProbeError, Goto, activity
  <1>9. CASE Remove \/ IntDisable
    BY <1>9, RemoveOrderIs DEF Remove, IntDisable, Goto, activity, resources
  <1>10. CASE FreeIrq
    BY <1>10, RemoveOrderIs DEF FreeIrq, Goto, activity, progress
  <1>11. CASE Detach
    <2> DEFINE todo == IF k \in failed THEN {} ELSE Elements(ExitOrder) \cap att[k]
    <2> DEFINE p == FirstOf(ExitOrder, todo)
    <2>1. k \in Adapters /\ pc = "detach"
      BY <1>0, <1>11 DEF Detach
    <2>2. \A a \in Adapters : feed[a] => "dmxdev" \in att'[a]
      <3>1. CASE att' = att
        BY <3>1
      <3>2. CASE MayRelease(k, p) /\ att' = [att EXCEPT ![k] = att[k] \ {p}]
        <4> HIDE DEF p
        <4> QED BY <2>1, <3>2 DEF MayRelease, ThingsOK
      <3> QED BY <1>11, <3>1, <3>2 DEF Detach
    <2>3. \A a \in 1 .. 1 - 1 : tasklet[a] = "idle"
      OBVIOUS
    <2>4. handler' = handler /\ tasklet' = tasklet /\ feed' = feed /\ dma' = dma
      BY <1>11 DEF Detach, activity
    <2>5. pc' = "detach" \/ (pc' = "kill" /\ k' = 1)
      BY <1>11, <2>1, RemoveOrderIs DEF Detach, Goto, progress
    <2>6. handler = "idle"
      BY <2>1 DEF DoingsOK
    <2> QED BY <2>2, <2>3, <2>4, <2>5, <2>6
  <1>12. CASE KillTasklets
    <2>1. pc = "kill" /\ k \in Adapters /\ tasklet[k] = "idle"
      BY <1>0, <1>12 DEF KillTasklets
    <2>2. CASE k < N /\ k' = k + 1 /\ pc' = pc
      <3>1. \A a \in 1 .. k : tasklet[a] = "idle"
        BY <1>0, <2>1
      <3> QED BY <1>0, <1>12, <2>1, <2>2, <3>1 DEF KillTasklets, activity, resources
    <2>3. CASE k = N /\ pc' = "dma_free"
      <3>1. \A a \in Adapters : tasklet[a] = "idle"
        BY <1>0, <2>1, <2>3 DEF Adapters
      <3> QED BY <1>12, <2>1, <2>3, <3>1 DEF KillTasklets, activity, resources
    <2> QED BY <1>0, <1>12, <2>1, <2>2, <2>3, RemoveOrderIs
            DEF KillTasklets, Goto, Adapters
  <1>13. CASE DmaFree \/ I2cExit
    BY <1>13, RemoveOrderIs DEF DmaFree, I2cExit, Goto, activity
  <1>14. CASE Put
    BY <1>14 DEF Put, Goto, activity
  <1>15. CASE HandlerEnter
    <2>1. pc \in Live /\ pc' = pc
      BY <1>15 DEF HandlerEnter, HeldAt, progress
    <2> QED BY <1>15, <2>1 DEF HandlerEnter, progress, resources
  <1>16. CASE HandlerLeave
    BY <1>16 DEF HandlerLeave, progress, resources
  <1>17. ASSUME NEW a \in Adapters, TaskletRun(a) \/ TaskletEnd(a)
         PROVE  (HandlerAt /\ TaskletsAt /\ FeedsAt)'
    <2>1. tasklet[a] # "idle"
      BY <1>17 DEF TaskletRun, TaskletEnd
    <2>2. \A b \in Adapters \ {a} : tasklet'[b] = tasklet[b]
      BY <1>17 DEF TaskletRun, TaskletEnd, DoingsOK
    <2>3. UNCHANGED <<pc, k, att, handler, feed, dma>>
      BY <1>17 DEF TaskletRun, TaskletEnd, progress, resources
    <2>4. pc = "kill" => \A b \in 1 .. k - 1 : b \in Adapters
      BY <1>0 DEF Adapters
    <2> QED BY <2>1, <2>2, <2>3, <2>4
  <1>18. ASSUME NEW a \in Adapters, UserStart(a) \/ UserStop(a)
         PROVE  (HandlerAt /\ TaskletsAt /\ FeedsAt)'
    <2>1. dma' = feed' /\ \A b \in Adapters : feed'[b] => "dmxdev" \in att[b]
      BY <1>18 DEF UserStart, UserStop, DoingsOK
    <2> QED BY <1>18, <2>1 DEF UserStart, UserStop, progress, resources
  <1>19. ASSUME NEW a \in Adapters, Fill(a)
         PROVE  (HandlerAt /\ TaskletsAt /\ FeedsAt)'
    BY <1>19 DEF Fill, progress, resources
  <1>20. CASE UNCHANGED vars
    BY <1>20 DEF vars, progress, resources, activity
  <1> QED
    BY <1>1, <1>2, <1>3, <1>4, <1>5, <1>6, <1>7, <1>8, <1>9, <1>10, <1>11,
       <1>12, <1>13, <1>14, <1>15, <1>16, <1>17, <1>18, <1>19, <1>20
       DEF Next, Probing, Removing

-----------------------------------------------------------------------------
(* The theorems.                                                           *)

LEMMA Inductive == Spec => []IInv
  <1>1. IInv /\ [Next]_vars => IInv'
    <2>1. IInv /\ [Next]_vars => (PartsAt /\ FailedAt /\ UnregisteredAt /\ PartsStand)'
      BY PartsStep DEF PartsInv
    <2> QED BY TypeStep, ResourcesStep, <2>1, ClientsStep, DoersStep DEF IInv
  <1> QED BY InitInv, <1>1, PTL DEF Spec

(* Every variable of probe, removal and bystanders keeps its type.         *)
THEOREM LifeTypeCorrect == Spec => []TypeOK
  <1>1. IInv => TypeOK
    BY DEF IInv
  <1> QED BY <1>1, Inductive, PTL

(* tbsecp3_irq_handler never runs on a card half set up or half taken      *)
(* down, whatever fails in the probe and whenever it is called.            *)
THEOREM HandlerTheorem == Spec => []HandlerHasDevice
  <1>1. IInv => HandlerHasDevice
    BY DEF IInv, HandlerHasDevice, HandlerAt, HeldAt, BuffersAt, BusesAt, Live
  <1> QED BY <1>1, Inductive, PTL

(* The buffers outlive every tasklet and every engine that uses them, but  *)
(* for an engine a user of an adapter left behind has on.                  *)
THEOREM RingUsersTheorem == Spec => []RingUsersHaveBuffer
  <1>1. IInv => RingUsersHaveBuffer
    <2> SUFFICES ASSUME IInv, NEW a \in Adapters
                 PROVE  /\ tasklet[a] # "idle" => "dev" \in held /\ a \in buf
                        /\ dma[a] => \/ a \in buf
                                     \/ LeftBehind(a) /\ "registered" \in att[a]
      BY DEF RingUsersHaveBuffer
    <2>1. tasklet[a] # "idle" => pc \in Live \cup {"detach", "kill"}
      BY DEF IInv, TaskletsAt
    <2>2. dma[a] => \/ pc \in Live \cup {"detach"}
                    \/ LeftBehind(a) /\ "registered" \in att[a]
      <3>1. dma[a] => "dmxdev" \in att[a]
        BY DEF IInv, FeedsAt
      <3>2. pc \notin Live \cup {"detach"} => att[a] = {} \/ LeftBehind(a)
        BY DEF IInv, PartsAt, UnregisteredAt, Live
      <3> QED BY <3>1, <3>2 DEF LeftBehind
    <2>3. pc \in Live \cup {"detach", "kill"} => "dev" \in held /\ buf = Adapters
      BY DEF IInv, HeldAt, BuffersAt, Live
    <2> QED BY <2>1, <2>2, <2>3
  <1> QED BY <1>1, Inductive, PTL

(* Nothing is given back while something built on it is there: the parts   *)
(* of an adapter that did not fail in dvb_register_frontend, the bus, the  *)
(* clients and the registers its frontends use, and every feed.            *)
THEOREM BaseTheorem == Spec => []NothingOutlivesItsBase
  <1>1. IInv => NothingOutlivesItsBase
    <2> SUFFICES ASSUME IInv PROVE NothingOutlivesItsBase
      OBVIOUS
    <2>1. ASSUME NEW a \in Adapters \ unregistered
          PROVE  /\ \A p \in att[a] : Needs(p) \subseteq att[a]
                 /\ att[a] # {} => {"dev", "mmio"} \subseteq held /\ bus = Buses
                 /\ "client" \in Board /\ "fe" \in att[a] => a \in clients
      <3>1. att[a] # {} => pc \in Live \cup {"detach"}
        BY DEF IInv, PartsAt
      <3>2. pc \in Live \cup {"detach"} => {"dev", "mmio"} \subseteq held /\ bus = Buses
        BY DEF IInv, HeldAt, BusesAt, Live
      <3>3. Stands(att[a]) /\ ("client" \in Board /\ "fe" \in att[a] => a \in clients)
        BY DEF IInv, PartsStand, ClientsAt
      <3> QED BY <3>1, <3>2, <3>3 DEF Stands
    <2>2. \A a \in Adapters : feed[a] => "dmxdev" \in att[a]
      BY DEF IInv, FeedsAt
    <2>3. clients # {} => bus = Buses
      BY DEF IInv, ClientsAt, BusesAt, Live
    <2>4. buf # {} \/ bus # {} => {"dev", "mmio"} \subseteq held
      BY DEF IInv, BuffersAt, BusesAt, HeldAt
    <2>5. "dev" \in held => "pci" \in held
      BY DEF IInv, HeldAt
    <2> QED BY <2>1, <2>2, <2>3, <2>4, <2>5 DEF NothingOutlivesItsBase
  <1> QED BY <1>1, Inductive, PTL

(* "attach has failed, nothing to do": true of every adapter the removal   *)
(* steps over, but for those where it was dvb_register_frontend that       *)
(* failed, of which the theorem says what is left.                         *)
THEOREM FailedTheorem == Spec => []FailedHasNothing
  <1>1. IInv => FailedHasNothing
    BY DEF IInv, FailedAt
  <1> QED BY <1>1, Inductive, PTL

(* Whichever call failed, and after every removal: all is given back, no   *)
(* tasklet is scheduled and no engine runs, but for what LeftBehind says   *)
(* of an adapter and for the references on the modules of client drivers.  *)
THEOREM GivenBackTheorem == Spec => []AllElseGivenBack
  <1>1. IInv => AllElseGivenBack
    <2> SUFFICES ASSUME IInv, pc = "unbound"
                 PROVE  /\ held = {} /\ buf = {} /\ bus = {} /\ clients = {}
                        /\ \A a \in Adapters :
                             /\ att[a] = {} \/ LeftBehind(a)
                             /\ tasklet[a] = "idle"
                             /\ dma[a] => LeftBehind(a) /\ "registered" \in att[a]
      BY DEF AllElseGivenBack
    <2>1. held = {} /\ buf = {} /\ bus = {} /\ clients = {}
      BY DEF IInv, HeldAt, BuffersAt, BusesAt, ClientsAt, Live
    <2>2. \A a \in Adapters : (att[a] = {} \/ LeftBehind(a)) /\ tasklet[a] = "idle"
      BY DEF IInv, PartsAt, UnregisteredAt, TaskletsAt, Live
    <2>3. \A a \in Adapters : dma[a] => "dmxdev" \in att[a]
      BY DEF IInv, FeedsAt
    <2> QED BY <2>1, <2>2, <2>3 DEF LeftBehind
  <1> QED BY <1>1, Inductive, PTL
=============================================================================
