----------------------------- MODULE Lifecycle -----------------------------
(***************************************************************************)
(* Binding and unbinding a TBSECP3 card (tbsecp3-core.c with the init,     *)
(* free and exit functions it calls in -dma, -i2c, -dvb and -ca): what is  *)
(* acquired in which order, what is given back when a call fails or the    *)
(* card is removed, and who may still be using it meanwhile - the          *)
(* interrupt handler, the tasklets, the engines, and users with a feed.    *)
(***************************************************************************)
EXTENDS Integers, Sequences

CONSTANTS
  N,          (* adapters of the board (info->adapters)                     *)
  NBuses,     (* I2C buses, 4 in the code                                   *)
  HighInputs, (* adapters whose ts_in is 4 or more                          *)
  Board,      (* optional parts the board has: "sec", "fe2", "sec2", "ca",  *)
              (* and "client": its demodulators are clients of the bus      *)
  Failing     (* calls that may fail                                        *)

Adapters == 1 .. N
Buses    == 1 .. NBuses

ASSUME LifecycleAssumption ==
  /\ N \in Nat \ {0} /\ NBuses \in Nat \ {0} /\ HighInputs \subseteq Adapters
  /\ Board \subseteq {"sec", "fe2", "sec2", "ca", "client"}
  /\ "sec2" \in Board => "fe2" \in Board

VARIABLES
  pc,      (* where probe or remove is: "unbound", "bound" or a step        *)
  k, j,    (* loop indexes: adapter or bus; step of tbsecp3_dvb_init        *)
  held,    (* card-wide resources: "pci", "dev", "mmio", "irq"              *)
  buf,     (* adapters with a DMA buffer                                    *)
  bus,     (* registered I2C buses                                          *)
  att,     (* per adapter, the DVB parts acquired and not given back        *)
  failed,  (* adapters with nr = -1                                         *)
  clients, (* adapters with a demodulator or tuner client on their bus      *)
  modules, (* adapters that ever took a reference on a client's driver      *)
  unregistered, (* history: adapters of this binding of which               *)
                (* dvb_register_frontend has failed                         *)
  intEn,   (* register INT_EN                                               *)
  pend,    (* the DMA_IF bits of INT_STAT                                   *)
  handler, (* tbsecp3_irq_handler: "idle" or "run"                          *)
  tasklet, (* per adapter: "idle", "sched", "run", or "rerun": both         *)
  feed,    (* per adapter, a user has a feed open                           *)
  dma      (* per adapter, the registers DMA_EN and DMA_IE                  *)

progress  == <<pc, k, j>>
dvb       == <<att, failed, clients, modules, unregistered>>
resources == <<held, buf, bus, dvb>>
activity  == <<intEn, pend, handler, tasklet, feed, dma>>
vars      == <<progress, resources, activity>>

-----------------------------------------------------------------------------
(* The orders in which things are taken and given back.                    *)

(* Fault: the buffers go before the tasklets are killed.                   *)
RemoveOrderFreeFirst ==
  <<"mask", "free_irq", "detach", "dma_free", "kill", "i2c_exit", "put">>

(* Fault: the interrupt is given back after what it serves.                *)
RemoveOrderIrqLate ==
  <<"mask", "detach", "kill", "dma_free", "i2c_exit", "free_irq", "put">>

RemoveOrder ==
  <<"mask", "free_irq", "detach", "kill", "dma_free", "i2c_exit", "put">>

(* tbsecp3_dvb_init, tbsecp3_frontend_attach in its midst.                 *)
InitOrder == <<"adapter", "dmx", "dmxdev", "fe_hw", "fe_mem", "net", "fe", "fe2",
               "sec", "sec2", "ca", "registered", "registered2">>

(* Fault: dvb_net is not released.                                         *)
UnwindOrderNoNet == <<"fe", "fe_mem", "fe_hw", "dmxdev", "dmx", "adapter">>

(* The gotos at the end of tbsecp3_dvb_init.                               *)
UnwindOrder == <<"fe", "net", "fe_mem", "fe_hw", "dmxdev", "dmx", "adapter">>

(* Fault: the frontend is detached before its sec is released.             *)
ExitOrderDetachFirst ==
  <<"ca", "registered", "fe", "sec", "registered2", "fe2", "sec2",
    "net", "fe_mem", "fe_hw", "dmxdev", "dmx", "adapter">>

(* Fault: the CA slot is not released.                                     *)
ExitOrderNoCa ==
  <<"registered", "sec", "fe", "registered2", "sec2", "fe2",
    "net", "fe_mem", "fe_hw", "dmxdev", "dmx", "adapter">>

(* tbsecp3_dvb_exit.                                                       *)
ExitOrder ==
  <<"ca", "registered", "sec", "fe", "registered2", "sec2", "fe2",
    "net", "fe_mem", "fe_hw", "dmxdev", "dmx", "adapter">>

Elements(order) == {order[n] : n \in DOMAIN order}

(* The first of the parts that stands in the order.                        *)
FirstOf(order, parts) ==
  order[CHOOSE n \in DOMAIN order :
          order[n] \in parts /\ \A m \in 1 .. n - 1 : order[m] \notin parts]

Optional   == {"sec", "fe2", "sec2", "ca"}
Present(p) == \/ p \notin Optional \cup {"registered2"}
              \/ p \in Board
              \/ p = "registered2" /\ "fe2" \in Board

After(step) ==
  RemoveOrder[1 + CHOOSE n \in DOMAIN RemoveOrder : RemoveOrder[n] = step]

(* tbsecp3_dma_free advances to the next adapter only behind a buffer.     *)
DmaFreed == {a \in buf : 1 .. a \subseteq buf}

Init ==
  /\ pc = "unbound" /\ k = 1 /\ j = 1
  /\ held = {} /\ buf = {} /\ bus = {} /\ failed = {}
  /\ clients = {} /\ modules = {} /\ unregistered = {}
  /\ att = [a \in Adapters |-> {}]
  /\ intEn \in BOOLEAN /\ pend \in [Adapters -> BOOLEAN]
  /\ handler = "idle" /\ tasklet = [a \in Adapters |-> "idle"]
  /\ feed = [a \in Adapters |-> FALSE] /\ dma = [a \in Adapters |-> FALSE]

Goto(label) == pc' = label /\ k' = 1 /\ j' = 1

-----------------------------------------------------------------------------
(* tbsecp3_probe.                                                          *)

(* Bound: an adapter an earlier binding has left behind is not followed    *)
(* further, once its users have closed what they had open.                 *)
Enable ==
  /\ pc = "unbound" /\ \A a \in Adapters : ~feed[a]
  /\ att' = [a \in Adapters |-> {}] /\ unregistered' = {}
  /\ held' = {"pci"}
  /\ \/ Goto("kzalloc")
     \/ /\ "dma_mask" \in Failing
        /\ Goto("err0")
  /\ UNCHANGED <<buf, bus, failed, clients, modules, activity>>

Kzalloc ==
  /\ pc = "kzalloc"
  /\ \/ /\ Goto("ioremap")
        /\ held' = held \cup {"dev"} /\ failed' = {}
     \/ /\ "kzalloc" \in Failing
        /\ Goto("err0") /\ UNCHANGED <<held, failed>>
  /\ UNCHANGED <<buf, bus, att, clients, modules, unregistered, activity>>

(* ioremap; INT_EN and the low 8 bits of INT_STAT are cleared.             *)
Ioremap ==
  /\ pc = "ioremap"
  /\ \/ /\ Goto("dma_init") /\ held' = held \cup {"mmio"}
        /\ intEn' = FALSE
        /\ pend' = [a \in Adapters |-> pend[a] /\ a \in HighInputs]
     \/ /\ "ioremap" \in Failing
        /\ Goto("err1") /\ UNCHANGED <<held, intEn, pend>>
  /\ UNCHANGED <<buf, bus, dvb, handler, tasklet, feed, dma>>

(* tbsecp3_dma_init, one adapter a step, and tbsecp3_dma_reg_init.         *)
DmaInit ==
  /\ pc = "dma_init"
  /\ \/ /\ buf' = buf \cup {k}
        /\ IF k < N
             THEN k' = k + 1 /\ UNCHANGED <<pc, j, dma>>
             ELSE Goto("i2c_init") /\ dma' = [a \in Adapters |-> FALSE]
     \/ /\ "dma_alloc" \in Failing
        /\ buf' = buf \ DmaFreed
        /\ Goto("err2") /\ UNCHANGED dma
  /\ UNCHANGED <<held, bus, dvb, intEn, pend, handler, tasklet, feed>>

(* tbsecp3_i2c_init, one bus a step.                                       *)
I2cInit ==
  /\ pc = "i2c_init"
  /\ \/ /\ bus' = bus \cup {k}
        /\ IF k < NBuses THEN k' = k + 1 /\ UNCHANGED <<pc, j>>
                         ELSE Goto("irq")
     \/ /\ "add_adapter" \in Failing
        /\ bus' = bus \ (1 .. k)
        /\ Goto("err3")
  /\ UNCHANGED <<held, buf, dvb, activity>>

(* An MSI or the shared interrupt.                                         *)
RequestIrq ==
  /\ pc = "irq"
  /\ \/ /\ Goto("int_en")
        /\ held' = held \cup {"irq"}
     \/ /\ "request_irq" \in Failing
        /\ Goto("err4") /\ UNCHANGED held
  /\ UNCHANGED <<buf, bus, dvb, activity>>

IntEnable ==
  /\ pc = "int_en"
  /\ intEn' = TRUE
  /\ Goto("attach")
  /\ UNCHANGED <<resources, pend, handler, tasklet, feed, dma>>

(* tbsecp3_adapters_attach goes on with the next adapter; it returns 0.    *)
NextAdapter == IF k < N THEN pc' = "attach" /\ k' = k + 1 /\ j' = 1
                        ELSE Goto("bound")

(* tbsecp3_frontend_attach registers the clients of a board and takes a    *)
(* reference on the module of each one's driver (in tbsecp3-dvb.c, from    *)
(* line 1202); nothing puts it: module_put is within #if 0, in             *)
(* tbsecp3_i2c_remove_clients, which does nothing.                         *)
TakeClients == IF "client" \in Board
                 THEN clients' = clients \cup {k} /\ modules' = modules \cup {k}
                 ELSE UNCHANGED <<clients, modules>>

(* A step of tbsecp3_dvb_init succeeds, or does not concern this board.    *)
DvbInit ==
  /\ pc = "attach"
  /\ att' = [att EXCEPT ![k] = IF Present(InitOrder[j])
                                 THEN @ \cup {InitOrder[j]} ELSE @]
  /\ IF j < Len(InitOrder) THEN j' = j + 1 /\ UNCHANGED <<pc, k>>
                           ELSE NextAdapter
  /\ IF InitOrder[j] = "fe" THEN TakeClients ELSE UNCHANGED <<clients, modules>>
  /\ UNCHANGED <<held, buf, bus, failed, unregistered, activity>>

(* It fails: without a sec the frontend is used as it is; a second         *)
(* frontend that cannot be registered ends the attach with everything      *)
(* kept; anything else is unwound.  A failing tuner or fe2 detaches fe, as *)
(* if fe had failed: the clients registered by then stay, and the          *)
(* references; a client that has no driver stays without one.  A failing   *)
(* tbsecp3_ca_init is left out: adap->tbsca then points to freed memory,   *)
(* and what tbsecp3_dvb_exit does is open.                                 *)
DvbInitFails ==
  LET p == InitOrder[j] IN
  /\ pc = "attach" /\ p \in Failing \ {"ca", "fe2"} /\ Present(p)
  /\ \/ /\ p \in {"sec", "sec2"}
        /\ j' = j + 1 /\ UNCHANGED <<pc, k, failed>>
     \/ /\ p = "registered2"
        /\ failed' = failed \cup {k}
        /\ NextAdapter
     \/ /\ p \notin {"sec", "sec2", "registered2"}
        /\ pc' = "unwind" /\ UNCHANGED <<k, j, failed>>
  /\ unregistered' = IF p \in {"registered", "registered2"}
                       THEN unregistered \cup {k} ELSE unregistered
  /\ \/ UNCHANGED <<clients, modules>>
     \/ p = "fe" /\ TakeClients
     \/ /\ p = "fe" /\ "client" \in Board
        /\ clients' = clients \cup {k} /\ UNCHANGED modules
  /\ UNCHANGED <<held, buf, bus, att, activity>>

(* Giving back dmxdev waits for the users, who then have no feed.          *)
MayRelease(a, p) == p = "dmxdev" => ~feed[a]

(* One label of the error exits.  At err7 the sec is looked for in the     *)
(* frontend just detached: it may be found or not.                         *)
DvbUnwind ==
  /\ pc = "unwind"
  /\ LET todo == Elements(UnwindOrder) \cap att[k]
         p    == FirstOf(UnwindOrder, todo)
     IN  \/ /\ todo # {} /\ MayRelease(k, p)
            /\ \E gone \in {{p}} \cup (IF p = "fe" THEN {{"fe", "sec"}} ELSE {}) :
                 att' = [att EXCEPT ![k] = @ \ gone]
            /\ UNCHANGED <<progress, failed>>
         \/ /\ todo = {}
            /\ failed' = failed \cup {k}
            /\ NextAdapter
            /\ UNCHANGED att
  /\ UNCHANGED <<held, buf, bus, clients, modules, unregistered, activity>>

(* The error labels; err5 is never reached.                                *)
ProbeError ==
  \/ /\ pc = "err4" /\ bus' = {} /\ clients' = {} /\ Goto("err3")
     /\ UNCHANGED <<held, buf, att, failed, modules, unregistered, activity>>
  \/ /\ pc = "err3" /\ buf' = buf \ DmaFreed /\ Goto("err2")
     /\ UNCHANGED <<held, bus, dvb, activity>>
  \/ /\ pc = "err2" /\ \A a \in Adapters : tasklet[a] = "idle"
     /\ held' = held \ {"mmio"} /\ Goto("err1")
     /\ UNCHANGED <<buf, bus, dvb, activity>>
  \/ /\ pc = "err1" /\ held' = held \ {"dev"} /\ Goto("err0")
     /\ UNCHANGED <<buf, bus, dvb, activity>>
  \/ /\ pc = "err0" /\ held' = held \ {"pci"} /\ Goto("unbound")
     /\ UNCHANGED <<buf, bus, dvb, activity>>

-----------------------------------------------------------------------------
(* tbsecp3_remove.                                                         *)

(* tbsecp3_adapters_detach: tbsecp3_dvb_exit, one call a step.             *)
Detach ==
  /\ pc = "detach"
  /\ LET todo == IF k \in failed THEN {} ELSE Elements(ExitOrder) \cap att[k]
         p    == FirstOf(ExitOrder, todo)
     IN  \/ /\ todo # {} /\ MayRelease(k, p)
            /\ att' = [att EXCEPT ![k] = @ \ {p}]
            /\ UNCHANGED progress
         \/ /\ todo = {}
            /\ IF k < N THEN k' = k + 1 /\ UNCHANGED <<pc, j>>
                        ELSE Goto(After(pc))
            /\ UNCHANGED att
  /\ UNCHANGED <<held, buf, bus, failed, clients, modules, unregistered, activity>>

Remove ==
  /\ pc = "bound"
  /\ Goto(RemoveOrder[1])
  /\ UNCHANGED <<resources, activity>>

IntDisable ==
  /\ pc = "mask"
  /\ intEn' = FALSE
  /\ Goto(After(pc))
  /\ UNCHANGED <<resources, pend, handler, tasklet, feed, dma>>

(* free_irq: the handler is not called again, then it is waited for.       *)
FreeIrq ==
  /\ pc = "free_irq"
  /\ \/ /\ "irq" \in held
        /\ held' = held \ {"irq"}
        /\ UNCHANGED progress
     \/ /\ "irq" \notin held /\ handler = "idle"
        /\ Goto(After(pc)) /\ UNCHANGED held
  /\ UNCHANGED <<buf, bus, dvb, activity>>

(* tasklet_kill returns when the tasklet is neither scheduled nor running. *)
KillTasklets ==
  /\ pc = "kill" /\ tasklet[k] = "idle"
  /\ IF k < N THEN k' = k + 1 /\ UNCHANGED <<pc, j>>
              ELSE Goto(After(pc))
  /\ UNCHANGED <<resources, activity>>

DmaFree ==
  /\ pc = "dma_free"
  /\ buf' = buf \ DmaFreed
  /\ Goto(After(pc))
  /\ UNCHANGED <<held, bus, dvb, activity>>

(* i2c_del_adapter unregisters the clients that are on the bus.            *)
I2cExit ==
  /\ pc = "i2c_exit"
  /\ bus' = {} /\ clients' = {}
  /\ Goto(After(pc))
  /\ UNCHANGED <<held, buf, att, failed, modules, unregistered, activity>>

(* iounmap, pci_disable_device, kfree.                                     *)
Put ==
  /\ pc = "put"
  /\ held' = held \ {"mmio", "pci", "dev"}
  /\ Goto("unbound")
  /\ UNCHANGED <<buf, bus, dvb, activity>>

-----------------------------------------------------------------------------
(* Everybody else.                                                         *)

(* The handler is called: by this card, by a message already under way, or *)
(* for another device on a shared line.                                    *)
HandlerEnter ==
  /\ handler = "idle" /\ "irq" \in held
  /\ handler' = "run"
  /\ pend' = [a \in Adapters |-> FALSE]
  /\ tasklet' = [a \in Adapters |->
        CASE pend[a] /\ tasklet[a] = "idle" -> "sched"
          [] pend[a] /\ tasklet[a] = "run"  -> "rerun"
          [] OTHER                          -> tasklet[a]]
  /\ UNCHANGED <<progress, resources, intEn, feed, dma>>

(* Its last act is to write INT_EN.                                        *)
HandlerLeave ==
  /\ handler = "run"
  /\ handler' = "idle" /\ intEn' = TRUE
  /\ UNCHANGED <<progress, resources, pend, tasklet, feed, dma>>

TaskletRun(a) ==
  /\ tasklet[a] = "sched"
  /\ tasklet' = [tasklet EXCEPT ![a] = "run"]
  /\ UNCHANGED <<progress, resources, intEn, pend, handler, feed, dma>>

TaskletEnd(a) ==
  /\ tasklet[a] \in {"run", "rerun"}
  /\ tasklet' = [tasklet EXCEPT ![a] = IF @ = "rerun" THEN "sched" ELSE "idle"]
  /\ UNCHANGED <<progress, resources, intEn, pend, handler, feed, dma>>

(* start_feed and stop_feed; the demux device exists as soon as dmxdev     *)
(* does, before there is a frontend.  On an adapter that was left behind   *)
(* users only close what they have open.                                   *)
UserStart(a) ==
  /\ "dmxdev" \in att[a] /\ ~feed[a] /\ "dev" \in held
  /\ feed' = [feed EXCEPT ![a] = TRUE] /\ dma' = [dma EXCEPT ![a] = TRUE]
  /\ UNCHANGED <<progress, resources, intEn, pend, handler, tasklet>>

UserStop(a) ==
  /\ feed[a]
  /\ feed' = [feed EXCEPT ![a] = FALSE] /\ dma' = [dma EXCEPT ![a] = FALSE]
  /\ UNCHANGED <<progress, resources, intEn, pend, handler, tasklet>>

Fill(a) ==
  /\ dma[a] /\ ~pend[a]
  /\ pend' = [pend EXCEPT ![a] = TRUE]
  /\ UNCHANGED <<progress, resources, intEn, handler, tasklet, feed, dma>>

-----------------------------------------------------------------------------
Probing  == \/ Kzalloc \/ Ioremap \/ DmaInit \/ I2cInit \/ RequestIrq
            \/ IntEnable \/ DvbInit \/ DvbInitFails \/ DvbUnwind \/ ProbeError
Removing == \/ IntDisable \/ FreeIrq \/ Detach \/ KillTasklets \/ DmaFree
            \/ I2cExit \/ Put

Next == \/ Enable \/ Probing \/ Remove \/ Removing
        \/ HandlerEnter \/ HandlerLeave
        \/ \E a \in Adapters : \/ TaskletRun(a) \/ TaskletEnd(a)
                               \/ UserStart(a) \/ UserStop(a) \/ Fill(a)

Spec == Init /\ [][Next]_vars

-----------------------------------------------------------------------------
(* Properties.                                                             *)

(* Every variable keeps its type.                                          *)
TypeOK ==
  /\ pc \in {"unbound", "kzalloc", "ioremap", "dma_init", "i2c_init", "irq",
            "int_en", "attach", "unwind", "bound",
            "err0", "err1", "err2", "err3", "err4"} \cup Elements(RemoveOrder)
  /\ k \in Nat /\ 1 <= k /\ (pc \notin {"i2c_init"} => k <= N)
  /\ j \in DOMAIN InitOrder
  /\ held \subseteq {"pci", "dev", "mmio", "irq"}
  /\ buf \subseteq Adapters /\ bus \subseteq Buses /\ failed \subseteq Adapters
  /\ att \in [Adapters -> SUBSET Elements(InitOrder)]
  /\ clients \subseteq Adapters /\ modules \subseteq Adapters
  /\ unregistered \subseteq Adapters
  /\ intEn \in BOOLEAN /\ pend \in [Adapters -> BOOLEAN]
  /\ handler \in {"idle", "run"}
  /\ tasklet \in [Adapters -> {"idle", "sched", "run", "rerun"}]
  /\ feed \in [Adapters -> BOOLEAN] /\ dma \in [Adapters -> BOOLEAN]

(* The handler never runs on a card half set up or half taken down: while  *)
(* it may be called, the device structure, the registers, the tasklets and *)
(* the wait queues of all buses exist.                                     *)
HandlerHasDevice ==
  "irq" \in held \/ handler = "run" =>
    {"dev", "mmio"} \subseteq held /\ buf = Adapters /\ bus = Buses

(* What a failed dvb_register_frontend leaves behind for good: of the      *)
(* first frontend, what no error label knows of; of the second, everything *)
(* there is, as the removal steps over the adapter.                        *)
LeftBehind(a) ==
  /\ a \in unregistered
  /\ \/ att[a] \subseteq {"sec", "fe2", "sec2", "ca"}
     \/ "fe2" \in Board /\ {"registered", "dmxdev"} \subseteq att[a]

(* A buffer is there for everybody who works on its ring, wherever the     *)
(* probe or the removal is: the tasklet, scheduled or running, which also  *)
(* needs the device, and the engine, which goes on writing until the last  *)
(* user has stopped it - except behind an adapter the removal has stepped  *)
(* over although its users go on.                                          *)
RingUsersHaveBuffer ==
  \A a \in Adapters :
    /\ tasklet[a] # "idle" => "dev" \in held /\ a \in buf
    /\ dma[a] => a \in buf \/ (LeftBehind(a) /\ "registered" \in att[a])

(* What a part is built on: a sec_priv hangs in its frontend, the filters  *)
(* of dvb_net and dmxdev in the demultiplexer, devices in their adapter.   *)
Needs(p) ==
  CASE p = "sec"         -> {"fe"}
    [] p = "sec2"        -> {"fe2"}
    [] p = "registered"  -> {"fe", "adapter"}
    [] p = "registered2" -> {"fe2", "adapter"}
    [] p = "ca"          -> {"adapter"}
    [] p = "net"         -> {"dmx", "adapter"}
    [] p = "dmxdev"      -> {"dmx", "adapter"}
    [] p \in {"fe_hw", "fe_mem"} -> {"dmx"}
    [] OTHER             -> {}

(* Whatever order things are given back in, what a part is built on is     *)
(* there as long as the part is: parts of an adapter, the bus its          *)
(* frontends talk over, the clients whose memory the frontends are in, the *)
(* registers, and the user's feed; but of an adapter that failed in        *)
(* dvb_register_frontend only the feed is.                                 *)
NothingOutlivesItsBase ==
  /\ \A a \in Adapters \ unregistered :
       /\ \A p \in att[a] : Needs(p) \subseteq att[a]
       /\ att[a] # {} => {"dev", "mmio"} \subseteq held /\ bus = Buses
       /\ "client" \in Board /\ "fe" \in att[a] => a \in clients
  /\ \A a \in Adapters : feed[a] => "dmxdev" \in att[a]
  /\ clients # {} => bus = Buses
  /\ buf # {} \/ bus # {} => {"dev", "mmio"} \subseteq held
  /\ "dev" \in held => "pci" \in held

(* An adapter the removal steps over has nothing that would have to be     *)
(* given back, or is one that a failed dvb_register_frontend left behind.  *)
FailedHasNothing ==
  pc # "unbound" => \A a \in failed : att[a] = {} \/ LeftBehind(a)

(* tbsecp3-core.c:103: attach has failed, nothing to do.  It does not hold *)
(* when dvb_register_frontend fails.                                       *)
NothingToDo == pc # "unbound" => \A a \in failed : att[a] = {}

(* When probe has failed or remove is through, everything has been given   *)
(* back and the card is at rest, but for adapters left behind and for the  *)
(* references on the modules of client drivers, which nothing gives back.  *)
AllElseGivenBack ==
  pc = "unbound" =>
    /\ held = {} /\ buf = {} /\ bus = {} /\ clients = {}
    /\ \A a \in Adapters :
         /\ att[a] = {} \/ LeftBehind(a)
         /\ tasklet[a] = "idle"
         /\ dma[a] => LeftBehind(a) /\ "registered" \in att[a]

(* What try_module_get took has been put when the card is unbound.  It     *)
(* does not hold for a board with clients.                                 *)
ModulesGivenBack == pc = "unbound" => modules = {}

(* tbsecp3-core.c:278: disable interrupts.  When remove has given its      *)
(* handler back and goes on, INT_EN is off.                                *)
MaskedWithoutHandler ==
  pc \in Elements(RemoveOrder) \ {"mask", "free_irq"} => ~intEn
=============================================================================
