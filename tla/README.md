# Verification of the TBS PCIe DVB drivers

TLA+ models of the kernel drivers in `src/`, the TLC instances that check them,
and TLAPS proofs of what matters most for every ring size, board and message.
`PROJECT.json` ties every definition to the lines it stands for, every run to its
properties, and every property to a fault in the code that would break it.

## 1. The system

`src/` holds two PCI drivers and the demodulator and tuner drivers they use.

| component | state it keeps | operations | status |
|---|---|---|---|
| DMA stream (`tbsecp3-dma.c`, `start_feed`/`stop_feed` in `tbsecp3-dvb.c`) | a ring of `TBSECP3_DMA_BUFFERS` buffers per input, `next_buffer`, `cnt`, `offset`, `feeds`, registers DMA_EN and DMA_IE | tasklet, enable, disable, register init | `DmaStream` |
| I2C bus (`tbsecp3-i2c.c`) | `done`, wait queue and mutex per bus; controller registers STAT/CTRL, DATA | `i2c_xfer` | `I2cBus` |
| Card lifecycle (`tbsecp3-core.c`, init and exit functions of the other files) | which resources and DVB parts exist, `nr` per adapter, INT_EN | probe, the error labels, attach, detach, remove | `Lifecycle` |
| Interrupt dispatch (`tbsecp3-core.c`) | INT_STAT, INT_EN | `tbsecp3_irq_handler` | its parts are in the three models above |
| GPIO (`tbsecp3-core.c`) | one register shared by the card | `tbsecp3_gpio_set_pin` | not modelled |
| CA slot (`tbsecp3-ca.c`) | slot status, mutex | attribute and CAM access, reset, TS control, poll | not modelled |
| Frontend wiring (`tbsecp3-dvb.c`) | frontends, sec_priv, MAC | board-specific attach, LNB voltage, TS rate | not modelled |
| ASI receiver (`tbsecp3-asi.c`) | busy flag of an SPI port | read, write, reset | not modelled |
| Board table (`tbsecp3-cards.c`) | constants | - | not modelled: data |
| SAA716x I2C (`saa716x_i2c.c`) | event and state flags of two controllers | transfer with three tries, interrupt | not modelled |
| SAA716x stream ports (`saa716x_fgpi.c`, `_dma.c`, `_adap.c`) | page tables, worker, feeds | start, stop, worker | not modelled |
| STi7109 mailbox (`saa716x_ff_cmd.c`, interrupt in `saa716x_ff_main.c`) | ready/avail/done flags, shared windows, handle counter | command, OSD command, block data | `StiCmd`, `StiData` |
| TS output FIFO (`saa716x_ff_main.c`) | ring buffer, FIFO worker, stream state | write, ioctl, worker, FIFO interrupt | `FifoOut` |
| STiD135 demodulator (`stid135/`) | chip handle with its sticky Error, `status_lock`, per frontend the last lock state and the search results | tune, read_status, DiSEqC, tone, init, sleep | `Stid135` |
| STV0900 demodulator (`stv090x.c`) | tuner and demod lock, shared clock and power registers, `mclk` | init, search, sleep | `Stv090x` |
| CX24117 demodulator (`cx24117.c`) | `fe_lock`, `skip_fw_load`; command registers, firmware | commands, firmware on demand, init, tune, sleep | `Cx24117` |
| Other shared demodulator chips (`stv091x.c`, `mxl58x.c`, `si2183.c`) | chip list with use counts, gate and firmware mutexes | attach, release, gated access | not modelled |
| Infrared (`saa716x_ff_ir.c`) | last key, timer, tasklet | handler, tasklet, key-up, exit | not modelled |
| SAA716x CI (`tbs-ci.c`) | as the CA slot, over an MCU | same interface | not modelled |
| SAA716x boards and chip setup | constants; registers | straight-line programming | not modelled |
| Other demodulators and tuners | registers of vendor chips | register sequences, signal arithmetic | not modelled |

How they interact: the card raises one interrupt; its handler acknowledges
INT_STAT, schedules a tasklet for each input with a completed buffer, and sets
`done` and wakes the sleeper for each bus with a completed chunk. Tasklets call the
software demultiplexer. On a Full-Featured SAA716x card ioctls write commands, data
blocks and packets into windows of an FPGA and ring the decoder behind it; the one
interrupt of the FPGA sets the flags they sleep on and queues the worker that feeds
the decoder. The DVB core calls `start_feed`/`stop_feed` under the
demultiplexer's mutex, and frontend operations, which call `i2c_xfer`. Each frontend
has a thread of its own, and several frontends share a demodulator chip: their threads
meet in the chip's locks and in its registers. The PCI core calls probe, remove and
resume.

What is hard: handler, tasklet and engine run at the same time on different
processors without a common lock; the ring is addressed by indexes modulo its size
while the engine overwrites what was not read in time; interrupts coalesce;
stopping cancels nothing that is pending; a timed-out I2C command can answer later
and its answer carries no identity; probe has eight error labels, and removal
happens under handlers, tasklets and users; a register transfer can fail at every line
of a demodulator driver, most of which go on, and leave a lock, a gate, a flag or a
clock for the other frontend to find. `hazards` in `PROJECT.json` lists each at its line
with the property that covers it, or why none does.

What makes each component correct:

- stream: what reaches the demultiplexer is the recorded stream, in order, nothing
  twice, skipped or half overwritten; after a restart nothing from before; the
  engine runs exactly while there are feeds; nothing waits for ever.
- bus: a completion is taken for the chunk it belongs to, or the disturbance
  stems from a timeout; no completion is lost; a message is one frame; success
  means acknowledged; the bus is always given back.
- mailbox: a result is the one of the command it is returned for, a window is not
  written while the other side uses it, a handle names the data it was returned for,
  and commands and transfers become possible again after every failure.
- output FIFO: packets are played in the order written, none twice or overwritten
  before; nothing is stuck; the ioctls stop and start what they say.
- shared demodulators: a lock is held by the frontend that believes so and given back on
  every path; what one frontend does, or fails to do, leaves the other's signal, clocks,
  tuner and mode alone; a failed transfer costs no more than what it touched; every
  operation ends.
- lifecycle: nobody finds what he uses missing; nothing outlives what it is built
  on; everything acquired is given back, once.

## 2. The models

### `DmaStream` and `TsDelivery`

One input. The fillings the engine completes are numbered 0, 1, 2, ...; `done` counts
them, `slot` is where the engine is, and `ring[s]` is the number of the last filling
completed in slot s. The code never sees these numbers: `next_buffer`, `read_buffer` and
`stop_buffer` are slot indexes, computed as in the code, and what the tasklet hands over is
what `ring` says of the slot it reads. The ghosts `pos` and `stopPos` say which filling the
driver takes a slot index for, `sound`, `start`, `inFlight`, `stale`, `slept` what has
happened since the enable.

| action | code |
|---|---|
| `HwFill` | the engine (external) |
| `IrqAck`, `IrqSchedule` | `tbsecp3_irq_handler`: write INT_STAT back, then `tasklet_schedule` |
| `TaskletPreBuffer`, `TaskletStart`, `TaskletSync`, `TaskletFilter`, `TaskletEnd` | `tbsecp3_dma_tasklet`: the `cnt` runs, the loop's start, sync search and head copy, filter call, loop's end |
| `StartFeed`/`DmaEnable`, `StopFeed`/`DmaDisable` | `start_feed`, `stop_feed` |
| `Resume` | `tbsecp3_resume` after a suspend |

The spinlock `adap_lock` is held exactly while the tasklet is not "idle"; enable and
disable wait for it. The sync search may find any offset of `Offsets` (its own
comment says it can fail). Whether DMA_STAT names the slot being filled or the last
full one is not in the repository: `StatLag` is 0 or 1 and everything is shown for
both in the proofs, for 1 in the run. Nor is where an enabled engine begins: it goes on
from its slot or starts at slot 0, and both are possible steps. In either case the slots it
has not filled since hold what they held. A tasklet that runs before it has come round may
find a slot of the old stream followed by one of the new: what `ring` says shows that these
are not consecutive, and `TailFollowsBody` and the refinement only speak of what follows a
filling of the present stream.

`TsDelivery` is the promise to the demultiplexer: a writer that never stops, a
reader that within a run hands over consecutive fillings that are still intact, the first of
them not from before the switch, and after a switch a few buffers of the old stream
(`Leftover`), no more than runs of the tasklet were pending. `ImplementsDelivery` is the
refinement.

Not in it: what is inside a buffer (except where the packets continue), the
other inputs, the registers' addresses.

### `I2cBus`

One bus, several clients. `i2c_xfer` is split at every point where the controller
or the handler can come between: data register and clearing `done` (`ClearDone`),
writing CTRL (`Issue`), waking up with `done` (`Acked`, `Nacked`) or without
(`Timeout`). The controller has at most one command; `engine` and `answer` label a
command and a report as belonging to the last CTRL write ("cur") or an earlier one
("old"), which the code cannot tell. Reading register 0 (STAT and CTRL are the same)
may or may not drop a running command, as the comments on both reads suggest. A report
read while a command still runs may say anything. `frame` watches the bus.

### `Lifecycle`

The PCI thread is a program counter `pc` with loop indexes `k` (adapter or bus) and
`j` (step of `tbsecp3_dvb_init`); it moves one acquisition or release at a time, and
everything else interleaves: handler calls (of this card or of another device on the
line), tasklets, engines, and users with a feed, who can come as soon as the demux
device exists. The orders are sequences (`InitOrder`, `UnwindOrder`, `ExitOrder`,
`RemoveOrder`). What may fail is the constant `Failing`. Kernel functions that wait
are guards: `free_irq` for a running handler, `tasklet_kill` for the tasklet,
`dvb_dmxdev_release` for users.

`dvb_register_frontend` may fail, for either frontend. For the first, err7 knows nothing of
sec, CA and second frontend; for the second, the error is returned with everything still
registered and the removal steps over the adapter. `LeftBehind` says what stays then, and
`FailedHasNothing`, `AllElseGivenBack` and `RingUsersHaveBuffer` accept exactly that;
`NothingOutlivesItsBase` says of such an adapter only that its user's feed has its dmxdev.
After something was left behind the next binding does not follow it up (bound in `Enable`).

A board with "client" takes references on the modules of its demodulator and tuner drivers
(`TakeClients`, `try_module_get` at `tbsecp3-dvb.c:1202` and the like), and no path puts
them: the `module_put` in `tbsecp3_i2c_remove_clients` is under `#if 0`. They are in
`modules`, `AllElseGivenBack` names them as its exception, and `MCLifecycle_modules.cfg`
shows that they are left (section 4). The clients themselves go with their bus.

Left out: a failing `tbsecp3_ca_init` (it leaves `adap->tbsca` pointing to freed
memory, and what `tbsecp3_dvb_exit` then does is undefined); which demodulator and
tuner a board has (`Board` says which optional parts there are); a failure of the second
frontend's tuner, which detaches the first and is the same as the first failing. Nothing is
said about the end of a removal: it waits for users, who need not come to an end.

### `StiCmd` and `RemoteCall`

One command channel (the OSD channel repeats the code with its own variables). The
caller, who holds `cmd_lock`, moves from wait to wait: `Call`, `ClearFlags` (READY
seen, flags cleared), `Write` (window and ring), `Accept`, `Return`; `GiveUp` is a
signal or time-out at either wait. The handler works on the sources it has read
(`isr`), one after the other, setting the flag (`IrqCmd`, `IrqReady`) and then
writing ICLR (`IrqClear`). The firmware is external and only what the driver relies
on: it takes a command, may have a result, and raises READY once for each. Commands
are numbered; the driver cannot see the numbers. What the repository does not say is a
habit a firmware has for good (`habit`): whether READY may come before the result (`early`),
and whether a source may be raised again between its service and its ICLR (`overtakes`).

If it may, the ICLR erases the new READY: `ReadyReturns` is then violated, and the
channel is dead until the next boot. `ReadyReturns` is therefore a statement about
firmware that is slower than the handler's last two lines. It also needs the handler
to be called again while a source is raised.

`RemoteCall` is the channel as its callers know it: calls executed one at a time, once and in
order, each answered to its own caller or not at all, also when the caller has given up
in between. The channel implements it with firmware that says READY last; of the other
firmware `Shown` hides everything, because with it a result may be returned for the wrong
command (`late`).

### `StiData`

The block transfer. `half` is the window's two halves; `Fill` writes one, `BlockDone`
waits for the acknowledgement of the block before, `ClearDone` and `RingDecoder` ring for
it, `Finish` and `Timeout` end the transfer. The firmware reads the halves in turn,
acknowledges each block, stores the data after the last one and gives READY; a
cancellation resets it. Its answers may come at any time, also after the time-out they are
too late for, and any source may be raised again while the handler is between serving it and
its ICLR, which then erases it.

The protocol has no numbers to tell answers apart, so that an answer that crosses with its
time-out is taken for one of the next transfer. The history variable `crossed` says that
this has happened - a time-out while an acknowledgement or a READY of the transfer was there
or due (`Answered`), or a block completed with the cancellation already rung - and it is
reset by a transfer that begins with nothing left over (`Settled`). Until then three things
can go wrong. The READY of the completed transfer is taken for the one the cancellation
gives, and the cancellation hits the next transfer, whose blocks may be overwritten while they
are read (`HalfNotInUse`). `block_done` is not cleared when a transfer starts: an
acknowledgement left behind makes a transfer of length 0, which rings for no block, succeed
at once with a handle that names nothing, or lets a longer one succeed before its last block
is read (`HandleRefers`). In this last case the firmware is left waiting for data of a
transfer that has ended well, which nobody will cancel, and READY never comes again: `lost`
notes it, as it does a READY erased by the ICLR. `HandleRefers` and `HalfNotInUse` are
checked and proved with `crossed` for an exception, `ReadyReturns` with `lost`.

### `FifoOut` and `OutputQueue`

Positions are counted in packets (TS_SIZE divides TSOUT_LEN). The writer
(`WriteBegin` to `WriteEnable`), the worker (`WorkBegin` to `WorkEnable`), the handler
(`IrqRead`, `IrqDisable`, `IrqQueue`) and one ioctl at a time (`DemuxReset`, `DemuxStat`;
`ClearReset` to `ClearFill`) are split at every access to what they share: the
pointers, `tsout_stat` and FIFO_CTRL, which all of them read, change and write back.
`Locked` is `tsout.lock` held by the worker. The ghosts number the packets:
`next` is written next, `due` has to be played next. That `msleep(50)` outlasts a running
handler is assumed (`ClearCancel`). Two ioctls at once, and `poll`, are left out.

`OutputQueue` is what a writer may take it all for: a bounded queue in front of the decoder,
which gives up packets in order and loses them only to a CLEAR or a reset.
`ImplementsQueue` maps what lies in the ring between the reader's and the writer's place
to the queue: a worker that moves `pread` after a flush, or a packet overwritten before it
was played, changes the queue where the specification does not. It implies `FifoFits` and
`PlaysNext`, which are proved on their own and not run.

A stream can stand still, and `Stalled` lists how: a CLEAR and a `write()` have raced and
left the FIFO in reset (`raced`); the worker found no room in the FIFO and returned without
enabling the interrupt (`noRoom`), or was last called in RESET (`missed`); a `write()` of
more packets than fit beside a third of the ring sleeps in the full ring, as the interrupt is
enabled only after its loop (`~short`). `PlaysOn` and `WriteEnds` say that there is no other
way, for a FIFO smaller than the ring, as FIFO_STAT's 16 bits make it (the ring has 1024 * 188
bytes), writes of any length and a CLEAR at any time. `ClearStarts` excepts `raced`: an older
value of FIFO_CTRL in the hands of a write() or the handler at the moment CLEAR starts the FIFO.

Two things are coarser than the code. `WriteCheck` looks at `tsout_stat` and the pointers and
reads FIFO_CTRL in one step, as `WorkRun` sets `tsout_stat` and reads it: what comes between
the two reads in the code comes before both in the model. And a packet is
always copied: `dvb_video_write` ignores the `-EFAULT` of a user's bad address
(`saa716x_ff_main.c:818`) and counts as written a packet that is not in the ring.

### `Stid135`

Any number of frontends on one STiD135. An operation is a sequence of steps under
`status_lock`; one step is one function of `stid135_drv.c`, and what the hundreds of
register accesses in it do is abstracted to what the other operations can notice: the
handle's `Error`, the error the function returns, and the lock bits read. `chip.c` has
four kinds of access, and the model has an operator for each: reading a field is skipped
without an error while `Error` is set (`GetFields`), writing a field or a burst gives an
error then (`SetFields`), an access to one register resets `Error` first (`Registers`), and
functions that do the one and then the other are `FieldsThenRegisters`. Every transfer may
fail, `Glitches` times altogether; a failed write may or may not have reached the chip.

| action | code |
|---|---|
| `StartTune`, `Setup`, `Search`, `AfterSearch` | `stid135_set_parameters`, `fe_stid135_search` |
| `StartSearch`, `GetDemodLock`, `Params`, `FecLock`, `NoFecLock`, `SearchResult`, `SearchLost` | `FE_STiD135_Algo` and the end of the search; the lock is given away in the pauses of `GetDemodLock` |
| `Status`, `StatusNoLock`, `StatusLock` | `stid135_read_status` with the lock; without it, it answers `cached` at once |
| `Short` | init, tone, DiSEqC reply |
| `StartSend`, `SendBegin`, `SendByte`, `SendEnd` | `stid135_send_master_cmd` |
| `StartSleep`, `Sleep` | `stid135_sleep`, without the lock |

What a failed read gives is kept where the code decides by it: all ones in the field (a
`HEADER_MODE` of 3, "DVB-S found", a lock bit set), 0xFF when the read was skipped. `reading`
and `falseNo` are history. Left out: attach and release, blind search, boards with the
amplifier chips, the TS rate of the 6912, `mode` 0 (where set_voltage and set_tone select the
input), a DiSEqC FIFO that is really full, `send_burst`, which does nothing.

Two things the model shows that are not invariants. A search in which a frontend was locked
before and no packet delineator locks in time returns with "locked" of the search before
(`demod_results[].locked` is written in the FEC phase only), and a failed read in the FEC
phase counts as a lock and is then forgotten: `ResultIsOfThisSearch` is violated
(`MCStid135_search.cfg`). `pParams->demod_error[]`, by which a failed search chooses its
error, is never set, so a search that fails returns no error.

### `Stv090x`

The paths of one STV0900, as the S2-6400 uses them. A call is a sequence of sections, and
each section takes one of the two locks: a tuner section opens the path's gate under
`tuner_lock` (`GateOpen`), calls the tuner and closes the gate (`GateClose`); a register
section reads, modifies and writes a list of shared registers under `demod_lock`
(`DemodLock`, `ReadReg`, `WriteReg`). `stv090x_init`, `stv090x_sleep`, `stv090x_algo`,
`stv090x_get_coldlock` and `stv090x_get_sig_params` say which section may follow which,
after success and after an error; what is between two sections touches the path's own
registers and only decides. Every write may fail, having reached the chip or not. A search
that finds `mclk` 0 divides by it and ends in "oops".

Every read may fail too: `stv090x_read_reg` returns an error number where its callers expect
the register, and they modify it and write it back. Of a clock register such a write stops
the clocks of the other path: `spoilt` notes for each path that this has happened since its
clocks were started, and `AwakePathRuns` excepts it. `MCStv090x_read.cfg` shows it happen ("FEC
clock is shared between the two paths, only stop it when full standby is possible",
`stv090x.c:4089`). A sleep that cannot read whether the other ADC is off takes it for on
(`blind`), and the chip is then not powered off when both paths sleep.

Left out: the DiSEqC operations and their power bits, the readings, the use count,
`ldpc_mode` and the TS path, which are set once at attach.

### `Cx24117`

The demodulators of one chip with one firmware. The firmware takes the command in the
command registers when EXECUTE is set (`Take`) and clears it when it is done (`Do`); the
driver writes the command, sets EXECUTE and polls (`writecmd`, `Execute`, `Poll`). Every
command first checks register 0xeb (`firmware_ondemand`) and loads the firmware when the
check fails - a failed read included - which resets both demodulators (`load_firmware`,
`Upload`) and ends with commands that go through the same function (`Loading`; `skip_fw_load`
ends the recursion). init is several commands under one lock, tuning takes the lock for
each try (`Again`). The DVB core ignores what init and sleep return.

What a command does is its effect on the mode of its demodulator; `other` stands for the
commands without one (set_voltage gives two of them). `fine`, `due`, `open` and `loads` are
history: `due` is the mode that a call asked for and returned 0 for.

The exceptions of `ModeAsAsked` are what the code does: a command that timed out stays in
the chip, may be done later and clears EXECUTE under the next one, which then counts as
done; a command whose write failed is executed as the command before it, and returns 0.
Left out: the clock dividers of a demodulator (written without the lock, so that a load in
between sets them back), registers that are only read, attach and release.

## 3. The runs

| run | bounds | shows |
|---|---|---|
| `dma` | ring of 4, 2 pre-buffers, lag 1, 7 fillings, 2 feeds, restarts in any slot | the safety properties and the refinement; no buffer is stuck; overruns heal |
| `i2c` | 2 clients; every length at which the number or size of chunks changes, single messages and write-read pairs | the safety properties; the bus is given back |
| `life` | 2 adapters, 2 buses, one input above 3, sec, second frontend, CA and clients, every call that may fail | everything found, nested, given back, but for what is left behind |
| `cmd` | 3 commands, results of 1 or 2; a firmware with READY last and no overtaking, and one with both | a result is the caller's own; commands are not overwritten; with the first the channel is a remote call, begins none with an answer outstanding, and its channel survives |
| `data` | 0, a part of a block, one, two, two and a part; 3 transfers; 3 handles, so that they wrap; answers at any time | the safety properties while nothing has crossed and again after; transfers become possible again |
| `fifo_safe` | ring of 3, FIFO of 3, writes of up to 2, 5 packets, both ioctls during writes | the bounded queue: order, FIFO never full; standing still only without room; CLEAR starts |
| `fifo_live` | ring of 4, FIFO of 3, writes of up to 3, 4 packets, CLEAR at any time | what is written is played and writes end, or the stream is in one of the named stalls |
| `stid` | 2 frontends, 1 failing transfer, 1 round of the wait, 1 DiSEqC byte | lock, cached state, what an error costs; every operation ends; an error heals |
| `stid_send` | as `stid` | **violated**: finding 1 |
| `stv` | 2 paths, up to 2 rounds of `get_coldlock`, any write and any read failing | shared clocks and power, tuner gates, master clock |
| `cx` | 2 demodulators, 2 failing transfers, 2 tries, 2 polls, one further command of init and of the loading | modes; loads; no deadlock |
| `cx_load` | as `cx` | **violated**: finding 2 |

Why the bounds are enough. A ring of 4 with 2 pre-buffers leaves one buffer between
reader and margin: full, empty and lapped are all reached, and 7 fillings go round it almost
twice, with a restart in any slot between and old fillings behind it; the proofs remove the bounds on ring, margin,
lag (0 or 1), feeds and fillings. In `I2cBus` chunks are 4 or 6 bytes, and lengths 0, 1, a full chunk, a
full chunk and one more, and two full chunks and one more behave differently; a disturbed transfer
disturbing a second and a third is reached with two clients. In `Lifecycle` two
adapters give first and last of every loop, with one live while the other attaches
or is taken down. In the mailbox models a third command or transfer is enough to be hit by
what the first left behind through the second. In `FifoOut` a ring of 3 holds 2 packets
and is empty, full and wrapped; 5 packets go round it more than once with a CLEAR between.
In the demodulator models one failing transfer may hit any step of either frontend, a second
what the driver does because of the first; a second round of a wait, a second try and a
second command repeat what the first may do with the other frontend in between. The proofs
remove all these bounds and the number of frontends.

Deadlock is checked everywhere but in `FifoOut`, which stops when its packets are
played and nobody comes, and in `stv`, where both threads may have divided by zero.

Fairness. `DmaStream`: the handler (an interrupt raised is taken) and the tasklet (a
scheduled tasklet runs; a running one goes on); none for engine and users. `I2cBus`:
the holder of the mutex, whose timer expires, and the handler; none for the
controller, which may never answer. `Lifecycle`: no liveness is stated. `StiCmd`, `StiData`: the
caller, whose timer expires, the handler, and the firmware (a decoder that has crashed
is out of scope: it needs a boot); nobody has to call. `FifoOut`: writer, worker,
handler, an ioctl under way, and the decoder, which plays; nobody has to write. `Stid135`:
an operation under way goes on; the mutex is handed to whoever waits for it, however often
it is taken in between (strong: mutexes of the kernel queue); some frontend's status is read
again and again with the lock free (the thread of an open frontend does so every second),
which is what resets Error; nobody has to tune. `Stv090x` and `Cx24117` state no liveness:
whether a search of `Stv090x` ends depends on loops over the chip's own state, and the
state space of `Cx24117` is beyond what can be checked for it.

## 4. Findings

1. `stid135_drv.c:5504`: the loop over the DiSEqC FIFO waits for a flag that reads 0xFF for
   ever once a transfer has failed; "Check the error at the end of the function" (line 5524)
   is not reached, and the lock of all frontends is held (`SendEnds`, run `stid_send`).
2. `cx24117.c:602`: register 0xeb says "firmware is already running" (line 458) before the
   firmware is uploaded; without memory for the upload, or with a failing one, the next
   command is given to a firmware that does not run (`CheckedIsLoaded`, run `cx_load`).

More places where a comment and the code part, each shown by a configuration beside the
runs (`tlc -config <cfg> <module>` finds the violation):

| configuration | property | what happens |
|---|---|---|
| `MCLifecycle_fe2.cfg` | `NothingToDo` | a second frontend that cannot be registered (`tbsecp3-dvb.c:2142`) is only logged, and the error returned with everything still registered; detach steps over the adapter ("attach has failed, nothing to do", `tbsecp3-core.c:103`) and the device is freed under it |
| `MCLifecycle_modules.cfg` | `ModulesGivenBack` | the references of `try_module_get` (`tbsecp3-dvb.c:1202`, 1239, ...) are never put, as `tbsecp3_i2c_remove_clients` is empty (`tbsecp3-i2c.c:150`): the client drivers cannot be unloaded any more |
| `MCLifecycle_mask.cfg` | `MaskedWithoutHandler` | the handler ends with INT_EN = 1 unconditionally (`tbsecp3-core.c:76`): one running while `tbsecp3_remove` "disable[s] interrupts" (line 278) enables them again |
| `MCStiCmd_fits.cfg` | `ResultFits` | a command for which no result is asked returns length and data of an earlier one (`saa716x_ff_cmd.c:126`): the clamp "not enough space in result buffer" (line 95) is only made for calls that ask, and nothing resets `result_len` |
| `MCFifoOut_start.cfg` | `StartsFifo` | the unlocked read-modify-write of FIFO_CTRL in a `write()` (`saa716x_ff_main.c:825`) undoes "start FIFO 1" (line 879) of a CLEAR in another thread |
| `MCFifoOut_demux.cfg` | `DemuxStops` | "stop and reset FIFO 1" (`saa716x_ff_main.c:863`) takes no lock: the worker sets RUN after it |
| `MCStid135_search.cfg` | `ResultIsOfThisSearch` | "Result of the search" (`stid135_drv.c:2371`) is the lock of the search before |
| `MCStv090x_read.cfg` | `AwakePathAlwaysRuns` | a failed read in one path's sleep stops the clocks of the other ("only stop it when full standby is possible", `stv090x.c:4089`) |

Things that look wrong and are not: `tbsecp3_dma_free` stands still at an adapter
without a buffer (`continue` before `adapter++`), but buffers exist for a prefix of
the adapters only, so nothing is leaked (`AllElseGivenBack`); the error labels free the
buffers before killing the tasklets, but no interrupt has been requested by then
(`RingUsersHaveBuffer`); a sticky Error makes `stid135_read_status` answer "no lock"
without an error, but only once, whichever frontend asks (`GlitchCostsOneReading`).

## 5. The proofs

Every theorem is of the form `Spec => ...`, for all constants that meet the module's
assumptions; what a property excepts is in its definition, as a history variable the model
sets, and not in a hypothesis.

`DmaStream_proofs` (for every `Buffers`, `PreBuffers`, `StatLag`, `Offsets`, bounds that
satisfy `DmaAssumption`): `TypeOK`, `TailFollowsBody`, `FreshStart`, `InOrder`,
`EngineFollowsFeeds` and `ImplementsDelivery`. The properties are not inductive. `IInv`
adds `Positions` (once lined up, each slot index is its ghost number modulo the ring, counted
from where the engine was enabled, and the distances between them), `RingHolds` (which slots hold
fillings of the present stream and which still those of an older one), `HandedOver` (what
`out` and `spill` hold relative to the read position) and `RunsPaid` (the runs pending plus those counted are paid for by
fillings since the start or by runs pending at it). From it each property follows. Lemmas
about indexes modulo the ring size stand at its head.

`I2cBus_proofs` (for any clients and transactions): all six safety properties.
`IInv` adds where the undisturbed chunk is - exactly one of controller, INT_STAT,
handler, flag (`Undisturbed`) - that everything is quiet between chunks until
some transfer timed out (`QuietBetween`), and that the bus frame stands where the
transfer stands in the message (`FrameFollows`).

`StiCmd_proofs` (for any lengths, firmware habits and number of commands): `TypeOK`,
`ReadyGuards`, `ResultIsOwn`, `CommandIntact`, `ImplementsCall`. `IInv` adds that the right to give the next
command is a token in one place at a time - firmware, interrupt, `cmd_ready`, caller, or the
command rung (`OneToken`); that with READY last nothing follows it (`ReadyLast`); and that
what is under way belongs to the last command if nothing was outstanding when that was
begun (`AboutLast`). The refinement needs one invariant more, `InTurn`: all commands but the one
rung for have been taken.

`Stid135_proofs` (for any frontends and bounds): `TypeOK`, `SectionOwned`, `CachedLockIsTrue`,
`GlitchCostsOneReading`. `IInv` adds that only operations that take the lock wait for it
(`Waits`) and that the failed transfers pay both for the readings missed and for an
Error still set (`Charged`): a step may set Error, or miss a reading, only against a
transfer that failed. Lemmas say of each kind of access what it can do to
Error and to the transfers left.

`Stv090x_proofs` (for any number of paths and any `Rounds`): `TypeOK`, `LocksGivenBack`,
`TunerAlone` from `LockInv`, which says where in a section each lock is held and that a gate
is open only inside the section or after a failed write; `AwakePathRuns` and
`AsleepIsStandby` from `PathInv`, which says register by register how far a wakeup or a sleep
has come, what the path has read and not yet written back - the register or an error, never
less than the register (`Fresh`) - and that whoever stops the shared clocks has seen the others'
ADCs off (`Full`); `MclkKnown`.

`Cx24117_proofs` (for any demodulators and bounds): `TypeOK`, `ModeAsAsked`,
`LoadCostsATransfer`. `IInv` adds that a command in the chip has a holder of the lock behind
it or is counted as not fine (`Locked`, `Sound`), and that what is loaded, and what 0xeb
still makes necessary, is covered by failed transfers (`Charged`).

`Lifecycle_proofs` (for any number of adapters and buses, any board, and any set of failing
calls): `TypeOK`, `HandlerHasDevice`, `RingUsersHaveBuffer`,
`NothingOutlivesItsBase`, `FailedHasNothing`, `AllElseGivenBack`. `IInv` says for every place of probe and
remove what there is: what is held (`HeldAt`), for which indexes buffers, buses and parts exist
(`BuffersAt`, `BusesAt`, `PartsAt`, `ClientsAt`), which adapters may have failed (`FailedAt`) and which
of them in `dvb_register_frontend`, with what they leave (`UnregisteredAt`), where a handler or
a tasklet may still run (`HandlerAt`, `TaskletsAt`), and that an engine runs for a feed and a feed
needs its dmxdev (`FeedsAt`). None of the six is inductive without the others: that the buffers may go
when the removal says so depends on the tasklets killed, the tasklets on the handler gone
and the feeds closed, the feeds on the order of the parts (`PartsStand`).

`FullFeatured_proofs`, for the two streams of the Full-Featured card:

- `FifoOut` (for any ring, FIFO, size of writes, with and without ioctls during a
  write): `TypeOK`, `FifoFits`, `PlaysNext`, `StallOnlyWithoutRoom`. `IInv` adds that what the
  worker has still to move fits in the FIFO and is in the ring (`WorkFits`); that a CLEAR keeps the
  worker from starting the stream and, once it has waited, from everything (`ClearQuiet`),
  without which the flush could meet a worker between its copy and its `pread` and play what is
  gone; that the ring holds the last packets without a gap (`RingInOrder`); and who goes on when
  the interrupt is disabled (`SomebodyGoesOn`). From `RingInOrder` it follows that what waits in
  the ring is always the packets from `due` to `next - 1` (`WaitingIs`), and with it
  `ImplementsQueue`, step by step. `ClearStarts` follows from `ClearHolds`: from the moment a CLEAR
  starts the FIFO, and unless somebody held an older value of FIFO_CTRL then (`raced`), every value
  that is read, held or written says that the FIFO runs.
- `StiData` (for any block size, lengths, number of handles and of transfers, answers at any
  time): `DataTypeOK`, `HandleRefers`, `HalfNotInUse`. `DataIInv` says what holds while nothing has
  crossed (`Peace`): that a rung
  block, or its acknowledgement, is at one place at a time, and READY at another (`OneAck`,
  `OneReady`); that between transfers nothing but a cancellation is under way (`Rest`); and for each
  point of the driver's loop which blocks the halves hold (`Stage`) and how far the firmware
  is (`Progress`), which is where the two sides of the protocol meet. A transfer that begins with
  nothing left over re-establishes it.

Only model-checked: liveness (`NoBufferStuck`, `OverrunHeals`, `Released`, `ReadyReturns`, `PlaysOn`, `WriteEnds`, `OperationEnds`, `ErrorHeals`), which
the prover does not cover. Every safety property of the passing runs is a theorem, as are the
type invariants of all nine components and `InOrder`, `DisturbedOnlyAfterTimeout`, `ReadyGuards`,
`LocksGivenBack`, `FifoFits` and `PlaysNext`, which no run repeats.

## 6. Not modelled

- **SAA716x stream ports.** The same ring, worker and feeds as `DmaStream`, with pages
  for buffers. Seen while reading: `saa716x_dma_start` ignores the error of
  `saa716x_fgpi_start` and counts the feed (`saa716x_adap.c:33`).
- **SAA716x I2C.** A transfer with three tries and a re-initialisation between them; on the
  S2-6400 the completion comes through an event word and a wait queue, elsewhere the
  status is polled. Without a description of the controller's buffer the retries cannot be
  told from what they repeat.
- **Other shared demodulators.** `stv091x.c` gives its gate lock back only when the write
  succeeds (`gate_ctrl`, lines 1170-1205), and the tuner driver ignores the error, so that the
  next open waits for ever; `mxl58x.c` and `si2183.c` hold one mutex around each command. The
  chip lists of all of them have a use count without a lock, which attach and release, made
  by one thread per card, do not need on a machine with one card.
- **CA slot and SAA716x CI.** Sequences of register accesses under the slot's mutex, called
  by the CA thread. When `dvb_ca_en50221_init` fails, `adap->tbsca` points to freed memory;
  what follows is undefined and no model of it would say anything.
- **GPIO.** `tbsecp3_gpio_set_pin` reads and writes back a shared register without a lock: two
  voltage changes at once lose one. A model would be these two accesses and no more.
- **Infrared.** `saa716x_ir_exit` clears `ir_priv` before `tasklet_kill`, and the tasklet reads
  it (`saa716x_ff_ir.c:303`).
- **Frontend wiring, boards, chip setup, one-frontend demodulators, tuners.** Tables and
  straight-line register programming, the bulk of the lines of `src/`. What a register does is
  in the chips' data sheets, not in the repository, and no second actor comes in between: a
  model could only repeat the listing. Of their arithmetic, the sync search
  (`tbsecp3-dma.c:50`) may settle on payload, as its comment says, and `DmaStream` lets it;
  `Set_TSparam` (`tbsecp3-dvb.c:953`) divides by a rate that a slow channel can make zero.

## 7. Plan

Done: `DmaStream` with `TsDelivery`, `I2cBus`, `Lifecycle`, `StiCmd` with `RemoteCall`,
`StiData`, `FifoOut` with `OutputQueue`, `Stid135`, `Stv090x`, `Cx24117`; proofs of the safety
of each, and of the three refinements.

Worth doing next: `CardIrq`, the composition of one handler with several streams and buses; an
abstract specification of the block transfer (a store that takes data whole), which
`HandleRefers` is the core of; one of the I2C bus (transfers one after the other), with the exceptions
`CompletionIsOwn` has.
