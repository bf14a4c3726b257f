# Verification of the rocketIO drivers

This directory holds the TLA+ development kept beside the `Projet-iRDMA`
repository: models of its Linux drivers for the Xilinx Virtex-4 board, TLC runs
on small instances, and TLAPS proofs for every instance. Paths below are those
of the repository; `rocketIO.c:200` is line 200 of `projet/module/rocketIO.c`.

## 1. Inventory

### The program

The repository's product is **rocketIO**, a Linux 2.6.32 network driver for the
RocketIO serial links. With `SIMULE` defined (`rocketIO.h:19`) it simulates the
hardware: two interfaces, `rio0` and `rio1`, each of which receives what the
other transmits. Around it stand the driver it is being ported from, a first
attempt at the port, two older character drivers for the same board and a copy
of the example drivers of *Linux Device Drivers*, 3rd edition.

| Component | Source | State it keeps | Operations |
|---|---|---|---|
| rocketIO, life cycle | `projet/module/rocketIO.c`, `rocketIO.h` | `hw_addr0/1`, `rio_dev0/1`, `dev_is_registered[2]`; per interface `struct rio_priv` (ring, buffers, counters) | insmod, rmmod, `ndo_open`, `ndo_stop` |
| rocketIO, data path | same | - | transmit, interrupt, receive, timeout: all stubs that only log |
| old rocketIO | `projet/module/old_rocketIO.c` | `struct rio_priv`: simulated ISR, lock, receive ring, `cur_tx`, `dirty_tx`, `tx_full`, `tx_skbuff[4]` | `rocketIO_start_xmit`, `rocketIO_interrupt`, `rocketIO_rx`, open, release, init, cleanup |
| rocketIO_ao | `projet/module/rocketIO_ao.c` | as rocketIO | load and unload; handlers are stubs |
| GPIO driver | `old_driver/modules/driver/xps_GPIO_XUP.c` | interrupt registers GIE, IER, ISR; a wait queue; the numbering of devices | blocking read, write, release, interrupt, probe, remove |
| VGA driver | `old_driver/modules/driver/xps_VGA_out.c` | the region of its registers, the mapping, the irq, a cdev | load with two registrations, probe, open, release, remove; read, write and handler are "A COMPLETER" |
| scull memory | `examples_ldd/scull/main.c` | per device: list of quantum sets, geometry, size, semaphore; the default geometry | open (trims), read, write, ioctl |
| scull access | `scull/access.c` | open counts, owners, a wait queue, a list of per-terminal clones | the opens and releases of four devices |
| scull pipe | `scull/pipe.c` | circular buffer, counts of readers and writers, two wait queues | open, read, write, release |
| scull loading | `main.c`, `access.c`, `pipe.c` of scull | numbers, arrays, cdevs, `/proc` entries | init and cleanup of the three parts |
| scullp | `examples_ldd/scullp/` | as scull, of blocks of pages; a count of mappings | the same, mmap, asynchronous reads and writes |
| scullc | `examples_ldd/scullc/` | as scull, of objects of one slab cache | the same, load and unload of the cache |
| snull | `examples_ldd/snull/` | two interfaces: packet pool, receive queue, status, queue state | transmit, two kinds of interrupt, NAPI poll, timeout, open, close, rmmod |
| short | `examples_ldd/short/` | a page of text, a ring of times, the bottom half; the irq line, ports or memory | handlers and bottom halves, read; probing and loading |
| shortprint | `examples_ldd/shortprint/` | circular buffer, output flag, timer, work | write, work, interrupt, timer, loading |
| sbull | `examples_ldd/sbull/` | the sectors, users, media change, timer, three request modes | requests, open, release, set-up, exit |
| usb skeleton | `examples_ldd/usb/` | a kref'ed struct, its minor, one read buffer, urbs | probe, disconnect, open, read, write, release |
| tiny_tty | `examples_ldd/tty/` | a port with its open count and its timer | open, close, timer, exit |
| other examples | the rest of `examples_ldd/` | - | demonstrations, user programs, a virtual bus |
| Tests | `projet/script/` | - | insmod, ifconfig up/down of rio0 and rio1, rmmod, in a loop |

How they interact: the kernel calls the driver. insmod and rmmod run the
initialisation and the cleanup in a process; `ifconfig` runs open and release
under the RTNL mutex, which `register_netdev` and `unregister_netdev` take too;
the network stack calls `start_xmit`; the hardware, or in loopback mode
`start_xmit` itself, calls the interrupt routine, which hands packets to the
stack. The interfaces share the module's global variables, and in loopback each
writes the other's `struct rio_priv`.

### What is hard, and what makes each component correct

* **rocketIO, life cycle.** Any allocation or registration may fail half-way,
  after an interface has been registered and perhaps opened; rmmod may come
  while an interface is up. Correct means: no leak, no double free, no use of
  freed memory, nothing reachable by the user that is already gone, every
  interface with its own MAC address, and insmod and rmmod that end.
* **Old rocketIO, data path.** The interrupt comes at any point of
  `start_xmit`; the ring of four descriptors fills up and empties; interfaces
  are closed and reopened with packets in flight; in loopback the peer may be
  closed. Correct means: a packet that was accepted is delivered once, whole
  and in order, or counted as dropped; its buffer is freed once, after it was
  sent; the queue waits only when it is full; handlers return.
* **GPIO driver.** A reader arms the interrupt and then goes to sleep; the
  interrupt may come in between; several openers share the registers. Correct
  means: a sleeping reader has an armed interrupt, nothing touches the
  registers once they are unmapped, removal gives back what the probe took.
* **VGA driver.** The probe goes on when steps of it have failed, and the second
  registration may fail when the device is already open. Correct means: the
  interrupt is enabled only while it is handled, an open file keeps its device,
  nobody else's region is released.
* **scull, scullp, scullc.** The geometry is copied before the semaphore is
  taken and may be another when it is used; memory may run out at any item; a
  trim must leave mapped pages alone, and a cache knows one object size.
  Correct means: the device is a file; what is allocated is laid out for the
  geometry it is freed with; no write runs over a block.
* **scull access control, pipes.** No lost wake-up, no lost data, exclusive
  access where it is promised.
* **snull, shortprint.** Interrupts may be lost. Correct means: a buffer is in
  one place, a packet is freed once, what waits is in the end sent, timers and
  work do not outlive the module.
* **short.** Handler, bottom half and readers share two rings without a lock.
  Correct means: as long as neither overflows, what comes is told once, and
  wakes the one who waits for it; the line found by probing is the only one.
* **sbull, usb skeleton, tiny_tty.** Opens, closes, timers, unplugging and
  unloading in any order: counts agree with users, and what is freed is not
  used.

`PROJECT.json` lists the hazards one by one, each with its line and with the
properties that are about it.

## 2. Plan

| Order | Module | What it models | State |
|---|---|---|---|
| 1 | `RocketIO`, contract `RioService` | life cycle of the current driver | done |
| 2 | `RocketIOProofs`, `RocketIORefines` | inductive invariant, safety, refinement | done |
| 3 | `OldRocketIO`, contract `RioChannel` | data path of the old driver | done |
| 4 | `GpioXup`, `GpioXupProofs` | blocking read, interrupt, probe and removal; safety | done |
| 5 | `ScullPipe`, contract `ScullStream` | the blocking pipe | done |
| 6 | `VgaOut`, `VgaOutProofs` | two-step loading, probe, race for the region; safety | done |
| 7 | `ScullData`, `ScullMem`, contract `ScullFile` | the memory device as a file | done |
| 8 | `ScullAccess`, `ScullLoad` | who may open; loading and unloading | done |
| 9 | `ScullPage`, `ScullSlab` | scullp with its mappings, scullc with its cache | done |
| 10 | `Snull` | the two network interfaces | done |
| 11 | `ShortRing`, `ShortLoad`, `ShortPrint` (contract `ScullStream`) | interrupt handlers and bottom halves; loading; the printer | done |
| 12 | `Sbull`, `UsbSkel`, `TinyTty` | block, USB and tty examples | done |
| 13 | `OldRocketIOProofs` | its invariants in both modes; in loopback, the refinement of `RioChannel` | done |
| 14 | `ScullPipeProofs` | `PipeSafe`, the refinement of `ScullStream` | done |
| 15 | `ExamplesProofs` | the invariants of the modules of `MCExamples`, the refinement of `ScullFile` | done |
| 16 | `ServedProofs` | the invariants of the modules of `Served`, the refinement of `ScullStream` by the printer | done |
| 17 | `RioRing` | size and offsets of the receive ring of the old driver | later |

The project keeps to a dozen runs. The examples are independent of each other,
so that they share two runs (`MCExamples` for the modules that need no fairness,
`MCServed` for those that do), and each module states what its run checks as
one invariant, a conjunction of named parts (`DiskSafe`, `RingSafe`, ...).

Theorems planned after the present ones: the bounds of the ring's offsets for
every size (`RioRing`).

## 3. Modules

### `RocketIO` - life cycle of `rocketIO.c`

Two processes. The *loader* (`pc`, `num`, `dev`) is insmod or rmmod; `num` is
the `i` of `rocketIO_init_module`'s loop, or which of the two interfaces or
buffers the cleanup has come to. The *configurator* (`ifpc`, `ifnum`) is
whoever holds the RTNL in `ndo_open` or `ndo_stop`. Between any two calls of
the kernel the other process may run.

Memory is a set of `Blocks`; `heap` says what each is in use for. A pointer
keeps its value after `kfree`, as in the code, so that a dangling one may come
to designate another block's new owner: that is how a double free or a stale
read shows, in `fault`. Every allocation has a successful and a failing
outcome.

| Action | Code |
|---|---|
| `Insmod`, `InitAddr`, `AllocNetdev`, `RegisterNetdev`, `SetBaseAddr` | `rocketIO_init_module`, `IN_init_addr`, `IN_register_netdev`, `IN_rocketIO_init` |
| `Rmmod`, `CleanupUnregister`, `CleanupFreeNetdev`, `CleanupAddr` | `rocketIO_cleanup`; `Unregister` is the kernel's `unregister_netdev`, which closes an interface that is up |
| `IfconfigUp`, `OpenAllocRing`, `OpenCopyAddr`, `OpenStartQueue` | `op_rio_open`, with `IN_alloc_ring` and `IN_init_ring` |
| `IfconfigDown`, `ReleaseFreeRing`, `ReleaseStopQueue` | `op_rio_release` |

`RioService` is the contract: interfaces appear in order while the module is
being loaded, are opened and closed one at a time while they exist, hold a ring
only between an open and the matching release, and nothing is left when the
module is out.

### `OldRocketIO` - data path of `old_rocketIO.c`

A thread is `Xmit(d)` or `Irq(d)`. The steps of `start_xmit` and of
`rocketIO_interrupt` are cut where another thread can see or change what they
use; in loopback the thread of `start_xmit` runs the interrupt routine itself,
for the peer and then for its own device. `MayRun` says who may run: on the
board's one processor a thread runs until it returns, but an interrupt preempts
a transmission, and both preempt `rocketIO_open`. That one is cut at each store
the others can see (`opening`: `OpenRequestIrq`, `SetBufLen`, `AllocRing`,
`ClearFull`, `ClearCurTx`, `ClearDirtyTx`, `ClearSkbuffs`, `StartQueue`), as its
interrupt is live from line 431 on. An interrupt between the two stores of line
411 finds `cur_tx` at 0 and `dirty_tx` not yet: the unsigned difference wraps, it
frees what is pending and then stops the kernel at the first empty descriptor
(`fault = "null_skb"`).

`priv` has the fields of `struct rio_priv`, except that the receive ring is
represented by what lies at `cur_rx`, the only place that is read or written:
a packet, or junk. Packets are `Short` (refused), `Small` or `Big` (their
length does not fit in the byte the receiver reads; `char` is unsigned on the
PowerPC). `own` says who must free each. `statusword`, which the code does not
assign with real hardware, has any value there. The hardware is `RaiseIrq`; what
it has sent is not modelled, as no code looks at it.

`RioChannel` is the contract of the two simulated interfaces: a FIFO that may
drop a packet, but counts it, and that delivers it whole unless it is big.

### `GpioXup` - `xps_GPIO_XUP.c`

The *loader* (`pc`) is insmod, with the probe of the one device, or rmmod, with
its removal; each `f \in Files` is a process that has opened the device
(`fpc`), and the interrupt runs at any point, uninterrupted. `held` is what the
module has taken from the kernel: a probe takes as much of it as its failures
allow, and a removal gives it back in the order of `gpio_xup_teardown`.
`PlatformRegister` is the second registration: when it fails (`failed`,
`err_plat`) the device is removed under whoever has opened it since the probe.
The removal then runs with those files open, and a file whose device has been
freed is an `orphan`, of which any further use is a fault (`Stray`). `gie`
and `ier` are the two registers that arm the interrupt. A blocking read is cut
where the interrupt can come in between: `ReadArm`, `ReadSleep`, `Signal` or
the handler's `WakeUp`, `ReadClear`, `ReadData`. `fault` tells an access
through the mapping after `iounmap` (`unmapped`) from one through a mapping that
`ioremap` never made (`null_mapping`).

### `ScullPipe` - `examples_ldd/scull/pipe.c`

Each process opens the device for reading or for writing. What it does with the
semaphore down (`Open`, `Release`, `Move`, `Fault`) is one step that ends with
the `up`; the `down`, `prepare_to_wait`, the test after it, the sleep and the
wake-up are steps of their own, and a signal may end any wait. `queue` holds
the processes of both wait queues, `rp` and `wp` are offsets in `contents`. A
byte that nobody wrote is `Junk`, so that reading one shows. The two tests made
without the semaphore could see a pointer between its addition and its wrap;
they would then only go for the semaphore and test again, and the model leaves
that out. `ScullStream` is the contract: a bounded FIFO of bytes that an open
or the last close may empty.

### `VgaOut` - `xps_VGA_out.c`

The loader (`pc`) is `vga_out_init` with the probe, or the removal and
`vga_out_exit`; `held` is what the module has taken and not given back. Another
driver (`Other`) claims and frees the same region. Each failure is an outcome:
the steps whose result the code ignores (`request_mem_region`, `ioremap`,
`request_irq`, `cdev_add`) go on, the others give up. `PlatformRegister` is the
second registration: when it fails the device is removed under whoever has
opened it. `fault` says what stopped the kernel.

### `ScullData`, `ScullMem` - `scull/main.c`

`ScullData` is how the bytes lie: items, arrays of `qset` pointers, quanta.
`ScullMem` has the operations of one device. A read or a write first copies the
geometry (`BeginRead`, `BeginWrite`), then does the rest with the semaphore
down (`Read`, `Write`, `WriteFails`); in between an `Open` may trim the device,
which then has another geometry, and `Mix` records that the old one is used.
Memory may run out after any of the items and arrays that a write allocates.
`ScullFile` is the contract: a file that a write changes only where it is told
to, and a failed write spoils by a quantum at most.

### `ScullAccess` - `scull/access.c`

A process opens one of the four devices; `device` says which, as they share no
state. What a spinlock covers is a step, except that the `kmalloc` of
scullpriv may sleep under it (`Lookup`, `Clone`). The sleep of scullwuid is cut
as `wait_event_interruptible` is: `WuidWait`, `Prepare`, `Test`, `Awake`,
`Interrupted`; `Wake` is the wake-up that `Release` makes after it has dropped
the lock. `mine` counts from the tail of `clones`, where nothing moves.

### `ScullLoad` - loading of scull

One action per function (`scull_init_module` is cut at the calls that fail
differently). `misuse` records the cdevs that `cdev_del` is given in a state
in which they are not initialised, or were put.

### `ScullPage` - `scullp/main.c`, `scullp/mmap.c`

Positions count pages. `items` has the order of each item, which
`scullp_follow` leaves at 0, and the slots that have a block. `Mmap`, `VmaOpen`
(a fork), `VmaClose` and `Nopage` keep `maps`, the pages a process has mapped;
`Trim` refuses while `vmas` is positive. An asynchronous call leaves `pc` at
`queued` until `DeferredOp`. What corrupts memory (`Corrupt`, `Overrun`) stops
the model in `broken`.

### `ScullSlab` - `scullc/main.c`

As `ScullPage`, with objects of a cache made by `CreateCache`, after the devices
can already be opened (`ScullcInit`), in the size that `scullc_quantum` has then;
`Ioctl` may change it later. `Wrong` says what a write over an object is.

### `Snull` - `snull/snull.c`

The state of each interface is a record of `net`; the functions of snull are
operators on `net`, composed as the code composes them: `snull_tx` calls
`HwTx`, which calls the interrupt routine of the receiver and then that of the
sender, each of which may release a buffer of the other. On one processor that
is one step. The poll is cut where `netif_receive_skb` may make the stack send
(`PollTake`, `PollRelease`, `PollDone`). A pool may have got fewer buffers than
it asked for; the end of a transmission may be lost (`lockup`).

### `ShortRing`, `ShortLoad` - `short/short.c`

`ShortRing`: an index counts lines of text. Handlers are steps, the bottom half
(`BhSave`, `BhReset`, `BhReport`, `BhWake`) and `short_i_read` (`Begin` to
`Copy`) are cut where an interrupt can come. `overrun` and `raced` say when the
rings, which nothing protects, have been full or had two readers, after which
no promise is made. `ShortLoad`: `short_init` and `short_cleanup` for all
combinations of parameters, with both ways of probing for the line.

### `ShortPrint` - `shortprint/shortprint.c`

`phase` is how far the load or the cleanup has come. The device can be opened
from `register_chrdev` on (`ShortpInit`), before the pages and the semaphore
(`InitPages`), the timer (`InitOutput`), the work queue (`InitQueue`) and the
interrupt (`InitIrq`) are there; neither allocation is tested (`lacks`), and a
`request_irq` that fails makes the cleanup run under whoever has opened. The
cleanup is cut around `flush_workqueue`: `CleanupIrq`, `CleanupTimer`,
`CleanupFlush`, `CleanupPages`. `unregister_chrdev` goes with `CleanupTimer`: what
a writer can do between the two it can as well do before both. The writers hold
`shortp_out_sem` while they sleep; `Move` and `StartOutput` are cut because the
work can run in between. `DoWork` sends one byte or ends the output, under the
spinlock; `Interrupt` and `Timeout` queue it. `Waiting`, the bytes from tail to
head, implements `ScullStream`. `cut` says that a signal ended the wait of the
last close for the output. `Fault` is what stops the machine: a writer, the work,
the timer or the flush that uses what is not there yet, was not allocated or is
gone, among them the timer that fires when the module has been freed.

### `Sbull`, `UsbSkel`, `TinyTty`

`Sbull` is one disk: `SetupDevice` with its failures, requests a sector at a
time (`Transfer`) under the queue's lock or under none, the open and the media
change cut where the timer may run. `UsbSkel` counts references (`kref`), and
cuts a read around the bulk message and its copy; `Shutdown` is the USB core's
end of all transfers, `Disconnect` and `DisconnectPut` the driver's part.
`TinyTty` cuts an open and a close where they may sleep, which gives up the big
kernel lock: in `kmalloc` and in `down`. `overlapped` says when that has let
two of them cross.

### The MC modules

`MCRocketIO`, `MCOldRocketIO` and `MCGpioXup` define the symmetry sets for TLC:
blocks, packets of the same kind, and files are interchangeable. Runs that check
liveness do not use symmetry. `MCScullPipe` is the pipe itself. `MCExamples` and
`Served` each instantiate several modules on disjoint variables; `loaded`, chosen initially, says which one takes steps, so
that the states of a run are the sum of those of its modules and not their
product, and no interaction is claimed. Both state the assumptions that the
proofs of their modules need, which TLC evaluates with the values of the run;
`MCServed` adds to `Served` the values of its function constants.

## 4. Runs

| Run | Checks | Shows |
|---|---|---|
| `safety` | `NoMemoryFault` `NoLeak` `MacMatches` `ImplementsService` | both interfaces, any failure and any interleaving: no leak, no fault; the module implements its contract |
| `single` | `IInv` `LoadEnds` `UnloadEnds` | the build without `SIMULE`: the inductive invariant; insmod and rmmod end |
| `loop` | `TypeOK` `CompletedIsFreed` `ImplementsChannel` `HandlersReturn` | loopback on one processor: nothing is lost, duplicated, reordered or leaked, and `start_xmit` returns |
| `hw` | `NoDoubleFree` `PendingAreOwned` `FullIsFull` `HandlersReturn` | interrupts at any line of `start_xmit` and of open: descriptors, ownership and `tx_full` agree but while open is at lines 410-411, and the handlers return |
| `gpio` | `IInv` `NoStaleAccess` `QuietAfterReset` `NoLeak` `ArmedSleeperWakes` | registers are mapped whenever they are used, and nobody is left after their reset, unless the second registration has failed; removal gives back what the probe took; a reader asleep with the interrupt armed is woken |
| `pipe` | `PipeSafe` `ImplementsStream` `ReadersServed` | readers and a writer in any order: no byte is lost, doubled or reordered; the buffer is there while the pipe is open; a sleeper who could go on is about to be woken |
| `examples` | `LoadSafe` `PagesSafe` `SlabSafe` `RingSafe` `ShortSafe` `DiskSafe` `UsbSafe` `TtySafe` `VgaSafe` `ImplementsFile` | nine drivers, one invariant each, with every failure and interleaving of section 3; a scull device is a file |
| `served` | `AccessSafe` `PacketsSafe` `PrintSafe` `WaiterWakes` `PoolRefills` `ImplementsPrinter` `WriterServed` | access control, snull and shortprint: their safety, and that who waits is served in the end |

Four runs show where the code departs from what its comments say; each checks
one property and finds a counterexample:

| Run | Property | What the code does |
|---|---|---|
| `ring` | `UpHasRing` | `op_rio_open` ignores the `-ENOMEM` of `IN_alloc_ring` |
| `wait` | `WaitsOnlyIfFull` | an interrupt between the second test and `netif_stop_tx_queue` leaves the queue stopped for good |
| `overrun` | `DescriptorInRange` | `dirty_tx` indexes `tx_skbuff` without the modulo: the fifth packet is past its end |
| `armed` | `SleepersArmed` | an interrupt between the arming and the sleep is lost, and so is its wake-up |

Other departures were seen while modelling, and need no run: `IN_register_netdev`
tests `dev` after `register_netdev` has used it (the fault `null_deref`); in
loopback nothing resumes the queue that `start_xmit` pauses, so that an
interface takes one packet each time it is opened; the interrupt routine frees
packets whether or not the hardware has sent them; a packet of 256 bytes or
more is delivered cut (`RioChannel!Delivery`); an open of the scull pipe
empties it and does not wake a writer that sleeps because it was full
(`NobodyStranded` says so); a GPIO read that a signal ends
returns with the interrupt armed; a GPIO load whose second registration fails
removes the device under its open files (`NoStaleAccess` and `QuietAfterReset`
except it); an interrupt between the two stores of line 411 of `old_rocketIO.c`
stops the kernel when an interface is reopened with packets pending
(`PendingAreOwned` excepts that place, `FullIsFull` that and line 410).

In the examples the properties say where the guarantees end, each with the
condition under which the code goes wrong: a geometry read before the semaphore
is taken (`mixed`); blocks of one page written as if they were of `scullp_order`
(`OverrunsPastFirstItem`); objects smaller than the quantum after an ioctl
(`ObjectsLargeEnough`), and a write before the cache is there
(`NoCacheWhileLoading`); cdevs of access.c that are deleted without having been
initialised (`UndoesWhatWasDone`); a tasklet that the cleanup disables and does
not kill (`BottomHalfLeft`); an empty pool that an open or a timeout starts
(`EmptyPoolNotSent`), a packet the timeout frees again (`SkbFreedOnce`), and an
interface whose interrupts stay disabled after one that came while it was
closed (`NothingStranded`); a timer of shortprint that is set while the output
is not active (`TimerOnlyWhileActive`); the same timer left floating around,
against the comment at `shortprint.c:507`, when the work sets it again after the
cleanup has stopped it, which takes a last close that a signal cut short or a
load that failed under an open file (`TimerLeft`); what shortprint uses before it
is there, without looking whether it was allocated, or after such a cleanup
(`FaultsExplained`); the data of
an sbull device that is freed in the set-up and at the exit (`UnloadedIsGone`);
a USB read that finds another's data in the one buffer (`ReadsItsOwn`) and the
error path of its write, which uses a null urb or frees a buffer twice (fault in
`WriteError`); a close of tiny_tty that is lost beside an open
(`TimerWhileOpen`), and the `del_timer` of a timer that was never allocated
(fault `no timer`); the device of the VGA driver that is removed under an open
file when the second registration fails (`FilesKeepDevice`).

### Bounds, and why they are enough

* `Blocks`: two address buffers, two `net_device`s and two rings are the most
  that is ever allocated, so six blocks let every allocation succeed and still
  allow any to fail. `single`, with one interface, needs four.
* `MaxOpens`, `MaxIrqs`: opens per run and interrupts per run. Four opens in
  `loop` reach a reopened interface on each side; two in `hw` reach a reopen
  with packets in flight. Two interrupts are one inside `start_xmit` and one
  after it.
* Packets: in loopback the queue takes one packet per open, so three packets, one
  of them big, and a short one exhaust what four opens can send. With hardware
  four packets fill the descriptors; a fifth is what `overrun` needs, after
  which the driver has crashed.
* `Files`: three openers of the GPIO device: one that closes it, one that sleeps
  and one that is about to.
* The pipe: two readers, so that one may find empty what woke it, and one
  writer; `Size` 3 gives a buffer of two bytes that are read and written one or
  two at a time, and wrap; two values of a byte, so that an exchange shows.
* `Width`, the width of the counters, is smaller than the machine's: the
  counters stay below six in every run, and only their difference is used.
* scull: two processes, as a mix-up needs one that has read the geometry and one
  that trims; positions up to 3 with quanta of 2 and arrays of 1 or 2 reach a
  second quantum, a second item and a hole. scullp: orders 0 and 1 are a page
  and a block; a mapping, its copy and a third call need no third process.
  scullc: quanta 1 and 2 are the cache's size and one above or below.
* Loading: two cdevs per part, so that one of them may fail to be added.
* `ShortRing`: three lines and two times both wrap and overflow; two readers may
  be past the wait together; one interrupt between two runs of the bottom half
  besides the one that scheduled it is what makes a spurious run.
* `ShortLoad`: two lines to try, two rounds; two lines make a probe ambiguous.
* `Sbull`: two sectors are the least that two requests can interleave on.
* `UsbSkel`: two files and one urb; `TinyTty`: three processes, two of which
  open while one closes, and two ports for the two first opens that cross.
* `ScullAccess`: three processes, one of which has become the first user and one
  of which has `CAP_DAC_OVERRIDE`.
* `Snull`: pools of no buffer or of two, the least that empties in two steps.
* `ShortPrint`: a page of three bytes, with room for two: the first byte that is
  sent from a full buffer brings the room above "half the page" and wakes the
  writer, the last one does not; writes of one or two bytes, which wrap and are
  cut where the buffer is full; two writers. A module that
  has left its timer or an open file behind is not loaded again.

### Fairness

`RocketIO!Fairness` is strong fairness of the loader and weak fairness of the
handlers: a kernel call that has begun runs on, and the loader, which waits for
the RTNL, is served although others keep taking it (mutexes queue their waiters
in order). Nothing obliges anyone to call insmod, rmmod or ifconfig.
`OldRocketIO!Fairness` is weak fairness of each handler that has begun; neither
sleeps. Interrupts are not fair: they need never come.
`ScullPipe!Fairness` is weak fairness of a call that has begun, and strong
fairness of a `down` that follows a wait: semaphores too serve their waiters in
order. Nobody has to call or to close.
`GpioXup!FairSpec`, about a reader that waits for a change of the inputs, is
the exception: it supposes that the inputs go on changing.
`ScullAccess!Fairness` is weak fairness of a call that has begun.
`Snull!Fairness` obliges the softirq to go on with a poll and to poll the
interfaces that are scheduled in turn (`net_rx_action`); the watchdog, which
would hide a lost wake-up, is not fair.
`ShortPrint!Fairness` obliges the work function to go on, be it into a fault, and
a writer that has filled the buffer to start the output, and supposes that the
printer is not busy for ever when its timer runs; no interrupt need come. None
of them obliges a process to call, to close, or to be signalled. `MCServed!Spec` is the
conjunction: each concerns variables of its own module, and is met at once while
another module is loaded.

## 5. Proofs

`RocketIOProofs` proves `Spec => []IInv` and from it each invariant of `safety`,
`TypeOK`, and three more that no run needs to repeat (`RingAccounting`,
`TxBufsInRing`, `RegisteredIsLive`);
`RocketIORefines` proves `Spec => ImplementsService`. All of it holds for every
set of `Blocks`, `NULL` not among them (`NullAssumption`), and `loopback` 0 or 1
(`LoopbackAssumption`).

The invariants of `safety` are not inductive: `NoLeak` says nothing before the
module is out, and `NoMemoryFault` nothing of the frees to come. `IInv` says at
each point of both processes which pointers are *live*, although the code
resets none of them:

* `AddrLive`, `DevLive`, `RingLive`: a pointer is live from its allocation
  until the loader, or the release, has passed the place that frees it;
* `LiveInv`: a live pointer designates a block of its kind, and no two live
  pointers the same (no double free, no stale read);
* `HeapInv`: a block in use has a live pointer (no leak: at `pc = "out"` no
  pointer is live);
* `LoadInv`: how far the loader has come determines what is allocated and
  registered;
* `NetInv`: the kernel has an interface exactly while `dev_is_registered` says
  so and the cleanup has not passed it; only such an interface is up or being
  changed. This is what keeps ifconfig away from freed memory.

The proof that steps preserve `RocketIO!IInv` has one lemma per action, and in
each one step per conjunct. The refinement has one lemma per action too, which names the
contract's step it maps to; `KnownInterface` (an interface the kernel knows is
alive, so the module holds memory) is the fact most of them need.

`GpioXupProofs` proves `Spec => []IInv` of `GpioXup`, for every set of `Files`
and every device (`DeviceAssumption`), and from it the other three invariants of
the run `gpio`. There `IInv` says what may be held at each point of the loader
(`HeldInv`) and that a file is open only while the registers are mapped and no
removal has begun, or in the removal that a failed second registration starts
(`FileInv`): the use count of the module, `InUse`, is what both rest on. The
theorems except that removal, in which the code does use what is gone.

`VgaOutProofs` proves `Spec => []IInv` of `VgaOut`, for every set of `Files`, and
from it `VgaSafe`, which `examples` checks. The parts of `VgaSafe` are not
inductive: that the interrupt is enabled only while it is handled needs that the
reset of the removal comes before the unmapping (`EnabledInv`), that a file
keeps its device needs that, unless a registration failed, a removal begins with
nobody in and with the way in closed (`FileInv`, from `InUse` and `going`), and
both need what is held at each point of the load and of the removal
(`HeldInv`, `MappedInv`). `RegionInv` follows who has the registers from the check
to the release.

`OldRocketIOProofs` proves `Spec => []IInv` of `OldRocketIO`, for any sets of
packets and any bounds on opens and interrupts (`ModeAssumption`,
`PacketAssumption`, `BoundAssumption`, and `MarkAssumption`: a packet is none of
the marks that stand for an empty place), and from it `TypeOK` and `NoDoubleFree`
in both modes. The rest is per mode, as the two have different hardware.

* With hardware (`loopback = 0`): `PendingAreOwned` and `FullIsFull`. An interrupt
  may free descriptors between any two lines of `start_xmit` and of open, so
  `WindowInv` says that those in use run from where the interrupt has got to
  (`First`) to `cur_tx` and are at most four, but between the two stores of line
  411, `PendingInv` that they hold different packets of the driver,
  `PostInv` what `start_xmit` remembers of its entry meanwhile, and `FullInv` when
  `tx_full` may be wrong: between the two tests of `cur_tx - dirty_tx`, and while
  open resets the flag and the counters.
* In loopback (`loopback = 1`): `CompletedIsFreed` and `ImplementsChannel`.
  `RingInv` says that nothing but the last descriptor holds a packet between two
  calls, `IsrInv` that each simulated interrupt carries the one event it was raised
  for, `SentInv` that what was accepted is freed and `SettledInv` that it is received
  or dropped, but for the packet in progress. `LoopbackChannel` maps `Accept`,
  `Deliver` and `Drop` to the steps of `RioChannel`; every other step stutters.

`ScullPipeProofs` proves `PipeSafe` for any finite sets of readers and writers and
any buffer of at least two bytes (`ProcessAssumption`, `SizeAssumption`). `IInv` adds
that the semaphore is down for the one process that is in a section (`SemInv`), that the
counts of readers and writers are exact (`CountInv`, from lemmas on the cardinality
of a set that gains or loses a process), and that what lies between `rp` and `wp` was
written (`WindowInv`, which needs the two to be compared with and without the wrap).
`PipeIsStream` proves `Spec => ImplementsStream`: a read takes from the front of the
pipe, a write appends, whatever the pointers do at the end of the buffer.

`ExamplesProofs` is about `MCExamples`. Each driver has an `IInv` of its own in its
module, preserved by its own steps; the steps of the others leave its state alone
(`LoadAlone`, `DiskAlone`, ...), and a theorem per driver puts the two together. The
sets of processes, users and files are any finite sets (`Cardinality` counts them),
sizes and bounds any numbers of their range, as the assumptions of `MCExamples`
say. What the invariants add to the properties:

* `ScullLoad!IInv`: what each of the three parts holds at each point of the load and
  of the cleanup, which is what a failure has to undo.
* `ScullPage!IInv`: the first item has the order of the trim and what is mapped
  keeps that order at 0. `ScullSlab!IInv`: trim reaches every object
  (`TrimReaches`), and until ioctl raises the quantum both quanta fit the cache
  (`Fits`).
* `ShortRing!IInv`: which places of a ring are unread (`TextInv`, `TimesInv`), by
  `Between`, with and without the wrap. `ShortLoad!IInv`: the handler installed is
  the one the parameters ask for.
* `Sbull!IInv`: the disk goes with the module (`PhaseInv`), the users are counted
  and the timer is pending only without any (`UsersInv`), and under the lock a
  request is served from its first sector to its last (`RequestInv`).
* `UsbSkel!IInv`: the interface has its data from the probe to the disconnection,
  and whoever reads alone has the buffer. `TinyTty!IInv`: one process at a time is
  busy with the port, and how often it is open (`OnePortInv`), as long as nothing
  has overlapped.
* `VgaSafe` is the theorem of `VgaOutProofs`, for the instance in `MCExamples`.

`MemIsFile` proves `Spec => ImplementsFile`, for every quantum, qset, number of
positions and alphabet of bytes. The default geometry is one that ioctl may set
(`MemDefaultAssumption`) and there is a greatest quantum (`QuantaAssumption`; it is
an int). `ScullMem!IInv` says that the list is laid out for the geometry of the device
(`DevInv`) and that nothing was left past its end (`HoleInv`), without which the hole
that a later write leaves would show old bytes. The argument: item, pointer and
offset determine a position (`MemPlaces` and `MemNeighbours`, from lemmas on
division); following the list, a new array and a new quantum leave every byte as it
is (`MemFollows`, `MemArrayed`, `MemQuantumed`); a store changes the bytes it is
for and no other (`MemStores`); so a write is a `Put`, one that fails a `Spoil`, an open for
writing a `Truncate`, and all else a stutter.

`ServedProofs` does the same for `Served`: any finite set of processes, any users,
writers, pool sizes and size of the page (`ProcsAssumption`, `UsersAssumption`,
`SizesAssumption`). `ScullAccess!IInv` adds which waits belong to which device (`Labels`)
and that a terminal's clone stays in the list while it is open (`InTheList`);
`Snull!IInv` what the interrupts may find at each line (`Sound`) and what they restore
(`Received`: received packets are taken at once, or by a poll that is scheduled);
`ShortPrint!IInv` that an active output is driven by the timer, the queue or a wait
until the cleanup (`DrivenInv`), that it is active with all files closed only after
a cut close (`ClosedInv`), that no output starts before there is a work queue
(`LoadInv`) and that a byte sent early has a writer about to start the output
(`EarlyInv`).

Some theorems end where the code does what it should not, and their comments say
so: `LoadSafeHolds` says nothing of the cdevs of access.c, which its cleanup
deletes whether or not they were set up; `PacketsSafeHolds` nothing of a packet
that the timeout frees again, nor of what is received once an interrupt during a
close has disabled the interrupts for good; `PrintSafeHolds` leaves the timer and the
faults of `TimerLeft` and `FaultsExplained`.
`PrinterIsStream` proves `Spec => ImplementsPrinter`: the buffer is a `ScullStream`,
and no byte is lost or doubled where it wraps.

The theorems about safety hold of `Spec`, so without fairness. Every invariant of
a passing run and every refinement is proved.

## 6. Only model-checked, and not modelled

* Liveness (`LoadEnds`, `UnloadEnds`, `HandlersReturn`, `ArmedSleeperWakes`,
  `ReadersServed`, `WaiterWakes`, `PoolRefills`, `WriterServed`) rests on TLC:
  fairness and ENABLED are out of the prover's reach.
* That nothing is stuck rests on TLC too, in the runs `pipe`, `examples` and
  `served`; in the others the system may stop where a bound is reached, a driver
  has crashed or a load has failed for good.
* Hazards that no property, or only an excepted case, covers are listed in
  `PROJECT.json` with the reason: the lost wake-up of a GPIO reader shows in the
  run `armed` alone (`ArmedSleeperWakes` is about a sleeper who is still armed);
  a release of the VGA device that disables the interrupt of other files
  (`xps_VGA_out.c:159`); the trim of an open of access.c under another's read
  (`access.c:63`); the timeout and the late interrupt of snull (`snull.c:540`);
  the error path of a USB write and its shared read buffer; the opens of tiny_tty
  that overlap or find no memory for the timer.
* The inductive invariants other than those of `RocketIO` and `GpioXup` are not in a
  run: the theorems imply what the runs check of them.
* Several processors: the board has one, and the models say where that is used
  (interrupts and softirqs preempt processes and work, and not each other). On
  two, an event that `start_xmit` of the old driver writes to the peer's `status`
  could overwrite another.
* The kernel's part is external to the repository and modelled from how the code
  uses it: the module's use count keeps rmmod out while a file is open, the RTNL
  and the big kernel lock serialise what the code relies on, `flush_scheduled_work`
  waits, a signal may end an interruptible wait.

Not modelled:

* rocketIO: statistics other than `rx_dropped`, MAC and IP header contents,
  logging, `ioctl`, the IRQ registration that `rocketIO.c` has commented out. The
  stubs of `rocketIO.c` (`op_rio_start_xmit`, `rocketIO_interrupt`, `op_rio_rx`,
  `op_rio_tx_timeout`) change no state; the transmission stub accepts a packet
  and never frees it. `rocketIO_ao.c` is an abandoned form of the same driver.
* Old driver: its loading; the size of the receive ring and where in it a packet
  lies (planned, `RioRing`).
* GPIO and VGA: several devices and their numbering, and what is read from the
  device tree.
* scull: `llseek` (a call may be at any position), the queries of `ioctl`,
  `/proc`, `poll` and `fasync`, a pipe that is opened for both reading and
  writing, and the trim that the opens of access.c make without the semaphore.
  scullp and scullc: what their pages hold; a load of scullp that fails.
* scullv, sculld and lddbus: the code of scullp again, over `vmalloc` and over a
  bus whose locking is the driver core's.
* snull: packet headers, counters, `config`, `change_mtu`, a load that fails.
  short: direct port input and output, which keeps no state. shortprint: its
  read side, a ring like that of `ShortRing`. sbull: its `ioctl`. tiny_tty: the
  settings of termios and of the modem lines, and `tiny_serial.c`, the same driver
  for another layer.
* misc-modules, pci, simple, skull: demonstrations of one kernel call each; user
  programs and scripts.
