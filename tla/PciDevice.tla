------------------------------ MODULE PciDevice ------------------------------
(***************************************************************************)
(* A PciDevice of the library (pci.c, pci_inc.c, bar.c, bar_inc.c): the    *)
(* lazy decoding of its BARs from the configuration space, the lazy        *)
(* creation of Bar objects, the interrupt thread that PciDevice_registerISR *)
(* spawns and PciDevice_killISR cancels, and PciDevice_delete tearing it   *)
(* all down.  The device raises level-triggered INTx interrupts; the       *)
(* kernel handler of uio_pci_dma masks them and wakes the reader of the    *)
(* uio device file.                                                        *)
(*                                                                         *)
(* The application thread ("app") and the interrupt thread ("isr") run     *)
(* concurrently; every system call of the interrupt thread is a step.      *)
(***************************************************************************)
EXTENDS Integers, FiniteSets

CONSTANTS
    MaxBars,     \* PDA_MAX_PCI_32_BARS, the BARs of a configuration header
    Headers,     \* configuration headers: functions 0..MaxBars-1 -> BAR word
    MaxRaises    \* interrupts the device raises

BarIdx == 0..(MaxBars - 1)

ASSUME \A h \in Headers : DOMAIN h = BarIdx

Types == {"NOT_MAPPED", "IO", "BAR32", "BAR64"}

VARIABLES
    header,      \* the configuration space the device presents
    bar_init,    \* device->bar_init
    bar_types,   \* device->bar_types
    bar,         \* device->bar[n]: NoBar or the physical address it maps
    bar_res,     \* per BAR, the bar file fd and mapping the process holds
    cfg_fd,      \* workp.uio_config_fd is open
    interrupt,   \* device->interrupt != NULL
    isr_init,    \* device->isr_init
    dev_fd,      \* workp.uio_device_fd is open
    device,      \* the PciDevice object: "live" or "freed"
    app,         \* where the application thread is
    isr,         \* where the interrupt thread is ("none" before pthread_create)
    cancel,      \* a cancellation request for the interrupt thread is pending
    command_intx,\* the INTx-disable bit of command_high, as the thread writes it
    intx_disabled, \* PCI_COMMAND_INTX_DISABLE in the device's command register
    asserted,    \* the device asserts its interrupt (PCI_STATUS_INTERRUPT)
    event,       \* the uio event count differs from the reader's count
    undelivered, \* an interrupt was raised and no callback has run since
    raises       \* interrupts raised so far

vars == <<header, bar_init, bar_types, bar, bar_res, cfg_fd, interrupt, isr_init, dev_fd,
          device, app, isr, cancel, command_intx, intx_disabled, asserted, event,
          undelivered, raises>>

NoBar == [lo |-> -1, hi |-> -1]

-----------------------------------------------------------------------------
(* BAR decoding.  A BAR word is a 32-bit value; bit 0 tells I/O from      *)
(* memory and bits 2:1 (mask 0x6) give the width of a memory BAR.         *)

(* Mutant: the width taken from bits 1:0 instead of 2:1.                 *)
Width_off(v) == v % 4

Width(v) == (v \div 2) % 4

(* PciDevice_classify_bars: the loop over the BARs, skipping the upper    *)
(* half of a 64-bit BAR (i++), failing on a width it does not know.       *)
RECURSIVE Classify(_, _, _)
Classify(w, i, t) ==
    IF i >= MaxBars THEN [ok |-> TRUE, types |-> t]
    ELSE IF w[i] = 0 THEN Classify(w, i + 1, [t EXCEPT ![i] = "NOT_MAPPED"])
    ELSE IF w[i] % 2 = 1 THEN Classify(w, i + 1, [t EXCEPT ![i] = "IO"])
    ELSE IF Width(w[i]) = 0 THEN Classify(w, i + 1, [t EXCEPT ![i] = "BAR32"])
    ELSE IF Width(w[i]) = 2
         THEN Classify(w, i + 2, [t EXCEPT ![i] = "BAR64", ![i + 1] = "NOT_MAPPED"])
    ELSE [ok |-> FALSE, types |-> [t EXCEPT ![i] = "NOT_MAPPED"]]

(* What libpci reports as base_addr[i]: the BAR word, and 0 for the upper *)
(* half of a 64-bit BAR (libpci folds it into the lower one).             *)
RECURSIVE UpperHalf(_, _)
UpperHalf(w, i) == i > 0 /\ w[i - 1] % 8 = 4 /\ ~UpperHalf(w, i - 1)

LibpciBase(w, i) == IF UpperHalf(w, i) THEN 0 ELSE w[i]

(* PciDevice_invoke_libpci: every BAR is classified again from libpci's   *)
(* base address and an inconsistent type is corrected.                    *)
RECURSIVE LibpciPass(_, _, _)
LibpciPass(w, i, t) ==
    IF i >= MaxBars THEN t
    ELSE LET b == LibpciBase(w, i) IN
         LibpciPass(w, i + 1,
            IF b = 0 THEN [t EXCEPT ![i] = "NOT_MAPPED"]
            ELSE IF b % 2 = 1 THEN [t EXCEPT ![i] = "IO"]
            ELSE IF Width(b) = 0 THEN [t EXCEPT ![i] = "BAR32"]
            ELSE IF Width(b) = 2 /\ t[i] # "BAR64"
                 THEN [t EXCEPT ![i] = "BAR64", ![i + 1] = "NOT_MAPPED"]
            ELSE t)

(* PciDevice_init_bars, its outcomes: unless done already, open and read  *)
(* the config file (either may fail; a failed read keeps the fd open),    *)
(* classify, then correct through libpci.                                  *)
InitBarsOutcomes ==
    IF bar_init THEN {[ok |-> TRUE, types |-> bar_types, fd |-> cfg_fd]}
    ELSE LET c == Classify(header, 0, bar_types) IN
         {[ok |-> FALSE, types |-> bar_types, fd |-> FALSE],
          [ok |-> FALSE, types |-> bar_types, fd |-> TRUE],
          [ok |-> c.ok,
           types |-> IF c.ok THEN LibpciPass(header, 0, c.types) ELSE c.types,
           fd |-> TRUE]}

(* A Bar is kept as the physical address it maps, as low and high word.  *)
(* PciDevice_getBar: the physical address, Bar[n] & 0xFFFFFFF0 and for a  *)
(* 64-bit BAR the next word as the high half.                              *)
BarAddress(w, t, n) ==
    [lo |-> w[n] - (w[n] % 16), hi |-> IF t[n] = "BAR64" THEN w[n + 1] ELSE 0]

(* pda_spinOpen: open() retried with a growing sleep; what the caller     *)
(* sees is an fd or -1 once the spins are used up.                         *)
pda_spinOpen == BOOLEAN

(* The kernel side of mmap on a bar file, bar_mmap of uio_pci_dma: finds  *)
(* the BAR of the attribute and remap_pfn_range's its pci_resource_start; *)
(* whether that succeeds.                                                  *)
bar_mmap == BOOLEAN

(* Bar_map32 (Bar_map64 calls it): no fd is an error; mmap may fail, and  *)
(* then map is reset to NULL.                                              *)
Bar_map32(fd) ==
    IF ~fd THEN {[ok |-> FALSE, map |-> FALSE]}
    ELSE {[ok |-> m, map |-> m] : m \in bar_mmap}

(* Bar_map: nothing to map for an unused or I/O BAR, which succeeds with  *)
(* map NULL; a memory BAR is mmapped.                                      *)
Bar_map(type, fd) ==
    IF type \in {"BAR32", "BAR64"} THEN Bar_map32(fd)
    ELSE {[ok |-> TRUE, map |-> FALSE]}

(* Mutant: Bar_delete_int munmaps but never closes the bar file.           *)
Bar_delete_int_keep_fd(res) == res \ {"map"}

(* Bar_delete_int: munmap a mapping, close an fd >= 0.                     *)
Bar_delete_int(res) == res \ {"map", "fd"}

(* The end of Bar_new after Bar_map gave m on the fd (or none): the Bar,  *)
(* or Bar_delete of the half-built one and NULL.                           *)
BarMapped(address, fd, m) ==
    LET held == (IF fd THEN {"fd"} ELSE {}) \cup (IF m.map THEN {"map"} ELSE {}) IN
    IF m.ok THEN [bar |-> address, res |-> held, crash |-> FALSE]
    ELSE [bar |-> NoBar, res |-> Bar_delete_int(held), crash |-> FALSE]

(* Bar_new, its outcomes: the Bar object (NoBar for NULL), the bar file   *)
(* fd and mapping it leaves held, and whether it crashes.  A failed       *)
(* calloc of the Bar returns NULL; a failed calloc of bar->internal goes  *)
(* to exit, where Bar_delete -> Bar_delete_int reads workp.uio_fd through *)
(* the NULL internal pointer.  Otherwise spinOpen the bar file and        *)
(* Bar_map; on failure Bar_delete releases what was acquired.             *)
Bar_new(address, type) ==
    {[bar |-> NoBar, res |-> {}, crash |-> FALSE],
     [bar |-> NoBar, res |-> {}, crash |-> TRUE]}
    \cup
    UNION {{BarMapped(address, fd, m) : m \in Bar_map(type, fd)} : fd \in pda_spinOpen}

(* getBar stores what Bar_new returned in device->bar[number]; a crash    *)
(* inside Bar_new ends the process, the interrupt thread with it.          *)
NewBar(n, types) ==
    \E o \in Bar_new(BarAddress(header, types, n), types[n]) :
        /\ bar' = [bar EXCEPT ![n] = o.bar]
        /\ bar_res' = [bar_res EXCEPT ![n] = o.res]
        /\ app' = IF o.crash THEN "crashed" ELSE app
        /\ isr' = IF o.crash /\ isr # "none" THEN "exited" ELSE isr

(* Mutant: getBar without the "Register is no BAR" check.                *)
PciDevice_getBar_no_type_check(n) ==
    /\ app = "run"
    /\ \E r \in InitBarsOutcomes :
          /\ bar_types' = r.types /\ cfg_fd' = r.fd
          /\ bar_init' = (bar_init \/ r.ok)
          /\ IF r.ok /\ bar[n] = NoBar
             THEN NewBar(n, r.types)
             ELSE UNCHANGED <<bar, bar_res, app, isr>>
    /\ UNCHANGED <<header, interrupt, isr_init, dev_fd, device, cancel,
                   command_intx, intx_disabled, asserted, event, undelivered, raises>>

(* PciDevice_getBar(number): init_bars, then create the Bar object once.  *)
PciDevice_getBar(n) ==
    /\ app = "run"
    /\ \E r \in InitBarsOutcomes :
          /\ bar_types' = r.types /\ cfg_fd' = r.fd
          /\ bar_init' = (bar_init \/ r.ok)
          /\ IF r.ok /\ bar[n] = NoBar /\ r.types[n] \in {"BAR32", "BAR64"}
             THEN NewBar(n, r.types)
             ELSE UNCHANGED <<bar, bar_res, app, isr>>
    /\ UNCHANGED <<header, interrupt, isr_init, dev_fd, device, cancel,
                   command_intx, intx_disabled, asserted, event, undelivered, raises>>

(* PciDevice_getBarTypes: init_bars and nothing else.                      *)
PciDevice_getBarTypes ==
    /\ app = "run"
    /\ \E r \in InitBarsOutcomes :
          /\ bar_types' = r.types /\ cfg_fd' = r.fd
          /\ bar_init' = (bar_init \/ r.ok)
    /\ UNCHANGED <<header, bar, bar_res, interrupt, isr_init, dev_fd, device, app, isr, cancel,
                   command_intx, intx_disabled, asserted, event, undelivered, raises>>

-----------------------------------------------------------------------------
(* Interrupts.                                                             *)

(* PciDevice_isr_init after init_bars gave r: whether it succeeds, i.e.   *)
(* opendir of the uio directory and spinOpen of the uio device file work. *)
PciDevice_isr_init(r) == IF r.ok THEN BOOLEAN ELSE {FALSE}

(* PciDevice_registerISR: refuse if an ISR is set; set device->interrupt; *)
(* PciDevice_isr_init: init_bars, then open the uio device file, either   *)
(* may fail; pthread_create (may fail).  A failure returns an error with  *)
(* device->interrupt still set.  (isr_init's early return for a second    *)
(* call is never taken: device->interrupt is never reset, so a second     *)
(* registerISR stops at the first check.)                                  *)
PciDevice_registerISR ==
    /\ app = "run"
    /\ ~interrupt
    /\ interrupt' = TRUE
    /\ \E r \in InitBarsOutcomes : \E ok \in PciDevice_isr_init(r) :
          /\ bar_types' = r.types /\ cfg_fd' = r.fd
          /\ bar_init' = (bar_init \/ r.ok)
          /\ isr_init' = ok /\ dev_fd' = ok
          /\ isr' \in IF ok THEN {"start", "none"} ELSE {"none"}
    /\ UNCHANGED <<header, bar, bar_res, device, app, cancel, command_intx, intx_disabled,
                   asserted, event, undelivered, raises>>

(* PciDevice_killISR: pthread_cancel.  Cancellation is deferred: the      *)
(* thread acts on it at its next cancellation point.                       *)
PciDevice_killISR ==
    /\ app = "run"
    /\ isr # "none"
    /\ cancel' = TRUE
    /\ UNCHANGED <<header, bar_init, bar_types, bar, bar_res, cfg_fd, interrupt, isr_init, dev_fd,
                   device, app, isr, command_intx, intx_disabled, asserted, event,
                   undelivered, raises>>

(* The interrupt thread, PciDevice_isr_thread.  pread, pwrite and read    *)
(* are cancellation points: a pending cancellation ends the thread there. *)
(* Each step first reads workp (device->internal) for the fd.             *)

(* Mutant: command_high written back as read, the INTx-disable bit kept. *)
IsrStart_no_clear ==
    /\ isr = "start"
    /\ \/ /\ cancel \/ ~cfg_fd
          /\ isr' = "exited"
          /\ UNCHANGED command_intx
       \/ /\ ~cancel /\ cfg_fd
          /\ command_intx' = intx_disabled
          /\ isr' = "enable"
    /\ UNCHANGED <<header, bar_init, bar_types, bar, bar_res, cfg_fd, interrupt, isr_init, dev_fd,
                   device, app, cancel, intx_disabled, asserted, event, undelivered, raises>>

(* pread(config, &command_high, 1, 5), then command_high &= ~0x4.         *)
IsrStart ==
    /\ isr = "start"
    /\ \/ /\ cancel \/ ~cfg_fd
          /\ isr' = "exited"
          /\ UNCHANGED command_intx
       \/ /\ ~cancel /\ cfg_fd
          /\ command_intx' = FALSE
          /\ isr' = "enable"
    /\ UNCHANGED <<header, bar_init, bar_types, bar, bar_res, cfg_fd, interrupt, isr_init, dev_fd,
                   device, app, cancel, intx_disabled, asserted, event, undelivered, raises>>

(* Top of the loop: pwrite(config, &command_high, 1, 5) writes the        *)
(* INTx-disable bit back as command_high has it.                           *)
IsrEnable ==
    /\ isr = "enable"
    /\ \/ /\ cancel \/ ~cfg_fd
          /\ isr' = "exited"
          /\ UNCHANGED intx_disabled
       \/ /\ ~cancel /\ cfg_fd
          /\ intx_disabled' = command_intx
          /\ isr' = "read"
    /\ UNCHANGED <<header, bar_init, bar_types, bar, bar_res, cfg_fd, interrupt, isr_init, dev_fd,
                   device, app, cancel, command_intx, asserted, event, undelivered, raises>>

(* read(uio_device_fd, &sequence, 4): enter the blocking read.            *)
IsrRead ==
    /\ isr = "read"
    /\ isr' = IF cancel \/ ~dev_fd THEN "exited" ELSE "blocked"
    /\ UNCHANGED <<header, bar_init, bar_types, bar, bar_res, cfg_fd, interrupt, isr_init, dev_fd,
                   device, app, cancel, command_intx, intx_disabled, asserted, event,
                   undelivered, raises>>

(* Mutant: a read that is not a cancellation point.                       *)
IsrWake_not_cancellable ==
    /\ isr = "blocked"
    /\ event
    /\ event' = FALSE
    /\ isr' = "callback"
    /\ UNCHANGED <<header, bar_init, bar_types, bar, bar_res, cfg_fd, interrupt, isr_init, dev_fd,
                   device, app, cancel, command_intx, intx_disabled, asserted,
                   undelivered, raises>>

(* The read returns once the uio event count moved past the reader's, or *)
(* the thread is cancelled while blocked.                                  *)
IsrWake ==
    /\ isr = "blocked"
    /\ \/ /\ cancel
          /\ isr' = "exited"
          /\ UNCHANGED event
       \/ /\ event
          /\ event' = FALSE
          /\ isr' = "callback"
    /\ UNCHANGED <<header, bar_init, bar_types, bar, bar_res, cfg_fd, interrupt, isr_init, dev_fd,
                   device, app, cancel, command_intx, intx_disabled, asserted,
                   undelivered, raises>>

(* Mutant: after the callback the loop goes back to the read without     *)
(* re-enabling INTx.                                                       *)
IsrCallback_skip_enable ==
    /\ isr = "callback"
    /\ asserted' \in {FALSE, asserted}
    /\ undelivered' = FALSE
    /\ isr' = "read"
    /\ UNCHANGED <<header, bar_init, bar_types, bar, bar_res, cfg_fd, interrupt, isr_init, dev_fd,
                   device, app, cancel, command_intx, intx_disabled, event, raises>>

(* device->interrupt(sequence, device->interrupt_data): the application's *)
(* callback, which may or may not clear the device's interrupt condition; *)
(* then back to the top of the loop.                                       *)
IsrCallback ==
    /\ isr = "callback"
    /\ asserted' \in {FALSE, asserted}
    /\ undelivered' = FALSE
    /\ isr' = "enable"
    /\ UNCHANGED <<header, bar_init, bar_types, bar, bar_res, cfg_fd, interrupt, isr_init, dev_fd,
                   device, app, cancel, command_intx, intx_disabled, event, raises>>

IsrStep == IsrStart \/ IsrEnable \/ IsrRead \/ IsrWake \/ IsrCallback

(* pci_check_and_mask_intx, for a device whose status shows the          *)
(* interrupt: set PCI_COMMAND_INTX_DISABLE.                                *)
pci_check_and_mask_intx == intx_disabled' = TRUE

(* irqhandler with pci_check_and_mask_intx: an asserted, unmasked INTx is *)
(* masked (PCI_COMMAND_INTX_DISABLE set) and the uio core counts an event *)
(* for every open reader of the device file (the fd, or the read the      *)
(* thread is blocked in).                                                  *)
IrqHandler ==
    /\ asserted /\ ~intx_disabled
    /\ pci_check_and_mask_intx
    /\ event' = (event \/ dev_fd \/ isr = "blocked")
    /\ UNCHANGED <<header, bar_init, bar_types, bar, bar_res, cfg_fd, interrupt, isr_init, dev_fd,
                   device, app, isr, cancel, command_intx, asserted, undelivered, raises>>

(* The device raises its interrupt.                                        *)
DeviceRaise ==
    /\ raises < MaxRaises
    /\ asserted' = TRUE /\ undelivered' = TRUE
    /\ raises' = raises + 1
    /\ UNCHANGED <<header, bar_init, bar_types, bar, bar_res, cfg_fd, interrupt, isr_init, dev_fd,
                   device, app, isr, cancel, command_intx, intx_disabled, event>>

-----------------------------------------------------------------------------
(* PciDevice_delete, step by step: PciDevice_killISR if an ISR is set;    *)
(* pthread_cancel of a thread that was never created (registerISR failed  *)
(* after setting device->interrupt) is undefined: it crashes or does      *)
(* nothing.                                                                *)
PciDevice_delete ==
    /\ app = "run"
    /\ \/ /\ interrupt /\ isr # "none"
          /\ cancel' = TRUE /\ app' = "del_bars"
       \/ /\ interrupt /\ isr = "none"
          /\ app' \in {"crashed", "del_bars"}
          /\ UNCHANGED cancel
       \/ /\ ~interrupt
          /\ app' = "del_bars"
          /\ UNCHANGED cancel
    /\ UNCHANGED <<header, bar_init, bar_types, bar, bar_res, cfg_fd, interrupt, isr_init, dev_fd,
                   device, isr, command_intx, intx_disabled, asserted, event, undelivered,
                   raises>>

(* Bar_delete of every non-NULL device->bar[i]: Bar_delete_int, then free. *)
(* The pointers are left dangling; the device is freed after them.         *)
DeleteBars ==
    /\ app = "del_bars"
    /\ bar' = [n \in BarIdx |-> NoBar]
    /\ bar_res' = [n \in BarIdx |->
                     IF bar[n] # NoBar THEN Bar_delete_int(bar_res[n]) ELSE bar_res[n]]
    /\ app' = "del_dep"
    /\ UNCHANGED <<header, bar_init, bar_types, cfg_fd, interrupt, isr_init, dev_fd,
                   device, isr, cancel, command_intx, intx_disabled, asserted, event,
                   undelivered, raises>>

(* PciDevice_delete_dep: close the uio device and config files.           *)
PciDevice_delete_dep ==
    /\ app = "del_dep"
    /\ dev_fd' = FALSE /\ cfg_fd' = FALSE
    /\ app' = "del_free"
    /\ UNCHANGED <<header, bar_init, bar_types, bar, bar_res, interrupt, isr_init, device, isr,
                   cancel, command_intx, intx_disabled, asserted, event, undelivered, raises>>

(* free(device); with an ISR set, pthread_exit ends the calling thread.   *)
DeleteFree ==
    /\ app = "del_free"
    /\ device' = "freed"
    /\ app' = IF interrupt THEN "exited" ELSE "returned"
    /\ UNCHANGED <<header, bar_init, bar_types, bar, bar_res, cfg_fd, interrupt, isr_init, dev_fd,
                   isr, cancel, command_intx, intx_disabled, asserted, event, undelivered,
                   raises>>

-----------------------------------------------------------------------------
(* PciDevice_new_op: nothing initialised, every fd -1, every bar NULL.    *)
Init ==
    /\ header \in Headers
    /\ bar_init = FALSE
    /\ bar_types = [n \in BarIdx |-> "NOT_MAPPED"]
    /\ bar = [n \in BarIdx |-> NoBar]
    /\ bar_res = [n \in BarIdx |-> {}]
    /\ cfg_fd = FALSE /\ dev_fd = FALSE
    /\ interrupt = FALSE /\ isr_init = FALSE
    /\ device = "live" /\ app = "run"
    /\ isr = "none" /\ cancel = FALSE
    /\ command_intx = FALSE
    /\ intx_disabled \in BOOLEAN
    /\ asserted = FALSE /\ event = FALSE
    /\ undelivered = FALSE /\ raises = 0

AppStep ==
    \/ \E n \in BarIdx : PciDevice_getBar(n)
    \/ PciDevice_getBarTypes
    \/ PciDevice_registerISR
    \/ PciDevice_killISR
    \/ PciDevice_delete
    \/ DeleteBars
    \/ PciDevice_delete_dep
    \/ DeleteFree

Next == AppStep \/ IsrStep \/ IrqHandler \/ DeviceRaise

(* The scheduler runs a runnable thread, and the interrupt controller     *)
(* delivers an asserted, unmasked interrupt; the application and the      *)
(* device act when they please.                                            *)
Spec == Init /\ [][Next]_vars /\ WF_vars(IsrStep) /\ WF_vars(IrqHandler)

-----------------------------------------------------------------------------
(* Properties.                                                             *)

TypeOK ==
    /\ header \in Headers
    /\ bar_init \in BOOLEAN /\ bar_types \in [BarIdx -> Types]
    /\ \A n \in BarIdx : bar[n] = NoBar \/ (bar[n] \in [lo : Nat, hi : Nat] /\ bar_types[n] \in {"BAR32", "BAR64"})
    /\ bar_res \in [BarIdx -> SUBSET {"fd", "map"}]
    /\ {cfg_fd, interrupt, isr_init, dev_fd, cancel, command_intx, intx_disabled,
        asserted, event, undelivered} \subseteq BOOLEAN
    /\ device \in {"live", "freed"}
    /\ app \in {"run", "del_bars", "del_dep", "del_free", "returned", "exited", "crashed"}
    /\ isr \in {"none", "start", "enable", "read", "blocked", "callback", "exited"}
    /\ raises \in 0..MaxRaises

(* A reference decoding of a header, per the PCI layout: 0 is unused,     *)
(* bit 0 marks I/O, type 00 a 32-bit and type 10 a 64-bit memory BAR      *)
(* whose next word is its upper half; the base address drops the low     *)
(* four flag bits and adds the upper half shifted by 32.                   *)
RefTypes(w) ==
    [i \in BarIdx |->
        CASE UpperHalf(w, i)  -> "NOT_MAPPED"
          [] w[i] = 0         -> "NOT_MAPPED"
          [] w[i] % 2 = 1     -> "IO"
          [] w[i] % 8 = 0     -> "BAR32"
          [] OTHER            -> "BAR64"]

RefAddress(w, n) ==
    [lo |-> w[n] - (w[n] % 16), hi |-> IF w[n] % 8 = 4 THEN w[n + 1] ELSE 0]

(* Once PciDevice_init_bars has succeeded, classify_bars corrected by     *)
(* invoke_libpci gives every BAR its type, and every Bar that getBar      *)
(* created maps the BAR's full (64-bit) physical address.                  *)
BarsDecoded ==
    bar_init =>
        /\ bar_types = RefTypes(header)
        /\ \A n \in BarIdx : bar[n] # NoBar => bar[n] = RefAddress(header, n)

(* While the process lives, it holds a bar file fd and a mapping for      *)
(* exactly the BARs device->bar has a Bar object for: a Bar_new that      *)
(* fails after spinOpen (no fd, or mmap failing) releases what it got     *)
(* through Bar_delete, a Bar returned keeps both, and PciDevice_delete's  *)
(* Bar_delete of every Bar releases them before the device is freed.       *)
BarResourcesBalanced ==
    app # "crashed" =>
        \A n \in BarIdx :
            bar_res[n] = IF bar[n] = NoBar THEN {} ELSE {"fd", "map"}

(* The interrupt thread never sleeps in read() with INTx masked and no    *)
(* event pending: that read would never return.  isr_thread clears the    *)
(* INTx-disable bit before every read.                                     *)
NoMaskedWait ==
    (isr = "blocked" /\ intx_disabled) => event

Running == isr \notin {"none", "exited"} /\ ~cancel

(* Every interrupt the device raises while the interrupt thread runs      *)
(* reaches the callback: the kernel handler masks and signals, the read   *)
(* returns, the callback runs, the loop unmasks again.                     *)
IrqDelivered ==
    (undelivered /\ Running) ~> (~undelivered \/ ~Running)

(* PciDevice_killISR ends the interrupt thread: it reaches a cancellation *)
(* point, the blocking read included, and exits.                           *)
IsrTerminates ==
    (cancel /\ isr # "none") ~> (isr = "exited")

(* PciDevice_delete frees the device only after the interrupt thread has  *)
(* ended: the thread dereferences device and device->internal on every    *)
(* loop.  (killISR only requests cancellation; nothing joins the thread.) *)
NoIsrAfterFree ==
    device = "freed" => isr \in {"none", "exited"}

====
