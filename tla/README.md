# TLA+ models of PDA (Portable Driver Architecture)

PDA is a user-space PCI driver library (`src/src`, `src/arch/linux_x86_uio`) with a
kernel module (`src/patches/linux_uio/uio_pci_dma.c`). This directory models the
part of the system where concurrency, failure and address arithmetic meet: DMA
buffers. Processes allocate buffers in the kernel, map them, hand their
scatter-gather (SG) lists to the device, and free them.

## The system and how its parts interact

| Part | Code | State | Operations |
|---|---|---|---|
| Buffer registry (per process) | `pci.c`, `dma_buffer.c`, `dma_buffer_inc.c` | the device's doubly-linked list of `DMABuffer` handles with its head pointer `dma_buffer_list`; per handle the index, kind, map fd with its flock, mapping | `PciDevice_allocDMABuffer`, `PciDevice_registerDMABuffer`, `PciDevice_getDMABuffer`, `PciDevice_deleteDMABuffer`, `PciDevice_delete`, `PciDevice_freeAllBuffers` |
| Kernel buffer namespace | `uio_pci_dma.c` | a kset of buffer kobjects named by index, each with its memory | `request_buffer_write` (the "request" file), `delete_buffer_write` (the "free" file), each under the spinlock `alloc_free_lock` |
| Kernel allocator / IOMMU | `uio_pci_dma.c` | page blocks, scatterlist, `pfn_list`, the "sg" file | `uio_pci_dma_allocate_kernel_memory`, `uio_pci_dma_allocate_user_memory`, `program_iommu`, `sort`, `convert_sg`, `uio_pci_dma_free` |
| SG builder / coalescer | `dma_buffer_inc.c`, `dma_buffer.c` | the `DMABuffer_SGNode` list of a handle | `DMABuffer_loadSGList`, `DMABuffer_coalesqueSGlist` |
| Wrap-mapper | `dma_buffer_inc.c`, page-fault handler in `uio_pci_dma.c` | `map`, `map_two`, the process's address space | `DMABuffer_wrapMap`, `DMABuffer_handleFailedKernelWrapMap`, `userWrapMap` |
| PCI device and BARs | `pci.c`, `pci_inc.c`, `bar.c`, `bar_inc.c` | the config-space header, `bar_init`, `bar_types`, the `Bar` objects, the config and uio fds | `PciDevice_init_bars` (via `getBar`, `getBarTypes`, `isr_init`), `PciDevice_classify_bars`, `PciDevice_invoke_libpci`, `Bar_new`, `PciDevice_delete` |
| Interrupt thread and kernel IRQ handler | `pci.c`, `pci_inc.c`, `uio_pci_dma.c` | `device->interrupt`, the thread's place in its loop, a pending cancellation, the device's INTx-disable bit and interrupt line, the uio event count | `PciDevice_registerISR`, `PciDevice_isr_thread`, `PciDevice_killISR`, `irqhandler` with `pci_check_and_mask_intx` |
| Kernel adapter binding | `uio_pci_dma.c` (`probe`, `remove`) | the resources bound to a device: attribute structs, enabled device, MSI, `dma_device`, the `dma` kset and its files, regions, bar files, the uio device | `probe` with its error labels, `remove` |
| Device operator | `device_operator.c`, `device_operator_inc.c` | `pci_devices[]` and `pci_devices_number` | `DeviceOperator_new` (new_id loop, sysfs scan per PCI ID, error exit), `DeviceOperator_delete` |

Processes share the kernel namespace only. They coordinate through `flock` on the
buffer's "map" file:
- `DMABuffer_map` takes `LOCK_SH|LOCK_NB`.
- `DMABuffer_free` with `PDA_DELETE` converts that to `LOCK_EX|LOCK_NB`. It deletes
  the buffer (closes its files and writes the name to "free") only when no other
  process holds a lock.

A failed conversion on Linux drops the lock the process held. A process can exit
or crash at any point; its fds, mappings and locks go away, and kernel buffers stay.

## Modules

### `DMABufferRegistry.tla` (MC: `MC_DMABufferRegistry.tla`)

What is modelled:
- **Kernel state.** `kbuf[i]` is the kernel object of index `i`: none, ok, or
  zombie. A zombie is a name left in the kset by the error exit of
  `request_buffer_write`.
- **Generations.** `created` counts creations. Each object gets a generation, so a
  handle that outlives its buffer can be told apart from a new buffer of the same
  index.
- **Heap and list.** Each process has `MaxFds + 1` heap cells (`nodes`) that hold
  `DMABuffer` structs. A struct keeps its index, generation, kind, map fd with its
  flock, its `next`/`prev` pointers and a heap state: live, freed by
  `DMABuffer_free`, or dropped (never allocated, or freed by `DMABuffer_new`'s exit).
  `head` is `dma_buffer_list`. There is no separate list order. `Walk`/`Path`
  follow the pointers as `getTail`, `getHead`, `getNext` and `findNewIndex` do,
  stopping at NULL or at the first cell met twice (`Endless`: the C loop hangs).
- **Freed structs.** glibc's `free` overwrites only the first 16 bytes (`device`,
  `type`), so a freed struct keeps its index and links until `calloc` hands the cell
  out again; `calloc` may return any non-live cell. `DMABuffer_free` sets `internal`
  to NULL before the free, so `findNewIndex` crashes on a freed struct it reaches,
  and the process restarts (`ProcessExit`). A struct freed by `DMABuffer_new`'s exit
  has a dangling `internal`: its name reads back or the process crashes.
- **Error paths of `DMABuffer_free`.** Every exit is an outcome:
  - a failed `munlock` of a USER buffer returns through `exit`, without unlinking or
    freeing the struct;
  - a failed `flock(LOCK_EX)` goes to `exit_free`, which frees and unlinks the struct
    and leaks `map_fd`;
  - a failed open of the free file (no fd left) frees the struct and leaks `map_fd`
    holding `LOCK_EX`;
  - a failed `write` frees the struct and keeps the kernel buffer.
- **Orphans.** A bag of fds that outlived their handle.
- **Program counters.** `pc`/`op`/`result` split a library call into steps at each
  access to shared state:
  - alloc: request, then map;
  - register: request, then map;
  - get: scan, lookup, map;
  - free: flock, then close, then write to free.
- **Kernel handlers.** `RequestBuffer` and `DeleteBuffer` are atomic, because the
  kernel serialises them with `alloc_free_lock`.
- **Crashes.** `ProcessExit` is a crash or exit at any step.

Every definition names the function it models (see `map` in `PROJECT.json`).

### `DMABufferLifecycle.tla` (abstract)

What the buffer calls promise, without lists, files or locks: `live[n]` is the
generation of the buffer named `n` (0 for none), `held[p]` the `<<name, generation>>`
handles of process `p`, `made` the identities used. `Create` only under a free name,
`CreateFailed` uses an identity and leaves no buffer, `Attach` takes one handle per
name to an existing buffer, `Release` drops handles, `Destroy` removes buffers no
process holds. `DMABufferRegistry` instantiates it with the refinement mapping
`live <- ` the kset objects in state "ok", `held <- ` the live structs each list
reaches except the one `DMABuffer_free` holds `LOCK_EX` on, `made <- created`.
`ImplementsLifecycle` is `Lifecycle!Spec`. The mapping fails in one process after a
failed `munlock` (`registry_munlock`) and in two processes through the free race.

### `DMAScatterGather.tla` (MC: `MC_DMAScatterGather.tla`)

What is modelled:
- **Kernel allocation.** The power-of-two block loop (`ChunkOrders`, with
  `MAX_ORDER`). `Placements` is any aligned free placement `alloc_pages` may return.
- **`dma_map_sg`.** `MapSG` has three platform behaviours:
  - `direct`: no IOMMU; the DMA address is the physical address.
  - `iommu`: one IOVA range, entry by entry.
  - `iommu_merge`: IOVA-contiguous entries merged into segments of up to
    `MaxSegPages`.
- **Kernel buffer pipeline.** Then come the sort by DMA address (whole structs, as
  `sort_sg_swap` does), `convert_sg` and the `pfn_list` used by the page-fault
  handler.
- **User registration.** One entry per pinned page, no sort.
- **User space.** The "sg" file is read into nodes with cumulative user offsets and
  coalesced by `DMABuffer_coalesqueSGlist`. The coalescer is a recursive operator
  that does the same scan, merge-count check, compaction and recursion as the code.
- **Reference.** `RefCoalesce` is an independent fold that merges maximal runs of
  contiguous records.
- **Device view.** `DevFrame` resolves a device address through the IOMMU (or
  directly), so the device's view of a buffer can be compared with the CPU's view.

### `WrapMap.tla` (MC: `MC_WrapMap.tla`)

What is modelled:
- **Address space.** `vm[a]` is what page `a` holds: nothing, the malloc arena, another
  thread's memory, the caller's registered memory, or a page of the buffer's map file
  (with the buffer page it shows). Addresses are in pages. `MAP_FAILED` is -1, so
  `MAP_FAILED + length` is an address below `mmap_min_addr`, as in the program.
- **System calls.** `mmap` without `MAP_FIXED` takes its hint when that range is free
  and any free range otherwise (`MmapPlaces`). `mremap` with `MREMAP_FIXED` replaces
  whatever is at the target. `MapFile` is the page-fault handler: page `pgoff % pages`
  of the buffer, so a mapping of 2·length wraps around.
- **Steps.** Each system call of the wrap-mapper is a step of its own, because another
  thread of the process (`OtherThreadMap`) may map memory between any two:
  - kernel: `KernelUnmap`, `KernelMapTwice`, `KernelFallback`;
  - user: the `memalign`/`free` hint in `DMABuffer_wrapMap`, then `UserRemap` and
    `UserMapSecond` (with its error exit).
- **Free.** The unmapping part of `DMABuffer_free` ends a behaviour.
- **Left out.** `kernelWrapMap` is dead code: `DMABuffer_wrapMap` returns before it
  calls it. The `map == NULL` check of `userWrapMap` never holds, because
  `PciDevice_registerDMABuffer` refuses a NULL start.

### `PciDevice.tla` (MC: `MC_PciDevice.tla`)

One `PciDevice`, its application thread (`app`), its interrupt thread (`isr`),
the device, and the kernel's interrupt handler.
- **BARs.** `Classify` is `PciDevice_classify_bars` as a recursive operator over
  the BAR words; `LibpciPass` is the correction loop of `PciDevice_invoke_libpci`,
  over the base addresses libpci reports (0 for the upper half of a 64-bit BAR).
  `InitBarsOutcomes` is what `PciDevice_init_bars` can leave behind: open failed,
  read failed (the fd stays open), classification failed (types half written), or
  success. `PciDevice_getBar(n)` runs it, then for a 32- or 64-bit BAR computes the
  physical address (`BarAddress`) and calls `Bar_new` (`NewBar`).
- **Bar objects.** `Bar_new` is the set of its outcomes. A failed `calloc` of the
  Bar gives NULL. A failed `calloc` of `bar->internal` jumps to `exit`, where
  `Bar_delete_int` reads `workp.uio_fd` through the NULL `internal`: the process
  crashes (`app = "crashed"`, and a running interrupt thread goes with it). Otherwise
  `pda_spinOpen` opens the bar file or returns -1, and `Bar_map` maps a 32- or 64-bit
  BAR (`Bar_map32`: no fd is an error, the kernel's `bar_mmap` may fail) and does
  nothing for an unused or I/O BAR. On failure `Bar_delete` runs `Bar_delete_int`,
  which unmaps and closes what was acquired. `bar_res[n]` is what the process holds
  for BAR `n`: the bar file fd and the mapping.
- **Interrupts.** `PciDevice_registerISR` sets `device->interrupt` first; then
  `init_bars`, `PciDevice_isr_init` and `pthread_create` may each fail, leaving the
  ISR set. The thread's system calls are steps: `IsrStart` (pread, clear the
  INTx-disable bit), `IsrEnable` (pwrite), `IsrRead` / `IsrWake` (the blocking
  read), `IsrCallback`. Each is a cancellation point except the callback.
  `PciDevice_killISR` only sets `cancel`, as deferred `pthread_cancel` does.
  `IrqHandler` masks an asserted INTx and counts an uio event. `DeviceRaise` is the
  device, bounded by `MaxRaises`.
- **Delete.** `PciDevice_delete` (kill), `DeleteBars` (`Bar_delete`),
  `PciDevice_delete_dep` (close the fds) and `DeleteFree` (free, then
  `pthread_exit` in the caller when an ISR was set) are separate steps, because the
  interrupt thread runs between them. `pthread_cancel` of a thread that was never
  created (registration failed) is undefined behaviour: a crash or nothing.
  `DeleteBars` is `Bar_delete` of every non-NULL Bar: `Bar_delete_int`, then free.

### `DeviceOperator.tla` (MC: `MC_DeviceOperator.tla`)

The application thread through `DeviceOperator_new`, its use of the devices, and
`DeviceOperator_delete`.
- **New.** `NewStart` calls `PDAInit` and drops its result, then `calloc` (may
  fail). `EnumNewId` writes each PCI ID to `new_id`. `OpenDir`, `ReadEntry(e)` and
  `CloseDir` are the search loop: one `opendir` per PCI ID, one step per `readdir`
  entry. Each entry is skipped (lstat or vendor fopen fails, no symlink, other IDs),
  fails (device fopen, short fread) or, when `Match[e]` is the current ID, stores
  `PciDevice_new_op`'s result, which may be NULL, in the next slot. `ErrorExit` is
  `deviceoperatornew_return`: it runs `DeviceOperator_delete(..., PDA_DELETE_PERSISTANT)`.
- **Devices.** A device is reduced to what its deletion depends on. `intr[k]` is set
  by `PciDevice_registerISR` even when thread creation fails. `kbuf[k]` is set by a
  kernel `DMABuffer_new`.
- **Delete.** `DeleteDevice` is one turn of the loop `pci_devices[i] != NULL`. It
  frees the device. With `PDA_DELETE` it asks the kernel to free the device's buffer,
  and that can fail (mapped elsewhere, free file not opened or written). It ends the
  thread (`exited`) when the device had an ISR. `DeleteEnd` frees the operator only
  when every `PciDevice_delete` succeeded.
- **Liveness.** `Internal` is every step of the calling thread other than its use of
  the devices. Under weak fairness of it, every call ends: `DeviceOperator_new`
  returns or fails, and `DeviceOperator_delete` returns or ends the thread
  (`Terminates`).

### `UioPciDmaProbe.tla`

`probe` binding one device, then `remove`. `held` is the set of resources acquired
and not released yet. `bars` and `names` are the resource indices with a bar file
and a kmalloc'd attribute name. `Init` picks the device's properties: an IRQ line,
INTx masking support, and which resources are memory.
- **Steps.** Each stretch of `probe` between two failure points is one action.
  `AllocAttrs` is the four `BIN_ATTR_PDA` kzallocs. Then come `EnableDevice`,
  `CheckInterrupt` (IRQ, MSI, INTx masking), `AllocDmaDevice` (with the DMA masks),
  `CreateKset`, `CreateFile(k)` for the four files, `RequestRegions`,
  `CreateBarFile` (one turn of the BAR loop) and `RegisterUio`.
- **Failures.** `Goto` is `UIO_PDA_ERROR`: it sets `err` and jumps. The two jumps
  that do not set `err` (failed regions, failed uio registration) are modelled as
  they are. A NULL that the code uses unchecked (the attribute structs, the kset,
  a bar name) leads to `oops`.
- **Unwinding.** `Unwind(k)` runs the labels from `Labels[k]` down to `exit`.
  `ExitBarsLoop` is the `exit_bars` loop, whose unsigned `j` never goes below 0:
  it turns for ever. Out-of-bounds reads after `i--` wraps are a free choice,
  including `oops`.
- **Remove.** `remove` is one step: it releases everything `probe` acquired except
  the attribute structs.

## Runs

| Run | Expect | What it shows |
|---|---|---|
| `registry_single` | pass | One process, every call except `freeAllBuffers`, every failure of `DMABuffer_free`, crashes anywhere. Between calls the list the head reaches holds only live structs, and both the `next` and the `prev` walk from the head end (`ListSound`). The process never has more map fds open than it can (`TypeOK`). About 1.03 million distinct states under the view below, about 70 s. |
| `registry_munlock` | violation | One process breaks `ImplementsLifecycle` (16 steps). Register USER buffer 0; a failed `munlock` leaves the struct alive after the head has moved past it. `getDMABuffer(0)` maps a second handle, and deleting that handle destroys buffer 0. `allocDMABuffer(0)` creates a new buffer 0 and lists it. Retrying the delete of the USER struct takes `LOCK_EX` on the old, deleted map file and writes "0" to free, destroying the new buffer the list holds. |
| `registry_free_race` | violation | Two processes break `HandleBacked` (8 steps): `DMABuffer_free` closes the map fd, dropping `LOCK_EX`, before it writes to "free". The other process maps the buffer in that gap, then the buffer is freed under it. |
| `wrap_pass` | pass | One wrap-map of a kernel or user buffer while another thread maps up to three ranges. A successful call leaves two back-to-back views of the buffer (`WrapContiguous`), and no path leaves a mapping of the map file that neither pointer refers to (`NoStrayView`). 204 states; every action and branch fires. |
| `wrap_clobber` | violation | `NoClobber` (an action property): `mremap(MREMAP_FIXED)` onto the freed `memalign` area replaces malloc arena pages. |
| `sg_pass` | pass | Modes `direct` and `iommu`, kernel and whole-page user buffers. SG lengths sum to the buffer length (`SGCoverage`), the coalescer matches the reference (`CoalesceMatchesReference`), device and CPU see the same frame at every page (`ViewCoherent`), and frames are conserved across allocation and free (`FramesConserved`). |
| `probe_unwind` | violation | `ProbeRemoveBalanced`: a device without an IRQ line makes `probe` fail after `pci_enable_device`. The `exit` label never disables the device again, so the failed probe leaves it enabled (5 steps). |
| `sg_merge_view` | violation | `ViewCoherent`: with a merging IOMMU, `pfn_list` maps the wrong frames. |
| `sg_merge_leak` | violation | `FramesConserved`: with a merging IOMMU, `free_kernel_memory` frees only the merged count of entries. |
| `pci_pass` | pass | Three headers, every open/read/map/thread-creation failure, two interrupts. After a successful `init_bars` every BAR has the type and every Bar the 64-bit address the PCI layout gives (`BarsDecoded`). The thread never blocks in `read` with INTx masked and no event (`NoMaskedWait`). Every interrupt raised while the thread runs reaches the callback (`IrqDelivered`), and a cancelled thread ends (`IsrTerminates`). Unless the process crashed, each BAR holds its bar fd and mapping exactly while its Bar exists: `Bar_new`'s failure path and `Bar_delete` release both (`BarResourcesBalanced`). 3308 states. |
| `dop_pass` | pass | Two PCI IDs, three sysfs entries, every file-operation outcome. A failed `DeviceOperator_new` has deleted every device it created before it returns NULL (`NewRollsBack`). A `DeviceOperator_delete` that returns success has freed the operator, every device and, with `PDA_DELETE`, every kernel buffer (`DeletedWhenReturned`). Every `DeviceOperator_new` and `DeviceOperator_delete` call ends (`Terminates`). 282 states. |
| `pci_isr_free` | violation | `NoIsrAfterFree`: `PciDevice_delete` cancels the thread without joining it, closes its fds and frees the device while the thread still runs (6 steps). |

Each property of a passing run has a mutant in `PROJECT.json`: a plausible bug in
the mapped code that the property catches. For example, `PciDevice_deleteDMABuffer`
not moving the head breaks `ListSound`, and a single coalescing pass without
recursion breaks `CoalesceMatchesReference`.

These disagreements are recorded here without a run, because a unit test reaches
each of them in a short sequential call sequence:
- Allocating an index that already exists fails in the kernel, yet `DMABuffer_new`
  maps the existing buffer, and its exit path never closes that fd, so a `LOCK_SH`
  leaks and every later delete of the buffer fails (`dma_buffer_inc.c:570`).
- `PciDevice_freeAllBuffers` frees the list but never resets `dma_buffer_list`
  (`pci.c:626`); `PciDevice_delete` does (`pci.c:443`). Under `Spec`, which adds
  `PciDevice_freeAllBuffers`, TLC breaks `ListSound` as soon as a
  `freeAllBuffers` returns, whether it succeeded or failed (7 states). Later calls read the freed structs: `getDMABuffer` returns one by
  its stale index, `findNewIndex` dereferences its NULL `internal`, and `addNode`
  can link a new struct behind it.
- A second `wrapMap` of a user buffer overwrites `map_two` without unmapping the old
  second mapping (`dma_buffer_inc.c:1032`); `NoStrayView` catches it with two wraps.
- `PciDevice_delete` ends the calling thread with `pthread_exit` whenever an ISR was
  registered (`pci.c:463`). So `DeviceOperator_delete` never returns to its caller
  (`device_operator.c:97`). The devices after that one are never deleted, their
  kernel buffers stay even under `PDA_DELETE`, and the operator leaks. `dop_pass`
  reaches this state (`pc = "exited"`).
- When any `PciDevice_delete` fails, `DeviceOperator_delete` returns failure
  (`device_operator.c:99`). It keeps the operator, whose `pci_devices` still point
  at the freed devices, so `getPciDevice` and a second delete use freed memory.
- `DeviceOperator_new` discards the result of `PDAInit`
  (`device_operator_inc.c:226`). The spec says a kernel adapter version mismatch is
  surfaced as an initialisation failure. `PDACheckVersion`, which is never called,
  also rejects a newer age with the same revision, which the spec accepts.
- `DeviceOperator_new` never checks `pci_devices_number` against
  `PDA_MAX_PCI_DEVICES` (`device_operator_inc.c:342`). The delete loop relies on a
  NULL slot after the last device.
- `DMABuffer_handleFailedKernelWrapMap` unmaps `map` before it maps the buffer
  again (`dma_buffer_inc.c:951`). When another thread has taken the address space,
  both `mmap`s fail and the buffer has no mapping. If the fallback succeeds,
  `map_two` is left as `MAP_FAILED + length` (`dma_buffer_inc.c:960`). Spec 4.3 says
  a failed wrap-map keeps `map` usable and marks `map_two` invalid.
  `FailureNonFatal` in `WrapMap.tla` states this. Added to `WrapMap_pass.cfg`, it is
  violated within four states (a user buffer whose `mremap` fails keeps
  `map == MAP_FAILED`). With kernel buffers only, the trace has six states:
  wrap-map, `munmap`, another thread's `mmap`, both `mmap`s failing, then the fallback.
- `probe`'s `exit_bars` loop (`uio_pci_dma.c:394`) never ends, because `j` is
  unsigned. It removes only the bar file of `i - 1`. `UioPciDmaProbe` reaches the
  loop (`ExitBarsLoop`), but `probe_unwind` stops at the shorter unwind bug first.
- A failed `uio_register_device` or `pci_request_regions` leaves `err` at 0
  (`uio_pci_dma.c:385`, `352`), so `probe` returns success after unwinding. `remove`
  later dereferences the driver data that was never set.
- `remove` never frees the attribute structs that `probe` allocated, and walks the
  kset while `uio_pci_dma_free` kfrees each entry (`uio_pci_dma.c:451`).
- `PciDevice_freeAllBuffers` sweeps every buffer name under `dma/` into "free"
  without probing a flock (`dma_buffer_inc.c:670`). With two processes it frees the
  buffer the other has mapped, and `HandleBacked` fails as in `registry_free_race`.
- `PciDevice_registerDMABuffer` with an automatic index registers the buffer, then
  looks up the undefined index, which becomes max+1. The call fails and the buffer
  stays in the list (`pci.c:609`).
- `PciDevice_init_bars` leaves the config fd open when `read` fails, and a retry
  overwrites `workp.uio_config_fd` with a new fd, so every retry leaks one
  (`pci_inc.c:157`).
- A failed `calloc` of `bar->internal` in `Bar_new` crashes the process in
  `Bar_delete_int` (`bar_inc.c:113`, `bar_inc.c:168`). A failed device-ID lookup
  reaches the same `exit` with `workp.uio_fd` still 0 from `calloc`, so
  `Bar_delete_int` closes fd 0 (`bar_inc.c:123`). The getters it calls cannot fail
  for a device that exists, so the model leaves that path out.
- `DMABuffer_alloc` keeps `length = size` for a user registration that is not a whole
  number of pages (`dma_buffer_inc.c:322`). The spec says length is rounded up, while
  the kernel's SG list covers whole pages.

## Bounds and why they are enough

**Registry.**
- 1 or 2 processes and 2 indices.
- `MaxFds = 3` cells per process: two handles plus a leaked fd.
- `MaxCreates = 3` buffer creations, so a buffer can be freed and its index reused
  with a new generation.

- Cells: one per fd plus one for a struct under construction, so a freed struct's
  cell can be reused while other structs are live.

Every registry bug above needs at most 2 processes, 2 indices and 3 creations; the
`munlock` trace uses all three creations. The registry runs use `VIEW
ReachableView` (in `MC_DMABufferRegistry.tla`). It identifies states that differ
only in heap cells no pointer reaches and in `result`, which nothing reads. Such a
cell is overwritten by `calloc` before it is read again. So the view merges only
states with the same futures and the same property values.

**SG.**
- `PageSize = 2`, so sizes that are not page multiples exist.
- `MaxOrder = 2`: blocks of 1 or 2 frames. A 3-page kernel buffer needs two blocks
  of different order, so the sort, the merging and the partial free all have work
  to do.
- Six frames hold two buffers at once.
- Two IOVA bases.
- Three user frames, so a 3-page user buffer gives a chain of three contiguous
  records; coalescing those needs the recursion.

**Wrap-mapper.**
- A buffer of 2 pages and an address space of 10 pages.
- Four heap pages, so a `memalign` area of 4 pages can lie in the arena.
- The buffer sits at page 6.
- Another thread maps up to three runs of 2 pages. That is enough to fill every gap
  of 4 pages, and then every gap of 2, so each failure branch of every `mmap` happens.
- One call in the passing run; a second call of a user buffer is what leaks `map_two` (recorded above).

**PCI device.**
- Three BARs, and three headers: a 32-bit plus a 64-bit memory BAR (upper word 1);
  an I/O BAR, an unused slot and a 32-bit BAR; and a reserved width in slot 0, on
  which `classify_bars` fails. Every type, the 64-bit skip and libpci's zero for the
  upper half occur.
- Two interrupts: a second one can be raised while the first is masked or in the
  callback.

**Device operator.**
- Two PCI IDs and three entries: one matches each ID and one matches none. So a
  failure can hit before any device exists, after one, or after two.
- Three slots: more than the matching entries (an `ASSUME`), as the NULL-terminated
  delete loop needs.
- The application registers at most one ISR per device (`registerISR` refuses a
  second) and allocates buffers on any device before it deletes the operator in
  either mode.

**Kernel adapter binding.**
- Two resources, each memory or not, so the BAR loop creates zero, one or two bar
  files, and a failure can come at the first or the second.
- `UintBits = 2`: the loop counters wrap at 4 instead of 2^32. For the `exit_bars`
  loop only the wrap-around matters, not how long it takes.

## Fairness

The registry, SG and wrap-map runs check safety only. Processes run independently
and may stop anywhere, so no fairness is assumed there; the registry keeps the
deadlock check on, since a process can always exit.

`PciDevice` assumes weak fairness of the interrupt thread (`IsrStep`: the scheduler
runs a runnable thread, and a thread blocked in `read` with an event or a pending
cancellation is runnable), and of `IrqHandler` (the interrupt controller delivers a
level-triggered, unmasked, asserted interrupt). The application and the device get
no fairness: they may stop for good. Its runs turn the deadlock check off, because
a deleted device with an exited thread is a real final state.

`DeviceOperator` assumes weak fairness of `Internal`, the calling thread's steps
inside `DeviceOperator_new` and `DeviceOperator_delete`. The library starts no other
thread there, so that thread is the only one that can run. The use of the devices
between the calls gets no fairness. `UioPciDmaProbe` checks safety only.
`dop_pass` turns the deadlock check off: a
NULL from `DeviceOperator_new`, a returned or failed delete, and a thread ended by
`pthread_exit` are the ends of the program.

## Not modelled, and why

- **BAR register access and getters** (`Bar_getMap`, `Bar_getPhysicalAddress`):
  memory I/O through the mapping, and plain reads.
- **Virtual functions in `invoke_libpci`.** The model's config space and libpci agree,
  so the `bar && !virt_flag` branch is not taken.
- **`PciDevice_getListOfBuffers`**, the payload-size getters, NUMA affinity: sysfs
  parsing and I/O.
- **`DMABuffer_check_persistant`.** Declared and defined, but never called: dead code.
- **Enumeration through libpci, debug output.** Pure I/O and formatting. From
  `debug.c` only `pda_spinOpen` is modelled, as its result (an fd, or -1 after the
  bounded retries).
- **`isCorrectVersion`, `PDACheckVersion`, `PDAFinalize`.** A kmod lookup, string
  comparisons and `rmmod`. `DeviceOperator_new` ignores the result of the check, so
  no state of the model depends on it. `DeviceOperator_getPciDevice` and
  `getPciDeviceCount` read state and change none.
- **`mod_init`, `mod_exit` and the `mps`/`readrq` read callbacks.** Driver
  registration and config-space reads.
- **`remove` racing `request_buffer_write`, and two devices probed at once.** The
  global `alloc_free_lock` is re-initialised by every `probe`. Both need a second
  kernel thread and the kset's buffers in `UioPciDmaProbe`; they are listed as
  hazards.
- **The kernel's memory-safety errors** (kobject use-after-free in
  `delete_buffer_write`). Listed as hazards; the model has no heap to observe them.

## Plan for the next steps

1. The memory-availability check and the retries of `pda_spinOpen` in the registry.
2. Composition: the registry's `PciDevice_delete` and the interrupt thread in one
   model.
