---------------------------- MODULE UioPciDmaProbe ----------------------------
(***************************************************************************)
(* probe and remove of the kernel adapter uio_pci_dma (uio_pci_dma.c):    *)
(* binding a PCI device acquires, in order, the four bin_attribute        *)
(* structs, the enabled device, MSI, the dma_device, the "dma" kset with  *)
(* its directory, the request/free/max_payload_size/max_read_request_size *)
(* files, the BAR regions, one bar file per memory resource and the uio   *)
(* device.  A failure jumps into a chain of labels that releases part of  *)
(* it; remove releases the rest when the device is unbound.               *)
(*                                                                         *)
(* What is held is a set of resource names; the bar files and their       *)
(* kmalloc'd names are sets of resource indices.  The device's            *)
(* properties (an IRQ line, INTx masking, which resources are memory) are *)
(* chosen in Init.  A NULL dereference of an unchecked allocation is the  *)
(* "oops" state.  Probing one device is sequential, so each step of the   *)
(* code between two failure points is one action.                         *)
(***************************************************************************)
EXTENDS Naturals

CONSTANTS
    NRes,        \* PCI_NUM_RESOURCES, scaled down
    UintBits     \* the width of the uint32_t loop counters, scaled down

Res == 0..(NRes - 1)
Uint == 0..(2^UintBits - 1)
Files == <<"request", "free", "mps", "mrrs">>
FileSteps == <<"file_request", "file_free", "file_mps", "file_mrrs">>

VARIABLES
    pc,          \* where probe or remove is
    held,        \* the resources acquired and not yet released
    bars,        \* resource indices whose bar file exists in sysfs
    names,       \* resource indices whose attr_bar name is kmalloc'd
    err,         \* err != 0
    i,           \* probe's loop counter i
    j,           \* the counter j of the exit_bars loop
    irq,         \* pci_device->irq != 0
    intx_mask,   \* pci_intx_mask_supported
    mem          \* the resources with IORESOURCE_MEM

vars == <<pc, held, bars, names, err, i, j, irq, intx_mask, mem>>

Resources == {"attrs", "enabled", "msi", "dma_device", "kset", "dir",
              "request", "free", "mps", "mrrs", "regions", "uio", "drvdata"}

(* The labels of probe's error exits, in fall-through order.             *)
Labels == <<"exit_bars", "exit_max_read_request_size", "exit_max_payload_size",
            "exit_free", "exit_request", "exit">>

TypeOK ==
    /\ pc \in {"start", "enable", "irq", "alloc", "kset", "regions", "bars",
               "uio", "bound", "failed", "removed", "oops"}
              \cup {FileSteps[k] : k \in 1..4}
              \cup {Labels[k] : k \in 1..6}
    /\ held \subseteq Resources
    /\ bars \subseteq Res /\ names \subseteq Res
    /\ err \in BOOLEAN
    /\ i \in Uint /\ j \in Uint
    /\ irq \in BOOLEAN /\ intx_mask \in BOOLEAN /\ mem \subseteq Res

Init ==
    /\ pc = "start"
    /\ held = {}
    /\ bars = {} /\ names = {}
    /\ err = FALSE
    /\ i = 0 /\ j = 0
    /\ irq \in BOOLEAN /\ intx_mask \in BOOLEAN /\ mem \in SUBSET Res

Goto(label) == pc' = label /\ err' = TRUE

-----------------------------------------------------------------------------
(* The four BIN_ATTR_PDA kzallocs; their results are written through      *)
(* without a NULL check.                                                  *)
AllocAttrs ==
    /\ pc = "start"
    /\ \/ held' = {"attrs"} /\ pc' = "enable"
       \/ pc' = "oops" /\ UNCHANGED held
    /\ UNCHANGED <<bars, names, err, i, j, irq, intx_mask, mem>>

(* pci_enable_device, which may fail.                                     *)
EnableDevice ==
    /\ pc = "enable"
    /\ \/ held' = held \cup {"enabled"} /\ pc' = "irq" /\ UNCHANGED err
       \/ Goto("exit") /\ UNCHANGED held
    /\ UNCHANGED <<bars, names, i, j, irq, intx_mask, mem>>

(* No IRQ line is an error; pci_enable_msi, and without MSI the device    *)
(* must support INTx masking.                                             *)
CheckInterrupt ==
    /\ pc = "irq"
    /\ \/ ~irq /\ Goto("exit") /\ UNCHANGED held
       \/ irq /\ held' = held \cup {"msi"} /\ pc' = "alloc" /\ UNCHANGED err
       \/ irq /\ intx_mask /\ pc' = "alloc" /\ UNCHANGED <<held, err>>
       \/ irq /\ ~intx_mask /\ Goto("exit") /\ UNCHANGED held
    /\ UNCHANGED <<bars, names, i, j, irq, intx_mask, mem>>

(* kzalloc of the dma_device, pci_set_master, then the 64-bit DMA masks   *)
(* with a 32-bit fallback; a failure of either is an error exit.          *)
AllocDmaDevice ==
    /\ pc = "alloc"
    /\ \/ /\ held' = held \cup {"dma_device"}
          /\ \/ pc' = "kset" /\ UNCHANGED err
             \/ Goto("exit")
       \/ Goto("exit") /\ UNCHANGED held
    /\ UNCHANGED <<bars, names, i, j, irq, intx_mask, mem>>

(* kset_create_and_add; a NULL result is used unchecked.                  *)
CreateKset ==
    /\ pc = "kset"
    /\ \/ held' = held \cup {"kset", "dir"} /\ pc' = FileSteps[1]
       \/ pc' = "oops" /\ UNCHANGED held
    /\ UNCHANGED <<bars, names, err, i, j, irq, intx_mask, mem>>

(* sysfs_create_bin_file of the k-th file in the kset's directory; a      *)
(* failure jumps to the label that removes it and those before it.        *)
CreateFile(k) ==
    /\ pc = FileSteps[k]
    /\ \/ /\ held' = held \cup {Files[k]}
          /\ pc' = IF k < 4 THEN FileSteps[k + 1] ELSE "regions"
          /\ UNCHANGED err
       \/ Goto(Labels[6 - k]) /\ UNCHANGED held
    /\ UNCHANGED <<bars, names, i, j, irq, intx_mask, mem>>

(* pci_request_regions; its failure jumps to exit with err still 0.       *)
RequestRegions ==
    /\ pc = "regions"
    /\ \/ held' = held \cup {"regions"} /\ pc' = "bars" /\ i' = 0
       \/ pc' = "exit" /\ UNCHANGED <<held, i>>
    /\ UNCHANGED <<bars, names, err, j, irq, intx_mask, mem>>

(* One turn of the BAR loop: a memory resource gets a kmalloc'd name      *)
(* (unchecked) and a bar file; a failed file jumps to exit_bars, with err *)
(* still 0, after j = i-- .                                               *)
CreateBarFile ==
    /\ pc = "bars"
    /\ \/ /\ i \in Res \ mem
          /\ i' = i + 1
          /\ UNCHANGED <<pc, bars, names, j>>
       \/ /\ i \in mem
          /\ \/ /\ names' = names \cup {i}
                /\ \/ bars' = bars \cup {i} /\ i' = i + 1 /\ UNCHANGED <<pc, j>>
                   \/ /\ pc' = "exit_bars"
                      /\ j' = i
                      /\ i' = (i + 2^UintBits - 1) % 2^UintBits
                      /\ UNCHANGED bars
             \/ pc' = "oops" /\ UNCHANGED <<bars, names, i, j>>
       \/ /\ i \notin Res
          /\ pc' = "uio"
          /\ UNCHANGED <<bars, names, i, j>>
    /\ UNCHANGED <<held, err, irq, intx_mask, mem>>

(* exit_bars: for(j=i--; j>=0; j--) removes attr_bar[i] for a memory      *)
(* resource i.  j is unsigned, so j >= 0 always holds and the loop never  *)
(* ends; after i-- wrapped from 0 the flags read is out of bounds, and    *)
(* its outcome is any of the build's.                                     *)
ExitBarsLoop ==
    /\ pc = "exit_bars"
    /\ j' = (j + 2^UintBits - 1) % 2^UintBits
    /\ \/ /\ i \in Res
          /\ bars' = IF i \in mem THEN bars \ {i} ELSE bars
          /\ UNCHANGED pc
       \/ /\ i \notin Res
          /\ \/ UNCHANGED <<pc, bars>>
             \/ pc' = "oops" /\ UNCHANGED bars
    /\ UNCHANGED <<held, names, err, i, irq, intx_mask, mem>>

(* uio_register_device; its failure jumps to exit_max_read_request_size   *)
(* with err still 0.  Success sets the driver data and returns 0.         *)
RegisterUio ==
    /\ pc = "uio"
    /\ \/ held' = held \cup {"uio", "drvdata"} /\ pc' = "bound"
       \/ pc' = "exit_max_read_request_size" /\ UNCHANGED held
    /\ UNCHANGED <<bars, names, err, i, j, irq, intx_mask, mem>>

(* The labels from Labels[k] on, falling through to exit: each removes    *)
(* its file; exit kfrees dma_device (and with it the attr_bar array the   *)
(* bar files point into), kobject_dels the kset (its directory goes with  *)
(* every file in it, the kset object stays), disables MSI and kfrees the  *)
(* bin_attribute structs.  probe returns err.                             *)
Unwind(k) ==
    LET removed == {Files[m] : m \in 1..(6 - k)}
        dir     == IF "kset" \in held
                   THEN {"dir", "request", "free", "mps", "mrrs"} ELSE {}
    IN
    /\ pc = Labels[k]
    /\ held' = held \ (removed \cup dir \cup {"dma_device", "msi", "attrs"})
    /\ pc' = IF err THEN "failed" ELSE "bound"
    /\ UNCHANGED <<bars, names, err, i, j, irq, intx_mask, mem>>

(* remove: the driver data is dereferenced unchecked; then the kset's     *)
(* buffers are freed, the kset deleted and unregistered, the bar files    *)
(* removed and their names kfreed, the uio device unregistered, MSI       *)
(* disabled, the regions released, the device disabled and dma_device     *)
(* kfreed.                                                                *)
remove ==
    /\ pc = "bound"
    /\ \/ /\ "drvdata" \notin held
          /\ pc' = "oops"
          /\ UNCHANGED <<held, bars, names>>
       \/ /\ "drvdata" \in held
          /\ held' = held \cap {"attrs"}
          /\ bars' = bars \ mem
          /\ names' = {}
          /\ pc' = "removed"
    /\ UNCHANGED <<err, i, j, irq, intx_mask, mem>>

-----------------------------------------------------------------------------
Next ==
    \/ AllocAttrs \/ EnableDevice \/ CheckInterrupt \/ AllocDmaDevice
    \/ CreateKset \/ \E k \in 1..4 : CreateFile(k)
    \/ RequestRegions \/ CreateBarFile \/ ExitBarsLoop \/ RegisterUio
    \/ \E k \in 2..6 : Unwind(k)
    \/ remove

Spec == Init /\ [][Next]_vars

-----------------------------------------------------------------------------
(* probe and remove are balanced: when probe has returned an error, or    *)
(* remove has run, nothing probe acquired is still held (no enabled       *)
(* device, regions, kset, bin_attribute, bar file or name), and when      *)
(* probe has returned 0 the device is set up with its driver data.  This  *)
(* is what the error labels of probe and the body of remove are for.      *)
ProbeRemoveBalanced ==
    /\ pc \in {"failed", "removed"} => held = {} /\ bars = {} /\ names = {}
    /\ pc = "bound" => "drvdata" \in held
====
