---------------------------- MODULE DeviceOperator ----------------------------
(***************************************************************************)
(* The DeviceOperator of the library (device_operator.c and               *)
(* device_operator_inc.c): DeviceOperator_new passes the PCI IDs to       *)
(* uio_pci_dma, scans its sysfs directory once per ID and creates a       *)
(* PciDevice for every entry whose vendor and device files match;         *)
(* DeviceOperator_delete deletes the devices it holds, in order, and then *)
(* frees itself.  Any failure in DeviceOperator_new jumps to an error     *)
(* exit that deletes the partly built operator (PDA_DELETE_PERSISTANT).   *)
(*                                                                         *)
(* A PciDevice is abstracted to what its deletion depends on: whether an  *)
(* ISR was set on it (PciDevice_delete then ends the calling thread with  *)
(* pthread_exit) and whether it holds a kernel DMA buffer (which          *)
(* PDA_DELETE asks the kernel to free, and DMABuffer_free may fail to).   *)
(* Every file operation of the scan is a nondeterministic outcome.        *)
(***************************************************************************)
EXTENDS Naturals, FiniteSets

CONSTANTS
    NIds,        \* the number of PCI IDs in pci_ids
    Entries,     \* the entries of the uio_pci_dma sysfs directory
    Match,       \* Match[e]: the PCI ID entry e's vendor:device equals, 0 if none
    MaxDevices   \* PDA_MAX_PCI_DEVICES, the slots of pci_devices

Ids == 1..NIds
Slots == 0..(MaxDevices - 1)

ASSUME Match \in [Entries -> Ids \cup {0}]

PDA_DELETE == 0
PDA_DELETE_PERSISTANT == 1

VARIABLES
    pc,          \* where the application thread is
    caller,      \* who runs DeviceOperator_delete: the application or new's error exit
    op,          \* the DeviceOperator object: "none", "live" or "freed"
    i,           \* the index into pci_ids of DeviceOperator_new's loops
    dir,         \* directory != NULL (the sysfs directory is open)
    seen,        \* the entries readdir has returned in this pass
    number,      \* pci_devices_number
    dev,         \* dev[k]: the PciDevice in slot k: "none", "live" or "freed"
    intr,        \* intr[k]: device k's interrupt pointer is set
    kbuf,        \* kbuf[k]: a kernel DMA buffer of device k exists in the kernel
    del,         \* the loop index of DeviceOperator_delete
    persist,     \* the delete_persistant argument of DeviceOperator_delete
    ok           \* ret == PDA_SUCCESS so far in DeviceOperator_delete

vars == <<pc, caller, op, i, dir, seen, number, dev, intr, kbuf, del, persist, ok>>

Final == {"null", "returned", "failed", "exited"}

Init ==
    /\ pc = "new"
    /\ caller = "app"
    /\ op = "none"
    /\ i = 1
    /\ dir = FALSE
    /\ seen = {}
    /\ number = 0
    /\ dev = [k \in Slots |-> "none"]
    /\ intr = [k \in Slots |-> FALSE]
    /\ kbuf = [k \in Slots |-> FALSE]
    /\ del = 0
    /\ persist = PDA_DELETE
    /\ ok = TRUE

TypeOK ==
    /\ pc \in {"new", "enum", "search", "scan", "error", "ready", "deleting"} \cup Final
    /\ caller \in {"app", "new"}
    /\ op \in {"none", "live", "freed"}
    /\ i \in 1..(NIds + 1)
    /\ dir \in BOOLEAN
    /\ seen \subseteq Entries
    /\ number \in 0..MaxDevices
    /\ dev \in [Slots -> {"none", "live", "freed"}]
    /\ intr \in [Slots -> BOOLEAN]
    /\ kbuf \in [Slots -> BOOLEAN]
    /\ del \in 0..MaxDevices
    /\ persist \in {PDA_DELETE, PDA_DELETE_PERSISTANT}
    /\ ok \in BOOLEAN

(* Every matching entry gets one slot, so pci_devices never fills: the    *)
(* code writes pci_devices[pci_devices_number] without a bound check.     *)
ASSUME Cardinality({e \in Entries : Match[e] # 0}) < MaxDevices

-----------------------------------------------------------------------------
(* DeviceOperator_new.  PDAInit() is called and its result discarded, so  *)
(* a failed version check or modprobe changes nothing that follows; then  *)
(* calloc, which may fail; enumerate decides whether new_id is written.   *)
NewStart ==
    /\ pc = "new"
    /\ \/ /\ op' = "live"
          /\ \E enumerate \in BOOLEAN : pc' = IF enumerate THEN "enum" ELSE "search"
       \/ /\ pc' = "error"
          /\ UNCHANGED op
    /\ UNCHANGED <<caller, i, dir, seen, number, dev, intr, kbuf, del, persist, ok>>

(* One PCI ID written to the new_id file; a failed fopen is an error exit. *)
EnumNewId ==
    /\ pc = "enum"
    /\ \/ /\ i \in Ids
          /\ \/ i' = i + 1 /\ UNCHANGED pc
             \/ pc' = "error" /\ UNCHANGED i
       \/ /\ i \notin Ids
          /\ i' = 1
          /\ pc' = "search"
    /\ UNCHANGED <<caller, op, dir, seen, number, dev, intr, kbuf, del, persist, ok>>

(* The search loop over pci_ids: opendir of the sysfs directory, which    *)
(* may fail; past the last ID the operator is returned.                   *)
OpenDir ==
    /\ pc = "search"
    /\ \/ /\ i \in Ids
          /\ \/ dir' = TRUE /\ seen' = {} /\ pc' = "scan"
             \/ dir' = FALSE /\ pc' = "error" /\ UNCHANGED seen
       \/ /\ i \notin Ids
          /\ pc' = "ready"
          /\ UNCHANGED <<dir, seen>>
    /\ UNCHANGED <<caller, op, i, number, dev, intr, kbuf, del, persist, ok>>

(* One readdir result.  An entry is skipped when lstat or the vendor      *)
(* fopen fails, when it is no symlink, or when its IDs differ from the    *)
(* wanted ones; a failed device fopen or a short fread of either file     *)
(* is an error exit; a match stores PciDevice_new_op's result in the next *)
(* slot, and a NULL result is an error exit with the slot left NULL.      *)
ReadEntry(e) ==
    /\ pc = "scan"
    /\ e \notin seen
    /\ seen' = seen \cup {e}
    /\ \/ UNCHANGED <<pc, number, dev>>
       \/ pc' = "error" /\ UNCHANGED <<number, dev>>
       \/ /\ Match[e] = i
          /\ \/ /\ dev' = [dev EXCEPT ![number] = "live"]
                /\ number' = number + 1
                /\ UNCHANGED pc
             \/ pc' = "error" /\ UNCHANGED <<number, dev>>
    /\ UNCHANGED <<caller, op, i, dir, intr, kbuf, del, persist, ok>>

(* Mutant: the search loop does not advance to the next PCI ID.          *)
CloseDir_no_advance ==
    /\ pc = "scan"
    /\ seen = Entries
    /\ dir' = FALSE
    /\ pc' = "search"
    /\ UNCHANGED <<caller, op, i, seen, number, dev, intr, kbuf, del, persist, ok>>

(* readdir returned NULL: closedir and the next PCI ID.                   *)
CloseDir ==
    /\ pc = "scan"
    /\ seen = Entries
    /\ dir' = FALSE
    /\ i' = i + 1
    /\ pc' = "search"
    /\ UNCHANGED <<caller, op, seen, number, dev, intr, kbuf, del, persist, ok>>

(* Mutant: the error exit returns NULL without deleting the operator.    *)
ErrorExit_no_delete ==
    /\ pc = "error"
    /\ dir' = FALSE
    /\ pc' = "null"
    /\ UNCHANGED <<caller, op, i, seen, number, dev, intr, kbuf, del, persist, ok>>

(* deviceoperatornew_return: closedir if the directory is open, then      *)
(* DeviceOperator_delete(dev_operator, PDA_DELETE_PERSISTANT), which      *)
(* returns at once for a NULL operator; NULL is returned either way.      *)
ErrorExit ==
    /\ pc = "error"
    /\ dir' = FALSE
    /\ \/ /\ op = "none"
          /\ pc' = "null"
          /\ UNCHANGED <<caller, del, persist, ok>>
       \/ /\ op = "live"
          /\ caller' = "new"
          /\ persist' = PDA_DELETE_PERSISTANT
          /\ del' = 0
          /\ ok' = TRUE
          /\ pc' = "deleting"
    /\ UNCHANGED <<op, i, seen, number, dev, intr, kbuf>>

-----------------------------------------------------------------------------
(* What the application does with the devices of a returned operator     *)
(* that its deletion depends on.                                          *)

(* PciDevice_registerISR refuses a device whose ISR is set; otherwise it *)
(* sets device->interrupt before it creates the interrupt thread, and     *)
(* leaves it set when that fails.                                         *)
PciDevice_registerISR(k) ==
    /\ pc = "ready"
    /\ dev[k] = "live"
    /\ ~intr[k]
    /\ intr' = [intr EXCEPT ![k] = TRUE]
    /\ UNCHANGED <<pc, caller, op, i, dir, seen, number, dev, kbuf, del, persist, ok>>

(* A successful DMABuffer_new of a kernel buffer on device k; a failed   *)
(* one leaves nothing behind that deletion sees.                          *)
DMABuffer_new(k) ==
    /\ pc = "ready"
    /\ dev[k] = "live"
    /\ kbuf' = [kbuf EXCEPT ![k] = TRUE]
    /\ UNCHANGED <<pc, caller, op, i, dir, seen, number, dev, intr, del, persist, ok>>

(* The application calls DeviceOperator_delete; DeviceOperator_delete_inc *)
(* always succeeds.                                                       *)
DeviceOperator_delete(p) ==
    /\ pc = "ready"
    /\ caller' = "app"
    /\ persist' = p
    /\ del' = 0
    /\ ok' = TRUE
    /\ pc' = "deleting"
    /\ UNCHANGED <<op, i, dir, seen, number, dev, intr, kbuf>>

(* Mutant: ret not accumulated, so a failed PciDevice_delete is lost.    *)
DeleteDevice_ret_dropped ==
    /\ pc = "deleting"
    /\ del < number
    /\ dev' = [dev EXCEPT ![del] = "freed"]
    /\ \/ /\ persist = PDA_DELETE /\ kbuf[del]
          /\ \E freed \in BOOLEAN : kbuf' = [kbuf EXCEPT ![del] = ~freed]
       \/ /\ ~(persist = PDA_DELETE /\ kbuf[del])
          /\ UNCHANGED kbuf
    /\ IF intr[del] THEN pc' = "exited" /\ UNCHANGED del
                    ELSE del' = del + 1 /\ UNCHANGED pc
    /\ UNCHANGED <<caller, op, i, dir, seen, number, intr, persist, ok>>

(* Mutant: the loop over pci_devices does not advance its index.         *)
DeleteDevice_no_advance ==
    /\ pc = "deleting"
    /\ del < number
    /\ dev' = [dev EXCEPT ![del] = "freed"]
    /\ UNCHANGED <<kbuf, ok>>
    /\ IF intr[del] THEN pc' = "exited" ELSE UNCHANGED pc
    /\ UNCHANGED <<caller, op, i, dir, seen, number, intr, persist, del>>

(* One turn of the loop over pci_devices[del] != NULL: ret +=             *)
(* PciDevice_delete(device, persist).  That frees the device; with        *)
(* PDA_DELETE, DMABuffer_freeAllBuffersInt asks the kernel to free its    *)
(* buffers, which fails when the buffer is mapped elsewhere or the free   *)
(* file cannot be opened or written.  With an ISR set, PciDevice_delete   *)
(* ends the calling thread with pthread_exit before it returns.           *)
DeleteDevice ==
    /\ pc = "deleting"
    /\ del < number
    /\ dev' = [dev EXCEPT ![del] = "freed"]
    /\ \/ /\ persist = PDA_DELETE /\ kbuf[del]
          /\ \E freed \in BOOLEAN :
                /\ kbuf' = [kbuf EXCEPT ![del] = ~freed]
                /\ ok' = (ok /\ freed)
       \/ /\ ~(persist = PDA_DELETE /\ kbuf[del])
          /\ UNCHANGED <<kbuf, ok>>
    /\ IF intr[del] THEN pc' = "exited" /\ UNCHANGED del
                    ELSE del' = del + 1 /\ UNCHANGED pc
    /\ UNCHANGED <<caller, op, i, dir, seen, number, intr, persist>>

(* pci_devices[del] == NULL: with ret == PDA_SUCCESS the operator is      *)
(* freed; otherwise it is kept, still holding the freed devices.  The     *)
(* error exit of DeviceOperator_new returns NULL in both cases.           *)
DeleteEnd ==
    /\ pc = "deleting"
    /\ del = number
    /\ op' = IF ok THEN "freed" ELSE op
    /\ pc' = CASE caller = "new" -> "null"
               [] ok             -> "returned"
               [] OTHER          -> "failed"
    /\ UNCHANGED <<caller, i, dir, seen, number, dev, intr, kbuf, del, persist, ok>>

-----------------------------------------------------------------------------
Next ==
    \/ NewStart \/ EnumNewId \/ OpenDir \/ CloseDir \/ ErrorExit
    \/ \E e \in Entries : ReadEntry(e)
    \/ \E k \in Slots : PciDevice_registerISR(k) \/ DMABuffer_new(k)
    \/ \E p \in {PDA_DELETE, PDA_DELETE_PERSISTANT} : DeviceOperator_delete(p)
    \/ DeleteDevice \/ DeleteEnd

(* The steps DeviceOperator_new and DeviceOperator_delete take on their   *)
(* own once called; what the application does with a returned operator   *)
(* is its choice.                                                         *)
Internal ==
    \/ NewStart \/ EnumNewId \/ OpenDir \/ CloseDir \/ ErrorExit
    \/ \E e \in Entries : ReadEntry(e)
    \/ DeleteDevice \/ DeleteEnd

(* The calling thread is the only one and is always scheduled.            *)
Spec == Init /\ [][Next]_vars /\ WF_vars(Internal)

-----------------------------------------------------------------------------
Busy == pc \notin Final \cup {"ready"}

(* DeviceOperator_new and DeviceOperator_delete return, or end the thread *)
(* with pthread_exit: the new_id loop, the search loop over pci_ids with  *)
(* its readdir loop, the error exit and the loop over pci_devices each    *)
(* advance to their end.                                                  *)
Terminates == Busy ~> ~Busy

(* A DeviceOperator_new that fails returns NULL only after its error exit *)
(* has deleted the operator and every PciDevice it had created, whatever  *)
(* scan step failed.                                                      *)
NewRollsBack ==
    pc = "null" => /\ op # "live"
                   /\ \A k \in Slots : dev[k] # "live"

(* A DeviceOperator_delete that returns PDA_SUCCESS has freed the         *)
(* operator and every device, and with PDA_DELETE no kernel buffer of     *)
(* any device remains: success means every PciDevice_delete succeeded.    *)
DeletedWhenReturned ==
    pc = "returned" => /\ op = "freed"
                       /\ \A k \in Slots : dev[k] # "live"
                       /\ persist = PDA_DELETE => \A k \in Slots : ~kbuf[k]
====
