------------------------------- MODULE WrapMap -------------------------------
(***************************************************************************)
(* DMABuffer_wrapMap (dma_buffer_inc.c): map a buffer a second time right *)
(* behind its first mapping, so that map_two == map + length.              *)
(*                                                                         *)
(* The process's address space is a function from page addresses to what *)
(* is mapped there.  Another thread of the process maps anonymous memory  *)
(* at any time (its own malloc or mmap), so every system call of the      *)
(* wrap-mapper is a step of its own.  Addresses are in pages; MAP_FAILED  *)
(* is -1, so MAP_FAILED + length is an address below mmap_min_addr, as   *)
(* the pointer MAP_FAILED + length is in the program.                     *)
(***************************************************************************)
EXTENDS Integers, FiniteSets

CONSTANTS
    L,           \* buffer->length, in pages
    MinAddr,     \* mmap_min_addr: no page below it is ever mapped
    MaxAddr,     \* the highest page of the address space
    HeapPages,   \* pages of the malloc arena (brk heap)
    Starts,      \* where the buffer is first mapped (DMABuffer_map / the caller's memory)
    Types,       \* buffer->type: "kernel" or "user"
    OtherLen,    \* pages another thread maps at a time
    MaxOther,    \* how many times it does
    MaxWraps     \* calls of DMABuffer_wrapMap

ASSUME L > 0 /\ L =< MinAddr /\ MinAddr =< MaxAddr

MAP_FAILED == -1
NULL == 0
Addrs == MinAddr..MaxAddr

(* What a page holds: nothing, the malloc arena, another thread's memory, *)
(* the caller's registered memory or a mapping of the buffer's map file;  *)
(* k is the page of the buffer it shows.                                   *)
Owners == {"free", "heap", "other", "user", "file"}
Page == [o : Owners, k : 0..(L - 1)]
Free == [o |-> "free", k |-> 0]

VARIABLES
    type,     \* buffer->type
    vm,       \* vm[a]: the page at address a
    map,      \* buffer->map
    map_two,  \* buffer->map_two
    area,     \* buffer_area, the hint from memalign/free
    pc,       \* where DMABuffer_wrapMap (or DMABuffer_free) is
    result,   \* what the last call returned
    others,   \* mappings the other thread made
    wraps     \* calls of DMABuffer_wrapMap so far

vars == <<type, vm, map, map_two, area, pc, result, others, wraps>>

-----------------------------------------------------------------------------
(* Address-space operations.                                               *)

Span(a) == a..(a + L - 1)
Run(a, n) == a..(a + n - 1)

(* Free runs of n pages, where mmap without MAP_FIXED may place a mapping. *)
FreeRuns(n) == {a \in Addrs : Run(a, n) \subseteq Addrs /\ \A b \in Run(a, n) : vm[b] = Free}

(* munmap(addr, length): an address that is not a mapped, page-aligned   *)
(* address (NULL, MAP_FAILED + length) unmaps nothing in the model.       *)
Unmap(m, a) == [b \in Addrs |-> IF a \in Addrs /\ b \in Span(a) THEN Free ELSE m[b]]

(* Mutant: the fault handler without the modulo, pfn_list[pgoff].         *)
MapFile_no_wrap(m, a, n) == [b \in Addrs |-> IF b \in Run(a, n) THEN [o |-> "file", k |-> b - a]
                                            ELSE m[b]]

(* The map file's pages from address a on: the page fault handler maps    *)
(* pfn_list[pgoff % pages], so n pages from offset 0 wrap around.          *)
MapFile(m, a, n) == [b \in Addrs |-> IF b \in Run(a, n) THEN [o |-> "file", k |-> (b - a) % L]
                                     ELSE m[b]]

(* mmap(hint, n pages, ..., map_fd, 0) without MAP_FIXED: at the hint if  *)
(* the range is free, else anywhere free; none is MAP_FAILED.              *)
MmapPlaces(hint, n) == IF hint \in FreeRuns(n) THEN {hint} ELSE FreeRuns(n)

(* A buffer view: L pages from a showing buffer pages 0..L-1 in order. *)
IsView(m, a) == a \in Addrs /\ Span(a) \subseteq Addrs /\
                \A b \in Span(a) : m[b].o \in {"user", "file"} /\ m[b].k = b - a

-----------------------------------------------------------------------------
(* DMABuffer_wrapMap: a kernel buffer goes to                              *)
(* DMABuffer_handleFailedKernelWrapMap; a user buffer reserves a hint      *)
(* area with memalign(PAGE_SIZE, 2*length) and frees it again.  A small   *)
(* area comes from inside the malloc arena (free keeps it); a large one    *)
(* from its own mmap (free unmaps it).  memalign may return NULL.          *)
DMABuffer_wrapMap ==
    /\ pc = "idle" /\ wraps < MaxWraps
    /\ wraps' = wraps + 1
    /\ \/ /\ type = "kernel"
          /\ pc' = "k_unmap"
          /\ UNCHANGED <<area, result>>
       \/ /\ type = "user"
          /\ \E a \in {h \in Addrs : Run(h, 2 * L) \subseteq HeapPages} \cup FreeRuns(2 * L) :
                /\ area' = a
                /\ pc' = "u_remap"
          /\ UNCHANGED result
       \/ /\ type = "user"
          /\ pc' = "idle" /\ result' = "fail"
          /\ UNCHANGED area
    /\ UNCHANGED <<type, vm, map, map_two, others>>

(* handleFailedKernelWrapMap: munmap(map, length) and, unless it is        *)
(* MAP_FAILED, munmap(map_two, length).                                    *)
KernelUnmap ==
    /\ pc = "k_unmap"
    /\ vm' = LET m1 == IF map # MAP_FAILED THEN Unmap(vm, map) ELSE vm
             IN IF map_two # MAP_FAILED THEN Unmap(m1, map_two) ELSE m1
    /\ pc' = "k_map2"
    /\ UNCHANGED <<type, map, map_two, area, result, others, wraps>>

(* map = mmap(map, 2*length, ..., map_fd, 0); map_two = map + length.     *)
(* On failure the fallback is the next step.                               *)
KernelMapTwice ==
    /\ pc = "k_map2"
    /\ \/ \E a \in MmapPlaces(map, 2 * L) :
             /\ vm' = MapFile(vm, a, 2 * L)
             /\ map' = a /\ map_two' = a + L
             /\ pc' = "idle" /\ result' = "ok"
       \/ /\ FreeRuns(2 * L) = {}
          /\ map' = MAP_FAILED /\ map_two' = MAP_FAILED + L
          /\ pc' = "k_fallback"
          /\ UNCHANGED <<vm, result>>
    /\ UNCHANGED <<type, area, others, wraps>>

(* map = mmap(0, length, ...); if that fails too, map_two = NULL.  Both   *)
(* ways the call fails.                                                    *)
KernelFallback ==
    /\ pc = "k_fallback"
    /\ \/ \E a \in FreeRuns(L) :
             /\ vm' = MapFile(vm, a, L)
             /\ map' = a
             /\ UNCHANGED map_two
       \/ /\ FreeRuns(L) = {}
          /\ map_two' = NULL
          /\ UNCHANGED <<vm, map>>
    /\ pc' = "idle" /\ result' = "fail"
    /\ UNCHANGED <<type, area, others, wraps>>

(* userWrapMap:                                                            *)
(* map = mremap(map, length, length, MREMAP_FIXED | MREMAP_MAYMOVE, area):*)
(* the pages move to area, replacing whatever is mapped there.  Its       *)
(* check map == NULL never holds: PciDevice_registerDMABuffer refuses a   *)
(* NULL start and nothing sets map to NULL.  mremap fails when map is not *)
(* a mapping (EFAULT) or the ranges overlap (EINVAL), and may fail in any  *)
(* state (a start that is not page aligned, ENOMEM); map is then           *)
(* MAP_FAILED.                                                             *)
UserRemap ==
    /\ pc = "u_remap"
    /\ \/ /\ map \in Addrs /\ Span(map) \subseteq Addrs
          /\ Span(map) \cap Span(area) = {}
          /\ vm' = [b \in Addrs |-> IF b \in Span(area) THEN vm[map + (b - area)]
                                    ELSE IF b \in Span(map) THEN Free ELSE vm[b]]
          /\ map' = area
       \/ /\ map' = MAP_FAILED
          /\ UNCHANGED vm
    /\ pc' = "u_map2"
    /\ UNCHANGED <<type, map_two, area, result, others, wraps>>

(* Mutant: the error exit without the check map_two != map + length.     *)
UserMapSecond_no_align_check ==
    /\ pc = "u_map2"
    /\ \E a \in MmapPlaces(map + L, L) \cup {MAP_FAILED} :
          /\ a = MAP_FAILED => FreeRuns(L) = {}
          /\ LET m1 == IF a = MAP_FAILED THEN vm ELSE MapFile(vm, a, L)
                 ok == map # MAP_FAILED /\ a # MAP_FAILED
             IN /\ vm' = IF ok \/ a = MAP_FAILED THEN m1 ELSE Unmap(m1, a)
                /\ map_two' = IF ok THEN a ELSE MAP_FAILED
                /\ result' = IF ok THEN "ok" ELSE "fail"
    /\ pc' = "idle"
    /\ UNCHANGED <<type, map, area, others, wraps>>

(* map_two = mmap(map + length, length, ..., map_fd, 0) without MAP_FIXED;*)
(* then a failed call or map_two != map + length take the error exit,     *)
(* which munmaps map_two unless it is MAP_FAILED and sets it MAP_FAILED.  *)
UserMapSecond ==
    /\ pc = "u_map2"
    /\ \E a \in MmapPlaces(map + L, L) \cup {MAP_FAILED} :
          /\ a = MAP_FAILED => FreeRuns(L) = {}
          /\ LET m1 == IF a = MAP_FAILED THEN vm ELSE MapFile(vm, a, L)
                 ok == map # MAP_FAILED /\ a # MAP_FAILED /\ a = map + L
             IN /\ vm' = IF ok \/ a = MAP_FAILED THEN m1 ELSE Unmap(m1, a)
                /\ map_two' = IF ok THEN a ELSE MAP_FAILED
                /\ result' = IF ok THEN "ok" ELSE "fail"
    /\ pc' = "idle"
    /\ UNCHANGED <<type, map, area, others, wraps>>

-----------------------------------------------------------------------------
(* Mutant: the user branch of DMABuffer_free forgets map_two.            *)
DMABuffer_free_user_keeps_map_two ==
    /\ pc = "idle"
    /\ vm' = IF type = "kernel"
             THEN LET m1 == IF map_two # MAP_FAILED THEN Unmap(vm, map_two) ELSE vm
                  IN IF map # MAP_FAILED THEN Unmap(m1, map) ELSE m1
             ELSE vm
    /\ map' = MAP_FAILED /\ map_two' = MAP_FAILED
    /\ result' = IF type = "user" /\ map = MAP_FAILED THEN "fail" ELSE "ok"
    /\ pc' = "freed"
    /\ UNCHANGED <<type, area, others, wraps>>

(* DMABuffer_free, its unmapping: map_two is munmapped unless MAP_FAILED; *)
(* a kernel buffer's map too; a user buffer's map is munlocked, which     *)
(* fails on MAP_FAILED (the call then ends with an error).                 *)
DMABuffer_free ==
    /\ pc = "idle"
    /\ vm' = LET m1 == IF map_two # MAP_FAILED THEN Unmap(vm, map_two) ELSE vm
             IN IF type = "kernel" /\ map # MAP_FAILED THEN Unmap(m1, map) ELSE m1
    /\ map' = MAP_FAILED /\ map_two' = MAP_FAILED
    /\ result' = IF type = "user" /\ map = MAP_FAILED THEN "fail" ELSE "ok"
    /\ pc' = "freed"
    /\ UNCHANGED <<type, area, others, wraps>>

(* Another thread of the process maps OtherLen pages of anonymous memory. *)
OtherThreadMap ==
    /\ others < MaxOther
    /\ \E a \in FreeRuns(OtherLen) :
          vm' = [b \in Addrs |-> IF b \in Run(a, OtherLen) THEN [o |-> "other", k |-> 0]
                                 ELSE vm[b]]
    /\ others' = others + 1
    /\ UNCHANGED <<type, map, map_two, area, pc, result, wraps>>

Init ==
    /\ type \in Types
    /\ \E s \in Starts :
          /\ vm = [b \in Addrs |-> IF b \in HeapPages THEN [o |-> "heap", k |-> 0]
                                   ELSE IF b \in Span(s)
                                        THEN [o |-> IF type = "kernel" THEN "file" ELSE "user",
                                              k |-> b - s]
                                   ELSE Free]
          /\ map = s
    /\ map_two = MAP_FAILED
    /\ area = NULL
    /\ pc = "idle"
    /\ result = "none"
    /\ others = 0
    /\ wraps = 0

Next ==
    \/ DMABuffer_wrapMap
    \/ KernelUnmap
    \/ KernelMapTwice
    \/ KernelFallback
    \/ UserRemap
    \/ UserMapSecond
    \/ DMABuffer_free
    \/ OtherThreadMap

Spec == Init /\ [][Next]_vars

-----------------------------------------------------------------------------
(* Properties.                                                             *)

Views == (IF map \in Addrs THEN Span(map) ELSE {}) \cup
         (IF map_two \in Addrs THEN Span(map_two) ELSE {})

TypeOK ==
    /\ type \in {"kernel", "user"}
    /\ vm \in [Addrs -> Page]
    /\ map \in Addrs \cup {MAP_FAILED, NULL, MAP_FAILED + L}
    /\ map_two \in Addrs \cup {MAP_FAILED, NULL, MAP_FAILED + L} \cup {a + L : a \in Addrs}
    /\ pc \in {"idle", "k_unmap", "k_map2", "k_fallback", "u_remap", "u_map2", "freed"}
    /\ result \in {"none", "ok", "fail"}
    /\ others \in 0..MaxOther /\ wraps \in 0..MaxWraps

(* After DMABuffer_wrapMap returns PDA_SUCCESS, map_two == map + length   *)
(* and both mappings show the buffer's pages in order, so map[i] and      *)
(* map_two[i] are the same byte for every i < length (the wrap-map test). *)
WrapContiguous ==
    (pc = "idle" /\ result = "ok" /\ wraps > 0) =>
        /\ map_two = map + L
        /\ IsView(vm, map) /\ IsView(vm, map_two)

(* Between calls, every mapping of the buffer's map file is one that      *)
(* buffer->map or buffer->map_two refers to, and after DMABuffer_free     *)
(* none is left: no failure path of the wrap-mapper leaks a mapping.      *)
NoStrayView ==
    pc \in {"idle", "freed"} =>
        {b \in Addrs : vm[b].o = "file"} \subseteq (IF pc = "idle" THEN Views ELSE {})

(* The wrap-mapper never replaces memory it does not own: no step changes *)
(* a page of the malloc arena or of another thread (MREMAP_FIXED and       *)
(* MAP_FIXED replace silently).                                            *)
NoClobber ==
    [][\A b \in Addrs : vm[b].o \in {"heap", "other"} => vm'[b] = vm[b]]_vars

(* Spec 4.3, failure semantics: a failed wrap-map is not fatal.  Between  *)
(* calls buffer->map is a whole mapping of the buffer, and map_two is     *)
(* either marked invalid (MAP_FAILED) or the mapping right behind map.    *)
FailureNonFatal ==
    pc = "idle" =>
        /\ IsView(vm, map)
        /\ map_two # MAP_FAILED => map_two = map + L /\ IsView(vm, map_two)

=============================================================================
