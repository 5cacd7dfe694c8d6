--------------------------- MODULE DMAScatterGather ---------------------------
(***************************************************************************)
(* How the memory of a DMA buffer is described to the device and to the   *)
(* CPU.                                                                    *)
(*                                                                         *)
(* Kernel (uio_pci_dma.c): a kernel-backed buffer is allocated as a run   *)
(* of power-of-two blocks of physical frames, a user-registered one pins  *)
(* the caller's pages; dma_map_sg gives each scatter entry a device       *)
(* address (and with an IOMMU may merge entries); the entries of a kernel *)
(* buffer are sorted by device address; convert_sg exposes them as the    *)
(* "sg" file and pfn_list says which frame backs each page of the "map"   *)
(* file.                                                                   *)
(*                                                                         *)
(* User space (DMABuffer_loadSGList, DMABuffer_coalesqueSGlist): the "sg" *)
(* file is read into a list of nodes with cumulative user offsets and     *)
(* coalesced.                                                              *)
(*                                                                         *)
(* Sizes and addresses are in units; a page is PageSize units.  Frames    *)
(* and IOVA pages are page numbers.                                        *)
(***************************************************************************)
EXTENDS Integers, Sequences, SequencesExt, FiniteSets

CONSTANTS
    Names,        \* buffer names (kset objects)
    PageSize,     \* units per page
    MaxOrder,     \* MAX_ORDER: blocks have at most 2^(MaxOrder-1) frames
    Frames,       \* physical frames the page allocator hands out
    UserFrames,   \* frames of the caller's memory a registration may pin
    IovaBases,    \* IOVA pages where dma_map_sg may start a mapping
    IommuModes,   \* which dma_map_sg the platform has (see MapSG)
    MaxSegPages,  \* the device's max DMA segment size, in pages
    KernelSizes,  \* sizes passed to PciDevice_allocDMABuffer
    UserSizes     \* sizes passed to PciDevice_registerDMABuffer

ASSUME PageSize \in Nat \ {0} /\ MaxOrder \in Nat \ {0}
ASSUME IommuModes \subseteq {"direct", "iommu", "iommu_merge"}

Pages(size) == (size + PageSize - 1) \div PageSize   \* size / PAGE_SIZE, rounded up
Pow2(o) == 2^o

(* A scatter entry after dma_map_sg: the physical block (sg_page, length) *)
(* and the DMA segment (sg_dma_address, sg_dma_len) it carries.           *)
Entry == [frame : Nat, plen : Nat, dma : Nat, dlen : Nat]
(* A DMABuffer_SGNode: user offset, device address, length (units). *)
SGNode == [u : Nat, d : Nat, len : Nat]

NoBuffer == [kind |-> "none"]

VARIABLES
    mode,   \* the platform's dma_map_sg behaviour, fixed at boot
    pool,   \* frames free in the page allocator
    kb,     \* kb[n]: the uio_pci_dma_private of buffer n, or NoBuffer
    sgl,    \* sgl[n]: the coalesced DMABuffer sglist, <<>> until loaded
    ulen    \* ulen[n]: buffer->length in the user-space DMABuffer

vars == <<mode, pool, kb, sgl, ulen>>

-----------------------------------------------------------------------------
(* The page allocator.                                                     *)

Block(f, pages) == {f + j : j \in 0..(pages - 1)}

(* get_order(size): the least order whose block holds all pages. *)
GetOrder(pages) == CHOOSE o \in 0..pages : Pow2(o) >= pages /\
                        \A q \in 0..(o - 1) : Pow2(q) < pages

(* The inner loop: while ((1 << order) > pages_left) order--. *)
Lower(left, order) == CHOOSE o \in 0..order : Pow2(o) =< left /\
                          \A q \in (o + 1)..order : Pow2(q) > left

(* The orders of the blocks uio_pci_dma_allocate_kernel_memory allocates. *)
RECURSIVE ChunkOrders(_, _)
ChunkOrders(left, order) ==
    IF left = 0 THEN <<>>
    ELSE LET o == Lower(left, order) IN
         <<o>> \o ChunkOrders(left - Pow2(o), o)

(* The frame sets alloc_pages may return for those orders: naturally      *)
(* aligned free blocks, pairwise disjoint.                                 *)
Placements(ords) ==
    {fr \in [1..Len(ords) -> pool] :
        /\ \A k \in 1..Len(ords) :
              /\ fr[k] % Pow2(ords[k]) = 0
              /\ Block(fr[k], Pow2(ords[k])) \subseteq pool
        /\ \A k, l \in 1..Len(ords) :
              k # l => Block(fr[k], Pow2(ords[k])) \cap Block(fr[l], Pow2(ords[l])) = {}}

-----------------------------------------------------------------------------
(* dma_map_sg and the kernel's use of its result.                          *)

(* Pages before entry k in a list of physical blocks. *)
Before(phys, k) == FoldLeft(+, 0, [j \in 1..(k - 1) |-> phys[j].plen])

(* The IOVA pages an IOMMU maps for the list, in list order from base. *)
IovaMap(phys, base) ==
    [v \in base..(base + Before(phys, Len(phys) + 1) - 1)
        |-> LET k == CHOOSE k \in 1..Len(phys) :
                        v - base - Before(phys, k) \in 0..(phys[k].plen - 1)
            IN phys[k].frame + (v - base - Before(phys, k))]

(* The DMA segments of an IOMMU that merges IOVA-contiguous entries as   *)
(* long as a segment stays within MaxSegPages: lengths in pages.          *)
RECURSIVE MergedLens(_, _)
MergedLens(lens, cur) ==
    IF lens = <<>> THEN <<cur>>
    ELSE IF cur + Head(lens) =< MaxSegPages
         THEN MergedLens(Tail(lens), cur + Head(lens))
         ELSE <<cur>> \o MergedLens(Tail(lens), Head(lens))

(* program_iommu: dma_map_sg over the physical blocks, with             *)
(* count = its return value.  "direct": no IOMMU, dma address = physical  *)
(* address.  "iommu": one IOVA range from base, entry by entry.           *)
(* "iommu_merge": the same range, split into merged segments that are     *)
(* written to the first count entries; the blocks stay where they were.  *)
MapSG(m, phys, base) ==
    LET n == Len(phys)
        segs == IF m = "iommu_merge"
                THEN MergedLens(Tail([k \in 1..n |-> phys[k].plen]), phys[1].plen)
                ELSE [k \in 1..n |-> phys[k].plen]
        segStart(i) == base + FoldLeft(+, 0, [j \in 1..(i - 1) |-> segs[j]])
    IN [count |-> Len(segs),
        ent |-> [k \in 1..n |->
                   [frame |-> phys[k].frame, plen |-> phys[k].plen,
                    dma |-> IF m = "direct" THEN phys[k].frame * PageSize
                            ELSE IF k =< Len(segs) THEN segStart(k) * PageSize
                            ELSE 0,
                    dlen |-> IF k =< Len(segs) THEN segs[k] * PageSize ELSE 0]],
        iotlb |-> IF m = "direct" THEN <<>> ELSE IovaMap(phys, base)]

(* sort(priv->sg, priv->length, ..., sort_sg_compare, sort_sg_swap): the  *)
(* first count entries, whole structs, by ascending dma address.          *)
SortSG(ent, count) ==
    SetToSortSeq({ent[k] : k \in 1..count}, LAMBDA a, b : a.dma < b.dma)
        \o SubSeq(ent, count + 1, Len(ent))

(* convert_sg: the records of the "sg" file. *)
ConvertSG(ent, count) == [k \in 1..count |-> [d |-> ent[k].dma, len |-> ent[k].dlen]]

(* Mutant: the pfn of page j of an entry counted from 1 instead of 0. *)
PfnList_off_by_one(ent, count) ==
    FlattenSeq([k \in 1..count |->
                  [j \in 1..(ent[k].dlen \div PageSize) |-> ent[k].frame + j]])

(* The pfn_list of a kernel buffer: for each of the first count entries,  *)
(* sg_dma_len >> PAGE_SHIFT frames counted on from sg_page.               *)
PfnList(ent, count) ==
    FlattenSeq([k \in 1..count |->
                  [j \in 1..(ent[k].dlen \div PageSize) |-> ent[k].frame + j - 1]])

(* The device's view: the frame behind a device address. *)
DevFrame(m, iotlb, d) == IF m = "direct" THEN d \div PageSize ELSE iotlb[d \div PageSize]

-----------------------------------------------------------------------------
(* User space: DMABuffer_loadSGList and DMABuffer_coalesqueSGlist.        *)

(* The nodes built from the "sg" records, in array order: each user       *)
(* offset is the previous one plus the previous length, from the mapping. *)
BuildSG(recs) ==
    [k \in 1..Len(recs) |->
        [u |-> FoldLeft(+, 0, [j \in 1..(k - 1) |-> recs[j].len]),
         d |-> recs[k].d, len |-> recs[k].len]]

(* Mutant: the absorbed successor keeps its length. *)
RECURSIVE CoalescePass_no_zero(_, _, _)
CoalescePass_no_zero(l, i, merges) ==
    IF i >= Len(l) THEN <<l, merges>>
    ELSE IF l[i].len = 0 \/ l[i].d + l[i].len # l[i + 1].d
         THEN CoalescePass_no_zero(l, i + 1, merges)
         ELSE CoalescePass_no_zero([l EXCEPT ![i].len = l[i].len + l[i + 1].len],
                                   i + 1, merges + 1)

(* One scan of the coalescer from node i on: a node that is not empty and *)
(* not the last absorbs its successor when d + length = next d, and the   *)
(* successor's length becomes 0.  Returns the list and the merge count.   *)
RECURSIVE CoalescePass(_, _, _)
CoalescePass(l, i, merges) ==
    IF i >= Len(l) THEN <<l, merges>>
    ELSE IF l[i].len = 0 \/ l[i].d + l[i].len # l[i + 1].d
         THEN CoalescePass(l, i + 1, merges)
         ELSE CoalescePass([l EXCEPT ![i].len = l[i].len + l[i + 1].len,
                                     ![i + 1].len = 0], i + 1, merges + 1)

NonEmpty(l) == FoldLeft(LAMBDA acc, x : IF x.len # 0 THEN Append(acc, x) ELSE acc, <<>>, l)

(* Mutant: one scan and compaction, no recursion. *)
DMABuffer_coalesqueSGlist_once(l) ==
    LET scan == CoalescePass(l, 1, 0) IN
    IF scan[2] = 0 THEN l ELSE NonEmpty(scan[1])

(* DMABuffer_coalesqueSGlist: scan; stop when nothing merged; otherwise   *)
(* copy the nonempty nodes into a new list (a count j that is not the     *)
(* expected one is an error that keeps the scanned list) and recurse.     *)
RECURSIVE DMABuffer_coalesqueSGlist(_)
DMABuffer_coalesqueSGlist(l) ==
    LET scan == CoalescePass(l, 1, 0) IN
    IF scan[2] = 0 THEN l
    ELSE IF Len(NonEmpty(scan[1])) # Len(l) - scan[2] THEN scan[1]
    ELSE DMABuffer_coalesqueSGlist(NonEmpty(scan[1]))

(* The reference: a node per maximal run of consecutive device-contiguous *)
(* records, in order.                                                      *)
RefCoalesce(l) ==
    FoldLeft(LAMBDA acc, x :
                IF acc # <<>> /\ Last(acc).d + Last(acc).len = x.d
                THEN [acc EXCEPT ![Len(acc)].len = @ + x.len]
                ELSE Append(acc, x),
             <<>>, l)

(* The device address a node list gives a user offset. *)
DevAddr(l, off) ==
    LET k == CHOOSE k \in 1..Len(l) : off - l[k].u \in 0..(l[k].len - 1)
    IN l[k].d + (off - l[k].u)

-----------------------------------------------------------------------------
(* Kernel handlers and library calls.                                      *)

(* request_buffer_write with start == 0: uio_pci_dma_allocate_kernel_memory *)
(* (blocks, program_iommu, sort, convert_sg, pfn_list), then DMABuffer_map *)
(* sets buffer->length to the size of the map file.                        *)
AllocateKernelMemory(n) ==
    /\ kb[n] = NoBuffer
    /\ \E size \in KernelSizes :
         LET pages == Pages(size)
             ords == ChunkOrders(pages, IF GetOrder(pages) > MaxOrder - 1
                                        THEN MaxOrder - 1 ELSE GetOrder(pages))
         IN \E fr \in Placements(ords), base \in IovaBases :
              LET phys == [k \in 1..Len(ords) |-> [frame |-> fr[k], plen |-> Pow2(ords[k])]]
                  m == MapSG(mode, phys, base)
                  ent == SortSG(m.ent, m.count)
              IN /\ \A q \in Names : kb[q] # NoBuffer =>
                        DOMAIN m.iotlb \cap DOMAIN kb[q].iotlb = {}
                 /\ pool' = pool \ UNION {Block(fr[k], Pow2(ords[k])) : k \in 1..Len(ords)}
                 /\ kb' = [kb EXCEPT ![n] =
                            [kind |-> "kernel", pages |-> pages, ent |-> ent,
                             count |-> m.count, iotlb |-> m.iotlb,
                             scatter |-> ConvertSG(ent, m.count),
                             cpu |-> PfnList(ent, m.count)]]
                 /\ ulen' = [ulen EXCEPT ![n] = pages * PageSize]
    /\ UNCHANGED <<mode, sgl>>

(* request_buffer_write with start != 0: uio_pci_dma_allocate_user_memory *)
(* (get_user_pages in virtual order, one entry per page, program_iommu,   *)
(* convert_sg, no sort).  The user-space DMABuffer keeps the length the   *)
(* caller passed and maps the caller's own pages.                          *)
AllocateUserMemory(n) ==
    /\ kb[n] = NoBuffer
    /\ \E size \in UserSizes :
         LET pages == Pages(size) IN
         \E up \in [1..pages -> UserFrames], base \in IovaBases :
            LET phys == [k \in 1..pages |-> [frame |-> up[k], plen |-> 1]]
                m == MapSG(mode, phys, base)
            IN /\ \A k, l \in 1..pages : k # l => up[k] # up[l]
               /\ \A q \in Names : kb[q] # NoBuffer =>
                     /\ DOMAIN m.iotlb \cap DOMAIN kb[q].iotlb = {}
                     /\ kb[q].kind = "user" => \A k \in 1..pages : up[k] \notin Range(kb[q].cpu)
               /\ kb' = [kb EXCEPT ![n] =
                          [kind |-> "user", pages |-> pages, ent |-> m.ent,
                           count |-> m.count, iotlb |-> m.iotlb,
                           scatter |-> ConvertSG(m.ent, m.count), cpu |-> up]]
               /\ ulen' = [ulen EXCEPT ![n] = size]
    /\ UNCHANGED <<mode, pool, sgl>>

(* DMABuffer_getSGList -> DMABuffer_loadSGList, once per buffer. *)
DMABuffer_loadSGList(n) ==
    /\ kb[n] # NoBuffer
    /\ sgl[n] = <<>>
    /\ sgl' = [sgl EXCEPT ![n] = DMABuffer_coalesqueSGlist(BuildSG(kb[n].scatter))]
    /\ UNCHANGED <<mode, pool, kb, ulen>>

(* Mutant: the loop stops one entry early. *)
UioPciDmaFree_skip_last(n) ==
    /\ kb[n] # NoBuffer
    /\ pool' = IF kb[n].kind = "kernel"
               THEN pool \cup UNION {Block(kb[n].ent[k].frame, kb[n].ent[k].plen) :
                                        k \in 1..(kb[n].count - 1)}
               ELSE pool
    /\ kb' = [kb EXCEPT ![n] = NoBuffer]
    /\ sgl' = [sgl EXCEPT ![n] = <<>>]
    /\ ulen' = [ulen EXCEPT ![n] = 0]
    /\ UNCHANGED mode

(* Mutant: a user buffer's pinned pages are handed to the page allocator. *)
UioPciDmaFree_frees_user(n) ==
    /\ kb[n] # NoBuffer
    /\ pool' = pool \cup UNION {Block(kb[n].ent[k].frame, kb[n].ent[k].plen) :
                                   k \in 1..kb[n].count}
    /\ kb' = [kb EXCEPT ![n] = NoBuffer]
    /\ sgl' = [sgl EXCEPT ![n] = <<>>]
    /\ ulen' = [ulen EXCEPT ![n] = 0]
    /\ UNCHANGED mode

(* delete_buffer_write -> uio_pci_dma_free: dma_unmap_sg, then for a      *)
(* kernel buffer uio_pci_dma_free_kernel_memory frees the blocks of the   *)
(* first priv->length (= count) entries; a user buffer's pages are put.   *)
UioPciDmaFree(n) ==
    /\ kb[n] # NoBuffer
    /\ pool' = IF kb[n].kind = "kernel"
               THEN pool \cup UNION {Block(kb[n].ent[k].frame, kb[n].ent[k].plen) :
                                        k \in 1..kb[n].count}
               ELSE pool
    /\ kb' = [kb EXCEPT ![n] = NoBuffer]
    /\ sgl' = [sgl EXCEPT ![n] = <<>>]
    /\ ulen' = [ulen EXCEPT ![n] = 0]
    /\ UNCHANGED mode

Init ==
    /\ mode \in IommuModes
    /\ pool = Frames
    /\ kb = [n \in Names |-> NoBuffer]
    /\ sgl = [n \in Names |-> <<>>]
    /\ ulen = [n \in Names |-> 0]

Next ==
    \E n \in Names :
        \/ AllocateKernelMemory(n)
        \/ AllocateUserMemory(n)
        \/ DMABuffer_loadSGList(n)
        \/ UioPciDmaFree(n)

Spec == Init /\ [][Next]_vars

-----------------------------------------------------------------------------
(* Properties.                                                             *)

(* The frames a kernel buffer's blocks hold, whatever dma_map_sg did.     *)
Held(n) == IF kb[n] # NoBuffer /\ kb[n].kind = "kernel"
           THEN UNION {Block(kb[n].ent[k].frame, kb[n].ent[k].plen) : k \in 1..Len(kb[n].ent)}
           ELSE {}

Loaded == {n \in Names : sgl[n] # <<>>}

SGLength(n) == FoldLeft(+, 0, [k \in 1..Len(sgl[n]) |-> sgl[n][k].len])

TypeOK ==
    /\ mode \in IommuModes
    /\ pool \subseteq Frames
    /\ \A n \in Names :
         \/ kb[n] = NoBuffer
         \/ /\ kb[n].kind \in {"kernel", "user"}
            /\ kb[n].ent \in Seq(Entry)
            /\ kb[n].cpu \in Seq(Frames \cup UserFrames)
            /\ Len(kb[n].cpu) = kb[n].pages
    /\ \A n \in Names : sgl[n] \in Seq(SGNode) /\ ulen[n] \in Nat

(* The nodes DMABuffer_loadSGList leaves cover the buffer exactly: their  *)
(* lengths sum to buffer->length, the length the user maps and uses.      *)
SGCoverage == \A n \in Loaded : SGLength(n) = ulen[n]

(* DMABuffer_coalesqueSGlist, for every "sg" file the kernel can produce, *)
(* returns one node per maximal run of device-contiguous records, with    *)
(* the user offsets of the first record of each run.                      *)
CoalesceMatchesReference ==
    \A n \in Loaded : sgl[n] = RefCoalesce(BuildSG(kb[n].scatter))

(* The CPU and the device see the same memory: for every page k of the    *)
(* buffer, the frame behind the device address the coalesced SG list     *)
(* gives offset k*PAGE_SIZE is the frame the map file maps at page k      *)
(* (pfn_list for a kernel buffer, the caller's page for a user one).      *)
ViewCoherent ==
    \A n \in Loaded : \A k \in 1..kb[n].pages :
        LET off == (k - 1) * PageSize IN
        /\ \E i \in 1..Len(sgl[n]) : off - sgl[n][i].u \in 0..(sgl[n][i].len - 1)
        /\ DevFrame(mode, kb[n].iotlb, DevAddr(sgl[n], off)) = kb[n].cpu[k]

(* Every frame is in exactly one place: free in the page allocator or in  *)
(* the blocks of one kernel buffer; freeing a buffer gives all of its     *)
(* blocks back (uio_pci_dma_free_kernel_memory).                          *)
FramesConserved ==
    /\ pool \cup UNION {Held(n) : n \in Names} = Frames
    /\ \A n \in Names : Held(n) \cap pool = {}
    /\ \A n, m \in Names : n # m => Held(n) \cap Held(m) = {}

=============================================================================
