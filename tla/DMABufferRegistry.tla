-------------------------- MODULE DMABufferRegistry --------------------------
(***************************************************************************)
(* The DMA buffer life cycle of PDA, seen from several processes that     *)
(* share one device.                                                       *)
(*                                                                         *)
(* Kernel side (uio_pci_dma.c): the named buffer objects of the device's  *)
(* "dma" kset.  A write to "request" creates one, a write to "free"       *)
(* deletes one; both handlers run under alloc_free_lock, so each is one   *)
(* atomic step here.                                                       *)
(*                                                                         *)
(* User side (dma_buffer.c, dma_buffer_inc.c, pci.c): every process has  *)
(* its own device object with a doubly linked list of DMABuffer structs  *)
(* on its heap; device->dma_buffer_list is the head pointer.  The list is *)
(* what the code has: next and prev pointers between heap cells, walked   *)
(* from the head by getNext, getTail, getHead and findNewIndex, with the  *)
(* head pointer maintained by hand.  A struct freed by free() keeps its   *)
(* index and links (glibc overwrites only its first 16 bytes, device and *)
(* type) until its cell is allocated again.                               *)
(*                                                                         *)
(* A handle of a kernel buffer holds the buffer's "map" file open with    *)
(* flock(LOCK_SH); freeing with PDA_DELETE first converts that lock to    *)
(* LOCK_EX|LOCK_NB.                                                        *)
(*                                                                         *)
(* A library call is split into one action per access to shared state    *)
(* (a kernel handler, an open+flock+mmap, a close), so the calls of        *)
(* different processes interleave where the code lets them.               *)
(***************************************************************************)
EXTENDS Integers, Sequences, SequencesExt, FiniteSets, Bags

CONSTANTS
    Procs,       \* the processes using the device
    Indices,     \* buffer indices (kset object names) the model uses
    Undefined,   \* PDA_BUFFER_INDEX_UNDEFINED: "pick the next index"
    Nil,         \* a NULL pointer
    MaxCreates,  \* bound: kernel buffer objects created in one behaviour
    MaxFds       \* bound: open map fds per process (RLIMIT_NOFILE)

ASSUME Indices \subseteq Nat /\ Undefined \notin Indices
ASSUME MaxCreates \in Nat /\ MaxFds \in Nat \ {0}

(* Heap cells a process can hold DMABuffer structs in: one per map fd it  *)
(* can have open, and one for a struct under construction.                 *)
Cells == 1..(MaxFds + 1)
Gens == 0..MaxCreates

(* A kset entry: "none" (absent), "ok" (memory and the map/sg files      *)
(* exist) or "zombie" (kobject added, allocation failed, priv freed).    *)
KEntry == [st : {"none", "ok", "zombie"}, gen : Gens, kind : {"kernel", "user"}]
NoEntry == [st |-> "none", gen |-> 0, kind |-> "kernel"]

(* A DMABuffer struct: its index, the kernel object it mapped, its type,  *)
(* its map_fd ("closed" for -1, else the flock it holds), its list links, *)
(* and its memory: "live", "freed" by DMABuffer_free (internal set to     *)
(* NULL before free) or "dropped" (never allocated, or freed by the exit  *)
(* path of DMABuffer_new).                                                 *)
Node == [idx : Indices, gen : Gens, kind : {"kernel", "user"},
         map_fd : {"closed", "none", "sh", "ex"},
         next : Cells \cup {Nil}, prev : Cells \cup {Nil},
         heap : {"live", "freed", "dropped"}]
Unallocated == [idx |-> CHOOSE i \in Indices : TRUE, gen |-> 0, kind |-> "kernel",
                map_fd |-> "closed", next |-> Nil, prev |-> Nil, heap |-> "dropped"]

(* DMABuffer_alloc: a zeroed struct (calloc) of the given type. *)
Fresh(kind) == [Unallocated EXCEPT !.kind = kind, !.heap = "live"]

(* An open map fd no struct owns any more. *)
Orphan == [idx : Indices, gen : Gens, lock : {"none", "sh", "ex"}]

PCs == {"idle", "alloc_map", "reg_map", "get", "free_close", "free_write",
        "devdel", "freeall", "sweep", "hung"}
Op == [call : {"none", "alloc", "register", "get", "delete", "devdel", "freeall"},
       idx : Indices \cup {Undefined}, ok : BOOLEAN, slot : Cells \cup {Nil},
       cur : Cells \cup {Nil}, back : {"idle", "devdel", "freeall"},
       persist : BOOLEAN]
NoOp == [call |-> "none", idx |-> Undefined, ok |-> TRUE, slot |-> Nil,
         cur |-> Nil, back |-> "idle", persist |-> FALSE]

VARIABLES
    kbuf,     \* kbuf[n]: the kset entry named n
    created,  \* kernel objects created so far (names their generation)
    nodes,    \* nodes[p][c]: the DMABuffer struct in heap cell c of p
    head,     \* head[p]: device->dma_buffer_list of p's device
    orphans,  \* orphans[p]: bag of p's leaked map fds
    pc,       \* pc[p]: where p is inside a library call
    op,       \* op[p]: the arguments and locals of that call
    result    \* result[p]: what p's last library call returned

vars == <<kbuf, created, nodes, head, orphans, pc, op, result>>

-----------------------------------------------------------------------------
(* The list as the code walks it (dma_buffer.c).                           *)

(* The cells met following the links named fld from cell c, in order, up *)
(* to the first NULL pointer or the first cell met a second time.         *)
RECURSIVE Walk(_, _, _, _)
Walk(f, fld, c, seen) ==
    IF c = Nil \/ c \in ToSet(seen) THEN seen
    ELSE Walk(f, fld, f[c][fld], Append(seen, c))

Path(f, fld, c) == Walk(f, fld, c, <<>>)

(* The links from c never reach NULL: a loop over them never ends. *)
Endless(f, fld, c) ==
    LET w == Path(f, fld, c) IN w # <<>> /\ f[Last(w)][fld] # Nil

(* The cells p's list reaches from its head pointer. *)
Listed(p) == ToSet(Path(nodes[p], "next", head[p]))

Live(p) == {c \in Cells : nodes[p][c].heap = "live"}

(* Open map fds of p: one per live struct with map_fd >= 0, and every     *)
(* leaked one.                                                             *)
OpenFds(p) ==
    Cardinality({c \in Live(p) : nodes[p][c].map_fd # "closed"})
        + BagCardinality(orphans[p])

TypeOK ==
    /\ kbuf \in [Indices -> KEntry]
    /\ created \in Gens
    /\ nodes \in [Procs -> [Cells -> Node]]
    /\ head \in [Procs -> Cells \cup {Nil}]
    /\ \A p \in Procs : IsABag(orphans[p]) /\ BagToSet(orphans[p]) \subseteq Orphan
    /\ pc \in [Procs -> PCs]
    /\ op \in [Procs -> Op]
    /\ result \in [Procs -> {"none", "ok", "fail"}]
    /\ \A p \in Procs : OpenFds(p) =< MaxFds

(* DMABuffer_findNewIndex(i, &dma_buffer_list) for the struct in cell c,  *)
(* on heap f: it walks next from the head and sscanf's internal->name of  *)
(* every struct for the largest index, one more than that (0 for an empty *)
(* list), replaced by i when i is defined.  c itself has no name yet.      *)
(* The walk crashes on a struct DMABuffer_free freed (internal is NULL);  *)
(* one freed by DMABuffer_new's exit has a dangling internal, read as its *)
(* old name or a crash; a loop in the links never ends.                    *)
DMABuffer_findNewIndex(f, h, c, i) ==
    LET w == ToSet(Path(f, "next", h)) \ {c}
        n == IF h = Nil THEN 0
             ELSE Max({0} \cup {f[s].idx : s \in w}) + 1
        found == [out |-> "ok", n |-> IF i # Undefined THEN i ELSE n]
    IN
    IF \E s \in w : f[s].heap = "freed" THEN {[out |-> "crash", n |-> Undefined]}
    ELSE IF Endless(f, "next", h) THEN {[out |-> "hang", n |-> Undefined]}
    ELSE IF \E s \in w : f[s].heap = "dropped"
         THEN {found, [out |-> "crash", n |-> Undefined]}
    ELSE {found}

(* DMABuffer_addNode(&dma_buffer_list, c): c's links are cleared; an      *)
(* empty list gets c as head, otherwise getTail walks next from the head  *)
(* (through freed structs by their stale links) and c goes after the tail.*)
Cleared(f, c) == [f EXCEPT ![c].next = Nil, ![c].prev = Nil]

TailLoops(f, h, c) == h # Nil /\ Endless(Cleared(f, c), "next", h)

AddNode(f, h, c) ==
    LET g == Cleared(f, c)
        t == Last(Path(g, "next", h))
    IN IF h = Nil THEN g ELSE [g EXCEPT ![t].next = c, ![c].prev = t]

NewHead(p, c) == [head EXCEPT ![p] = IF @ = Nil THEN c ELSE @]

(* DMABuffer_removeNode: s's neighbours are linked to each other, s keeps *)
(* its own links; the device's head pointer is not touched.                *)
RemoveNode(f, s) ==
    LET pr == f[s].prev
        nx == f[s].next
    IN [c \in DOMAIN f |->
          IF c = pr THEN [f[c] EXCEPT !.next = nx]
          ELSE IF c = nx THEN [f[c] EXCEPT !.prev = pr]
          ELSE f[c]]

(* The end of DMABuffer_free and of its exit_free: free(internal) and     *)
(* internal = NULL, removeNode, free(buffer).                              *)
Freed(f, s) == [RemoveNode(f, s) EXCEPT ![s].heap = "freed", ![s].map_fd = "closed"]

(* DMABuffer_new's exit path: free(internal), free(buffer); never linked. *)
Dropped(f, c) == [f EXCEPT ![c].heap = "dropped", ![c].map_fd = "closed"]

(* DMABuffer_getHead: walk prev to the first struct. *)
GetHead(f, h) == IF h = Nil THEN Nil ELSE Last(Path(f, "prev", h))

(* The flocks on map file (n, g) held by other open fds than cell s of p.  *)
LockedElsewhere(p, s, n, g, modes) ==
    \/ \E q \in Procs : \E t \in Live(q) :
          /\ <<q, t>> # <<p, s>>
          /\ nodes[q][t].idx = n /\ nodes[q][t].gen = g
          /\ nodes[q][t].map_fd \in modes
    \/ \E q \in Procs : \E o \in BagToSet(orphans[q]) :
          o.idx = n /\ o.gen = g /\ o.lock \in modes

Mappable(p, n) ==
    /\ n \in Indices
    /\ kbuf[n].st = "ok"
    /\ ~LockedElsewhere(p, Nil, n, kbuf[n].gen, {"ex"})
    /\ OpenFds(p) < MaxFds

(* Return from a library call with the given result. *)
Return(p, ok) ==
    /\ pc' = [pc EXCEPT ![p] = "idle"]
    /\ op' = [op EXCEPT ![p] = NoOp]
    /\ result' = [result EXCEPT ![p] = IF ok THEN "ok" ELSE "fail"]

(* A loop over the links that never meets NULL: p stays in the library   *)
(* call for good.  f is p's heap after the call's steps so far.            *)
Hang(p, f) ==
    /\ nodes' = [nodes EXCEPT ![p] = f]
    /\ pc' = [pc EXCEPT ![p] = "hung"]
    /\ UNCHANGED <<kbuf, created, head, orphans, op, result>>

(* The process ends (exit, a crash, a kill) at any point: its mappings,   *)
(* fds and flocks go away; kernel buffer objects stay.                     *)
ProcessExit(p) ==
    /\ nodes' = [nodes EXCEPT ![p] = [c \in Cells |-> Unallocated]]
    /\ head' = [head EXCEPT ![p] = Nil]
    /\ orphans' = [orphans EXCEPT ![p] = EmptyBag]
    /\ pc' = [pc EXCEPT ![p] = "idle"]
    /\ op' = [op EXCEPT ![p] = NoOp]
    /\ result' = [result EXCEPT ![p] = "none"]
    /\ UNCHANGED <<kbuf, created>>

(* Continue the caller of DMABuffer_free: return from a single delete, or  *)
(* go on with the loop of DMABuffer_freeAllBuffersInt, summing the result. *)
Back(p, o, ok) ==
    \/ /\ o.back = "idle"
       /\ Return(p, ok)
    \/ /\ o.back # "idle"
       /\ pc' = [pc EXCEPT ![p] = o.back]
       /\ op' = [op EXCEPT ![p] = [o EXCEPT !.ok = o.ok /\ ok, !.slot = Nil]]
       /\ UNCHANGED result

-----------------------------------------------------------------------------
(* Kernel handlers, each atomic under alloc_free_lock.                    *)

(* uio_pci_dma_request_buffer_write; ok is whether write() succeeded.     *)
(* kzalloc may fail; an existing name (a zombie too) is rejected; after   *)
(* kobject_add the allocation may fail, and that exit path frees priv     *)
(* without kobject_del, leaving a zombie entry in the kset.               *)
RequestBuffer(n, kind, ok) ==
    \/ /\ kbuf[n].st = "none"
       /\ ~ok
       /\ UNCHANGED <<kbuf, created>>
    \/ /\ kbuf[n].st # "none"
       /\ ~ok
       /\ UNCHANGED <<kbuf, created>>
    \/ /\ kbuf[n].st = "none"
       /\ created < MaxCreates
       /\ created' = created + 1
       /\ \/ ok /\ kbuf' = [kbuf EXCEPT ![n] =
                    [st |-> "ok", gen |-> created + 1, kind |-> kind]]
          \/ ~ok /\ kbuf' = [kbuf EXCEPT ![n] =
                    [st |-> "zombie", gen |-> created + 1, kind |-> kind]]

(* uio_pci_dma_delete_buffer_write: removes whatever object has the name; *)
(* an unknown name is only logged and write() still succeeds.             *)
DeleteBuffer(n) == kbuf' = [kbuf EXCEPT ![n] = NoEntry]

-----------------------------------------------------------------------------
(* Library calls.                                                          *)

(* PciDevice_allocDMABuffer -> DMABuffer_new(PDA_BUFFER_KERNEL) up to     *)
(* DMABuffer_requestMemory: DMABuffer_alloc (calloc may hand back any free *)
(* cell, a freed struct's among them), findNewIndex, the request.          *)
PciDevice_allocDMABuffer(p, i) ==
    /\ pc[p] = "idle"
    /\ \E c \in Cells \ Live(p) :
       LET f == [nodes[p] EXCEPT ![c] = Fresh("kernel")] IN
       \E r \in DMABuffer_findNewIndex(f, head[p], c, i) :
          \/ /\ r.out = "crash"
             /\ ProcessExit(p)
          \/ /\ r.out = "hang"
             /\ Hang(p, f)
          \/ /\ r.out = "ok"
             /\ r.n \in Indices
             /\ \E ok \in BOOLEAN :
                   /\ RequestBuffer(r.n, "kernel", ok)
                   /\ nodes' = [nodes EXCEPT ![p] = [f EXCEPT ![c].idx = r.n]]
                   /\ pc' = [pc EXCEPT ![p] = "alloc_map"]
                   /\ op' = [op EXCEPT ![p] = [NoOp EXCEPT !.call = "alloc",
                                 !.idx = r.n, !.ok = ok, !.slot = c]]
             /\ UNCHANGED <<head, orphans, result>>

(* The rest of DMABuffer_new(PDA_BUFFER_KERNEL): DMABuffer_map runs even  *)
(* when the request failed (ret += ...); on success addNode.  The exit    *)
(* path frees the struct only, so a mapping made anyway keeps its fd and  *)
(* LOCK_SH.                                                                *)
DMABuffer_new_map(p) ==
    LET c == op[p].slot
        n == op[p].idx
        f == [nodes[p] EXCEPT ![c].gen = kbuf[n].gen, ![c].map_fd = "sh"]
    IN
    /\ pc[p] = "alloc_map"
    /\ \/ /\ Mappable(p, n) /\ op[p].ok /\ TailLoops(f, head[p], c)
          /\ Hang(p, f)
       \/ /\ Mappable(p, n) /\ op[p].ok /\ ~TailLoops(f, head[p], c)
          /\ nodes' = [nodes EXCEPT ![p] = AddNode(f, head[p], c)]
          /\ head' = NewHead(p, c)
          /\ Return(p, TRUE)
          /\ UNCHANGED orphans
       \/ /\ Mappable(p, n) /\ ~op[p].ok
          /\ orphans' = [orphans EXCEPT ![p] =
                           @ (+) SetToBag({[idx |-> n, gen |-> kbuf[n].gen, lock |-> "sh"]})]
          /\ nodes' = [nodes EXCEPT ![p] = Dropped(@, c)]
          /\ Return(p, FALSE)
          /\ UNCHANGED head
       \/ /\ ~Mappable(p, n)
          /\ nodes' = [nodes EXCEPT ![p] = Dropped(@, c)]
          /\ Return(p, FALSE)
          /\ UNCHANGED <<head, orphans>>
    /\ UNCHANGED <<kbuf, created>>

(* PciDevice_registerDMABuffer -> DMABuffer_new(PDA_BUFFER_USER) up to    *)
(* DMABuffer_requestMemory; a failed request takes the exit path, and the *)
(* call still goes on to the trailing PciDevice_getDMABuffer(index).       *)
PciDevice_registerDMABuffer(p, i) ==
    /\ pc[p] = "idle"
    /\ \E c \in Cells \ Live(p) :
       LET f == [nodes[p] EXCEPT ![c] = Fresh("user")] IN
       \E r \in DMABuffer_findNewIndex(f, head[p], c, i) :
          \/ /\ r.out = "crash"
             /\ ProcessExit(p)
          \/ /\ r.out = "hang"
             /\ Hang(p, f)
          \/ /\ r.out = "ok"
             /\ r.n \in Indices
             /\ \E ok \in BOOLEAN :
                   /\ RequestBuffer(r.n, "user", ok)
                   /\ nodes' = [nodes EXCEPT ![p] =
                                  IF ok THEN [f EXCEPT ![c].idx = r.n]
                                  ELSE Dropped([f EXCEPT ![c].idx = r.n], c)]
                   /\ pc' = [pc EXCEPT ![p] = IF ok THEN "reg_map" ELSE "get"]
                   /\ op' = [op EXCEPT ![p] = [NoOp EXCEPT !.call = "register",
                                 !.idx = i, !.ok = ok, !.slot = IF ok THEN c ELSE Nil]]
             /\ UNCHANGED <<head, orphans, result>>

(* DMABuffer_mapUser (open the map file, no flock) and DMABuffer_addNode, *)
(* then on to PciDevice_getDMABuffer(index).                               *)
DMABuffer_mapUser(p) ==
    LET c == op[p].slot
        n == nodes[p][c].idx
        f == [nodes[p] EXCEPT ![c].gen = kbuf[n].gen, ![c].map_fd = "none"]
        opened == kbuf[n].st = "ok" /\ OpenFds(p) < MaxFds
    IN
    /\ pc[p] = "reg_map"
    /\ \/ /\ opened /\ TailLoops(f, head[p], c)
          /\ Hang(p, f)
       \/ /\ opened /\ ~TailLoops(f, head[p], c)
          /\ nodes' = [nodes EXCEPT ![p] = AddNode(f, head[p], c)]
          /\ head' = NewHead(p, c)
          /\ pc' = [pc EXCEPT ![p] = "get"]
          /\ op' = [op EXCEPT ![p].slot = Nil]
          /\ UNCHANGED <<kbuf, created, orphans, result>>
       \/ /\ ~opened
          /\ nodes' = [nodes EXCEPT ![p] = Dropped(@, c)]
          /\ pc' = [pc EXCEPT ![p] = "get"]
          /\ op' = [op EXCEPT ![p].ok = FALSE, ![p].slot = Nil]
          /\ UNCHANGED <<kbuf, created, head, orphans, result>>

(* PciDevice_getDMABuffer: the call. *)
PciDevice_getDMABuffer(p, i) ==
    /\ pc[p] = "idle"
    /\ pc' = [pc EXCEPT ![p] = "get"]
    /\ op' = [op EXCEPT ![p] = [NoOp EXCEPT !.call = "get", !.idx = i]]
    /\ UNCHANGED <<kbuf, created, nodes, head, orphans, result>>

(* DMABuffer_new(PDA_BUFFER_LOOKUP) of index i in cell c on heap f: the  *)
(* kernel object named findNewIndex(i) is mapped as a KERNEL struct and   *)
(* added to the list, and getDMABuffer calls itself; if it does not exist *)
(* or cannot be mapped, the exit path frees the struct and the call fails. *)
Lookup(p, c, f, n) ==
    LET g == [f EXCEPT ![c].idx = n, ![c].gen = kbuf[n].gen, ![c].map_fd = "sh"]
    IN
    \/ /\ Mappable(p, n) /\ TailLoops(g, head[p], c)
       /\ Hang(p, g)
    \/ /\ Mappable(p, n) /\ ~TailLoops(g, head[p], c)
       /\ nodes' = [nodes EXCEPT ![p] = AddNode(g, head[p], c)]
       /\ head' = NewHead(p, c)
       /\ UNCHANGED <<kbuf, created, orphans, pc, op, result>>
    \/ /\ ~Mappable(p, n)
       /\ nodes' = [nodes EXCEPT ![p] = Dropped(f, c)]
       /\ Return(p, FALSE)
       /\ UNCHANGED <<kbuf, created, head, orphans>>

(* The lookup part of one round of PciDevice_getDMABuffer. *)
LookupStep(p, i) ==
    \E c \in Cells \ Live(p) :
       LET f == [nodes[p] EXCEPT ![c] = Fresh("kernel")] IN
       \E r \in DMABuffer_findNewIndex(f, head[p], c, i) :
          \/ /\ r.out = "crash"
             /\ ProcessExit(p)
          \/ /\ r.out = "hang"
             /\ Hang(p, f)
          \/ /\ r.out = "ok"
             /\ Lookup(p, c, f, r.n)

(* One round of PciDevice_getDMABuffer: getNext from the head pointer,    *)
(* reading each struct's index (a freed struct's stale one too) and       *)
(* returning the first with index i; at the end of the list, the lookup. *)
GetStep(p) ==
    LET i == op[p].idx
        w == Path(nodes[p], "next", head[p])
        k == SelectInSeq(w, LAMBDA s : nodes[p][s].idx = i)
    IN
    /\ pc[p] = "get"
    /\ \/ /\ k # 0
          /\ Return(p, op[p].ok)
          /\ UNCHANGED <<kbuf, created, nodes, head, orphans>>
       \/ /\ k = 0 /\ Endless(nodes[p], "next", head[p])
          /\ Hang(p, nodes[p])
       \/ /\ k = 0 /\ ~Endless(nodes[p], "next", head[p])
          /\ LookupStep(p, i)

(* DMABuffer_free(buffer, persistant) of cell s of p, up to its flock; o  *)
(* is the caller's frame and h the head pointer the caller leaves.  Freeing *)
(* a freed struct aborts in glibc.  A USER buffer is munlock'ed first; if *)
(* that fails, the exit label returns without unlinking or freeing it.    *)
(* Then persistant = PDA_DELETE for a USER buffer.  Without PDA_DELETE it *)
(* closes the map fd and frees the struct.  With it, a failed              *)
(* flock(LOCK_EX|LOCK_NB) goes to exit_free, which frees the struct but   *)
(* never closes map_fd (the failed conversion has dropped its LOCK_SH, as *)
(* Linux flock does); a granted one goes on to the free file.             *)
DMABuffer_free(p, s, o, h) ==
    LET b == nodes[p][s]
        del == ~o.persist \/ b.kind = "user"
        Done(g, ok) == /\ nodes' = [nodes EXCEPT ![p] = g]
                       /\ head' = [head EXCEPT ![p] = h]
                       /\ Back(p, o, ok)
    IN
    \/ /\ b.heap # "live"
       /\ ProcessExit(p)
    \/ /\ b.heap = "live" /\ b.kind = "user"
       /\ Done(nodes[p], FALSE)
       /\ UNCHANGED <<kbuf, created, orphans>>
    \/ /\ b.heap = "live" /\ ~del
       /\ Done(Freed(nodes[p], s), TRUE)
       /\ UNCHANGED <<kbuf, created, orphans>>
    \/ /\ b.heap = "live" /\ del
       /\ LockedElsewhere(p, s, b.idx, b.gen, {"sh", "ex"})
       /\ orphans' = [orphans EXCEPT ![p] =
                        @ (+) SetToBag({[idx |-> b.idx, gen |-> b.gen, lock |-> "none"]})]
       /\ Done(Freed(nodes[p], s), FALSE)
       /\ UNCHANGED <<kbuf, created>>
    \/ /\ b.heap = "live" /\ del
       /\ ~LockedElsewhere(p, s, b.idx, b.gen, {"sh", "ex"})
       /\ nodes' = [nodes EXCEPT ![p][s].map_fd = "ex"]
       /\ head' = [head EXCEPT ![p] = h]
       /\ pc' = [pc EXCEPT ![p] = "free_close"]
       /\ op' = [op EXCEPT ![p] = [o EXCEPT !.slot = s]]
       /\ UNCHANGED <<kbuf, created, orphans, result>>

(* DMABuffer_free: spinOpen of the free file.  It fails when p has no fd *)
(* left; then exit_free frees the struct and leaks map_fd with its       *)
(* LOCK_EX.  Otherwise DMABuffer_closeFiles closes map_fd, which releases *)
(* the LOCK_EX before the write.                                           *)
DMABuffer_closeFiles(p) ==
    LET s == op[p].slot
        b == nodes[p][s]
    IN
    /\ pc[p] = "free_close"
    /\ \/ /\ OpenFds(p) < MaxFds
          /\ nodes' = [nodes EXCEPT ![p][s].map_fd = "closed"]
          /\ pc' = [pc EXCEPT ![p] = "free_write"]
          /\ UNCHANGED <<orphans, op, result>>
       \/ /\ OpenFds(p) >= MaxFds
          /\ orphans' = [orphans EXCEPT ![p] =
                           @ (+) SetToBag({[idx |-> b.idx, gen |-> b.gen, lock |-> "ex"]})]
          /\ nodes' = [nodes EXCEPT ![p] = Freed(@, s)]
          /\ Back(p, op[p], FALSE)
    /\ UNCHANGED <<kbuf, created, head>>

(* DMABuffer_free: write(free_fd, name) runs delete_buffer_write, then    *)
(* the struct is freed and unlinked.  A failed write (the handler never   *)
(* ran) goes to exit_free: the struct is freed and unlinked all the same, *)
(* the kernel object stays, and the call fails.                           *)
DMABuffer_free_write(p) ==
    LET s == op[p].slot IN
    /\ pc[p] = "free_write"
    /\ \/ /\ DeleteBuffer(nodes[p][s].idx)
          /\ Back(p, op[p], TRUE)
       \/ /\ UNCHANGED kbuf
          /\ Back(p, op[p], FALSE)
    /\ nodes' = [nodes EXCEPT ![p] = Freed(@, s)]
    /\ UNCHANGED <<created, head, orphans>>

(* Mutant of PciDevice_deleteDMABuffer: the head pointer is not advanced. *)
PciDevice_deleteDMABuffer_keep_head(p, s) ==
    /\ pc[p] = "idle"
    /\ s \in Live(p)
    /\ DMABuffer_free(p, s, [NoOp EXCEPT !.call = "delete"], head[p])

(* PciDevice_deleteDMABuffer(buffer) for a struct p holds: if it is the   *)
(* head, device->dma_buffer_list = getNext(buffer); then                  *)
(* DMABuffer_free(buffer, PDA_DELETE).                                     *)
PciDevice_deleteDMABuffer(p, s) ==
    /\ pc[p] = "idle"
    /\ s \in Live(p)
    /\ DMABuffer_free(p, s, [NoOp EXCEPT !.call = "delete"],
                      IF s = head[p] THEN nodes[p][s].next ELSE head[p])

(* The start of DMABuffer_freeAllBuffersInt(dma_buffer_list, persistant): *)
(* DMABuffer_getHead walks prev, forever if the prev links loop.           *)
FreeAllStart(p, call, persist) ==
    \/ /\ Endless(nodes[p], "prev", head[p])
       /\ Hang(p, nodes[p])
    \/ /\ ~Endless(nodes[p], "prev", head[p])
       /\ pc' = [pc EXCEPT ![p] = call]
       /\ op' = [op EXCEPT ![p] = [NoOp EXCEPT !.call = call, !.back = call,
                   !.persist = persist, !.cur = GetHead(nodes[p], head[p])]]
       /\ UNCHANGED <<kbuf, created, nodes, head, orphans, result>>

(* PciDevice_delete(device, persistant): DMABuffer_freeAllBuffersInt over *)
(* the list, then device->dma_buffer_list = NULL.  persist is              *)
(* PDA_DELETE_PERSISTANT.                                                  *)
PciDevice_delete(p, persist) ==
    /\ pc[p] = "idle"
    /\ FreeAllStart(p, "devdel", persist)

(* PciDevice_freeAllBuffers: DMABuffer_freeAllBuffers(dma_buffer_list),   *)
(* i.e. the same loop with PDA_DELETE.                                     *)
PciDevice_freeAllBuffers(p) ==
    /\ pc[p] = "idle"
    /\ FreeAllStart(p, "freeall", FALSE)

(* One iteration of the loop: next = tmp->next, DMABuffer_free(tmp),      *)
(* tmp = next.                                                             *)
DMABuffer_freeAllBuffersInt(p) ==
    LET s == op[p].cur IN
    /\ pc[p] \in {"devdel", "freeall"}
    /\ s # Nil
    /\ DMABuffer_free(p, s, [op[p] EXCEPT !.cur = nodes[p][s].next], head[p])

(* The loop is done.  PciDevice_delete resets the head pointer;           *)
(* PciDevice_freeAllBuffers does not, and on success goes on to           *)
(* DMABuffer_delete_not_attached_buffers.                                  *)
FreeLoopDone(p) ==
    /\ pc[p] \in {"devdel", "freeall"}
    /\ op[p].cur = Nil
    /\ \/ /\ pc[p] = "devdel"
          /\ head' = [head EXCEPT ![p] = Nil]
          /\ Return(p, op[p].ok)
       \/ /\ pc[p] = "freeall" /\ ~op[p].ok
          /\ Return(p, FALSE)
          /\ UNCHANGED head
       \/ /\ pc[p] = "freeall" /\ op[p].ok
          /\ pc' = [pc EXCEPT ![p] = "sweep"]
          /\ UNCHANGED <<head, op, result>>
    /\ UNCHANGED <<kbuf, created, nodes, orphans>>

(* DMABuffer_delete_not_attached_buffers: write the name of every         *)
(* directory under dma/ to the free file, whoever maps it.                *)
DMABuffer_delete_not_attached_buffers(p) ==
    /\ pc[p] = "sweep"
    /\ kbuf' = [n \in Indices |-> NoEntry]
    /\ Return(p, TRUE)
    /\ UNCHANGED <<created, nodes, head, orphans>>

-----------------------------------------------------------------------------
Init ==
    /\ kbuf = [n \in Indices |-> NoEntry]
    /\ created = 0
    /\ nodes = [p \in Procs |-> [c \in Cells |-> Unallocated]]
    /\ head = [p \in Procs |-> Nil]
    /\ orphans = [p \in Procs |-> EmptyBag]
    /\ pc = [p \in Procs |-> "idle"]
    /\ op = [p \in Procs |-> NoOp]
    /\ result = [p \in Procs |-> "none"]

(* Every step of a process except PciDevice_freeAllBuffers. *)
ProcessStep(p) ==
    \/ \E i \in Indices \cup {Undefined} :
          \/ PciDevice_allocDMABuffer(p, i)
          \/ PciDevice_registerDMABuffer(p, i)
          \/ PciDevice_getDMABuffer(p, i)
    \/ DMABuffer_new_map(p)
    \/ DMABuffer_mapUser(p)
    \/ GetStep(p)
    \/ \E s \in Cells : PciDevice_deleteDMABuffer(p, s)
    \/ \E persist \in BOOLEAN : PciDevice_delete(p, persist)
    \/ DMABuffer_freeAllBuffersInt(p)
    \/ FreeLoopDone(p)
    \/ DMABuffer_closeFiles(p)
    \/ DMABuffer_free_write(p)
    \/ ProcessExit(p)

FreeAllStep(p) ==
    \/ PciDevice_freeAllBuffers(p)
    \/ DMABuffer_delete_not_attached_buffers(p)

NextNoFreeAll == \E p \in Procs : ProcessStep(p)
Next == \E p \in Procs : ProcessStep(p) \/ FreeAllStep(p)

SpecNoFreeAll == Init /\ [][NextNoFreeAll]_vars
Spec == Init /\ [][Next]_vars

-----------------------------------------------------------------------------
(* Properties.                                                              *)

(* Cells past the LOCK_EX of DMABuffer_free: the buffer is being deleted. *)
Freeing(p) == IF pc[p] \in {"free_close", "free_write"} THEN {op[p].slot} ELSE {}

(* The handles p's device holds: the live structs its list reaches, but   *)
(* the one its DMABuffer_free has taken LOCK_EX on to delete.             *)
Held(p) == {c \in Listed(p) \ Freeing(p) : nodes[p][c].heap = "live"}

(* The refinement mapping: a kset object in state "ok" is a live buffer  *)
(* (a zombie name is no buffer); a process holds the handles of its list. *)
Lifecycle == INSTANCE DMABufferLifecycle WITH
    live <- [n \in Indices |-> IF kbuf[n].st = "ok" THEN kbuf[n].gen ELSE 0],
    held <- [p \in Procs |-> {<<nodes[p][c].idx, nodes[p][c].gen>> : c \in Held(p)}],
    made <- created

(* The library and the kernel handlers together implement the buffer     *)
(* life cycle: request_buffer_write creates only under a free name, a     *)
(* process's list holds at most one handle per index, and                 *)
(* delete_buffer_write, reached from DMABuffer_free, destroys only buffers *)
(* no list refers to.                                                      *)
ImplementsLifecycle == Lifecycle!Spec

(* Between library calls, the list device->dma_buffer_list starts is      *)
(* sound: every struct getNext and getHead reach from the head pointer is *)
(* one the process has not freed, and both walks end at NULL.  The head   *)
(* is kept by hand: PciDevice_deleteDMABuffer moves it before             *)
(* DMABuffer_free, PciDevice_delete resets it, DMABuffer_addNode sets it  *)
(* for an empty list.                                                      *)
ListSound ==
    \A p \in Procs : pc[p] = "idle" =>
        /\ \A c \in Listed(p) \cup ToSet(Path(nodes[p], "prev", head[p])) :
              nodes[p][c].heap = "live"
        /\ ~Endless(nodes[p], "next", head[p])
        /\ ~Endless(nodes[p], "prev", head[p])

(* Every live struct on a process's list, except one its own            *)
(* DMABuffer_free is deleting, refers to the kernel buffer object it      *)
(* mapped, which still exists: no other library call frees memory a       *)
(* listed handle maps (the flock protocol of DMABuffer_map /              *)
(* DMABuffer_free).                                                        *)
HandleBacked ==
    \A p \in Procs : \A s \in Held(p) :
        /\ kbuf[nodes[p][s].idx].st = "ok"
        /\ kbuf[nodes[p][s].idx].gen = nodes[p][s].gen

====
