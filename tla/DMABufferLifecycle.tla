------------------------- MODULE DMABufferLifecycle -------------------------
(***************************************************************************)
(* What the DMA buffer calls of PDA promise, with no lists, files or      *)
(* locks: the device has named buffers, each created once with a fresh   *)
(* identity (its generation); a process holds at most one handle per      *)
(* buffer name; a buffer is destroyed only when no process holds a        *)
(* handle to it, so every handle refers to a buffer that exists.          *)
(* DMABufferRegistry is shown to implement this specification.            *)
(***************************************************************************)
EXTENDS Naturals

CONSTANTS
    Procs,       \* the processes using the device
    Indices,     \* buffer names
    MaxCreates   \* bound: buffers created in one behaviour

VARIABLES
    live,   \* live[n]: generation of the buffer named n, 0 if none
    held,   \* held[p]: the handles of p, as <<name, generation>> pairs
    made    \* buffers created so far

vars == <<live, held, made>>

HeldNames(p) == {h[1] : h \in held[p]}

Unheld(n) == \A p \in Procs : n \notin HeldNames(p)

(* A buffer is created under a free name with a new generation.           *)
Create(n) ==
    /\ live[n] = 0 /\ made < MaxCreates
    /\ made' = made + 1
    /\ live' = [live EXCEPT ![n] = made + 1]
    /\ UNCHANGED held

(* A creation that fails after using up an identity; no buffer appears.   *)
CreateFailed ==
    /\ made < MaxCreates
    /\ made' = made + 1
    /\ UNCHANGED <<live, held>>

(* p obtains a handle to an existing buffer it holds no handle to.        *)
Attach(p, n) ==
    /\ live[n] # 0 /\ n \notin HeldNames(p)
    /\ held' = [held EXCEPT ![p] = @ \cup {<<n, live[n]>>}]
    /\ UNCHANGED <<live, made>>

(* p gives up some of its handles (free without delete, exit, crash).     *)
Release(p) ==
    /\ \E keep \in SUBSET held[p] : held' = [held EXCEPT ![p] = keep]
    /\ UNCHANGED <<live, made>>

(* Buffers no process holds are destroyed.                                 *)
Destroy(S) ==
    /\ S # {}
    /\ \A n \in S : live[n] # 0 /\ Unheld(n)
    /\ live' = [n \in Indices |-> IF n \in S THEN 0 ELSE live[n]]
    /\ UNCHANGED <<held, made>>

Init ==
    /\ live = [n \in Indices |-> 0]
    /\ held = [p \in Procs |-> {}]
    /\ made = 0

Next ==
    \/ \E n \in Indices : Create(n)
    \/ CreateFailed
    \/ \E p \in Procs : \E n \in Indices : Attach(p, n)
    \/ \E p \in Procs : Release(p)
    \/ \E S \in SUBSET Indices : Destroy(S)

Spec == Init /\ [][Next]_vars
====
