------------------------ MODULE MC_DMABufferRegistry ------------------------
(* Model-checking instance of DMABufferRegistry: the processes and the     *)
(* indices are model values and small numbers given in the .cfg files.     *)
EXTENDS DMABufferRegistry, TLC

CONSTANTS p1, p2

(* The processes are interchangeable. *)
ProcSymmetry == Permutations(Procs)

(* The cells of p's heap the code can still read: the live structs, the   *)
(* ones the head pointer and the call's locals point at, and whatever     *)
(* their next and prev links reach, freed structs included.               *)
RECURSIVE Closure(_, _)
Closure(f, S) ==
    LET T == S \cup (({f[c].next : c \in S} \cup {f[c].prev : c \in S}) \ {Nil})
    IN IF T = S THEN S ELSE Closure(f, T)

Readable(p) ==
    Closure(nodes[p], Live(p) \cup ({head[p], op[p].cur, op[p].slot} \ {Nil}))

(* States are told apart only by what the code can still read: a cell no  *)
(* pointer reaches is overwritten by calloc before it is read again, and  *)
(* result is never read by the model.                                     *)
ReachableView ==
    <<kbuf, created, head, orphans, pc, op,
      [p \in Procs |-> [c \in Cells |->
          IF c \in Readable(p) THEN nodes[p][c] ELSE Unallocated]]>>
=============================================================================
