------------------------------ MODULE MC_WrapMap ------------------------------
(* WrapMap over an address space of pages 2..11: the malloc arena at 2..5, *)
(* the buffer (two pages) first mapped at 6.                                *)
EXTENDS WrapMap

=============================================================================
