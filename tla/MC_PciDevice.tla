---------------------------- MODULE MC_PciDevice ----------------------------
(* PciDevice with three BARs and three configuration headers: a 32-bit   *)
(* and a 64-bit memory BAR; an I/O BAR, an unused one and a 32-bit one;   *)
(* and one whose first BAR has a reserved width, so classify_bars fails.  *)
EXTENDS PciDevice, TLC

MCHeaders ==
    { (0 :> 16 @@ 1 :> 20 @@ 2 :> 1),
      (0 :> 65 @@ 1 :> 0 @@ 2 :> 32),
      (0 :> 18 @@ 1 :> 16 @@ 2 :> 0) }
====
