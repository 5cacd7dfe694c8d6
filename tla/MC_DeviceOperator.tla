-------------------------- MODULE MC_DeviceOperator --------------------------
(* Two PCI IDs and three sysfs entries: one matching each ID and one      *)
(* matching none, so the scan creates up to two devices.                  *)
EXTENDS DeviceOperator, TLC

CONSTANTS e1, e2, e3

MCEntries == {e1, e2, e3}

MCMatch == e1 :> 1 @@ e2 :> 2 @@ e3 :> 0
====
