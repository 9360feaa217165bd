----------------------------- MODULE MCInventory -----------------------------
(***************************************************************************)
(* Model constants for the inventory: a machine with a MAC address that may*)
(* enroll twice (a re-imaged machine keeps its host name), reported by log *)
(* lines that name the host, only the address, or neither.                 *)
(***************************************************************************)
EXTENDS Inventory, TLC

CONSTANTS m1, h1, x1

MCMachines == {m1}
MChost == m1 :> h1
MCmac == m1 :> x1
MCLogViews == {{"host"}, {"mac"}, {}}

Symmetry == Permutations(Workers) \cup Permutations(Enrollers) \cup Permutations(Devices)

=============================================================================
