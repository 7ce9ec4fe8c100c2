------------------------------ MODULE MCDeviceFs ------------------------------
(***************************************************************************)
(* The device file system with interchangeable names and drivers.          *)
(***************************************************************************)
EXTENDS DeviceFs, TLC

Symmetry == Permutations(Name) \union Permutations(Driver)
===============================================================================
