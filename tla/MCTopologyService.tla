--------------------------- MODULE MCTopologyService ---------------------------
(***************************************************************************)
(* Small instances of TopologyService.  The slots of scans are             *)
(* interchangeable; sections are not, they are read in order.              *)
(***************************************************************************)
EXTENDS TopologyService, TLC

SlotSymmetry == Permutations(Scan)
===============================================================================
