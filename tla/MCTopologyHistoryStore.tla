------------------------ MODULE MCTopologyHistoryStore ------------------------
(***************************************************************************)
(* Small instances of TopologyHistoryStore.  Ids are only compared with    *)
(* one another, so they are interchangeable.                               *)
(***************************************************************************)
EXTENDS TopologyHistoryStore, TLC

Interchangeable == Permutations(Id)
===============================================================================
