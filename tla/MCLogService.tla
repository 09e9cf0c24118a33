----------------------------- MODULE MCLogService -----------------------------
(***************************************************************************)
(* Small instances of LogService.  Session and channel slots are each      *)
(* interchangeable; queries are not (one of them is recent).               *)
(***************************************************************************)
EXTENDS LogService, TLC

SlotSymmetry == Permutations(Session) \cup Permutations(Channel)
===============================================================================
