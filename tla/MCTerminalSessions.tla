-------------------------- MODULE MCTerminalSessions --------------------------
(***************************************************************************)
(* Small instances of TerminalSessions.  Loop and channel slots are each   *)
(* interchangeable.                                                        *)
(***************************************************************************)
EXTENDS TerminalSessions, TLC

SlotSymmetry == Permutations(Loop) \cup Permutations(Channel)
===============================================================================
