--------------------------------- MODULE Null ---------------------------------
(***************************************************************************)
(* The null of the code, shared by the modules of the server's services    *)
(* and of the desktop state that are checked together.                     *)
(***************************************************************************)
CONSTANT None
===============================================================================
