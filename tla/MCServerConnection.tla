-------------------------- MODULE MCServerConnection --------------------------
(***************************************************************************)
(* Small instances of ServerConnection.  Client slots are interchangeable. *)
(***************************************************************************)
EXTENDS ServerConnection, TLC

SlotSymmetry == Permutations(Client)

(***************************************************************************)
(* The retry loop alone.  The host key is known and nobody asks for SFTP   *)
(* (neither holds a dial back longer than readyTimeout does), and terminals *)
(* dial one interactive client at a time, so that slots never run out.     *)
(***************************************************************************)
OneInteractive ==
    Cardinality({c \in Client : client[c].kind = "interactive"}) <= 1

RetryInit == Init /\ known
RetryNext == Next /\ sftpCalls' = {} /\ OneInteractive'
RetrySpec == RetryInit /\ [][RetryNext]_vars /\ Fairness
===============================================================================
