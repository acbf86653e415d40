------------------------------ MODULE MCFileLock ------------------------------
(***************************************************************************)
(* FileLock for TLC: a server and a worker process on the same files.      *)
(***************************************************************************)
EXTENDS FileLock

CONSTANTS server, worker, ServerClient

MCProcess == {server, worker}
MCProcessOf == [c \in Client |-> IF c \in ServerClient THEN server ELSE worker]
=============================================================================
