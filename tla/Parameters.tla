------------------------------- MODULE Parameters -------------------------------
(***************************************************************************)
(* The parameters from two sides: how the commands of several channels and *)
(* the file work together, with values that are whole (ParamStore), and    *)
(* what one command makes of its values (ParamHandlers).                   *)
(***************************************************************************)
EXTENDS ParamStore

CONSTANTS Message, UserSize, Char, NUL, MaxCommands

VARIABLES hfile, memory, set, erased, commands

H == INSTANCE ParamHandlers WITH file <- hfile

(* AFN0A answers with what AFN04 has set.                                  *)
QueriedIsSet == H!QueriedIsSet
=================================================================================
