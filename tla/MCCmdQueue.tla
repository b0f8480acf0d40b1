----------------------------- MODULE MCCmdQueue -----------------------------
(***************************************************************************)
(* Instance of the command queue for TLC.  "pause" is a control command,   *)
(* "io" and its like access the bus of the machine.                        *)
(***************************************************************************)
EXTENDS CmdQueueRefines, TLC

MCCommand == {"pause", "io"}
MCControl == {"pause"}
MCBus     == {"io"}
Symmetry  == Permutations(Client)
=============================================================================
