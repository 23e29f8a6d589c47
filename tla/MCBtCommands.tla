---------------------------- MODULE MCBtCommands ----------------------------
(* The five credits of the recovered transport.                             *)
EXTENDS BtCommands

CmdSafeSpec == CmdInit /\ [][CmdNext]_cmdvars
=============================================================================
