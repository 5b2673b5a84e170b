-------------------------- MODULE MCConsolePolling --------------------------
(***************************************************************************)
(* Finite instances of the polling of the console.                         *)
(***************************************************************************)
EXTENDS ConsolePollingProps

CONSTANTS d1, d2
=============================================================================
