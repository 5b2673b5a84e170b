------------------------------- MODULE MCMcp --------------------------------
(***************************************************************************)
(* A finite instance of the MCP session: one short output, one over the    *)
(* cap, one empty.                                                         *)
(***************************************************************************)
EXTENDS McpProps

Sizes == [c \in Calls |-> CASE c = 0 -> 1 [] c = 2 -> 0 [] c = 3 -> 3 [] OTHER -> 1]
=============================================================================
