----------------------------- MODULE MCMcpTools -----------------------------
(***************************************************************************)
(* Finite instances of the MCP tools: two upserts whose keys hash to one   *)
(* id, calls by id and by key on that row, and two listings.               *)
(***************************************************************************)
EXTENDS McpToolsProps

CONSTANTS u1, u2, ins, upd, del, get, li1, li2, cnt, k1, k2

MCTool == [r \in Requests |->
    CASE r \in {u1, u2} -> "upsert" [] r = ins -> "insert" [] r = upd -> "update"
      [] r = del -> "delete" [] r = get -> "get" [] r = cnt -> "count" [] OTHER -> "list"]
MCKey == [r \in Requests |->
    CASE r = u2 -> k2 [] r = del -> NoKey [] OTHER -> k1]
MCId == [r \in Requests |-> 1]
MCLimit == [r \in Requests |-> IF r = li2 THEN 2 ELSE 1]
=============================================================================
