----------------------------- MODULE McpRegistry ------------------------------
(***************************************************************************)
(* The registry of MCP tools (mcp.rs): the first server that advertises a  *)
(* tool owns its name; a later one that advertises it too is an anomaly.   *)
(* Messages are collected per server and object in the order the fragments *)
(* arrive: offsets play no part, nor does the direction, so that what is   *)
(* read and what is written on one object are collected together.          *)
(***************************************************************************)
EXTENDS Framing, Maps, AgeList

CONSTANTS
    CanonicalName,   \* name of a tool -> canonical_tool_name
    McpMessageMax,   \* MAX_MCP_MESSAGE_BYTES
    McpBuffers       \* MAX_MCP_BUFFERS

EmptyRegistry == [owners |-> EmptyMap, buffers |-> <<>>]

\* tool_names_from_value
ToolsIn(value) == IF Head(value) = "[" THEN Inside(value) ELSE <<>>

Anomaly(tool, claimed, registered) ==
    [tool |-> tool, claimed |-> claimed, registered |-> registered]

\* A slip: the owner is taken for another server as well.
ObserveToolsAgain(owners, server, tools) ==
    LET names == {CanonicalName[tools[i]] : i \in DOMAIN tools}
    IN  [owners |-> [n \in DOMAIN owners \cup names |->
                        IF n \in DOMAIN owners THEN owners[n] ELSE server],
         anomalies |-> {Anomaly(n, server, owners[n]) : n \in names \cap DOMAIN owners}]

\* observe_tools
ObserveTools(owners, server, tools) ==
    LET names == {CanonicalName[tools[i]] : i \in DOMAIN tools}
    IN  [owners |-> [n \in DOMAIN owners \cup names |->
                        IF n \in DOMAIN owners THEN owners[n] ELSE server],
         anomalies |-> {Anomaly(n, server, owners[n]) :
                           n \in {x \in names \cap DOMAIN owners : owners[x] # server}}]

BufferKey(server, handle) == <<server, handle>>

\* observe_jsonrpc_fragment: what is collected must be exactly one value; too
\* much of it is thrown away.
ObserveFragment(registry, server, handle, bytes) ==
    LET key == BufferKey(server, handle)
        held == IF key \in KeysIn(registry.buffers)
                THEN ValueOf(registry.buffers, key) ELSE <<>>
        message == held \o bytes
        others == RemoveKeys(registry.buffers, {key})
        seen == ObserveTools(registry.owners, server, ToolsIn(Value(message)))
    IN  IF Len(message) > McpMessageMax
        THEN [owners |-> registry.owners, buffers |-> others, anomalies |-> {}]
        ELSE IF IsJson(message)
        THEN [owners |-> seen.owners, buffers |-> others, anomalies |-> seen.anomalies]
        ELSE [owners |-> registry.owners, anomalies |-> {},
              buffers |-> InsertYoungest(others, key, message, McpBuffers)]
=============================================================================
