-------------------------- MODULE MCContentStreams ---------------------------
(* An HTTP client, another user of TLS, and two MCP servers on descriptors, *)
(* one of which writes on the descriptor it reads from.                     *)
EXTENDS ContentStreams, TLC

CONSTANTS p1, p2, client, editor, server1, server2, reply2, agent1, agent2

MCPids == {p1, p2}
MCStreams == {client, editor, server1, server2, reply2}
MCPidOf == client :> p1 @@ editor :> p2 @@ server1 :> p1 @@ server2 :> p2 @@ reply2 :> p2
MCChannelOf == client :> "tls" @@ editor :> "tls" @@ server1 :> "mcp" @@ server2 :> "mcp"
               @@ reply2 :> "mcp"
MCDirectionOf == [s \in MCStreams |-> IF s \in {editor, server2} THEN "read" ELSE "write"]
MCHandleOf == [s \in MCStreams |-> IF s = reply2 THEN server2 ELSE s]

Message(bytes, text, full) ==
    [bytes |-> bytes, prompts |-> <<[text |-> text, full |-> full]>>]

Bare == Message(<<"{", "x", "y", "}">>, <<"x", "y">>, TRUE)
Sized == Message(<<"POST", "len3", "{", "x", "}">>, <<"x">>, TRUE)
Chunked == Message(<<"POST", "chunked", "3", "{", "y", "}", "nl", "0", "nl">>, <<"y">>, TRUE)
Tools == Message(<<"[", "tool", "]">>, <<"[", "tool", "]">>, FALSE)
Shouted == Message(<<"[", "TOOL", "]">>, <<"[", "TOOL", "]">>, FALSE)

MCTexts == {"x", "y", "tool", "TOOL"}
MCContentLength == [end \in {"len3"} |-> 3]
MCChunkSize == "3" :> 3 @@ "0" :> 0
MCCanonicalName == [t \in MCTexts |-> IF t = "TOOL" THEN "tool" ELSE t]
MCUsedTogether == {{client}, {editor, server1}, {server1, server2, reply2}}
MCAgentOf == p1 :> agent1 @@ p2 :> agent2
MCMessagesOf ==
    client :> {Bare, Sized, Chunked} @@ editor :> {Bare}
    @@ server1 :> {Tools, Bare} @@ server2 :> {Shouted} @@ reply2 :> {Bare}
=============================================================================
