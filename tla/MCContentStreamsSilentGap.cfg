SPECIFICATION Spec
CHECK_DEADLOCK FALSE
CONSTANTS
    p1 = p1
    p2 = p2
    client = client
    editor = editor
    server1 = server1
    server2 = server2
    reply2 = reply2
    agent1 = agent1
    agent2 = agent2
    Pids <- MCPids
    Streams <- MCStreams
    PidOf <- MCPidOf
    ChannelOf <- MCChannelOf
    DirectionOf <- MCDirectionOf
    HandleOf <- MCHandleOf
    MessagesOf <- MCMessagesOf
    UsedTogether <- MCUsedTogether
    AgentOf <- MCAgentOf
    Texts <- MCTexts
    ContentLength <- MCContentLength
    ChunkSize <- MCChunkSize
    CanonicalName <- MCCanonicalName
    ExcerptMax = 3
    CompactThreshold = 4
    McpMessageMax = 4
    McpBuffers = 2
    InlineMax = 5
    RingSlots = 1
    StreamCapacity = 1
    MaxMessages = 2
    MaxWrites = 3
    MaxTrouble = 0
INVARIANT
    LossIsMarked
