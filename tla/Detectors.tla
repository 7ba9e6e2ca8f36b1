------------------------------- MODULE Detectors -------------------------------
(***************************************************************************)
(* The detector engine: the findings an event of a confirmed session gives *)
(* rise to.  An event is a record of what the detectors look at: its kind, *)
(* its object (a path or an endpoint, a number) and what is known of it.   *)
(* Allowlists are taken into account where the event says "allowed".       *)
(***************************************************************************)
EXTENDS DeadloopDetector

NoObject == 0

\* file_open_signals, materialize_signals: what the session was active with.  A
\* connect to no address (dst_ip is None) is counted under none.
Activities(ev) ==
    CASE ev.kind = "connect" ->
            <<[kind |-> IF ev.object = NoObject THEN "unaddressed" ELSE "net_connect",
               object |-> ev.object, ts |-> ev.ts, id |-> ev.id, progress |-> FALSE]>>
      [] ev.kind = "open" /\ ~ev.failed ->
            <<[kind |-> "file_access", object |-> ev.object, ts |-> ev.ts, id |-> ev.id,
               progress |-> ev.writes /\ ev.inside]>>
      [] OTHER -> <<>>

\* path_finding
PathFinding(ev, type, reason) ==
    [type |-> type, session |-> ev.session, ts |-> ev.ts, reason |-> reason,
     object |-> ev.object, ids |-> <<ev.id>>, visibility |-> "full", score |-> 0]

When(condition, finding) == IF condition THEN <<finding>> ELSE <<>>

\* detect_unexpected_shell
UnexpectedShell(ev) ==
    When(ev.kind = "exec" /\ ev.shell /\ ~ev.allowed,
         PathFinding(ev, "UnexpectedShell", "shell_exec_unapproved"))

\* detect_sensitive_file_access
SensitiveFileAccess(ev) ==
    When(ev.kind = "open" /\ ev.sensitive /\ ~ev.allowed,
         PathFinding(ev, "SensitiveFileAccess",
             IF ev.failed THEN "sensitive_file_open_denied"
             ELSE IF ev.resolved THEN "sensitive_file_open"
             ELSE "sensitive_file_open_lexical"))

\* detect_out_of_workspace_deletion
OutOfWorkspaceDeletion(ev) ==
    When(ev.kind \in {"unlink", "rename"} /\ ~ev.failed /\ ~ev.inside /\ ev.exe /\ ~ev.allowed,
         PathFinding(ev, "OutOfWorkspaceDeletion",
             IF ev.kind = "unlink" THEN "unlink_outside_workspace"
             ELSE "rename_outside_workspace"))

\* detect_exec_observed
ExecObserved(ev) == When(ev.kind = "exec", PathFinding(ev, "ExecObserved", "exec_observed"))

\* detect_mcp_tool_spoofing, mcp_tool_spoofing_findings_from_content: one for
\* each tool, and none names its tool as the object.
McpToolSpoofing(ev) ==
    [tool \in 1 .. ev.spoofed |->
        [PathFinding(ev, "McpToolSpoofing", "mcp_tool_name_collision") EXCEPT
            !.object = NoObject]]

\* detect_cross_agent_prompt_injection, for a chain [id, score, weak,
\* visibility] whose sessions differ; its score in hundredths.
CrossAgent(ev, chain) ==
    When(chain.score >= 55,
         [PathFinding(ev, "CrossAgentPromptInjection",
                      IF chain.weak THEN "capi_cross_session_weak_match"
                      ELSE "capi_cross_session_prompt_to_syscall") EXCEPT
             !.object = chain.id, !.visibility = chain.visibility, !.score = chain.score])

\* attach_prompt_evidence: the prompts the risky event is linked to are listed,
\* and the finding is as visible as the least visible of them.  A prompt that is
\* listed already, as the one a loop repeats, is passed over.  (No prompt has the
\* id of an event.)
WithPrompt(finding, prompt) ==
    IF prompt.id \in Range(finding.ids) THEN finding
    ELSE [finding EXCEPT !.ids = Append(@, prompt.id),
                         !.visibility = IF prompt.visibility = "partial" THEN "partial" ELSE @]

WithPrompts(finding, prompts) ==
    LET linked[i \in 0 .. Len(prompts)] ==
            IF i = 0 THEN finding ELSE WithPrompt(linked[i - 1], prompts[i])
    IN  linked[Len(prompts)]

\* detect_with_prompt_and_mcp_evidence, for an event of a confirmed binding
\* that comes "spoofed" pending MCP anomalies.
Detected(d, ev, dry_run) ==
    LET loop == Deadloop(d, ev.session, Activities(ev), ev.repeats, ev.ts)
        found == UnexpectedShell(ev) \o SensitiveFileAccess(ev) \o OutOfWorkspaceDeletion(ev)
                    \o loop.findings \o McpToolSpoofing(ev)
        all == IF found = <<>> /\ dry_run THEN ExecObserved(ev) ELSE found
    IN  [d |-> loop.d, findings |-> [i \in DOMAIN all |-> WithPrompts(all[i], ev.prompts)]]

\* ChainRiskKind::from_alert_type: the findings a chain may lead to.
RiskyTypes ==
    {"UnexpectedShell", "SensitiveFileAccess", "OutOfWorkspaceDeletion", "SingleAgentDeadloop"}

\* capi_findings_for_event: the correlator is asked for chains (ev.chains) once
\* for each risky finding.
ChainFindings(ev, findings) ==
    LET risky == {i \in DOMAIN findings : findings[i].type \in RiskyTypes}
        asked == FlattenSeq([i \in DOMAIN ev.chains |-> CrossAgent(ev, ev.chains[i])])
    IN  FlattenSeq([i \in 1 .. Cardinality(risky) |-> asked])
=============================================================================
