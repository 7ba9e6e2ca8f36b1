----------------------------- MODULE MCAlerting -----------------------------
(***************************************************************************)
(* An instance of Alerting: a few shapes of events, in small scenarios.    *)
(***************************************************************************)
EXTENDS Alerting

Plain ==
    [session |-> "s1", confirmed |-> TRUE, kind |-> "exit", object |-> 1, shell |-> FALSE,
     allowed |-> FALSE, failed |-> FALSE, writes |-> FALSE, inside |-> FALSE,
     sensitive |-> FALSE, resolved |-> TRUE, exe |-> TRUE, spoofed |-> 0,
     prompts |-> <<>>, repeats |-> 0, chains |-> <<>>]

Shell == [Plain EXCEPT !.kind = "exec", !.shell = TRUE]
Linked == [Shell EXCEPT !.prompts = <<[id |-> 0, visibility |-> "partial"]>>]
Chained == [Shell EXCEPT !.chains =
               <<[id |-> 7, score |-> 80, weak |-> TRUE, visibility |-> "full"],
                 [id |-> 8, score |-> 90, weak |-> FALSE, visibility |-> "partial"],
                 [id |-> 9, score |-> 50, weak |-> FALSE, visibility |-> "full"]>>]
Connect == [Plain EXCEPT !.kind = "connect"]
Read == [Plain EXCEPT !.kind = "open", !.inside = TRUE]
ToNowhere == [Connect EXCEPT !.object = NoObject]
LinkedRead == [Read EXCEPT !.sensitive = TRUE,
                  !.prompts = <<[id |-> RepeatedPrompt, visibility |-> "partial"],
                                [id |-> -1, visibility |-> "full"]>>]
Write == [Read EXCEPT !.writes = TRUE]
Secret == [Plain EXCEPT !.kind = "open", !.sensitive = TRUE, !.object = 2]
Delete == [Plain EXCEPT !.kind = "unlink", !.object = 3]
Spoofs == [Plain EXCEPT !.kind = "content", !.spoofed = 2]
In(shape, session) == [shape EXCEPT !.session = session]

Scenario(shapes, most, gaps, lags, pressures) ==
    [shapes |-> shapes, most |-> most, gaps |-> gaps, lags |-> lags, pressures |-> pressures]

Repeating(shape) == [shape EXCEPT !.repeats = 2]

MCScenarios ==
    {Scenario({Connect, Read, Write}, 5, {1, 2}, {0}, {"nominal"}),
     Scenario({Repeating(Read), In(Connect, "s2")}, 5, {1, 3}, {0, 1}, {"nominal"}),
     Scenario({Repeating(Read), Repeating(Connect), In(Connect, "s2"), In(Read, "s3")}, 5, {0, 1},
              {0}, {"nominal"}),
     Scenario({Repeating(Read), ToNowhere, Repeating(LinkedRead)}, 4, {0, 1}, {0}, {"nominal"}),
     Scenario({Shell, Linked, In(Shell, "s2")}, 5, {0, 2}, {0, 1}, {"nominal"}),
     Scenario({Shell, [Shell EXCEPT !.confirmed = FALSE]}, 4, {0, 1, 2}, {0}, Pressures),
     Scenario({Chained, Secret, [Secret EXCEPT !.resolved = FALSE], [Secret EXCEPT !.failed = TRUE],
               Delete, [Delete EXCEPT !.kind = "rename"], [Delete EXCEPT !.allowed = TRUE]},
              3, {0, 2}, {0}, {"nominal"}),
     Scenario({Spoofs, [Spoofs EXCEPT !.kind = "exit"], [Plain EXCEPT !.kind = "exec"]},
              4, {0, 2}, {0}, {"nominal", "degraded"})}
=============================================================================
