---------------------------- MODULE MCCorrelation ----------------------------
(***************************************************************************)
(* An instance of Correlation: three processes of three sessions, and      *)
(* scenarios of a few calls each.                                          *)
(***************************************************************************)
EXTENDS Correlation

Text(words) == [words |-> words, spelling |-> 1]
Respelled(text) == [text EXCEPT !.spelling = 2]

Order == Text(<<"inject">>)
Chat == Text(<<"chat">>)
Report == Text(<<"inject", "news">>)
Quoted == Text(<<"chat", "form", "key", "inject", "news">>)
Alike == Text(<<"inject", "news", "chat">>)
Ok == Text(<<"ok">>)
Hi == Text(<<"hi">>)
Template == Text(<<"form">>)
Letter == Text(<<"begin", "body", "end", "inject", "key">>)

F == <<"ws", "f">>
G == <<"ws", "g">>
H == <<"tmp", "h">>

Call0 == [kind |-> "start", pid |-> 1, path |-> F, writes |-> FALSE, reads |-> FALSE,
          text |-> NoText, stream |-> 1, visibility |-> "full"]
Starts(pid) == [Call0 EXCEPT !.pid = pid]
Writes(pid, path, text) ==
    [Call0 EXCEPT !.kind = "open", !.pid = pid, !.path = path, !.writes = TRUE, !.text = text]
Reads(pid, path) == [Call0 EXCEPT !.kind = "open", !.pid = pid, !.path = path, !.reads = TRUE]
Edits(pid, path, text) == [Writes(pid, path, text) EXCEPT !.reads = TRUE]
Removes(pid, path) == [Call0 EXCEPT !.kind = "remove", !.pid = pid, !.path = path]
Says(pid, text) == [Call0 EXCEPT !.kind = "say", !.pid = pid, !.text = text]
Shell(pid) == [Call0 EXCEPT !.kind = "shell", !.pid = pid]

Scenario(started, calls, most, waiting, gaps) ==
    [started |-> started, calls |-> calls, most |-> most, waiting |-> waiting, gaps |-> gaps]

MCScenarios ==
    {\* events overtake each other
     Scenario({1, 2}, {Writes(1, F, Order), Reads(2, F), Says(2, Order), Says(2, Chat),
                       Shell(2)}, 5, 2, {1}),
     \* several writers, and a reader who writes
     Scenario({1, 2, 3}, {Writes(1, F, Order), Writes(3, F, Order), Edits(2, F, Order),
                          Reads(2, F), Says(2, Order), Shell(2)}, 5, 1, {1}),
     \* a prompt of a process that is bound later
     Scenario({1}, {Starts(2), Writes(1, F, Order), Reads(2, F), Says(2, Order),
                    Shell(2)}, 6, 1, {1}),
     \* how texts match
     Scenario({1, 2}, {Writes(1, F, Report), Writes(1, F, Ok), Writes(1, H, Report), Reads(2, F),
                       Reads(2, H), Removes(1, F), Shell(2), Says(2, Hi)}
                      \cup {Says(2, text) : text \in {Report, Respelled(Report), Quoted, Alike}},
              4, 1, {1}),
     \* how long prompts and reads count
     Scenario({1, 2}, {Writes(1, F, Order), Reads(2, F), Says(2, Order), Shell(2)},
              6, 1, {1, 3}),
     \* a template of three sessions
     Scenario({1, 2, 3}, {Writes(1, F, Template), Reads(2, F), Reads(3, F), Says(2, Template),
                          Says(3, Template), Shell(3)}, 6, 1, {1}),
     \* more reads than are kept
     Scenario({1, 2}, {Writes(1, F, Order), Writes(1, G, Chat), Reads(2, F), Reads(2, G),
                       Says(2, Order), Shell(2)}, 6, 1, {1}),
     \* more prompts than are kept, of processes bound and not
     Scenario({3}, {Says(1, Chat), Says(2, Chat), Says(2, Order), Says(3, Chat), Says(3, Hi), Starts(1),
                    Shell(3)}, 5, 1, {1}),
     \* what is quoted
     Scenario({1, 2}, {Writes(1, F, Letter), Reads(2, F), Says(2, Letter), Says(2, Quoted),
                       Shell(2)}, 4, 1, {1})}

MCSessionOf == <<"A", "B", "C">>
MCRiskWindow == [proc_exec |-> 2, file_open |-> 3, file_unlink |-> 3]
=============================================================================
