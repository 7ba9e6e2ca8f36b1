--------------------------- MODULE MCDescriptorHost ---------------------------
(***************************************************************************)
(* Three numbers of tasks, two descriptors.  In one behaviour the          *)
(* processes make calls of one of the groups below, with its paths.        *)
(***************************************************************************)
EXTENDS DescriptorHost

Abs(names) == [absolute |-> TRUE, names |-> names]
Rel(names) == [absolute |-> FALSE, names |-> names]

\* w is the workspace; w/l leads to the sensitive directory s, t from outside
\* to w/d.  ".." goes no further up than the names before it, as links allow.
Near == {Rel(<<"d">>), Rel(<<Up, "w">>), Abs(<<"w", "l">>)}
Far == {Rel(<<"d">>), Abs(<<"w", "d">>), Abs(<<"w", "e">>), Abs(<<"t">>)}

MCMissing == {<<"w", "w">>, <<"w", "e">>, <<"w", "d", "d">>}
MCLinks ==
    [path \in {<<"w", "l">>, <<"t">>} |-> IF path = <<"t">> THEN <<"w", "d">> ELSE <<"s">>]
MCRelinked ==
    [path \in {<<"w", "l">>, <<"t">>} |-> IF path = <<"t">> THEN <<"s">> ELSE <<"w", "d">>]

MCWorkspace == <<"w">>
MCSensitive == {<<"s">>}

Of(names, paths, most, waiting) ==
    [names |-> names, paths |-> paths, most |-> most, waiting |-> waiting]

MCCallsTogether ==
    {Of({"socket", "connect", "close", "set fd", "transfer"}, {}, 5, 2),
     Of({"socket", "connect", "close", "set fd", "transfer"}, {}, 7, 1),
     Of({"socket", "accept", "connect", "dup", "set fd", "transfer"}, {}, 6, 1),
     Of({"socket", "accept", "dup", "set fd", "transfer"}, {}, 5, 2),
     Of({"socket", "connect", "set fd", "set bio", "transfer"}, {}, 5, 2),
     Of({"socket", "connect", "set fd", "transfer", "fork", "exit"}, {}, 5, 2),
     Of({"socket", "connect", "set fd", "transfer", "exec", "close on exec", "lose"}, {}, 5, 2),
     Of({"chdir", "open", "exec", "fork", "exit"}, Near, 4, 2),
     Of({"open", "dup", "close"}, Near, 5, 1),
     Of({"open", "open unseen", "dup", "relink"}, Far, 4, 2),
     Of({"chdir", "open", "lose"}, Near, 4, 2),
     Of({"chdir", "open", "start thread", "fork", "end thread"}, Near, 4, 1),
     Of({"open", "unlink", "rename"}, Far, 3, 2),
     Of({"chdir", "unlink", "rename", "open"}, Far, 4, 1)}
=============================================================================
