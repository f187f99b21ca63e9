------------------------------- MODULE MCHouse -------------------------------
(* Small instances of the parts of a house. *)
EXTENDS House

\* A tool that is granted under two spellings, one that is not, one that is dangerous, and
\* a spelling of nothing.
MCTool == {"draw", "send", "bash"}
MCSpelling == MCTool \cup {"Draw", "--"}
MCCanonical == [s \in MCSpelling |-> CASE s = "Draw" -> "draw" [] s = "--" -> "" [] OTHER -> s]

\* Two specs that want one name, one of another name, and one whose name is not legal.
MCAgentSpec ==
    {[name |-> "ada", triggers |-> {"hi"}], [name |-> "ada", triggers |-> {"bye", " "}],
     [name |-> "bob", triggers |-> {"hi", "bye"}], [name |-> "Bob!", triggers |-> {}]}

\* Two descriptions that are alike, and a third that is like neither.
MCSimilarity == [p \in (1 .. 3) \X (1 .. 3) |->
    IF p[1] = p[2] THEN 100 ELSE IF {p[1], p[2]} = {1, 2} THEN 85 ELSE 20]

MCOurServers ==
    {[owner |-> "us", allowed_tools |-> {"Draw", "bash"}, offered_tools |-> MCTool,
      invokers |-> MCTool],
     [owner |-> "us", allowed_tools |-> {"send"}, offered_tools |-> {"send"},
      invokers |-> {"send", "draw"}]}
MCForeignAnswers ==
    {[version |-> "2026-07-28", shape |-> TRUE, tools |-> {"Draw", "bash"}],
     [version |-> "2026-07-28", shape |-> TRUE, tools |-> {"send", "--"}],
     [version |-> "2026-07-28", shape |-> TRUE, tools |-> {"draw", "malformed"}],
     [version |-> "2026-07-28", shape |-> FALSE, tools |-> {}],
     [version |-> "2025-03-26", shape |-> TRUE, tools |-> {"send"}],
     [version |-> "missing", shape |-> TRUE, tools |-> {"draw"}]}

\* Two stores of a house and one of another, all handed one crew memory.
MCTenantOf == [s \in {"s1", "s2", "s3"} |-> IF s = "s3" THEN "t2" ELSE "t1"]
MCCrewOf == [s \in {"s1", "s2", "s3"} |-> "crew"]
MCRecord(key, scope, confidence, evidence_count, fresh) ==
    [key |-> key, scope |-> scope, confidence |-> confidence,
     evidence_count |-> evidence_count, fresh |-> fresh]
MCRemembered ==
    {MCRecord(1, "long", 2, 0, FALSE), MCRecord(2, "long", 1, 1, TRUE),
     MCRecord(1, "short", 1, 0, TRUE), MCRecord(2, "mid", 1, 0, FALSE)}
MCRecallLimit == [s \in {"s1", "s2", "s3"} |-> 1]

Phases(setup, wait, stream, finalize, total) ==
    [setup_ms |-> setup, wait_ms |-> wait, stream_ms |-> stream, finalize_ms |-> finalize,
     total_ms |-> total]
\* A turn measured in full, one with a gap, and one of a backend that measures nothing.
MCTiming == {Phases(1, 2, 3, 1, 7), Phases(2, 0, 5, 0, 9), Phases(0, 0, 0, 0, 0)}

MCCardTools == {{"draw"}, {"Draw", "send", "bash"}}

FrontLine(indent, form, key, value) ==
    [indent |-> indent, form |-> form, key |-> key, value |-> value]
FrontDoc(lines) ==
    [delimited |-> TRUE, lines |-> <<FrontLine(0, "pair", "name", "str")>> \o lines,
     scripts |-> IF Len(lines) > 1 THEN {"run.sh"} ELSE {}]
\* Documents that repeat a key, declare a tool, declare one that is blank, have digits that
\* are no number, or nest, declare an empty list and have a script beside them.
MCDocuments ==
    {FrontDoc(<<FrontLine(0, "pair", "name", "str")>>),
     FrontDoc(<<FrontLine(0, "pair", "allowed_tools", "blank")>>),
     FrontDoc(<<FrontLine(0, "pair", "a", "digits")>>),
     FrontDoc(<<FrontLine(0, "pair", "allowed_tools", "none"), FrontLine(1, "item", "a", "str")>>),
     FrontDoc(<<FrontLine(0, "pair", "metadata", "none"), FrontLine(2, "pair", "a", "str"),
                FrontLine(2, "pair", "b", "unclosed"),
                FrontLine(0, "pair", "allowed_tools", "empty list")>>)}
=============================================================================
