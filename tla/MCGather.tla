------------------------------- MODULE MCGather -------------------------------
(* Checks of Gather.tla: up to three directories, a file of each kind, broken   *)
(* and unreadable files, and all queries of up to three characters.            *)
EXTENDS Gather

MCSpelling ==
    "a" :> <<"a">> @@ "b" :> <<"b">> @@ "c" :> <<"c">> @@ "d" :> <<"d">>
    @@ "a.b" :> <<"a", ".", "b">> @@ "0" :> <<"0">>
MCLowerCase == "A" :> "a" @@ "B" :> "b"
T(word) == Text(<<word>>)
Plain == [facts |-> "a" :> T("built-in") @@ "b" :> T("old"), hidden |-> {"b"}, raises |-> FALSE]
Rich  == [facts |-> "c" :> Map("a" :> Array(<<T("x"), T("y")>>) @@ "a.b" :> T("z")
                               @@ "0" :> T("zero")),
          hidden |-> {}, raises |-> FALSE]
Fails == [facts |-> "d" :> T("never"), hidden |-> {}, raises |-> TRUE]
MCHosts == {{Plain, Rich}, {Plain, Rich, Fails}}

\* ---- files: name, suffix, executable, opens, parses, and what they hold
File(suffix, executable) ==
    [suffix |-> suffix, executable |-> executable, opens |-> TRUE, parses |-> TRUE,
     lines |-> <<>>, document |-> [members |-> <<>>]]
Line(name, word) == [name |-> name, value |-> T(word)]
Nonsense == [ignored |-> TRUE]
Leaf(word) == [leaf |-> <<word>>]
Null1 == [null |-> TRUE]
TextFile == [File(".txt", TRUE) EXCEPT !.lines = <<Line("A", "text"), Nonsense, Line("b", "text")>>]
Yaml == [File(".yaml", FALSE) EXCEPT
    !.document = [members |-> <<<<"B", Null1>>,
        <<"c", [members |-> <<<<"a", [items |-> <<Null1, Leaf("x")>>]>>, <<"a", Leaf("late")>>>>]>>>>]]
Json == [File(".json", FALSE) EXCEPT
    !.document = [members |-> <<<<"A", [items |-> <<Null1, Leaf("x")>>]>>, <<"b", Null1>>,
                                <<"a.b", Leaf("json")>>>>]]
Command == [File(".ps1", TRUE) EXCEPT !.lines = <<Line("b", "command"), Line("d", "command")>>]
Script  == [Command EXCEPT !.executable = FALSE]
Array1  == [File(".json", FALSE) EXCEPT !.document = [items |-> <<Leaf("x")>>]]
Broken(f)     == [f EXCEPT !.parses = FALSE]
Unreadable(f) == [f EXCEPT !.opens = FALSE]
Holds(S) == [exists |-> TRUE, files |-> S]
Missing  == [exists |-> FALSE, files |-> {}]

MCLayouts ==
    {[defaults |-> <<Missing, Holds({TextFile, Json})>>, user |-> <<Holds({Yaml})>>],
     [defaults |-> <<Holds({Yaml, Script})>>, user |-> <<Holds({TextFile, Command})>>],
     [defaults |-> <<Holds({Broken(Json)})>>, user |-> <<Holds({Unreadable(TextFile), Json})>>],
     [defaults |-> <<Holds({Broken(Command), Broken(Yaml)})>>, user |-> <<Holds({Array1})>>],
     [defaults |-> <<>>, user |-> <<Holds({Broken(TextFile)})>>]}
Few == {"external-dir", "json", "no-ruby"}
Options == {"help", "version", "unknown", "color", "no-color", "json", "yaml", "external-dir",
            "no-external-facts", "custom-dir", "no-custom-facts", "no-ruby", "debug",
            "verbose", "log-level"}
MCCommandLines == SUBSET Few \cup {{x, y} : x \in {"help", "version", "unknown"}, y \in Options}
                     \cup UNION {{s \in SUBSET Options : Cardinality(s) = 2 /\ Rejected(s)}}
MCEnvironments == {<<>>, <<Nonsense, Line("A", "env"), Line("a", "again")>>, <<Line("d", "env")>>}
CustomFact(name, v, weight, raises) ==
    [name |-> name, value |-> v, weight |-> weight, raises |-> raises]
MCCustoms == {<<CustomFact("a", T("custom"), 1, FALSE), CustomFact("b", T("spare"), 0, FALSE)>>,
              <<CustomFact("d", T("custom"), 1, TRUE)>>}

Characters == {"a", "c", "0", ".", "\""}
Typed == UNION {[1..n -> Characters] : n \in 0..3}
Group1 == {<<"c", ".", "a", ".", "1", "b">>, <<"c", ".", "a", ".", "2">>, <<"c", ".", "a", ".", "-", "1">>,
           <<"\"", "c", "\"", ".", "\"", "a", "\"", ".", "\"", "0", "\"">>,
           <<"c", ".", "\"", "a", ".", "b", "\"">>, <<" ", ".", "c", ".", ".", "a", ".">>,
           <<"c", ".", "a", ".", "-", "0">>, <<"c", ".", "a", ".", "0", "0">>,
           <<"c", ".", "a", ".", "+", "1">>, <<"c", ".", "a", ".", " ", "1">>,
           <<"c", ".", "\"", "0", "0", "\"">>, <<"c", ".", "a", ".", "1", ".", "0">>}
Beginning(ch) == {q \in Typed : q # <<>> /\ q[1] = ch}
MCRawQueries == {{}, {<<"c", ".", "a", ".", "0">>}, {<<"a", ".", "b">>}, {<<"d">>, <<"b">>}, Group1}
                    \cup {Beginning(ch) : ch \in Characters}
=============================================================================
