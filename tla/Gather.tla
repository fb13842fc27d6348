-------------------------------- MODULE Gather --------------------------------
(* The program: it reads its command line, gathers the facts of all sources    *)
(* and writes what was asked for (exe/facter.cc). External facts come from the *)
(* files of directories (lib/src/facts/external, collection.cc), then there is *)
(* the environment, then come the custom facts, here by what they add (see     *)
(* CustomFacts.tla for how). The log level is one that shows errors.           *)
EXTENDS Queries

CONSTANTS
    CommandLines,  \* sets of options
    RawQueries,    \* sets of queries as they are typed
    Layouts,       \* directories of external facts: [defaults, user]
    Environments,  \* sequences of variables
    Customs,       \* what custom facts may add: sequences of [name, value, weight, raises]
    LowerCase      \* from the names that are not in lower case

\* Directories are in an order, and queries are texts.
ASSUME GatherAssumption ==
    /\ \A l \in Layouts : \A s \in {l.defaults, l.user} : s \in Seq(ToSet(s))
    /\ \A raw \in RawQueries : IsFiniteSet(raw) /\ \A q \in raw : q \in Seq(ToSet(q))

VARIABLES
    pc,            \* options, files, environment, custom, write, fatal, done
    host,          \* the built-in resolvers
    options, queries, resolvers,
    coll,          \* the collection
    dirs,          \* the directories still to search
    files,         \* the files of the directory that were not read yet
    file,          \* the file that is read: none or one
    environment, custom,  \* what is left of these
    flagged,       \* an error was logged
    exit, output,
    offers,        \* history: [rank, name, value] of what the sources said
    broken         \* history: files that were not read to their end: [of, kind, opened]

given == <<host, options, queries, resolvers>>
vars == <<pc, given, coll, dirs, files, file, environment, custom, flagged, exit, output,
          offers, broken>>

Lower(name) == IF name \in DOMAIN LowerCase THEN LowerCase[name] ELSE name

\* -------------------------------------------------------------- the command line

Conflicts ==
    {{"color", "no-color"}, {"json", "yaml"}, {"no-external-facts", "external-dir"},
     {"no-custom-facts", "custom-dir"}, {"debug", "verbose"}, {"debug", "log-level"},
     {"verbose", "log-level"}, {"no-ruby", "custom-dir"}}
Rejected(cl) ==
    \/ "unknown" \in cl
    \/ /\ "help" \notin cl
       /\ \E conflict \in Conflicts : conflict \subseteq cl
Only(kind) == [kind |-> kind, shown |-> <<>>]
Ends(status, printed) == pc' = "done" /\ exit' = status /\ output' = printed
NothingGathered ==
    UNCHANGED <<given, coll, dirs, files, file, environment, custom, flagged, offers, broken>>

Reject ==
    /\ pc = "options" /\ Rejected(options)
    /\ Ends("failure", Only("help"))
    /\ NothingGathered
Help ==
    /\ pc = "options" /\ ~Rejected(options) /\ "help" \in options
    /\ Ends("success", Only("help"))
    /\ NothingGathered
Version ==
    /\ pc = "options" /\ ~Rejected(options) /\ "help" \notin options /\ "version" \in options
    /\ Ends("success", Only("version"))
    /\ NothingGathered

\* The kinds of external facts, in the order in which they are tried.
Posix   == <<"text", "yaml", "json", "execution">>
Windows == Append(Posix, "powershell")
CanResolve(kind, f) ==
    CASE kind = "text" -> f.suffix = ".txt"
      [] kind = "yaml" -> f.suffix = ".yaml"
      [] kind = "json" -> f.suffix = ".json"
      [] kind = "execution" -> f.executable
      [] kind = "powershell" -> f.suffix = ".ps1"

\* Ruby may not be there, which turns custom facts off. Options that matter later are kept.
Start ==
    /\ pc = "options" /\ ~Rejected(options) /\ options \cap {"help", "version"} = {}
    /\ \E loads \in BOOLEAN, raw \in RawQueries, l \in Layouts, c \in Customs :
           LET ruby == "no-ruby" \notin options /\ loads
           IN  /\ queries' = {Normalised(q) : q \in raw} \ {<<>>}
               /\ dirs' = IF "no-external-facts" \in options THEN <<>>
                          ELSE l.defaults \o (IF "external-dir" \in options THEN l.user ELSE <<>>)
               /\ custom' = IF ruby /\ "no-custom-facts" \notin options THEN c ELSE <<>>
    /\ options' = options \cap {"json", "yaml"}
    /\ resolvers' \in {Posix, Windows}
    /\ environment' \in Environments
    /\ pc' = "files"
    /\ UNCHANGED <<host, coll, files, file, flagged, exit, output, offers, broken>>

\* -------------------------------------------------------------- external facts

EndDirectory == pc = "files" /\ file = <<>> /\ files = {}
\* A directory that is not there is skipped with a warning.
NextDirectory ==
    /\ EndDirectory /\ dirs # <<>>
    /\ dirs' = Tail(dirs)
    /\ files' = IF dirs[1].exists THEN dirs[1].files ELSE {}
    /\ UNCHANGED <<pc, given, coll, file, environment, custom, flagged, exit, output, offers,
                   broken>>
EndFiles ==
    /\ EndDirectory /\ dirs = <<>>
    /\ pc' = "environment"
    /\ UNCHANGED <<given, coll, dirs, files, file, environment, custom, flagged, exit, output,
                   offers, broken>>

Kinds(f) == SelectSeq(resolvers, LAMBDA kind : CanResolve(kind, f))
\* What YAML's add_value makes of a node.
YamlOf(node, ValueIn(_)) ==
    LET items == SelectSeq(node.items, Known)
        members == SelectSeq(node.members, LAMBDA m : Known(m[2]))
    IN  CASE "null" \in DOMAIN node -> NullValue
          [] "items" \in DOMAIN node -> Array([i \in DOMAIN items |-> ValueIn(items[i])])
          [] "members" \in DOMAIN node ->
                 Map(FoldLeft(LAMBDA f, m : AddToMap(f, m[1], ValueIn(m[2])), EmptyMap, members))
          [] OTHER -> Text(node.leaf)
YamlValue(node) ==
    YamlOf(node, LAMBDA x : YamlOf(x, LAMBDA y : YamlOf(y, LAMBDA z : Text(z.leaf))))
\* What is read of a file, step by step: facts, or the events of a JSON document.
Entries(kind, f) ==
    CASE kind = "json" -> Events(f.document)
      [] kind = "yaml" -> [i \in DOMAIN f.document.members |->
                              [name |-> f.document.members[i][1],
                               value |-> YamlValue(f.document.members[i][2])]]
      [] OTHER -> f.lines

\* The directory gives its files in any order.
SkipFile ==
    /\ pc = "files" /\ file = <<>>
    /\ \E f \in files : Kinds(f) = <<>> /\ files' = files \ {f}
    /\ UNCHANGED <<pc, given, coll, dirs, file, environment, custom, flagged, exit, output,
                   offers, broken>>
Refused(kind, f) == ~f.opens \/ (kind = "yaml" /\ ~f.parses)
\* Mutant of Failed: a warning is logged.
FailedWithWarning == UNCHANGED flagged
\* An external_fact_exception: an error is logged.
Failed == flagged' = TRUE
\* The file cannot be opened or started, or is not YAML, which is parsed as a whole.
FileRefused ==
    /\ pc = "files" /\ file = <<>>
    /\ \E f \in files :
           /\ Kinds(f) # <<>> /\ Refused(Head(Kinds(f)), f)
           /\ files' = files \ {f}
           /\ broken' = broken \cup {[of |-> f, kind |-> Head(Kinds(f)), opened |-> f.opens]}
    /\ Failed
    /\ UNCHANGED <<pc, given, coll, dirs, file, environment, custom, exit, output, offers>>
OpenFile ==
    /\ pc = "files" /\ file = <<>>
    /\ \E f \in files :
           /\ Kinds(f) # <<>> /\ f.opens
           /\ files' = files \ {f}
           /\ file' = <<[is |-> f, kind |-> Head(Kinds(f)),
                         rest |-> Entries(Head(Kinds(f)), f), handler |-> Fresh("json")]>>
    /\ UNCHANGED <<pc, given, coll, dirs, environment, custom, flagged, exit, output, offers,
                   broken>>

\* A fact is added by a source; an exception of a built-in resolver leaves everything.
Rank == CASE pc = "files" -> 100 - Len(dirs) [] pc = "environment" -> 102 [] pc = "custom" -> 101
Says(name, v, onward) ==
    /\ coll' = Add(coll, name, v)
    /\ offers' = offers \cup {[rank |-> Rank, name |-> name, value |-> v]}
    /\ pc' = IF coll'.raised THEN "fatal" ELSE onward
Reading == pc = "files" /\ file # <<>> /\ file[1].rest # <<>>
NextEntry == [file EXCEPT ![1].rest = Tail(@)]
Entry == Head(file[1].rest)
\* A line without "=".
IgnoreLine ==
    /\ Reading /\ "ignored" \in DOMAIN Entry
    /\ file' = NextEntry
    /\ UNCHANGED <<pc, given, coll, dirs, files, environment, custom, flagged, exit, output,
                   offers, broken>>
AddEntry ==
    /\ Reading /\ "name" \in DOMAIN Entry
    /\ Says(Lower(Entry.name), Entry.value, pc)
    /\ file' = NextEntry
    /\ UNCHANGED <<given, dirs, files, environment, custom, flagged, exit, output, broken>>
\* The next event of a document; the end of a member of the top object adds a fact.
JsonEvent ==
    /\ Reading /\ file[1].kind = "json"
    /\ LET handler == Step(file[1].handler, Entry)
           added == DOMAIN handler.root
       IN  /\ ~handler.raised
           /\ file' = [NextEntry EXCEPT ![1].handler = [handler EXCEPT !.root = EmptyMap]]
           /\ IF added = {} THEN UNCHANGED <<pc, coll, offers>>
              ELSE \E name \in added : Says(Lower(name), handler.root[name], pc)
    /\ UNCHANGED <<given, dirs, files, environment, custom, flagged, exit, output, broken>>
BrokenOff == [of |-> file[1].is, kind |-> file[1].kind, opened |-> TRUE]
\* A document that breaks off or is no object, a YAML key that is no text, a command that
\* fails: what was added stays.
FileBreaks ==
    /\ pc = "files" /\ file # <<>> /\ file[1].kind # "text"
    /\ \/ ~file[1].is.parses
       \/ Reading /\ file[1].kind = "json" /\ Step(file[1].handler, Entry).raised
    /\ file' = <<>> /\ broken' = broken \cup {BrokenOff}
    /\ Failed
    /\ UNCHANGED <<pc, given, coll, dirs, files, environment, custom, exit, output, offers>>
\* A text file that can no longer be read looks like one that has ended.
TextStops ==
    /\ pc = "files" /\ file # <<>> /\ file[1].kind = "text" /\ ~file[1].is.parses
    /\ file' = <<>> /\ broken' = broken \cup {BrokenOff}
    /\ UNCHANGED <<pc, given, coll, dirs, files, environment, custom, flagged, exit, output,
                   offers>>
EndFile ==
    /\ pc = "files" /\ file # <<>> /\ file[1].rest = <<>>
    /\ file[1].is.parses
    /\ file' = <<>>
    /\ UNCHANGED <<pc, given, coll, dirs, files, environment, custom, flagged, exit, output,
                   offers, broken>>

\* -------------------------------------------------------------- other sources

\* A variable that begins with FACTER_ is a fact.
AddVariable ==
    /\ pc = "environment" /\ environment # <<>>
    /\ LET variable == Head(environment)
       IN  IF "ignored" \in DOMAIN variable THEN UNCHANGED <<pc, coll, offers>>
           ELSE Says(Lower(variable.name), variable.value, pc)
    /\ environment' = Tail(environment)
    /\ UNCHANGED <<given, dirs, files, file, custom, flagged, exit, output, broken>>
EndEnvironment ==
    /\ pc = "environment" /\ environment = <<>>
    /\ pc' = "custom"
    /\ UNCHANGED <<given, coll, dirs, files, file, environment, custom, flagged, exit, output,
                   offers, broken>>
\* A custom fact replaces what is there, or removes it when it has no value. One the
\* environment gives does not; one without weight only stands in for a missing fact.
AddCustom ==
    /\ pc = "custom" /\ custom # <<>>
    /\ LET fact == Head(custom)
           asked == Asked(coll, fact.name)
           v == IF fact.raises THEN NullValue ELSE fact.value
       IN  IF \E o \in offers : o.rank = 102 /\ o.name = fact.name
           THEN UNCHANGED <<pc, coll, offers, flagged>>
           ELSE IF fact.weight = 0 /\ (asked.raised \/ fact.name \in DOMAIN asked.facts)
           THEN /\ coll' = asked
                /\ pc' = IF asked.raised THEN "fatal" ELSE pc
                /\ UNCHANGED <<offers, flagged>>
           ELSE /\ Says(fact.name, v, pc)
                /\ flagged' = (flagged \/ fact.raises)
    /\ custom' = Tail(custom)
    /\ UNCHANGED <<given, dirs, files, file, environment, exit, output, broken>>
EndCustom ==
    /\ pc = "custom" /\ custom = <<>>
    /\ pc' = "write"
    /\ UNCHANGED <<given, coll, dirs, files, file, environment, custom, flagged, exit, output,
                   offers, broken>>

\* -------------------------------------------------------------- output

\* The answers to the queries, one after the other.
Answer(query, state) ==
    LET w == QueryValue(state.c, query)
    IN  [c |-> w.c, answers |-> (query :> w.current) @@ state.answers]
Answers == FoldSet(Answer, [c |-> coll, answers |-> EmptyMap], queries)
Shown(c) == [n \in DOMAIN c.facts \ c.hidden |-> <<c.facts[n]>>]
\* Mutant of Listed: hidden facts are written.
ListedWithHidden(c) == Shown([c EXCEPT !.hidden = {}])
\* All facts, but the hidden ones.
Listed(c) == Shown(c)
\* The hash format shows a single answer without its name.
WriteHash(answers) ==
    IF Cardinality(DOMAIN answers) # 1 THEN <<answers>>
    ELSE answers[CHOOSE q \in DOMAIN answers : TRUE]
\* JSON and YAML show no answer as an empty string.
WriteNamed(answers) ==
    <<[q \in DOMAIN answers |-> IF answers[q] = <<>> THEN <<Text(<<>>)>> ELSE answers[q]]>>
WriteQueries(answers) ==
    IF options \cap {"json", "yaml"} = {} THEN WriteHash(answers) ELSE WriteNamed(answers)
Write ==
    /\ pc = "write"
    /\ LET c == IF queries = {} THEN ResolveAll(coll) ELSE Answers.c
       IN  /\ coll' = c
           /\ IF c.raised THEN pc' = "fatal" /\ UNCHANGED <<exit, output>>
              ELSE Ends(IF flagged THEN "failure" ELSE "success",
                        [kind |-> "facts",
                         shown |-> IF queries = {} THEN <<Listed(c)>>
                                   ELSE WriteQueries(Answers.answers)])
    /\ UNCHANGED <<given, dirs, files, file, environment, custom, flagged, offers, broken>>
\* main's catch.
Fatal ==
    /\ pc = "fatal"
    /\ flagged' = TRUE
    /\ Ends("failure", Only("nothing"))
    /\ UNCHANGED <<given, coll, dirs, files, file, environment, custom, offers, broken>>

\* -------------------------------------------------------------- behaviour

Init ==
    /\ pc = "options" /\ options \in CommandLines
    /\ queries = {} /\ resolvers = Posix
    /\ host \in Hosts /\ coll = Empty(host)
    /\ dirs = <<>> /\ files = {} /\ file = <<>> /\ environment = <<>> /\ custom = <<>>
    /\ flagged = FALSE /\ exit = "" /\ output = Only("nothing") /\ offers = {} /\ broken = {}
Next ==
    \/ Reject \/ Help \/ Version \/ Start
    \/ NextDirectory \/ EndFiles \/ SkipFile \/ FileRefused \/ OpenFile
    \/ IgnoreLine \/ AddEntry \/ JsonEvent \/ FileBreaks \/ TextStops \/ EndFile
    \/ AddVariable \/ EndEnvironment \/ AddCustom \/ EndCustom \/ Write \/ Fatal
Spec == Init /\ [][Next]_vars

\* -------------------------------------------------------------- properties

Gathered == pc = "done" /\ ~coll.raised /\ output.kind = "facts"
AllFacts == ResolveAll(coll)
BuiltInValue(name) ==
    LET groups == {g \in host : name \in DOMAIN g.facts}
    IN  IF groups = {} THEN NullValue ELSE (CHOOSE g \in groups : TRUE).facts[name]

\* A fact is what the strongest source that names it says: environment, custom facts,
\* the last directory, what is built in. Resolving late changes nothing of this, nor do
\* files that broke off; the files of one directory are in no order.
StrongestSourceWins ==
    Gathered /\ ~AllFacts.raised =>
        \A name \in DOMAIN Spelling :
            LET named == {o \in offers : o.name = name}
                strongest == {o \in named : \A p \in named : p.rank <= o.rank}
                v == IF name \in DOMAIN AllFacts.facts THEN AllFacts.facts[name] ELSE NullValue
            IN  IF named = {} THEN v = BuiltInValue(name) ELSE \E o \in strongest : v = o.value

\* The exit status tells of every loss but one: a run that succeeds has written what was
\* asked for and has read each file it took up to its end, unless it was a text file whose
\* reading failed after it was opened (util/file.cc:17-22).
ExitTellsLoss ==
    pc = "done" /\ exit = "success" =>
        /\ output.kind # "nothing" /\ file = <<>> /\ ~coll.raised
        /\ \A b \in broken : b.kind = "text" /\ b.opened

\* A query is answered as if all facts had been resolved before: with the fact it is the
\* whole name of, or else with what its path leads to, whatever is in quotes in it, and
\* with nothing when it leads nowhere.
AnswersAreFound ==
    Gathered /\ queries # {} /\ ~AllFacts.raised =>
        LET facts == AllFacts.facts
            places == Places(facts)
            Whole(q) == {facts[n] : n \in Named(DOMAIN facts, q)}
            Led(q) == {p.value : p \in {x \in places : LeadsTo(q, x.path)}}
        IN  \A q \in queries :
                ToSet(Answers.answers[q]) = IF Whole(q) # {} THEN Whole(q) ELSE Led(q)

\* Without a query, each fact is written in each format unless it is hidden: a fact that
\* was given from outside never is.
ListingIsWhole ==
    Gathered /\ queries = {} =>
        /\ coll.unresolved = {}
        /\ \A name \in DOMAIN coll.facts :
               LET told == \E o \in offers : o.name = name
                   hides == \E g \in host : name \in g.hidden
               IN  name \in DOMAIN output.shown[1] <=> told \/ ~hides
=============================================================================
