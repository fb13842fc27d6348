# facter: a verification project

Facter collects facts about the machine it runs on. This directory holds TLA+
models of libfacter and of the program around it, TLC configurations that check
them on small instances, and TLAPS proofs of what matters most for every
instance. Paths below are relative to the repository.

## 1. Inventory

| component | state | operations | what is hard | modules |
|---|---|---|---|---|
| **Fact collection** `lib/src/facts/collection.cc` | `_facts`, the list `_resolvers`, the multimap `_resolver_map`, the list `_pattern_resolvers` | `add(resolver)`, `add(name, value)`, `remove`, `clear`, `operator[]`, `each`, `write`, `resolve_facts`, `query_value` | re-entrant: asking for a fact runs resolvers, which ask for facts and add facts, and `add` asks first; loops keep iterators across those calls; `write` keeps value pointers | `Collection`, `LazyFacts`, `Queries` |
| **Fact resolvers** `lib/src/facts/resolvers`, one directory per platform | none of their own | `resolve(collection)` | they depend on each other's facts (ec2 and gce on virtualization, virtualization on dmi, os on kernel); flat and structured facts say the same; sizes in unsigned arithmetic | `BaseResolvers`, `PosixHosts`, `LinuxHosts`, `UnixHosts`, `WindowsHosts`, `Platforms` |
| **Command execution** `lib/src/execution/posix/execution.cc` | the child, two pipes, an interval timer, the global `command_timedout`, two `scope_exit` objects | `execute`, `read_from_child` | two processes and a signal handler: full pipes, EINTR, a timeout that races the end of the output, `setpgid` that races `kill`, exceptions between fork and waitpid | `Execute` |
| **Command execution, Windows** `lib/src/execution/windows/execution.cc` | the process, its job, two overlapped pipes, a waitable timer | the same, `ArgvToCommandLine` | one wait for several handles; reads that complete at once or later; processes that are not in the job yet; quoting | `WindowsExecute`, `CommandLine` |
| **Output lines** `lib/src/execution/execution.cc` | a buffer per stream | `process_data`, `process_streams` | a read ends anywhere in a line | `StreamLines` |
| **Custom facts** `lib/src/ruby/module.cc`, `fact.cc`, `resolution.cc`, `simple_resolution.cc`, `confine.cc` | `_facts`, `_loaded_files`, `_loaded_all`; per fact `_resolutions`, `_value`, `_resolved`, `_resolving` | `Facter.value`, `.fact`, `.add`, `.to_hash`, `.flush`, `.reset`, `.clear` | Ruby blocks call back into the module, load files and raise; precedence over built-in and environment facts; loops over containers that grow | `CustomFacts` |
| **Aggregate resolutions** `aggregate_resolution.cc`, `chunk.cc` | `_chunks`; per chunk `_value`, `_resolved`, `_resolving`, `_dependencies` | `chunk`, `aggregate`, `value` | chunks require each other; exceptions pass through several frames | `Chunks` |
| **External facts** `lib/src/facts/external` | none | search directories; text, YAML, JSON and executable files | one failing file must not hide the others; a file that fails half-way | `Gather`, `JsonEvents` |
| **Program** `exe/facter.cc`, **logging** | options; "an error was logged" | parse, gather, print, exit status | order of the sources of facts; a failure anywhere shows in the exit status | `Gather` |
| **HTTP, EC2, GCE** `lib/src/http`, `ec2_resolver.cc`, `gce_resolver.cc` | the context of a request; the handler's stack and key | one blocking request, redirects followed | a failing request in the middle of a tree; a document in events | `HttpClient`, `JsonEvents`, `Metadata` |
| **Values and writers** `*_value.cc` | the values | add, write hash, JSON, YAML | what the formats show for no value | `Queries`, `Gather` (the text is not modelled) |
| **Ruby binding** `api.cc`, `ruby_value.cc`, `ruby.cc` | the loaded interpreter, the registry of data objects | load, `protect`, `rescue`, conversion | C++ frames crossed by Ruby's longjmp; order of destruction | none |
| **JRuby binding** `lib/src/java/facter.cc` | an immutable collection | resolve all at load, read afterwards | | none |
| **Utilities** `lib/src/util` | | wrappers of the operating system | `scope_exit`, sizes | parts of `Execute`, `BaseResolvers` |

How they interact: the program fills one collection in the order default
resolvers, external facts, environment facts, custom facts, and writes it. A
resolver reads the collection it adds to. Custom facts read the collection
(`facts[name]`) and replace or remove what is in it (`facts.add`). Resolvers,
executable external facts and `setcode` commands run `execute`. Nothing is
persisted, and apart from the commands it starts libfacter is single threaded:
the hazards are re-entrance, exceptions, order of calls, late resolution, and
the two processes with their alarm. `PROJECT.json` lists each hazard at its line.

## 2. Modules

`A -> B` reads "A extends B":

    CollectionProofs -> Collection        Collection implements LazyFacts
    ExecuteProofs -> Execute              StreamLines
    WindowsExecuteProofs -> WindowsExecute -> CommandLine
    CustomFactsProofs -> CustomFacts      ChunksProofs -> Chunks
    Platforms -> LinuxHosts, UnixHosts, WindowsHosts -> PosixHosts -> BaseResolvers
    MetadataProofs -> Metadata -> HttpClient, JsonEvents
    GatherProofs -> Gather -> Queries -> JsonEvents
    FoldFacts: what a fold computes; WindowsExecuteProofs, MetadataProofs and
    GatherProofs have an instance for each operator that is folded, and
    CollectionProofs takes its induction on naturals

The components meet at promises: what `Collection` shows of any resolvers (each
is run once, an answer is complete) is what `Platforms`, `Queries` and
`CustomFacts` take the collection for, with the platforms' own resolvers, with
resolvers that answer or throw, and with names that have a built-in value. What
`CustomFacts` shows is what `Gather` takes custom facts for, and `Metadata`
stands for what `Platforms` gets on a machine of a cloud. The `MC*` modules hold
the instances TLC checks.

### Collection, LazyFacts

The C++ call stack is the variable `stack`: a frame per active `get_value`
(`lookup`, with the iterators `it`, `stop`, `pit` it keeps), `resolve` (`run`),
`add`, `remove`, `resolve_facts` (`drain`) and `write`. A resolver is data: the
names it announces (`Names`), the names its patterns match (`Matches`) and the
`get` and `add` calls it makes (`Program`); each may be skipped, and a resolver
may throw, which unwinds to the application. A value is who supplied it. The
multimap is a set of (name, resolver) nodes in the order of the multimap;
registration order is the number of the resolver. Dereferencing an erased node
is `DereferenceInvalid`, after which the program is `crashed` or the loop stops
early.

`LazyFacts` is what a collection promises: every resolver starts at most once,
only an active resolver supplies facts, and the application replaces a fact only
when nothing pending announces it. `RefinesLazyFacts` maps its `pending`,
`active` and `started` to the list of resolvers, the `run` frames of the stack
and the history of what was resolved.

### Queries

The collection as one caller sees it: built-in groups of facts are resolved when
one of their names is asked for, or throw. `Char` is one turn of the loop of
`query_value`, `LookUp` is `lookup`, `Index` what `stoi` makes of a segment: it
reads a sign and the digits a text begins with, so `1b` is an index and `-0` is
the first element, while an index that is negative or beyond the array finds
nothing. The reference does not walk: `Places` are all values with their paths,
`Segments` splits a query at the dots that are not in quotes, and `LeadsTo` says that
each segment `Means` its step of the path, a member by its name, an element by
anything `stoi` reads as its number (`0`, `00`, `-0`, `+1`, ` 1`).

### Platforms and the modules under it

`BaseResolvers` has what `resolve()` of each shared resolver makes of the data,
and the names it announces; `PosixHosts`, `LinuxHosts`, `UnixHosts` and
`WindowsHosts` have what `collect_data` of each platform reads from a host. A
host is a record of what the system calls, files and commands give, already in
fields: the regular expressions that take lines apart are not modelled, the
choice made with their result is. A version is the sequence of its components,
an address a pair of network and host, a number of bytes a word of `Word` values
(`Word32` where the code multiplies 32-bit numbers). `si_string` gives the number
in hundredths and the unit. `Platforms` registers a platform's resolvers, asks
for facts in any order, and has the resolvers ask each other.

### Execute

The parent's program counter goes through `idle`, `arm`, `loop`, `select`,
`read`, `drained`, `reap`, `wait`, `waitpid`, `decide`, `disarm`. The timer
handler can run between any two steps; it interrupts a blocked `select` (the
loop looks at the flag) and a blocked `waitpid` (the reaper logs and returns).
The child sets its process group, execs or fails, writes, forks a background
process that inherits its pipes, and ends. Calls follow each other without
limit. `missed` marks a `kill` that found no group because the child had not yet
called `setpgid`: the code then waits for a command nobody killed, so the
properties that speak about the end of such a call exclude it.

### WindowsExecute, CommandLine

One call: the command line is made, the process is created (and runs at once),
put into a job, its pipes are read in turn until each read pends, then the
parent waits for data or the timer, and at the end for the process or the timer.
The break at the first pipe that is closed or pending (line 236) is as in the
code: `SkipPipe`. A descendant is in the job when it was created after the child
was (`joined`), else `free`. `ProcessEnds` disarms the reaper and then asks for the exit
code, which may fail: the call throws, and what the child has left in the job runs on.
`TerminateJobObject` may fail as well, which the code only logs; `spared` marks it.
`ParseCommandLine` is how the run-time library of
the command takes its line apart, the reference for `ArgvToCommandLine`.

### StreamLines

Characters are letters, a space and the two line ends; every output up to
`MaxOutput` is cut into reads of up to `MaxChunk` in every way. The reference
definition `LinesOf` splits the whole output at once.

### CustomFacts

Frames of `stack` are calls of `fact::value` (entering, evaluating confines,
running a block), the loop of `resolve_facts`, calls of `load_fact` and
`load_facts` with the number of the file they have come to (`at`), and files being
loaded. A file is a sequence of statements, which add a resolution or ask for a
fact, so files load each other; a file may raise before or after any statement, and it
does where it would give a fact more than `MaxResolutions`. A definition with the name
of a resolution that is there (`Named`) is not added: it gives that resolution a new
block, a new weight if it has one, and more confines (`Redefined`), unless one of the
two is an aggregate resolution and the other is not, which raises. So a resolution
is what was made of it last, `[code, weight, confines]`, and `code` is the definition
its block is from. Blocks and confines ask for facts in a fixed order and
then give a value, give nil or raise. An exception is rescued by the innermost
caller that evaluates resolutions or loads a file (`Rescue`). A vector
that is full moves when it grows, and the iterator of a loop over it
is then marked: `moved` for the resolutions, `torn` for the confines of the one that
is looked at. Using such an iterator reads freed memory (`lost`). `Flush` resets the
facts in their order, up to one whose `on_flush` block raises. `OneFile(n)` says that all resolutions
of a fact are in one file, as they are in a directory with a file per fact. The
collection
is seen through its promise: the name of a built-in fact answers with the
built-in value until `facts.add` replaces or removes it. A value records the
resolution that gave it and the number of flushes before.

### Chunks

The graph of requirements is a variable: initially any of the allowed ones, and
`DefineChunk` changes it between evaluations: the chunk that is defined again is no
longer resolved, the fact and the chunks that required it keep what they have.
A call of `chunk::value` collects
the values of the required chunks, runs the block, and on an exception resets
`_resolving` and passes it on, until the fact rescues it. A value is its type
(nil, hash, array, other) and the block runs it was made from. Two hashes may
merge or, when they hold values that do not merge under one key, raise. Each block run
carries the number of definitions before it (`version`), so that a value from a block
that was replaced shows. What an
aggregate block returns is abstracted to what it was given.

### HttpClient, JsonEvents, Metadata

`WriteHeader` and `WriteBody` are the callbacks of libcurl, which hands over the
responses of a request, redirects first, line by line. `query_metadata` recurses
over a tree of listings: `frames` is its call stack. Any request may fail, and a status
line may be one the regular expression does not match, which leaves the status as it was.
`JsonEvents` has the handler of rapidjson's events, which `json_resolver.cc` and
`gce_resolver.cc` share but for the top object; `Meaning` is the reference, what
a document says without any handler.

### Gather

`main`: the options that conflict, then the sources of facts in the order of the
code, one action per file opened, entry read, event of a document, variable and
custom fact. `offers` records what each source said and its rank, `broken` the
files that were not read to their end; both are history. `FileBreaks` is a
document that does not parse, a YAML key that is no text, or a command that fails,
after any of the entries: what was added stays. `TextStops` is a text file whose
reading fails once it is open, which the code takes for its end.
A built-in resolver that throws leads to `Fatal`, main's catch. `host` is the set of
built-in resolvers of the machine.

## 3. Runs

| run | question | instance and why it is enough |
|---|---|---|
| `collection_tangle` | does the collection keep its promises (types, each resolver once, indexes agree, complete answers, valid iterators, stable pointers, facts that were seen stay, refinement of `LazyFacts`), does every call return? | five resolvers: two ask for each other's fact, one has a pattern and asks for its own fact, one announces a name another announces too, and a second with a pattern is behind the first in the list, so each of the two loops is nested in each of them; every order of registering, asking, supplying, removing, clearing and writing |
| `collection_last_wins` | does the last resolver for a name win, as `collection.hpp:92` says? No | two resolvers for one name |
| `execute_calls` | what holds when a call returns or throws; does a command that ends make `execute` return? | one slot per pipe, so a writer meets a full pipe; two writes per pipe; exit codes 0, 1, 200 (200 is negative as a `char`); stdout alone or both pipes; with and without a timeout; any number of calls |
| `execute_waits` | is the child collected when `execute` returns? No: the alarm interrupts `waitpid` | one write |
| `windows_calls` | is stdout complete, does an exception end the job, do arguments arrive, does a call with a timeout end? | two chunks per pipe of one slot, a descendant that may leave the job; all lists of two arguments of up to three of letter, space, quote and backslash |
| `windows_pending` | do all pipes pend when the parent waits, as `execution.cc:280` says? No | as above |
| `stream_lines` | do the lines depend on how the output was cut? | five characters of two letters, a space, `\n`, `\r`, reads of up to three: a line end, an empty line and a trimmed line fall on, before and after the end of a read |
| `custom_files` | is every resolution defined once, whatever files load and raise meanwhile; precedence of built-in, environment and custom values, caching, order of resolutions, cycles, iterators; does every call return? | four files with nine definitions: blocks ask for an unknown name and so load all files, a file asks for a fact between what it adds, and it adds to another file's fact, also while that fact is evaluated, past the limit of two resolutions; one of its definitions has the name of a resolution there, each may redefine the other, and the confine it adds moves the confines; one file defines a name twice, one gives a name to a simple and to an aggregate resolution, and that fact is in the environment, too; a flush that may stop half-way, and any number of resets |
| `chunk_graphs` | cycles, exceptions, arguments, the merge, values of chunks that were defined again, end of evaluations | three chunks and five lists of requirements: 125 graphs with self loops, cycles, diamonds, unknown names; each chunk is defined again once, before, between or after evaluations; any number of flushes |
| `platforms` | do the facts depend on the order of the questions, do flat and structured facts agree, are sizes right, is every fact announced? | 39 hosts of six platforms, chosen for the branches of the code (distributions, hypervisors, missing files, interfaces without addresses, sizes at the edge of a unit and of a word); of fifteen names two are asked in any order, then everything |
| `metadata` | is what the service says what the facts say, and is nothing shown when a request fails? | a listing with all kinds of entries, of which one is a key, one is excluded and one is empty; every request may be refused, redirected, answered with an illegible status or fail; GCE documents of up to two members with null, text, arrays and objects |
| `gather` | which source wins, what does the exit status tell, what do queries find, is all listed? | pairs of options that conflict; five layouts of directories with files of every kind, broken, unreadable and missing ones; all queries of up to three of five characters, and longer ones with elements spelled `-0`, `00`, `+1`, ` 1` and in quotes; a host with a resolver that throws |

Every property has a mutant in the module it is checked in (a definition named
`Mutant of ...`), a plausible bug under which TLC finds the property violated.

Bounds. The numbers of names, resolvers, facts, files and chunks are constants,
and so are hosts, documents, layouts and command lines. `MaxWrites`, `Capacity`,
`MaxOutput`, `MaxChunk`, `MaxResolutions` (100 in the code), `MaxFlushes` (custom facts),
`MaxRedefinitions` (chunks), `MaxQueries`, `MaxLength` and
`MaxArguments` bound what the environment does. Recursion needs no bound: the
code ends it.

Deadlock is not checked where the system stops: a program that has ended
(`gather`, `metadata`, `platforms` when no questions are left, `windows_*`), a
collection that crashed on an erased iterator (`collection_*`), custom facts that
read freed memory (`lost`, `custom_files`), and `execute` after a kill that found no group, which waits for a command nobody killed.

Fairness. `Collection`, `CustomFacts` and `Chunks` assume weak fairness of the
steps of a call that has begun: the code never waits there. In `Execute` the
parent, the alarm and the start of the child are weakly fair because the kernel
schedules them (`FairParent`); `FairSpec` adds that the command and what it
leaves behind run to their end (strong fairness for the end of the command,
which is enabled between its writes). In `WindowsExecute` the parent and the
timer are fair, the command only in a call without a timeout: a timeout is meant
for commands that do not end. System calls never have to fail. The other
modules state safety only.

What the runs say about each component:

- `Collection`: re-entrance is safe as long as no two resolvers announce the same
  name and no resolver with patterns leads to another one. Otherwise a walk of
  `resolve_fact` may dereference an erased node (`DereferenceInvalid`; no platform
  registers such a pair, and a program that uses the library may).
  `NoInvalidIterator` says that nothing else leads there.
- `Execute`: returning and throwing are clean, except for an alarm that comes
  after the output has ended: in a blocked `waitpid` it leaves the child behind
  (`execute_waits`), just before it blocks it goes unnoticed until the child ends.
- `WindowsExecute`: stdout is read to its end, stderr may not be (`windows_pending`). An
  exception ends the job, but for two cases that `ExceptionEndsJob` names: the job
  cannot be terminated (line 508), or the error comes after the end of the child was
  seen, when the exit code is asked for (line 562) and the reaper is off; then a
  descendant runs on.
- `CustomFacts`: a file that raises harms no other file; there is one resolution of a
  name, which is as it was defined last; the value of
  `Facter.value` and of the collection agree, and a fact of the environment wins,
  but a flushed fact may answer an old value. Order of weights and iterators are
  safe for a fact that is defined in one file.
- `Platforms`: the facts do not depend on who asks first. Resolvers that decide
  on other facts ask for them by name.
- `Metadata`: a failing request drops the metadata of the service it belongs to.
- `Gather`: whatever is not read to its end shows in the exit status, except a text file
  whose reading fails once it is open (`util/file.cc:17-22`).
- `Chunks`: the fact's value is made of the chunks as they are defined by then. What a
  chunk has made of one that was defined again later stays as it was.

Three disagreements between text and code have a run (`findings` in
`PROJECT.json`). Others met while modelling are visible in the definitions named:

- `fact.cc:94` keeps the value found in the collection, so that a heavier
  resolution loaded later is never asked (`UsesCollection` in `CustomFacts`); a
  block that loads a file extending the fact being resolved invalidates the
  iterator of the loop (`fact.cc:100`, `moved`), and a heavier resolution it adds is
  not asked before the one that is running; a confined resolution that is not
  suitable removes the built-in fact (`LoopEnds`); after a flush a fact of the
  environment can be replaced by a resolution, and a fact whose best resolution
  has weight 0 answers the collection's old value (`Flush`); a flushed aggregate
  fact is merged from old chunk values (`Flush` in `Chunks`).
- An exit status above 127 is reported as negative (`AsChar`); a kill may find no
  process group (`missed`); without `trim_output` a line begins with the line end
  before it (`Data` in `StreamLines`).
- A Windows child runs before it is in its job (`windows/execution.cc:498`).
- `stoi` takes `1b` for an index, and `a.""` answers `a` (`Queries`); the program
  collapses `..` also between quotes (`Gather`); a YAML null removes a fact while
  a JSON null is ignored (`JsonEvents`, `Gather`).
- On Windows `domain` takes the suffix of the first adapter
  (`networking_resolver.cc:199`) where `facter.yaml:302` names the primary
  interface; on BSD an interface with several addresses shows the last address
  with the first netmask; OS X computes free memory in 32 bits
  (`osx/memory_resolver.cc:42`); `used` of a file system wraps when more is
  available than its size.
- `collection::empty` documents that it resolves all facts, which it does not.

## 4. Proofs

TLC shows a property on the instance above, a theorem for every value of the
constants.

`CollectionProofs`, for every number of names and resolvers, every announcement
and every program of the resolvers, from `CollectionAssumption` (the constants
have their types, and a resolver without patterns matches nothing):

- `TypeCorrect`: `Spec => []TypeOK`. Inductive as it stands; the lemmas about
  `FirstOf`, `FrontOf` and the call stack (`PushFrame`, `PopStack`, `ReplaceTop`)
  carry it.
- `IndexesCorrect`: `Spec => []IndexesAgree`. Inductive with `TypeOK`: the list,
  the multimap and the pattern list only change together, in `add(resolver)`,
  `remove(resolver)` and `clear`.
- `ResolvedOnceCorrect`: `Spec => []ResolvedOnce`, that no resolver is entered
  twice. Not inductive by itself: a resolver entered through an iterator must be
  known to be pending, which the multimap and the pattern list say only together
  with `IndexesAgree`; and a resolver registered later must be fresh. The
  inductive invariant `Once` adds to `ResolvedOnce` that what is beyond
  `registered` was never listed or resolved (`Fresh`), and keeps the part about
  the stack as `RunsOnce`. No condition on the resolvers is needed.
- `AnswerIsCompleteCorrect`: when a lookup returns nothing pending announces its
  name, however many names the resolvers share. `LookupsAhead` carries it: whatever
  the indexes hold for the name of a lookup lies at or after its iterator, in every
  frame of the stack, since nothing is registered while a call is in progress.
- `NoInvalidIteratorCorrect`: `ValidIfApart` says that an iterator kept across
  `resolve()` is at the end of its range, or at a node that no call above it comes
  to. The hypotheses are part of the property: names that are not shared, and
  `PatternsApart`.

The same module, for resolvers that add no fact but those they announce
(`AddsAnnounced`; each of facter's does, `collect_data` ends in `add`s of names the
constructor lists or a pattern of it matches):

- `SeenFactsStayCorrect`: what the application was told only the application
  changes. `SeenAreFinal`: nobody who announces a seen name waits or runs; it holds
  for lookups that end early, too, and needs nothing of names or iterators.
- `HeldValuesStayCorrect`, `RefinesLazyFactsCorrect`: the pointers of `write` stay,
  and every step maps to a step of `LazyFacts` or to a stutter (initial states map
  to initial states). `Nesting` says what calls what, `AnsweredBelow` that `add` and
  `remove` go on with a complete answer, `HeldAreFinal` that what `write` holds is
  final, `OwnValue` that a running resolver adds its own facts. Both results assume
  `[]~InvalidIterator`: a lookup that reads a freed node may stop anywhere, and then
  `add` replaces what a waiting resolver announces.
- `DisjointNamesSuffice` discharges that hypothesis with `NoInvalidIteratorCorrect`
  for resolvers that share no names (`NamesApart`) and whose pattern resolvers do not
  lead to each other (`PatternsApart`). Facter's are such: on each platform every name
  is announced by one resolver, and those with patterns (network interfaces, block
  devices, processors, zones) ask for no fact.

TLC evaluates `AddsAnnounced` and `PatternsApart` on both instances of
`MCCollection` (`InstancesAreRegular`), so the theorems' hypotheses have models, and
checks the same properties there with shared names.

`ExecuteProofs`, for pipes of any capacity, any amount of output and any exit
codes; no assumption on the constants is needed:

- `TimeoutIsOwnCorrect`: the alarm is off between calls. `AlarmInv` says where the
  alarm can be on: it is off in `idle` and `arm`, and in the reaper once
  `killChild` is set; and a timeout that was noticed comes from an alarm that
  has fired.
- `ThrowReapsChildCorrect` and `TimeoutKillsGroupCorrect`: `ReaperInv` follows the
  reaper through its steps. A reaper that waits after it killed still has a child
  to collect and no alarm to interrupt it (`ReaperWaits`, which needs `AlarmInv`);
  a status it reports was collected (`StatusIsReaped`); after the kill the group
  is empty or the kill is recorded as `missed` (`GroupIsKilled`).
- `NoOutputLostCorrect`: `DataInv` counts the chunks of each pipe, written is
  delivered plus buffered (`Counted`), and says that the parent leaves a pipe alone
  only when it is empty and nobody can write to it (`ClosedUnlessWatched`), which
  stays so because an end of a pipe is never opened again.

`WindowsExecuteProofs`, for pipes of any capacity and every command line:

- `StdoutIsCompleteCorrect`: `ReadInv` says that the handle of standard output is
  given up only when the pipe is empty and nobody can write to it (`Drained`), and
  that the loop over the pipes passes it only with a read pending or after that
  (`Passed`). Nothing of the kind holds of stderr (`windows_pending`).
- `ExceptionEndsJobCorrect`: `JobInv` says that the reaper is armed from the
  assignment to the job until the end of the process is seen, so an exception before
  that ends the job unless `TerminateJobObject` fails, and one after it finds the child
  ended.
- `ArgumentsArriveCorrect`: the line `ArgvToCommandLine` makes of any arguments, taken
  apart by `ParseCommandLine`, gives those that are not empty. Both are folds over
  characters. `Restored` says what state the parser is in after what was written for
  the first characters of an argument, a run of backslashes that may still be doubled
  included; it is kept by every character (`FoldConcat` takes the parser over the
  text of one after the other), and `LineIsRead` adds arguments to each other.

`ChunksProofs`, for every number of chunks and every graph of requirements:

- `TypeCorrect` and `AnswerHasEveryChunkCorrect` from one invariant `ChunkInv`: the
  resolving marks are those of the calls in progress, no chunk occurs twice in them
  (so the recursion ends), the value of a chunk is of its last block (`Current`, which
  holds because a definition resets the chunk), and what the loop of `value` has passed
  is resolved and all it has collected (`Collected`).

`CustomFactsProofs`, for any number of facts, files and resolutions, any statements,
weights, confines and requests. `Moves` sorts the steps into classes by what they do
to the stack and to the facts (a call is begun, returns, gets on, raises, the
application acts, ...), and each part of the invariant is proved class by class:

- `TypeCorrect`: `Core` is the types, `Nesting` (what frame lies on what) and `Marks`
  (the `_resolving` marks are those of the evaluations in progress, each fact is
  evaluated by one call). With it `TypeOK`, which counts the evaluations.
- `AnswersAgreeCorrect`, `EnvironmentWinsCorrect`: `KnownFacts` and
  `EnvironmentKept`: until the first flush a fact of the environment is resolved and
  no call evaluates it, so nothing replaces its value.
- `FilesDefineOnceCorrect`: a file that runs is loaded and not broken, in one frame
  (`BegunOnce`); a search has begun every file it passed (`SearchesAll`); every
  resolution is as a file that was begun has defined it (`FromFiles`). `DefinesOnce`
  adds that no vector holds a name twice (`Unique`), which a definition keeps because
  it looks for the name first, and that what a definition made is replaced by later ones
  of its name only (`Stands`): a file comes to each of its statements once, and another
  file does not have it.
- `IteratorsStayValidCorrect`, `HeavierAskedFirstCorrect`: the files above an
  evaluation do not add to its fact when its resolutions are in one file
  (`NotExtended`), so neither its vector nor the confines in it grow, and it keeps its
  order (`StaySorted`);
  that sorting permutes and sorts is a lemma about the operator.

`GatherProofs`, for every set of resolvers, options, files, variables and custom
facts, from `QueriesAssumption` (built-in resolvers share no name and hide
facts of their own only) and `GatherAssumption` (queries are texts, directories are in
an order):

- `ExitTellsLossCorrect`: a run that exits with success wrote what was asked for,
  read every file it took to its end, and no resolver threw. `Honest` adds what
  carries it: a broken file is flagged at once, no file is open outside the
  loop over the files, an exception reaches main's catch, and options that end
  the run early leave everything untouched.
- `StrongestSourceWinsCorrect`: each fact has the value of the strongest source that
  named it. A state of the collection is `Sound` for the offers made so far when each
  fact is what its strongest offer says, or, where nobody spoke, what is built in once
  its resolver has run. Resolving on any occasion, early or late, keeps that; adding
  keeps it when nothing stronger spoke before, and `Ranked` says that the program
  comes to the sources in the order of their strength. A query resolves what it asks
  for on its way, so that the folds over its characters and over the set of
  queries keep `Sound`, too (`Walking`, `Answering`).
- `ListingIsWholeCorrect`: from `Sound` and `WrittenWhole` (without a query everything
  was resolved before it was written).

`MetadataProofs`, for every tree, document, redirect and refusal, from `ServiceIsTree`
(the service has a path for each name it lists and lists a name once) and `PathsApart`
(user data and the document of GCE are not part of the tree):

- `FailureDropsMetadataCorrect`: `WalkInv` says that until the walk of the tree ends
  nothing has failed and nothing was added, and that user data is asked for only when
  the root was answered, with no metadata kept if a request below it failed.
- `MetadataIsServedCorrect`: the fact `ec2_metadata` is the tree: each text under its
  path, nothing that was refused, nothing else. `ServedInv` adds to `WalkInv` two
  things. `CallsRight` says of each call of `query_metadata` in progress which names
  its map has (`DoneNames`), that what is under them is right to any depth
  (`FrameRight`), and which lines are left; a recursion that returns puts a right map
  into a right map. `AnswerRight` says what the callbacks still to come will make of
  the context (`Heard`, a fold): after a redirect, too, the status and the body of the
  last response.

`FoldFacts` has the induction these proofs need. The theorems of the library that take
a predicate as a parameter cannot be used, so `NatInduct`, `SeqInduct` and
`SubsetInduct` are stated for sets: what holds is a set that the first element is in and
that is closed under the next. `FoldLeft` and `FoldSet` are recursive functions picked
by CHOOSE; `RunExists` and `SetRunExists` show that there is such a function, and
`FoldEmpty`, `FoldAppend`, `FoldConcat`, `FoldKeeps` what follows. The module is
proved once for a constant operator `op`, and each fold of the model is an instance.

The assumptions on the constants are those TLC evaluates in the runs. Those with
content are `QueriesAssumption` and `ServiceIsTree`; `StatementsDiffer` only says that
each statement of a file has its own name for what it defines, whatever name the
resolution has.

Only model-checked, and why:

- liveness under fairness (`CallsReturn`, `ExecuteReturns`, `CallEnds`,
  `EvaluationEnds`), outside the prover's reach as is ENABLED;
- `LinesIgnoreChunks`, `GceIsTheDocument`, `AnswersAreFound` and the invariants of
  `Platforms`: they rest on operators of the libraries that `tlapm` does not expand
  (`SelectSeq`, `SetToSeq`, `ToString`, `@@`), on recursion over the nesting of a value,
  or, for `Platforms`, on the data of particular hosts;
- the properties of the three runs that expect a violation.

## 5. Not modelled

- The Ruby binding: loading the interpreter, `protect` and `rescue`, the
  conversion of values, the registry and the garbage collector. What a caller of
  it sees, that an exception is rescued by the innermost caller that evaluates
  resolutions, is in `CustomFacts`.
- The JRuby binding: it resolves everything when it is loaded; the rest is JNI.
- The text of the output, levels and colours of the log.
- The regular expressions that take lines and files apart: hosts hold the fields.
- In custom facts: `Facter.clear`, `Facter.reset`, `Facter.flush` and
  `Facter.search` inside a file or a resolution, blocks and files that rescue
  themselves, C++ exceptions inside Ruby calls, more than 16 resolutions (where
  `std::sort` is not stable). A definition takes effect as a whole or not at all: one
  whose block raises half-way, options that raise after `create_fact`, and a definition
  that gives no code, so that the old block stays, are left out, and so is what an
  aggregate resolution keeps of its chunks when it is defined again.
- In aggregate resolutions: chunks that are defined from inside a running block.
- In execution: descriptor numbers (`FD_SET`), `expand_command`, the `each_line`
  overloads; on Windows the memory of reads that complete after the call.
- In the collection: `each` with a callback that changes the collection.
- In HTTP: the upload of a request body, cookies, and libcurl's options.

## 6. Plan left

1. `CustomFacts`: `Facter.clear` and `Facter.search` inside a file or a resolution.
2. `HttpClient`: the upload of a body (`read_body`).
3. The Ruby binding: lifetime of the interpreter, registry and objects.
4. Proofs: an abstract specification of custom facts (a fact is answered by its
   heaviest suitable resolution, once) with its step simulation; `LinesIgnoreChunks`
   as a fold over characters.
