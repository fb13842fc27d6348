------------------------------- MODULE Queries -------------------------------
(* The collection as the program asks it: facts that are built in are resolved *)
(* when one of their names is asked for, queries walk into structured values   *)
(* (lib/src/facts/collection.cc). How resolving is interleaved is the subject  *)
(* of Collection.tla; here a resolver either adds its facts or throws.         *)
EXTENDS JsonEvents, Integers

CONSTANTS
    Hosts,         \* the sets of built-in resolvers there may be: [facts, hidden, raises]
    Spelling       \* from the names to their characters

\* Each fact that is built in has one resolver, which hides none but its own.
ASSUME QueriesAssumption ==
    /\ \A n, m \in DOMAIN Spelling : Spelling[n] = Spelling[m] => n = m
    /\ \A host \in Hosts : \A g \in host :
           /\ g.hidden \subseteq DOMAIN g.facts
           /\ \A h \in host : g # h => DOMAIN g.facts \cap DOMAIN h.facts = {}

\* -------------------------------------------------------------- the collection

Empty(host) == [facts |-> EmptyMap, hidden |-> {}, unresolved |-> host, raised |-> FALSE]

NamesOf(groups) == UNION {DOMAIN g.facts : g \in groups}
\* Some groups are resolved. When one throws, the exception leaves the program: what the
\* others added before or did not add after it is not seen again.
Resolve(c, groups) ==
    [facts |-> [n \in DOMAIN c.facts \cup NamesOf(groups) |->
                    IF n \in NamesOf(groups) THEN (CHOOSE g \in groups : n \in DOMAIN g.facts).facts[n]
                    ELSE c.facts[n]],
     hidden |-> c.hidden \cup UNION {g.hidden : g \in groups},
     unresolved |-> c.unresolved \ groups,
     raised |-> c.raised \/ \E g \in groups : g.raises]
AskedFor(c, names) == Resolve(c, {g \in c.unresolved : DOMAIN g.facts \cap names # {}})
\* get_value(name).
Asked(c, name) == AskedFor(c, {name})
\* resolve_facts().
ResolveAll(c) == Resolve(c, c.unresolved)

Without(c, name) ==
    [c EXCEPT !.facts = [n \in DOMAIN @ \ {name} |-> @[n]], !.hidden = @ \ {name}]
With(c, name, v) ==
    [c EXCEPT !.facts = [n \in DOMAIN @ \cup {name} |-> IF n = name THEN v ELSE @[n]],
              !.hidden = @ \ {name}]
\* Mutant of Add: the fact is replaced before it is resolved.
AddUnresolved(c, name, v) ==
    IF c.raised THEN c ELSE IF v = NullValue THEN Without(c, name) ELSE With(c, name, v)
\* add(name, value): a null value removes the fact.
Add(c, name, v) ==
    LET asked == Asked(c, name)
    IN  CASE asked.raised -> asked
          [] ~asked.raised /\ v = NullValue -> Without(asked, name)
          [] OTHER -> With(asked, name, v)

\* -------------------------------------------------------------- queries

Blank == {".", " "}
Squeeze(s, ch) == IF s # <<>> /\ ch = "." /\ Last(s) = "." THEN s ELSE Append(s, ch)
\* The query as main takes it from the command line: trimmed, no repeated dots.
Normalised(raw) ==
    LET kept == {i \in DOMAIN raw : raw[i] \notin Blank}
        trimmed == IF kept = {} THEN <<>> ELSE SubSeq(raw, Min(kept), Max(kept))
    IN  FoldLeft(Squeeze, <<>>, trimmed)

\* A walk through a query: what it found so far is a sequence of none or one.
Walk(c) == [c |-> c, current |-> <<>>, quotes |-> FALSE, segment |-> <<>>, stopped |-> FALSE]
Named(names, chars) == {n \in names : n \in DOMAIN Spelling /\ Spelling[n] = chars}
GetValue(w, chars) ==
    LET asked == AskedFor(w.c, Named(DOMAIN Spelling, chars))
    IN  [w EXCEPT !.c = asked,
                  !.current = SetToSeq({asked.facts[n] : n \in Named(DOMAIN asked.facts, chars)})]

Digits == [d \in {"0", "1", "2"} |-> CHOOSE n \in 0..2 : ToString(n) = d]
\* stoi: after spaces and a sign, the digits a text begins with; -1 when there are none.
Index(chars) ==
    LET shown == {i \in DOMAIN chars : chars[i] # " "}
        signed == IF shown = {} THEN <<>> ELSE SubSeq(chars, Min(shown), Len(chars))
        negative == signed # <<>> /\ signed[1] = "-"
        unsigned == IF negative \/ (signed # <<>> /\ signed[1] = "+") THEN Tail(signed) ELSE signed
        wrong == {i \in DOMAIN unsigned : unsigned[i] \notin DOMAIN Digits}
        digits == IF wrong = {} THEN unsigned ELSE SubSeq(unsigned, 1, Min(wrong) - 1)
        number == FoldLeft(LAMBDA n, d : 10 * n + Digits[d], 0, digits)
    IN  IF digits = <<>> THEN -1 ELSE IF negative THEN -number ELSE number
Element(seq, i) == IF i >= 0 /\ i < Len(seq) THEN <<seq[i + 1]>> ELSE <<>>

\* lookup(): a fact, then members and elements.
LookUp(w) ==
    LET v == w.current[1]
    IN  IF w.current = <<>> THEN GetValue(w, w.segment)
        ELSE [w EXCEPT !.current =
                CASE "map" \in DOMAIN v ->
                         SetToSeq({v.map[n] : n \in Named(DOMAIN v.map, w.segment)})
                  [] "array" \in DOMAIN v -> Element(v.array, Index(w.segment))
                  [] OTHER -> <<>>]
\* Mutant of Char: dots part the segments inside of quotes, too.
CharUnquoted(w, ch) ==
    LET found == LookUp(w)
    IN  CASE w.stopped -> w
          [] ~w.stopped /\ ch = "\"" -> [w EXCEPT !.quotes = ~@]
          [] ~w.stopped /\ ch = "." ->
                 [found EXCEPT !.segment = <<>>, !.stopped = found.current = <<>>]
          [] OTHER -> [w EXCEPT !.segment = Append(@, ch)]
\* The next character.
Char(w, ch) ==
    LET found == LookUp(w)
    IN  CASE w.stopped -> w
          [] ~w.stopped /\ ch = "\"" -> [w EXCEPT !.quotes = ~@]
          [] ~w.stopped /\ ch = "." /\ ~w.quotes ->
                 [found EXCEPT !.segment = <<>>, !.stopped = found.current = <<>>]
          [] OTHER -> [w EXCEPT !.segment = Append(@, ch)]
\* query_value(query): the fact of that name, or what the path leads to.
QueryValue(c, query) ==
    LET whole == GetValue(Walk(c), query)
        walked == FoldLeft(Char, whole, query)
    IN  IF whole.current # <<>> THEN whole
        ELSE IF walked.stopped \/ walked.segment = <<>> THEN walked ELSE LookUp(walked)

\* -------------------------------------------------------------- what a path leads to

\* All values with their paths: a name for a fact or a member, a number for an element.
Member(n) == [name |-> Spelling[n]]
ChildrenOf(v) ==
    CASE "map" \in DOMAIN v -> {<<Member(n), v.map[n]>> : n \in DOMAIN v.map}
      [] "array" \in DOMAIN v -> {<<[index |-> i - 1], v.array[i]>> : i \in DOMAIN v.array}
      [] OTHER -> {}
Deeper(places) ==
    UNION {{[path |-> Append(p.path, child[1]), value |-> child[2]] :
               child \in ChildrenOf(p.value)} : p \in places}
Places(facts) ==
    LET top == {[path |-> <<Member(n)>>, value |-> facts[n]] : n \in DOMAIN facts}
    IN  top \cup Deeper(top) \cup Deeper(Deeper(top))

\* What a query says: the texts between the dots that are not in quotes, without the
\* quotes; what is empty after the last dot does not count.
Segments(query) ==
    LET Quotes(i) == Cardinality({j \in 1..i : query[j] = "\""})
        dots == {i \in DOMAIN query : query[i] = "." /\ Quotes(i) % 2 = 0}
        ends == SetToSortSeq(dots \cup {0, Len(query) + 1}, <)
        Bare(text) == SelectSeq(text, LAMBDA ch : ch # "\"")
        texts == [k \in 1..Len(ends) - 1 |-> Bare(SubSeq(query, ends[k] + 1, ends[k + 1] - 1))]
    IN  IF Last(texts) = <<>> THEN Front(texts) ELSE texts
\* An element is meant by all that stoi reads as its number: 0, 00, -0 and 0b.
Means(text, step) == IF "name" \in DOMAIN step THEN text = step.name ELSE Index(text) = step.index
LeadsTo(query, path) ==
    /\ Len(Segments(query)) = Len(path)
    /\ \A i \in DOMAIN path : Means(Segments(query)[i], path[i])
=============================================================================
