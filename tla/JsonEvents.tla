------------------------------ MODULE JsonEvents ------------------------------
(* The handlers of rapidjson's events: json_event_handler of lib/src/facts/   *)
(* external/json_resolver.cc and gce_event_handler of lib/src/facts/resolvers/ *)
(* gce_resolver.cc, which differ in where the members of the top object go    *)
(* and in what they make of strings. A string is the sequence of its parts,   *)
(* "/" or line ends being between them.                                       *)
EXTENDS Naturals, SequencesExt, TLC

\* -------------------------------------------------------------- values

Text(parts) == [text |-> parts]
Array(seq)  == [array |-> seq]
Map(f)      == [map |-> f]
NullValue   == [null |-> TRUE]
EmptyMap    == [name \in {} |-> NullValue]

\* array_value::add ignores null. map_value::add keeps what is there.
AddToArray(seq, v) == Append(seq, v)
AddToMap(f, key, v) ==
    [k \in DOMAIN f \cup {key} |-> IF k \in DOMAIN f THEN f[k] ELSE v]

\* -------------------------------------------------------------- the handler

\* kind: whose handler; key: _key; stack: the arrays and maps that are open, the
\* outermost first; root: the members of the top object; raised: an exception left.
Fresh(kind) ==
    [kind |-> kind, initialized |-> FALSE, key |-> "", stack |-> <<>>, root |-> EmptyMap,
     raised |-> FALSE]
Raised(h) == [h EXCEPT !.raised = TRUE]
Opened(h, container) ==
    [h EXCEPT !.stack = Append(@, [key |-> h.key, value |-> container]), !.key = ""]

InMap(h) == h.stack = <<>> \/ "map" \in DOMAIN Last(h.stack).value
\* A fact replaces the one there is; a member of a map does not.
AddToRoot(h, v) ==
    [h EXCEPT !.root = IF h.kind = "json" THEN (h.key :> v) @@ @ ELSE AddToMap(@, h.key, v),
              !.key = ""]
AddValue(h, v) ==
    LET top == Len(h.stack)
    IN  CASE ~h.initialized -> Raised(h)
          [] h.initialized /\ InMap(h) /\ h.key = "" -> Raised(h)
          [] h.initialized /\ InMap(h) /\ h.key # "" ->
               IF top = 0 THEN AddToRoot(h, v)
               ELSE [h EXCEPT !.stack[top].value.map = AddToMap(@, h.key, v), !.key = ""]
          [] OTHER -> [h EXCEPT !.stack[top].value.array = AddToArray(@, v)]

Null(h) == IF ~h.initialized THEN Raised(h) ELSE [h EXCEPT !.key = ""]
\* What gce_event_handler makes of the value of some keys.
Shaped(kind, key, parts) ==
    CASE kind = "gce" /\ key = "sshKeys" -> Array([i \in DOMAIN parts |-> Text(<<parts[i]>>)])
      [] kind = "gce" /\ key = "zone"    -> Text(<<Last(parts)>>)
      [] OTHER                           -> Text(parts)
\* A string in a map is the key when there is none yet.
String(h, parts) ==
    IF InMap(h) /\ h.key = ""
    THEN IF ~h.initialized THEN Raised(h) ELSE [h EXCEPT !.key = parts[1]]
    ELSE AddValue(h, Shaped(h.kind, h.key, parts))
StartObject(h) ==
    IF ~h.initialized THEN [h EXCEPT !.initialized = TRUE] ELSE Opened(h, Map(EmptyMap))
StartArray(h) == IF ~h.initialized THEN Raised(h) ELSE Opened(h, Array(<<>>))
\* Mutant of Close: the key of the container is not restored.
CloseNoKey(h) ==
    LET top == Last(h.stack) IN AddValue([h EXCEPT !.stack = Front(@)], top.value)
\* EndArray, and EndObject of an object that is not the top one.
Close(h) ==
    LET top == Last(h.stack)
    IN  AddValue([h EXCEPT !.stack = Front(@), !.key = top.key], top.value)
EndObject(h) == IF h.stack = <<>> THEN h ELSE Close(h)

Step(h, event) ==
    IF h.raised THEN h
    ELSE CASE event.kind = "{"      -> StartObject(h)
           [] event.kind = "}"      -> EndObject(h)
           [] event.kind = "["      -> StartArray(h)
           [] event.kind = "]"      -> Close(h)
           [] event.kind = "null"   -> Null(h)
           [] event.kind = "string" -> String(h, event.parts)
Parse(kind, events) == FoldLeft(Step, Fresh(kind), events)

\* -------------------------------------------------------------- documents

\* A document is [leaf |-> parts], [null |-> TRUE], [items |-> documents] or
\* [members |-> <<key, document>>s]; its events are those of rapidjson's Reader.
Mark(kind) == <<[kind |-> kind]>>
StringEvent(parts) == <<[kind |-> "string", parts |-> parts]>>
Simple(d) == IF "null" \in DOMAIN d THEN Mark("null") ELSE StringEvent(d.leaf)
Inside(seq, EventsIn(_)) == FoldLeft(LAMBDA s, x : s \o EventsIn(x), <<>>, seq)
\* Of a document whose parts have the events given by EventsIn.
EventsOf(d, EventsIn(_)) ==
    CASE "items" \in DOMAIN d -> Mark("[") \o Inside(d.items, EventsIn) \o Mark("]")
      [] "members" \in DOMAIN d ->
           Mark("{") \o Inside(d.members, LAMBDA m : StringEvent(<<m[1]>>) \o EventsIn(m[2]))
               \o Mark("}")
      [] OTHER -> Simple(d)
Events(d) == EventsOf(d, LAMBDA x : EventsOf(x, Simple))

\* What a document means: null is left out, the first member of a name counts (the
\* last in the top object of a fact file).
Known(d) == "null" \notin DOMAIN d
MeaningOf(kind, key, d, MeaningIn(_, _)) ==
    LET items == SelectSeq(d.items, Known)
        members == SelectSeq(d.members, LAMBDA m : Known(m[2]))
    IN  CASE "items" \in DOMAIN d -> Array([i \in DOMAIN items |-> MeaningIn("", items[i])])
          [] "members" \in DOMAIN d ->
               Map(FoldLeft(LAMBDA f, m : f @@ (m[1] :> MeaningIn(m[1], m[2])), EmptyMap, members))
          [] OTHER -> Shaped(kind, key, d.leaf)
Meaning(kind, d) ==
    MeaningOf(kind, "", [d EXCEPT !.members = IF kind = "json" THEN Reverse(@) ELSE @],
              LAMBDA k, x : MeaningOf(kind, k, x, LAMBDA l, y : Shaped(kind, l, y.leaf))).map
=============================================================================
