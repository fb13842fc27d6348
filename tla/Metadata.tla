------------------------------- MODULE Metadata -------------------------------
(* The resolvers of EC2 and GCE facts (lib/src/facts/resolvers/                *)
(* ec2_resolver.cc and gce_resolver.cc), which ask a service over HTTP. The    *)
(* service of EC2 is a tree: a category lists names, one per line, and a name  *)
(* that does not end in "/" has a value. The one of GCE answers with a document. *)
EXTENDS HttpClient, JsonEvents

CONSTANTS
    Listings,      \* EC2: from the paths of categories to their lines
    Texts,         \* EC2: from the paths of values to their texts
    Documents,     \* GCE: the documents
    Virtuals       \* the values of the fact "virtual"

VARIABLES
    pc,            \* start, line, request, done, raised
    virtual,       \* the fact
    frames,        \* query_metadata's calls in progress, the innermost last
    request,       \* the request: [kind, path]
    incoming,      \* what is still to come of its responses
    ctx,           \* the context of the request
    facts,         \* the facts added
    refused,       \* history: paths whose last response does not say 200
    failed,        \* history: paths whose request, or the parsing of its answer, failed
    asked          \* history: user data was asked for

vars == <<pc, virtual, frames, request, incoming, ctx, facts, refused, failed, asked>>

\* -------------------------------------------------------------- the service

Root == <<>>
List(path)  == [kind |-> "list", path |-> path]
Value(path) == [kind |-> "value", path |-> path]
UserData    == [kind |-> "userdata", path |-> <<"user-data">>]
Computed    == [kind |-> "gce", path |-> <<"computeMetadata">>]

\* Lines of a listing: a name, a name of a category, or "0=key", which is one too.
Leaf(name)     == [name |-> name, category |-> FALSE]
Category(name) == [name |-> name, category |-> TRUE]
Filtered == {Category("security-credentials")}

Wanted(path) == {x \in ToSet(Listings[path]) : x.name # "" /\ x \notin Filtered}
Lines == [name : STRING, category : BOOLEAN]
Tree  == DOMAIN Listings \cup DOMAIN Texts

\* The service has a path for each name it lists, and for no other; it lists a name once.
ASSUME ServiceIsTree ==
    /\ Root \in DOMAIN Listings /\ DOMAIN Listings \cap DOMAIN Texts = {}
    /\ \A p \in Tree : p \in Seq(STRING)
    /\ \A p \in DOMAIN Texts : Texts[p] \in Seq(STRING)
    /\ \A p \in DOMAIN Listings :
           /\ Listings[p] \in Seq(Lines)
           /\ \A i, j \in DOMAIN Listings[p] :
                  /\ {Listings[p][i], Listings[p][j]} \subseteq Wanted(p)
                  /\ Listings[p][i].name = Listings[p][j].name
                  => i = j
           /\ \A x \in Wanted(p) :
                  Append(p, x.name) \in IF x.category THEN DOMAIN Listings ELSE DOMAIN Texts
    /\ \A p \in Tree \ {Root} :
           \E q \in DOMAIN Listings : \E x \in Wanted(q) : p = Append(q, x.name)
\* User data and the document of GCE have URLs of their own, outside of the tree.
ASSUME PathsApart == {UserData.path, Computed.path} \cap Tree = {}

Contents(r) ==
    CASE r.kind = "userdata" -> {<<"data">>}
      [] r.kind = "gce"      -> {<<document>> : document \in Documents}
      [] r.kind = "list"     -> {Listings[r.path]}
      [] r.kind = "value"    -> {Texts[r.path]}
Response(code, text) ==
    <<Status(code), Header("Location", "x"), Blank>> \o [i \in DOMAIN text |-> Piece(<<text[i]>>)]
\* libcurl keeps the bodies of the redirects it follows to itself.
Redirects == {<<>>, Response(302, <<>>)}

\* -------------------------------------------------------------- the client

\* client::get: a fresh context.
Send(r) ==
    /\ request' = r
    /\ ctx' = NewContext
    /\ \E text \in Contents(r), code \in {200, 404, Illegible}, before \in Redirects :
           /\ incoming' = before \o Response(code, IF code = 200 THEN text ELSE <<"no">>)
           /\ refused' = IF code = 200 THEN refused \ {r.path} ELSE refused \cup {r.path}
    /\ pc' = "request"
\* libcurl calls back with the next line or piece.
Callback ==
    /\ pc = "request" /\ incoming # <<>>
    /\ ctx' = Receive(ctx, Head(incoming))
    /\ incoming' = Tail(incoming)
    /\ UNCHANGED <<pc, virtual, frames, request, facts, refused, failed, asked>>
Answered(kind) == pc = "request" /\ incoming = <<>> /\ request.kind = kind
Ok == ctx.status = 200

\* -------------------------------------------------------------- EC2

IsEc2 == virtual \in {"kvm", "xen", "xenhvm", "xenu", "xen0"}
NewFrame(path, lines) == [path |-> path, lines |-> lines, map |-> EmptyMap]

\* A client that cannot be made throws outside of the resolver's try.
ClientFails ==
    /\ pc = "start" /\ IsEc2
    /\ pc' = "raised"
    /\ UNCHANGED <<virtual, frames, request, incoming, ctx, facts, refused, failed, asked>>
StartEc2 ==
    /\ pc = "start" /\ IsEc2
    /\ Send(List(Root))
    /\ UNCHANGED <<virtual, frames, facts, failed, asked>>
StartNothing ==
    /\ pc = "start" /\ ~IsEc2 /\ virtual # "gce"
    /\ pc' = "done"
    /\ UNCHANGED <<virtual, frames, request, incoming, ctx, facts, refused, failed, asked>>

\* A category that is refused has no lines, and so an empty map.
ListAnswered ==
    /\ Answered("list")
    /\ frames' = Append(frames, NewFrame(request.path, IF Ok THEN ctx.body ELSE <<>>))
    /\ pc' = "line"
    /\ UNCHANGED <<virtual, request, incoming, ctx, facts, refused, failed, asked>>
Innermost == frames[Len(frames)]
ValueAnswered ==
    /\ Answered("value")
    /\ frames' = IF ~Ok THEN frames
                 ELSE [frames EXCEPT ![Len(frames)].map =
                           AddToMap(@, Last(request.path), [text |-> ctx.body])]
    /\ pc' = "line"
    /\ UNCHANGED <<virtual, request, incoming, ctx, facts, refused, failed, asked>>

\* The next line of the innermost listing.
Line == Head(Innermost.lines)
TakeLine == frames' = [frames EXCEPT ![Len(frames)].lines = Tail(@)]
HasLine == pc = "line" /\ Innermost.lines # <<>>
SkipLine ==
    /\ HasLine /\ (Line.name = "" \/ Line \in Filtered)
    /\ TakeLine
    /\ UNCHANGED <<pc, virtual, request, incoming, ctx, facts, refused, failed, asked>>
AskLine ==
    /\ HasLine /\ Line.name # "" /\ Line \notin Filtered
    /\ TakeLine
    /\ LET path == Append(Innermost.path, Line.name)
       IN  Send(IF Line.category THEN List(path) ELSE Value(path))
    /\ UNCHANGED <<virtual, facts, failed, asked>>
\* The end of a category: its map goes into the one it is part of.
EndCategory ==
    /\ pc = "line" /\ Innermost.lines = <<>> /\ Len(frames) > 1
    /\ frames' = [Front(frames) EXCEPT ![Len(frames) - 1].map =
                      AddToMap(@, Last(Innermost.path), Map(Innermost.map))]
    /\ UNCHANGED <<pc, virtual, request, incoming, ctx, facts, refused, failed, asked>>
\* The end of the root; user data comes next.
EndMetadata ==
    /\ pc = "line" /\ Innermost.lines = <<>> /\ Len(frames) = 1
    /\ facts' = IF DOMAIN Innermost.map = {} THEN facts
                ELSE AddToMap(facts, "ec2_metadata", Map(Innermost.map))
    /\ frames' = <<>>
    /\ asked' = TRUE
    /\ Send(UserData)
    /\ UNCHANGED <<virtual, failed>>
UserDataAnswered ==
    /\ Answered("userdata")
    /\ facts' = IF Ok THEN AddToMap(facts, "ec2_userdata", [text |-> ctx.body]) ELSE facts
    /\ pc' = "done"
    /\ UNCHANGED <<virtual, frames, request, incoming, ctx, refused, failed, asked>>

\* A request fails before, between or after its responses: an option is not taken,
\* there is no connection, it takes too long.
Fails(kinds) ==
    /\ pc = "request" /\ request.kind \in kinds
    /\ failed' = failed \cup {request.path}
    /\ UNCHANGED virtual
\* Mutant of MetadataFails: what is known so far is kept.
MetadataFailsPartly ==
    /\ Fails({"list", "value"}) /\ request.path # Root
    /\ facts' = AddToMap(facts, "ec2_metadata", Map(frames[1].map))
    /\ frames' = <<>> /\ asked' = TRUE
    /\ Send(UserData)
\* The metadata known so far goes; user data is still asked for.
MetadataFails ==
    /\ Fails({"list", "value"}) /\ request.path # Root
    /\ frames' = <<>> /\ asked' = TRUE
    /\ Send(UserData)
    /\ UNCHANGED facts
\* The first request: this is no instance of EC2.
RootFails ==
    /\ Fails({"list"}) /\ request.path = Root
    /\ pc' = "done"
    /\ UNCHANGED <<frames, request, incoming, ctx, facts, refused, asked>>
LastFails ==
    /\ Fails({"userdata", "gce"})
    /\ pc' = "done"
    /\ UNCHANGED <<frames, request, incoming, ctx, facts, refused, asked>>

\* -------------------------------------------------------------- GCE

StartGce ==
    /\ pc = "start" /\ virtual = "gce"
    /\ Send(Computed)
    /\ UNCHANGED <<virtual, frames, facts, failed, asked>>
\* The events of a document up to its end, or to an error in it.
GceRefused ==
    /\ Answered("gce") /\ ~Ok
    /\ pc' = "done"
    /\ UNCHANGED <<virtual, frames, request, incoming, ctx, facts, refused, failed, asked>>
GceAnswered ==
    /\ Answered("gce") /\ Ok
    /\ LET events == Events(ctx.body[1])
       IN  \E n \in 0 .. Len(events) :
               LET handler == Parse("gce", SubSeq(events, 1, n))
                   parsed == n = Len(events)
               IN  /\ facts' = IF parsed /\ ~handler.raised /\ DOMAIN handler.root # {}
                               THEN AddToMap(facts, "gce", Map(handler.root))
                               ELSE facts
                   /\ failed' = IF parsed THEN failed ELSE failed \cup {request.path}
    /\ pc' = "done"
    /\ UNCHANGED <<virtual, frames, request, incoming, ctx, refused, asked>>

\* -------------------------------------------------------------- behaviour

Init ==
    /\ pc = "start" /\ virtual \in Virtuals
    /\ frames = <<>> /\ request = UserData /\ incoming = <<>> /\ ctx = NewContext
    /\ facts = EmptyMap /\ refused = {} /\ failed = {} /\ asked = FALSE
Next ==
    \/ ClientFails \/ StartEc2 \/ StartNothing \/ StartGce
    \/ Callback \/ ListAnswered \/ ValueAnswered \/ SkipLine \/ AskLine
    \/ EndCategory \/ EndMetadata \/ UserDataAnswered \/ GceRefused \/ GceAnswered
    \/ MetadataFails \/ RootFails \/ LastFails
Spec == Init /\ [][Next]_vars

\* -------------------------------------------------------------- properties

\* What the names of a path lead to from a value, as a sequence of none or one.
Enter(found, name) ==
    IF found # <<>> /\ "map" \in DOMAIN found[1]
    THEN IF name \in DOMAIN found[1].map THEN <<found[1].map[name]>> ELSE <<>>
    ELSE <<>>
At(path) == FoldLeft(Enter, <<facts["ec2_metadata"]>>, path)
\* No category on the way to a path was refused.
Reached(p, gone) == \A n \in 0 .. Len(p) - 1 : SubSeq(p, 1, n) \notin gone
NamesServed(p, gone) ==
    {l.name : l \in {x \in Wanted(p) : x.category \/ Append(p, x.name) \notin gone}}
\* ec2_metadata is what the service has: each text is under its path as it was served,
\* whatever redirects came before it; what was refused is not there; nothing else is.
MetadataIsServed ==
    "ec2_metadata" \in DOMAIN facts =>
        /\ \A p \in DOMAIN Listings :
               At(p) # <<>> =>
                   DOMAIN At(p)[1].map = IF p \in refused THEN {} ELSE NamesServed(p, refused)
        /\ \A p \in DOMAIN Texts :
               At(p) = IF Reached(p, refused) /\ p \notin refused
                       THEN <<[text |-> Texts[p]]>> ELSE <<>>

\* A request that fails takes the metadata with it; when it is the first one, the
\* user data is not asked for.
FailureDropsMetadata ==
    failed \cap Tree # {} =>
        "ec2_metadata" \notin DOMAIN facts /\ (asked <=> Root \notin failed)

\* The GCE fact is the whole document: no part of one that does not parse, no value
\* under another name, none lost but nulls, and none left out of an
\* object that parses.
GceIsTheDocument ==
    virtual = "gce" /\ pc = "done" =>
        LET served == /\ Computed.path \notin refused \cup failed
                      /\ "members" \in DOMAIN ctx.body[1]
            meaning == Meaning("gce", ctx.body[1])
        IN  /\ "gce" \in DOMAIN facts <=> served /\ DOMAIN meaning # {}
            /\ ("gce" \in DOMAIN facts => facts["gce"].map = meaning)
=============================================================================
