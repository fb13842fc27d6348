----------------------------- MODULE Collection -----------------------------
(***************************************************************************)
(* facter::facts::collection: the lazily resolved store of facts           *)
(* (lib/src/facts/collection.cc, lib/src/facts/resolver.cc).               *)
(*                                                                         *)
(* The collection is single threaded but re-entrant.  Asking for a fact    *)
(* runs the resolvers registered for it, and a resolver, while it runs,    *)
(* asks the same collection for other facts and adds facts to it; adding   *)
(* a fact asks for it first.  The model makes the C++ call stack explicit: *)
(* `stack` holds one frame per active call, with the iterators each call   *)
(* keeps alive across the calls it makes.                                  *)
(***************************************************************************)
EXTENDS Integers, Sequences, FiniteSets

CONSTANTS
    NumNames,      \* the names are 1..NumNames, in the order std::map sorts them
    NumResolvers,  \* resolvers are 1..NumResolvers, in order of registration
    Names,         \* Names[r]: resolver::names()
    Patterned,     \* the resolvers that were given patterns
    Matches,       \* Matches[r]: the names one of r's patterns matches
    Program,       \* Program[r]: the get and add calls r.resolve() makes, in order
    Asked,         \* the names an application asks for
    Supplied,      \* the names an application adds and removes
    Queries        \* the sets of queries an application passes to write()

Name == 1..NumNames
Resolver == 1..NumResolvers

Absent == -1            \* no entry in _facts; as an argument, a null value
App == 0                \* a value the application supplied
Value == {App} \cup Resolver       \* otherwise: the resolver that supplied it

Op == [op : {"get", "add"}, name : Name]

ASSUME CollectionAssumption ==
    /\ NumNames \in Nat
    /\ NumResolvers \in Nat
    /\ Names \in [Resolver -> SUBSET Name]
    /\ Patterned \subseteq Resolver
    /\ Matches \in [Resolver -> SUBSET Name]
    /\ \A r \in Resolver \ Patterned : Matches[r] = {}
    /\ Program \in [Resolver -> Seq(Op)]
    /\ Asked \subseteq Name /\ Supplied \subseteq Name
    /\ Queries \subseteq SUBSET Name

\* The names a resolver announces: asking for one of them resolves it.
Covers(r) == Names[r] \cup Matches[r]

(***************************************************************************)
(* Nodes of the multimap _resolver_map, and iterators into it.  Equal keys *)
(* keep insertion order, so nodes are ordered by name, then registration.  *)
(***************************************************************************)
Node == Name \X Resolver
End == <<NumNames + 1, 0>>       \* the past-the-end iterator of the multimap
Iterator == Node \cup {End}
NoPattern == NumResolvers + 1    \* the past-the-end iterator of the pattern list

Before(a, b) == a[1] < b[1] \/ (a[1] = b[1] /\ a[2] < b[2])

\* The first node of a set of nodes, or End.
FirstOf(nodes) ==
    IF nodes = {} THEN End
    ELSE CHOOSE a \in nodes : \A b \in nodes : a = b \/ Before(a, b)

\* The first element of a list of resolvers, or NoPattern.
FrontOf(rs) ==
    IF rs = {} THEN NoPattern
    ELSE CHOOSE r \in rs : \A s \in rs : r <= s

VARIABLES
    facts,             \* _facts
    resolvers,         \* _resolvers: the list, whose order is registration order
    resolverMap,       \* _resolver_map: the nodes of the multimap
    patternResolvers,  \* _pattern_resolvers, likewise a list in registration order
    stack,             \* the calls in progress, outermost first; <<>> when idle
    registered,        \* how many resolvers the application has registered
    resolved,          \* history: the resolvers whose resolve() was entered
    seen,              \* history: the names whose answer reached the application
    crashed            \* an invalid iterator was dereferenced and the process died

index == <<resolvers, resolverMap, patternResolvers>>
rest == <<registered, resolved, seen, crashed>>
vars == <<facts, resolvers, resolverMap, patternResolvers, stack, registered,
          resolved, seen, crashed>>

-----------------------------------------------------------------------------
(* Frames *)

\* get_value(name): first the loop over [it, stop) of the multimap, then the
\* loop over the pattern list at pit.
LookupFrame == [kind : {"lookup"}, phase : {"names", "patterns"}, name : Name,
                it : Iterator, stop : Iterator, pit : Resolver \cup {NoPattern}]
RunFrame    == [kind : {"run"}, res : Resolver, pc : Nat \ {0}]
AddFrame    == [kind : {"add"}, name : Name, val : Value \cup {Absent}]
RemoveFrame == [kind : {"remove"}, name : Name]
DrainFrame  == [kind : {"drain"}]
\* write(queries): the queries left, and the value pointers already taken.
WriteFrame  == [kind : {"write"}, asked : SUBSET Name, todo : SUBSET Name,
                held : SUBSET Name]
Frame == LookupFrame \cup RunFrame \cup AddFrame \cup RemoveFrame
         \cup DrainFrame \cup WriteFrame

Lookup(n) ==
    [kind |-> "lookup", phase |-> "names", name |-> n,
     it   |-> FirstOf({a \in resolverMap : a[1] >= n}),
     stop |-> FirstOf({a \in resolverMap : a[1] > n}),
     pit  |-> NoPattern]
Run(r) == [kind |-> "run", res |-> r, pc |-> 1]

Idle == stack = <<>> /\ ~crashed
Top == stack[Len(stack)]
InCall(kind) == stack # <<>> /\ Top.kind = kind
Push(f) == Append(stack, f)
Pop == SubSeq(stack, 1, Len(stack) - 1)
Replace(f) == Append(Pop, f)

-----------------------------------------------------------------------------
(* Registration and removal of resolvers *)

\* Mutant of Forget: the resolver stays on the list resolve_facts walks.
ForgetKeepsListed(r) ==
    /\ resolvers' = resolvers
    /\ resolverMap' = {a \in resolverMap : a[2] # r}
    /\ patternResolvers' = patternResolvers \ {r}

\* Mutant of Forget: the pattern list is not cleaned up.
ForgetKeepsPattern(r) ==
    /\ resolvers' = resolvers \ {r}
    /\ resolverMap' = {a \in resolverMap : a[2] # r}
    /\ patternResolvers' = patternResolvers

\* remove(shared_ptr<resolver>): every index forgets the resolver.
Forget(r) ==
    /\ resolvers' = resolvers \ {r}
    /\ resolverMap' = {a \in resolverMap : a[2] # r}
    /\ patternResolvers' = patternResolvers \ {r}

\* add(shared_ptr<resolver>).
AddResolver ==
    /\ Idle
    /\ registered < NumResolvers
    /\ LET r == registered + 1 IN
         /\ resolverMap' = resolverMap \cup (Names[r] \X {r})
         /\ patternResolvers' =
                IF r \in Patterned THEN patternResolvers \cup {r} ELSE patternResolvers
         /\ resolvers' = resolvers \cup {r}
    /\ registered' = registered + 1
    /\ seen' = seen \ Covers(registered + 1)
    /\ UNCHANGED <<facts, stack, resolved, crashed>>

\* The application withdraws a resolver it registered.
RemoveResolver(r) ==
    /\ Idle
    /\ r \in resolvers
    /\ Forget(r)
    /\ UNCHANGED <<facts, stack, rest>>

\* clear().
Clear ==
    /\ Idle
    /\ facts' = [n \in Name |-> Absent]
    /\ resolvers' = {} /\ resolverMap' = {} /\ patternResolvers' = {}
    /\ UNCHANGED <<stack, rest>>

\* Common to the three loops: remove(resolver); resolver->resolve(*this).
\* callers is the stack with the caller's own frame already advanced.
Resolve(r, callers) ==
    /\ Forget(r)
    /\ resolved' = resolved \cup {r}
    /\ stack' = Append(callers, Run(r))
    /\ UNCHANGED <<facts, registered, seen, crashed>>

-----------------------------------------------------------------------------
(* get_value(name) = resolve_fact(name), then the lookup in _facts *)

\* Mutant of ResolveByName: the iterator is advanced after resolve().
ResolveByNameLateAdvance ==
    /\ InCall("lookup") /\ Top.phase = "names" /\ Top.it # Top.stop
    /\ Top.it \in resolverMap
    /\ Resolve(Top.it[2], stack)

\* resolver = (it++)->second; remove(resolver); resolver->resolve(*this)
ResolveByName ==
    /\ InCall("lookup") /\ Top.phase = "names" /\ Top.it # Top.stop
    /\ Top.it \in resolverMap
    /\ LET next == FirstOf({a \in resolverMap : Before(Top.it, a)})
       IN Resolve(Top.it[2], Replace([Top EXCEPT !.it = next]))

\* Mutant of BeginPatterns: resolvers with patterns are not consulted.
BeginPatternsForgotten ==
    /\ InCall("lookup") /\ Top.phase = "names" /\ Top.it = Top.stop
    /\ stack' = Replace([Top EXCEPT !.phase = "patterns", !.pit = NoPattern])
    /\ UNCHANGED <<facts, index, rest>>

\* it == range.second: pattern_it = _pattern_resolvers.begin()
BeginPatterns ==
    /\ InCall("lookup") /\ Top.phase = "names" /\ Top.it = Top.stop
    /\ stack' = Replace([Top EXCEPT !.phase = "patterns",
                                    !.pit = FrontOf(patternResolvers)])
    /\ UNCHANGED <<facts, index, rest>>

\* The pattern resolvers at or after pattern_it that match the name.
MatchesLeft == {r \in patternResolvers : r >= Top.pit /\ Top.name \in Matches[r]}

\* Mutant of ResolveByPattern: the end of the list is not checked for.
ResolveByPatternPastEnd ==
    /\ InCall("lookup") /\ Top.phase = "patterns"
    /\ Top.pit \in patternResolvers
    /\ LET r == FrontOf(MatchesLeft)
           next == FrontOf({t \in patternResolvers : t > r})
       IN Resolve(r, Replace([Top EXCEPT !.pit = next]))

\* pattern_it skips the list up to the next match, then resolves it.
ResolveByPattern ==
    /\ InCall("lookup") /\ Top.phase = "patterns"
    /\ Top.pit \in patternResolvers
    /\ MatchesLeft # {}
    /\ LET r == FrontOf(MatchesLeft)
           next == FrontOf({s \in patternResolvers : s > r})
       IN Resolve(r, Replace([Top EXCEPT !.pit = next]))

LookupReturns ==
    /\ InCall("lookup") /\ Top.phase = "patterns"
    /\ \/ Top.pit = NoPattern
       \/ Top.pit \in patternResolvers /\ MatchesLeft = {}
    /\ stack' = Pop
    /\ seen' = IF Len(stack) <= 2 THEN seen \cup {Top.name} ELSE seen
    /\ UNCHANGED <<facts, index, registered, resolved, crashed>>

\* The loop is about to dereference an iterator to an erased node, or end().
InvalidIterator ==
    /\ InCall("lookup")
    /\ \/ Top.phase = "names" /\ Top.it # Top.stop /\ Top.it \notin resolverMap
       \/ Top.phase = "patterns" /\ Top.pit # NoPattern
            /\ Top.pit \notin patternResolvers

\* Undefined behaviour: the freed node is unreadable and the process dies, or
\* it reads as the end of the list and the loop stops early.
DereferenceInvalid ==
    /\ InvalidIterator
    /\ \/ crashed' = TRUE /\ stack' = <<>>
       \/ crashed' = FALSE /\ stack' = Pop
    /\ UNCHANGED <<facts, index, registered, resolved, seen>>

-----------------------------------------------------------------------------
(* Callers of get_value *)

\* Application calls operator[] or get<T>.
Get(n) ==
    /\ Idle
    /\ stack' = Push(Lookup(n))
    /\ UNCHANGED <<facts, index, rest>>

\* Mutant of AddCall: the fact is not resolved before it is replaced.
AddCallUnresolved(callers, n, v) ==
    stack' = Append(callers, [kind |-> "add", name |-> n, val |-> v])

\* add(name, value) up to its call of get_value.
AddCall(callers, n, v) ==
    stack' = Append(Append(callers, [kind |-> "add", name |-> n, val |-> v]), Lookup(n))

\* Application calls add(name, value): an external, environment or custom fact.
Add(n, v) ==
    /\ Idle
    /\ AddCall(stack, n, v)
    /\ UNCHANGED <<facts, index, rest>>

\* remove(string) up to its call of get_value.
RemoveCall(callers, n) ==
    stack' = Append(Append(callers, [kind |-> "remove", name |-> n]), Lookup(n))

Remove(n) ==
    /\ Idle
    /\ RemoveCall(stack, n)
    /\ UNCHANGED <<facts, index, rest>>

\* add(name, value) after get_value: store, or remove an existing value.
AddStores ==
    /\ InCall("add") /\ Top.val # Absent
    /\ facts' = [facts EXCEPT ![Top.name] = Top.val]
    /\ stack' = Pop
    /\ UNCHANGED <<index, rest>>

AddNull ==
    /\ InCall("add") /\ Top.val = Absent
    /\ IF facts[Top.name] # Absent THEN RemoveCall(Pop, Top.name) ELSE stack' = Pop
    /\ UNCHANGED <<facts, index, rest>>

RemoveErases ==
    /\ InCall("remove")
    /\ facts' = [facts EXCEPT ![Top.name] = Absent]
    /\ stack' = Pop
    /\ UNCHANGED <<index, rest>>

-----------------------------------------------------------------------------
(* resolve_facts(), reached from size(), each() and write() without queries *)

ResolveAll ==
    /\ Idle
    /\ stack' = Push([kind |-> "drain"])
    /\ UNCHANGED <<facts, index, rest>>

ResolveFront ==
    /\ InCall("drain") /\ resolvers # {}
    /\ Resolve(FrontOf(resolvers), stack)

DrainReturns ==
    /\ InCall("drain") /\ resolvers = {}
    /\ stack' = Pop
    /\ UNCHANGED <<facts, index, rest>>

(***************************************************************************)
(* write() with queries, as write_hash and write_yaml do it: query_value   *)
(* for every query first, keeping the value pointers, then print them.     *)
(***************************************************************************)
Write(qs) ==
    /\ Idle
    /\ stack' = Push([kind |-> "write", asked |-> {}, todo |-> qs, held |-> {}])
    /\ UNCHANGED <<facts, index, rest>>

\* Take the pointer of the query just answered, if any, and ask the next one.
WithAnswer == [Top EXCEPT !.held = @ \cup {n \in Top.asked : facts[n] # Absent},
                          !.asked = {}]

WriteAsks ==
    /\ InCall("write") /\ Top.todo # {}
    /\ \E n \in Top.todo :
         /\ \A m \in Top.todo : n <= m
         /\ stack' = Append(Replace([WithAnswer EXCEPT !.asked = {n}, !.todo = @ \ {n}]),
                           Lookup(n))
    /\ UNCHANGED <<facts, index, rest>>

WritePrints ==
    /\ InCall("write") /\ Top.todo = {}
    /\ stack' = Pop
    /\ UNCHANGED <<facts, index, rest>>

-----------------------------------------------------------------------------
(* The body of a resolver *)

AtOp == InCall("run") /\ Top.pc <= Len(Program[Top.res])
NextOp == Program[Top.res][Top.pc]
Advanced == Replace([Top EXCEPT !.pc = @ + 1])

RunGets ==
    /\ AtOp /\ NextOp.op = "get"
    /\ stack' = Append(Advanced, Lookup(NextOp.name))
    /\ UNCHANGED <<facts, index, rest>>

RunAdds ==
    /\ AtOp /\ NextOp.op = "add"
    /\ AddCall(Advanced, NextOp.name, Top.res)
    /\ UNCHANGED <<facts, index, rest>>

\* The datum of the next call is missing, or an earlier answer makes it moot.
RunSkips ==
    /\ AtOp
    /\ stack' = Advanced
    /\ UNCHANGED <<facts, index, rest>>

RunReturns ==
    /\ InCall("run") /\ Top.pc > Len(Program[Top.res])
    /\ stack' = Pop
    /\ UNCHANGED <<facts, index, rest>>

\* resolve() throws: no frame of the collection catches, so the exception
\* reaches the application and every call in progress is abandoned.
RunThrows ==
    /\ InCall("run")
    /\ stack' = <<>>
    /\ UNCHANGED <<facts, index, rest>>

-----------------------------------------------------------------------------
Init ==
    /\ facts = [n \in Name |-> Absent]
    /\ resolvers = {} /\ resolverMap = {} /\ patternResolvers = {}
    /\ stack = <<>>
    /\ registered = 0
    /\ resolved = {}
    /\ seen = {}
    /\ crashed = FALSE

\* What the application does: one call at a time.
Call ==
    \/ AddResolver
    \/ \E r \in Resolver : RemoveResolver(r)
    \/ Clear
    \/ \E n \in Asked : Get(n)
    \/ \E n \in Supplied : Remove(n) \/ Add(n, App) \/ Add(n, Absent)
    \/ ResolveAll
    \/ \E qs \in Queries : Write(qs)

\* What a call in progress does next.
Step ==
    \/ ResolveByName \/ BeginPatterns \/ ResolveByPattern \/ LookupReturns
    \/ DereferenceInvalid
    \/ AddStores \/ AddNull \/ RemoveErases
    \/ ResolveFront \/ DrainReturns \/ WriteAsks \/ WritePrints
    \/ RunGets \/ RunAdds \/ RunSkips \/ RunReturns \/ RunThrows

Next == Call \/ Step

Spec == Init /\ [][Next]_vars

\* A call that has been made runs on: nothing in it waits for anything else.
FairSpec == Spec /\ WF_vars(Step)
-----------------------------------------------------------------------------
(* Properties *)

\* Every variable has its type: the indexes only hold registered resolvers and
\* the call stack only frames that calls of collection.cc make.
TypeOK ==
    /\ facts \in [Name -> Value \cup {Absent}]
    /\ resolvers \subseteq Resolver
    /\ resolverMap \subseteq Node
    /\ patternResolvers \subseteq Resolver
    /\ stack \in Seq(Frame)
    /\ registered \in 0..NumResolvers
    /\ resolved \subseteq Resolver
    /\ seen \subseteq Name
    /\ crashed \in BOOLEAN

Runs(i) == stack[i].kind = "run"

\* A resolver is forgotten before its resolve() is entered, so however the
\* calls nest it is entered once: nothing pending has run, and no resolver is
\* twice on the call stack (the recursion of get, resolve, add, get ends).
ResolvedOnce ==
    /\ resolvers \cap resolved = {}
    /\ \A i \in 1..Len(stack) : Runs(i) =>
         /\ stack[i].res \in resolved
         /\ \A j \in 1..Len(stack) :
              Runs(j) /\ stack[j].res = stack[i].res => i = j

\* The three indexes describe the same set of resolvers whenever code can look
\* at them: add(res) fills and remove(res) empties all three.
IndexesAgree ==
    /\ resolverMap = {a \in Node : a[2] \in resolvers /\ a[1] \in Names[a[2]]}
    /\ patternResolvers = resolvers \cap Patterned

\* No pending resolver announces n.
NonePending(n) == \A r \in resolvers : n \notin Covers(r)

\* When get_value(n) goes on to read _facts, every resolver announced for n has
\* been started, whichever call below it on the stack started it.
AnswerIsComplete ==
    InCall("lookup") /\ Top.phase = "patterns" /\ MatchesLeft = {} =>
        NonePending(Top.name)

\* The resolvers that are registered, or were when they were resolved, announce
\* different names, as those of facter do.
NamesDisjoint ==
    \A r, s \in resolvers \cup resolved : r # s => Covers(r) \cap Covers(s) = {}

\* Resolvers only add facts they announce.  Those of facter do.
AddsAnnounced ==
    \A r \in Resolver : \A i \in 1..Len(Program[r]) :
        Program[r][i].op = "add" => Program[r][i].name \in Covers(r)

\* A set of resolvers none of which asks for, or adds, a fact of another one.
ClosedUnderAsking(S) ==
    \A r \in S, t \in Resolver : \A i \in 1..Len(Program[r]) :
        Program[r][i].name \in Covers(t) => t \in S

\* No resolver with patterns reaches another one through what it asks for.  Those of
\* facter (network interfaces, block devices, processors, zones) ask for no fact and
\* only add facts of their own.
PatternsApart ==
    \A r \in Patterned : \E S \in SUBSET Resolver :
        S \cap Patterned = {r} /\ ClosedUnderAsking(S)

\* No iterator the two loops of resolve_fact keep across resolver->resolve()
\* is used after the node it points to was erased by a nested call, as long as
\* no two resolvers announce the same name and no resolver with patterns leads
\* to another one, whose node would be the next of the pattern list.
NoInvalidIterator ==
    NamesDisjoint /\ PatternsApart => ~InvalidIterator /\ ~crashed

\* write() with queries keeps pointers to values while it resolves the other
\* queries: no call above it replaces or erases a value it points to.
HeldValuesStay ==
    \A i, j \in 1..Len(stack) :
        stack[i].kind = "write" /\ stack[j].kind \in {"add", "remove"} =>
            stack[j].name \notin stack[i].held

\* An answer the application got is final: once a call it made has looked n up,
\* only the application itself changes n, never a resolver that happens to run
\* later.  In particular an external, environment or custom fact added over a
\* built-in one stays (add: "Ensure the fact is resolved before replacing it").
SeenFactsStay ==
    [][\A n \in seen : facts'[n] # facts[n] => Len(stack) <= 1]_vars

\* "The last resolver that was added for a particular name or pattern will
\* 'win' resolution" (collection.hpp): a value of a resolver never replaces the
\* value of a resolver that was added after it.
LastAddedWins ==
    [][\A n \in Name :
         facts[n] \in Resolver /\ facts'[n] \in Resolver => facts[n] <= facts'[n]]_vars

\* Every call returns to the application, or throws to it: no cycle of
\* resolvers asking for each other's facts keeps it from ending.
CallsReturn == stack # <<>> ~> stack = <<>>

\* Resolvers whose resolve() has been entered and has not returned.
Running == {stack[i].res : i \in {j \in 1..Len(stack) : Runs(j)}}

\* What the collection promises, and that this collection keeps the promise:
\* each step is a step of LazyFacts or leaves its variables alone.
Lazy == INSTANCE LazyFacts WITH
            value <- facts, pending <- resolvers, active <- Running, started <- resolved
RefinesLazyFacts == Lazy!LSpec

=============================================================================
