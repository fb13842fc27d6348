------------------------------ MODULE LazyFacts ------------------------------
(***************************************************************************)
(* What a collection promises, whatever the order in which its resolvers   *)
(* come to run: a store in which every resolver starts at most once, only  *)
(* an active resolver supplies facts, and only facts it announces, and the *)
(* application replaces a fact only once nothing pending announces it.     *)
(***************************************************************************)
EXTENDS Integers

CONSTANTS Name, Resolver, Covers(_), App, Absent

VARIABLES
    value,    \* value[n]: who supplied the fact n, or Absent
    pending,  \* resolvers registered and not yet started
    active,   \* resolvers started and not yet finished
    started   \* resolvers ever started

lvars == <<value, pending, active, started>>

Quiet == active = {}

Register(r) ==
    /\ Quiet /\ r \notin pending \cup started
    /\ pending' = pending \cup {r}
    /\ UNCHANGED <<value, active, started>>

Withdraw(r) ==
    /\ Quiet /\ pending' = pending \ {r}
    /\ UNCHANGED <<value, active, started>>

Reset ==
    /\ Quiet /\ pending' = {} /\ value' = [n \in Name |-> Absent]
    /\ UNCHANGED <<active, started>>

Start(r) ==
    /\ r \in pending /\ r \notin started
    /\ pending' = pending \ {r}
    /\ active' = active \cup {r}
    /\ started' = started \cup {r}
    /\ UNCHANGED value

Supply(r, n) ==
    /\ r \in active /\ n \in Covers(r)
    /\ value' = [value EXCEPT ![n] = r]
    /\ UNCHANGED <<pending, active, started>>

Finish(r) ==
    /\ r \in active /\ active' = active \ {r}
    /\ UNCHANGED <<value, pending, started>>

\* A resolver throws: everything in progress is abandoned.
Abandon ==
    /\ active' = {} /\ UNCHANGED <<value, pending, started>>

\* The application replaces (v = App) or removes (v = Absent) a final fact.
Override(n, v) ==
    /\ Quiet /\ \A r \in pending : n \notin Covers(r)
    /\ value' = [value EXCEPT ![n] = v]
    /\ UNCHANGED <<pending, active, started>>

LInit ==
    /\ value = [n \in Name |-> Absent]
    /\ pending = {} /\ active = {} /\ started = {}

LNext ==
    \/ \E r \in Resolver : Register(r) \/ Withdraw(r) \/ Start(r) \/ Finish(r)
    \/ Reset \/ Abandon
    \/ \E r \in Resolver, n \in Name : Supply(r, n)
    \/ \E n \in Name, v \in {App, Absent} : Override(n, v)

LSpec == LInit /\ [][LNext]_lvars
=============================================================================
