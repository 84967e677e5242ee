-------------------------- MODULE OutlookResultCache --------------------------
(***************************************************************************)
(* backend/outlook_result_cache.py: the in-process LRU cache of league     *)
(* outlooks, with single-flight computations, a TTL, and the purge that    *)
(* account deletion makes of a caller's personal entries.                  *)
(*                                                                         *)
(* One step is one section under the lock of the cache, the end of a       *)
(* computation, or one use of the event of a flight.                       *)
(***************************************************************************)
EXTENDS Integers, FiniteSets

CONSTANTS
    Keys,        \* cache keys
    Users,       \* working ids of callers
    Shared,      \* the empty caller id of a key whose basis is not personal
    Caller,      \* slot [3] of a key
    Threads,     \* request threads
    MaxEntries,  \* MAX_ENTRIES
    MaxFlights,  \* bound: computations
    None         \* Python's None

Flights == 1 .. MaxFlights

ASSUME KeysAssumption == Caller \in [Keys -> Users \cup {Shared}] /\ Shared \notin Users
ASSUME BoundsAssumption == MaxEntries \in Nat \ {0} /\ MaxFlights \in Nat
ASSUME NoneAssumption == None \notin Flights \cup Keys

VARIABLES
    entries,   \* keys with a stored result
    newer,     \* <<j, k>>: entry j comes before entry k in the OrderedDict
    expired,   \* entries older than the TTL
    inflight,  \* the flight of a key, or None
    flights,   \* flights created so far
    cacheable, \* flights whose result may be stored
    finished,  \* flights whose event is set
    outcome,   \* the value or the error of a flight
    pc, key, flight,  \* of a thread: where it is, and what it asked for
    source,    \* history: the flight a stored result came from
    purged     \* history: the flights begun when the caller of a key was last purged

cache  == <<entries, newer, expired, source>>
table  == <<inflight, cacheable>>
events == <<finished, outcome>>
thread == <<pc, key, flight>>
vars   == <<cache, table, flights, events, thread, purged>>

Init ==
    /\ entries = {} /\ newer = {} /\ expired = {}
    /\ inflight = [k \in Keys |-> None]
    /\ flights = 0
    /\ cacheable = {} /\ finished = {}
    /\ outcome = [f \in Flights |-> "none"]
    /\ pc = [t \in Threads |-> "idle"]
    /\ key = [t \in Threads |-> None]
    /\ flight = [t \in Threads |-> None]
    /\ source = [k \in Keys |-> None]
    /\ purged = [k \in Keys |-> 0]

Goto(t, step) == pc' = [pc EXCEPT ![t] = step]

------------------------------------------------------------------------------
\* The OrderedDict.

Touched(E, k)  == {p \in newer : p[1] # k /\ p[2] # k} \cup (E \ {k}) \X {k}
Ordered(E)     == {p \in newer : p[1] \in E /\ p[2] \in E}
Oldest(E, R)   == CHOOSE k \in E : \A j \in E \ {k} : <<k, j>> \in R
Keep(E) ==
    /\ entries' = E
    /\ newer' = Ordered(E)
    /\ expired' = expired \cap E
    /\ UNCHANGED source

------------------------------------------------------------------------------
\* get_or_compute, first section.

Hit(t, k) ==
    /\ pc[t] = "idle"
    /\ k \in entries \ expired
    /\ newer' = Touched(entries, k)
    /\ UNCHANGED <<entries, expired, source, table, flights, events, thread, purged>>

Ask(t, k) == pc[t] = "idle" /\ k \notin entries \ expired /\ Keep(entries \ {k})

Join(t, k) ==
    /\ Ask(t, k)
    /\ inflight[k] # None
    /\ key' = [key EXCEPT ![t] = k]
    /\ flight' = [flight EXCEPT ![t] = inflight[k]]
    /\ Goto(t, "wait")
    /\ UNCHANGED <<table, flights, events, purged>>

AlwaysVacant(k) == TRUE  \* Faulty: every miss computes.
Vacant(k) == inflight[k] = None

Lead(t, k) ==
    /\ Ask(t, k)
    /\ Vacant(k)
    /\ flights < MaxFlights
    /\ flights' = flights + 1
    /\ inflight' = [inflight EXCEPT ![k] = flights + 1]
    /\ cacheable' = cacheable \cup {flights + 1}
    /\ key' = [key EXCEPT ![t] = k]
    /\ flight' = [flight EXCEPT ![t] = flights + 1]
    /\ Goto(t, "compute")
    /\ UNCHANGED <<events, purged>>

------------------------------------------------------------------------------
\* The leader: compute, store, leave the table, wake the others.

Compute(t) ==
    /\ pc[t] = "compute"
    /\ outcome' = [outcome EXCEPT ![flight[t]] = "value"]
    /\ Goto(t, "store")
    /\ UNCHANGED <<cache, table, flights, finished, key, flight, purged>>

Fails(t, step) ==
    /\ pc[t] = "compute"
    /\ outcome' = [outcome EXCEPT ![flight[t]] = "error"]
    /\ Goto(t, step)
    /\ UNCHANGED <<cache, table, flights, finished, key, flight, purged>>
RaiseInPlace(t) == Fails(t, "set")  \* Faulty: an error leaves the flight in the table.
Raise(t) == Fails(t, "pop")

\* Over the cap, the oldest entry goes; a store adds at most one entry.
Uncapped(E, R) == E  \* Faulty: the cap is forgotten.
Capped(E, R) == IF Cardinality(E) > MaxEntries THEN E \ {Oldest(E, R)} ELSE E

Store(t) ==
    /\ pc[t] = "store"
    /\ IF flight[t] \in cacheable
       THEN LET E == entries \cup {key[t]}
                R == Touched(E, key[t])
            IN  /\ entries' = Capped(E, R)
                /\ newer' = {p \in R : p[1] \in entries' /\ p[2] \in entries'}
                /\ expired' = (expired \ {key[t]}) \cap entries'
                /\ source' = [source EXCEPT ![key[t]] = flight[t]]
       ELSE UNCHANGED cache
    /\ Goto(t, "pop")
    /\ UNCHANGED <<table, flights, events, key, flight, purged>>

Pop(t) ==
    /\ pc[t] = "pop"
    /\ inflight' = [inflight EXCEPT ![key[t]] = None]
    /\ Goto(t, "set")
    /\ UNCHANGED <<cache, cacheable, flights, events, key, flight, purged>>

Leave(t) ==
    /\ Goto(t, "idle")
    /\ key' = [key EXCEPT ![t] = None]
    /\ flight' = [flight EXCEPT ![t] = None]

SignalsValues(t) ==  \* Faulty: only a result wakes the waiters.
    IF outcome[flight[t]] = "value" THEN {flight[t]} ELSE {}
Signals(t) == {flight[t]}

Set(t) ==
    /\ pc[t] = "set"
    /\ finished' = finished \cup Signals(t)
    /\ Leave(t)
    /\ UNCHANGED <<cache, table, flights, outcome, purged>>

Wake(t) ==
    /\ pc[t] = "wait"
    /\ flight[t] \in finished
    /\ Leave(t)
    /\ UNCHANGED <<cache, table, flights, events, purged>>

------------------------------------------------------------------------------
Expire(k) ==
    /\ k \in entries \ expired
    /\ expired' = expired \cup {k}
    /\ UNCHANGED <<entries, newer, source, table, flights, events, thread, purged>>

Of(ids)      == {k \in Keys : Caller[k] \in ids}
Running(ids) == {inflight[k] : k \in {j \in Of(ids) : inflight[j] # None}}
BarsNothing(ids) == {}  \* Faulty: running computations are left alone.
Bars(ids) == Running(ids)

\* purge_callers: stored entries go, and running computations may not refill
\* them.  The empty id is skipped.
Purge(ids) ==
    /\ Keep(entries \ Of(ids \ {Shared}))
    /\ cacheable' = cacheable \ Bars(ids \ {Shared})
    /\ purged' = [k \in Keys |-> IF k \in Of(ids \ {Shared}) THEN flights ELSE purged[k]]
    /\ UNCHANGED <<inflight, flights, events, thread>>

Clear ==
    /\ Keep({})
    /\ UNCHANGED <<table, flights, events, thread, purged>>

Work(t) == Compute(t) \/ Raise(t) \/ Store(t) \/ Pop(t) \/ Set(t) \/ Wake(t)

Next ==
    \/ \E t \in Threads, k \in Keys : Hit(t, k) \/ Join(t, k) \/ Lead(t, k)
    \/ \E t \in Threads : Work(t)
    \/ \E k \in Keys : Expire(k)
    \/ \E ids \in SUBSET (Users \cup {Shared}) : Purge(ids)
    \/ Clear

Spec == Init /\ [][Next]_vars

\* Threads run and computations end; nobody has to call.
FairSpec == Spec /\ \A t \in Threads : WF_vars(Work(t))

------------------------------------------------------------------------------
Leads(t)   == pc[t] \in {"compute", "store", "pop"}
Owns(t)    == Leads(t) \/ pc[t] = "set"
Waiting(t) == pc[t] = "wait"

\* The cache, the table and the threads are well formed: the order of the
\* OrderedDict relates any two entries one way, and nothing else.
OrderOK ==
    /\ entries \subseteq Keys /\ expired \subseteq entries
    /\ newer \subseteq entries \X entries
    /\ \A j, k \in entries : (j # k) <=> (<<j, k>> \in newer \/ <<k, j>> \in newer)
    /\ \A j, k \in entries : ~ (<<j, k>> \in newer /\ <<k, j>> \in newer)

TypeOK ==
    /\ OrderOK
    /\ inflight \in [Keys -> Flights \cup {None}]
    /\ flights \in 0 .. MaxFlights
    /\ cacheable \subseteq Flights /\ finished \subseteq Flights
    /\ outcome \in [Flights -> {"none", "value", "error"}]
    /\ pc \in [Threads -> {"idle", "wait", "compute", "store", "pop", "set"}]
    /\ key \in [Threads -> Keys \cup {None}]
    /\ flight \in [Threads -> Flights \cup {None}]
    /\ source \in [Keys -> Flights \cup {None}] /\ purged \in [Keys -> 0 .. MaxFlights]

\* "Concurrent misses on one key run ONE computation" (docstring, line 30).
SingleFlight ==
    \A t, u \in Threads : Leads(t) /\ Leads(u) /\ key[t] = key[u] => t = u

\* A purge "prevents already-running computations from refilling those entries"
\* (the module docstring, line 41): what is stored comes from a flight begun after
\* the last purge of its caller.
NoRefill == \A k \in entries : source[k] > purged[k]

\* Nobody waits for a computation that no thread runs, and no flight that is
\* over stays in the table, where it would block its key for ever.
LeaderPresent ==
    /\ \A t \in Threads : Waiting(t) /\ flight[t] \notin finished =>
          \E u \in Threads : Owns(u) /\ flight[u] = flight[t]
    /\ \A k \in Keys : inflight[k] # None =>
          \E u \in Threads : Leads(u) /\ key[u] = k /\ flight[u] = inflight[k]

\* The inductive invariant of the proofs: a flight has one owner, the table
\* names the flights that are led, and a flight that may store is younger than
\* the last purge of its caller.
Asked(t) == pc[t] # "idle" => key[t] \in Keys /\ flight[t] \in 1 .. flights
OneOwner == \A t, u \in Threads : Owns(t) /\ Owns(u) /\ flight[t] = flight[u] => t = u
Tabled(t) == Leads(t) => inflight[key[t]] = flight[t]
Fresh(t)  == Leads(t) /\ flight[t] \in cacheable => flight[t] > purged[key[t]]

OwnerInv == OneOwner /\ \A t \in Threads : Asked(t) /\ Tabled(t)
PurgeInv == /\ \A k \in Keys : purged[k] <= flights
            /\ \A t \in Threads : Fresh(t)
            /\ NoRefill
IInv == TypeOK /\ OwnerInv /\ LeaderPresent /\ PurgeInv

\* The cap holds between any two sections.
Bounded == Cardinality(entries) <= MaxEntries

\* Every caller is answered, also those that wait for a computation that fails.
Answered == \A t \in Threads : (pc[t] # "idle") ~> (pc[t] = "idle")
=============================================================================
