------------------------------ MODULE InFlight ------------------------------
(***************************************************************************)
(* Requests in flight, as the modules of the server share them: handlers   *)
(* are chains of SQL statements that commit one by one, those of different *)
(* requests interleave, and a request may stop between two of them         *)
(* (src/server/src/main.rs, src/server/src/db.rs).                         *)
(***************************************************************************)
EXTENDS Integers, FiniteSets

CONSTANTS
    Requests,    \* requests the server can have in flight at once
    Workloads,   \* sets of operations; in a behaviour, clients ask for one set
    MaxDrops,    \* bound on the requests that stop half-way
    None         \* no value

ASSUME InFlightAssumption == MaxDrops \in Nat /\ IsFiniteSet(Requests)

VARIABLES
    asked,   \* the operations clients ask for in this behaviour
    pc,      \* the statement a request executes next, "idle" when there is none
    loc,     \* the locals of its handler
    drops

flight == <<asked, pc, loc, drops>>

FlightInit ==
    /\ asked \in Workloads
    /\ pc = [r \in Requests |-> "idle"]
    /\ loc = [r \in Requests |-> None]
    /\ drops = 0

Asks(op) == op \in asked

InFlightAt(labels) == {r \in Requests : pc[r] \in labels}

Goto(r, label, locals) ==
    /\ pc' = [pc EXCEPT ![r] = label]
    /\ loc' = [loc EXCEPT ![r] = locals]
    /\ UNCHANGED <<asked, drops>>

\* A handler that has accepted a request, up to its first write.
Start(r, label, locals) == pc[r] = "idle" /\ Goto(r, label, locals)

Proceed(r, label) == Goto(r, label, loc[r])

Done(r) == Goto(r, "idle", None)

\* The process stops, the client disconnects, or a statement fails.
Drop(r) ==
    /\ pc[r] # "idle"
    /\ drops < MaxDrops
    /\ drops' = drops + 1
    /\ pc' = [pc EXCEPT ![r] = "idle"]
    /\ loc' = [loc EXCEPT ![r] = None]
    /\ UNCHANGED asked
=============================================================================
