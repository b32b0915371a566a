---------------------------- MODULE QueryService ----------------------------
(***************************************************************************)
(* What QueryClient promises its callers, without sockets, connections or  *)
(* retries: queries are asked one at a time; the query manager carries     *)
(* each out at most twice, possibly after the caller was told that it      *)
(* failed; a query that returns a response was carried out, and the        *)
(* response is its own.                                                    *)
(***************************************************************************)
EXTENDS Integers

CONSTANT MaxQueries   \* bounds the queries asked

VARIABLES
    phase,            \* "starting": the first connect; "gone": deleted
    query,            \* the last query asked; 0: only connect was called
    outcome,          \* what the last execute_query returned
    executed          \* how often a query was carried out

serviceVars == <<phase, query, outcome, executed>>

max_attempts == 2
Queries == 1 .. MaxQueries

Outcome(of, status) == [of |-> of, status |-> status]

\* the outcome of a query that got no response
NoResponse == Outcome(-1, "Failed")
Statuses == {"Ok", "Error", "Failed"}

Init ==
    /\ phase = "starting" /\ query = 0 /\ outcome = NoResponse
    /\ executed = [q \in Queries |-> 0]

\* The first connect succeeds, or the client is deleted.
Start ==
    /\ phase = "starting" /\ phase' \in {"idle", "gone"}
    /\ UNCHANGED <<query, outcome, executed>>

Ask ==
    /\ phase = "idle" /\ query < MaxQueries
    /\ phase' = "busy" /\ query' = query + 1
    /\ UNCHANGED <<outcome, executed>>

\* The query manager carries out the current query, or an earlier one late.
Execute(q) ==
    /\ q <= query /\ executed[q] < max_attempts
    /\ executed' = [executed EXCEPT ![q] = @ + 1]
    /\ UNCHANGED <<phase, query, outcome>>

Respond(status) ==
    /\ phase = "busy" /\ executed[query] > 0
    /\ phase' = "idle" /\ outcome' = Outcome(query, status)
    /\ UNCHANGED <<query, executed>>

Fail ==
    /\ phase = "busy"
    /\ phase' = "idle" /\ outcome' = NoResponse
    /\ UNCHANGED <<query, executed>>

Delete ==
    /\ phase = "idle" /\ phase' = "gone"
    /\ UNCHANGED <<query, outcome, executed>>

Next ==
    \/ Start \/ Ask \/ Fail \/ Delete
    \/ \E q \in Queries : Execute(q)
    \/ \E status \in Statuses : Respond(status)

Spec == Init /\ [][Next]_serviceVars

=============================================================================
