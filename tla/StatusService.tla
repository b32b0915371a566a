--------------------------- MODULE StatusService ----------------------------
(***************************************************************************)
(* What the server does with status requests: the rate limit per address   *)
(* (allow_status_request in src/network/server.cpp, a table of fixed size  *)
(* with least-recently-used replacement), process_status_request, and the  *)
(* cached answer of src/status/status_handler.cpp.                         *)
(*                                                                         *)
(* The limit counts seconds of the monotonic clock, the cache seconds of   *)
(* the wall clock: their seconds begin at different moments, and only the  *)
(* wall clock can be set.                                                  *)
(***************************************************************************)
EXTENDS Integers

CONSTANTS
    Addresses,            \* IPv4 addresses of clients
    max_status_records,
    min_status_interval,
    Epoch,                \* the wall clock when the server starts
    MaxUptime             \* bounds the time a behaviour takes

ASSUME StatusAssumption ==
    /\ max_status_records \in Nat \ {0}
    /\ min_status_interval \in Nat
    /\ Epoch \in Nat /\ Epoch >= min_status_interval
    /\ MaxUptime \in Nat
    /\ 0 \notin Addresses

VARIABLES
    g_status_records,
    g_last_status_refresh,
    g_status_string,      \* what it shows: nothing yet, the world, or no world
    uptime,               \* get_monotonic_uptime()
    wall,                 \* time(NULL)
    half,                 \* the wall clock's second is the next to end
    reply,                \* what became of the request just processed
    last,                 \* history: when each address was last allowed
    refreshed,            \* history: the uptime of the last refresh
    clockSet              \* history: somebody has set the wall clock

limitVars == <<g_status_records, last>>
cacheVars == <<g_last_status_refresh, g_status_string, refreshed>>
clockVars == <<uptime, wall, half, clockSet>>
vars == <<limitVars, cacheVars, clockVars, reply>>

Records == 0 .. max_status_records - 1

StatusRecord(ip_address, timestamp) ==
    [ip_address |-> ip_address, timestamp |-> timestamp]

RecordObject == [ip_address : Addresses \cup {0}, timestamp : Nat]

Never == -1

TypeOK ==
    /\ g_status_records \in [Records -> RecordObject]
    /\ g_last_status_refresh \in Nat
    /\ g_status_string \in {"", "world", "no world"}
    /\ uptime \in Nat
    /\ wall \in Nat
    /\ half \in BOOLEAN
    /\ reply \in {"none", "refused", "invalid", "cached", "fresh"}
    /\ last \in [Addresses -> Nat \cup {Never}]
    /\ refreshed \in Nat \cup {Never}
    /\ clockSet \in BOOLEAN

\* calloc
UnusedRecord == StatusRecord(0, 0)

Init ==
    /\ g_status_records = [k \in Records |-> UnusedRecord]
    /\ g_last_status_refresh = 0 /\ g_status_string = ""
    /\ uptime = 0 /\ wall = Epoch /\ half \in BOOLEAN
    /\ reply = "none"
    /\ last = [ip \in Addresses |-> Never] /\ refreshed = Never
    /\ clockSet = FALSE

-----------------------------------------------------------------------------
(* allow_status_request                                                    *)

\* the record the loop stops at
IsRecord(k, ip) == g_status_records[k].ip_address = ip

Known(ip) == \E k \in Records : IsRecord(k, ip)

\* Mutated form: the first record is always the one to go.
AlwaysTheFirst(k) == k = 0

\* LeastRecentlyUsedIndex after a loop that found nothing: of the oldest
\* records the first
LeastRecentlyUsed(k) ==
    \A j \in Records :
      LET here == g_status_records[k].timestamp
          there == g_status_records[j].timestamp
      IN  here < there \/ (here = there /\ k <= j)

TooSoon(k) == uptime - g_status_records[k].timestamp < min_status_interval

Record(k, ip) ==
    /\ g_status_records' = [g_status_records EXCEPT ![k] = StatusRecord(ip, uptime)]
    /\ last' = [last EXCEPT ![ip] = uptime]

Allow(ip) ==
    \E k \in Records :
      /\ \/ IsRecord(k, ip) /\ ~TooSoon(k)
         \/ ~Known(ip) /\ LeastRecentlyUsed(k)
      /\ Record(k, ip)

Refused(ip) == \E k \in Records : IsRecord(k, ip) /\ TooSoon(k)

\* Mutated form: a refused request starts the interval anew.
RefuseAnew(ip) ==
    \E k \in Records :
      /\ IsRecord(k, ip) /\ TooSoon(k)
      /\ g_status_records' = [g_status_records EXCEPT ![k] = StatusRecord(ip, uptime)]
      /\ UNCHANGED last

Refuse(ip) == Refused(ip) /\ UNCHANGED limitVars

-----------------------------------------------------------------------------
(* get_status_string                                                       *)

\* Mutated form: one second late.
StatusIsOlder == wall - g_last_status_refresh > min_status_interval

StatusIsOld == wall - g_last_status_refresh >= min_status_interval

\* Mutated form: a failed query is tried again by the next request.
RefreshUnlessFailed(world) ==
    /\ g_status_string' = world
    /\ refreshed' = uptime
    /\ g_last_status_refresh' = IF world = "world" THEN wall ELSE g_last_status_refresh

\* Whether the query manager knew the world or not, the string is built anew.
Refresh(world) ==
    /\ g_status_string' = world
    /\ refreshed' = uptime
    /\ g_last_status_refresh' = wall

GetStatusString ==
    \/ /\ StatusIsOld /\ reply' = "fresh"
       /\ \E world \in {"world", "no world"} : Refresh(world)
    \/ ~StatusIsOld /\ reply' = "cached" /\ UNCHANGED cacheVars

\* process_status_request: the limit comes first, the form of the request only
\* then.
ProcessStatusRequest(ip) ==
    /\ \/ Refuse(ip) /\ reply' = "refused" /\ UNCHANGED cacheVars
       \/ Allow(ip) /\ reply' = "invalid" /\ UNCHANGED cacheVars
       \/ Allow(ip) /\ GetStatusString
    /\ UNCHANGED clockVars

-----------------------------------------------------------------------------
\* The clocks take turns, half a second apart.
Tick ==
    /\ half' = ~half
    /\ \/ half /\ wall' = wall + 1 /\ UNCHANGED uptime
       \/ ~half /\ uptime < MaxUptime /\ uptime' = uptime + 1 /\ UNCHANGED wall
    /\ reply' = "none"
    /\ UNCHANGED <<limitVars, cacheVars, clockSet>>

\* Somebody sets the wall clock, forward or back (not to 1970).
SetClock ==
    /\ ~clockSet /\ clockSet' = TRUE
    /\ wall' \in min_status_interval .. Epoch + MaxUptime
    /\ reply' = "none"
    /\ UNCHANGED <<limitVars, cacheVars, uptime, half>>

Next == Tick \/ SetClock \/ \E ip \in Addresses : ProcessStatusRequest(ip)

Spec == Init /\ [][Next]_vars

-----------------------------------------------------------------------------
\* As many other addresses as the table has records were allowed in the same second
\* as ip or later.  Timestamps are whole seconds: which of the addresses of one second
\* came first the table does not know.
Overrun(ip) ==
    \E f \in [Records -> Addresses \ {ip}] :
      /\ \A j, k \in Records : f[j] = f[k] => j = k
      /\ \A k \in Records : last[f[k]] >= last[ip]

\* The limit holds: an address allowed less than min_status_interval ago is
\* refused, unless max_status_records others were allowed in its second or later.
\* So an address that is alone in its second is pushed out only by that many after
\* it; of the addresses of one second allow_status_request replaces the one in the
\* first record, which may be the latest.  (Not in the first second of the server,
\* when a record looks as old as an unused one and is the next to go.)
LimitHeld ==
    \A ip \in Addresses :
      last[ip] > 0 /\ uptime - last[ip] < min_status_interval
        => Refused(ip) \/ Overrun(ip)

\* Nobody is refused for longer than the interval: requests that are refused
\* do not count, and another address's record is never taken for one's own.
RefusedInTime ==
    \A ip \in Addresses :
      Refused(ip) => last[ip] # Never /\ uptime - last[ip] < min_status_interval

\* A status answer is never the empty string of an unfilled cache, and while
\* nobody sets the clock it is not older than the interval.
StatusIsCurrent ==
    reply \in {"cached", "fresh"} =>
      /\ g_status_string # ""
      /\ clockSet \/ uptime - refreshed <= min_status_interval

\* While nobody sets the clock, the query manager is not asked for the world
\* more often than once in an interval, not even while it fails (up to the
\* second by which the two clocks may differ).
QueryRateHeld ==
    [][(reply' = "fresh" /\ refreshed # Never /\ ~clockSet)
         => uptime - refreshed >= min_status_interval - 1]_vars

=============================================================================
