----------------------------- MODULE OncePerKey -----------------------------
(***************************************************************************)
(* What WithIdempotency promises a client (idempotency.go): a key runs one *)
(* request at a time; once a run's response is kept, the key runs nothing  *)
(* more and every retry of the same request is answered with that          *)
(* response, until the response is forgotten.  A run that keeps nothing    *)
(* (an error, a panic, a crash, a response too large) leaves the key free. *)
(*                                                                         *)
(* The promise for a key is void once a claim on it has run out: a handler *)
(* that outlives InFlightTTL may be joined by a retry.                     *)
(***************************************************************************)
CONSTANTS Req, Key, None

VARIABLES
    keyOf,   \* the key each request carries
    printOf, \* what each request is: its method, URI and body
    running, \* the requests whose handlers run under each key
    result,  \* the request whose response each key replays, or None
    replays, \* for each request, the request whose response it was replayed
    void     \* the keys nothing is promised for any more

vars == <<keyOf, printOf, running, result, replays, void>>

Init ==
    /\ running = [k \in Key |-> {}]
    /\ result = [k \in Key |-> None]
    /\ replays = [r \in Req |-> None]
    /\ void = {}

(* The handler starts: nothing runs under the key, nothing is kept for it. *)
Begin(r) ==
    /\ keyOf[r] \notin void
    /\ running[keyOf[r]] = {}
    /\ result[keyOf[r]] = None
    /\ running' = [running EXCEPT ![keyOf[r]] = {r}]
    /\ UNCHANGED <<keyOf, printOf, result, replays, void>>

(* The run ends, and its response is kept.                                 *)
Complete(r) ==
    /\ r \in running[keyOf[r]]
    /\ running' = [running EXCEPT ![keyOf[r]] = {}]
    /\ result' = [result EXCEPT ![keyOf[r]] = r]
    /\ UNCHANGED <<keyOf, printOf, replays, void>>

(* The run ends, and nothing is kept.                                      *)
GiveUp(r) ==
    /\ r \in running[keyOf[r]]
    /\ running' = [running EXCEPT ![keyOf[r]] = {}]
    /\ UNCHANGED <<keyOf, printOf, result, replays, void>>

(* A retry of the same request is answered with the kept response.         *)
Replay(q) ==
    LET r == result[keyOf[q]] IN
    /\ replays[q] = None
    /\ r # None
    /\ printOf[r] = printOf[q]
    /\ replays' = [replays EXCEPT ![q] = r]
    /\ UNCHANGED <<keyOf, printOf, running, result, void>>

(* The kept response reaches the end of its TTL.                           *)
Forget(k) ==
    /\ result[k] # None
    /\ result' = [result EXCEPT ![k] = None]
    /\ UNCHANGED <<keyOf, printOf, running, replays, void>>

(* A claim on the key runs out: what follows under it is not recorded.     *)
Void(k) ==
    /\ k \notin void
    /\ void' = void \cup {k}
    /\ running' = [running EXCEPT ![k] = {}]
    /\ result' = [result EXCEPT ![k] = None]
    /\ replays' = [r \in Req |-> IF keyOf[r] = k THEN None ELSE replays[r]]
    /\ UNCHANGED <<keyOf, printOf>>

Next ==
    \/ \E r \in Req : Begin(r) \/ Complete(r) \/ GiveUp(r) \/ Replay(r)
    \/ \E k \in Key : Forget(k) \/ Void(k)

Spec == Init /\ [][Next]_vars
=============================================================================
