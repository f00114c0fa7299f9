------------------------------ MODULE KeyStep -------------------------------
(***************************************************************************)
(* keyStep.ServeHTTP (idempotency.go): requests of one action, each on a   *)
(* goroutine of its own, possibly in several processes, that share an      *)
(* IdempotencyStore.  Every store call is one step, and so is the start    *)
(* and the end of the handler; between two steps of a request any other    *)
(* request moves, a TTL may run out, a client may leave, a process may     *)
(* crash.                                                                  *)
(*                                                                         *)
(* A request stands for the token its Claim returns and for the response   *)
(* its handler writes (whose fingerprint is the request's own).            *)
(***************************************************************************)
CONSTANTS
    Req,         \* the requests clients send, first attempts and retries alike
    Key,         \* store keys (idempotencyStoreKey)
    Fingerprint, \* requestFingerprint: method, URI and body, hashed
    Faults,      \* what may go wrong in this instance
    None

FaultKinds ==
    {"lapse",   \* a claim's InFlightTTL runs out
     "forget",  \* a saved response's TTL runs out
     "store",   \* a store call fails, with or without having taken effect
     "leave",   \* a client leaves, or the action's Timeout ends: either
                \* cancels the request's context
     "crash"}   \* the process that serves a request dies

ASSUME FaultsAssumption == Faults \subseteq FaultKinds
ASSUME NoneAssumption == None \notin Req

VARIABLES
    req,     \* each request's key and fingerprint
    pc,      \* where each request is in ServeHTTP
    ans,     \* how each request was answered
    from,    \* the request whose handler wrote the answer, or None
    left,    \* the requests whose context was cancelled
    kept,    \* history: the runs whose response the store took
    claims, responses, lapsed, forgotten \* the store's (IdempotencyStore)

Store == INSTANCE IdempotencyStore WITH Token <- Req, Response <- Req

storeVars == <<claims, responses, lapsed, forgotten>>
vars == <<req, pc, ans, from, left, kept, storeVars>>

K(r) == req[r].key

Init ==
    /\ req \in [Req -> [key : Key, print : Fingerprint]]
    /\ pc = [r \in Req |-> "new"]
    /\ ans = [r \in Req |-> "none"]
    /\ from = [r \in Req |-> None]
    /\ left = {}
    /\ kept = {}
    /\ Store!StoreInit

-----------------------------------------------------------------------------
Goto(r, there) == pc' = [pc EXCEPT ![r] = there]

Reply(r, kind, writer) ==
    /\ ans' = [ans EXCEPT ![r] = kind]
    /\ from' = [from EXCEPT ![r] = writer]

NoReply == UNCHANGED <<ans, from>>

(* Lookup and Claim take the request's context: they may fail once the     *)
(* client has left, or when the store does.  Save and Release go without   *)
(* its cancellation.                                                       *)
CallFails(r) == r \in left \/ "store" \in Faults
DetachedCallFails == "store" \in Faults

-----------------------------------------------------------------------------
(* Before any store call: a missing header that is required, a malformed   *)
(* one, a body over the cap or cut short.                                  *)
Refuse(r) ==
    /\ pc[r] = "new"
    /\ \E kind \in {"BadRequest", "TooLarge"} : Reply(r, kind, None)
    /\ Goto(r, "done")
    /\ UNCHANGED <<req, left, kept, storeVars>>

(* No header under IdempotencyKeyOptional: the handler runs, and the store *)
(* is left alone.                                                          *)
RunKeyless(r) ==
    /\ pc[r] = "new"
    /\ Reply(r, "Own", r)
    /\ Goto(r, "done")
    /\ UNCHANGED <<req, left, kept, storeVars>>

(* One well-formed header and the whole body: its key and its fingerprint. *)
Accept(r) ==
    /\ pc[r] = "new"
    /\ Goto(r, "lookup")
    /\ NoReply
    /\ UNCHANGED <<req, left, kept, storeVars>>

AnswerUnprinted(r, answered, unanswered) == \* mutant: the fingerprint is not compared
    LET saved == responses[K(r)] IN
    /\ \/ saved = None /\ Goto(r, unanswered) /\ NoReply
       \/ saved # None /\ Reply(r, "Replay", saved) /\ Goto(r, answered)
    /\ UNCHANGED <<req, left, kept, storeVars>>

(* answer: one Lookup, and what it leads to.                               *)
Answer(r, answered, unanswered) ==
    LET saved == responses[K(r)] IN
    /\ \/ /\ CallFails(r)
          /\ Reply(r, "Unavailable", None)
          /\ Goto(r, answered)
       \/ /\ saved = None
          /\ NoReply
          /\ Goto(r, unanswered)
       \/ /\ saved # None
          /\ req[saved].print # req[r].print
          /\ Reply(r, "Reused", None)
          /\ Goto(r, answered)
       \/ /\ saved # None
          /\ req[saved].print = req[r].print
          /\ Reply(r, "Replay", saved)
          /\ Goto(r, answered)
    /\ UNCHANGED <<req, left, kept, storeVars>>

Lookup(r) == pc[r] = "lookup" /\ Answer(r, "done", "claim")

ClaimForKey(r) == \* mutant: the key itself serves as the token
    /\ pc[r] = "claim"
    /\ Store!Claim(K(r), K(r)) /\ NoReply /\ Goto(r, "recheck")
    /\ UNCHANGED <<req, left, kept>>

ClaimAssumed(r) == \* mutant: what Claim says of the key is ignored
    /\ pc[r] = "claim"
    /\ Store!Claim(K(r), r) \/ (claims[K(r)] # None /\ UNCHANGED storeVars)
    /\ NoReply
    /\ Goto(r, "recheck")
    /\ UNCHANGED <<req, left, kept>>

ClaimPolling(r) == \* mutant: a held key is tried again instead of refused
    /\ pc[r] = "claim"
    /\ \/ Store!Claim(K(r), r) /\ Goto(r, "recheck")
       \/ claims[K(r)] # None /\ Goto(r, "lookup") /\ UNCHANGED storeVars
    /\ NoReply
    /\ UNCHANGED <<req, left, kept>>

ClaimThenRun(r) == \* mutant: no second lookup
    /\ pc[r] = "claim"
    /\ \/ Store!Claim(K(r), r) /\ NoReply /\ Goto(r, "ready")
       \/ claims[K(r)] # None /\ Reply(r, "InUse", None) /\ Goto(r, "done") /\ UNCHANGED storeVars
    /\ UNCHANGED <<req, left, kept>>

(* A failed Claim is a 503 whether or not the store took it: no token came *)
(* back, so nothing will release it.                                       *)
Claim(r) ==
    /\ pc[r] = "claim"
    /\ \/ /\ Store!Claim(K(r), r)
          /\ NoReply
          /\ Goto(r, "recheck")
       \/ /\ claims[K(r)] # None
          /\ Reply(r, "InUse", None)
          /\ Goto(r, "done")
          /\ UNCHANGED storeVars
       \/ /\ CallFails(r)
          /\ Reply(r, "Unavailable", None)
          /\ Goto(r, "done")
          /\ Store!Claim(K(r), r) \/ UNCHANGED storeVars
    /\ UNCHANGED <<req, left, kept>>

RecheckUndeferred(r) == \* mutant: the release is deferred after the second lookup
    /\ pc[r] = "recheck"
    /\ \/ /\ Answer(r, "release", "ready")
          /\ ans'[r] # "Unavailable"
       \/ /\ Answer(r, "done", "ready")
          /\ ans'[r] = "Unavailable"

(* The lookup after the claim; from here on the deferred release runs.     *)
Recheck(r) == pc[r] = "recheck" /\ Answer(r, "release", "ready")

Start(r) ==
    /\ pc[r] = "ready"
    /\ Goto(r, "running")
    /\ NoReply
    /\ UNCHANGED <<req, left, kept, storeVars>>

FinishReleasingFirst(r) == \* mutant: the claim goes before the response is saved
    /\ pc[r] = "running"
    /\ Reply(r, "Own", r)
    /\ Goto(r, "save")
    /\ Store!Release(K(r), r)
    /\ UNCHANGED <<req, left, kept>>

FinishNotDeferred(r) == \* mutant: a panic skips the release
    /\ pc[r] = "running"
    /\ \/ Reply(r, "Own", r) /\ Goto(r, "save")
       \/ Reply(r, "Internal", None) /\ Goto(r, "done")
    /\ UNCHANGED <<req, left, kept, storeVars>>

(* The handler ends.  Its answer has gone to the client before anything is *)
(* saved.  Only a 2xx that fits within MaxBody goes on to Save; a panic    *)
(* unwinds through the deferred release, unanswered so far.                *)
Finish(r) ==
    /\ pc[r] = "running"
    /\ \/ Reply(r, "Own", r) /\ Goto(r, "save")
       \/ \E kind \in {"OwnTooBig", "OwnError"} : Reply(r, kind, r) /\ Goto(r, "release")
       \/ NoReply /\ Goto(r, "release")
    /\ UNCHANGED <<req, left, kept, storeVars>>

(* save: a failure is logged, and the response stands.                     *)
Save(r) ==
    /\ pc[r] = "save"
    /\ Goto(r, "release")
    /\ \/ Store!Save(K(r), r) /\ kept' = kept \cup {r}
       \/ DetachedCallFails /\ UNCHANGED <<kept, storeVars>>
    /\ NoReply
    /\ UNCHANGED <<req, left>>

ReleaseUnlessLeft(r) == \* mutant: release is cancelled with the request
    /\ pc[r] = "release"
    /\ Goto(r, "done")
    /\ IF r \in left THEN UNCHANGED storeVars ELSE Store!Release(K(r), r)
    /\ NoReply
    /\ UNCHANGED <<req, left, kept>>

(* release: a failure is logged, and the claim then ends by its TTL.  A    *)
(* handler that panicked is answered afterwards, by recoverMiddleware with *)
(* a 500, or by no one when it aborted (http.ErrAbortHandler).             *)
Release(r) ==
    /\ pc[r] = "release"
    /\ Goto(r, "done")
    /\ \/ Store!Release(K(r), r)
       \/ DetachedCallFails /\ UNCHANGED storeVars
    /\ \/ ans[r] # "none" /\ NoReply
       \/ ans[r] = "none" /\ \E kind \in {"Internal", "Aborted"} : Reply(r, kind, None)
    /\ UNCHANGED <<req, left, kept>>

-----------------------------------------------------------------------------
Active(r) == pc[r] \notin {"new", "done", "dead"}

Leave(r) ==
    /\ "leave" \in Faults
    /\ Active(r)
    /\ r \notin left
    /\ left' = left \cup {r}
    /\ UNCHANGED <<req, pc, ans, from, kept, storeVars>>

(* The process dies with the request; the shared store keeps its claim.    *)
Crash(r) ==
    /\ "crash" \in Faults
    /\ Active(r)
    /\ Goto(r, "dead")
    /\ UNCHANGED <<req, ans, from, left, kept, storeVars>>

Lapse(k) ==
    /\ "lapse" \in Faults
    /\ claims[k] # None
    /\ Store!Expire({claims[k]}, {})
    /\ UNCHANGED <<req, pc, ans, from, left, kept>>

Forget(k) ==
    /\ "forget" \in Faults
    /\ responses[k] # None
    /\ Store!Expire({}, {responses[k]})
    /\ UNCHANGED <<req, pc, ans, from, left, kept>>

Serve(r) ==
    \/ Refuse(r) \/ RunKeyless(r) \/ Accept(r)
    \/ Lookup(r) \/ Claim(r) \/ Recheck(r)
    \/ Start(r) \/ Finish(r) \/ Save(r) \/ Release(r)

(* Every request has been served: the server waits for the next.           *)
Idle ==
    /\ \A r \in Req : pc[r] \in {"done", "dead"}
    /\ UNCHANGED vars

Next ==
    \/ \E r \in Req : Serve(r) \/ Leave(r) \/ Crash(r)
    \/ \E k \in Key : Lapse(k) \/ Forget(k)
    \/ Idle

Spec == Init /\ [][Next]_vars

(* The scheduler runs every goroutine, store calls return, and handlers    *)
(* end; a request that is yet to come need not come.  No TTL need run out. *)
Progress(r) == pc[r] # "new" /\ Serve(r)

FairServing == \A r \in Req : WF_vars(Progress(r))

FairSpec == Spec /\ FairServing

-----------------------------------------------------------------------------
Holding == {"recheck", "ready", "running", "save", "release"}
Unsaved == {"ready", "running", "save"}
PCs == {"new", "lookup", "claim", "done", "dead"} \cup Holding
Answers ==
    {"none", "BadRequest", "TooLarge", "Unavailable", "InUse", "Reused", "Replay",
     "Own", "OwnTooBig", "OwnError", "Internal", "Aborted"}

(* The variables keep their types.                                         *)
TypeOK ==
    /\ req \in [Req -> [key : Key, print : Fingerprint]]
    /\ pc \in [Req -> PCs]
    /\ ans \in [Req -> Answers]
    /\ from \in [Req -> Req \cup {None}]
    /\ left \subseteq Req
    /\ kept \subseteq Req
    /\ Store!StoreTypeOK

(* No claim on the key k has run out so far.                               *)
Undisturbed(k) == \A r \in lapsed : K(r) # k

(* Two handlers run for one key only when a claim ran out under one of     *)
(* them: not after any failed call, panic, crash or client that left.      *)
OneRunPerKey ==
    \A q, r \in Req :
        /\ q # r
        /\ K(q) = K(r)
        /\ pc[q] \in {"running", "save"}
        /\ pc[r] \in {"running", "save"}
        => q \in lapsed \/ r \in lapsed

(* From the second lookup to its own Save, a request that found nothing    *)
(* saved knows that nothing is: this is what the lookup after the claim is *)
(* for (idempotency.go, "may have finished between the lookup and the      *)
(* claim").                                                                *)
RunsOnlyUnsaved ==
    \A r \in Req :
        pc[r] \in Unsaved /\ Undisturbed(K(r)) => responses[K(r)] = None

(* "A finished request is never run twice" (README): when a handler starts *)
(* every response kept under its key before has reached the end of its TTL *)
(* since.                                                                  *)
FinishedNeverRunsAgain ==
    [][\A r \in Req :
          /\ pc[r] = "ready"
          /\ pc'[r] = "running"
          /\ Undisturbed(K(r))
          => \A q \in kept : K(q) = K(r) => q \in forgotten]_vars

(* A replay carries the response of a run of the same request, a 2xx the   *)
(* store took; a 422 means the key was kept for another request.           *)
AnswersJustified ==
    \A r \in Req :
        /\ ans[r] = "Replay" =>
              /\ from[r] \in kept
              /\ ans[from[r]] = "Own"
              /\ req[from[r]] = req[r]
        /\ ans[r] = "Reused" =>
              \E q \in kept : K(q) = K(r) /\ req[q].print # req[r].print

(* When no store call fails, a request that got its token back holds       *)
(* nothing once it is served, whatever its handler did and its client gone *)
(* or not (README, "A client that leaves still frees its key").            *)
KeyFreedWhenServed ==
    \A r \in Req : pc[r] = "done" /\ ans[r] # "Unavailable" => claims[K(r)] # r

-----------------------------------------------------------------------------
(* A request never waits for another, nor for a TTL: a held key is a 409,  *)
(* even when its holder died.                                              *)
ServedEventually ==
    \A r \in Req : pc[r] = "lookup" ~> pc[r] \in {"done", "dead"}

(* A request that got its token back gives the claim up without waiting    *)
(* for the TTL, unless its process dies: also when its second lookup       *)
(* failed, which KeyFreedWhenServed leaves out.  No Release fails here.    *)
ReleasedEventually ==
    "store" \notin Faults =>
        \A r \in Req : pc[r] \in Holding ~> claims[K(r)] # r \/ pc[r] = "dead"

-----------------------------------------------------------------------------
(* What a client is promised: KeyStep implements OncePerKey, whatever      *)
(* fails, leaves or crashes; a key on which a claim ran out is void.       *)
Running(k) == {r \in Req : K(r) = k /\ pc[r] \in {"running", "save"}}

Promise == INSTANCE OncePerKey WITH
    keyOf   <- [r \in Req |-> K(r)],
    printOf <- [r \in Req |-> req[r].print],
    running <- [k \in Key |-> IF Undisturbed(k) THEN Running(k) ELSE {}],
    result  <- [k \in Key |-> IF Undisturbed(k) THEN responses[k] ELSE None],
    replays <- [r \in Req |-> IF ans[r] = "Replay" /\ Undisturbed(K(r)) THEN from[r] ELSE None],
    void    <- {k \in Key : ~Undisturbed(k)}

ImplementsOncePerKey == Promise!Spec

=============================================================================
