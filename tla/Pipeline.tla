------------------------------ MODULE Pipeline ------------------------------
(***************************************************************************)
(* One request of one action on its way through the chain wrapAction       *)
(* builds: observer, recovery, timeout, body cap, the action's own         *)
(* middleware, the Idempotency-Key step and the typed handler, with the    *)
(* router's backstop around them.  Control goes in and comes back out, or  *)
(* a panic unwinds it, while the deadline and the client run on their own. *)
(*                                                                         *)
(* The store of the key step, with other requests in it, is KeyStep; here  *)
(* the step refuses, replays, or claims and records.                       *)
(***************************************************************************)
EXTENDS Integers

CONSTANTS
    Statuses,    \* what handlers, and the errors they return, may ask for
    OwnStatuses  \* what the action's own middleware may write

(* Any int but 0, for which the code puts a default (Response.Status, and   *)
(* writeError); middleware is given no invalid one.                        *)
ASSUME StatusAssumption == Statuses \subseteq Int \ {0} /\ OwnStatuses \subseteq 100..999

VARIABLES
    setup,    \* which layers the action has; timed: the request's context has a
              \* deadline, by the action's Timeout or by a middleware around it
    at,       \* the layer control is in
    going,    \* "in", "out", or unwinding: "panic", "abort"
    ctx,      \* the request context: "live", "deadline" or "canceled"
    first,    \* the first status the client was sent, interim ones included, or 0
    final,    \* the final status the client was sent, or 0
    answers,  \* how many bodies were written to the client
    recorder, \* the observer's statusRecorder
    replay,   \* replayRecorder.status
    claimed,  \* the key step holds the key
    saved,    \* the status saved for replays, or 0
    err,      \* observeState.err
    report,   \* the last Observation, and what the client had been sent by then
    reports,  \* how many Observations there were
    overran,  \* history: what ctx was when the handler returned an error
    raised,   \* history: the last panic, "panic" or "abort"
    late      \* history: a panic came after a body

wire == <<first, final, answers>>
key == <<replay, claimed, saved>>
observation == <<report, reports>>
panics == <<raised, late>>
vars == <<setup, at, going, ctx, wire, recorder, key, err, observation, overran, panics>>

NoReport == [status |-> 0, err |-> "none", sent |-> 0]

(* The request has gone in as far as the action's own middleware.          *)
Init ==
    /\ setup \in [observed : BOOLEAN, timed : BOOLEAN, capped : BOOLEAN, keyed : BOOLEAN]
    /\ at = "own"
    /\ going = "in"
    /\ ctx = "live"
    /\ first = 0
    /\ final = 0
    /\ answers = 0
    /\ recorder = [status |-> 200, wrote |-> FALSE]
    /\ replay = 0
    /\ claimed = FALSE
    /\ saved = 0
    /\ err = "none"
    /\ report = NoReport
    /\ reports = 0
    /\ overran = "none"
    /\ raised = "none"
    /\ late = FALSE

-----------------------------------------------------------------------------
(* net/http: a status is sent once, interim ones before it; a code of      *)
(* other than three digits panics; a body needs a status, 200 by default,  *)
(* and one that allows it.                                                 *)
Interim(s) == s \in 100..199 /\ s # 101
Bodiless(s) == s \in {204, 304}
Refused(s) == final = 0 /\ s \notin 100..999

Final(s, body) ==
    IF final # 0 THEN final
    ELSE IF ~Interim(s) THEN s
    ELSE IF body THEN 200 ELSE 0

Send(s, body) ==
    /\ first' = IF first = 0 THEN s ELSE first
    /\ final' = Final(s, body)
    /\ answers' = IF body /\ ~Bodiless(Final(s, body)) THEN answers + 1 ELSE answers

RecordLast(s) == \* mutant: the last status is recorded, not the first
    recorder' = IF setup.observed THEN [status |-> s, wrote |-> TRUE] ELSE recorder

(* statusRecorder.WriteHeader, before the status goes out.                 *)
Record(s) ==
    recorder' = IF setup.observed /\ ~recorder.wrote THEN [status |-> s, wrote |-> TRUE] ELSE recorder

(* Control goes back to a layer, or starts to unwind there.                *)
Out(layer) == at' = layer /\ going' = "out" /\ UNCHANGED panics
Raise(layer, kind) ==
    /\ at' = layer
    /\ going' = kind
    /\ raised' = kind
    /\ late' = (late \/ answers > 0)

(* A response inside the recovery: WriteHeader, then Write, and back.      *)
Respond(s, layer) ==
    /\ Record(s)
    /\ IF Refused(s)
       THEN Raise(layer, "panic") /\ UNCHANGED wire
       ELSE Out(layer) /\ Send(s, ~Bodiless(s))

(* Whatever is written through the key step's replayRecorder.              *)
Keep(s) == replay' = IF claimed /\ replay = 0 THEN s ELSE replay

-----------------------------------------------------------------------------
(* The action's own middleware, on the way in: it calls the next layer,    *)
(* perhaps after an interim status, or answers itself, or panics.          *)
OwnCalls ==
    /\ at = "own" /\ going = "in"
    /\ at' = "key"
    /\ \/ UNCHANGED <<wire, recorder>>
       \/ \E s \in OwnStatuses : Interim(s) /\ Record(s) /\ Send(s, FALSE)
    /\ UNCHANGED <<setup, going, ctx, key, err, observation, overran, panics>>

OwnAnswers ==
    /\ at = "own" /\ going = "in"
    /\ \/ \E s \in OwnStatuses : ~Interim(s) /\ Respond(s, "recover")
       \/ Out("recover") /\ UNCHANGED <<wire, recorder>>
    /\ UNCHANGED <<setup, ctx, key, err, observation, overran>>

(* On either way it may panic, or abort the connection.                    *)
OwnPanics ==
    /\ at = "own" /\ going \in {"in", "out"}
    /\ \E kind \in {"panic", "abort"} : Raise("recover", kind)
    /\ UNCHANGED <<setup, ctx, wire, recorder, key, err, observation, overran>>

OwnReturns ==
    /\ at = "own" /\ going # "in"
    /\ at' = "recover"
    /\ UNCHANGED <<setup, going, ctx, wire, recorder, key, err, observation, overran, panics>>

-----------------------------------------------------------------------------
(* No key, or none is taken: the request runs as usual.                    *)
KeyPasses ==
    /\ at = "key" /\ going = "in"
    /\ at' = "typed"
    /\ UNCHANGED <<setup, going, ctx, wire, recorder, key, err, observation, overran, panics>>

(* Claimed: what the handler writes is recorded from here on.              *)
KeyClaims ==
    /\ at = "key" /\ going = "in"
    /\ setup.keyed
    /\ at' = "typed"
    /\ claimed' = TRUE
    /\ UNCHANGED <<setup, going, ctx, wire, recorder, replay, saved, err, observation, overran, panics>>

(* A bad key or body (400), a body over the cap (413), a key in use (409)  *)
(* or reused (422), a store that fails (503); or a saved 2xx is replayed.  *)
(* What the second lookup answers, under the claim, comes to the same.     *)
KeyAnswers ==
    /\ at = "key" /\ going = "in"
    /\ setup.keyed
    /\ \/ \E s \in {400, 409, 422, 503} \cup (IF setup.capped THEN {413} ELSE {}) :
             Respond(s, "own") /\ err' = "request"
       \/ \E s \in Statuses \cap 200..299 : Respond(s, "own") /\ UNCHANGED err
    /\ UNCHANGED <<setup, ctx, key, observation, overran>>

(* save, then the deferred release.                                        *)
KeySaves ==
    /\ at = "key" /\ going = "out"
    /\ Out("own")
    /\ \/ UNCHANGED saved \* not a 2xx, or too large to keep
       \/ claimed /\ replay \in 200..299 /\ saved' = replay
    /\ claimed' = FALSE
    /\ UNCHANGED <<setup, ctx, wire, recorder, replay, err, observation, overran>>

(* A panic passes save by; the release is deferred.                        *)
KeyUnwinds ==
    /\ at = "key" /\ going \in {"panic", "abort"}
    /\ at' = "own"
    /\ claimed' = FALSE
    /\ UNCHANGED <<setup, going, ctx, wire, recorder, replay, saved, err, observation, overran, panics>>

-----------------------------------------------------------------------------
(* bind or validate fails.  The body was read already if a key was sent.   *)
Rejects ==
    /\ at = "typed"
    /\ \E s \in {400, 422} \cup (IF setup.capped /\ ~claimed THEN {413} ELSE {}) :
          Respond(s, "key") /\ Keep(s)
    /\ err' = "request"
    /\ UNCHANGED <<setup, ctx, claimed, saved, observation, overran>>

Handles ==
    /\ at = "typed"
    /\ at' = "handling"
    /\ UNCHANGED <<setup, going, ctx, wire, recorder, key, err, observation, overran, panics>>

(* Handle returns a response.                                              *)
HandlerReturns ==
    /\ at = "handling"
    /\ at' = "returned"
    /\ UNCHANGED <<setup, going, ctx, wire, recorder, key, err, observation, overran, panics>>

(* Handle returns an error.                                                *)
HandlerFails ==
    /\ at = "handling"
    /\ at' = "failed"
    /\ overran' = ctx
    /\ UNCHANGED <<setup, going, ctx, wire, recorder, key, err, observation, panics>>

(* Handle, or the validation before it, panics.                            *)
HandlerPanics ==
    /\ at \in {"typed", "handling"}
    /\ \E kind \in {"panic", "abort"} : Raise("key", kind)
    /\ UNCHANGED <<setup, ctx, wire, recorder, key, err, observation, overran>>

FailsAnyEnd == \* mutant: a client that left counts as a timeout
    /\ at = "failed"
    /\ IF ctx # "live"
       THEN Respond(504, "key") /\ Keep(504) /\ err' = "timeout"
       ELSE \E s \in Statuses : Respond(s, "key") /\ Keep(s) /\ err' = "handler"
    /\ UNCHANGED <<setup, ctx, claimed, saved, observation, overran>>

FailsOn == \* mutant: no return after writeError
    /\ at = "failed"
    /\ \E s \in Statuses :
          /\ ~Refused(s)
          /\ Record(s) /\ Send(s, ~Bodiless(s)) /\ Keep(s)
    /\ at' = "returned"
    /\ err' = IF ctx = "deadline" THEN "timeout" ELSE "handler"
    /\ UNCHANGED <<setup, going, ctx, claimed, saved, observation, overran, panics>>

(* The context is looked at after the error came back; a late error is a   *)
(* 504 whatever it was.  Any other goes through the ErrorMapper.           *)
Fails ==
    /\ at = "failed"
    /\ IF ctx = "deadline"
       THEN Respond(504, "key") /\ Keep(504) /\ err' = "timeout"
       ELSE \E s \in Statuses : Respond(s, "key") /\ Keep(s) /\ err' = "handler"
    /\ UNCHANGED <<setup, ctx, claimed, saved, observation, overran>>

EncodesEarly == \* mutant: the status is recorded before the body is marshaled
    /\ at = "returned"
    /\ \E s \in Statuses :
          /\ Keep(s)
          /\ \/ Respond(s, "key")
             \/ ~Bodiless(s) /\ Respond(500, "key")
    /\ UNCHANGED <<setup, ctx, claimed, saved, err, observation, overran>>

(* encodeResponse, or writeRaw: the response's status; or the body does    *)
(* not marshal, which is a 500 no error is recorded for; or a MarshalJSON  *)
(* panics.                                                                 *)
Encodes ==
    /\ at = "returned"
    /\ \/ \E s \in Statuses : Respond(s, "key") /\ Keep(s)
       \/ Respond(500, "key") /\ Keep(500)
       \/ \E kind \in {"panic", "abort"} :
             Raise("key", kind) /\ UNCHANGED <<wire, recorder, replay>>
    /\ UNCHANGED <<setup, ctx, claimed, saved, err, observation, overran>>

-----------------------------------------------------------------------------
RecoversNoError == \* mutant: every panic with an error goes on, not only the sentinel
    /\ at = "recover"
    /\ \/ going = "panic" /\ Respond(500, "observe") /\ err' = "panic"
       \/ at' = "observe" /\ UNCHANGED <<going, panics, wire, recorder, err>>
    /\ UNCHANGED <<setup, ctx, key, observation, overran>>

RecoversAll == \* mutant: an abort is recovered too
    /\ at = "recover"
    /\ IF going = "out"
       THEN Out("observe") /\ UNCHANGED <<wire, recorder, err>>
       ELSE Respond(500, "observe") /\ err' = "panic"
    /\ UNCHANGED <<setup, ctx, key, observation, overran>>

(* recoverMiddleware: a panic becomes a 500, whatever was written before   *)
(* it; http.ErrAbortHandler goes on.                                       *)
Recovers ==
    /\ at = "recover"
    /\ IF going = "panic"
       THEN Respond(500, "observe") /\ err' = "panic"
       ELSE at' = "observe" /\ UNCHANGED <<going, panics, wire, recorder, err>>
    /\ UNCHANGED <<setup, ctx, key, observation, overran>>

(* observeMiddleware reports what came back out; the observer may panic.   *)
Observes ==
    /\ at = "observe" /\ going = "out"
    /\ setup.observed
    /\ report' = [status |-> recorder.status, err |-> err, sent |-> first]
    /\ reports' = reports + 1
    /\ Out("backstop") \/ Raise("backstop", "panic")
    /\ UNCHANGED <<setup, ctx, wire, recorder, key, err, overran>>

PassesObserver ==
    /\ at = "observe"
    /\ going = "abort" \/ ~setup.observed
    /\ at' = "backstop"
    /\ UNCHANGED <<setup, going, ctx, wire, recorder, key, err, observation, overran, panics>>

(* The router's own recovery, outside the recorder; then net/http ends the *)
(* response, a 200 if nothing gave it a status, or cuts the connection.    *)
Ends ==
    /\ at = "backstop"
    /\ at' = "done"
    /\ going' = IF going = "panic" THEN "out" ELSE going
    /\ \/ going = "panic" /\ Send(500, TRUE)
       \/ going = "out" /\ final' = (IF final = 0 THEN 200 ELSE final) /\ UNCHANGED <<first, answers>>
       \/ going = "abort" /\ UNCHANGED wire
    /\ UNCHANGED <<setup, ctx, recorder, key, err, observation, overran, panics>>

-----------------------------------------------------------------------------
(* The context's deadline passes, whoever set it, or the client leaves: the *)
(* first of them is what the context's Err stays.                          *)
ContextEnds ==
    /\ at # "done"
    /\ ctx = "live"
    /\ ctx' \in {"canceled"} \cup (IF setup.timed THEN {"deadline"} ELSE {})
    /\ UNCHANGED <<setup, at, going, wire, recorder, key, err, observation, overran, panics>>

Chain ==
    \/ OwnCalls \/ OwnAnswers \/ OwnPanics \/ OwnReturns
    \/ KeyPasses \/ KeyClaims \/ KeyAnswers \/ KeySaves \/ KeyUnwinds
    \/ Rejects \/ Handles \/ HandlerReturns \/ HandlerFails \/ HandlerPanics
    \/ Fails \/ Encodes
    \/ Recovers \/ Observes \/ PassesObserver \/ Ends

(* The response is over.                                                   *)
Over == at = "done" /\ UNCHANGED vars

Next == Chain \/ ContextEnds \/ Over

Spec == Init /\ [][Next]_vars

-----------------------------------------------------------------------------
Sent == {0} \cup 100..999
ErrType == {"none", "request", "handler", "timeout", "panic"}

(* The variables keep their types, no refused status was sent, and only an *)
(* abort unwinds past the action's recovery before the observer ran.       *)
TypeOK ==
    /\ setup \in [observed : BOOLEAN, timed : BOOLEAN, capped : BOOLEAN, keyed : BOOLEAN]
    /\ at \in {"own", "key", "typed", "handling", "failed", "returned",
              "recover", "observe", "backstop", "done"}
    /\ going \in {"in", "out", "panic", "abort"}
    /\ ctx \in {"live", "deadline", "canceled"}
    /\ first \in Sent /\ final \in Sent /\ answers \in Nat
    /\ recorder \in [status : Int, wrote : BOOLEAN]
    /\ replay \in Int /\ claimed \in BOOLEAN /\ saved \in Int
    /\ err \in ErrType
    /\ report \in [status : Int, err : ErrType, sent : Sent]
    /\ reports \in Nat
    /\ overran \in {"none", "live", "deadline", "canceled"}
    /\ raised \in {"none", "panic", "abort"}
    /\ late \in BOOLEAN
    /\ at = "observe" => going \in {"out", "abort"}

(* The observer reports the first status the client was sent (README,      *)
(* "Status: the first status written"), unless net/http refused it: no     *)
(* layer writes past the recorder, and none writes a status that is lost.  *)
ObservedWhatWasSent ==
    reports > 0 =>
        \/ report.status = IF report.sent = 0 THEN 200 ELSE report.sent
        \/ report.status \notin 100..999

(* One answer: the framework writes a second body over the first only when *)
(* a panic comes after it.                                                 *)
OneAnswer == answers > 1 => late

(* A request that is not aborted ends with a status, and is reported once; *)
(* an aborted one is not reported (README, "Aborts pass through").         *)
EndsReported ==
    at = "done" =>
        IF raised = "abort"
        THEN going = "abort" /\ reports = 0
        ELSE final # 0 /\ reports = IF setup.observed THEN 1 ELSE 0

(* An error that comes back once the deadline has passed, the action's or a *)
(* middleware's, is a 504 whatever it was, and nothing else is: not a late *)
(* success, not an error after the client left (README, "Timeouts").       *)
TimeoutsAreLate ==
    /\ overran = "deadline" /\ at # "failed" => err \in {"timeout", "panic"}
    /\ err = "timeout" => ctx = "deadline" /\ overran # "none"

(* What is saved for replays is what this request's own client got.        *)
SavedIsSent == saved # 0 => saved = final /\ saved \in 200..299

(* A recovered panic is observed as a 500 (Observation, "including a       *)
(* recovered panic, which is reported as status 500 with a non-nil Err").  *)
PanicObservedAs500 == report.err = "panic" => report.status = 500
=============================================================================
