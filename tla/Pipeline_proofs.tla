-------------------------- MODULE Pipeline_proofs ---------------------------
(***************************************************************************)
(* Proofs about Pipeline, for any statuses that handlers, errors and the   *)
(* action's own middleware may ask for.                                    *)
(***************************************************************************)
EXTENDS Pipeline, TLAPS

(* Nothing is handled on the way out, and nothing answered on the way in.  *)
Control ==
    /\ at \in {"typed", "handling", "failed", "returned"} => going = "in"
    /\ at \in {"recover", "observe", "backstop", "done"} => going # "in"
    /\ going = "abort" <=> raised = "abort"
    /\ claimed => at \in {"key", "typed", "handling", "failed", "returned"}
    /\ claimed /\ at = "key" => going # "in"

Inward ==
    going = "in" =>
        /\ final = 0 /\ answers = 0 /\ replay = 0 /\ saved = 0 /\ err = "none"
        /\ at # "failed" => overran = "none"

(* A final status is the first the client was sent, or came after it.      *)
FirstSent == at # "done" /\ first = 0 => final = 0

(* The recorder has what was sent first, unless net/http refused it.       *)
Recorded ==
    setup.observed /\ at \notin {"backstop", "done"} =>
        IF recorder.wrote
        THEN recorder.status = first \/ recorder.status \notin 100..999
        ELSE recorder.status = 200 /\ first = 0

(* A panic that comes back after a body is known as late.                  *)
PanicsLate == going = "panic" /\ answers > 0 => late

Reported ==
    reports = IF at \in {"backstop", "done"} /\ setup.observed /\ raised # "abort" THEN 1 ELSE 0

OverranAt ==
    /\ overran = "deadline" => ctx = "deadline"
    /\ at = "failed" => overran # "none"

(* While the key is held, a 2xx recorded for replay is the one sent.       *)
Replayed == claimed /\ going = "out" /\ replay \in 200..299 => final = replay

IInv ==
    /\ TypeOK
    /\ Control
    /\ Inward
    /\ FirstSent
    /\ Recorded
    /\ PanicsLate
    /\ Reported
    /\ OverranAt
    /\ Replayed
    /\ ObservedWhatWasSent
    /\ OneAnswer
    /\ EndsReported
    /\ TimeoutsAreLate
    /\ SavedIsSent

-----------------------------------------------------------------------------
LEMMA InitIInv == Init => IInv
  <1> SUFFICES ASSUME Init PROVE IInv
    OBVIOUS
  <1>1. TypeOK
    <2>1. /\ recorder \in [status : Int, wrote : BOOLEAN]
          /\ report \in [status : Int, err : ErrType, sent : Sent]
      BY DEF Init, NoReport, ErrType, Sent
    <2>2. /\ replay \in Int /\ saved \in Int /\ reports \in Nat /\ answers \in Nat
          /\ first \in Sent /\ final \in Sent /\ err \in ErrType
      BY DEF Init, Sent, ErrType
    <2> QED BY <2>1, <2>2 DEF Init, TypeOK
  <1> QED
    BY <1>1 DEF Init, IInv, Control, Inward, FirstSent, Recorded, PanicsLate, Reported, OverranAt,
       Replayed, ObservedWhatWasSent, OneAnswer, EndsReported, TimeoutsAreLate, SavedIsSent

-----------------------------------------------------------------------------
(* What is sent is well typed, and neither the first status nor a final    *)
(* one ever changes.                                                       *)
LEMMA SendKeeps ==
  ASSUME TypeOK, FirstSent, at # "done", NEW s \in Int \ {0}, NEW body \in BOOLEAN,
         ~Refused(s), Send(s, body)
  PROVE  /\ first' \in Sent
         /\ final' \in Sent
         /\ answers' \in {answers, answers + 1}
         /\ first' = IF first = 0 THEN s ELSE first
         /\ final # 0 => final' = final
         /\ final = 0 /\ ~Interim(s) => final' = s
         /\ first = 0 => s \in 100..999
         /\ first' # 0
  <1>1. final # 0 \/ s \in 100..999
    BY DEF Refused
  <1>2. final # 0 => first # 0
    BY DEF FirstSent
  <1>3. Final(s, body) \in Sent
    BY <1>1 DEF Final, TypeOK, Sent
  <1>4. first' \in Sent
    BY <1>1, <1>2 DEF Send, TypeOK, Sent
  <1> QED BY <1>1, <1>2, <1>3, <1>4 DEF Send, Final, TypeOK

(* The recorder stays in step with what is sent.                           *)
LEMMA RecordKeeps ==
  ASSUME TypeOK, Recorded, at \notin {"backstop", "done"}, NEW s \in Int \ {0}, Record(s)
  PROVE  /\ recorder' \in [status : Int, wrote : BOOLEAN]
         /\ setup.observed => recorder'.wrote
         /\ setup.observed /\ recorder.wrote => recorder' = recorder
         /\ setup.observed /\ ~recorder.wrote => recorder'.status = s /\ first = 0
  BY DEF Record, Recorded, TypeOK

(* A response inside the recovery, or the panic that comes of it, leaves   *)
(* what is sent and what is recorded in step.                              *)
LEMMA RespondKeeps ==
  ASSUME IInv, at \notin {"backstop", "done"}, setup' = setup, NEW s \in Int \ {0},
         NEW layer \in {"key", "own", "recover", "observe"}, Respond(s, layer)
  PROVE  /\ first' \in Sent /\ final' \in Sent /\ answers' \in Nat
         /\ recorder' \in [status : Int, wrote : BOOLEAN]
         /\ raised' \in {"none", "panic", "abort"} /\ late' \in BOOLEAN
         /\ at' = layer
         /\ going' = IF Refused(s) THEN "panic" ELSE "out"
         /\ raised' = IF Refused(s) THEN "panic" ELSE raised
         /\ FirstSent' /\ Recorded' /\ PanicsLate'
         /\ answers = 0 \/ late => OneAnswer'
         /\ final # 0 => final' = final
         /\ final = 0 /\ s \in 200..299 => final' = s
  <1>1. TypeOK /\ FirstSent /\ Recorded /\ OneAnswer
    BY DEF IInv
  <1>2. Record(s)
    BY DEF Respond
  <1>3. CASE Refused(s)
    <2>1. Raise(layer, "panic") /\ UNCHANGED wire
      BY <1>3 DEF Respond
    <2>2. Recorded'
      BY <1>1, <1>2, <1>3, <2>1, RecordKeeps DEF Recorded, Raise, wire, Refused
    <2>3. FirstSent' /\ PanicsLate' /\ (answers = 0 \/ late => OneAnswer')
      BY <1>1, <2>1 DEF Raise, wire, FirstSent, PanicsLate, OneAnswer, TypeOK
    <2>4. recorder' \in [status : Int, wrote : BOOLEAN]
      BY <1>1, <1>2, RecordKeeps
    <2>5. final = 0 /\ s \notin 100..999
      BY <1>3 DEF Refused
    <2> QED BY <1>1, <1>3, <2>1, <2>2, <2>3, <2>4, <2>5 DEF Raise, wire, TypeOK
  <1>4. CASE ~Refused(s)
    <2>1. Out(layer) /\ Send(s, ~Bodiless(s))
      BY <1>4 DEF Respond
    <2>2. /\ first' \in Sent /\ final' \in Sent /\ answers' \in {answers, answers + 1}
          /\ first' = IF first = 0 THEN s ELSE first
          /\ final # 0 => final' = final
          /\ final = 0 /\ ~Interim(s) => final' = s
          /\ first = 0 => s \in 100..999
          /\ first' # 0
      <3>1. PICK body \in BOOLEAN : Send(s, body)
        BY <2>1 DEF Bodiless
      <3>2. at # "done"
        OBVIOUS
      <3> QED BY <1>1, <1>4, <3>1, <3>2, SendKeeps
    <2>3. Recorded'
      BY <1>1, <1>2, <2>1, <2>2, RecordKeeps DEF Recorded, Out
    <2>4. FirstSent' /\ PanicsLate' /\ (answers = 0 \/ late => OneAnswer')
      BY <1>1, <2>1, <2>2 DEF Out, panics, FirstSent, PanicsLate, OneAnswer, TypeOK
    <2>5. recorder' \in [status : Int, wrote : BOOLEAN]
      BY <1>1, <1>2, RecordKeeps
    <2>6. s \in 200..299 => ~Interim(s)
      BY DEF Interim
    <2> QED BY <1>1, <1>4, <2>1, <2>2, <2>3, <2>4, <2>5, <2>6 DEF Out, panics, TypeOK
  <1> QED BY <1>3, <1>4

-----------------------------------------------------------------------------
(* A response on the way in is the first one.                              *)
LEMMA RespondInward ==
  ASSUME IInv, going = "in", NEW s \in Int \ {0}, NEW layer \in {"key", "own", "recover"},
         Respond(s, layer), UNCHANGED <<setup, ctx, saved, observation, overran>>,
         claimed' = claimed, claimed => layer = "key",
         replay' \in Int, claimed /\ replay' \in 200..299 => replay' = s,
         err' \in {"none", "request", "handler", "timeout"},
         at = "failed" => (err' = "timeout" <=> ctx = "deadline"),
         at # "failed" => err' # "timeout"
  PROVE  IInv'
  <1>1. at \notin {"backstop", "done"}
    BY DEF IInv, Control
  <1>2. /\ first' \in Sent /\ final' \in Sent /\ answers' \in Nat
        /\ recorder' \in [status : Int, wrote : BOOLEAN]
        /\ raised' \in {"none", "panic", "abort"} /\ late' \in BOOLEAN
        /\ at' = layer
        /\ going' = IF Refused(s) THEN "panic" ELSE "out"
        /\ raised' = IF Refused(s) THEN "panic" ELSE raised
        /\ FirstSent' /\ Recorded' /\ PanicsLate'
        /\ answers = 0 \/ late => OneAnswer'
        /\ final = 0 /\ s \in 200..299 => final' = s
    BY <1>1, RespondKeeps
  <1>3. TypeOK'
    BY <1>2 DEF IInv, TypeOK, observation, ErrType
  <1>4. Control'
    BY <1>2 DEF IInv, Control
  <1>5. Inward' /\ OneAnswer'
    BY <1>2 DEF IInv, Inward
  <1>6. Reported' /\ EndsReported'
    BY <1>1, <1>2 DEF IInv, Reported, EndsReported, observation, Control
  <1>7. OverranAt' /\ TimeoutsAreLate'
    BY <1>2 DEF IInv, Inward, OverranAt, TimeoutsAreLate
  <1>8. Replayed'
    BY <1>2 DEF IInv, Inward, Replayed
  <1>9. ObservedWhatWasSent' /\ SavedIsSent'
    BY <1>2 DEF IInv, Inward, ObservedWhatWasSent, SavedIsSent, observation
  <1> QED BY <1>2, <1>3, <1>4, <1>5, <1>6, <1>7, <1>8, <1>9 DEF IInv

(* The action's own middleware panics, over what was written or not.       *)
LEMMA OwnPanicsNext ==
  ASSUME IInv, OwnPanics
  PROVE  IInv'
  <1>1. /\ at = "own" /\ at' = "recover"
        /\ going \in {"in", "out"} /\ going' \in {"panic", "abort"} /\ raised' = going'
        /\ late' \in BOOLEAN /\ (late \/ answers > 0 => late')
        /\ UNCHANGED <<setup, ctx, wire, recorder, key, err, observation, overran>>
    BY DEF OwnPanics, Raise
  <1>2. TypeOK'
    BY <1>1 DEF IInv, TypeOK, wire, key, observation
  <1>3. Control' /\ Inward' /\ FirstSent'
    BY <1>1 DEF IInv, Control, Inward, FirstSent, wire, key
  <1>4. Recorded' /\ PanicsLate' /\ OneAnswer'
    BY <1>1 DEF IInv, Recorded, PanicsLate, OneAnswer, wire
  <1>5. Reported' /\ ObservedWhatWasSent' /\ EndsReported'
    BY <1>1 DEF IInv, Control, Reported, ObservedWhatWasSent, EndsReported, observation
  <1>6. OverranAt' /\ TimeoutsAreLate' /\ Replayed' /\ SavedIsSent'
    BY <1>1 DEF IInv, OverranAt, TimeoutsAreLate, Replayed, SavedIsSent, wire, key
  <1> QED BY <1>2, <1>3, <1>4, <1>5, <1>6 DEF IInv

(* The key step saves and releases, or is unwound.                         *)
LEMMA KeyLeft ==
  ASSUME IInv, KeySaves \/ KeyUnwinds
  PROVE  IInv'
  <1>1. /\ at = "key" /\ at' = "own"
        /\ going # "in" /\ going' = going
        /\ claimed' = FALSE
        /\ UNCHANGED <<setup, ctx, wire, recorder, replay, err, observation, overran, panics>>
    BY DEF KeySaves, KeyUnwinds, Out
  <1>2. saved' = saved \/ (claimed /\ going = "out" /\ replay \in 200..299 /\ saved' = replay)
    BY DEF KeySaves, KeyUnwinds
  <1>3. saved' \in Int
    BY <1>2 DEF IInv, TypeOK
  <1>4. TypeOK'
    <2>1. TypeOK /\ claimed' \in BOOLEAN /\ replay' \in Int
      BY <1>1 DEF IInv, TypeOK
    <2>2. /\ first' \in Sent /\ final' \in Sent /\ answers' \in Nat
          /\ report' \in [status : Int, err : ErrType, sent : Sent] /\ reports' \in Nat
          /\ raised' \in {"none", "panic", "abort"} /\ late' \in BOOLEAN
      BY <1>1, <2>1 DEF TypeOK, wire, observation, panics
    <2> QED BY <1>1, <1>3, <2>1, <2>2 DEF TypeOK
  <1>5. Control' /\ Inward' /\ FirstSent'
    BY <1>1 DEF IInv, Control, Inward, FirstSent, wire, panics
  <1>6. Recorded' /\ PanicsLate' /\ OneAnswer'
    BY <1>1 DEF IInv, Recorded, PanicsLate, OneAnswer, wire, panics
  <1>7. Reported' /\ ObservedWhatWasSent' /\ EndsReported'
    BY <1>1 DEF IInv, Reported, ObservedWhatWasSent, EndsReported, observation, panics
  <1>8. OverranAt' /\ TimeoutsAreLate' /\ Replayed' /\ SavedIsSent'
    BY <1>1, <1>2 DEF IInv, OverranAt, TimeoutsAreLate, Replayed, SavedIsSent, wire
  <1> QED BY <1>4, <1>5, <1>6, <1>7, <1>8 DEF IInv

(* The other steps that write nothing.                                     *)
LEMMA SilentNext ==
  ASSUME IInv,
         \/ OwnReturns \/ KeyPasses \/ KeyClaims
         \/ Handles \/ HandlerReturns \/ HandlerFails \/ HandlerPanics
         \/ Observes \/ PassesObserver \/ ContextEnds
  PROVE  IInv'
  <1> USE DEF IInv, TypeOK, Control, Inward, FirstSent, Recorded, PanicsLate, Reported, OverranAt,
          Replayed, ObservedWhatWasSent, OneAnswer, EndsReported, TimeoutsAreLate, SavedIsSent,
          wire, key, observation, panics
  <1>1. CASE OwnReturns
    BY <1>1 DEF OwnReturns
  <1>2. CASE KeyPasses
    BY <1>2 DEF KeyPasses
  <1>3. CASE KeyClaims
    BY <1>3 DEF KeyClaims
  <1>4. CASE Handles
    BY <1>4 DEF Handles
  <1>5. CASE HandlerReturns
    BY <1>5 DEF HandlerReturns
  <1>6. CASE HandlerFails
    BY <1>6 DEF HandlerFails
  <1>7. CASE HandlerPanics
    BY <1>7 DEF HandlerPanics, Raise
  <1>8. CASE Observes
    BY <1>8 DEF Observes, Out, Raise
  <1>9. CASE PassesObserver
    BY <1>9 DEF PassesObserver
  <1>10. CASE ContextEnds
    BY <1>10 DEF ContextEnds
  <1> QED
    BY <1>1, <1>2, <1>3, <1>4, <1>5, <1>6, <1>7, <1>8, <1>9, <1>10

(* The action's own middleware writes.                                     *)
LEMMA OwnNext ==
  ASSUME IInv, OwnCalls \/ OwnAnswers
  PROVE  IInv'
  <1>1. CASE (OwnCalls \/ OwnAnswers) /\ UNCHANGED <<wire, recorder>>
    BY <1>1 DEF OwnCalls, OwnAnswers, Out, Raise, Respond, IInv, TypeOK, Control, Inward, FirstSent, Recorded,
       PanicsLate, Reported, OverranAt, Replayed, ObservedWhatWasSent, OneAnswer, EndsReported,
       TimeoutsAreLate, SavedIsSent, wire, key, observation, panics
  <1>2. ASSUME OwnCalls, NEW s \in OwnStatuses, Interim(s), Record(s), Send(s, FALSE) PROVE IInv'
    <2>1. s \in 100..199 /\ s \in Int \ {0}
      BY <1>2 DEF Interim
    <2>2. /\ first' \in Sent /\ final' = 0 /\ answers' = 0
          /\ first' = IF first = 0 THEN s ELSE first
          /\ first' # 0
      BY <1>2, <2>1 DEF OwnCalls, IInv, Inward, Send, Final, TypeOK, Sent
    <2>3. recorder' \in [status : Int, wrote : BOOLEAN] /\ Recorded'
      BY <1>2, <2>1, <2>2, RecordKeeps DEF OwnCalls, IInv, Recorded
    <2>4. TypeOK'
      BY <1>2, <2>2, <2>3 DEF OwnCalls, IInv, TypeOK, Sent, key, observation, panics
    <2> QED
      BY <1>2, <2>2, <2>3, <2>4
      DEF OwnCalls, IInv, Control, Inward, FirstSent, PanicsLate, Reported, OverranAt, Replayed,
          ObservedWhatWasSent, OneAnswer, EndsReported, TimeoutsAreLate, SavedIsSent, key, observation, panics
  <1>3. ASSUME OwnAnswers, NEW s \in OwnStatuses, Respond(s, "recover") PROVE IInv'
    <2>1. s \in Int \ {0}
      BY StatusAssumption
    <2>2. ~claimed /\ replay = 0 /\ err = "none" /\ at = "own"
      BY <1>3 DEF OwnAnswers, IInv, Control, Inward
    <2> QED BY <1>3, <2>1, <2>2, RespondInward DEF OwnAnswers, key
  <1> QED BY <1>1, <1>2, <1>3 DEF OwnCalls, OwnAnswers

(* The key step answers in the handler's place.                            *)
LEMMA KeyNext ==
  ASSUME IInv, KeyAnswers
  PROVE  IInv'
  <1>1. PICK s \in Int \ {0} : Respond(s, "own") /\ err' \in {"request", err}
    BY StatusAssumption DEF KeyAnswers
  <1>2. ~claimed /\ replay = 0 /\ err = "none" /\ at = "key"
    BY DEF KeyAnswers, IInv, Control, Inward
  <1> QED BY <1>1, <1>2, RespondInward DEF KeyAnswers, key

(* The typed handler answers.                                              *)
LEMMA TypedNext ==
  ASSUME IInv, Rejects \/ Fails \/ Encodes
  PROVE  IInv'
  <1>1. going = "in" /\ err = "none" /\ replay = 0
    BY DEF Rejects, Fails, Encodes, IInv, Control, Inward
  <1>2. CASE Rejects
    <2>1. PICK s \in Int \ {0} : Respond(s, "key") /\ Keep(s)
      BY <1>2 DEF Rejects
    <2> QED BY <1>1, <1>2, <2>1, RespondInward DEF Rejects, Keep
  <1>3. CASE Fails
    <2>1. PICK s \in Int \ {0} : Respond(s, "key") /\ Keep(s)
      BY <1>3, StatusAssumption DEF Fails
    <2>2. err' = IF ctx = "deadline" THEN "timeout" ELSE "handler"
      BY <1>3 DEF Fails
    <2> QED BY <1>1, <1>3, <2>1, <2>2, RespondInward DEF Fails, Keep
  <1>4. CASE Encodes
    <2>1. CASE \E s \in Int \ {0} : Respond(s, "key") /\ Keep(s)
      <3>1. PICK s \in Int \ {0} : Respond(s, "key") /\ Keep(s)
        BY <2>1
      <3> QED BY <1>1, <1>4, <3>1, RespondInward DEF Encodes, Keep
    <2>2. CASE \E kind \in {"panic", "abort"} : Raise("key", kind) /\ UNCHANGED <<wire, recorder, replay>>
      BY <1>4, <2>2 DEF Encodes, Raise, IInv, TypeOK, Control, Inward, FirstSent, Recorded,
         PanicsLate, Reported, OverranAt, Replayed, ObservedWhatWasSent, OneAnswer, EndsReported,
         TimeoutsAreLate, SavedIsSent, wire, key, observation, panics
    <2> QED BY <1>4, <2>1, <2>2, StatusAssumption DEF Encodes
  <1> QED BY <1>2, <1>3, <1>4

(* The recovery answers, or lets pass what is no panic.                    *)
LEMMA RecoverNext ==
  ASSUME IInv, Recovers
  PROVE  IInv'
  <1>1. CASE going = "panic"
    <2>1. Respond(500, "observe") /\ err' = "panic" /\ at = "recover"
      BY <1>1 DEF Recovers
    <2>2. ~Refused(500) /\ 500 \in Int \ {0}
      BY DEF Refused
    <2>3. /\ first' \in Sent /\ final' \in Sent /\ answers' \in Nat
          /\ recorder' \in [status : Int, wrote : BOOLEAN]
          /\ late' \in BOOLEAN
          /\ at' = "observe" /\ going' = "out" /\ raised' = raised
          /\ FirstSent' /\ Recorded' /\ PanicsLate'
          /\ answers = 0 \/ late => OneAnswer'
          /\ final # 0 => final' = final
      BY <2>1, <2>2, RespondKeeps DEF Recovers
    <2>4. TypeOK'
      BY <2>1, <2>3 DEF Recovers, IInv, TypeOK, ErrType, key, observation
    <2>5. OneAnswer'
      BY <1>1, <2>3 DEF IInv, PanicsLate, TypeOK
    <2>6. Control' /\ Inward' /\ Replayed' /\ SavedIsSent'
      BY <1>1, <2>1, <2>3 DEF Recovers, IInv, TypeOK, Sent, Control, Inward, Replayed, SavedIsSent, key
    <2>7. Reported' /\ OverranAt' /\ ObservedWhatWasSent' /\ EndsReported' /\ TimeoutsAreLate'
      BY <1>1, <2>1, <2>3 DEF Recovers, IInv, Control, Reported, OverranAt, ObservedWhatWasSent,
         EndsReported, TimeoutsAreLate, observation
    <2> QED BY <2>3, <2>4, <2>5, <2>6, <2>7 DEF IInv
  <1>2. CASE going # "panic"
    BY <1>2 DEF Recovers, IInv, TypeOK, Control, Inward, FirstSent, Recorded, PanicsLate, Reported,
       OverranAt, Replayed, ObservedWhatWasSent, OneAnswer, EndsReported, TimeoutsAreLate, SavedIsSent,
       wire, key, observation, panics
  <1> QED BY <1>1, <1>2

(* The backstop and net/http end the response.                             *)
LEMMA EndNext ==
  ASSUME IInv, Ends
  PROVE  IInv'
  <1>1. /\ first' \in Sent /\ final' \in Sent /\ answers' \in Nat
        /\ OneAnswer'
        /\ final # 0 => final' = final
        /\ going # "abort" => final' # 0
    <2>1. CASE going = "panic"
      <3>1. at # "done" /\ TypeOK /\ FirstSent
        BY <2>1 DEF Ends, IInv
      <3>2. PICK s \in Int \ {0}, body \in BOOLEAN : s = 500 /\ Send(s, body)
        <4>1. Send(500, TRUE)
          BY <2>1 DEF Ends
        <4>2. 500 \in Int \ {0} /\ TRUE \in BOOLEAN
          OBVIOUS
        <4> QED BY <4>1, <4>2, Zenon
      <3>3. ~Refused(s) /\ ~Interim(s)
        BY <3>2 DEF Refused, Interim
      <3>4. /\ first' \in Sent /\ final' \in Sent /\ answers' \in {answers, answers + 1}
            /\ final # 0 => final' = final
            /\ final = 0 => final' = s
        BY <3>1, <3>2, <3>3, SendKeeps
      <3> QED BY <2>1, <3>2, <3>4 DEF Ends, IInv, PanicsLate, OneAnswer, TypeOK, panics
    <2>2. CASE going # "panic"
      <3>1. first' = first /\ answers' = answers /\ late' = late
        BY <2>2 DEF Ends, wire, panics
      <3>2. final' = final \/ (final = 0 /\ final' = 200)
        BY <2>2 DEF Ends, wire
      <3>3. going # "abort" => final' # 0
        <4>1. going = "abort" \/ going = "out"
          BY <2>2 DEF Ends, IInv, Control, TypeOK
        <4>2. going = "out" => final' = IF final = 0 THEN 200 ELSE final
          BY DEF Ends
        <4> QED BY <4>1, <4>2
      <3>4. first' \in Sent /\ final' \in Sent /\ answers' \in Nat
        BY <3>1, <3>2 DEF IInv, TypeOK, Sent
      <3>5. OneAnswer'
        BY <3>1 DEF IInv, OneAnswer
      <3> QED BY <3>2, <3>3, <3>4, <3>5
    <2> QED BY <2>1, <2>2
  <1>2. TypeOK'
    BY <1>1 DEF Ends, IInv, TypeOK, key, observation, panics
  <1> QED
    BY <1>1, <1>2 DEF Ends, IInv, Control, Inward, FirstSent, Recorded, PanicsLate, Reported, OverranAt,
       Replayed, ObservedWhatWasSent, EndsReported, TimeoutsAreLate, SavedIsSent, TypeOK,
       key, observation, panics

LEMMA IInvNext == IInv /\ [Next]_vars => IInv'
  <1>1. ASSUME IInv, UNCHANGED vars PROVE IInv'
    BY <1>1 DEF vars, IInv, TypeOK, Control, Inward, FirstSent, Recorded, PanicsLate, Reported, OverranAt,
       Replayed, ObservedWhatWasSent, OneAnswer, EndsReported, TimeoutsAreLate, SavedIsSent,
       wire, key, observation, panics
  <1> QED
    BY <1>1, OwnPanicsNext, KeyLeft, SilentNext, OwnNext, KeyNext, TypedNext, RecoverNext, EndNext DEF Next, Chain, Over

LEMMA Invariance == Spec => []IInv
  BY InitIInv, IInvNext, PTL DEF Spec

-----------------------------------------------------------------------------
(* The state of the chain is well typed: no refused status is ever sent,   *)
(* and no panic but an abort gets past recoverMiddleware.                  *)
THEOREM TypeCorrect == Spec => []TypeOK
  <1>1. IInv => TypeOK
    BY DEF IInv
  <1> QED BY <1>1, Invariance, PTL

(* An Observation has the first status the client was sent.                *)
THEOREM ObservesWhatWasSent == Spec => []ObservedWhatWasSent
  <1>1. IInv => ObservedWhatWasSent
    BY DEF IInv
  <1> QED BY <1>1, Invariance, PTL

(* No second body without a panic after the first.                         *)
THEOREM AnswersOnce == Spec => []OneAnswer
  <1>1. IInv => OneAnswer
    BY DEF IInv
  <1> QED BY <1>1, Invariance, PTL

(* A request is aborted and not reported, or answered and reported once.   *)
THEOREM EndsAreReported == Spec => []EndsReported
  <1>1. IInv => EndsReported
    BY DEF IInv
  <1> QED BY <1>1, Invariance, PTL

(* A 504 stands for an error that came back after the deadline.            *)
THEOREM TimeoutsComeLate == Spec => []TimeoutsAreLate
  <1>1. IInv => TimeoutsAreLate
    BY DEF IInv
  <1> QED BY <1>1, Invariance, PTL

(* A saved response is the one its client got.                             *)
THEOREM SavesWhatWasSent == Spec => []SavedIsSent
  <1>1. IInv => SavedIsSent
    BY DEF IInv
  <1> QED BY <1>1, Invariance, PTL
=============================================================================
