--------------------------- MODULE KeyStep_proofs ---------------------------
(***************************************************************************)
(* Proofs about KeyStep, for any requests, keys, fingerprints and faults.  *)
(* The inductive invariant says who holds a key (HolderHolds), what the    *)
(* lookup after the claim knows (RunsOnlyUnsaved) and where a kept         *)
(* response is (KeptStays).  With whose responses the store holds          *)
(* (KeptIsOwn) and that no request is answered twice (AnswersOnce), it     *)
(* makes every step one of OncePerKey's, or none.                          *)
(***************************************************************************)
EXTENDS KeyStep, TLAPS

(* A request whose claim has not run out holds its key from its Claim to   *)
(* its Release.                                                            *)
HolderHolds ==
    \A r \in Req : pc[r] \in Holding /\ r \notin lapsed => claims[K(r)] = r

(* Under a key no claim on which ran out, the response kept last is still  *)
(* there, until its TTL ends.                                              *)
KeptStays ==
    \A q \in kept : q \notin forgotten /\ Undisturbed(K(q)) => responses[K(q)] = q

IInv == TypeOK /\ HolderHolds /\ RunsOnlyUnsaved /\ KeptStays

-----------------------------------------------------------------------------
(* Every state of KeyStep is well typed.                                   *)
LEMMA InitTyped == Init => TypeOK
  BY DEF Init, TypeOK, PCs, Answers, Store!StoreInit, Store!StoreTypeOK

LEMMA NextTyped == TypeOK /\ [Next]_vars => TypeOK'
<1> SUFFICES ASSUME TypeOK, [Next]_vars PROVE TypeOK'
  OBVIOUS
<1> USE DEF TypeOK, Store!StoreTypeOK, PCs, Holding, Answers, Reply, NoReply, Goto, K, storeVars
<1>1. ASSUME NEW r \in Req, Refuse(r) \/ RunKeyless(r) \/ Accept(r) PROVE TypeOK'
  <2>1. CASE Refuse(r)
    BY <2>1 DEF Refuse
  <2>2. CASE RunKeyless(r)
    BY <2>2 DEF RunKeyless
  <2>3. CASE Accept(r)
    BY <2>3 DEF Accept
  <2> QED
    BY <1>1, <2>1, <2>2, <2>3
<1>2. ASSUME NEW r \in Req, NEW a \in PCs, NEW u \in PCs, Answer(r, a, u) PROVE TypeOK'
  BY <1>2 DEF Answer
<1>3. ASSUME NEW r \in Req, Lookup(r) \/ Recheck(r) PROVE TypeOK'
  BY <1>3, <1>2 DEF Lookup, Recheck
<1>4. ASSUME NEW r \in Req, Claim(r) PROVE TypeOK'
  BY <1>4 DEF Claim, Store!Claim
<1>5. ASSUME NEW r \in Req, Start(r) \/ Finish(r) PROVE TypeOK'
  BY <1>5 DEF Start, Finish
<1>6. ASSUME NEW r \in Req, Save(r) PROVE TypeOK'
  BY <1>6 DEF Save, Store!Save
<1>7. ASSUME NEW r \in Req, Release(r) PROVE TypeOK'
  BY <1>7 DEF Release, Store!Release
<1>8. ASSUME NEW r \in Req, Leave(r) \/ Crash(r) PROVE TypeOK'
  BY <1>8 DEF Leave, Crash
<1>9. ASSUME NEW k \in Key, Lapse(k) \/ Forget(k) PROVE TypeOK'
  BY <1>9 DEF Lapse, Forget, Store!Expire
<1>10. CASE UNCHANGED vars
  BY <1>10 DEF vars
<1> QED
  BY <1>1, <1>3, <1>4, <1>5, <1>6, <1>7, <1>8, <1>9, <1>10 DEF Next, Serve, Idle

(* Every state of KeyStep is well typed.                                   *)
THEOREM TypeCorrect == Spec => []TypeOK
  BY InitTyped, NextTyped, PTL DEF Spec

-----------------------------------------------------------------------------
(* Only Claim brings a request among the holders, and no step takes the    *)
(* key away from one but its own Release and the end of its TTL.           *)
LEMMA HolderNext == TypeOK /\ HolderHolds /\ [Next]_vars => HolderHolds'
<1> SUFFICES ASSUME TypeOK, HolderHolds, [Next]_vars,
                    NEW q \in Req, pc'[q] \in Holding, q \notin lapsed'
             PROVE  claims'[req'[q].key] = q
  BY DEF HolderHolds, K
<1> USE NoneAssumption DEF TypeOK, Store!StoreTypeOK, Holding, HolderHolds, Reply, NoReply, Goto, K, storeVars
<1>1. ASSUME NEW r \in Req, Refuse(r) \/ RunKeyless(r) \/ Accept(r) PROVE claims'[req'[q].key] = q
  BY <1>1 DEF Refuse, RunKeyless, Accept
<1>2. ASSUME NEW r \in Req, Lookup(r) PROVE claims'[req'[q].key] = q
  BY <1>2 DEF Lookup, Answer
<1>3. ASSUME NEW r \in Req, Recheck(r) PROVE claims'[req'[q].key] = q
  BY <1>3 DEF Recheck, Answer
<1>4. ASSUME NEW r \in Req, Claim(r) PROVE claims'[req'[q].key] = q
  BY <1>4 DEF Claim, Store!Claim
<1>5. ASSUME NEW r \in Req, Start(r) \/ Finish(r) PROVE claims'[req'[q].key] = q
  BY <1>5 DEF Start, Finish
<1>6. ASSUME NEW r \in Req, Save(r) PROVE claims'[req'[q].key] = q
  BY <1>6 DEF Save, Store!Save
<1>7. ASSUME NEW r \in Req, Release(r) PROVE claims'[req'[q].key] = q
  BY <1>7 DEF Release, Store!Release
<1>8. ASSUME NEW r \in Req, Leave(r) \/ Crash(r) PROVE claims'[req'[q].key] = q
  BY <1>8 DEF Leave, Crash
<1>9. ASSUME NEW k \in Key, Lapse(k) \/ Forget(k) PROVE claims'[req'[q].key] = q
  BY <1>9 DEF Lapse, Forget, Store!Expire
<1>10. CASE UNCHANGED vars
  BY <1>10 DEF vars
<1> QED
  BY <1>1, <1>2, <1>3, <1>4, <1>5, <1>6, <1>7, <1>8, <1>9, <1>10 DEF Next, Serve, Idle

(* Two requests that hold the same key: the claim of one of them ran out.  *)
LEMMA HoldersDiffer ==
    ASSUME HolderHolds, NEW q \in Req, NEW r \in Req, q # r, K(q) = K(r),
           pc[q] \in Holding, pc[r] \in Holding
    PROVE  q \in lapsed \/ r \in lapsed
  BY DEF HolderHolds

LEMMA HolderInit == Init => HolderHolds
  BY DEF Init, HolderHolds, Holding

(* Two handlers never run for one key unless a claim ran out under one.    *)
THEOREM RunsExclude == Spec => []OneRunPerKey
<1>1. TypeOK /\ HolderHolds /\ [Next]_vars => (TypeOK /\ HolderHolds)'
  BY NextTyped, HolderNext
<1>2. HolderHolds => OneRunPerKey
  BY HoldersDiffer DEF OneRunPerKey, Holding
<1> QED
  BY InitTyped, HolderInit, <1>1, <1>2, PTL DEF Spec

-----------------------------------------------------------------------------
(* A claim that ran out stays so, and a request keeps its key.             *)
LEMMA DisturbedStays ==
    ASSUME [Next]_vars PROVE lapsed \subseteq lapsed' /\ req' = req
  BY DEF Next, Serve, Idle, vars, storeVars, Refuse, RunKeyless, Accept, Lookup, Recheck, Answer,
         Claim, Start, Finish, Save, Release, Leave, Crash, Lapse, Forget,
         Store!Claim, Store!Save, Store!Release, Store!Expire

(* From its second lookup to its Save, a holder of an undisturbed key sees *)
(* no response appear: the only request that could save one is itself.     *)
LEMMA UnsavedNext ==
    TypeOK /\ HolderHolds /\ RunsOnlyUnsaved /\ [Next]_vars => RunsOnlyUnsaved'
<1> SUFFICES ASSUME TypeOK, HolderHolds, RunsOnlyUnsaved, [Next]_vars,
                    NEW q \in Req, pc'[q] \in Unsaved, Undisturbed(K(q))'
             PROVE  responses'[req'[q].key] = None
  BY DEF RunsOnlyUnsaved, K
<1>0. /\ req'[q].key = K(q)
      /\ K(q) \in Key
      /\ \A r \in lapsed : K(r) # K(q)
      /\ pc[q] \in Unsaved => responses[K(q)] = None
  <2>1. req' = req
    BY DisturbedStays
  <2>2. \A r \in lapsed : K(r) # K(q)
    BY <2>1, DisturbedStays DEF Undisturbed, K
  <2> QED
    BY <2>1, <2>2 DEF TypeOK, RunsOnlyUnsaved, Undisturbed, K
<1> DEFINE Good == responses'[req'[q].key] = None
<1> USE <1>0 DEF TypeOK, Store!StoreTypeOK, Unsaved, Goto, Reply, NoReply, storeVars
<1>1. ASSUME NEW r \in Req, Refuse(r) \/ RunKeyless(r) \/ Accept(r) PROVE Good
  BY <1>1 DEF Refuse, RunKeyless, Accept
<1>2. ASSUME NEW r \in Req, Lookup(r) PROVE Good
  BY <1>2 DEF Lookup, Answer
<1>3. ASSUME NEW r \in Req, Recheck(r) PROVE Good
  BY <1>3 DEF Recheck, Answer
<1>4. ASSUME NEW r \in Req, Claim(r) PROVE Good
  BY <1>4 DEF Claim, Store!Claim
<1>5. ASSUME NEW r \in Req, Start(r) \/ Finish(r) PROVE Good
  BY <1>5 DEF Start, Finish
<1>6. ASSUME NEW r \in Req, Save(r) PROVE Good
  <2>1. r # q
    BY <1>6 DEF Save
  <2>2. pc[q] \in Holding /\ pc[r] \in Holding
    BY <1>6, <2>1 DEF Save, Holding
  <2>3. K(r) # K(q)
    BY <2>1, <2>2, HoldersDiffer
  <2> QED
    BY <1>6, <2>1, <2>3 DEF Save, Store!Save
<1>7. ASSUME NEW r \in Req, Release(r) PROVE Good
  BY <1>7 DEF Release, Store!Release
<1>8. ASSUME NEW r \in Req, Leave(r) \/ Crash(r) PROVE Good
  BY <1>8 DEF Leave, Crash
<1>9. ASSUME NEW k \in Key, Lapse(k) \/ Forget(k) PROVE Good
  BY <1>9 DEF Lapse, Forget, Store!Expire
<1>10. CASE UNCHANGED vars
  BY <1>10 DEF vars
<1> QED
  BY <1>1, <1>2, <1>3, <1>4, <1>5, <1>6, <1>7, <1>8, <1>9, <1>10 DEF Next, Serve, Idle
-----------------------------------------------------------------------------
(* A kept response is not overwritten while its key is undisturbed: a      *)
(* request about to save knows, by RunsOnlyUnsaved, that nothing is there. *)
LEMMA KeptNext ==
    TypeOK /\ RunsOnlyUnsaved /\ KeptStays /\ [Next]_vars => KeptStays'
<1> SUFFICES ASSUME TypeOK, RunsOnlyUnsaved, KeptStays, [Next]_vars,
                    NEW q \in kept', q \notin forgotten', Undisturbed(K(q))'
             PROVE  responses'[req'[q].key] = q
  BY DEF KeptStays, K
<1>0. /\ req'[q].key = K(q)
      /\ Undisturbed(K(q))
      /\ q \in kept /\ q \notin forgotten => responses[K(q)] = q
  <2>1. req' = req
    BY DisturbedStays
  <2>2. Undisturbed(K(q))
    BY <2>1, DisturbedStays DEF Undisturbed, K
  <2> QED
    BY <2>1, <2>2 DEF KeptStays, K
<1> DEFINE Good == responses'[req'[q].key] = q
<1> USE <1>0 DEF TypeOK, Store!StoreTypeOK, Goto, Reply, NoReply, storeVars
<1>1. ASSUME NEW r \in Req, Refuse(r) \/ RunKeyless(r) \/ Accept(r) PROVE Good
  BY <1>1 DEF Refuse, RunKeyless, Accept
<1>2. ASSUME NEW r \in Req, Lookup(r) PROVE Good
  BY <1>2 DEF Lookup, Answer
<1>3. ASSUME NEW r \in Req, Recheck(r) PROVE Good
  BY <1>3 DEF Recheck, Answer
<1>4. ASSUME NEW r \in Req, Claim(r) PROVE Good
  BY <1>4 DEF Claim, Store!Claim
<1>5. ASSUME NEW r \in Req, Start(r) \/ Finish(r) PROVE Good
  BY <1>5 DEF Start, Finish
<1>6. ASSUME NEW r \in Req, Save(r) PROVE Good
  <2>1. CASE Store!Save(K(r), r) /\ kept' = kept \cup {r}
    <3>1. K(r) \in Key
      BY DEF K
    <3>2. CASE r = q
      BY <2>1, <3>1, <3>2 DEF Store!Save
    <3>3. CASE r # q /\ K(r) = K(q)
      <4>1. responses[K(r)] = None
        BY <1>6, <3>3 DEF Save, RunsOnlyUnsaved, Unsaved
      <4>2. responses[K(q)] = q
        BY <2>1, <3>3 DEF Store!Save
      <4> QED
        BY <3>3, <4>1, <4>2, <2>1, NoneAssumption
    <3>4. CASE r # q /\ K(r) # K(q)
      BY <2>1, <3>1, <3>4 DEF Store!Save
    <3> QED
      BY <3>2, <3>3, <3>4
  <2>2. CASE UNCHANGED <<kept, storeVars>>
    BY <2>2
  <2> QED
    BY <1>6, <2>1, <2>2 DEF Save
<1>7. ASSUME NEW r \in Req, Release(r) PROVE Good
  BY <1>7 DEF Release, Store!Release
<1>8. ASSUME NEW r \in Req, Leave(r) \/ Crash(r) PROVE Good
  BY <1>8 DEF Leave, Crash
<1>9. ASSUME NEW k \in Key, Lapse(k) \/ Forget(k) PROVE Good
  BY <1>9 DEF Lapse, Forget, Store!Expire
<1>10. CASE UNCHANGED vars
  BY <1>10 DEF vars
<1> QED
  BY <1>1, <1>2, <1>3, <1>4, <1>5, <1>6, <1>7, <1>8, <1>9, <1>10 DEF Next, Serve, Idle

LEMMA IInvInit == Init => IInv
  BY InitTyped, HolderInit DEF Init, IInv, RunsOnlyUnsaved, KeptStays, Unsaved

LEMMA IInvNext == IInv /\ [Next]_vars => IInv'
  BY NextTyped, HolderNext, UnsavedNext, KeptNext DEF IInv

(* From its second lookup to its Save, a request on an undisturbed key     *)
(* runs with nothing saved under it.                                       *)
THEOREM RunsSeeNothingSaved == Spec => []RunsOnlyUnsaved
<1>1. IInv => RunsOnlyUnsaved
  BY DEF IInv
<1> QED
  BY IInvInit, IInvNext, <1>1, PTL DEF Spec

(* A handler never starts while a response kept under its key has some of  *)
(* its TTL left, if no claim on the key ever ran out.                      *)
THEOREM NeverRunsAgain == Spec => FinishedNeverRunsAgain
<1> DEFINE Step == \A r \in Req :
          /\ pc[r] = "ready"
          /\ pc'[r] = "running"
          /\ Undisturbed(K(r))
          => \A q \in kept : K(q) = K(r) => q \in forgotten
<1>1. IInv => Step
  <2> SUFFICES ASSUME IInv, NEW r \in Req, pc[r] = "ready", Undisturbed(K(r)),
                      NEW q \in kept, K(q) = K(r), q \notin forgotten
               PROVE  FALSE
    OBVIOUS
  <2>1. responses[K(r)] = None
    BY DEF IInv, RunsOnlyUnsaved, Unsaved
  <2>2. responses[K(q)] = q
    BY DEF IInv, KeptStays
  <2> QED
    BY <2>1, <2>2, NoneAssumption DEF IInv, TypeOK
<1>2. IInv /\ [Next]_vars => [Step]_vars
  BY <1>1
<1> QED
  BY IInvInit, IInvNext, <1>2, PTL DEF Spec, FinishedNeverRunsAgain
-----------------------------------------------------------------------------
(* What the store holds was saved by a finished run of the same key, whose *)
(* own answer was the 2xx it kept.                                         *)
Finished == {"release", "done", "dead"}

KeptIsOwn ==
    /\ \A r \in Req : pc[r] = "save" => ans[r] = "Own"
    /\ \A r \in kept : pc[r] \in Finished /\ ans[r] = "Own"
    /\ \A k \in Key : responses[k] # None => responses[k] \in kept /\ K(responses[k]) = k

JInv == TypeOK /\ KeptIsOwn /\ AnswersJustified

LEMMA JInvInit == Init => JInv
<1> SUFFICES ASSUME Init PROVE KeptIsOwn /\ AnswersJustified
  BY InitTyped DEF JInv
<1>1. KeptIsOwn
  BY DEF Init, KeptIsOwn, Store!StoreInit
<1>2. AnswersJustified
  BY DEF Init, AnswersJustified
<1> QED
  BY <1>1, <1>2

LEMMA KeptIsOwnNext == TypeOK /\ KeptIsOwn /\ [Next]_vars => KeptIsOwn'
<1> SUFFICES ASSUME TypeOK, KeptIsOwn, [Next]_vars PROVE KeptIsOwn'
  OBVIOUS
<1> USE NoneAssumption
    DEF TypeOK, Store!StoreTypeOK, KeptIsOwn, Finished, Goto, Reply, NoReply, storeVars, K
<1>1. ASSUME NEW r \in Req, Refuse(r) \/ RunKeyless(r) \/ Accept(r) PROVE KeptIsOwn'
  BY <1>1 DEF Refuse, RunKeyless, Accept
<1>2. ASSUME NEW r \in Req, Lookup(r) PROVE KeptIsOwn'
  BY <1>2 DEF Lookup, Answer
<1>3. ASSUME NEW r \in Req, Recheck(r) PROVE KeptIsOwn'
  BY <1>3 DEF Recheck, Answer
<1>4. ASSUME NEW r \in Req, Claim(r) PROVE KeptIsOwn'
  BY <1>4 DEF Claim, Store!Claim
<1>5. ASSUME NEW r \in Req, Start(r) \/ Finish(r) PROVE KeptIsOwn'
  BY <1>5 DEF Start, Finish
<1>6. ASSUME NEW r \in Req, Save(r) PROVE KeptIsOwn'
  BY <1>6 DEF Save, Store!Save
<1>7. ASSUME NEW r \in Req, Release(r) PROVE KeptIsOwn'
  BY <1>7 DEF Release, Store!Release
<1>8. ASSUME NEW r \in Req, Leave(r) \/ Crash(r) PROVE KeptIsOwn'
  BY <1>8 DEF Leave, Crash
<1>9. ASSUME NEW k \in Key, Lapse(k) \/ Forget(k) PROVE KeptIsOwn'
  BY <1>9 DEF Lapse, Forget, Store!Expire
<1>10. CASE UNCHANGED vars
  BY <1>10 DEF vars
<1> QED
  BY <1>1, <1>2, <1>3, <1>4, <1>5, <1>6, <1>7, <1>8, <1>9, <1>10 DEF Next, Serve, Idle

(* A run that was kept is never answered again, and stays kept.            *)
LEMMA KeptStaysOwn ==
    ASSUME TypeOK, KeptIsOwn, [Next]_vars, NEW q \in kept
    PROVE  q \in kept' /\ ans'[q] = "Own"
<1>1. KeptIsOwn'
  BY KeptIsOwnNext
<1>2. q \in kept'
  BY DEF Next, Serve, Idle, vars, storeVars, Refuse, RunKeyless, Accept, Lookup, Recheck, Answer,
         Claim, Start, Finish, Save, Release, Leave, Crash, Lapse, Forget
<1> QED
  BY <1>1, <1>2 DEF KeptIsOwn

(* An answer changes only where a request is answered, and a Replay or a   *)
(* Reused only comes out of a lookup.                                      *)
LEMMA AnswerComesFromLookup ==
    ASSUME TypeOK, [Next]_vars, NEW r \in Req, ans'[r] \in {"Replay", "Reused"}
    PROVE  \/ ans'[r] = ans[r] /\ from'[r] = from[r]
           \/ /\ responses[K(r)] # None
              /\ ans'[r] = "Replay" =>
                    from'[r] = responses[K(r)] /\ req[from'[r]].print = req[r].print
              /\ ans'[r] = "Reused" => req[responses[K(r)]].print # req[r].print
<1> USE DEF TypeOK, Goto, Reply, NoReply
<1>1. ASSUME NEW q \in Req, Refuse(q) \/ RunKeyless(q) \/ Accept(q)
      PROVE  ans'[r] = ans[r] /\ from'[r] = from[r]
  BY <1>1 DEF Refuse, RunKeyless, Accept
<1>2. ASSUME NEW q \in Req, Lookup(q) \/ Recheck(q), q # r
      PROVE  ans'[r] = ans[r] /\ from'[r] = from[r]
  BY <1>2 DEF Lookup, Recheck, Answer
<1>3. ASSUME Lookup(r) \/ Recheck(r)
      PROVE  \/ ans'[r] = ans[r] /\ from'[r] = from[r]
             \/ /\ responses[K(r)] # None
                /\ ans'[r] = "Replay" =>
                      from'[r] = responses[K(r)] /\ req[from'[r]].print = req[r].print
                /\ ans'[r] = "Reused" => req[responses[K(r)]].print # req[r].print
  BY <1>3 DEF Lookup, Recheck, Answer
<1>4. ASSUME NEW q \in Req, Claim(q) PROVE ans'[r] = ans[r] /\ from'[r] = from[r]
  BY <1>4 DEF Claim
<1>5. ASSUME NEW q \in Req, Start(q) \/ Finish(q) PROVE ans'[r] = ans[r] /\ from'[r] = from[r]
  BY <1>5 DEF Start, Finish
<1>6. ASSUME NEW q \in Req, Save(q) \/ Release(q) PROVE ans'[r] = ans[r] /\ from'[r] = from[r]
  BY <1>6 DEF Save, Release
<1>7. ASSUME NEW q \in Req, Leave(q) \/ Crash(q) PROVE ans'[r] = ans[r] /\ from'[r] = from[r]
  BY <1>7 DEF Leave, Crash
<1>8. ASSUME NEW k \in Key, Lapse(k) \/ Forget(k) PROVE ans'[r] = ans[r] /\ from'[r] = from[r]
  BY <1>8 DEF Lapse, Forget
<1>9. ASSUME UNCHANGED vars PROVE ans'[r] = ans[r] /\ from'[r] = from[r]
  BY <1>9 DEF vars
<1> QED
  BY <1>1, <1>2, <1>3, <1>4, <1>5, <1>6, <1>7, <1>8, <1>9 DEF Next, Serve, Idle

LEMMA JInvNext == JInv /\ [Next]_vars => JInv'
<1> SUFFICES ASSUME JInv, [Next]_vars PROVE AnswersJustified'
  BY NextTyped, KeptIsOwnNext DEF JInv
<1>1. req' = req
  BY DisturbedStays
<1>2. ASSUME NEW r \in Req, ans'[r] = "Replay"
      PROVE  from'[r] \in kept' /\ ans'[from'[r]] = "Own" /\ req[from'[r]] = req[r]
  <2>1. from'[r] \in kept /\ K(from'[r]) = K(r) /\ req[from'[r]].print = req[r].print
    <3>1. CASE ans'[r] = ans[r] /\ from'[r] = from[r]
      BY <1>2, <3>1 DEF JInv, AnswersJustified, K
    <3>2. CASE /\ responses[K(r)] # None
               /\ from'[r] = responses[K(r)]
               /\ req[from'[r]].print = req[r].print
      BY <3>2 DEF JInv, KeptIsOwn, TypeOK, K
    <3> QED
      BY <1>2, <3>1, <3>2, AnswerComesFromLookup DEF JInv
  <2>2. from'[r] \in kept' /\ ans'[from'[r]] = "Own"
    BY <2>1, KeptStaysOwn DEF JInv
  <2>3. req[from'[r]] = req[r]
    <3>1. from'[r] \in Req
      BY <2>1 DEF JInv, TypeOK
    <3>2. /\ req[r] = [key |-> K(r), print |-> req[r].print]
          /\ req[from'[r]] = [key |-> K(from'[r]), print |-> req[from'[r]].print]
      BY <3>1 DEF JInv, TypeOK, K
    <3> QED
      BY <2>1, <3>2
  <2> QED
    BY <2>2, <2>3
<1>3. ASSUME NEW r \in Req, ans'[r] = "Reused"
      PROVE  \E q \in kept' : K(q) = K(r) /\ req[q].print # req[r].print
  <2>1. PICK q \in kept : K(q) = K(r) /\ req[q].print # req[r].print
    <3>1. CASE ans'[r] = ans[r] /\ from'[r] = from[r]
      BY <1>3, <3>1 DEF JInv, AnswersJustified, K
    <3>2. CASE /\ responses[K(r)] # None
               /\ req[responses[K(r)]].print # req[r].print
      BY <3>2 DEF JInv, KeptIsOwn, TypeOK, K
    <3> QED
      BY <1>3, <3>1, <3>2, AnswerComesFromLookup DEF JInv
  <2>2. q \in kept'
    BY <2>1, KeptStaysOwn DEF JInv
  <2> QED
    BY <2>1, <2>2
<1> QED
  BY <1>1, <1>2, <1>3 DEF AnswersJustified, K

(* Every replay is of a kept 2xx run of the same request, and every 422    *)
(* has another request's run behind it.                                    *)
THEOREM AnswersAreJustified == Spec => []AnswersJustified
<1>1. JInv => AnswersJustified
  BY DEF JInv
<1> QED
  BY JInvInit, JInvNext, <1>1, PTL DEF Spec
-----------------------------------------------------------------------------
(* A claim's token is a request that still holds it, that died holding it, *)
(* or whose Claim failed after the store had taken it.                     *)
ClaimsAreHeld ==
    \A r \in Req :
        claims[K(r)] = r =>
            pc[r] \in Holding \cup {"dead"} \/ (pc[r] = "done" /\ ans[r] = "Unavailable")

LEMMA ClaimsHeldNext ==
    ASSUME "store" \notin Faults, TypeOK, ClaimsAreHeld, [Next]_vars
    PROVE  ClaimsAreHeld'
<1> SUFFICES ASSUME NEW q \in Req, claims'[req'[q].key] = q
             PROVE  \/ pc'[q] \in Holding \cup {"dead"}
                    \/ pc'[q] = "done" /\ ans'[q] = "Unavailable"
  BY DEF ClaimsAreHeld, K
<1> DEFINE Good == \/ pc'[q] \in Holding \cup {"dead"}
                   \/ pc'[q] = "done" /\ ans'[q] = "Unavailable"
<1> USE NoneAssumption
    DEF TypeOK, Store!StoreTypeOK, ClaimsAreHeld, Holding, Goto, Reply, NoReply, storeVars, K
<1>1. ASSUME NEW r \in Req, Refuse(r) \/ RunKeyless(r) \/ Accept(r) PROVE Good
  BY <1>1 DEF Refuse, RunKeyless, Accept
<1>2. ASSUME NEW r \in Req, Lookup(r) PROVE Good
  BY <1>2 DEF Lookup, Answer
<1>3. ASSUME NEW r \in Req, Recheck(r) PROVE Good
  BY <1>3 DEF Recheck, Answer
<1>4. ASSUME NEW r \in Req, Claim(r) PROVE Good
  BY <1>4 DEF Claim, Store!Claim
<1>5. ASSUME NEW r \in Req, Start(r) \/ Finish(r) PROVE Good
  BY <1>5 DEF Start, Finish
<1>6. ASSUME NEW r \in Req, Save(r) PROVE Good
  BY <1>6 DEF Save, Store!Save
<1>7. ASSUME NEW r \in Req, Release(r) PROVE Good
  BY <1>7 DEF Release, DetachedCallFails, Store!Release
<1>8. ASSUME NEW r \in Req, Leave(r) \/ Crash(r) PROVE Good
  BY <1>8 DEF Leave, Crash, Active
<1>9. ASSUME NEW k \in Key, Lapse(k) \/ Forget(k) PROVE Good
  BY <1>9 DEF Lapse, Forget, Store!Expire
<1>10. CASE UNCHANGED vars
  BY <1>10 DEF vars
<1> QED
  BY <1>1, <1>2, <1>3, <1>4, <1>5, <1>6, <1>7, <1>8, <1>9, <1>10 DEF Next, Serve, Idle

(* While no store call fails, a request that was answered holds nothing    *)
(* any more: not after a panic, an abort, an error, nor for a client that  *)
(* left.                                                                   *)
THEOREM ServedFreesKey ==
    ASSUME "store" \notin Faults PROVE Spec => []KeyFreedWhenServed
<1>1. Init => ClaimsAreHeld
  BY NoneAssumption DEF Init, ClaimsAreHeld, K, Store!StoreInit
<1>2. TypeOK /\ ClaimsAreHeld /\ [Next]_vars => (TypeOK /\ ClaimsAreHeld)'
  BY NextTyped, ClaimsHeldNext
<1>3. ClaimsAreHeld => KeyFreedWhenServed
  BY DEF ClaimsAreHeld, KeyFreedWhenServed, Holding
<1> QED
  BY InitTyped, <1>1, <1>2, <1>3, PTL DEF Spec

-----------------------------------------------------------------------------
(* KeyStep implements OncePerKey.                                          *)
(*                                                                         *)
(* A request is answered once.                                             *)
Unanswered == {"new", "lookup", "claim", "recheck", "ready", "running"}

AnswersOnce == \A r \in Req : pc[r] \in Unanswered => ans[r] = "none"

LEMMA AnswersOnceNext == TypeOK /\ AnswersOnce /\ [Next]_vars => AnswersOnce'
<1> SUFFICES ASSUME TypeOK, AnswersOnce, [Next]_vars PROVE AnswersOnce'
  OBVIOUS
<1> USE DEF TypeOK, AnswersOnce, Unanswered, Goto, Reply, NoReply
<1>1. ASSUME NEW r \in Req, Refuse(r) \/ RunKeyless(r) \/ Accept(r) PROVE AnswersOnce'
  BY <1>1 DEF Refuse, RunKeyless, Accept
<1>2. ASSUME NEW r \in Req, Lookup(r) PROVE AnswersOnce'
  BY <1>2 DEF Lookup, Answer
<1>3. ASSUME NEW r \in Req, Recheck(r) PROVE AnswersOnce'
  BY <1>3 DEF Recheck, Answer
<1>4. ASSUME NEW r \in Req, Claim(r) PROVE AnswersOnce'
  BY <1>4 DEF Claim
<1>5. ASSUME NEW r \in Req, Start(r) \/ Finish(r) PROVE AnswersOnce'
  BY <1>5 DEF Start, Finish
<1>6. ASSUME NEW r \in Req, Save(r) \/ Release(r) PROVE AnswersOnce'
  BY <1>6 DEF Save, Release
<1>7. ASSUME NEW r \in Req, Leave(r) \/ Crash(r) PROVE AnswersOnce'
  BY <1>7 DEF Leave, Crash
<1>8. ASSUME NEW k \in Key, Lapse(k) \/ Forget(k) PROVE AnswersOnce'
  BY <1>8 DEF Lapse, Forget
<1>9. CASE UNCHANGED vars
  BY <1>9 DEF vars
<1> QED
  BY <1>1, <1>2, <1>3, <1>4, <1>5, <1>6, <1>7, <1>8, <1>9 DEF Next, Serve, Idle

PInv == IInv /\ KeptIsOwn /\ AnswersOnce

LEMMA PInvInit == Init => PInv
  BY IInvInit, JInvInit DEF PInv, JInv, Init, AnswersOnce

LEMMA PInvNext == PInv /\ [Next]_vars => PInv'
  BY IInvNext, KeptIsOwnNext, AnswersOnceNext DEF PInv, IInv

(* What the promise sees of KeyStep, point by point.                       *)
RunningOf(k) == IF Undisturbed(k) THEN Running(k) ELSE {}
ResultOf(k) == IF Undisturbed(k) THEN responses[k] ELSE None
ReplayOf(r) == IF ans[r] = "Replay" /\ Undisturbed(K(r)) THEN from[r] ELSE None

SameRuns == \A r \in Req : pc'[r] \in {"running", "save"} <=> pc[r] \in {"running", "save"}
SameReplays ==
    \A r \in Req :
        /\ ans'[r] = "Replay" <=> ans[r] = "Replay"
        /\ ans[r] = "Replay" => from'[r] = from[r]

(* While no claim runs out, what the promise sees follows the handlers     *)
(* that run, the responses kept and the replays given.                     *)
LEMMA SeenUndisturbed ==
    ASSUME TypeOK, req' = req, lapsed' = lapsed
    PROVE  /\ \A r \in Req : K(r)' = K(r)
           /\ \A k \in Key : Undisturbed(k)' <=> Undisturbed(k)
           /\ SameRuns => \A k \in Key : RunningOf(k)' = RunningOf(k)
           /\ responses' = responses => \A k \in Key : ResultOf(k)' = ResultOf(k)
           /\ SameReplays => \A r \in Req : ReplayOf(r)' = ReplayOf(r)
<1>1. \A r \in Req : K(r)' = K(r)
  BY DEF K
<1>2. \A k \in Key : Undisturbed(k)' <=> Undisturbed(k)
  BY DEF Undisturbed, K
<1>3. ASSUME SameRuns, NEW k \in Key PROVE RunningOf(k)' = RunningOf(k)
  <2>1. Running(k)' = Running(k)
    BY <1>3 DEF Running, SameRuns, K
  <2> QED
    BY <1>2, <2>1 DEF RunningOf
<1>4. ASSUME responses' = responses, NEW k \in Key PROVE ResultOf(k)' = ResultOf(k)
  BY <1>2, <1>4 DEF ResultOf
<1>5. ASSUME SameReplays, NEW r \in Req PROVE ReplayOf(r)' = ReplayOf(r)
  <2>1. K(r) \in Key
    BY DEF TypeOK, K
  <2> QED
    BY <1>1, <1>2, <1>5, <2>1 DEF ReplayOf, SameReplays
<1> QED
  BY <1>1, <1>2, <1>3, <1>4, <1>5

(* A step that changes none of these is no step of the promise.            *)
LEMMA Stutters ==
    ASSUME TypeOK, req' = req, lapsed' = lapsed, SameRuns, responses' = responses, SameReplays
    PROVE  UNCHANGED Promise!vars
<1>1. /\ \A r \in Req : K(r)' = K(r) /\ ReplayOf(r)' = ReplayOf(r)
      /\ \A k \in Key : /\ Undisturbed(k)' <=> Undisturbed(k)
                        /\ RunningOf(k)' = RunningOf(k)
                        /\ ResultOf(k)' = ResultOf(k)
  BY SeenUndisturbed
<1>2. [r \in Req |-> K(r)]' = [r \in Req |-> K(r)]
  BY <1>1
<1>3. [r \in Req |-> req[r].print]' = [r \in Req |-> req[r].print]
  OBVIOUS
<1>4. [k \in Key |-> RunningOf(k)]' = [k \in Key |-> RunningOf(k)]
  BY <1>1
<1>5. [k \in Key |-> ResultOf(k)]' = [k \in Key |-> ResultOf(k)]
  BY <1>1
<1>6. [r \in Req |-> ReplayOf(r)]' = [r \in Req |-> ReplayOf(r)]
  BY <1>1
<1>7. {k \in Key : ~Undisturbed(k)}' = {k \in Key : ~Undisturbed(k)}
  BY <1>1
<1> QED
  BY <1>2, <1>3, <1>4, <1>5, <1>6, <1>7 DEF Promise!vars, RunningOf, ResultOf, ReplayOf

(* A handler under an undisturbed key runs alone.                          *)
LEMMA RunsAlone ==
    ASSUME PInv, NEW r \in Req, pc[r] \in Holding, Undisturbed(K(r)), NEW q \in Running(K(r))
    PROVE  q = r
<1> SUFFICES ASSUME q # r PROVE FALSE
  OBVIOUS
<1>1. q \in Req /\ K(q) = K(r) /\ pc[q] \in Holding
  BY DEF Running, Holding
<1>2. q \in lapsed \/ r \in lapsed
  BY <1>1, HoldersDiffer DEF PInv, IInv
<1> QED
  BY <1>1, <1>2 DEF Undisturbed

(* The handler of r starts: under an undisturbed key, with nothing running *)
(* and nothing kept.                                                       *)
LEMMA StartBegins ==
    ASSUME PInv, NEW r \in Req, Start(r)
    PROVE  Promise!Begin(r) \/ UNCHANGED Promise!vars
<1>1. /\ TypeOK /\ req' = req /\ lapsed' = lapsed /\ responses' = responses /\ SameReplays
      /\ K(r) \in Key /\ pc[r] = "ready" /\ pc' = [pc EXCEPT ![r] = "running"]
  BY DEF PInv, IInv, TypeOK, Start, Goto, NoReply, storeVars, SameReplays, K
<1>2. /\ \A q \in Req : K(q)' = K(q) /\ ReplayOf(q)' = ReplayOf(q)
      /\ \A k \in Key : (Undisturbed(k)' <=> Undisturbed(k)) /\ ResultOf(k)' = ResultOf(k)
  BY <1>1, SeenUndisturbed
<1>3. \A k \in Key : Running(k)' = IF k = K(r) THEN Running(k) \cup {r} ELSE Running(k)
  BY <1>1, <1>2 DEF Running, TypeOK
<1>4. CASE Undisturbed(K(r))
  <2>1. Running(K(r)) = {}
    BY <1>1, <1>4, RunsAlone DEF Running, Holding
  <2>2. ResultOf(K(r)) = None
    BY <1>1, <1>4 DEF PInv, IInv, RunsOnlyUnsaved, Unsaved, ResultOf
  <2>3. \A k \in Key : RunningOf(k)' = IF k = K(r) THEN {r} ELSE RunningOf(k)
    BY <1>2, <1>3, <1>4, <2>1 DEF RunningOf
  <2>4. [k \in Key |-> RunningOf(k)]' = [[k \in Key |-> RunningOf(k)] EXCEPT ![K(r)] = {r}]
    BY <2>3
  <2> QED
    BY <1>1, <1>2, <1>4, <2>1, <2>2, <2>4
    DEF Promise!Begin, RunningOf, ResultOf, ReplayOf
<1>5. CASE ~Undisturbed(K(r))
  <2>1. \A k \in Key : RunningOf(k)' = RunningOf(k)
    BY <1>2, <1>3, <1>5 DEF RunningOf
  <2> QED
    BY <1>1, <1>2, <2>1 DEF Promise!vars, RunningOf, ResultOf, ReplayOf
<1> QED
  BY <1>4, <1>5

(* What the promise sees of the runs when the handler of r is over.        *)
LEMMA RunEnds ==
    ASSUME PInv, req' = req, lapsed' = lapsed, NEW r \in Req, pc[r] \in {"running", "save"},
           NEW there, there \notin {"running", "save"}, Goto(r, there)
    PROVE  /\ \A k \in Key : RunningOf(k)' = IF k = K(r) THEN {} ELSE RunningOf(k)
           /\ Undisturbed(K(r)) => r \in RunningOf(K(r))
<1>1. TypeOK /\ pc' = [pc EXCEPT ![r] = there] /\ K(r) \in Key
  BY DEF PInv, IInv, TypeOK, Goto, K
<1>2. (\A q \in Req : K(q)' = K(q)) /\ (\A k \in Key : Undisturbed(k)' <=> Undisturbed(k))
  BY <1>1, SeenUndisturbed
<1>3. \A k \in Key : Running(k)' = Running(k) \ {r}
  BY <1>1, <1>2 DEF Running, TypeOK
<1>4. r \in Running(K(r)) /\ \A k \in Key : k # K(r) => r \notin Running(k)
  BY DEF Running
<1>5. Undisturbed(K(r)) => \A q \in Running(K(r)) : q = r
  BY RunsAlone DEF Holding
<1> QED
  BY <1>1, <1>2, <1>3, <1>4, <1>5 DEF RunningOf

(* The handler of r ends and nothing is kept.                              *)
LEMMA GivesUp ==
    ASSUME PInv, req' = req, lapsed' = lapsed, responses' = responses, SameReplays,
           NEW r \in Req, pc[r] \in {"running", "save"},
           NEW there, there \notin {"running", "save"}, Goto(r, there)
    PROVE  Promise!GiveUp(r) \/ UNCHANGED Promise!vars
<1>1. TypeOK /\ K(r) \in Key
  BY DEF PInv, IInv, TypeOK, K
<1>2. /\ \A q \in Req : K(q)' = K(q) /\ ReplayOf(q)' = ReplayOf(q)
      /\ \A k \in Key : (Undisturbed(k)' <=> Undisturbed(k)) /\ ResultOf(k)' = ResultOf(k)
  BY <1>1, SeenUndisturbed
<1>3. /\ \A k \in Key : RunningOf(k)' = IF k = K(r) THEN {} ELSE RunningOf(k)
      /\ Undisturbed(K(r)) => r \in RunningOf(K(r))
  BY RunEnds
<1>4. CASE Undisturbed(K(r))
  <2>1. [k \in Key |-> RunningOf(k)]' = [[k \in Key |-> RunningOf(k)] EXCEPT ![K(r)] = {}]
    BY <1>3
  <2> QED
    BY <1>1, <1>2, <1>3, <1>4, <2>1 DEF Promise!GiveUp, RunningOf, ResultOf, ReplayOf
<1>5. CASE ~Undisturbed(K(r))
  <2>1. \A k \in Key : RunningOf(k)' = RunningOf(k)
    BY <1>1, <1>3, <1>5 DEF RunningOf
  <2> QED
    BY <1>1, <1>2, <2>1 DEF Promise!vars, RunningOf, ResultOf, ReplayOf
<1> QED
  BY <1>4, <1>5

(* The store takes the response of r: the run is complete.                 *)
LEMMA SaveCompletes ==
    ASSUME PInv, NEW r \in Req, pc[r] = "save", Goto(r, "release"), Store!Save(K(r), r),
           NoReply, UNCHANGED <<req, left>>
    PROVE  Promise!Complete(r) \/ UNCHANGED Promise!vars
<1>1. /\ TypeOK /\ K(r) \in Key /\ lapsed' = lapsed /\ SameReplays
      /\ responses' = [responses EXCEPT ![K(r)] = r]
  BY DEF PInv, IInv, TypeOK, K, Store!Save, SameReplays, NoReply
<1>2. /\ \A q \in Req : K(q)' = K(q) /\ ReplayOf(q)' = ReplayOf(q)
      /\ \A k \in Key : Undisturbed(k)' <=> Undisturbed(k)
  BY <1>1, SeenUndisturbed
<1>3. /\ \A k \in Key : RunningOf(k)' = IF k = K(r) THEN {} ELSE RunningOf(k)
      /\ Undisturbed(K(r)) => r \in RunningOf(K(r))
  BY <1>1, RunEnds
<1>4. \A k \in Key :
        ResultOf(k)' = IF k = K(r) /\ Undisturbed(k) THEN r ELSE ResultOf(k)
  BY <1>1, <1>2 DEF ResultOf, TypeOK, Store!StoreTypeOK
<1>5. CASE Undisturbed(K(r))
  <2>1. [k \in Key |-> RunningOf(k)]' = [[k \in Key |-> RunningOf(k)] EXCEPT ![K(r)] = {}]
    BY <1>3
  <2>2. [k \in Key |-> ResultOf(k)]' = [[k \in Key |-> ResultOf(k)] EXCEPT ![K(r)] = r]
    BY <1>4, <1>5
  <2> QED
    BY <1>1, <1>2, <1>3, <1>5, <2>1, <2>2 DEF Promise!Complete, RunningOf, ResultOf, ReplayOf
<1>6. CASE ~Undisturbed(K(r))
  <2>1. \A k \in Key : RunningOf(k)' = RunningOf(k) /\ ResultOf(k)' = ResultOf(k)
    BY <1>1, <1>3, <1>4, <1>6 DEF RunningOf
  <2> QED
    BY <1>1, <1>2, <2>1 DEF Promise!vars, RunningOf, ResultOf, ReplayOf
<1> QED
  BY <1>5, <1>6

(* A lookup that finds the response of the same request replays it.        *)
LEMMA AnswerReplays ==
    ASSUME PInv, NEW r \in Req, pc[r] \in {"lookup", "recheck"},
           NEW a \in {"done", "release"}, NEW u \in {"claim", "ready"}, Answer(r, a, u)
    PROVE  Promise!Replay(r) \/ UNCHANGED Promise!vars
<1>1. /\ TypeOK /\ req' = req /\ lapsed' = lapsed /\ responses' = responses /\ SameRuns
      /\ K(r) \in Key /\ ans[r] = "none"
  BY DEF PInv, IInv, TypeOK, AnswersOnce, Unanswered, Answer, Goto, storeVars, SameRuns, K
<1>2. /\ \A q \in Req : K(q)' = K(q)
      /\ \A k \in Key : /\ Undisturbed(k)' <=> Undisturbed(k)
                        /\ RunningOf(k)' = RunningOf(k)
                        /\ ResultOf(k)' = ResultOf(k)
  BY <1>1, SeenUndisturbed
<1>3. \/ SameReplays
      \/ /\ responses[K(r)] # None
         /\ req[responses[K(r)]].print = req[r].print
         /\ Reply(r, "Replay", responses[K(r)])
  BY <1>1 DEF Answer, Reply, NoReply, SameReplays, TypeOK
<1>4. CASE SameReplays
  BY <1>1, <1>4, Stutters
<1>5. CASE /\ responses[K(r)] # None
           /\ req[responses[K(r)]].print = req[r].print
           /\ Reply(r, "Replay", responses[K(r)])
  <2>1. \A q \in Req :
          ReplayOf(q)' = IF q = r /\ Undisturbed(K(r)) THEN responses[K(r)] ELSE ReplayOf(q)
    <3> TAKE q \in Req
    <3>1. K(q) \in Key /\ K(q)' = K(q) /\ (Undisturbed(K(q))' <=> Undisturbed(K(q)))
      <4>1. K(q) \in Key
        BY <1>1 DEF TypeOK, K
      <4> QED
        BY <1>2, <4>1
    <3>2. CASE q = r
      BY <1>1, <1>5, <3>1, <3>2 DEF ReplayOf, Reply, TypeOK
    <3>3. CASE q # r
      BY <1>1, <1>5, <3>1, <3>3 DEF ReplayOf, Reply, TypeOK
    <3> QED
      BY <3>2, <3>3
  <2>2. CASE Undisturbed(K(r))
    <3>1. ResultOf(K(r)) = responses[K(r)] /\ responses[K(r)] \in Req /\ ReplayOf(r) = None
      BY <1>1, <1>5, <2>2 DEF ResultOf, ReplayOf, TypeOK, Store!StoreTypeOK
    <3>2. [q \in Req |-> ReplayOf(q)]' =
            [[q \in Req |-> ReplayOf(q)] EXCEPT ![r] = responses[K(r)]]
      BY <2>1, <2>2
    <3> QED
      BY <1>1, <1>2, <1>5, <3>1, <3>2 DEF Promise!Replay, RunningOf, ResultOf, ReplayOf
  <2>3. CASE ~Undisturbed(K(r))
    BY <1>1, <1>2, <2>1, <2>3 DEF Promise!vars, RunningOf, ResultOf, ReplayOf
  <2> QED
    BY <2>2, <2>3
<1> QED
  BY <1>3, <1>4, <1>5

(* A response that reaches the end of its TTL leaves its own key only.     *)
LEMMA ForgetForgets ==
    ASSUME PInv, NEW k \in Key, Forget(k)
    PROVE  Promise!Forget(k) \/ UNCHANGED Promise!vars
<1>1. /\ TypeOK /\ req' = req /\ lapsed' = lapsed /\ SameRuns /\ SameReplays
      /\ responses[k] # None
  BY DEF PInv, IInv, Forget, Store!Expire, SameRuns, SameReplays
<1>2. responses' = [responses EXCEPT ![k] = None]
  <2>1. \A j \in Key : responses[j] = responses[k] => j = k
    BY <1>1 DEF PInv, KeptIsOwn
  <2> QED
    BY <1>1, <2>1 DEF Forget, Store!Expire, TypeOK, Store!StoreTypeOK
<1>3. /\ \A q \in Req : K(q)' = K(q) /\ ReplayOf(q)' = ReplayOf(q)
      /\ \A j \in Key : (Undisturbed(j)' <=> Undisturbed(j)) /\ RunningOf(j)' = RunningOf(j)
  BY <1>1, SeenUndisturbed
<1>4. \A j \in Key : ResultOf(j)' = IF j = k THEN None ELSE ResultOf(j)
  BY <1>1, <1>2, <1>3 DEF ResultOf, TypeOK, Store!StoreTypeOK
<1>5. CASE Undisturbed(k)
  <2>1. [j \in Key |-> ResultOf(j)]' = [[j \in Key |-> ResultOf(j)] EXCEPT ![k] = None]
    BY <1>4
  <2> QED
    BY <1>1, <1>3, <1>5, <2>1 DEF Promise!Forget, RunningOf, ResultOf, ReplayOf
<1>6. CASE ~Undisturbed(k)
  <2>1. \A j \in Key : ResultOf(j)' = ResultOf(j)
    BY <1>4, <1>6 DEF ResultOf
  <2> QED
    BY <1>1, <1>3, <2>1 DEF Promise!vars, RunningOf, ResultOf, ReplayOf
<1> QED
  BY <1>5, <1>6

(* The claim of a request runs out: its key's promise is void.             *)
LEMMA LapseVoids ==
    ASSUME PInv, NEW k \in Key, Lapse(k)
    PROVE  (\E j \in Key : Promise!Void(j)) \/ UNCHANGED Promise!vars
<1> DEFINE c == claims[k]
<1>1. /\ TypeOK /\ c \in Req /\ K(c) \in Key /\ lapsed' = lapsed \cup {c}
      /\ UNCHANGED <<req, pc, ans, from, responses>>
  <2>1. TypeOK /\ c \in Req
    BY DEF PInv, IInv, TypeOK, Store!StoreTypeOK, Lapse
  <2>2. K(c) \in Key
    BY <2>1 DEF TypeOK, K
  <2>3. responses' = responses
    BY NoneAssumption DEF PInv, IInv, TypeOK, Store!StoreTypeOK, Lapse, Store!Expire
  <2> QED
    BY <2>1, <2>2, <2>3 DEF Lapse, Store!Expire
<1> HIDE DEF c
<1>2. \A j \in Key : Undisturbed(j)' <=> (Undisturbed(j) /\ j # K(c))
  BY <1>1 DEF Undisturbed, K
<1>3. \A q \in Req : K(q)' = K(q) /\ K(q) \in Key
  BY <1>1 DEF TypeOK, K
<1>4. \A j \in Key : Running(j)' = Running(j)
  BY <1>1, <1>3 DEF Running
<1>5. /\ \A j \in Key : RunningOf(j)' = IF j = K(c) THEN {} ELSE RunningOf(j)
      /\ \A j \in Key : ResultOf(j)' = IF j = K(c) THEN None ELSE ResultOf(j)
      /\ \A q \in Req : ReplayOf(q)' = IF K(q) = K(c) THEN None ELSE ReplayOf(q)
  <2>1. \A j \in Key : RunningOf(j)' = IF j = K(c) THEN {} ELSE RunningOf(j)
    BY <1>2, <1>4 DEF RunningOf
  <2>2. \A j \in Key : ResultOf(j)' = IF j = K(c) THEN None ELSE ResultOf(j)
    BY <1>1, <1>2 DEF ResultOf
  <2>3. \A q \in Req : ReplayOf(q)' = IF K(q) = K(c) THEN None ELSE ReplayOf(q)
    BY <1>1, <1>2, <1>3 DEF ReplayOf
  <2> QED
    BY <2>1, <2>2, <2>3
<1>6. CASE Undisturbed(K(c))
  <2>1. [j \in Key |-> RunningOf(j)]' = [[j \in Key |-> RunningOf(j)] EXCEPT ![K(c)] = {}]
    BY <1>5
  <2>2. [j \in Key |-> ResultOf(j)]' = [[j \in Key |-> ResultOf(j)] EXCEPT ![K(c)] = None]
    BY <1>5
  <2>3. [q \in Req |-> ReplayOf(q)]' =
          [q \in Req |-> IF K(q) = K(c) THEN None ELSE ReplayOf(q)]
    BY <1>5
  <2>4. {j \in Key : ~Undisturbed(j)}' = {j \in Key : ~Undisturbed(j)} \cup {K(c)}
    BY <1>1, <1>2
  <2>5. [q \in Req |-> K(q)]' = [q \in Req |-> K(q)]
    BY <1>3
  <2>6. [q \in Req |-> req[q].print]' = [q \in Req |-> req[q].print]
    BY <1>1
  <2>7. Promise!Void(K(c))
    BY <1>1, <1>6, <2>1, <2>2, <2>3, <2>4, <2>5, <2>6
    DEF Promise!Void, RunningOf, ResultOf, ReplayOf
  <2> QED
    BY <1>1, <2>7 DEF Promise!Void
<1>7. CASE ~Undisturbed(K(c))
  <2>1. /\ \A j \in Key : (Undisturbed(j)' <=> Undisturbed(j)) /\ RunningOf(j)' = RunningOf(j)
                          /\ ResultOf(j)' = ResultOf(j)
        /\ \A q \in Req : ReplayOf(q)' = ReplayOf(q)
    BY <1>1, <1>2, <1>5, <1>7 DEF RunningOf, ResultOf, ReplayOf
  <2> QED
    BY <1>1, <1>3, <2>1 DEF Promise!vars, RunningOf, ResultOf, ReplayOf
<1> QED
  BY <1>6, <1>7

(* Every step of KeyStep is one of the promise's, or none.                 *)
LEMMA StepKeepsPromise == PInv /\ [Next]_vars => [Promise!Next]_(Promise!vars)
<1> SUFFICES ASSUME PInv, [Next]_vars PROVE Promise!Next \/ UNCHANGED Promise!vars
  OBVIOUS
<1>0. TypeOK /\ AnswersOnce
  BY DEF PInv, IInv
<1> USE <1>0
<1>1. ASSUME NEW r \in Req, Refuse(r) \/ RunKeyless(r) \/ Accept(r)
      PROVE  UNCHANGED Promise!vars
  <2>1. SameRuns /\ SameReplays /\ UNCHANGED <<req, responses, lapsed>>
    BY <1>1 DEF Refuse, RunKeyless, Accept, Reply, NoReply, Goto, storeVars, TypeOK,
                AnswersOnce, Unanswered, SameRuns, SameReplays
  <2> QED
    BY <2>1, Stutters
<1>2. ASSUME NEW r \in Req, Lookup(r) \/ Recheck(r)
      PROVE  Promise!Replay(r) \/ UNCHANGED Promise!vars
  <2>1. CASE Lookup(r)
    BY <2>1, AnswerReplays DEF Lookup
  <2>2. CASE Recheck(r)
    BY <2>2, AnswerReplays DEF Recheck
  <2> QED
    BY <1>2, <2>1, <2>2
<1>3. ASSUME NEW r \in Req, Claim(r) PROVE UNCHANGED Promise!vars
  <2>1. SameRuns /\ SameReplays /\ UNCHANGED <<req, responses, lapsed>>
    BY <1>3 DEF Claim, Store!Claim, Reply, NoReply, Goto, storeVars, TypeOK,
                AnswersOnce, Unanswered, SameRuns, SameReplays
  <2> QED
    BY <2>1, Stutters
<1>4. ASSUME NEW r \in Req, Start(r) PROVE Promise!Begin(r) \/ UNCHANGED Promise!vars
  BY <1>4, StartBegins
<1>5. ASSUME NEW r \in Req, Finish(r) PROVE Promise!GiveUp(r) \/ UNCHANGED Promise!vars
  <2>1. SameReplays /\ UNCHANGED <<req, responses, lapsed>>
    BY <1>5 DEF Finish, Reply, NoReply, Goto, storeVars, TypeOK, AnswersOnce, Unanswered,
                SameReplays
  <2>2. CASE Goto(r, "save")
    <3>1. SameRuns
      BY <1>5, <2>2 DEF Finish, Goto, TypeOK, SameRuns
    <3> QED
      BY <2>1, <3>1, Stutters
  <2>3. CASE Goto(r, "release")
    <3>1. pc[r] \in {"running", "save"}
      BY <1>5 DEF Finish
    <3> QED
      BY <2>1, <2>3, <3>1, GivesUp
  <2> QED
    BY <1>5, <2>2, <2>3 DEF Finish
<1>6. ASSUME NEW r \in Req, Save(r)
      PROVE  Promise!Complete(r) \/ Promise!GiveUp(r) \/ UNCHANGED Promise!vars
  <2>1. CASE Store!Save(K(r), r)
    BY <1>6, <2>1, SaveCompletes DEF Save
  <2>2. CASE UNCHANGED <<kept, storeVars>>
    <3>1. SameReplays /\ UNCHANGED <<req, responses, lapsed>> /\ pc[r] \in {"running", "save"}
      BY <1>6, <2>2 DEF Save, NoReply, storeVars, SameReplays
    <3> QED
      BY <1>6, <3>1, GivesUp DEF Save
  <2> QED
    BY <1>6, <2>1, <2>2 DEF Save
<1>7. ASSUME NEW r \in Req, Release(r) PROVE UNCHANGED Promise!vars
  <2>1. SameRuns /\ SameReplays /\ UNCHANGED <<req, responses, lapsed>>
    BY <1>7 DEF Release, Store!Release, Reply, NoReply, Goto, storeVars, TypeOK,
                SameRuns, SameReplays
  <2> QED
    BY <2>1, Stutters
<1>8. ASSUME NEW r \in Req, Leave(r) PROVE UNCHANGED Promise!vars
  <2>1. SameRuns /\ SameReplays /\ UNCHANGED <<req, responses, lapsed>>
    BY <1>8 DEF Leave, storeVars, SameRuns, SameReplays
  <2> QED
    BY <2>1, Stutters
<1>9. ASSUME NEW r \in Req, Crash(r) PROVE Promise!GiveUp(r) \/ UNCHANGED Promise!vars
  <2>1. SameReplays /\ UNCHANGED <<req, responses, lapsed>> /\ Goto(r, "dead")
    BY <1>9 DEF Crash, storeVars, SameReplays
  <2>2. CASE pc[r] \in {"running", "save"}
    BY <2>1, <2>2, GivesUp
  <2>3. CASE pc[r] \notin {"running", "save"}
    <3>1. SameRuns
      BY <2>1, <2>3 DEF Goto, TypeOK, SameRuns
    <3> QED
      BY <2>1, <3>1, Stutters
  <2> QED
    BY <2>2, <2>3
<1>10. ASSUME NEW k \in Key, Lapse(k)
       PROVE  (\E j \in Key : Promise!Void(j)) \/ UNCHANGED Promise!vars
  BY <1>10, LapseVoids
<1>11. ASSUME NEW k \in Key, Forget(k) PROVE Promise!Forget(k) \/ UNCHANGED Promise!vars
  BY <1>11, ForgetForgets
<1>12. CASE UNCHANGED vars
  <2>1. SameRuns /\ SameReplays /\ UNCHANGED <<req, responses, lapsed>>
    BY <1>12 DEF vars, storeVars, SameRuns, SameReplays
  <2> QED
    BY <2>1, Stutters
<1> QED
  BY <1>1, <1>2, <1>3, <1>4, <1>5, <1>6, <1>7, <1>8, <1>9, <1>10, <1>11, <1>12
  DEF Next, Serve, Idle, Promise!Next

LEMMA InitKeepsPromise == Init => Promise!Init
<1> SUFFICES ASSUME Init PROVE Promise!Init
  OBVIOUS
<1>1. \A k \in Key : Undisturbed(k) /\ Running(k) = {} /\ responses[k] = None
  BY DEF Init, Undisturbed, Running, Store!StoreInit
<1>2. \A r \in Req : ans[r] # "Replay"
  BY DEF Init
<1> QED
  BY <1>1, <1>2 DEF Promise!Init

(* A client's promise is kept, for any number of requests and keys and     *)
(* whatever fails: one run at a time for a key, none once a response is    *)
(* kept, and every replay the response kept last, until a claim runs out.  *)
THEOREM Implements == Spec => ImplementsOncePerKey
  BY PInvInit, PInvNext, InitKeepsPromise, StepKeepsPromise, PTL
  DEF Spec, ImplementsOncePerKey, Promise!Spec
=============================================================================
