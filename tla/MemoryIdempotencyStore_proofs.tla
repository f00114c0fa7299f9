-------------------- MODULE MemoryIdempotencyStore_proofs --------------------
(***************************************************************************)
(* Proofs about the in-memory store, for any calls, keys and TTLs.  A      *)
(* sweep uses the clock reading its call was made with; the invariant that *)
(* no such reading is ahead of the clock (ReadingsPast) is why a late      *)
(* sweep cannot drop a claim still in force, nor a response, and so why    *)
(* every step is one of the contract's, or none.                           *)
(***************************************************************************)
EXTENDS MemoryIdempotencyStore, TLAPS

(* A call in flight or over has a key, and read the clock in the past; one *)
(* that is not over has returned nothing.                                  *)
ReadingsPast ==
    \A c \in Call :
        /\ pc[c] # "idle" => call[c].key \in Key /\ call[c].now <= clock
        /\ pc[c] # "done" => res[c] = None

IInv == TypeOK /\ ReadingsPast /\ HeldUntilReleasedOrExpired

-----------------------------------------------------------------------------
LEMMA InitIInv == Init => IInv
  BY NoneAssumption
  DEF Init, IInv, TypeOK, ReadingsPast, HeldUntilReleasedOrExpired, Issued, NoEntry, NoCall, CallType

(* A sweep returns entries of the map it sweeps, or none.                  *)
LEMMA SweptTyped ==
    ASSUME NEW m \in [Key -> Entry \cup {NoEntry}], NEW now \in Nat
    PROVE  DropExpired(m, now) \in [Key -> Entry \cup {NoEntry}]
  BY DEF DropExpired

(* A sweep by a reading that is not ahead keeps an entry in force.         *)
LEMMA SweepKeepsRunning ==
    ASSUME NEW m \in [Key -> Entry \cup {NoEntry}], NEW now \in Nat, NEW k \in Key,
           m[k] \in Entry, now < m[k].expires
    PROVE  DropExpired(m, now)[k] = m[k]
  BY NoneAssumption DEF DropExpired, Running, Entry

(* Only entries of calls run out.                                          *)
LEMMA RunOutTyped ==
    ASSUME NEW m \in [Key -> Entry \cup {NoEntry}]
    PROVE  RunOut(m) \subseteq Call
<1>1. ASSUME NEW k \in Key, Running(m[k], clock) PROVE m[k].id \in Call
  <2>1. m[k] \in Entry \/ m[k] = NoEntry
    OBVIOUS
  <2>2. m[k] # NoEntry
    BY <1>1 DEF Running, NoEntry
  <2> QED
    BY <2>1, <2>2 DEF Entry
<1> QED
  <2> DEFINE ending == {j \in Key : Running(m[j], clock) /\ ~Running(m[j], clock + 1)}
  <2>1. \A k \in ending : m[k].id \in Call
    BY <1>1
  <2>2. RunOut(m) = {m[k].id : k \in ending}
    BY DEF RunOut
  <2> HIDE DEF ending
  <2> QED
    BY <2>1, <2>2

LEMMA NextTyped == TypeOK /\ ReadingsPast /\ [Next]_vars => (TypeOK /\ ReadingsPast)'
<1> SUFFICES ASSUME TypeOK, ReadingsPast, [Next]_vars PROVE (TypeOK /\ ReadingsPast)'
  OBVIOUS
<1> USE TTLAssumption, NoneAssumption DEF TypeOK, ReadingsPast, maps
<1>1. ASSUME Tick PROVE (TypeOK /\ ReadingsPast)'
  <2>1. RunOut(claims) \subseteq Call /\ RunOut(saved) \subseteq Call
    BY RunOutTyped
  <2>2. \A c \in Call : call[c].now \in Nat
    BY DEF CallType
  <2> QED
    BY <1>1, <2>1, <2>2 DEF Tick
<1>2. ASSUME NEW c \in Call, Invoke(c) PROVE (TypeOK /\ ReadingsPast)'
  <2>1. PICK op \in {"Lookup", "Claim", "Save", "Release"}, k \in Key, t \in Call \cup {None} :
            Make(c, op, k, t)
    BY <1>2 DEF Invoke, Issued
  <2> QED
    BY <2>1 DEF Make, CallType
<1>3. ASSUME NEW c \in Call, Lookup(c) PROVE (TypeOK /\ ReadingsPast)'
  <2>1. InForce(saved)[call[c].key] \in Call \cup {None}
    BY <1>3 DEF Lookup, Waiting, InForce, Entry, NoEntry
  <2> QED
    BY <1>3, <2>1 DEF Lookup, Waiting, Return
<1>4. ASSUME NEW c \in Call, Claim(c) PROVE (TypeOK /\ ReadingsPast)'
  <2>1. call[c].key \in Key /\ call[c].now \in Nat
    BY <1>4 DEF Claim, Waiting, CallType
  <2>2. /\ DropExpired(claims, call[c].now) \in [Key -> Entry \cup {NoEntry}]
        /\ DropExpired(saved, call[c].now) \in [Key -> Entry \cup {NoEntry}]
    BY <2>1, SweptTyped
  <2>3. [id |-> c, expires |-> call[c].now + InFlightTTL] \in Entry
    BY <2>1 DEF Entry
  <2> QED
    BY <1>4, <2>1, <2>2, <2>3 DEF Claim, Waiting, Return
<1>5. ASSUME NEW c \in Call, Save(c) PROVE (TypeOK /\ ReadingsPast)'
  <2>1. call[c].key \in Key /\ call[c].now \in Nat
    BY <1>5 DEF Save, Waiting, CallType
  <2>2. /\ DropExpired(claims, call[c].now) \in [Key -> Entry \cup {NoEntry}]
        /\ DropExpired(saved, call[c].now) \in [Key -> Entry \cup {NoEntry}]
    BY <2>1, SweptTyped
  <2>3. [id |-> c, expires |-> call[c].now + TTL] \in Entry
    BY <2>1 DEF Entry
  <2> QED
    BY <1>5, <2>1, <2>2, <2>3 DEF Save, Waiting, Return
<1>6. ASSUME NEW c \in Call, Release(c) PROVE (TypeOK /\ ReadingsPast)'
  BY <1>6 DEF Release, Waiting, Return
<1>7. CASE UNCHANGED vars
  BY <1>7 DEF vars
<1> QED
  BY <1>1, <1>2, <1>3, <1>4, <1>5, <1>6, <1>7 DEF Next

(* The variables of the in-memory store keep their types.                  *)
THEOREM TypeCorrect == Spec => []TypeOK
<1>1. Init => TypeOK /\ ReadingsPast
  BY InitIInv DEF IInv
<1> QED
  BY <1>1, NextTyped, PTL DEF Spec

-----------------------------------------------------------------------------
(* A claim in force, not yet released, is the entry of its key.            *)
LEMMA HeldNext == IInv /\ [Next]_vars => HeldUntilReleasedOrExpired'
<1> SUFFICES ASSUME IInv, [Next]_vars,
                    NEW c \in Issued', clock' < call'[c].now + InFlightTTL, ~Released(c)'
             PROVE  claims'[call'[c].key] = [id |-> c, expires |-> call'[c].now + InFlightTTL]
  BY DEF HeldUntilReleasedOrExpired
<1> DEFINE Held == claims'[call'[c].key] = [id |-> c, expires |-> call'[c].now + InFlightTTL]
<1>a. c \in Call
  BY DEF Issued
<1> USE <1>a, TTLAssumption, NoneAssumption DEF IInv, TypeOK, ReadingsPast

(* The claim as it stood before the step, and what a later call does to it. *)
<1>b. ASSUME c \in Issued, call'[c] = call[c], clock' >= clock,
             \A d \in Call : pc[d] = "done" => pc'[d] = "done" /\ call'[d] = call[d]
      PROVE  /\ claims[call[c].key] = [id |-> c, expires |-> call[c].now + InFlightTTL]
             /\ call[c].key \in Key
             /\ clock < call[c].now + InFlightTTL
  <2>1. ~Released(c)
    BY <1>b DEF Released
  <2>2. clock < call[c].now + InFlightTTL
    <3>1. /\ clock \in Nat /\ clock' \in Nat /\ InFlightTTL \in Nat
          /\ call[c].now \in Nat
          /\ clock' < call[c].now + InFlightTTL
      BY NextTyped, <1>b DEF CallType
    <3> QED
      BY <3>1, <1>b
  <2>3. call[c].key \in Key
    BY <1>b DEF Issued
  <2> QED
    BY <1>b, <2>1, <2>2, <2>3 DEF HeldUntilReleasedOrExpired
<1>c. ASSUME claims[call[c].key] = [id |-> c, expires |-> call[c].now + InFlightTTL],
             call[c].key \in Key, clock < call[c].now + InFlightTTL,
             NEW d \in Call, pc[d] # "idle"
      PROVE  DropExpired(claims, call[d].now)[call[c].key]
                = [id |-> c, expires |-> call[c].now + InFlightTTL]
  <2>1. call[c].now \in Nat /\ call[d].now \in Nat /\ call[d].now <= clock
    BY <1>c DEF CallType
  <2>2. claims[call[c].key] \in Entry /\ call[d].now < claims[call[c].key].expires
    BY <1>c, <2>1 DEF Entry
  <2> QED
    BY <1>c, <2>1, <2>2, SweepKeepsRunning

<1>1. ASSUME Tick PROVE Held
  BY <1>1, <1>b DEF Tick, Issued
<1>2. ASSUME NEW d \in Call, Invoke(d) PROVE Held
  <2>1. PICK op \in {"Lookup", "Claim", "Save", "Release"}, k \in Key, t \in Call \cup {None} :
            Make(d, op, k, t)
    BY <1>2 DEF Invoke, Issued
  <2>2. c # d
    BY <2>1 DEF Make, Issued
  <2> QED
    BY <2>1, <2>2, <1>b DEF Make, Issued
<1>3. ASSUME NEW d \in Call, Lookup(d) PROVE Held
  <2>1. c # d
    BY <1>3 DEF Lookup, Waiting, Return, Issued
  <2> QED
    BY <1>3, <2>1, <1>b DEF Lookup, Waiting, Return, Issued, maps
<1>4. ASSUME NEW d \in Call, Claim(d) PROVE Held
  <2> DEFINE swept == DropExpired(claims, call[d].now)
  <2>0. /\ pc[d] = "waiting"
        /\ call' = call /\ clock' = clock
        /\ call[d].key \in Key /\ call[d].now \in Nat
        /\ swept \in [Key -> Entry \cup {NoEntry}]
    BY <1>4, SweptTyped DEF Claim, Waiting, Return, CallType
  <2>1. CASE c = d
    <3>1. claims' = [swept EXCEPT ![call[d].key] =
                        [id |-> d, expires |-> call[d].now + InFlightTTL]]
      BY <1>4, <2>1, <2>0 DEF Claim, Return, Issued
    <3> QED
      BY <3>1, <2>0, <2>1
  <2>2. CASE c # d
    <3>1. c \in Issued
      BY <1>4, <2>0, <2>2 DEF Claim, Return, Issued
    <3>2. /\ claims[call[c].key] = [id |-> c, expires |-> call[c].now + InFlightTTL]
          /\ call[c].key \in Key
          /\ clock < call[c].now + InFlightTTL
      BY <3>1, <2>0, <1>4, <1>b DEF Claim, Return
    <3>3. swept[call[c].key] = [id |-> c, expires |-> call[c].now + InFlightTTL]
      BY <3>2, <2>0, <1>c
    <3>4. CASE call[c].key = call[d].key
      BY <1>4, <2>0, <3>3, <3>4 DEF Claim
    <3>5. CASE call[c].key # call[d].key
      BY <1>4, <2>0, <3>2, <3>3, <3>5 DEF Claim
    <3> QED
      BY <3>4, <3>5
  <2> QED
    BY <2>1, <2>2
<1>5. ASSUME NEW d \in Call, Save(d) PROVE Held
  <2>1. c # d
    BY <1>5 DEF Save, Waiting, Return, Issued
  <2>2. c \in Issued /\ call' = call /\ clock' = clock /\ pc[d] = "waiting"
    BY <1>5, <2>1 DEF Save, Waiting, Return, Issued
  <2>3. /\ claims[call[c].key] = [id |-> c, expires |-> call[c].now + InFlightTTL]
        /\ call[c].key \in Key
        /\ clock < call[c].now + InFlightTTL
    BY <1>5, <2>2, <1>b DEF Save, Return
  <2>4. claims' = DropExpired(claims, call[d].now)
    BY <1>5 DEF Save
  <2> QED
    BY <2>2, <2>3, <2>4, <1>c
<1>6. ASSUME NEW d \in Call, Release(d) PROVE Held
  <2>1. c # d
    BY <1>6 DEF Release, Waiting, Return, Issued
  <2>2. c \in Issued /\ call' = call /\ clock' = clock /\ pc[d] = "waiting"
    BY <1>6, <2>1 DEF Release, Waiting, Return, Issued
  <2>3. /\ claims[call[c].key] = [id |-> c, expires |-> call[c].now + InFlightTTL]
        /\ call[c].key \in Key
    BY <1>6, <2>2, <1>b DEF Release, Return
  <2>4. ~(call[d].key = call[c].key /\ call[d].token = c)
    BY <1>6, <2>2 DEF Release, Waiting, Return, Released
  <2> QED
    BY <1>6, <2>2, <2>3, <2>4 DEF Release
<1>7. CASE UNCHANGED vars
  BY <1>7, <1>b DEF vars, Issued
<1> QED
  BY <1>1, <1>2, <1>3, <1>4, <1>5, <1>6, <1>7 DEF Next

(* A claim is held until it is released with its token or its TTL ends,    *)
(* however the calls that follow it interleave.                            *)
THEOREM ClaimIsHeld == Spec => []HeldUntilReleasedOrExpired
<1>1. IInv /\ [Next]_vars => IInv'
  BY NextTyped, HeldNext DEF IInv
<1>2. IInv => HeldUntilReleasedOrExpired
  BY DEF IInv
<1> QED
  BY InitIInv, <1>1, <1>2, PTL DEF Spec
-----------------------------------------------------------------------------
(* What the map of responses holds was put there by the Save it names.     *)
SavedBySave ==
    \A k \in Key : saved[k] # NoEntry =>
        /\ saved[k].id \in Call
        /\ pc[saved[k].id] = "done"
        /\ call[saved[k].id].op = "Save"
        /\ call[saved[k].id].key = k
        /\ saved[k].expires = call[saved[k].id].now + TTL

KInv == TypeOK /\ ReadingsPast /\ SavedBySave /\ KeptUntilReplacedOrExpired

LEMMA InitKInv == Init => KInv
  BY InitIInv DEF Init, KInv, IInv, SavedBySave, KeptUntilReplacedOrExpired, SavedAlone

LEMMA SavedBySaveNext ==
    TypeOK /\ ReadingsPast /\ SavedBySave /\ [Next]_vars => SavedBySave'
<1> SUFFICES ASSUME TypeOK, ReadingsPast, SavedBySave, [Next]_vars PROVE SavedBySave'
  OBVIOUS
<1> USE TTLAssumption, NoneAssumption DEF TypeOK, SavedBySave
(* An entry that was there and still is: what it names does not change.    *)
<1>a. ASSUME \A k \in Key : saved'[k] = saved[k] \/ saved'[k] = NoEntry,
             \A d \in Call : pc[d] = "done" => pc'[d] = "done" /\ call'[d] = call[d]
      PROVE  SavedBySave'
  BY <1>a
<1>1. ASSUME Tick PROVE SavedBySave'
  BY <1>1, <1>a DEF Tick
<1>2. ASSUME NEW c \in Call, Invoke(c) PROVE SavedBySave'
  <2>1. PICK op \in {"Lookup", "Claim", "Save", "Release"}, k \in Key, t \in Call \cup {None} :
            Make(c, op, k, t)
    BY <1>2 DEF Invoke, Issued
  <2> QED
    BY <2>1, <1>a DEF Make
<1>3. ASSUME NEW c \in Call, Lookup(c) \/ Release(c) PROVE SavedBySave'
  BY <1>3, <1>a DEF Lookup, Release, Waiting, Return, maps
<1>4. ASSUME NEW c \in Call, Claim(c) PROVE SavedBySave'
  <2>1. \A k \in Key : saved'[k] = saved[k] \/ saved'[k] = NoEntry
    BY <1>4 DEF Claim, DropExpired
  <2>2. \A d \in Call : pc[d] = "done" => pc'[d] = "done" /\ call'[d] = call[d]
    BY <1>4 DEF Claim, Waiting, Return
  <2> QED
    BY <2>1, <2>2, <1>a
<1>5. ASSUME NEW c \in Call, Save(c) PROVE SavedBySave'
  <2>1. call[c].key \in Key /\ pc[c] = "waiting" /\ call[c].op = "Save" /\ call' = call
    BY <1>5 DEF Save, Waiting, Return, ReadingsPast
  <2>2. saved'[call[c].key] = [id |-> c, expires |-> call[c].now + TTL] /\ pc'[c] = "done"
    BY <1>5, <2>1 DEF Save, Return, DropExpired
  <2>3. \A k \in Key \ {call[c].key} : saved'[k] = saved[k] \/ saved'[k] = NoEntry
    BY <1>5 DEF Save, DropExpired
  <2>4. \A d \in Call : pc[d] = "done" => pc'[d] = "done"
    BY <1>5 DEF Save, Return
  <2> QED
    BY <2>1, <2>2, <2>3, <2>4
<1>6. CASE UNCHANGED vars
  BY <1>6 DEF vars
<1> QED
  BY <1>1, <1>2, <1>3, <1>4, <1>5, <1>6 DEF Next

(* A response that no other Save has replaced, and whose TTL runs, is the  *)
(* entry of its key: no sweep is ahead of the clock.                       *)
LEMMA KeptNext == KInv /\ [Next]_vars => KeptUntilReplacedOrExpired'
<1> SUFFICES ASSUME KInv, [Next]_vars,
                    NEW c \in Call, SavedAlone(c)', clock' < call'[c].now + TTL
             PROVE  saved'[call'[c].key] = [id |-> c, expires |-> call'[c].now + TTL]
  BY DEF KeptUntilReplacedOrExpired
<1> DEFINE Kept == saved'[call'[c].key] = [id |-> c, expires |-> call'[c].now + TTL]
<1> USE TTLAssumption, NoneAssumption DEF KInv, TypeOK, ReadingsPast

(* The response as it stood before the step, and what a sweep does to it.  *)
<1>b. ASSUME pc[c] = "done", call'[c] = call[c], clock' >= clock,
             \A d \in Call : pc[d] = "done" => pc'[d] = "done" /\ call'[d] = call[d]
      PROVE  /\ saved[call[c].key] = [id |-> c, expires |-> call[c].now + TTL]
             /\ call[c].key \in Key
             /\ clock < call[c].now + TTL
  <2>1. SavedAlone(c)
    BY <1>b DEF SavedAlone
  <2>2. clock < call[c].now + TTL
    <3>1. /\ clock \in Nat /\ clock' \in Nat /\ TTL \in Nat
          /\ call[c].now \in Nat
          /\ clock' < call[c].now + TTL
      BY NextTyped, <1>b DEF CallType
    <3> QED
      BY <3>1, <1>b
  <2> QED
    BY <1>b, <2>1, <2>2 DEF KeptUntilReplacedOrExpired
<1>c. ASSUME saved[call[c].key] = [id |-> c, expires |-> call[c].now + TTL],
             call[c].key \in Key, clock < call[c].now + TTL,
             NEW d \in Call, pc[d] # "idle"
      PROVE  DropExpired(saved, call[d].now)[call[c].key] = [id |-> c, expires |-> call[c].now + TTL]
  <2>1. call[c].now \in Nat /\ call[d].now \in Nat /\ call[d].now <= clock
    BY <1>c DEF CallType
  <2>2. saved[call[c].key] \in Entry /\ call[d].now < saved[call[c].key].expires
    BY <1>c, <2>1 DEF Entry
  <2> QED
    BY <1>c, <2>1, <2>2, SweepKeepsRunning

<1>1. ASSUME Tick PROVE Kept
  BY <1>1, <1>b DEF Tick, SavedAlone
<1>2. ASSUME NEW d \in Call, Invoke(d) PROVE Kept
  <2>1. PICK op \in {"Lookup", "Claim", "Save", "Release"}, k \in Key, t \in Call \cup {None} :
            Make(d, op, k, t)
    BY <1>2 DEF Invoke, Issued
  <2>2. c # d
    BY <2>1 DEF Make, SavedAlone
  <2> QED
    BY <2>1, <2>2, <1>b DEF Make, SavedAlone
<1>3. ASSUME NEW d \in Call, Lookup(d) \/ Release(d) PROVE Kept
  <2>1. c # d
    BY <1>3 DEF Lookup, Release, Waiting, Return, SavedAlone
  <2> QED
    BY <1>3, <2>1, <1>b DEF Lookup, Release, Waiting, Return, SavedAlone, maps
<1>4. ASSUME NEW d \in Call, Claim(d) PROVE Kept
  <2>1. c # d
    BY <1>4 DEF Claim, Waiting, Return, SavedAlone
  <2>2. /\ pc[c] = "done" /\ call' = call /\ clock' = clock /\ pc[d] = "waiting"
        /\ \A e \in Call : pc[e] = "done" => pc'[e] = "done"
    BY <1>4, <2>1 DEF Claim, Waiting, Return, SavedAlone
  <2>3. /\ saved[call[c].key] = [id |-> c, expires |-> call[c].now + TTL]
        /\ call[c].key \in Key
        /\ clock < call[c].now + TTL
    BY <2>2, <1>b
  <2>4. saved' = DropExpired(saved, call[d].now)
    BY <1>4 DEF Claim
  <2> QED
    BY <2>2, <2>3, <2>4, <1>c
<1>5. ASSUME NEW d \in Call, Save(d) PROVE Kept
  <2> DEFINE swept == DropExpired(saved, call[d].now)
  <2>0. /\ pc[d] = "waiting" /\ call[d].op = "Save"
        /\ call' = call /\ clock' = clock
        /\ call[d].key \in Key /\ call[d].now \in Nat
        /\ swept \in [Key -> Entry \cup {NoEntry}]
        /\ pc' = [pc EXCEPT ![d] = "done"]
        /\ saved' = [swept EXCEPT ![call[d].key] = [id |-> d, expires |-> call[d].now + TTL]]
    BY <1>5, SweptTyped DEF Save, Waiting, Return, CallType
  <2>1. CASE c = d
    BY <2>0, <2>1
  <2>2. CASE c # d
    <3>1. pc[c] = "done" /\ \A e \in Call : pc[e] = "done" => pc'[e] = "done"
      BY <2>0, <2>2 DEF SavedAlone
    <3>2. call[c].key # call[d].key
      BY <2>0, <2>2 DEF SavedAlone
    <3>3. /\ saved[call[c].key] = [id |-> c, expires |-> call[c].now + TTL]
          /\ call[c].key \in Key
          /\ clock < call[c].now + TTL
      BY <3>1, <2>0, <1>b
    <3>4. swept[call[c].key] = [id |-> c, expires |-> call[c].now + TTL]
      BY <3>3, <2>0, <1>c
    <3> HIDE DEF swept
    <3> QED
      BY <2>0, <3>2, <3>3, <3>4
  <2> QED
    BY <2>1, <2>2
<1>6. CASE UNCHANGED vars
  BY <1>6, <1>b DEF vars, SavedAlone
<1> QED
  BY <1>1, <1>2, <1>3, <1>4, <1>5, <1>6 DEF Next

LEMMA KInvNext == KInv /\ [Next]_vars => KInv'
  BY NextTyped, SavedBySaveNext, KeptNext DEF KInv

(* A saved response stays for its TTL, unless another Save replaces it,    *)
(* whatever other calls sweep the maps and however late they come.         *)
THEOREM ResponseIsKept == Spec => []KeptUntilReplacedOrExpired
<1>1. KInv => KeptUntilReplacedOrExpired
  BY DEF KInv
<1> QED
  BY InitKInv, KInvNext, <1>1, PTL DEF Spec

(* A Lookup returns only a response of its own key within its TTL, and     *)
(* misses none that is kept.                                               *)
THEOREM LooksUpCurrent == Spec => LookupIsCurrent
<1> DEFINE Fits(c, d) == call[d].key = call[c].key /\ clock < call[d].now + TTL
           Step == \A c \in Call :
             pc[c] = "waiting" /\ pc'[c] = "done" /\ call[c].op = "Lookup" =>
                /\ \A d \in Call : res'[c] = d => pc[d] = "done" /\ call[d].op = "Save" /\ Fits(c, d)
                /\ res'[c] = None => \A d \in Call : SavedAlone(d) => ~Fits(c, d)
<1>1. KInv /\ [Next]_vars => [Step]_vars
  <2> SUFFICES ASSUME KInv, Next, NEW c \in Call,
                      pc[c] = "waiting", pc'[c] = "done", call[c].op = "Lookup"
               PROVE  /\ \A d \in Call : res'[c] = d => pc[d] = "done" /\ call[d].op = "Save" /\ Fits(c, d)
                      /\ res'[c] = None => \A d \in Call : SavedAlone(d) => ~Fits(c, d)
    OBVIOUS
  <2> USE TTLAssumption, NoneAssumption DEF KInv, TypeOK
  <2>1. Lookup(c)
    <3>1. ASSUME NEW d \in Call, Invoke(d) PROVE FALSE
      BY <3>1 DEF Invoke, Make
    <3>2. ASSUME NEW d \in Call, Claim(d) \/ Save(d) \/ Release(d) PROVE FALSE
      BY <3>2 DEF Claim, Save, Release, Waiting, Return
    <3>3. ASSUME NEW d \in Call, Lookup(d) PROVE d = c
      BY <3>3 DEF Lookup, Waiting, Return
    <3> QED
      BY <3>1, <3>2, <3>3 DEF Next, Tick
  <2>2. res'[c] = InForce(saved)[call[c].key] /\ call[c].key \in Key
    BY <2>1 DEF Lookup, Return, ReadingsPast
  <2> DEFINE e == saved[call[c].key]
  <2>3. ASSUME NEW d \in Call, res'[c] = d
        PROVE  pc[d] = "done" /\ call[d].op = "Save" /\ Fits(c, d)
    <3>1. Running(e, clock) /\ e.id = d
      BY <2>2, <2>3 DEF InForce
    <3> QED
      BY <2>2, <3>1 DEF Running, SavedBySave, NoEntry
  <2>4. ASSUME NEW d \in Call, res'[c] = None, SavedAlone(d), Fits(c, d) PROVE FALSE
    <3>1. e = [id |-> d, expires |-> call[d].now + TTL]
      BY <2>4 DEF KeptUntilReplacedOrExpired
    <3>2. Running(e, clock) /\ e.id = d
      BY <2>4, <3>1 DEF Running
    <3> QED
      BY <2>2, <2>4, <3>2 DEF InForce
  <2> QED
    BY <2>3, <2>4
<1> QED
  BY InitKInv, KInvNext, <1>1, PTL DEF Spec, LookupIsCurrent
-----------------------------------------------------------------------------
(* The refinement.  The contract sees the entries in force, so what it     *)
(* needs to know is whose they are (ClaimedByClaim, SavedBySave) and that  *)
(* the tokens and responses a step brings in are new (HistoryPast).        *)
ClaimedByClaim ==
    \A k \in Key : claims[k] # NoEntry =>
        /\ claims[k].id \in Call
        /\ pc[claims[k].id] = "done"
        /\ call[claims[k].id].op = "Claim"
        /\ call[claims[k].id].key = k

HistoryPast ==
    /\ \A c \in lapsed \cup forgotten : pc[c] = "done"
    /\ \A c \in Call : call[c].op = "Release" => call[c].token \in Call

RInv == TypeOK /\ ReadingsPast /\ SavedBySave /\ ClaimedByClaim /\ HistoryPast

LEMMA InitRInv == Init => RInv
  BY InitKInv DEF Init, KInv, RInv, ClaimedByClaim, HistoryPast, NoCall

LEMMA ClaimedByClaimNext ==
    TypeOK /\ ReadingsPast /\ ClaimedByClaim /\ [Next]_vars => ClaimedByClaim'
<1> SUFFICES ASSUME TypeOK, ReadingsPast, ClaimedByClaim, [Next]_vars PROVE ClaimedByClaim'
  OBVIOUS
<1> USE TTLAssumption, NoneAssumption DEF TypeOK, ClaimedByClaim
<1>a. ASSUME \A k \in Key : claims'[k] = claims[k] \/ claims'[k] = NoEntry,
             \A d \in Call : pc[d] = "done" => pc'[d] = "done" /\ call'[d] = call[d]
      PROVE  ClaimedByClaim'
  BY <1>a
<1>1. ASSUME Tick PROVE ClaimedByClaim'
  BY <1>1, <1>a DEF Tick
<1>2. ASSUME NEW c \in Call, Invoke(c) PROVE ClaimedByClaim'
  <2>1. PICK op \in {"Lookup", "Claim", "Save", "Release"}, k \in Key, t \in Call \cup {None} :
            Make(c, op, k, t)
    BY <1>2 DEF Invoke, Issued
  <2> QED
    BY <2>1, <1>a DEF Make
<1>3. ASSUME NEW c \in Call, Lookup(c) PROVE ClaimedByClaim'
  BY <1>3, <1>a DEF Lookup, Waiting, Return, maps
<1>4. ASSUME NEW c \in Call, Claim(c) PROVE ClaimedByClaim'
  <2>1. call[c].key \in Key /\ pc[c] = "waiting" /\ call[c].op = "Claim" /\ call' = call /\ pc'[c] = "done"
    BY <1>4 DEF Claim, Waiting, Return, ReadingsPast
  <2>2. \A k \in Key : \/ claims'[k] = claims[k] \/ claims'[k] = NoEntry
                       \/ k = call[c].key /\ claims'[k].id = c
    BY <1>4, <2>1 DEF Claim, DropExpired
  <2>3. \A d \in Call : pc[d] = "done" => pc'[d] = "done"
    BY <1>4 DEF Claim, Return
  <2> QED
    BY <2>1, <2>2, <2>3
<1>5. ASSUME NEW c \in Call, Save(c) PROVE ClaimedByClaim'
  <2>1. \A k \in Key : claims'[k] = claims[k] \/ claims'[k] = NoEntry
    BY <1>5 DEF Save, DropExpired
  <2> QED
    BY <1>5, <2>1, <1>a DEF Save, Waiting, Return
<1>6. ASSUME NEW c \in Call, Release(c) PROVE ClaimedByClaim'
  <2>1. \A k \in Key : claims'[k] = claims[k] \/ claims'[k] = NoEntry
    BY <1>6 DEF Release
  <2> QED
    BY <1>6, <2>1, <1>a DEF Release, Waiting, Return
<1>7. CASE UNCHANGED vars
  BY <1>7 DEF vars
<1> QED
  BY <1>1, <1>2, <1>3, <1>4, <1>5, <1>6, <1>7 DEF Next

(* An entry that runs out now belongs to a call that is over.              *)
LEMMA RunOutDone ==
    ASSUME TypeOK,
           NEW m \in [Key -> Entry \cup {NoEntry}],
           \A k \in Key : m[k] # NoEntry => pc[m[k].id] = "done"
    PROVE  \A c \in RunOut(m) : pc[c] = "done"
  BY DEF RunOut, Running, NoEntry

LEMMA HistoryPastNext == RInv /\ [Next]_vars => HistoryPast'
<1> SUFFICES ASSUME RInv, [Next]_vars PROVE HistoryPast'
  OBVIOUS
<1> USE DEF RInv, TypeOK, HistoryPast
<1>1. ASSUME Tick PROVE HistoryPast'
  <2>1. \A c \in RunOut(claims) \cup RunOut(saved) : pc[c] = "done"
    BY RunOutDone DEF ClaimedByClaim, SavedBySave
  <2> QED
    BY <1>1, <2>1 DEF Tick
<1>2. ASSUME NEW c \in Call, Invoke(c) PROVE HistoryPast'
  <2>1. PICK op \in {"Lookup", "Claim", "Save", "Release"}, k \in Key, t \in Call \cup {None} :
            Make(c, op, k, t) /\ (op = "Release" => t \in Call)
    BY <1>2 DEF Invoke, Issued
  <2>2. pc[c] = "idle"
    BY <2>1 DEF Make
  <2> QED
    BY <2>1, <2>2 DEF Make
<1>3. ASSUME NEW c \in Call, Lookup(c) \/ Release(c) PROVE HistoryPast'
  BY <1>3 DEF Lookup, Release, Return
<1>4. ASSUME NEW c \in Call, Claim(c) \/ Save(c) PROVE HistoryPast'
  BY <1>4 DEF Claim, Save, Return
<1>5. CASE UNCHANGED vars
  BY <1>5 DEF vars
<1> QED
  BY <1>1, <1>2, <1>3, <1>4, <1>5 DEF Next

LEMMA RInvNext == RInv /\ [Next]_vars => RInv'
  BY NextTyped, SavedBySaveNext, ClaimedByClaimNext, HistoryPastNext DEF RInv

(* A sweep by a reading that is not ahead of the clock takes nothing that  *)
(* is in force.                                                            *)
LEMMA SweepUnseen ==
    ASSUME NEW m \in [Key -> Entry \cup {NoEntry}], NEW now \in Nat, clock \in Nat, now <= clock
    PROVE  InForce(DropExpired(m, now)) = InForce(m)
<1>1. ASSUME NEW k \in Key
      PROVE  Running(DropExpired(m, now)[k], clock) <=> Running(m[k], clock)
  <2>1. m[k] = NoEntry \/ m[k].expires \in Nat
    BY DEF Entry
  <2> QED
    BY <2>1, NoneAssumption DEF DropExpired, Running, NoEntry
<1>2. ASSUME NEW k \in Key, Running(m[k], clock)
      PROVE  DropExpired(m, now)[k] = m[k]
  <2>1. m[k].expires \in Nat
    BY <1>2 DEF Entry, NoEntry, Running
  <2> QED
    BY <1>2, <2>1 DEF DropExpired, Running
<1> QED
  BY <1>1, <1>2 DEF InForce

(* The entries in force are those of calls that are over.                  *)
LEMMA InForceDone ==
    ASSUME RInv
    PROVE  /\ Contract!Held \subseteq {c \in Call : pc[c] = "done"}
           /\ Contract!Kept \subseteq {c \in Call : pc[c] = "done"}
<1>1. ASSUME NEW k \in Key, InForce(claims)[k] # None
      PROVE  InForce(claims)[k] \in Call /\ pc[InForce(claims)[k]] = "done"
  BY <1>1 DEF InForce, Running, RInv, ClaimedByClaim, NoEntry
<1>2. ASSUME NEW k \in Key, InForce(saved)[k] # None
      PROVE  InForce(saved)[k] \in Call /\ pc[InForce(saved)[k]] = "done"
  BY <1>2 DEF InForce, Running, RInv, SavedBySave, NoEntry
<1> QED
  BY <1>1, <1>2 DEF Contract!Held, Contract!Kept

(* Time takes the entries that run out now, and only these.                *)
LEMMA TickExpires ==
    ASSUME RInv, Tick
    PROVE  /\ RunOut(claims) \subseteq Contract!Held
           /\ RunOut(saved) \subseteq Contract!Kept
           /\ Contract!Expire(RunOut(claims), RunOut(saved))
<1> USE DEF RInv, TypeOK
<1>0. clock \in Nat /\ clock' = clock + 1 /\ claims' = claims /\ saved' = saved
  BY DEF Tick
<1>a. ASSUME NEW m \in [Key -> Entry \cup {NoEntry}],
             \A k \in Key : m[k] # NoEntry => m[k].id \in Call /\ call[m[k].id].key = k
      PROVE  /\ RunOut(m) \subseteq {InForce(m)[k] : k \in Key} \ {None}
             /\ \A k \in Key :
                   (IF Running(m[k], clock + 1) THEN m[k].id ELSE None)
                      = (IF InForce(m)[k] \in RunOut(m) THEN None ELSE InForce(m)[k])
  <2>1. ASSUME NEW k \in Key, Running(m[k], clock)
        PROVE  m[k].id # None /\ m[k].expires \in Nat /\ InForce(m)[k] = m[k].id
               /\ m[k].id \in Call /\ call[m[k].id].key = k
    BY <1>a, <2>1 DEF Running, Entry, NoEntry, InForce
  <2>2. ASSUME NEW c \in RunOut(m)
        PROVE  c \in {InForce(m)[k] : k \in Key} \ {None}
    <3>1. PICK k \in Key : Running(m[k], clock) /\ c = m[k].id
      BY DEF RunOut
    <3> QED
      BY <3>1, <2>1
  <2>3. ASSUME NEW k \in Key
        PROVE  (IF Running(m[k], clock + 1) THEN m[k].id ELSE None)
                      = (IF InForce(m)[k] \in RunOut(m) THEN None ELSE InForce(m)[k])
    <3>1. CASE ~Running(m[k], clock)
      <4>1. ~Running(m[k], clock + 1)
        <5>1. m[k].id = None \/ (m[k].expires \in Nat /\ ~(clock < m[k].expires))
          BY <3>1, NoneAssumption DEF Running, Entry, NoEntry
        <5> QED
          BY <5>1, <1>0 DEF Running
      <4>2. InForce(m)[k] = None
        BY <3>1 DEF InForce
      <4> QED
        BY <4>1, <4>2
    <3>2. CASE Running(m[k], clock)
      <4>1. m[k].id \in RunOut(m) <=> ~Running(m[k], clock + 1)
        <5>1. ASSUME m[k].id \in RunOut(m) PROVE ~Running(m[k], clock + 1)
          <6>1. PICK j \in Key : Running(m[j], clock) /\ ~Running(m[j], clock + 1) /\ m[j].id = m[k].id
            BY <5>1 DEF RunOut
          <6>2. j = k
            BY <6>1, <3>2, <2>1
          <6> QED
            BY <6>1, <6>2
        <5>2. ASSUME ~Running(m[k], clock + 1) PROVE m[k].id \in RunOut(m)
          BY <3>2, <5>2 DEF RunOut
        <5> QED
          BY <5>1, <5>2
      <4> QED
        BY <3>2, <4>1, <2>1
    <3> QED
      BY <3>1, <3>2
  <2> QED
    BY <2>2, <2>3
<1>1. /\ RunOut(claims) \subseteq Contract!Held
      /\ \A k \in Key :
            (IF Running(claims[k], clock + 1) THEN claims[k].id ELSE None)
               = (IF InForce(claims)[k] \in RunOut(claims) THEN None ELSE InForce(claims)[k])
  BY <1>a DEF ClaimedByClaim, Contract!Held
<1>2. /\ RunOut(saved) \subseteq Contract!Kept
      /\ \A k \in Key :
            (IF Running(saved[k], clock + 1) THEN saved[k].id ELSE None)
               = (IF InForce(saved)[k] \in RunOut(saved) THEN None ELSE InForce(saved)[k])
  BY <1>a DEF SavedBySave, Contract!Kept
<1>3. /\ InForce(claims)' = [k \in Key |-> IF Running(claims[k], clock + 1) THEN claims[k].id ELSE None]
      /\ InForce(saved)' = [k \in Key |-> IF Running(saved[k], clock + 1) THEN saved[k].id ELSE None]
  BY <1>0 DEF InForce
<1> QED
  BY <1>1, <1>2, <1>3 DEF Contract!Expire, Tick

LEMMA StepImplements == RInv /\ [Next]_vars => [Contract!StoreNext]_(Contract!storeVars)
<1> SUFFICES ASSUME RInv, [Next]_vars PROVE [Contract!StoreNext]_(Contract!storeVars)
  OBVIOUS
<1> USE TTLAssumption, NoneAssumption DEF RInv, TypeOK
<1>1. ASSUME Tick PROVE Contract!StoreNext
  BY <1>1, TickExpires DEF Contract!StoreNext
<1>2. ASSUME UNCHANGED <<clock, claims, saved, lapsed, forgotten>> PROVE UNCHANGED Contract!storeVars
  BY <1>2 DEF Contract!storeVars, InForce
<1>3. ASSUME NEW c \in Call, Invoke(c) \/ Lookup(c) PROVE UNCHANGED Contract!storeVars
  BY <1>2, <1>3 DEF Invoke, Make, Lookup, Return, maps
<1>4. ASSUME NEW c \in Call, Claim(c) PROVE [Contract!StoreNext]_(Contract!storeVars)
  <2> DEFINE k == call[c].key
             now == call[c].now
             swept == DropExpired(claims, now)
             end == now + InFlightTTL
  <2>0. /\ k \in Key /\ now \in Nat /\ now <= clock /\ clock' = clock /\ clock \in Nat
        /\ end \in Nat /\ pc[c] = "waiting"
        /\ forgotten' = forgotten
        /\ swept \in [Key -> Entry \cup {NoEntry}]
    BY <1>4, SweptTyped DEF Claim, Waiting, Return, CallType, ReadingsPast
  <2>1. InForce(saved)' = InForce(saved)
    <3>1. saved' = DropExpired(saved, now)
      BY <1>4 DEF Claim
    <3>2. InForce(saved)' = InForce(DropExpired(saved, now))
      BY <2>0, <3>1 DEF InForce
    <3> QED
      BY <2>0, <3>2, SweepUnseen
  <2>2. InForce(swept) = InForce(claims)
    BY <2>0, SweepUnseen
  <2>3. CASE claims' = swept /\ UNCHANGED lapsed
    <3>1. InForce(claims)' = InForce(swept)
      BY <2>0, <2>3 DEF InForce
    <3> QED
      BY <2>0, <2>1, <2>2, <2>3, <3>1 DEF Contract!storeVars
  <2>4. CASE /\ swept[k].id = None
             /\ claims' = [swept EXCEPT ![k] = [id |-> c, expires |-> end]]
             /\ lapsed' = IF clock < end THEN lapsed ELSE lapsed \cup {c}
    <3>1. c \in Call \ (Contract!Held \cup lapsed)
      BY <2>0, InForceDone DEF HistoryPast
    <3>2. InForce(claims)[k] = None
      BY <2>0, <2>2, <2>4 DEF InForce, Running
    <3>3. InForce(claims)' = [j \in Key |-> IF j = k THEN (IF clock < end THEN c ELSE None) ELSE InForce(swept)[j]]
      BY <2>0, <2>4 DEF InForce, Running
    <3>4. CASE clock < end
      <4>1. InForce(claims)' = [InForce(claims) EXCEPT ![k] = c]
        BY <2>0, <2>2, <3>3, <3>4 DEF InForce
      <4>2. Contract!Claim(k, c)
        BY <2>0, <2>1, <2>4, <3>2, <3>4, <4>1 DEF Contract!Claim
      <4> QED
        BY <2>0, <3>1, <4>2 DEF Contract!StoreNext
    <3>5. CASE ~(clock < end)
      <4>1. InForce(claims)' = InForce(claims)
        BY <2>0, <2>2, <3>2, <3>3, <3>5 DEF InForce
      <4>2. Contract!LateClaim(k, c)
        BY <2>0, <2>1, <2>4, <3>2, <3>5, <4>1 DEF Contract!LateClaim
      <4> QED
        BY <2>0, <3>1, <4>2 DEF Contract!StoreNext
    <3> QED
      BY <3>4, <3>5
  <2> QED
    BY <1>4, <2>3, <2>4 DEF Claim
<1>5. ASSUME NEW c \in Call, Save(c) PROVE [Contract!StoreNext]_(Contract!storeVars)
  <2> DEFINE k == call[c].key
             now == call[c].now
             swept == DropExpired(saved, now)
             end == now + TTL
  <2>0. /\ k \in Key /\ now \in Nat /\ now <= clock /\ clock' = clock /\ clock \in Nat
        /\ end \in Nat /\ pc[c] = "waiting"
        /\ lapsed' = lapsed
        /\ swept \in [Key -> Entry \cup {NoEntry}]
        /\ saved' = [swept EXCEPT ![k] = [id |-> c, expires |-> end]]
        /\ forgotten' = IF clock < end THEN forgotten ELSE forgotten \cup {c}
    BY <1>5, SweptTyped DEF Save, Waiting, Return, CallType, ReadingsPast
  <2>1. InForce(claims)' = InForce(claims)
    <3>1. claims' = DropExpired(claims, now)
      BY <1>5 DEF Save
    <3>2. InForce(claims)' = InForce(DropExpired(claims, now))
      BY <2>0, <3>1 DEF InForce
    <3> QED
      BY <2>0, <3>2, SweepUnseen
  <2>2. InForce(swept) = InForce(saved)
    BY <2>0, SweepUnseen
  <2>3. c \in Call \ (Contract!Kept \cup forgotten)
    BY <2>0, InForceDone DEF HistoryPast
  <2>4. InForce(saved)' = [j \in Key |-> IF j = k THEN (IF clock < end THEN c ELSE None) ELSE InForce(swept)[j]]
    BY <2>0 DEF InForce, Running
  <2>5. InForce(saved)' = [InForce(saved) EXCEPT ![k] = IF clock < end THEN c ELSE None]
    BY <2>0, <2>2, <2>4 DEF InForce
  <2>6. CASE clock < end
    BY <2>0, <2>1, <2>3, <2>5, <2>6 DEF Contract!StoreNext, Contract!Save
  <2>7. CASE ~(clock < end)
    BY <2>0, <2>1, <2>3, <2>5, <2>7 DEF Contract!StoreNext, Contract!LateSave
  <2> QED
    BY <2>6, <2>7
<1>6. ASSUME NEW c \in Call, Release(c) PROVE Contract!StoreNext
  <2> DEFINE k == call[c].key
             t == call[c].token
  <2>1. /\ k \in Key /\ t \in Call
        /\ UNCHANGED <<clock, saved, lapsed, forgotten>>
        /\ claims' = [claims EXCEPT ![k] = IF @.id = t THEN NoEntry ELSE @]
    BY <1>6 DEF Release, Waiting, Return, ReadingsPast, HistoryPast
  <2>2. InForce(claims)' = [j \in Key |-> IF j = k /\ claims[j].id = t THEN None ELSE InForce(claims)[j]]
    BY <2>1 DEF InForce, Running, NoEntry
  <2>3. InForce(claims)' = [InForce(claims) EXCEPT ![k] = IF @ = t THEN None ELSE @]
    <3>1. InForce(claims)[k] = claims[k].id \/ InForce(claims)[k] = None
      BY <2>1 DEF InForce
    <3> QED
      BY <2>1, <2>2, <3>1 DEF InForce
  <2>4. InForce(saved)' = InForce(saved)
    BY <2>1 DEF InForce
  <2> QED
    BY <2>1, <2>3, <2>4 DEF Contract!StoreNext, Contract!Release
<1>7. CASE UNCHANGED vars
  BY <1>2, <1>7 DEF vars
<1> QED
  BY <1>1, <1>3, <1>4, <1>5, <1>6, <1>7 DEF Next

(* The in-memory store implements what the Idempotency-Key step relies on, *)
(* for any calls, keys and TTLs, and however late a call gets the mutex.   *)
THEOREM StoreImplements == Spec => ImplementsContract
<1>1. Init => Contract!StoreInit
  BY NoneAssumption DEF Init, Contract!StoreInit, InForce, Running, NoEntry
<1> QED
  BY InitRInv, RInvNext, <1>1, StepImplements, PTL DEF Spec, ImplementsContract, Contract!StoreSpec
=============================================================================
