-------------------------- MODULE Registry_proofs ---------------------------
(***************************************************************************)
(* Proofs about Registry, for any goroutines, declarations, prefix and     *)
(* number of actions.  The inductive invariant says what a goroutine knows *)
(* while it is inside Freeze (InsideFreeze), why a refusal is final        *)
(* (RefusalLasts), and who may be in the once (OnceAfterFreeze).           *)
(***************************************************************************)
EXTENDS Registry, SequenceTheorems, TLAPS

(* Inside Freeze the actions are checked and sorted already, and nobody    *)
(* has sealed them.                                                        *)
InsideFreeze ==
    \A p \in Proc : pc[p] \in Holding =>
        /\ ~frozen
        /\ Valid(actions)
        /\ Sorted(actions)
        /\ pc[p] = "sealing" => ~NamesClash(actions)

(* What was refused once would be refused again.                           *)
RefusalLasts == refused => ~Valid(actions) \/ NamesClash(actions)

SealedSound == frozen => ~NamesClash(actions)

(* What OpenAPIJSON returned is what the goroutine inside Freeze writes.   *)
Whole(d) == d # None /\ d # Torn
Unsealed ==
    ~frozen =>
        /\ ~Whole(json)
        /\ \A d \in read : Whole(d) => \E p \in Proc : pc[p] = "sealing" /\ d = actions

SealedRead == frozen => \A d \in read : Whole(d) => d = json

TornWhileSealing == json = Torn => frozen \/ \E p \in Proc : pc[p] = "sealing"

OnceAfterFreeze == \A p \in Proc : pc[p] \in {"once", "rendering"} => frozen

IInv ==
    /\ TypeOK
    /\ InsideFreeze
    /\ SealedTogether
    /\ RefusalLasts
    /\ SealedSound
    /\ Unsealed
    /\ SealedRead
    /\ TornWhileSealing
    /\ OnceAfterFreeze
    /\ YAMLSettled

-----------------------------------------------------------------------------
LEMMA InitIInv == Init => IInv
  <1> SUFFICES ASSUME Init PROVE IInv
    OBVIOUS
  <1>1. /\ ~frozen /\ ~refused /\ read = {} /\ json = None /\ once = "new"
        /\ \A p \in Proc : pc[p] = "idle"
    BY DEF Init
  <1>2. TypeOK
    <2>1. actions \in Seq(ActionType)
      BY DEF Init
    <2>2. \A d \in {json, index, yaml} \cup read : IsDocument(d)
      BY DEF Init, IsDocument
    <2>3. call \in [Proc -> CallType]
      BY DEF Init, CallType, NoCall
    <2>4. pc \in [Proc -> {"idle", "waiting", "once", "rendering"} \cup Holding]
      BY DEF Init
    <2>5. \A p \in Proc : pc[p] \in Holding <=> mu = p
      BY <1>1, NoneAssumption DEF Init, Holding
    <2> QED BY <2>1, <2>2, <2>3, <2>4, <2>5 DEF Init, TypeOK
  <1> QED
    BY <1>1, <1>2, NoneAssumption DEF IInv, InsideFreeze, SealedTogether, RefusalLasts, SealedSound,
       Unsealed, SealedRead, Whole, TornWhileSealing, OnceAfterFreeze, YAMLSettled, Holding

(* A problem stays when an action is appended.                             *)
LEMMA AppendKeepsProblems ==
  ASSUME NEW as \in Seq(ActionType), NEW a \in ActionType
  PROVE  /\ Append(as, a) \in Seq(ActionType)
         /\ ~Valid(as) => ~Valid(Append(as, a))
         /\ NamesClash(as) => NamesClash(Append(as, a))
  <1> DEFINE bs == Append(as, a)
  <1>1. /\ bs \in Seq(ActionType)
        /\ Len(bs) = Len(as) + 1
        /\ \A i \in 1..Len(as) : bs[i] = as[i] /\ i \in 1..Len(bs)
    <2>1. bs \in Seq(ActionType) /\ Len(bs) = Len(as) + 1
      BY AppendProperties
    <2>2. \A i \in 1..Len(as) : i \in 1..Len(as) + 1
      <3> DEFINE n == Len(as)
      <3>1. n \in Nat
        BY LenProperties
      <3> HIDE DEF n
      <3>2. \A i \in 1..n : i \in 1..n + 1
        BY <3>1
      <3> QED BY <3>2 DEF n
    <2>3. \A i \in 1..Len(as) : bs[i] = as[i]
      BY AppendProperties
    <2> HIDE DEF bs
    <2> QED BY <2>1, <2>2, <2>3
  <1> HIDE DEF bs
  <1>2. NamesClash(as) => NamesClash(bs)
    BY <1>1 DEF NamesClash
  <1>3. ASSUME Conflict(as) PROVE Conflict(bs)
    <2>1. PICK i, j \in 1..Len(as) :
            /\ i # j
            /\ \/ as[i].id = as[j].id
               \/ as[i].method = as[j].method /\ mountPath(as[i].path) = mountPath(as[j].path)
      BY <1>3 DEF Conflict
    <2>2. i \in 1..Len(bs) /\ j \in 1..Len(bs) /\ bs[i] = as[i] /\ bs[j] = as[j]
      BY <1>1
    <2> QED BY <2>1, <2>2 DEF Conflict
  <1>4. ~Valid(as) => ~Valid(bs)
    BY <1>1, <1>3 DEF Valid
  <1> QED BY <1>1, <1>2, <1>4 DEF bs

(* A function on 1..n is a sequence of length n.                           *)
LEMMA SeqOf ==
  ASSUME NEW A, NEW n \in Nat, NEW s \in [1..n -> A]
  PROVE  s \in Seq(A) /\ Len(s) = n
  <1>1. s \in Seq(A)
    BY SeqDef
  <1>2. Len(s) \in Nat /\ 1..n = 1..Len(s)
    BY <1>1, LenProperties
  <1>3. \A m, k \in Nat : 1..m = 1..k => m = k
    <2> SUFFICES ASSUME NEW m \in Nat, NEW k \in Nat, 1..m = 1..k, m < k PROVE FALSE
      OBVIOUS
    <2>1. k \in 1..k /\ k \notin 1..m
      OBVIOUS
    <2> QED BY <2>1
  <1> QED BY <1>1, <1>2, <1>3

(* A sequence whose elements are rearranged keeps its type and its length. *)
LEMMA RearrangedTyped ==
  ASSUME NEW A, NEW as \in Seq(A), NEW f \in [1..Len(as) -> 1..Len(as)]
  PROVE  LET bs == [i \in 1..Len(as) |-> as[f[i]]]
         IN  bs \in Seq(A) /\ Len(bs) = Len(as)
  <1> DEFINE n == Len(as)
             bs == [i \in 1..n |-> as[f[i]]]
  <1>1. n \in Nat /\ as \in [1..n -> A]
    BY LenProperties
  <1>2. bs \in [1..n -> A]
    BY <1>1
  <1> QED BY <1>1, <1>2, SeqOf

(* The sort keeps the actions, all of them, and what was checked of them.  *)
LEMMA SortKeepsActions ==
  ASSUME NEW as \in Seq(ActionType), NEW bs \in Reordered(as), Sorted(bs)
  PROVE  /\ bs \in Seq(ActionType)
         /\ Valid(as) => Valid(bs)
         /\ NamesClash(as) => NamesClash(bs)
  <1> DEFINE n == Len(as)
  <1>1. PICK f \in [1..n -> 1..n] :
            /\ \A j \in 1..n : \E i \in 1..n : f[i] = j
            /\ bs = [i \in 1..n |-> as[f[i]]]
    BY DEF Reordered
  <1>2. n \in Nat /\ \A i \in 1..n : as[i] \in ActionType
    BY LenProperties, ElementOfSeq
  <1>3. bs \in Seq(ActionType) /\ Len(bs) = n
    BY <1>1, RearrangedTyped
  <1>4. \A i \in 1..n : bs[i] = as[f[i]] /\ f[i] \in 1..n
    BY <1>1
  <1>5. /\ NamesClash(as) <=> \E i, j \in 1..n :
              as[i].clash # 0 /\ as[j].clash # 0 /\ as[i].clash # as[j].clash
        /\ Conflict(as) <=> \E i, j \in 1..n :
              /\ i # j
              /\ \/ as[i].id = as[j].id
                 \/ as[i].method = as[j].method /\ mountPath(as[i].path) = mountPath(as[j].path)
        /\ Valid(as) <=> (\A i \in 1..n : as[i].sound) /\ ~Conflict(as)
    BY DEF NamesClash, Conflict, Valid
  <1> HIDE DEF n
  <1>6. NamesClash(as) => NamesClash(bs)
    <2> SUFFICES ASSUME NamesClash(as) PROVE NamesClash(bs)
      OBVIOUS
    <2>1. PICK i \in 1..n, j \in 1..n :
             as[i].clash # 0 /\ as[j].clash # 0 /\ as[i].clash # as[j].clash
      BY <1>5
    <2>2. PICK k \in 1..n, l \in 1..n : f[k] = i /\ f[l] = j
      BY <1>1
    <2>3. bs[k] = as[i] /\ bs[l] = as[j]
      BY <1>4, <2>2
    <2>4. k \in 1..Len(bs) /\ l \in 1..Len(bs)
      BY <1>3
    <2>5. bs[k].clash # 0 /\ bs[l].clash # 0 /\ bs[k].clash # bs[l].clash
      BY <2>1, <2>3
    <2> HIDE DEF n
    <2> QED BY <2>4, <2>5 DEF NamesClash
  <1>7. \A i \in 1..n : as[i].id \in Nat
    BY <1>2, DeclarationAssumption DEF ActionType, Compiled, DeclarationType
  <1>8. \A i, j \in 1..n : i < j => f[i] # f[j]
    <2> SUFFICES ASSUME NEW i \in 1..n, NEW j \in 1..n, i < j, f[i] = f[j] PROVE FALSE
      OBVIOUS
    <2>1. bs[i].id < bs[j].id
      BY <1>3 DEF Sorted
    <2>2. bs[i].id = bs[j].id /\ bs[i].id \in Nat
      BY <1>4, <1>7
    <2> QED BY <2>1, <2>2
  <1>9. \A i, j \in 1..n : i # j => f[i] # f[j]
    BY <1>2, <1>8
  <1>10. Conflict(bs) => Conflict(as)
    <2> SUFFICES ASSUME Conflict(bs) PROVE Conflict(as)
      OBVIOUS
    <2>1. PICK i \in 1..n, j \in 1..n :
             /\ i # j
             /\ \/ bs[i].id = bs[j].id
                \/ bs[i].method = bs[j].method /\ mountPath(bs[i].path) = mountPath(bs[j].path)
      BY <1>3 DEF Conflict
    <2>2. f[i] # f[j] /\ f[i] \in 1..n /\ f[j] \in 1..n
      BY <1>4, <1>9, <2>1
    <2>3. \/ as[f[i]].id = as[f[j]].id
          \/ /\ as[f[i]].method = as[f[j]].method
             /\ mountPath(as[f[i]].path) = mountPath(as[f[j]].path)
      BY <1>4, <2>1
    <2> QED BY <1>5, <2>2, <2>3
  <1>11. Valid(as) => Valid(bs)
    BY <1>3, <1>4, <1>5, <1>10 DEF Valid
  <1> QED BY <1>3, <1>6, <1>11

-----------------------------------------------------------------------------
(* Every step keeps the types.                                             *)
LEMMA NextTyped == TypeOK /\ [Next]_vars => TypeOK'
  <1> SUFFICES ASSUME TypeOK, [Next]_vars PROVE TypeOK'
    OBVIOUS
  <1>0. CASE UNCHANGED vars
    BY <1>0 DEF vars, documents, history, TypeOK
  <1>1. ASSUME NEW p \in Proc, Call(p) PROVE TypeOK'
    <2>1. call' \in [Proc -> CallType]
      BY <1>1 DEF Call, TypeOK, CallType
    <2> QED BY <1>1, <2>1 DEF Call, TypeOK, Holding, documents, history
  <1>2. ASSUME NEW p \in Proc, OpenAPIJSON(p) PROVE TypeOK'
    <2>1. \A d \in read' : IsDocument(d)
      BY <1>2 DEF OpenAPIJSON, TypeOK, IsDocument
    <2> QED BY <1>2, <2>1 DEF OpenAPIJSON, TypeOK, documents
  <1>3. ASSUME NEW p \in Proc, Register(p) PROVE TypeOK'
    <2>1. call[p].arg \in Declaration
      BY <1>3 DEF Register, Locks, TypeOK, CallType
    <2>2. actions' \in Seq(ActionType)
      BY <1>3, <2>1, AppendKeepsProblems DEF Register, TypeOK, ActionType
    <2>3. call' \in [Proc -> CallType]
      BY <1>3 DEF Register, Return, TypeOK, CallType, NoCall
    <2> QED
      BY <1>3, <2>2, <2>3, NoneAssumption
      DEF Register, Locks, Return, TypeOK, Holding, documents, history
  <1>4. ASSUME NEW p \in Proc, FreezeRefuses(p) \/ FreezeAgain(p) \/ Handler(p) PROVE TypeOK'
    <2>1. call' \in [Proc -> CallType]
      BY <1>4 DEF FreezeRefuses, FreezeAgain, Handler, Return, TypeOK, CallType, NoCall
    <2> QED
      BY <1>4, <2>1, NoneAssumption
      DEF FreezeRefuses, FreezeAgain, Handler, Locks, Return, TypeOK, Holding, documents, history
  <1>5. ASSUME NEW p \in Proc, FreezeSorts(p) PROVE TypeOK'
    <2>1. actions' \in Seq(ActionType)
      BY <1>5, SortKeepsActions DEF FreezeSorts, TypeOK
    <2> QED
      BY <1>5, <2>1, NoneAssumption DEF FreezeSorts, Locks, TypeOK, Holding, documents, history
  <1>6. ASSUME NEW p \in Proc, BuildRefuses(p) PROVE TypeOK'
    <2>1. call' \in [Proc -> CallType]
      BY <1>6 DEF BuildRefuses, Return, TypeOK, CallType, NoCall
    <2>2. mu = p
      BY <1>6 DEF BuildRefuses, TypeOK, Holding
    <2> QED
      BY <1>6, <2>1, <2>2, NoneAssumption
      DEF BuildRefuses, Return, TypeOK, Holding, documents, history
  <1>7. ASSUME NEW p \in Proc, BuildOpenAPI(p) PROVE TypeOK'
    <2>1. \A d \in {json', index', yaml'} \cup read' : IsDocument(d)
      BY <1>7 DEF BuildOpenAPI, TypeOK, IsDocument, history
    <2> QED BY <1>7, <2>1 DEF BuildOpenAPI, TypeOK, Holding, history, IsDocument
  <1>8. ASSUME NEW p \in Proc, Seal(p) PROVE TypeOK'
    <2>1. call' \in [Proc -> CallType]
      BY <1>8 DEF Seal, Return, TypeOK, CallType, NoCall
    <2>2. mu = p
      BY <1>8 DEF Seal, TypeOK, Holding
    <2>3. \A d \in {json', index', yaml'} \cup read' : IsDocument(d)
      BY <1>8 DEF Seal, TypeOK, IsDocument, history
    <2> QED
      BY <1>8, <2>1, <2>2, <2>3, NoneAssumption
      DEF Seal, Return, TypeOK, Holding, history, IsDocument
  <1>9. ASSUME NEW p \in Proc, OpenAPIYAML(p) PROVE TypeOK'
    <2>1. call' \in [Proc -> CallType]
      BY <1>9 DEF OpenAPIYAML, Return, TypeOK, CallType, NoCall
    <2> QED
      BY <1>9, <2>1, NoneAssumption
      DEF OpenAPIYAML, Locks, Return, TypeOK, Holding, documents, history
  <1>10. ASSUME NEW p \in Proc, EnterOnce(p) \/ LeaveOnce(p) PROVE TypeOK'
    <2>1. call' \in [Proc -> CallType]
      BY <1>10, SMTT(20) DEF EnterOnce, LeaveOnce, TypeOK, CallType, NoCall
    <2>2. CASE EnterOnce(p)
      BY <2>1, <2>2 DEF EnterOnce, TypeOK, Holding, documents, history
    <2>3. CASE LeaveOnce(p)
      BY <2>1, <2>3 DEF LeaveOnce, TypeOK, Holding, documents, history
    <2> QED BY <1>10, <2>2, <2>3
  <1>11. ASSUME NEW p \in Proc, Render(p) PROVE TypeOK'
    <2>1. \A d \in {json', index', yaml'} \cup read' : IsDocument(d)
      BY <1>11 DEF Render, TypeOK, IsDocument, history
    <2> QED BY <1>11, <2>1 DEF Render, TypeOK, Holding, history, IsDocument
  <1> QED
    BY <1>0, <1>1, <1>2, <1>3, <1>4, <1>5, <1>6, <1>7, <1>8, <1>9, <1>10, <1>11
    DEF Next, Progress

(* Every state of Registry is well typed.                                  *)
THEOREM TypeCorrect == Spec => []TypeOK
  <1>1. Init => TypeOK
    BY InitIInv DEF IInv
  <1> QED BY <1>1, NextTyped, PTL DEF Spec

-----------------------------------------------------------------------------
(* What the contract's invariants are made of, typing apart.               *)
Sound ==
    /\ InsideFreeze
    /\ SealedTogether
    /\ RefusalLasts
    /\ SealedSound
    /\ Unsealed
    /\ SealedRead
    /\ TornWhileSealing
    /\ OnceAfterFreeze
    /\ YAMLSettled

(* A step outside Freeze and Register, which touches neither the actions   *)
(* nor the document.                                                       *)
LEMMA CallerNext ==
  ASSUME IInv, NEW p \in Proc,
         Call(p) \/ FreezeAgain(p) \/ Handler(p) \/ OpenAPIYAML(p) \/ EnterOnce(p)
            \/ Render(p) \/ LeaveOnce(p)
  PROVE  Sound'
  <1>1. /\ UNCHANGED <<actions, frozen, json, index, read, refused>>
        /\ \A q \in Proc : pc'[q] \in Holding <=> pc[q] \in Holding
        /\ \A q \in Proc : pc'[q] = "sealing" <=> pc[q] = "sealing"
    BY DEF IInv, TypeOK, Call, FreezeAgain, Handler, OpenAPIYAML, EnterOnce, Render, LeaveOnce,
           Locks, Return, Holding, documents, history
  <1>2. OnceAfterFreeze'
    BY DEF IInv, TypeOK, Call, FreezeAgain, Handler, OpenAPIYAML, EnterOnce, Render, LeaveOnce,
           Return, OnceAfterFreeze, documents, history
  <1>3. YAMLSettled'
    BY DEF IInv, TypeOK, Call, FreezeAgain, Handler, OpenAPIYAML, EnterOnce, Render, LeaveOnce,
           Return, OnceAfterFreeze, YAMLSettled, documents, history
  <1>4. InsideFreeze' /\ Unsealed' /\ TornWhileSealing'
    BY <1>1 DEF IInv, InsideFreeze, Unsealed, TornWhileSealing, Whole
  <1> QED
    BY <1>1, <1>2, <1>3, <1>4
    DEF IInv, Sound, SealedTogether, RefusalLasts, SealedSound, SealedRead, Whole

LEMMA ReaderNext ==
  ASSUME IInv, NEW p \in Proc, OpenAPIJSON(p)
  PROVE  Sound'
  <1>1. UNCHANGED <<actions, frozen, json, index, yaml, once, pc, refused>>
    BY DEF OpenAPIJSON, documents
  <1>2. PICK seen \in IF json = Torn THEN {None, Torn, actions} ELSE {json} :
           read' = read \cup {seen}
    BY DEF OpenAPIJSON
  <1>3. ASSUME frozen, Whole(seen) PROVE seen = json
    BY <1>2, <1>3 DEF IInv, SealedTogether, Whole
  <1>4. ASSUME ~frozen, Whole(seen) PROVE \E q \in Proc : pc[q] = "sealing" /\ seen = actions
    BY <1>2, <1>4 DEF IInv, Unsealed, TornWhileSealing, Whole
  <1>5. Unsealed' /\ SealedRead'
    BY <1>1, <1>2, <1>3, <1>4 DEF IInv, Unsealed, SealedRead, Whole
  <1> QED
    BY <1>1, <1>5
    DEF IInv, Sound, InsideFreeze, SealedTogether, RefusalLasts, SealedSound,
        TornWhileSealing, OnceAfterFreeze, YAMLSettled

LEMMA RegisterNext ==
  ASSUME IInv, NEW p \in Proc, Register(p)
  PROVE  Sound'
  <1>1. /\ UNCHANGED <<frozen, json, index, yaml, once, read, refused>>
        /\ mu = None
        /\ \A q \in Proc : pc'[q] = IF q = p THEN "idle" ELSE pc[q]
    BY DEF IInv, TypeOK, Register, Locks, Return, documents, history
  <1>2. \A q \in Proc : pc[q] \notin Holding
    BY <1>1, NoneAssumption DEF IInv, TypeOK
  <1>3. InsideFreeze' /\ OnceAfterFreeze' /\ YAMLSettled'
    BY <1>1, <1>2 DEF IInv, InsideFreeze, OnceAfterFreeze, YAMLSettled, Holding
  <1>4. Unsealed' /\ SealedRead' /\ TornWhileSealing'
    BY <1>1, <1>2 DEF IInv, Unsealed, SealedRead, TornWhileSealing, Whole, Holding
  <1>5. actions' = IF frozen THEN actions ELSE Append(actions, Compiled(call[p].arg))
    BY DEF Register
  <1>6. Compiled(call[p].arg) \in ActionType
    BY DEF IInv, Register, Locks, TypeOK, CallType, ActionType
  <1>7. RefusalLasts'
    BY <1>1, <1>5, <1>6, AppendKeepsProblems DEF IInv, TypeOK, RefusalLasts
  <1>8. SealedTogether' /\ SealedSound'
    BY <1>1, <1>5 DEF IInv, SealedTogether, SealedSound
  <1> QED BY <1>3, <1>4, <1>7, <1>8 DEF Sound

LEMMA FreezeNext ==
  ASSUME IInv, NEW p \in Proc, FreezeRefuses(p) \/ FreezeSorts(p)
  PROVE  Sound'
  <1>1. /\ UNCHANGED <<frozen, json, index, yaml, once, read>>
        /\ ~frozen
        /\ mu = None
    BY DEF FreezeRefuses, FreezeSorts, Locks, documents, history
  <1>2. \A q \in Proc : pc[q] \notin Holding
    BY <1>1, NoneAssumption DEF IInv, TypeOK
  <1>3. Unsealed' /\ SealedRead' /\ SealedTogether' /\ SealedSound' /\ TornWhileSealing'
    BY <1>1, <1>2
    DEF IInv, Unsealed, SealedRead, SealedTogether, SealedSound, TornWhileSealing, Whole, Holding
  <1>4. \A q \in Proc : pc'[q] = IF q = p THEN pc'[p] ELSE pc[q]
    BY DEF IInv, TypeOK, FreezeRefuses, FreezeSorts, Return
  <1>5. CASE FreezeRefuses(p)
    <2>1. pc'[p] = "idle" /\ actions' = actions /\ refused' /\ ~Valid(actions)
      BY <1>5 DEF FreezeRefuses, Return, IInv, TypeOK
    <2>2. Valid(actions)' <=> Valid(actions)
      BY <2>1 DEF Valid, Conflict, mountPath
    <2> QED
      BY <1>1, <1>2, <1>3, <1>4, <2>1, <2>2
      DEF IInv, Sound, InsideFreeze, RefusalLasts, OnceAfterFreeze, YAMLSettled, Holding
  <1>6. CASE FreezeSorts(p)
    <2>1. /\ pc'[p] = "building"
          /\ refused' = refused
          /\ Valid(actions)
          /\ actions' \in Reordered(actions)
          /\ Sorted(actions')
      BY <1>6 DEF FreezeSorts, history, IInv, TypeOK
    <2>2. Valid(actions') /\ (NamesClash(actions) => NamesClash(actions'))
      BY <2>1, SortKeepsActions DEF IInv, TypeOK
    <2>3. InsideFreeze' /\ RefusalLasts' /\ OnceAfterFreeze' /\ YAMLSettled'
      BY <1>1, <1>2, <1>4, <2>1, <2>2
      DEF IInv, InsideFreeze, RefusalLasts, OnceAfterFreeze, YAMLSettled, Holding
    <2> QED BY <1>3, <2>3 DEF Sound
  <1> QED BY <1>5, <1>6

LEMMA BuildNext ==
  ASSUME IInv, NEW p \in Proc, BuildRefuses(p) \/ BuildOpenAPI(p) \/ Seal(p)
  PROVE  Sound'
  <1>1. pc[p] \in Holding /\ ~frozen /\ Valid(actions) /\ Sorted(actions)
    BY DEF BuildRefuses, BuildOpenAPI, Seal, Holding, IInv, InsideFreeze
  <1>2. \A q \in Proc : q # p => pc[q] \notin Holding /\ pc'[q] = pc[q]
    BY <1>1 DEF IInv, TypeOK, BuildRefuses, BuildOpenAPI, Seal, Return
  <1>3. UNCHANGED <<actions, yaml, once, read>>
    BY DEF BuildRefuses, BuildOpenAPI, Seal, documents, history
  <1>4. CASE BuildRefuses(p)
    <2>1. /\ pc[p] = "building" /\ pc'[p] = "idle" /\ NamesClash(actions)
          /\ UNCHANGED <<frozen, json, index>>
      BY <1>4 DEF BuildRefuses, Return, IInv, TypeOK, documents
    <2> QED
      BY <1>1, <1>2, <1>3, <2>1
      DEF IInv, Sound, InsideFreeze, SealedTogether, RefusalLasts, SealedSound, Unsealed,
          SealedRead, Whole, TornWhileSealing, OnceAfterFreeze, YAMLSettled, Holding
  <1>5. CASE BuildOpenAPI(p)
    <2>1. /\ pc[p] = "building" /\ pc'[p] = "sealing" /\ ~NamesClash(actions)
          /\ UNCHANGED <<frozen, index, refused>> /\ json' = Torn
      BY <1>5 DEF BuildOpenAPI, IInv, TypeOK, history
    <2> QED
      BY <1>1, <1>2, <1>3, <2>1
      DEF IInv, Sound, InsideFreeze, SealedTogether, RefusalLasts, SealedSound, Unsealed,
          SealedRead, Whole, TornWhileSealing, OnceAfterFreeze, YAMLSettled, Holding
  <1>6. CASE Seal(p)
    <2>1. /\ pc[p] = "sealing" /\ pc'[p] = "idle" /\ ~NamesClash(actions)
          /\ frozen' /\ json' = actions /\ index' = actions /\ refused' = refused
      BY <1>6 DEF Seal, Return, IInv, TypeOK, InsideFreeze, Holding, history
    <2>2. once = "new"
      BY <1>1 DEF IInv, TypeOK, YAMLSettled
    <2> QED
      BY <1>1, <1>2, <1>3, <2>1, <2>2
      DEF IInv, Sound, InsideFreeze, SealedTogether, RefusalLasts, SealedSound, Unsealed,
          SealedRead, Whole, TornWhileSealing, OnceAfterFreeze, YAMLSettled, Holding
  <1> QED BY <1>4, <1>5, <1>6

LEMMA IInvNext == IInv /\ [Next]_vars => IInv'
  <1> SUFFICES ASSUME IInv, [Next]_vars PROVE IInv'
    OBVIOUS
  <1>1. TypeOK'
    BY NextTyped DEF IInv
  <1>2. Sound'
    <2>1. CASE UNCHANGED vars
      BY <2>1 DEF IInv, Sound, vars, documents, history, InsideFreeze, SealedTogether,
                  RefusalLasts, SealedSound, Unsealed, SealedRead, Whole,
                  TornWhileSealing, OnceAfterFreeze, YAMLSettled
    <2>2. CASE Next
      BY <2>2, CallerNext, ReaderNext, RegisterNext, FreezeNext, BuildNext DEF Next, Progress
    <2> QED BY <2>1, <2>2
  <1> QED BY <1>1, <1>2 DEF IInv, Sound

(* The contract is sealed as one, whatever calls run at the same time.     *)
THEOREM SealsTogether == Spec => []SealedTogether
  <1>1. IInv => SealedTogether
    BY DEF IInv
  <1> QED BY <1>1, InitIInv, IInvNext, PTL DEF Spec

(* A registry that was refused is never frozen.                            *)
THEOREM RefusesForever == Spec => []RefusedForever
  <1>1. IInv => RefusedForever
    BY DEF IInv, RefusalLasts, SealedTogether, SealedSound, RefusedForever
  <1> QED BY <1>1, InitIInv, IInvNext, PTL DEF Spec

(* The YAML is the JSON, and no early call spoils it.                      *)
THEOREM YAMLSettles == Spec => []YAMLSettled
  <1>1. IInv => YAMLSettled
    BY DEF IInv
  <1> QED BY <1>1, InitIInv, IInvNext, PTL DEF Spec

(* OpenAPIJSON never returns two documents.                                *)
THEOREM ReadsOneDocument == Spec => []OneDocument
  <1>1. IInv => OneDocument
    BY DEF IInv, Unsealed, SealedRead, Whole, OneDocument
  <1> QED BY <1>1, InitIInv, IInvNext, PTL DEF Spec

-----------------------------------------------------------------------------
(* A handler was made of a frozen registry, whose actions stay as they are. *)
HandlersSealed == \A table \in handlers : frozen /\ table = Routes(actions)

LEMMA HandlersNext == IInv /\ HandlersSealed /\ [Next]_vars => HandlersSealed'
  <1> SUFFICES ASSUME IInv, HandlersSealed, [Next]_vars PROVE HandlersSealed'
    OBVIOUS
  <1>1. (frozen => frozen' /\ actions' = actions) /\ handlers' = handlers => HandlersSealed'
    <2> SUFFICES ASSUME frozen => frozen' /\ actions' = actions, handlers' = handlers,
                        NEW table \in handlers
                 PROVE  frozen' /\ table = Routes(actions')
      BY DEF HandlersSealed
    <2> QED BY DEF HandlersSealed
  <1>2. ASSUME NEW p \in Proc, Handler(p) PROVE HandlersSealed'
    <2> SUFFICES ASSUME NEW table \in handlers' PROVE frozen' /\ table = Routes(actions')
      BY DEF HandlersSealed
    <2>1. /\ frozen' = frozen /\ actions' = actions
          /\ handlers' = handlers \/ (frozen /\ handlers' = handlers \cup {Routes(actions)})
      BY <1>2 DEF Handler, documents
    <2> QED BY <2>1 DEF HandlersSealed
  <1>3. ASSUME NEW p \in Proc, BuildRefuses(p) \/ BuildOpenAPI(p) \/ Seal(p) PROVE HandlersSealed'
    <2>1. ~frozen
      BY <1>3 DEF IInv, InsideFreeze, BuildRefuses, BuildOpenAPI, Seal, Holding
    <2> QED BY <1>1, <1>3, <2>1 DEF BuildRefuses, BuildOpenAPI, Seal, history
  <1>4. ASSUME NEW p \in Proc,
               Call(p) \/ OpenAPIJSON(p) \/ Register(p) \/ FreezeRefuses(p) \/ FreezeAgain(p)
                 \/ FreezeSorts(p) \/ OpenAPIYAML(p) \/ EnterOnce(p) \/ Render(p) \/ LeaveOnce(p)
        PROVE  HandlersSealed'
    BY <1>1, <1>4 DEF Call, OpenAPIJSON, Register, FreezeRefuses, FreezeAgain, FreezeSorts,
                      OpenAPIYAML, EnterOnce, Render, LeaveOnce, documents, history
  <1>5. CASE UNCHANGED vars
    BY <1>1, <1>5 DEF vars, history
  <1> QED BY <1>2, <1>3, <1>4, <1>5 DEF Next, Progress

(* Three endpoints of one segment each, which is no parameter.             *)
LEMMA SelfDocsApart ==
         /\ \A i \in 1..3 : SelfDocs[i].method = "GET"
         /\ \A i, j \in 1..3 : i # j => Pattern(SelfDocs[i].path) # Pattern(SelfDocs[j].path)
  <1>1. \A name : SelfDoc(name).path = <<name>> /\ SelfDoc(name).method = "GET"
    BY DEF SelfDoc, NoDeclaration
  <1>2. ASSUME NEW name, name \notin Params PROVE Pattern(<<name>>)[1] = name
    <2> DEFINE path == <<name>>
    <2>1. Len(path) = 1 /\ path[1] = name
      OBVIOUS
    <2> HIDE DEF path
    <2>2. 1 \in 1..Len(path) /\ path[1] \notin Params
      BY <1>2, <2>1
    <2>3. Pattern(path)[1] = path[1]
      BY <2>2, Zenon DEF Pattern
    <2> QED BY <2>1, <2>3 DEF path
  <1>3. /\ SelfDocs[1].path = <<"openapi.json">> /\ SelfDocs[2].path = <<"openapi.yaml">>
        /\ SelfDocs[3].path = <<"_actions">>
        /\ SelfDocs[1].method = "GET" /\ SelfDocs[2].method = "GET" /\ SelfDocs[3].method = "GET"
    BY <1>1 DEF SelfDocs
  <1>4. /\ Pattern(SelfDocs[1].path)[1] = "openapi.json"
        /\ Pattern(SelfDocs[2].path)[1] = "openapi.yaml"
        /\ Pattern(SelfDocs[3].path)[1] = "_actions"
    BY <1>2, <1>3, PathAssumption
  <1> QED BY <1>3, <1>4

(* The table of some actions: theirs in order, then the three.             *)
LEMMA TableOf ==
  ASSUME NEW as \in Seq(ActionType)
  PROVE  /\ Len(as) \in Nat
         /\ Len(Routes(as)) = Len(as) + 3
         /\ \A i \in 1..Len(as) : Routes(as)[i] = RouteOf(as[i])
         /\ \A i \in 1..3 :
               Routes(as)[Len(as) + i] = Route(SelfDocs[i].method, SelfDocs[i].path, SelfDocs[i])
  <1> DEFINE n == Len(as)
             Self(i) == Route(SelfDocs[i].method, SelfDocs[i].path, SelfDocs[i])
             own == [i \in 1..n |-> RouteOf(as[i])]
             self == [i \in 1..3 |-> Self(i)]
             R == {RouteOf(as[i]) : i \in 1..n} \cup {Self(i) : i \in 1..3}
  <1>1. n \in Nat
    BY LenProperties
  <1>2. Routes(as) = own \o self
    BY DEF Routes
  <1>3. /\ own \in [1..n -> R] /\ \A i \in 1..n : own[i] = RouteOf(as[i])
        /\ self \in [1..3 -> R] /\ \A i \in 1..3 : self[i] = Self(i)
    OBVIOUS
  <1> HIDE DEF own, self, R, n, Self
  <1>4. own \in Seq(R) /\ Len(own) = n /\ self \in Seq(R) /\ Len(self) = 3
    BY <1>1, <1>3, SeqOf
  <1>5. /\ Len(own \o self) = n + 3
        /\ \A i \in 1..(n + 3) : (own \o self)[i] = IF i <= n THEN own[i] ELSE self[i - n]
    <2>1. /\ Len(own \o self) = Len(own) + Len(self)
          /\ \A i \in 1..Len(own) + Len(self) : (own \o self)[i] =
                IF i <= Len(own) THEN own[i] ELSE self[i - Len(own)]
      BY <1>4, ConcatProperties
    <2> QED BY <1>4, <2>1
  <1> DEFINE table == own \o self
  <1>6. Routes(as) = table
    BY <1>2
  <1> HIDE DEF table
  <1>7. /\ Len(table) = n + 3
        /\ \A i \in 1..(n + 3) : table[i] = IF i <= n THEN own[i] ELSE self[i - n]
    BY <1>5 DEF table
  <1>8. \A i \in 1..n : table[i] = RouteOf(as[i])
    <2> TAKE i \in 1..n
    <2>1. i \in 1..(n + 3) /\ i <= n
      BY <1>1
    <2> QED BY <1>3, <1>7, <2>1
  <1>9. \A i \in 1..3 : table[n + i] = Self(i)
    <2> TAKE i \in 1..3
    <2>1. n + i \in 1..(n + 3) /\ ~(n + i <= n) /\ (n + i) - n = i
      BY <1>1
    <2> QED BY <1>3, <1>7, <2>1
  <1> QED BY <1>1, <1>6, <1>7, <1>8, <1>9 DEF n, Self

(* What comes after the n routes of the actions is one of the three.       *)
LEMMA OwnIndex ==
  ASSUME NEW n \in Nat, NEW i \in Nat, i > n, i <= n + 3
  PROVE  \E k \in 1..3 : i = n + k
  <1>1. i - n \in 1..3 /\ i = n + (i - n)
    OBVIOUS
  <1> QED BY <1>1

(* A route of a checked table is taken over by a later one only if it is   *)
(* that of a twin or of an endpoint of the registry's own.                 *)
LEMMA TableServes ==
  ASSUME NEW as \in Seq(ActionType), Valid(as)
  PROVE  /\ \A i \in 1..Len(Routes(as)) :
               Routes(as)[i].to \in {as[j] : j \in 1..Len(as)} \cup {SelfDocs[j] : j \in 1..3}
         /\ \A i \in 1..Len(as) :
               \/ Serves(Routes(as), RouteOf(as[i]))
               \/ \E j \in i + 1..Len(as) : Twins(as[i], as[j])
               \/ OnOwnEndpoint(as[i])
         /\ \A i \in 1..3 : Serves(Routes(as), Route("GET", SelfDocs[i].path, SelfDocs[i]))
  <1> DEFINE n == Len(as)
             table == Routes(as)
  <1>1. /\ n \in Nat /\ Len(table) = n + 3
        /\ \A i \in 1..n : table[i] = RouteOf(as[i])
        /\ \A i \in 1..3 : table[n + i] = Route("GET", SelfDocs[i].path, SelfDocs[i])
    BY TableOf, SelfDocsApart
  <1>2. \A i, j \in 1..n : i # j =>
           ~(as[i].method = as[j].method /\ mountPath(as[i].path) = mountPath(as[j].path))
    BY DEF Valid, Conflict
  <1>3. /\ \A a : /\ RouteOf(a).method = a.method
                  /\ RouteOf(a).pattern = Pattern(mountPath(a.path))
                  /\ RouteOf(a).to = a
        /\ \A d : /\ Route("GET", d.path, d).method = "GET"
                  /\ Route("GET", d.path, d).pattern = Pattern(d.path)
                  /\ Route("GET", d.path, d).to = d
    BY DEF RouteOf, Route
  <1> HIDE DEF n, table
  <1>4. ASSUME NEW i \in 1..Len(table)
        PROVE  table[i].to \in {as[j] : j \in 1..n} \cup {SelfDocs[j] : j \in 1..3}
    <2>1. CASE i <= n
      <3>1. i \in 1..n
        BY <1>1, <2>1
      <3>2. table[i].to = as[i]
        BY <1>1, <1>3, <3>1, Zenon
      <3> QED BY <3>1, <3>2
    <2>2. CASE i > n
      <3>1. PICK k \in 1..3 : i = n + k
        BY <1>1, <2>2, OwnIndex
      <3>2. table[i].to = SelfDocs[k]
        BY <1>1, <1>3, <3>1, Zenon
      <3> QED BY <3>2
    <2>3. i <= n \/ i > n
      BY <1>1
    <2> QED BY <2>1, <2>2, <2>3
  <1>5. ASSUME NEW i \in 1..n, NEW j \in i + 1..n + 3,
               table[j].method = RouteOf(as[i]).method, table[j].pattern = RouteOf(as[i]).pattern
        PROVE  (\E k \in i + 1..n : Twins(as[i], as[k])) \/ OnOwnEndpoint(as[i])
    <2>1. /\ RouteOf(as[i]).method = as[i].method
          /\ RouteOf(as[i]).pattern = Pattern(mountPath(as[i].path))
      BY <1>3
    <2>2. CASE j <= n
      <3>1. j \in 1..n /\ j # i /\ j \in i + 1..n
        BY <1>1, <2>2
      <3>2. /\ table[j].method = as[j].method
            /\ table[j].pattern = Pattern(mountPath(as[j].path))
        BY <1>1, <1>3, <3>1
      <3>3. ~(as[i].method = as[j].method /\ mountPath(as[i].path) = mountPath(as[j].path))
        BY <1>2, <3>1
      <3>4. Twins(as[i], as[j])
        BY <1>5, <2>1, <3>2, <3>3, Zenon DEF Twins
      <3> QED BY <3>1, <3>4
    <2>3. CASE j > n
      <3>1. PICK k \in 1..3 : j = n + k
        BY <1>1, <2>3, OwnIndex
      <3>2. table[j].method = "GET" /\ table[j].pattern = Pattern(SelfDocs[k].path)
        <4>1. table[n + k] = Route("GET", SelfDocs[k].path, SelfDocs[k])
          BY <1>1
        <4>2. table[j] = Route("GET", SelfDocs[k].path, SelfDocs[k])
          BY <4>1, <3>1
        <4> QED BY <1>3, <4>2, Zenon
      <3>3. OnOwnEndpoint(as[i])
        BY <1>5, <2>1, <3>2, Zenon DEF OnOwnEndpoint
      <3> QED BY <3>3
    <2>4. j <= n \/ j > n
      BY <1>1
    <2> QED BY <2>2, <2>3, <2>4
  <1>6. ASSUME NEW i \in 1..3, NEW j \in (n + i) + 1..n + 3
        PROVE  table[j].pattern # Pattern(SelfDocs[i].path)
    <2>1. j - n \in 1..3 /\ j = n + (j - n) /\ j - n # i
      BY <1>1
    <2>2. table[j].pattern = Pattern(SelfDocs[j - n].path)
      BY <1>1, <1>3, <2>1
    <2> QED BY <2>1, <2>2, SelfDocsApart
  <1>7. ASSUME NEW i \in 1..n
        PROVE  \/ Serves(table, RouteOf(as[i]))
               \/ \E j \in i + 1..n : Twins(as[i], as[j])
               \/ OnOwnEndpoint(as[i])
    <2> SUFFICES ASSUME ~(\E j \in i + 1..n : Twins(as[i], as[j])), ~OnOwnEndpoint(as[i])
                 PROVE  Serves(table, RouteOf(as[i]))
      OBVIOUS
    <2>0. i \in 1..n + 3
      BY <1>1
    <2>1. i \in 1..Len(table) /\ table[i] = RouteOf(as[i])
      BY <1>1, <2>0, Zenon
    <2>2. \A j \in i + 1..Len(table) :
             ~(table[j].method = RouteOf(as[i]).method /\ table[j].pattern = RouteOf(as[i]).pattern)
      BY <1>1, <1>5
    <2> QED BY <2>1, <2>2, Zenon DEF Serves
  <1>8. \A i \in 1..3 : Serves(table, Route("GET", SelfDocs[i].path, SelfDocs[i]))
    <2> TAKE i \in 1..3
    <2>1. n + i \in 1..Len(table)
      BY <1>1
    <2> QED BY <1>1, <1>3, <1>6, <2>1 DEF Serves
  <1> QED BY <1>4, <1>7, <1>8 DEF n, table

(* Every handler serves what the document describes, for any declarations, *)
(* but for what a twin later in the document or one of the registry's own  *)
(* endpoints takes over, and serves nothing else.                          *)
THEOREM ServesDocuments == Spec => []ServesAllButTwins
  <1>1. Init => HandlersSealed
    BY DEF Init, HandlersSealed
  <1>2. IInv /\ HandlersSealed => ServesAllButTwins
    <2> SUFFICES ASSUME IInv, NEW table \in handlers, frozen, table = Routes(actions)
                 PROVE  /\ \A i \in 1..Len(table) :
                              table[i].to \in {json[j] : j \in 1..Len(json)} \cup {SelfDocs[j] : j \in 1..3}
                        /\ \A i \in 1..Len(json) :
                              \/ Serves(table, RouteOf(json[i]))
                              \/ \E j \in i + 1..Len(json) : Twins(json[i], json[j])
                              \/ OnOwnEndpoint(json[i])
                        /\ \A i \in 1..3 : Serves(table, Route("GET", SelfDocs[i].path, SelfDocs[i]))
      BY DEF HandlersSealed, ServesAllButTwins
    <2>1. json = actions /\ Valid(actions) /\ actions \in Seq(ActionType)
      BY DEF IInv, SealedTogether, TypeOK
    <2> QED BY <2>1, TableServes, Zenon
  <1> QED BY <1>1, <1>2, InitIInv, IInvNext, HandlersNext, PTL DEF Spec
=============================================================================
