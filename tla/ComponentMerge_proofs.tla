----------------------- MODULE ComponentMerge_proofs ------------------------
(***************************************************************************)
(* Proofs about ComponentMerge, for any components, however they refer to  *)
(* one another, and any order of the scans.  The names marked are the      *)
(* least closed set, as in Validation_proofs; that they are closed is what *)
(* lets one schema serve both modes for the names left unmarked            *)
(* (EmitReads).                                                            *)
(***************************************************************************)
EXTENDS ComponentMerge, TLAPS

(* No closed set leaves out a marked name, and every name whose own        *)
(* schemas differ is marked.                                               *)
Least ==
    /\ \A S \in SUBSET Both : Closed(S) => differs \subseteq S
    /\ \A n \in Both : request[n] # response[n] => n \in differs

(* A scan that has marked nothing so far has passed only names that are    *)
(* marked or refer to none.                                                *)
Scanned ==
    phase = "scan" /\ ~changed =>
        \A n \in Both \ pending : refs[n] \cap differs # {} => n \in differs

IInv ==
    /\ TypeOK
    /\ Least
    /\ Scanned
    /\ phase # "scan" => Closed(differs)
    /\ ReadsAsBuilt

-----------------------------------------------------------------------------
LEMMA InitIInv == Init => IInv
<1> SUFFICES ASSUME Init PROVE IInv
  OBVIOUS
<1> USE DEF Init
<1>1. DOMAIN request \in Interned /\ DOMAIN response \in Interned
  OBVIOUS
<1>2. TypeOK
  BY <1>1 DEF TypeOK
<1>3. Least
  BY DEF Least, Closed
<1> QED
  BY <1>2, <1>3 DEF IInv, Scanned, ReadsAsBuilt

(* What is closed depends on the schemas alone.                            *)
LEMMA SchemasKept ==
    ASSUME UNCHANGED built
    PROVE  /\ Both' = Both
           /\ Interned' = Interned
           /\ \A S : (\A n \in Both' : request'[n] # response'[n] \/ refs'[n] \cap S # {} => n \in S) <=> Closed(S)
  BY DEF built, Both, Interned, Closed

LEMMA LookKeeps == ASSUME IInv, NEW x \in Name, Look(x) PROVE IInv'
<1>1. UNCHANGED built /\ phase = "scan" /\ phase' = "scan" /\ x \in pending /\ pending' = pending \ {x}
  BY DEF Look
<1>2. pending \subseteq Both /\ differs \subseteq Both
  BY DEF IInv, TypeOK
<1>3. Both' = Both /\ Interned' = Interned
  BY <1>1, SchemasKept
<1>4. refs' = refs /\ request' = request /\ response' = response
  BY <1>1 DEF built
<1>5. differs' = differs \/ (differs' = differs \cup {x} /\ changed' = TRUE /\ refs[x] \cap differs # {})
  BY DEF Look
<1>6. differs' \subseteq Both
  BY <1>1, <1>2, <1>5
<1>7. TypeOK'
  BY <1>1, <1>2, <1>3, <1>4, <1>6 DEF Look, IInv, TypeOK
<1>8. Least'
  <2>1. ASSUME NEW S \in SUBSET Both, Closed(S)' PROVE differs' \subseteq S
    <3>1. Closed(S)
      BY <1>3, <1>4, <2>1 DEF Closed
    <3>2. differs \subseteq S
      BY <3>1 DEF IInv, Least
    <3>3. refs[x] \cap differs # {} => x \in S
      BY <1>1, <1>2, <3>1, <3>2 DEF Closed
    <3> QED
      BY <1>5, <3>2, <3>3
  <2>2. \A n \in Both : request[n] # response[n] => n \in differs'
    BY <1>5 DEF IInv, Least
  <2> QED
    BY <1>3, <1>4, <2>1, <2>2 DEF Least
<1>9. Scanned'
  <2> SUFFICES ASSUME ~changed', NEW n \in Both \ pending', refs[n] \cap differs' # {}
               PROVE  n \in differs'
    BY <1>3, <1>4 DEF Scanned
  <2>1. ~changed /\ differs' = differs /\ (x \in differs \/ refs[x] \cap differs = {})
    BY DEF Look
  <2> QED
    BY <1>1, <2>1 DEF IInv, Scanned
<1> QED
  BY <1>1, <1>7, <1>8, <1>9 DEF IInv, ReadsAsBuilt

(* A scan that marked nothing leaves the marked names closed.              *)
LEMMA ScanEndsKeeps == ASSUME IInv, ScanEnds PROVE IInv'
<1>1. UNCHANGED built /\ phase = "scan" /\ differs' = differs /\ pending = {}
  BY DEF ScanEnds
<1>2. Both' = Both /\ Interned' = Interned
  BY <1>1, SchemasKept
<1>3. refs' = refs /\ request' = request /\ response' = response
  BY <1>1 DEF built
<1>4. TypeOK'
  BY <1>1, <1>2, <1>3 DEF ScanEnds, IInv, TypeOK
<1>5. Least'
  BY <1>1, <1>2, <1>3 DEF IInv, Least, Closed
<1>6. Scanned'
  BY <1>2 DEF ScanEnds, Scanned
<1>7. phase' # "scan" => Closed(differs)
  <2>1. phase' # "scan" => ~changed
    BY <1>1 DEF ScanEnds
  <2> QED
    BY <1>1, <2>1 DEF IInv, Least, Scanned, Closed
<1>8. phase' # "scan" => Closed(differs)'
  BY <1>1, <1>2, <1>3, <1>7 DEF Closed
<1>9. phase' # "done"
  BY <1>1 DEF ScanEnds
<1> QED
  BY <1>4, <1>5, <1>6, <1>8, <1>9 DEF IInv, ReadsAsBuilt

(* An Input name that is not taken is the request's of one type alone.     *)
LEMMA TargetsApart ==
    ASSUME TypeOK, ~Taken, NEW n \in DOMAIN request
    PROVE  OfRequest(Target(n)) = n
<1>1. DOMAIN request \subseteq Name /\ differs \subseteq DOMAIN request
  BY DEF TypeOK, Interned, Both
<1>2. ASSUME NEW m \in DOMAIN request, Target(m) = Target(n) PROVE m = n
  BY <1>1, <1>2, InputAssumption DEF Target, Taken
<1>3. OfRequest(Target(n)) = CHOOSE m \in DOMAIN request : Target(m) = Target(n)
  BY DEF OfRequest
<1> QED
  BY <1>2, <1>3

LEMMA EmitReads == ASSUME IInv, Emit PROVE ReadsAsBuilt'
<1> DEFINE domain == DOMAIN response \cup (DOMAIN request \ Both) \cup Inputs
<1>1. /\ UNCHANGED built /\ differs' = differs /\ ~Taken
      /\ doc' = [d \in domain |->
                    IF d \in DOMAIN response THEN Schema(response[d], refs[d])
                    ELSE RequestSchema(OfRequest(d))]
  BY DEF Emit
<1>2. refs' = refs /\ request' = request /\ response' = response
  BY <1>1 DEF built
<1>3. \A n : Target(n)' = Target(n)
  BY <1>1 DEF Target
<1>4. ASSUME NEW n \in DOMAIN response
      PROVE  n \in DOMAIN doc' /\ doc'[n] = Schema(response[n], refs[n])
  BY <1>1
<1>5. ASSUME NEW n \in DOMAIN request
      PROVE  Target(n) \in DOMAIN doc' /\ doc'[Target(n)] = RequestSchema(n)
  <2>1. TypeOK /\ Closed(differs)
    BY DEF IInv, Emit
  <2>2. OfRequest(Target(n)) = n
    BY <1>1, <2>1, TargetsApart
  <2>3. CASE n \in differs
    <3>1. Target(n) = InputOf[n] /\ Target(n) \in Inputs /\ Target(n) \notin DOMAIN response
      BY <1>1, <2>3 DEF Target, Inputs, Taken
    <3> QED
      BY <1>1, <2>2, <3>1
  <2>4. CASE n \notin differs /\ n \in DOMAIN response
    <3>1. Target(n) = n /\ n \in Both
      BY <2>4 DEF Target, Both
    <3>2. request[n] = response[n] /\ refs[n] \cap differs = {}
      BY <2>1, <2>4, <3>1 DEF Closed
    <3>3. {Target(m) : m \in refs[n]} = refs[n]
      BY <3>2 DEF Target
    <3>4. Schema(response[n], refs[n]) = RequestSchema(n)
      BY <3>2, <3>3 DEF RequestSchema
    <3> QED
      BY <1>4, <2>4, <3>1, <3>4
  <2>5. CASE n \notin differs /\ n \notin DOMAIN response
    <3>1. Target(n) = n /\ n \in domain
      BY <2>5 DEF Target, Both
    <3> QED
      BY <1>1, <2>2, <2>5, <3>1
  <2> QED
    BY <2>3, <2>4, <2>5
<1> QED
  BY <1>2, <1>3, <1>4, <1>5 DEF ReadsAsBuilt, RequestSchema

LEMMA NextIInv == IInv /\ [Next]_vars => IInv'
<1> SUFFICES ASSUME IInv, [Next]_vars PROVE IInv'
  OBVIOUS
<1>1. ASSUME UNCHANGED <<built, differs>>, phase # "scan", phase' # "scan",
             UNCHANGED <<pending, changed>>, phase' \in {"done", "panic"} \/ phase' = phase, ReadsAsBuilt'
      PROVE  IInv'
  <2>1. Both' = Both /\ Interned' = Interned
    BY <1>1, SchemasKept
  <2>2. refs' = refs /\ request' = request /\ response' = response /\ differs' = differs
    BY <1>1 DEF built
  <2>3. TypeOK'
    BY <1>1, <2>1, <2>2 DEF IInv, TypeOK
  <2>4. Least' /\ Closed(differs)'
    BY <1>1, <2>1, <2>2 DEF IInv, Least, Closed
  <2> QED
    BY <1>1, <2>3, <2>4 DEF IInv, Scanned
<1>2. CASE \E n \in Name : Look(n)
  BY <1>2, LookKeeps
<1>3. CASE ScanEnds
  BY <1>3, ScanEndsKeeps
<1>4. CASE Panics
  <2>1. ReadsAsBuilt'
    BY <1>4 DEF Panics, ReadsAsBuilt
  <2> QED
    BY <1>1, <1>4, <2>1 DEF Panics
<1>5. CASE Emit
  BY <1>1, <1>5, EmitReads DEF Emit
<1>6. CASE UNCHANGED vars
  BY <1>6 DEF vars, built, IInv, TypeOK, Interned, Both, Least, Closed, Scanned, ReadsAsBuilt, Target, Schema
<1> QED
  BY <1>2, <1>3, <1>4, <1>5, <1>6 DEF Next

-----------------------------------------------------------------------------
(* Exactly the names whose schemas have to be split are marked, in         *)
(* whatever order the names are looked at (modesDiffer).                   *)
THEOREM MarkingExact == Spec => []DiffersIsExact
<1>1. IInv => DiffersIsExact
  BY DEF IInv, Least, DiffersIsExact
<1> QED
  BY <1>1, InitIInv, NextIInv, PTL DEF Spec

(* A finished document gives a reader from either side the schemas of that *)
(* side, at every depth (components).                                      *)
THEOREM DocumentReadsAsBuilt == Spec => []ReadsAsBuilt
<1>1. IInv => ReadsAsBuilt
  BY DEF IInv
<1> QED
  BY <1>1, InitIInv, NextIInv, PTL DEF Spec
=============================================================================
