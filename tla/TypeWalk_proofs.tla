--------------------------- MODULE TypeWalk_proofs --------------------------
(***************************************************************************)
(* Proofs about the declaration check's walk and the schema builder's, for *)
(* any graph of types.                                                     *)
(*                                                                         *)
(* While the check lasts, a type in c.seen that is not walked to the end   *)
(* has a call under way that will go on with it (Walked), and an inlined   *)
(* struct in c.inlining leads to the type at hand with no component in     *)
(* between (Encloses), in each of the calls under way (IInv).  When all    *)
(* types are inlined, those walked to the end hold no cycle (SInv).        *)
(*                                                                         *)
(* While a schema is built, each call is for the type of a field of the    *)
(* one before, a type with a name is called for once, and the types called *)
(* for have the schemas of their fields or a call that will go on with     *)
(* them (BInv).  So a recursion that never ends goes round a cycle with no *)
(* named type on it, and one that ends has interned what it refers to.     *)
(***************************************************************************)
EXTENDS TypeWalk, SequenceTheorems, FiniteSetTheorems, TLAPS

Frames == [type : Type, next : Nat \ {0}, enclosing : SUBSET Type]

GraphTyped ==
    /\ kind \in [Type -> Kinds]
    /\ \A t \in Type : kids[t] \in Seq(Type)
    /\ response \in Type \cup {None}

WalkTyped ==
    /\ stack \in Seq(Frames) /\ Len(stack) \in Nat \ {0}
    /\ seen \subseteq Type
    /\ inlining \subseteq Type
    /\ Root \in seen
    /\ \A i \in 1..Len(stack) : stack[i].type \in seen

(* A type seen has been walked to the end, or has a call under way that    *)
(* has walked the fields before the one it is at.                          *)
Walked ==
    \A t \in seen :
        \/ Kids(t) \subseteq seen
        \/ \E i \in 1..Len(stack) :
              stack[i].type = t /\ \A j \in 1..(stack[i].next - 1) : kids[t][j] \in seen

(* c.inlining in the call i.                                               *)
Inlining(i) == IF i = Len(stack) THEN inlining ELSE stack[i + 1].enclosing

ClosedInline(S) == \A u \in S : InlineKids(u) \subseteq S

Encloses ==
    \A i \in 1..Len(stack) : \A u \in Inlining(i) : kind[u] = "inlined" /\ LeadsTo(u, stack[i].type)

(* Only what the fields lead to is seen.                                   *)
ClosedKids(S) == Declared \subseteq S /\ \A u \in S : Kids(u) \subseteq S
SeenReachable == \A S \in SUBSET Type : ClosedKids(S) => seen \subseteq S

Phases == {"check", "accepted", "build", "refused", "done", "overflow"}

IInv ==
    /\ phase \in Phases
    /\ GraphTyped
    /\ phase = "check" => WalkTyped /\ Walked /\ Encloses /\ SeenReachable
    /\ AllTypesChecked
    /\ RefusalJustified

-----------------------------------------------------------------------------
LEMMA InitIInv == Init => IInv
<1> SUFFICES ASSUME Init PROVE IInv
  OBVIOUS
<1> USE DEF Init
<1>1. GraphTyped
  <2>1. \A t \in Type : kids[t] \in KidsOf(kind[t])
    OBVIOUS
  <2>2. \A k : KidsOf(k) \subseteq Seq(Type)
    BY BoundsAssumption DEF KidsOf
  <2> QED
    BY <2>1, <2>2 DEF GraphTyped
<1>2. stack = <<Frame(Root, {})>> /\ Frame(Root, {}) \in Frames
  BY RootAssumption DEF Frame, Frames
<1>3. stack \in Seq(Frames) /\ Len(stack) = 1 /\ stack[1] = Frame(Root, {})
  BY <1>2
<1>4. WalkTyped
  BY <1>3, RootAssumption DEF WalkTyped, Frame
<1>5. Walked
  BY <1>3 DEF Walked, Frame
<1>6. Encloses
  BY <1>3 DEF Encloses, Inlining, LeadsTo, Frame
<1>7. SeenReachable
  BY RootAssumption DEF SeenReachable, ClosedKids, Declared
<1> QED
  BY <1>1, <1>4, <1>5, <1>6, <1>7 DEF IInv, Phases, AllTypesChecked, RefusalJustified

-----------------------------------------------------------------------------
(* The call under way, and the field it is at.                             *)
LEMMA TopTyped ==
    ASSUME GraphTyped, WalkTyped
    PROVE  /\ Len(stack) \in 1..Len(stack)
           /\ Top \in Frames /\ Top.type \in seen /\ Top.type \in Type
           /\ Len(kids[Top.type]) \in Nat
           /\ AtKid => Kid \in Type /\ Kid \in Kids(Top.type)
<1>1. Len(stack) \in 1..Len(stack)
  BY DEF WalkTyped
<1>2. Top \in Frames
  BY <1>1, ElementOfSeq DEF WalkTyped, Top
<1>3. Top.type \in seen /\ Top.type \in Type /\ Top.next \in Nat \ {0}
  BY <1>1, <1>2 DEF WalkTyped, Top, Frames
<1>4. kids[Top.type] \in Seq(Type)
  BY <1>3 DEF GraphTyped
<1>5. Len(kids[Top.type]) \in Nat /\ \A i \in 1..Len(kids[Top.type]) : kids[Top.type][i] \in Type
  BY <1>4, ElementOfSeq, LenProperties
<1>6. AtKid => Kid \in Type /\ Kid \in Kids(Top.type)
  BY <1>3, <1>5 DEF AtKid, Kid, Kids
<1> QED
  BY <1>1, <1>2, <1>3, <1>5, <1>6

(* The call goes on to its next field.                                     *)
LEMMA Advances ==
    ASSUME GraphTyped, WalkTyped
    PROVE  /\ Advance \in Seq(Frames) /\ Len(Advance) = Len(stack)
           /\ \A i \in 1..Len(stack) :
                 /\ Advance[i].type = stack[i].type
                 /\ Advance[i].enclosing = stack[i].enclosing
                 /\ Advance[i].next = IF i = Len(stack) THEN stack[i].next + 1 ELSE stack[i].next
<1> DEFINE moved == [Top EXCEPT !.next = @ + 1]
<1>1. Len(stack) \in 1..Len(stack) /\ Top \in Frames
  BY TopTyped
<1>2. moved \in Frames /\ moved.type = Top.type /\ moved.enclosing = Top.enclosing /\ moved.next = Top.next + 1
  BY <1>1 DEF Frames
<1>3. Advance = [stack EXCEPT ![Len(stack)] = moved]
  BY <1>1 DEF Advance, Top, WalkTyped
<1> HIDE DEF moved
<1>4. Advance \in Seq(Frames) /\ Len(Advance) = Len(stack)
      /\ \A i \in 1..Len(stack) : Advance[i] = IF i = Len(stack) THEN moved ELSE stack[i]
  BY <1>1, <1>2, <1>3, ExceptSeq DEF WalkTyped
<1> QED
  BY <1>2, <1>4 DEF Top

(* A call that has walked a field it is at need not come back to it.       *)
LEMMA AdvancedWalked ==
    ASSUME GraphTyped, WalkTyped, Walked, AtKid, NEW t \in seen
    PROVE  \/ Kids(t) \subseteq seen
           \/ \E i \in 1..Len(stack) :
                /\ Advance[i].type = t
                /\ \A j \in 1..(Advance[i].next - 1) : kids[t][j] \in seen \cup {Kid}
<1> SUFFICES ASSUME ~(Kids(t) \subseteq seen)
             PROVE  \E i \in 1..Len(stack) :
                      /\ Advance[i].type = t
                      /\ \A j \in 1..(Advance[i].next - 1) : kids[t][j] \in seen \cup {Kid}
  OBVIOUS
<1>1. PICK i \in 1..Len(stack) :
        stack[i].type = t /\ \A j \in 1..(stack[i].next - 1) : kids[t][j] \in seen
  BY DEF Walked
<1>2. stack[i] \in Frames /\ stack[i].next \in Nat \ {0}
  <2>1. stack[i] \in Frames
    BY <1>1, ElementOfSeq DEF WalkTyped
  <2> QED
    BY <2>1 DEF Frames
<1>3. /\ Advance[i].type = t
      /\ Advance[i].next = IF i = Len(stack) THEN stack[i].next + 1 ELSE stack[i].next
  BY <1>1, Advances
<1>4. CASE i = Len(stack)
  <2>1. kids[t][stack[i].next] = Kid
    BY <1>1, <1>4 DEF Kid, Top
  <2>2. \A j \in 1..(Advance[i].next - 1) : j \in 1..(stack[i].next - 1) \/ j = stack[i].next
    BY <1>2, <1>3, <1>4
  <2>3. \A j \in 1..(Advance[i].next - 1) : kids[t][j] \in seen \cup {Kid}
    BY <1>1, <2>1, <2>2
  <2> QED
    BY <1>3, <2>3
<1>5. CASE i # Len(stack)
  BY <1>1, <1>3, <1>5
<1> QED
  BY <1>4, <1>5

(* A field whose type is walked already, or need not be.                   *)
LEMMA SkipKeeps == ASSUME IInv, SkipSeen PROVE IInv'
<1>1. /\ phase = "check" /\ phase' = "check" /\ AtKid /\ Kid \in seen
      /\ GraphTyped /\ WalkTyped /\ Walked /\ Encloses /\ SeenReachable
      /\ stack' = Advance /\ UNCHANGED <<kind, kids, response, seen, inlining>>
  BY DEF IInv, SkipSeen, graph
<1>2. GraphTyped'
  BY <1>1 DEF GraphTyped
<1>3. /\ stack' \in Seq(Frames) /\ Len(stack') = Len(stack)
      /\ \A i \in 1..Len(stack) :
            stack'[i].type = stack[i].type /\ stack'[i].enclosing = stack[i].enclosing
  BY <1>1, Advances
<1>4. WalkTyped'
  BY <1>1, <1>3 DEF WalkTyped, Frames
<1>5. Walked'
  <2> SUFFICES ASSUME NEW t \in seen
               PROVE  \/ Kids(t) \subseteq seen
                      \/ \E i \in 1..Len(stack) :
                            stack'[i].type = t /\ \A j \in 1..(stack'[i].next - 1) : kids[t][j] \in seen
    BY <1>1, <1>3 DEF Walked, Kids
  <2>1. seen \cup {Kid} = seen
    BY <1>1
  <2> QED
    BY <1>1, <2>1, AdvancedWalked
<1>6. Encloses'
  <2>1. \A i \in 1..Len(stack) : Inlining(i)' = Inlining(i)
    BY <1>1, <1>3 DEF Inlining, WalkTyped
  <2>2. \A u, t : LeadsTo(u, t)' <=> LeadsTo(u, t)
    BY <1>1 DEF LeadsTo, ClosedInline, InlineKids, Kids, Components
  <2> QED
    BY <1>1, <1>3, <2>1, <2>2 DEF Encloses
<1>7. SeenReachable'
  BY <1>1 DEF SeenReachable, ClosedKids, Kids, Declared
<1> QED
  BY <1>1, <1>2, <1>4, <1>5, <1>6, <1>7 DEF IInv, Phases, AllTypesChecked, RefusalJustified

(* What leads to a struct leads on to the fields whose schemas are written *)
(* in its own.                                                             *)
LEMMA LeadsOn ==
    ASSUME GraphTyped, NEW u \in Type, NEW t \in Type, LeadsTo(u, t),
           NEW v \in InlineKids(t)
    PROVE  \A S \in SUBSET Type : InlineKids(u) \subseteq S /\ ClosedInline(S) => v \in S
  BY DEF LeadsTo, ClosedInline

(* A call for a type met for the first time.                               *)
LEMMA EnterKeeps == ASSUME IInv, Enter PROVE IInv'
<1> DEFINE n == Len(stack)
           f == Frame(Kid, inlining)
<1>1. /\ phase = "check" /\ phase' = "check" /\ AtKid
      /\ GraphTyped /\ WalkTyped /\ Walked /\ Encloses /\ SeenReachable
      /\ stack' = Append(Advance, f) /\ seen' = seen \cup {Kid} /\ inlining' = Inside(Kid, inlining)
      /\ UNCHANGED <<kind, kids, response>>
  BY DEF IInv, Enter, graph
<1>2. GraphTyped'
  BY <1>1 DEF GraphTyped
<1>3. /\ n \in Nat \ {0} /\ Kid \in Type /\ Kid \in Kids(Top.type)
      /\ Top.type \in seen /\ Top.type \in Type
  BY <1>1, TopTyped DEF WalkTyped
<1>4. f \in Frames /\ f.type = Kid /\ f.next = 1 /\ f.enclosing = inlining
  BY <1>1, <1>3 DEF Frame, Frames, WalkTyped
<1> HIDE DEF f
<1>5. /\ stack' \in Seq(Frames) /\ Len(stack') = n + 1
      /\ stack'[n + 1] = f
      /\ \A i \in 1..n : stack'[i] = Advance[i]
  BY <1>1, <1>4, Advances, AppendProperties
<1>6. \A i \in 1..n : stack'[i].type = stack[i].type /\ stack'[i].enclosing = stack[i].enclosing
  BY <1>1, <1>5, Advances
<1>7. Kid \in Type /\ inlining' \subseteq Type
  <2>1. kind[Kid] \in {"component", "inlined", "container"}
    BY <1>1, <1>3, KindsAssumption DEF GraphTyped
  <2> QED
    BY <1>1, <1>3, <2>1 DEF Inside, WalkTyped
<1>8. WalkTyped'
  <2>1. \A i \in 1..(n + 1) : stack'[i].type \in seen'
    <3> TAKE i \in 1..(n + 1)
    <3>1. CASE i = n + 1
      BY <1>1, <1>4, <1>5, <3>1
    <3>2. CASE i \in 1..n
      BY <1>1, <1>6, <3>2 DEF WalkTyped
    <3> QED
      BY <1>3, <3>1, <3>2
  <2> QED
    BY <1>1, <1>3, <1>5, <1>7, <2>1 DEF WalkTyped, Frames
<1>9. Walked'
  <2> SUFFICES ASSUME NEW t \in seen \cup {Kid}
               PROVE  \/ Kids(t) \subseteq seen'
                      \/ \E i \in 1..(n + 1) :
                            stack'[i].type = t /\ \A j \in 1..(stack'[i].next - 1) : kids[t][j] \in seen'
    BY <1>1, <1>5 DEF Walked, Kids
  <2>1. CASE t = Kid
    BY <1>3, <1>4, <1>5, <2>1
  <2>2. CASE t \in seen
    <3>1. CASE Kids(t) \subseteq seen
      BY <1>1, <3>1
    <3>2. CASE \E i \in 1..n :
                 /\ Advance[i].type = t
                 /\ \A j \in 1..(Advance[i].next - 1) : kids[t][j] \in seen \cup {Kid}
      BY <1>1, <1>3, <1>5, <3>2
    <3> QED
      BY <1>1, <2>2, <3>1, <3>2, AdvancedWalked
  <2> QED
    BY <2>1, <2>2
<1>10. Encloses'
  <2> SUFFICES ASSUME NEW i \in 1..(n + 1), NEW u \in Inlining(i)'
               PROVE  kind[u] = "inlined" /\ LeadsTo(u, stack'[i].type)
    BY <1>1, <1>5 DEF Encloses, LeadsTo, ClosedInline, InlineKids, Kids, Components
  <2>1. \A v \in inlining : v \in Type /\ kind[v] = "inlined" /\ LeadsTo(v, Top.type)
    BY <1>1, <1>3 DEF Encloses, Inlining, Top, WalkTyped
  <2>2. CASE i = n + 1
    <3>1. u \in Inside(Kid, inlining) /\ stack'[i].type = Kid
      BY <1>1, <1>4, <1>5, <2>2 DEF Inlining
    <3>2. CASE u \in inlining /\ kind[Kid] # "component"
      <4>1. Kid \in InlineKids(Top.type)
        BY <1>3, <3>2 DEF InlineKids, Components
      <4>2. u \in Type /\ kind[u] = "inlined" /\ LeadsTo(u, Top.type)
        BY <2>1, <3>2
      <4>3. \A S \in SUBSET Type : InlineKids(u) \subseteq S /\ ClosedInline(S) => Kid \in S
        BY <1>1, <1>3, <4>1, <4>2, LeadsOn
      <4> QED
        BY <3>1, <4>2, <4>3 DEF LeadsTo, ClosedInline
    <3>3. CASE u = Kid /\ kind[Kid] = "inlined"
      BY <3>1, <3>3 DEF LeadsTo
    <3> QED
      BY <1>1, <1>3, <3>1, <3>2, <3>3, KindsAssumption DEF Inside, GraphTyped
  <2>3. CASE i = n
    <3>1. u \in inlining /\ stack'[i].type = Top.type
      BY <1>3, <1>4, <1>5, <1>6, <2>3 DEF Inlining, Top
    <3> QED
      BY <2>1, <3>1
  <2>4. CASE i \in 1..(n - 1)
    <3>1. i + 1 \in 1..n /\ i # n /\ i # n + 1 /\ i + 1 # n + 1
      BY <1>3, <2>4
    <3>2. Inlining(i)' = Inlining(i) /\ stack'[i].type = stack[i].type
      BY <1>3, <1>5, <1>6, <2>4, <3>1 DEF Inlining
    <3> QED
      BY <1>1, <1>3, <2>4, <3>2 DEF Encloses
  <2> QED
    BY <1>3, <2>2, <2>3, <2>4
<1>11. SeenReachable'
  BY <1>1, <1>3 DEF SeenReachable, ClosedKids, Kids, Declared
<1> QED
  BY <1>1, <1>2, <1>8, <1>9, <1>10, <1>11 DEF IInv, Phases, AllTypesChecked, RefusalJustified

(* A call that is over leaves nothing of its type unwalked.                *)
LEMMA TopWalked ==
    ASSUME GraphTyped, WalkTyped, Walked, ~AtKid, NEW t \in seen
    PROVE  \/ Kids(t) \subseteq seen
           \/ \E i \in 1..(Len(stack) - 1) :
                 stack[i].type = t /\ \A j \in 1..(stack[i].next - 1) : kids[t][j] \in seen
<1> SUFFICES ASSUME ~(Kids(t) \subseteq seen)
             PROVE  \E i \in 1..(Len(stack) - 1) :
                      stack[i].type = t /\ \A j \in 1..(stack[i].next - 1) : kids[t][j] \in seen
  OBVIOUS
<1>1. PICK i \in 1..Len(stack) :
        stack[i].type = t /\ \A j \in 1..(stack[i].next - 1) : kids[t][j] \in seen
  BY DEF Walked
<1>2. i # Len(stack)
  <2> SUFFICES ASSUME i = Len(stack) PROVE FALSE
    OBVIOUS
  <2>1. Top.type = t /\ ~(Top.next <= Len(kids[t])) /\ Top.next \in Nat \ {0} /\ Len(kids[t]) \in Nat
    BY <1>1, TopTyped DEF AtKid, Top, Frames
  <2>2. \A j \in 1..Len(kids[t]) : kids[t][j] \in seen
    BY <1>1, <2>1 DEF Top
  <2> QED
    BY <2>2 DEF Kids
<1> QED
  BY <1>1, <1>2 DEF WalkTyped

(* A call that returns gives its caller back what encloses it.             *)
LEMMA LeaveKeeps == ASSUME IInv, Leave PROVE IInv'
<1> DEFINE n == Len(stack)
<1>1. /\ phase = "check" /\ phase' = "check" /\ ~AtKid /\ n > 1
      /\ GraphTyped /\ WalkTyped /\ Walked /\ Encloses /\ SeenReachable
      /\ stack' = Pop /\ inlining' = Top.enclosing /\ UNCHANGED <<kind, kids, response, seen>>
  BY DEF IInv, Leave, graph
<1>2. GraphTyped'
  BY <1>1 DEF GraphTyped
<1>3. n \in Nat \ {0} /\ Top \in Frames
  BY <1>1, TopTyped DEF WalkTyped
<1>4. stack' \in Seq(Frames) /\ Len(stack') = n - 1 /\ \A i \in 1..(n - 1) : stack'[i] = stack[i]
  BY <1>1, <1>3, SubSeqProperties DEF Pop, WalkTyped
<1>5. WalkTyped'
  <2>1. inlining' \subseteq Type
    BY <1>1, <1>3 DEF Frames
  <2>2. Len(stack') \in Nat \ {0} /\ \A i \in 1..Len(stack') : stack'[i].type \in seen
    BY <1>1, <1>3, <1>4 DEF WalkTyped
  <2> QED
    BY <1>1, <1>4, <2>1, <2>2 DEF WalkTyped, Frames
<1>6. Walked'
  <2> SUFFICES ASSUME NEW t \in seen
               PROVE  \/ Kids(t) \subseteq seen
                      \/ \E i \in 1..(n - 1) :
                            stack'[i].type = t /\ \A j \in 1..(stack'[i].next - 1) : kids[t][j] \in seen
    BY <1>1, <1>4 DEF Walked, Kids
  <2>1. \/ Kids(t) \subseteq seen
        \/ \E i \in 1..(n - 1) :
              stack[i].type = t /\ \A j \in 1..(stack[i].next - 1) : kids[t][j] \in seen
    BY <1>1, TopWalked
  <2> QED
    BY <1>4, <2>1
<1>7. Encloses'
  <2>1. \A i \in 1..(n - 1) : Inlining(i)' = Inlining(i)
    BY <1>1, <1>3, <1>4 DEF Inlining, Top
  <2> QED
    BY <1>1, <1>3, <1>4, <2>1 DEF Encloses, LeadsTo, ClosedInline, InlineKids, Kids, Components
<1>8. SeenReachable'
  BY <1>1 DEF SeenReachable, ClosedKids, Kids, Declared
<1> QED
  BY <1>1, <1>2, <1>5, <1>6, <1>7, <1>8 DEF IInv, Phases, AllTypesChecked, RefusalJustified

(* The request's walk has left nothing unwalked behind, so the response's  *)
(* has but its own type to go on with.                                     *)
LEMMA CheckResponseKeeps == ASSUME IInv, CheckResponse PROVE IInv'
<1> DEFINE f == Frame(response, {})
<1>1. /\ phase = "check" /\ phase' = "check" /\ ~AtKid /\ Len(stack) = 1
      /\ response \notin seen \cup {None}
      /\ GraphTyped /\ WalkTyped /\ Walked /\ SeenReachable
      /\ stack' = <<f>> /\ seen' = seen \cup {response} /\ inlining' = Inside(response, {})
      /\ UNCHANGED <<kind, kids, response>>
  BY DEF IInv, CheckResponse, Returned, graph
<1>2. GraphTyped' /\ response \in Type
  BY <1>1 DEF GraphTyped
<1>3. \A t \in seen : Kids(t) \subseteq seen
  BY <1>1, TopWalked
<1>4. f \in Frames /\ f.type = response /\ f.next = 1
  BY <1>2 DEF Frame, Frames
<1> HIDE DEF f
<1>5. stack' \in Seq(Frames) /\ Len(stack') = 1 /\ stack'[1] = f
  BY <1>1, <1>4
<1>6. inlining' \subseteq {t \in {response} : kind[t] = "inlined"}
  BY <1>1, <1>2, KindsAssumption DEF Inside, GraphTyped
<1>7. WalkTyped'
  BY <1>1, <1>2, <1>4, <1>5, <1>6 DEF WalkTyped
<1>8. Walked'
  <2> SUFFICES ASSUME NEW t \in seen \cup {response}
               PROVE  \/ Kids(t) \subseteq seen'
                      \/ t = response
    <3>1. 1 \in 1..Len(stack') /\ stack'[1].type = response /\ 1..(stack'[1].next - 1) = {}
      BY <1>4, <1>5
    <3> QED
      BY <1>1, <3>1 DEF Walked, Kids
  <2>1. CASE t = response
    BY <2>1
  <2>2. CASE t \in seen
    BY <1>1, <1>3, <2>2
  <2> QED
    BY <2>1, <2>2
<1>9. Encloses'
  BY <1>1, <1>4, <1>5, <1>6 DEF Encloses, Inlining, LeadsTo
<1>10. SeenReachable'
  BY <1>1 DEF SeenReachable, ClosedKids, Kids, Declared
<1> QED
  BY <1>1, <1>2, <1>7, <1>8, <1>9, <1>10 DEF IInv, Phases, AllTypesChecked, RefusalJustified

(* The last call is over: all that its fields lead to has been walked.     *)
LEMMA AcceptKeeps == ASSUME IInv, Accept PROVE IInv'
<1>1. /\ phase = "check" /\ phase' = "accepted" /\ ~AtKid /\ Len(stack) = 1
      /\ response \in seen \cup {None}
      /\ GraphTyped /\ WalkTyped /\ Walked /\ SeenReachable
      /\ UNCHANGED <<kind, kids, response, stack, seen>>
  BY DEF IInv, Accept, Returned, graph
<1>2. \A t \in seen : Kids(t) \subseteq seen
  BY <1>1, TopWalked
<1>3. seen = Reachable
  <2>0. Declared \subseteq seen
    BY <1>1 DEF WalkTyped, Declared
  <2>1. seen \subseteq Reachable
    BY <1>1 DEF SeenReachable, ClosedKids, Reachable, WalkTyped
  <2>2. Reachable \subseteq seen
    BY <1>1, <1>2, <2>0 DEF Reachable, WalkTyped
  <2> QED
    BY <2>1, <2>2
<1>4. Reachable' = Reachable
  BY <1>1 DEF Reachable, Kids, Declared
<1> QED
  BY <1>1, <1>3, <1>4 DEF IInv, Phases, GraphTyped, AllTypesChecked, RefusalJustified

(* What is refused goes on leading back to itself in the same way.         *)
LEMMA CycleSame ==
    ASSUME UNCHANGED <<kind, kids, overridden>>, NEW t, NEW u
    PROVE  /\ LeadsTo(t, u)' <=> LeadsTo(t, u)
           /\ RefersToItself(t)' <=> RefersToItself(t)
           /\ TaggedOnCycle(t)' <=> TaggedOnCycle(t)
<1>1. \A a, b : LeadsTo(a, b)' <=> LeadsTo(a, b)
  BY DEF LeadsTo, InlineKids, Kids, Components
<1>2. RefersToItself(t)' <=> RefersToItself(t)
  BY DEF RefersToItself, Held, Written, Components
<1>3. Components' = Components
  BY DEF Components
<1>4. TaggedOnCycle(t)' <=> TaggedOnCycle(t)
  BY <1>1, <1>3 DEF TaggedOnCycle
<1> QED
  BY <1>1, <1>2, <1>4

(* A type that leads back to itself has a schema that holds its own,       *)
(* unless a tagged field leads back as well.  Otherwise take what is held  *)
(* on the way, and all that does not lead back: the fields lead out of it  *)
(* nowhere, and it is without the type itself.                             *)
LEMMA CycleOrTag ==
    ASSUME GraphTyped, NEW t \in Type, ~TaggedOnCycle(t),
           \A S \in SUBSET Type : InlineKids(t) \subseteq S /\ ClosedInline(S) => t \in S
    PROVE  RefersToItself(t)
<1> SUFFICES ASSUME NEW S \in SUBSET Type, Held(t) \subseteq S, \A u \in S : Held(u) \subseteq S, t \notin S
             PROVE  FALSE
  BY DEF RefersToItself
<1> DEFINE Away == {u \in Type : (u \in S /\ LeadsTo(t, u)) \/ ~LeadsTo(u, t)}
<1>1. LeadsTo(t, t)
  BY DEF LeadsTo
<1>2. \A u \in Type : \A v \in InlineKids(u) : v \in Type
  BY ElementOfSeq DEF InlineKids, Kids, GraphTyped
<1>3. ASSUME NEW u \in Type, NEW v \in InlineKids(u), ~LeadsTo(u, t) PROVE v \in Away
  <2>1. LeadsTo(v, t) => LeadsTo(u, t)
    BY DEF LeadsTo
  <2> QED
    BY <1>2, <1>3, <2>1
<1>4. ASSUME NEW u \in Type, NEW v \in InlineKids(u), LeadsTo(t, u), u \in S \cup {t} PROVE v \in Away
  <2>1. LeadsTo(t, v)
    <3>1. \A R \in SUBSET Type : InlineKids(t) \subseteq R /\ ClosedInline(R) => v \in R
      BY <1>4, LeadsOn
    <3> QED
      BY <3>1 DEF LeadsTo, ClosedInline
  <2>2. PICK j \in 1..Len(kids[u]) : v = kids[u][j] /\ v \notin Components
    BY DEF InlineKids, Kids
  <2>3. CASE <<u, j>> \notin overridden
    <3>1. v \in Held(u)
      BY <2>2, <2>3 DEF Held, Written
    <3>2. v \in S
      BY <1>4, <3>1
    <3> QED
      BY <1>2, <2>1, <3>2
  <2>4. CASE <<u, j>> \in overridden
    <3>1. ~LeadsTo(v, t)
      BY <1>4, <2>2, <2>4, Zenon DEF TaggedOnCycle
    <3> QED
      BY <1>2, <3>1
  <2> QED
    BY <2>3, <2>4
<1>5. InlineKids(t) \subseteq Away
  BY <1>1, <1>4
<1>6. ClosedInline(Away)
  BY <1>3, <1>4 DEF ClosedInline
<1>7. t \notin Away
  BY <1>1
<1> QED
  BY <1>5, <1>6, <1>7

(* What is refused is inside its own schema, but for a tagged field.       *)
LEMMA RefuseKeeps == ASSUME IInv, RefuseSelf PROVE IInv'
<1>1. /\ phase = "check" /\ phase' = "refused" /\ AtKid /\ Kid \in inlining
      /\ GraphTyped /\ WalkTyped /\ Encloses /\ UNCHANGED <<kind, kids, overridden, response, stack>>
  BY DEF IInv, RefuseSelf, graph
<1>2. /\ Kid \in Type /\ Kid \in Kids(Top.type) /\ Top.type \in Type
      /\ Len(stack) \in 1..Len(stack)
  BY <1>1, TopTyped
<1>3. kind[Kid] = "inlined" /\ LeadsTo(Kid, Top.type)
  BY <1>1, <1>2 DEF Encloses, Inlining, Top
<1>4. Kid \in InlineKids(Top.type)
  BY <1>2, <1>3 DEF InlineKids, Components
<1>5. RefersToItself(Kid) \/ TaggedOnCycle(Kid)
  <2>1. \A S \in SUBSET Type : InlineKids(Kid) \subseteq S /\ ClosedInline(S) => Kid \in S
    BY <1>1, <1>2, <1>3, <1>4, LeadsOn
  <2> QED
    BY <1>1, <1>2, <2>1, CycleOrTag
<1>6. RefusalJustified'
  <2>1. Kid' = Kid
    BY <1>1 DEF Kid, Top
  <2>2. (RefersToItself(Kid) \/ TaggedOnCycle(Kid))' <=> RefersToItself(Kid) \/ TaggedOnCycle(Kid)
    <3>1. PICK k : k = Kid
      OBVIOUS
    <3>2. /\ RefersToItself(k)' <=> RefersToItself(k)
          /\ TaggedOnCycle(k)' <=> TaggedOnCycle(k)
      BY <1>1, CycleSame
    <3> QED
      BY <2>1, <3>1, <3>2
  <2> QED
    BY <1>1, <1>3, <1>5, <2>1, <2>2 DEF RefusalJustified
<1> QED
  BY <1>1, <1>6 DEF IInv, Phases, GraphTyped, AllTypesChecked

LEMMA NextIInv == IInv /\ [Next]_vars => IInv'
<1> SUFFICES ASSUME IInv, [Next]_vars PROVE IInv'
  OBVIOUS
<1>1. CASE Check
  BY <1>1, RefuseKeeps, SkipKeeps, EnterKeeps, LeaveKeeps, CheckResponseKeeps,
         AcceptKeeps DEF Check
<1>2. CASE Build
  <2>1. UNCHANGED <<kind, kids, response>> /\ phase' \in {"build", "done", "overflow"}
    BY <1>2 DEF Build, BuildBody, BuildResponse, BuildStandalone, BuildFrom, Override,
                Refer, Descend, Return, Finish, Overflow, graph
  <2> QED
    BY <2>1 DEF IInv, Phases, GraphTyped, AllTypesChecked, RefusalJustified
<1>3. CASE UNCHANGED vars
  <2>1. UNCHANGED <<kind, kids, overridden, response, phase, stack, seen, inlining>>
    BY <1>3 DEF vars, graph
  <2>2. GraphTyped' /\ AllTypesChecked' /\ RefusalJustified'
    <3>1. GraphTyped'
      BY <2>1 DEF IInv, GraphTyped
    <3>2. Reachable' = Reachable
      BY <2>1 DEF Reachable, Kids, Declared
    <3>3. Kid' = Kid
      BY <2>1 DEF Kid, Top
    <3>4. (RefersToItself(Kid) \/ TaggedOnCycle(Kid))' <=> RefersToItself(Kid) \/ TaggedOnCycle(Kid)
      <4>1. PICK k : k = Kid
        OBVIOUS
      <4>2. /\ RefersToItself(k)' <=> RefersToItself(k)
            /\ TaggedOnCycle(k)' <=> TaggedOnCycle(k)
        BY <2>1, CycleSame
      <4> QED
        BY <3>3, <4>1, <4>2
    <3> QED
      BY <2>1, <3>1, <3>2, <3>3, <3>4 DEF IInv, AllTypesChecked, RefusalJustified
  <2>3. phase = "check" => WalkTyped' /\ Walked'
    BY <2>1 DEF IInv, WalkTyped, Walked, Kids
  <2>4. phase = "check" => Encloses' /\ SeenReachable'
    BY <2>1 DEF IInv, Encloses, Inlining, LeadsTo, ClosedInline, InlineKids, Kids, Components,
                SeenReachable, ClosedKids, Declared
  <2> QED
    BY <2>1, <2>2, <2>3, <2>4 DEF IInv
<1> QED
  BY <1>1, <1>2, <1>3 DEF Next

-----------------------------------------------------------------------------
(* The check walks every type a request's and a response's fields lead to, *)
(* in graphs of any size: visiting each type once cuts no walk short, the  *)
(* response's neither, though it goes on with what the request's has seen. *)
THEOREM WalksAllTypes == Spec => []AllTypesChecked
<1>1. IInv => AllTypesChecked
  BY DEF IInv
<1> QED
  BY InitIInv, NextIInv, <1>1, PTL DEF Spec

(* A declaration is refused only for an inlined struct whose schema does   *)
(* hold its own with no component in between, or would but for an openapi  *)
(* tag on one of the fields that lead back to it.                          *)
THEOREM RefusesJustly == Spec => []RefusalJustified
<1>1. IInv => RefusalJustified
  BY DEF IInv
<1> QED
  BY InitIInv, NextIInv, <1>1, PTL DEF Spec

-----------------------------------------------------------------------------
(* A set of naturals has a least element: what the proofs below use for    *)
(* induction.  It is that of the intervals below its elements, which are   *)
(* well-founded as finite sets.                                            *)
LEMMA LeastNatural ==
    ASSUME NEW T \in SUBSET Nat, T # {}
    PROVE  \E n \in T : \A m \in T : n <= m
<1> DEFINE R == StrictSubsetOrdering(Nat)
           Below(n) == 0..(n - 1)
           U == {Below(n) : n \in T}
<1>1. IsWellFoundedOn(R, FiniteSubsetsOf(Nat))
  BY FS_StrictSubsetOrderingWellFounded
<1>2. U \subseteq FiniteSubsetsOf(Nat) /\ U # {}
  <2>1. \A n \in T : Below(n) \in SUBSET Nat
    OBVIOUS
  <2>2. \A n \in T : IsFiniteSet(Below(n))
    BY FS_Interval
  <2> HIDE DEF Below
  <2>3. U \subseteq FiniteSubsetsOf(Nat)
    BY <2>1, <2>2 DEF FiniteSubsetsOf
  <2>4. U # {}
    OBVIOUS
  <2> QED
    BY <2>3, <2>4
<1>3. PICK u \in U : \A v \in U : ~(<<v, u>> \in R)
  <2> HIDE DEF R, U
  <2> QED
    BY <1>1, <1>2, WFMin
<1>4. PICK n \in T : u = Below(n)
  OBVIOUS
<1>5. ASSUME NEW m \in T, m < n PROVE FALSE
  <2>1. Below(m) \subseteq Below(n) /\ Below(m) # Below(n)
    <3>1. m \in Below(n) /\ m \notin Below(m)
      BY <1>5
    <3> QED
      BY <1>5, <3>1
  <2>2. Below(m) \in SUBSET Nat /\ Below(n) \in SUBSET Nat
    BY <1>5
  <2>3. <<Below(m), Below(n)>> \in R
    <3> HIDE DEF Below
    <3> QED
      BY <2>1, <2>2 DEF StrictSubsetOrdering
  <2> QED
    BY <1>3, <1>4, <1>5, <2>3
<1> QED
  BY <1>5

-----------------------------------------------------------------------------
(* reachableTypes and holdsItself.                                         *)

ClosedWritten(S) == \A u \in S : Written(u) \subseteq S

(* The types the schemas of S are made of: the smallest set that has them. *)
Closure(S) == {t \in Type : \A U \in SUBSET Type : S \subseteq U /\ ClosedWritten(U) => t \in U}

(* One round of the walk.                                                  *)
Round(S) == S \cup UNION {Written(t) : t \in S}

Rounds(g, n, S) == \A k \in 0..n : g[k] = IF k = 0 THEN S ELSE Round(g[k - 1])

LEMMA WrittenTyped ==
    ASSUME GraphTyped, NEW t \in Type
    PROVE  Written(t) \subseteq Kids(t) /\ Kids(t) \subseteq Type
<1>1. kids[t] \in Seq(Type)
  BY DEF GraphTyped
<1>2. \A i \in 1..Len(kids[t]) : kids[t][i] \in Type
  BY <1>1, ElementOfSeq
<1> QED
  BY <1>2 DEF Written, Kids

(* The rounds of a walk, as many as there are.                             *)
LEMMA RoundsExist ==
    ASSUME GraphTyped, NEW S \in SUBSET Type, NEW N \in Nat
    PROVE  \E g \in [0..N -> SUBSET Type] : Rounds(g, N, S)
<1> DEFINE Without == {n \in 0..N : ~\E g \in [0..n -> SUBSET Type] : Rounds(g, n, S)}
<1>1. ASSUME NEW n \in Without, \A m \in Without : n <= m PROVE FALSE
  <2>1. CASE n = 0
    <3> DEFINE g == [k \in 0..0 |-> S]
    <3>1. g \in [0..n -> SUBSET Type] /\ Rounds(g, n, S)
      BY <2>1 DEF Rounds
    <3> QED
      BY <3>1
  <2>2. CASE n # 0
    <3>1. n - 1 \in 0..N /\ n - 1 \notin Without
      <4>1. n \in 0..N
        OBVIOUS
      <4>2. n - 1 \in 0..N /\ ~(n <= n - 1)
        BY <2>2, <4>1
      <4> QED
        BY <1>1, <4>2
    <3>2. PICK g \in [0..(n - 1) -> SUBSET Type] : Rounds(g, n - 1, S)
      BY <3>1
    <3> DEFINE h == [k \in 0..n |-> IF k = n THEN Round(g[n - 1]) ELSE g[k]]
    <3>3. \A W \in SUBSET Type : Round(W) \in SUBSET Type
      BY WrittenTyped DEF Round
    <3>4. h \in [0..n -> SUBSET Type]
      BY <2>2, <3>1, <3>3
    <3>5. Rounds(h, n, S)
      <4> SUFFICES ASSUME NEW k \in 0..n PROVE h[k] = IF k = 0 THEN S ELSE Round(h[k - 1])
        BY DEF Rounds
      <4>1. CASE k = n
        <5>1. h[k] = Round(g[n - 1]) /\ h[k - 1] = g[n - 1]
          BY <2>2, <3>1, <4>1
        <5> QED
          BY <2>2, <4>1, <5>1
      <4>2. CASE k # n
        <5>1. k \in 0..(n - 1) /\ h[k] = g[k] /\ (k # 0 => h[k - 1] = g[k - 1])
          BY <3>1, <4>2
        <5> QED
          BY <3>2, <5>1 DEF Rounds
      <4> QED
        BY <4>1, <4>2
    <3> QED
      BY <3>4, <3>5
  <2> QED
    BY <2>1, <2>2
<1>2. Without \in SUBSET Nat
  OBVIOUS
<1>3. Without = {}
  <2> HIDE DEF Without
  <2> QED
    BY <1>1, <1>2, LeastNatural
<1> QED
  BY <1>3

(* WalkFrom's rounds are these.                                            *)
LEMMA WalkRounds ==
    ASSUME GraphTyped, NEW S \in SUBSET Type
    PROVE  /\ Cardinality(Type) \in Nat
           /\ \E g : Rounds(g, Cardinality(Type), S) /\ WalkFrom(S) = g[Cardinality(Type)]
<1> DEFINE N == Cardinality(Type)
           After[n \in 0..N] ==
              IF n = 0 THEN S ELSE After[n - 1] \cup UNION {Written(t) : t \in After[n - 1]}
<1>1. N \in Nat
  BY FiniteAssumption, FS_CardinalityType
<1>2. WalkFrom(S) = After[N]
  BY DEF WalkFrom
<1>3. PICK g \in [0..N -> SUBSET Type] : Rounds(g, N, S)
  BY <1>1, RoundsExist
<1>4. g = [n \in 0..N |->
             IF n = 0 THEN S ELSE g[n - 1] \cup UNION {Written(t) : t \in g[n - 1]}]
  <2> HIDE DEF N
  <2> QED
    BY <1>3 DEF Rounds, Round
<1>5. After = [n \in 0..N |->
             IF n = 0 THEN S ELSE After[n - 1] \cup UNION {Written(t) : t \in After[n - 1]}]
  <2> HIDE DEF N
  <2> QED
    BY <1>4
<1> HIDE DEF After, N
<1>6. Rounds(After, N, S)
  BY <1>5 DEF Rounds, Round
<1> QED
  BY <1>1, <1>2, <1>6 DEF N

(* No round goes beyond a set that has what the fields of its members      *)
(* write.                                                                  *)
LEMMA RoundsWithin ==
    ASSUME GraphTyped, NEW S \in SUBSET Type, NEW N \in Nat, NEW g, Rounds(g, N, S),
           NEW U \in SUBSET Type, S \subseteq U, ClosedWritten(U)
    PROVE  \A n \in 0..N : g[n] \subseteq U
<1> DEFINE Beyond == {n \in 0..N : ~(g[n] \subseteq U)}
<1>1. ASSUME NEW n \in Beyond, \A m \in Beyond : n <= m PROVE FALSE
  <2>1. n \in 0..N /\ ~(g[n] \subseteq U)
    OBVIOUS
  <2>2. n # 0
    BY <2>1 DEF Rounds
  <2>3. n - 1 \in 0..N /\ ~(n <= n - 1)
    BY <2>1, <2>2
  <2>4. g[n - 1] \subseteq U
    BY <1>1, <2>3
  <2>5. g[n] = Round(g[n - 1])
    BY <2>1, <2>2 DEF Rounds
  <2> QED
    BY <2>1, <2>4, <2>5 DEF Round, ClosedWritten
<1>2. Beyond \in SUBSET Nat
  OBVIOUS
<1>3. Beyond = {}
  <2> HIDE DEF Beyond
  <2> QED
    BY <1>1, <1>2, LeastNatural
<1> QED
  BY <1>3

LEMMA TypesClosed == ASSUME GraphTyped PROVE ClosedWritten(Type)
  BY WrittenTyped DEF ClosedWritten

(* Until a round changes nothing, each adds a type.                        *)
LEMMA RoundsGrow ==
    ASSUME GraphTyped, NEW S \in SUBSET Type, NEW N \in Nat, NEW g, Rounds(g, N, S)
    PROVE  \A n \in 0..N : ClosedWritten(g[n]) \/ Cardinality(g[n]) >= n
<1> DEFINE Behind == {n \in 0..N : ~(ClosedWritten(g[n]) \/ Cardinality(g[n]) >= n)}
<1>0. \A n \in 0..N : g[n] \subseteq Type /\ IsFiniteSet(g[n]) /\ Cardinality(g[n]) \in Nat
  BY TypesClosed, RoundsWithin, FiniteAssumption, FS_Subset, FS_CardinalityType
<1>1. ASSUME NEW n \in Behind, \A m \in Behind : n <= m PROVE FALSE
  <2>1. n \in 0..N /\ ~ClosedWritten(g[n]) /\ ~(Cardinality(g[n]) >= n)
    OBVIOUS
  <2>2. n # 0
    BY <1>0, <2>1
  <2>3. n - 1 \in 0..N /\ ~(n <= n - 1)
    BY <2>1, <2>2
  <2>4. ClosedWritten(g[n - 1]) \/ Cardinality(g[n - 1]) >= n - 1
    BY <1>1, <2>3
  <2>5. g[n] = Round(g[n - 1])
    BY <2>1, <2>2 DEF Rounds
  <2>6. CASE ClosedWritten(g[n - 1])
    <3>1. g[n] = g[n - 1]
      BY <2>5, <2>6 DEF Round, ClosedWritten
    <3> QED
      BY <2>1, <2>6, <3>1
  <2>7. CASE ~ClosedWritten(g[n - 1])
    <3>1. g[n - 1] \subseteq g[n] /\ g[n - 1] # g[n]
      BY <2>5, <2>7 DEF Round, ClosedWritten
    <3>2. Cardinality(g[n - 1]) < Cardinality(g[n])
      BY <1>0, <2>1, <3>1, FS_Subset
    <3> QED
      BY <1>0, <2>1, <2>3, <2>4, <2>7, <3>2
  <2> QED
    BY <2>6, <2>7
<1>2. Behind \in SUBSET Nat
  OBVIOUS
<1>3. Behind = {}
  <2> HIDE DEF Behind
  <2> QED
    BY <1>1, <1>2, LeastNatural
<1> QED
  BY <1>3

(* As many rounds as there are types are enough.                           *)
LEMMA WalkIsClosure ==
    ASSUME GraphTyped, NEW S \in SUBSET Type
    PROVE  WalkFrom(S) = Closure(S)
<1> DEFINE N == Cardinality(Type)
<1>1. N \in Nat
  BY WalkRounds
<1>2. PICK g : Rounds(g, N, S) /\ WalkFrom(S) = g[N]
  BY WalkRounds
<1> HIDE DEF N
<1>3. \A U \in SUBSET Type : S \subseteq U /\ ClosedWritten(U) => g[N] \subseteq U
  <2>1. N \in 0..N
    BY <1>1
  <2> QED
    BY <2>1, <1>1, <1>2, RoundsWithin
<1>4. g[N] \subseteq Type
  BY <1>3, TypesClosed
<1>5. ClosedWritten(g[N])
  <2>1. ClosedWritten(g[N]) \/ Cardinality(g[N]) >= N
    BY <1>1, <1>2, RoundsGrow
  <2>2. CASE Cardinality(g[N]) >= N
    <3>1. g[N] = Type
      BY <1>1, <1>4, <2>2, FiniteAssumption, FS_Subset, FS_CardinalityType DEF N
    <3> QED
      BY <3>1, TypesClosed
  <2> QED
    BY <2>1, <2>2
<1>6. S \subseteq g[N]
  <2> DEFINE Missing == {n \in 0..N : ~(S \subseteq g[n])}
  <2>1. ASSUME NEW n \in Missing, \A m \in Missing : n <= m PROVE FALSE
    <3>1. n \in 0..N /\ n # 0
      BY <1>2 DEF Rounds
    <3>2. n - 1 \in 0..N /\ ~(n <= n - 1)
      BY <1>1, <3>1
    <3>3. S \subseteq g[n - 1]
      BY <2>1, <3>2
    <3>4. g[n] = Round(g[n - 1])
      BY <1>2, <3>1 DEF Rounds
    <3> QED
      BY <3>3, <3>4 DEF Round
  <2>2. Missing \in SUBSET Nat
    BY <1>1
  <2>3. Missing = {}
    <3> HIDE DEF Missing
    <3> QED
      BY <2>1, <2>2, LeastNatural
  <2> QED
    BY <1>1, <2>3
<1> QED
  BY <1>2, <1>3, <1>4, <1>5, <1>6 DEF Closure, N

-----------------------------------------------------------------------------
(* TypeOK in parts, and that stack is a sequence of frames; while the      *)
(* check lasts, each call under way has a type of its own in c.seen.       *)
GraphOK ==
    /\ kind \in [Type -> Kinds]
    /\ \A t \in Type : kids[t] \in KidsOf(kind[t])
    /\ overridden \subseteq Fields
    /\ response \in Type \cup {None}

StackOK ==
    /\ stack \in Seq(Frames)
    /\ Len(stack) \in 1..DepthBound
    /\ \A i \in 1..Len(stack) :
          /\ stack[i].next \in 1..Len(kids[stack[i].type]) + 1
          /\ stack[i].enclosing \subseteq seen

SetsOK ==
    /\ phase \in Phases
    /\ seen \subseteq Type
    /\ inlining \subseteq seen
    /\ schema \in {"request", "response", "standalone"}
    /\ schema = "response" => response # None
    /\ named \subseteq Components
    /\ built \subseteq named

TInv ==
    /\ GraphOK
    /\ StackOK
    /\ SetsOK
    /\ phase = "check" => Len(stack) <= Cardinality(seen)

LEMMA GraphIsTyped == ASSUME GraphOK PROVE GraphTyped
<1>1. \A k : KidsOf(k) \subseteq Seq(Type)
  BY BoundsAssumption DEF KidsOf
<1> QED
  BY <1>1 DEF GraphOK, GraphTyped

LEMMA DepthIsNat ==
    /\ Cardinality(Type) \in Nat \ {0}
    /\ DepthBound \in Nat
    /\ DepthBound > Cardinality(Type)
    /\ DepthBound - 1 > Cardinality(Type) * (Cardinality(Type) + 1)
<1> DEFINE n == Cardinality(Type)
<1>1. n \in Nat
  BY FiniteAssumption, FS_CardinalityType
<1>2. n # 0
  BY FiniteAssumption, FS_EmptySet, RootAssumption
<1> HIDE DEF n
<1>3. (n + 1) * (n + 1) = n * (n + 1) + n + 1 /\ n * (n + 1) \in Nat
  BY <1>1
<1> DEFINE m == n * (n + 1)
<1>4. DepthBound = m + n + 1 /\ m \in Nat
  BY <1>3 DEF DepthBound, n
<1> HIDE DEF m
<1>5. DepthBound \in Nat /\ DepthBound > n /\ DepthBound - 1 > m
  BY <1>1, <1>2, <1>4
<1> QED
  BY <1>1, <1>2, <1>5 DEF n, m

LEMMA TInvTypes == TInv => TypeOK
<1> SUFFICES ASSUME TInv PROVE TypeOK
  OBVIOUS
<1>1. \A i \in 1..Len(stack) : stack[i] \in Frames
  BY ElementOfSeq DEF TInv, StackOK
<1>2. \A i \in 1..Len(stack) : stack[i].type \in Type
  BY <1>1 DEF Frames
<1> QED
  BY <1>2 DEF TInv, GraphOK, StackOK, SetsOK, TypeOK, Phases

(* The call under way.                                                     *)
LEMMA CallTyped ==
    ASSUME GraphOK, StackOK
    PROVE  /\ Len(stack) \in 1..Len(stack) /\ Len(stack) \in Nat \ {0}
           /\ \A i \in 1..Len(stack) : stack[i] \in Frames /\ stack[i].type \in Type
           /\ Top \in Frames /\ Top.type \in Type
           /\ Top.next \in Nat \ {0} /\ Len(kids[Top.type]) \in Nat
           /\ Top.next <= Len(kids[Top.type]) + 1
           /\ AtKid => Kid \in Type /\ Top.next \in 1..Len(kids[Top.type])
           /\ AtKid /\ ~Overridden => Kid \in Written(Top.type)
           /\ ~AtKid => Top.next = Len(kids[Top.type]) + 1
<1>1. Len(stack) \in 1..Len(stack) /\ Len(stack) \in Nat \ {0}
  BY DepthIsNat DEF StackOK
<1>2. \A i \in 1..Len(stack) : stack[i] \in Frames
  BY ElementOfSeq DEF StackOK
<1>3. \A i \in 1..Len(stack) : stack[i].type \in Type
  BY <1>2 DEF Frames
<1>4. Top \in Frames /\ Top.type \in Type /\ Top.next \in Nat \ {0}
  BY <1>1, <1>2 DEF Top, Frames
<1>5. kids[Top.type] \in Seq(Type)
  BY <1>4, GraphIsTyped DEF GraphTyped
<1>6. Len(kids[Top.type]) \in Nat /\ \A i \in 1..Len(kids[Top.type]) : kids[Top.type][i] \in Type
  BY <1>5, ElementOfSeq, LenProperties
<1>7. Top.next \in 1..Len(kids[Top.type]) + 1
  BY <1>1 DEF StackOK, Top
<1>8. AtKid => Kid \in Type /\ Top.next \in 1..Len(kids[Top.type])
  BY <1>4, <1>6 DEF AtKid, Kid
<1>9. AtKid /\ ~Overridden => Kid \in Written(Top.type)
  BY <1>8 DEF Written, Overridden, Kid
<1>10. ~AtKid => Top.next = Len(kids[Top.type]) + 1
  BY <1>4, <1>6, <1>7 DEF AtKid
<1> QED
  BY <1>1, <1>2, <1>3, <1>4, <1>6, <1>7, <1>8, <1>9, <1>10

(* The call goes on to its next field.                                     *)
LEMMA CallAdvances ==
    ASSUME GraphOK, StackOK
    PROVE  /\ Advance \in Seq(Frames) /\ Len(Advance) = Len(stack)
           /\ \A i \in 1..Len(stack) :
                 /\ Advance[i].type = stack[i].type
                 /\ Advance[i].enclosing = stack[i].enclosing
                 /\ Advance[i].next = IF i = Len(stack) THEN stack[i].next + 1 ELSE stack[i].next
           /\ AtKid => \A i \in 1..Len(stack) : Advance[i].next \in 1..Len(kids[stack[i].type]) + 1
<1> DEFINE moved == [Top EXCEPT !.next = @ + 1]
<1>1. Len(stack) \in 1..Len(stack) /\ Top \in Frames
  BY CallTyped
<1>2. moved \in Frames /\ moved.type = Top.type /\ moved.enclosing = Top.enclosing /\ moved.next = Top.next + 1
  BY <1>1 DEF Frames
<1>3. Advance = [stack EXCEPT ![Len(stack)] = moved]
  BY <1>1 DEF Advance, Top, StackOK
<1> HIDE DEF moved
<1>4. Advance \in Seq(Frames) /\ Len(Advance) = Len(stack)
      /\ \A i \in 1..Len(stack) : Advance[i] = IF i = Len(stack) THEN moved ELSE stack[i]
  BY <1>1, <1>2, <1>3, ExceptSeq DEF StackOK
<1>5. \A i \in 1..Len(stack) :
                 /\ Advance[i].type = stack[i].type
                 /\ Advance[i].enclosing = stack[i].enclosing
                 /\ Advance[i].next = IF i = Len(stack) THEN stack[i].next + 1 ELSE stack[i].next
  BY <1>2, <1>4 DEF Top
<1>6. AtKid => \A i \in 1..Len(stack) : Advance[i].next \in 1..Len(kids[stack[i].type]) + 1
  <2> SUFFICES ASSUME AtKid, NEW i \in 1..Len(stack)
               PROVE  Advance[i].next \in 1..Len(kids[stack[i].type]) + 1
    OBVIOUS
  <2>1. CASE i = Len(stack)
    <3>1. Advance[i].next = Top.next + 1 /\ stack[i].type = Top.type
      BY <1>5, <2>1 DEF Top
    <3> QED
      BY <3>1, CallTyped
  <2>2. CASE i # Len(stack)
    BY <1>5, <2>2 DEF StackOK
  <2> QED
    BY <2>1, <2>2
<1> QED
  BY <1>4, <1>5, <1>6

LEMMA AdvanceOK ==
    ASSUME GraphOK, StackOK, AtKid, stack' = Advance, UNCHANGED <<kids, seen>>
    PROVE  StackOK'
<1>1. /\ stack' \in Seq(Frames) /\ Len(stack') = Len(stack)
      /\ \A i \in 1..Len(stack) :
            /\ stack'[i].type = stack[i].type /\ stack'[i].enclosing = stack[i].enclosing
            /\ stack'[i].next \in 1..Len(kids[stack[i].type]) + 1
  BY CallAdvances
<1> QED
  BY <1>1 DEF StackOK, Frames

(* A call for the type of the field.                                       *)
LEMMA CallPushes ==
    ASSUME GraphOK, StackOK, AtKid, NEW E \in SUBSET Type, stack' = Append(Advance, Frame(Kid, E))
    PROVE  /\ stack' \in Seq(Frames) /\ Len(stack') = Len(stack) + 1
           /\ stack'[Len(stack) + 1] = Frame(Kid, E)
           /\ \A i \in 1..Len(stack) :
                 /\ stack'[i].type = stack[i].type
                 /\ stack'[i].enclosing = stack[i].enclosing
                 /\ stack'[i].next = IF i = Len(stack) THEN stack[i].next + 1 ELSE stack[i].next
                 /\ stack'[i].next \in 1..Len(kids[stack[i].type]) + 1
<1>1. Kid \in Type /\ Len(stack) \in Nat \ {0}
  BY CallTyped
<1>2. Frame(Kid, E) \in Frames
  BY <1>1 DEF Frame, Frames
<1>3. /\ stack' \in Seq(Frames) /\ Len(stack') = Len(stack) + 1
      /\ stack'[Len(stack) + 1] = Frame(Kid, E)
      /\ \A i \in 1..Len(stack) : stack'[i] = Advance[i]
  BY <1>1, <1>2, CallAdvances, AppendProperties
<1> QED
  BY <1>3, CallAdvances

LEMMA PushOK ==
    ASSUME GraphOK, StackOK, AtKid, NEW E \in SUBSET Type, stack' = Append(Advance, Frame(Kid, E)),
           UNCHANGED kids, seen \subseteq seen', E \subseteq seen', Len(stack) < DepthBound
    PROVE  StackOK'
<1>1. /\ Kid \in Type /\ Len(stack) \in Nat \ {0} /\ DepthBound \in Nat
      /\ Frame(Kid, E).type = Kid /\ Frame(Kid, E).next = 1 /\ Frame(Kid, E).enclosing = E
  BY CallTyped, DepthIsNat DEF Frame
<1>2. kids[Kid] \in Seq(Type)
  BY <1>1, GraphIsTyped DEF GraphTyped
<1>3. Len(stack') \in 1..DepthBound
  BY <1>1, CallPushes
<1>4. ASSUME NEW i \in 1..Len(stack')
      PROVE  stack'[i].next \in 1..Len(kids[stack'[i].type]) + 1 /\ stack'[i].enclosing \subseteq seen'
  <2>1. CASE i = Len(stack) + 1
    <3>1. stack'[i] = Frame(Kid, E)
      BY <2>1, CallPushes
    <3>2. 1 \in 1..Len(kids[Kid]) + 1
      BY <1>2, LenProperties
    <3> QED
      BY <1>1, <3>1, <3>2
  <2>2. CASE i # Len(stack) + 1
    <3>1. i \in 1..Len(stack)
      BY <1>1, <2>2, CallPushes
    <3> QED
      BY <3>1, CallPushes DEF StackOK
  <2> QED
    BY <2>1, <2>2
<1> QED
  BY <1>3, <1>4, CallPushes DEF StackOK, Frames

(* A call returns to its caller.                                           *)
LEMMA CallPops ==
    ASSUME GraphOK, StackOK, Len(stack) > 1, stack' = Pop
    PROVE  /\ stack' \in Seq(Frames) /\ Len(stack') = Len(stack) - 1
           /\ \A i \in 1..(Len(stack) - 1) : stack'[i] = stack[i]
<1>1. Len(stack) \in Nat \ {0}
  BY CallTyped
<1> QED
  BY <1>1, SubSeqProperties DEF Pop, StackOK

LEMMA PopOK ==
    ASSUME GraphOK, StackOK, Len(stack) > 1, stack' = Pop, UNCHANGED <<kids, seen>>
    PROVE  StackOK'
<1>1. Len(stack) \in Nat \ {0} /\ DepthBound \in Nat
  BY CallTyped, DepthIsNat
<1>2. Len(stack') \in 1..DepthBound /\ \A i \in 1..Len(stack') : stack'[i] = stack[i] /\ i \in 1..Len(stack)
  BY <1>1, CallPops DEF StackOK
<1> QED
  BY <1>2, CallPops DEF StackOK, Frames

(* The first call of a walk.                                               *)
LEMMA FirstOK ==
    ASSUME GraphOK, NEW t \in Type, stack' = <<Frame(t, {})>>, UNCHANGED kids
    PROVE  /\ StackOK' /\ Len(stack') = 1
           /\ stack'[1].type = t /\ stack'[1].next = 1 /\ stack'[1].enclosing = {}
<1>1. Frame(t, {}) \in Frames /\ Frame(t, {}).type = t /\ Frame(t, {}).next = 1 /\ Frame(t, {}).enclosing = {}
  BY DEF Frame, Frames
<1>2. stack' \in Seq(Frames) /\ Len(stack') = 1 /\ stack'[1] = Frame(t, {})
  BY <1>1
<1>3. kids[t] \in Seq(Type)
  BY GraphIsTyped DEF GraphTyped
<1>4. 1 \in 1..Len(kids[t]) + 1 /\ 1 \in 1..DepthBound
  BY <1>3, LenProperties, DepthIsNat
<1> QED
  BY <1>1, <1>2, <1>4 DEF StackOK, Frames

LEMMA InitTInv == Init => TInv
<1> SUFFICES ASSUME Init PROVE TInv
  OBVIOUS
<1>1. GraphOK
  <2>1. overridden \subseteq Fields
    BY DEF Init
  <2> QED
    BY <2>1 DEF Init, GraphOK
<1>2. stack = <<Frame(Root, {})>> /\ Frame(Root, {}) \in Frames
  BY RootAssumption DEF Init, Frame, Frames
<1>3. stack \in Seq(Frames) /\ Len(stack) = 1 /\ stack[1] = Frame(Root, {})
  BY <1>2
<1>4. kids[Root] \in Seq(Type)
  BY <1>1, RootAssumption, GraphIsTyped DEF GraphTyped
<1>5. 1 \in 1..Len(kids[Root]) + 1 /\ 1 \in 1..DepthBound
  BY <1>4, LenProperties, DepthIsNat
<1>6. StackOK
  BY <1>3, <1>5 DEF StackOK, Frame
<1>7. SetsOK
  BY RootAssumption DEF Init, SetsOK, Phases
<1>8. Cardinality(seen) = 1
  BY FS_Singleton DEF Init
<1> QED
  BY <1>1, <1>3, <1>6, <1>7, <1>8 DEF TInv

(* The steps that leave the graph and the builder alone.                   *)
LEMMA GraphKeeps == ASSUME GraphOK, UNCHANGED graph PROVE GraphOK' /\ Components' = Components
  BY DEF GraphOK, graph, Fields, KidsOf, Components

LEMMA InsideWithin ==
    ASSUME GraphOK, NEW t \in Type, NEW E
    PROVE  Inside(t, E) \subseteq E \cup {t}
<1>1. kind[t] \in {"component", "inlined", "container"}
  BY KindsAssumption DEF GraphOK
<1> QED
  BY <1>1 DEF Inside

(* A type met for the first time: one more than the calls were.            *)
LEMMA OneMoreSeen ==
    ASSUME seen \subseteq Type, NEW t \in Type, t \notin seen
    PROVE  /\ seen \cup {t} \subseteq Type
           /\ Cardinality(seen) \in Nat
           /\ Cardinality(seen \cup {t}) = Cardinality(seen) + 1
           /\ Cardinality(seen \cup {t}) < DepthBound
<1>1. IsFiniteSet(seen) /\ IsFiniteSet(seen \cup {t})
  BY FiniteAssumption, FS_Subset
<1>2. Cardinality(seen) \in Nat /\ Cardinality(seen \cup {t}) = Cardinality(seen) + 1
  BY <1>1, FS_CardinalityType, FS_AddElement
<1>3. Cardinality(seen \cup {t}) <= Cardinality(Type)
  BY FiniteAssumption, FS_Subset
<1> QED
  BY <1>2, <1>3, DepthIsNat

LEMMA CheckTInv == ASSUME TInv, Check PROVE TInv'
<1>0. GraphOK /\ StackOK /\ SetsOK
  BY DEF TInv
<1>1. phase = "check" /\ Len(stack) <= Cardinality(seen) /\ seen \subseteq Type /\ inlining \subseteq seen
  BY DEF TInv, SetsOK, Check, RefuseSelf, SkipSeen, Enter, Leave, CheckResponse, Accept, Returned
<1>2. UNCHANGED <<graph, schema, named, built>>
  BY DEF Check, RefuseSelf, SkipSeen, Enter, Leave, CheckResponse, Accept, builder
<1>3. GraphOK' /\ Components' = Components /\ kids' = kids /\ response' = response
  BY <1>0, <1>2, GraphKeeps DEF graph
<1>4. IsFiniteSet(seen) /\ Cardinality(seen) \in Nat /\ Len(stack) \in Nat \ {0}
  BY <1>0, <1>1, FiniteAssumption, FS_Subset, FS_CardinalityType, CallTyped
<1>5. CASE RefuseSelf \/ Accept
  <2>1. UNCHANGED <<stack, seen, inlining>> /\ phase' \in {"refused", "accepted"}
    BY <1>5 DEF RefuseSelf, Accept
  <2>2. StackOK'
    BY <1>0, <1>3, <2>1 DEF StackOK, Frames
  <2>3. SetsOK'
    BY <1>0, <1>2, <1>3, <2>1 DEF SetsOK, Phases
  <2> QED
    BY <1>3, <2>1, <2>2, <2>3 DEF TInv
<1>6. CASE SkipSeen
  <2>1. AtKid /\ stack' = Advance /\ UNCHANGED <<phase, seen, inlining>>
    BY <1>6 DEF SkipSeen
  <2>2. StackOK' /\ Len(stack') = Len(stack)
    BY <1>0, <1>3, <2>1, AdvanceOK, CallAdvances
  <2>3. SetsOK'
    BY <1>0, <1>2, <1>3, <2>1 DEF SetsOK, Phases
  <2> QED
    BY <1>1, <1>3, <2>1, <2>2, <2>3 DEF TInv
<1>7. CASE Enter
  <2>1. /\ AtKid /\ Kid \notin seen /\ seen' = seen \cup {Kid} /\ UNCHANGED phase
        /\ stack' = Append(Advance, Frame(Kid, inlining)) /\ inlining' = Inside(Kid, inlining)
    BY <1>7 DEF Enter
  <2>2. Kid \in Type
    BY <1>0, <2>1, CallTyped
  <2>3. /\ seen' \subseteq Type /\ Cardinality(seen') = Cardinality(seen) + 1
        /\ Cardinality(seen') < DepthBound
    BY <1>1, <2>1, <2>2, OneMoreSeen
  <2>4. Len(stack) < DepthBound
    BY <1>1, <1>4, <2>3, DepthIsNat
  <2>5. StackOK' /\ Len(stack') = Len(stack) + 1
    BY <1>0, <1>1, <1>3, <2>1, <2>4, PushOK, CallPushes
  <2>6. inlining' \subseteq seen'
    BY <1>0, <1>1, <2>1, <2>2, InsideWithin
  <2>7. SetsOK'
    BY <1>0, <1>1, <1>2, <1>3, <2>1, <2>3, <2>6 DEF SetsOK, Phases
  <2>8. Len(stack') <= Cardinality(seen')
    BY <1>1, <1>4, <2>3, <2>5
  <2> QED
    BY <1>3, <2>5, <2>7, <2>8 DEF TInv
<1>8. CASE Leave
  <2>1. Len(stack) > 1 /\ stack' = Pop /\ inlining' = Top.enclosing /\ UNCHANGED <<phase, seen>>
    BY <1>8 DEF Leave
  <2>2. StackOK' /\ Len(stack') = Len(stack) - 1
    BY <1>0, <1>3, <2>1, PopOK, CallPops
  <2>3. inlining' \subseteq seen'
    BY <1>0, <2>1, CallTyped DEF Top, StackOK
  <2>4. SetsOK'
    BY <1>0, <1>2, <1>3, <2>1, <2>3 DEF SetsOK, Phases
  <2>5. Len(stack') <= Cardinality(seen')
    BY <1>1, <1>4, <2>1, <2>2
  <2> QED
    BY <1>3, <2>2, <2>4, <2>5 DEF TInv
<1>9. CASE CheckResponse
  <2>1. /\ response \notin seen /\ response \in Type /\ seen' = seen \cup {response} /\ UNCHANGED phase
        /\ stack' = <<Frame(response, {})>> /\ inlining' = Inside(response, {})
    BY <1>0, <1>9 DEF CheckResponse, GraphOK
  <2>2. seen' \subseteq Type /\ Cardinality(seen') = Cardinality(seen) + 1
    BY <1>1, <2>1, OneMoreSeen
  <2>3. StackOK' /\ Len(stack') = 1
    BY <1>0, <1>3, <2>1, FirstOK
  <2>4. inlining' \subseteq seen'
    BY <1>0, <2>1, InsideWithin
  <2>5. SetsOK'
    BY <1>0, <1>2, <1>3, <2>1, <2>2, <2>4 DEF SetsOK, Phases
  <2>6. Len(stack') <= Cardinality(seen')
    BY <1>4, <2>2, <2>3
  <2> QED
    BY <1>3, <2>3, <2>5, <2>6 DEF TInv
<1> QED
  BY <1>5, <1>6, <1>7, <1>8, <1>9 DEF Check

-----------------------------------------------------------------------------
(* The closure of a set of types is closed, and the least that is.         *)
LEMMA ClosureCloses ==
    ASSUME GraphTyped, NEW S \in SUBSET Type
    PROVE  /\ S \subseteq Closure(S) /\ Closure(S) \subseteq Type /\ ClosedWritten(Closure(S))
           /\ \A U \in SUBSET Type : S \subseteq U /\ ClosedWritten(U) => Closure(S) \subseteq U
<1>1. S \subseteq Closure(S) /\ Closure(S) \subseteq Type
  BY DEF Closure
<1>2. \A U \in SUBSET Type : S \subseteq U /\ ClosedWritten(U) => Closure(S) \subseteq U
  BY DEF Closure
<1>3. ClosedWritten(Closure(S))
  <2> SUFFICES ASSUME NEW t \in Closure(S), NEW u \in Written(t) PROVE u \in Closure(S)
    BY DEF ClosedWritten
  <2>1. t \in Type /\ u \in Type
    BY <1>1, WrittenTyped
  <2>2. ASSUME NEW U \in SUBSET Type, S \subseteq U, ClosedWritten(U) PROVE u \in U
    BY <1>2, <2>2 DEF ClosedWritten
  <2> QED
    BY <2>1, <2>2 DEF Closure
<1> QED
  BY <1>1, <1>2, <1>3

(* The components a type holds that hold themselves.                       *)
OwnSchemas(t) == {u \in Closure({t}) : u \in Components /\ u \in Closure(Written(u))}

LEMMA CyclicTypes == ASSUME GraphTyped PROVE cyclicTypes = OwnSchemas(Root)
<1>1. WalkFrom({Root}) = Closure({Root})
  BY RootAssumption, WalkIsClosure
<1>2. Closure({Root}) \subseteq Type
  BY DEF Closure
<1>3. \A t \in Type : WalkFrom(Written(t)) = Closure(Written(t))
  BY WrittenTyped, WalkIsClosure
<1> QED
  BY <1>1, <1>2, <1>3 DEF cyclicTypes, holdsItself, OwnSchemas, Components

(* What each schema built refers to by name.                               *)
Named(what) == IF what = "standalone" THEN OwnSchemas(Root) ELSE Components

(* How the schemas are built: nothing changes but the calls, what is       *)
(* interned and the phase.                                                 *)
LEMMA BuildSteps ==
    ASSUME TInv, Build
    PROVE  /\ UNCHANGED <<graph, seen>>
           /\ phase' \in {"build", "done", "overflow"}
           /\ SetsOK'
           /\ StackOK'
<1>0. GraphOK /\ StackOK /\ SetsOK /\ GraphTyped
  BY GraphIsTyped DEF TInv
<1>1. UNCHANGED <<graph, seen>> /\ phase' \in {"build", "done", "overflow"}
  BY DEF Build, BuildBody, BuildResponse, BuildStandalone, BuildFrom, Override,
                Refer, Descend, Return, Finish, Overflow
<1>2. GraphOK' /\ Components' = Components /\ kids' = kids /\ response' = response
  BY <1>0, <1>1, GraphKeeps DEF graph
<1>3. ASSUME NEW t \in Type, NEW what \in {"request", "response", "standalone"}, NEW names \in SUBSET Components,
             BuildFrom(t, what, names), built' \subseteq names, what = "response" => response # None
      PROVE  SetsOK' /\ StackOK'
  <2>1. /\ stack' = <<Frame(t, {})>> /\ inlining' = {} /\ schema' = what /\ named' = names
        /\ phase' = "build" /\ seen' = seen
    BY <1>3 DEF BuildFrom
  <2>2. StackOK'
    BY <1>0, <1>2, <2>1, FirstOK
  <2>3. SetsOK'
    BY <1>0, <1>2, <1>3, <2>1 DEF SetsOK, Phases
  <2> QED
    BY <2>2, <2>3
<1>4. CASE BuildBody
  <2>1. BuildFrom(Root, "request", Components) /\ built' = built /\ built \subseteq Components
    BY <1>0, <1>4 DEF BuildBody, SetsOK
  <2> QED
    BY <1>1, <1>3, <2>1, RootAssumption
<1>5. CASE BuildResponse
  <2>1. /\ BuildFrom(response, "response", Components) /\ response \in Type /\ response # None
        /\ built' \subseteq Components
    BY <1>0, <1>5 DEF BuildResponse, GraphOK
  <2> QED
    BY <1>1, <1>3, <2>1
<1>6. CASE BuildStandalone
  <2>1. BuildFrom(Root, "standalone", cyclicTypes) /\ built' \subseteq cyclicTypes
    BY <1>6 DEF BuildStandalone
  <2>2. cyclicTypes \subseteq Components
    BY <1>0, CyclicTypes DEF OwnSchemas
  <2> QED
    BY <1>1, <1>3, <2>1, <2>2, RootAssumption
<1>7. CASE Override \/ Refer
  <2>1. AtKid /\ stack' = Advance /\ UNCHANGED <<phase, seen, inlining, schema, named, built>>
    BY <1>7 DEF Override, Refer, builder
  <2>2. StackOK'
    BY <1>0, <1>2, <2>1, AdvanceOK
  <2>3. SetsOK'
    BY <1>0, <1>2, <2>1 DEF SetsOK, Phases
  <2> QED
    BY <1>1, <2>2, <2>3
<1>8. CASE Descend
  <2>1. /\ AtKid /\ stack' = Append(Advance, Frame(Kid, {})) /\ Len(stack) < DepthBound
        /\ UNCHANGED <<phase, seen, inlining, schema, named>>
        /\ built' = built \cup ({Kid} \cap named)
    BY <1>8 DEF Descend, Writes, builder
  <2>2. StackOK'
    BY <1>0, <1>2, <2>1, PushOK
  <2>3. SetsOK'
    BY <1>0, <1>2, <2>1 DEF SetsOK, Phases
  <2> QED
    BY <1>1, <2>2, <2>3
<1>9. CASE Return
  <2>1. /\ Len(stack) > 1 /\ stack' = Pop
        /\ UNCHANGED <<phase, seen, inlining, schema, named, built>>
    BY <1>9 DEF Return, builder
  <2>2. StackOK'
    BY <1>0, <1>2, <2>1, PopOK
  <2>3. SetsOK'
    BY <1>0, <1>2, <2>1 DEF SetsOK, Phases
  <2> QED
    BY <1>1, <2>2, <2>3
<1>10. CASE Finish \/ Overflow
  <2>1. UNCHANGED <<stack, seen, inlining, schema, named, built>>
    BY <1>10 DEF Finish, Overflow, builder
  <2>2. StackOK'
    BY <1>0, <1>2, <2>1 DEF StackOK, Frames
  <2>3. SetsOK'
    BY <1>0, <1>1, <1>2, <2>1 DEF SetsOK, Phases
  <2> QED
    BY <1>1, <2>2, <2>3
<1> QED
  BY <1>4, <1>5, <1>6, <1>7, <1>8, <1>9, <1>10 DEF Build

LEMMA NextTInv == TInv /\ [Next]_vars => TInv'
<1> SUFFICES ASSUME TInv, [Next]_vars PROVE TInv'
  OBVIOUS
<1>1. CASE Check
  BY <1>1, CheckTInv
<1>2. CASE Build
  <2>1. GraphOK'
    BY <1>2, BuildSteps, GraphKeeps DEF TInv
  <2> QED
    BY <1>2, <2>1, BuildSteps DEF TInv
<1>3. CASE UNCHANGED vars
  <2>1. GraphOK' /\ Components' = Components /\ kids' = kids
    BY <1>3, GraphKeeps DEF TInv, vars, graph
  <2>2. StackOK'
    BY <1>3, <2>1 DEF TInv, vars, StackOK, Frames
  <2>3. SetsOK'
    BY <1>3, <2>1 DEF TInv, vars, graph, builder, SetsOK
  <2> QED
    BY <1>3, <2>1, <2>2, <2>3 DEF TInv, vars
<1> QED
  BY <1>1, <1>2, <1>3 DEF Next

(* The variables keep their types in graphs of any size, the stack within  *)
(* the bound on its depth: the check's walk makes no more calls than there *)
(* are types, since c.seen marks each.                                     *)
THEOREM TypeCorrect == Spec => []TypeOK
  BY InitTInv, NextTInv, TInvTypes, PTL DEF Spec

-----------------------------------------------------------------------------
(* No types of F hold one another in turn.                                 *)
Acyclic(F) == \A S \in SUBSET F : S # {} => \E t \in S : Kids(t) \cap S = {}

AllInlined == \A t \in Reachable : kind[t] = "inlined"

(* The types walked to the end.                                            *)
Finished == seen \ inlining

(* What encloses a call are the calls before it, each of a type of its     *)
(* own; what each has passed is walked to the end, but for the type it     *)
(* calls for.                                                              *)
Nested == \A i \in 1..Len(stack) : Inlining(i) = {stack[k].type : k \in 1..i}
Distinct == \A i, j \in 1..Len(stack) : stack[i].type = stack[j].type => i = j
FinishedClosed == \A t \in Finished : Kids(t) \subseteq Finished
Passed ==
    \A i \in 1..Len(stack) : \A j \in 1..(stack[i].next - 1) :
        \/ kids[stack[i].type][j] \in Finished
        \/ /\ i < Len(stack)
           /\ j = stack[i].next - 1
           /\ kids[stack[i].type][j] = stack[i + 1].type

Descends == Nested /\ Distinct /\ FinishedClosed /\ Passed /\ Acyclic(Finished)

SInv ==
    AllInlined =>
        /\ phase = "check" => Descends
        /\ phase \in {"accepted", "build", "done", "overflow"} => Acyclic(Reachable)

(* A type whose fields' types are in no cycle is in none.                  *)
LEMMA AcyclicMore ==
    ASSUME NEW F, Acyclic(F), \A t \in F : Kids(t) \subseteq F,
           NEW x, x \notin F, Kids(x) \subseteq F
    PROVE  Acyclic(F \cup {x})
<1> SUFFICES ASSUME NEW S \in SUBSET (F \cup {x}), S # {}, \A t \in S : Kids(t) \cap S # {}
             PROVE  FALSE
  BY DEF Acyclic
<1>1. S \ {x} # {}
  <2>1. CASE x \in S
    BY <2>1
  <2>2. CASE x \notin S
    BY <2>2
  <2> QED
    BY <2>1, <2>2
<1>2. PICK t \in S \ {x} : Kids(t) \cap (S \ {x}) = {}
  BY <1>1 DEF Acyclic
<1>3. t \in F /\ Kids(t) \subseteq F
  OBVIOUS
<1> QED
  BY <1>2, <1>3

LEMMA ReachableCloses ==
    ASSUME GraphTyped
    PROVE  /\ Declared \subseteq Reachable /\ Reachable \subseteq Type
           /\ \A t \in Reachable : Kids(t) \subseteq Reachable
<1>1. Declared \subseteq Type
  BY RootAssumption DEF Declared, GraphTyped
<1> QED
  BY <1>1, WrittenTyped DEF Reachable

LEMMA GraphSame ==
    ASSUME UNCHANGED graph
    PROVE  /\ Reachable' = Reachable /\ (AllInlined' <=> AllInlined)
           /\ (Acyclic(Reachable)' <=> Acyclic(Reachable))
           /\ kids' = kids /\ kind' = kind
<1>1. kids' = kids /\ kind' = kind /\ response' = response
  BY DEF graph
<1>2. Reachable' = Reachable
  BY <1>1 DEF Reachable, Kids, Declared
<1> QED
  BY <1>1, <1>2 DEF AllInlined, Acyclic, Kids

(* A call that is over has a type all of whose fields' types are finished. *)
LEMMA TopFinished ==
    ASSUME IInv, TInv, Descends, phase = "check", ~AtKid
    PROVE  /\ Top.type \in seen \ Finished /\ Kids(Top.type) \subseteq Finished
           /\ Acyclic(Finished \cup {Top.type})
           /\ \A t \in Finished \cup {Top.type} : Kids(t) \subseteq Finished \cup {Top.type}
<1>0. GraphOK /\ StackOK
  BY DEF TInv
<1>1. Top.type \in seen
  BY TopTyped DEF IInv
<1>2. Top.type \in inlining
  BY <1>0, CallTyped DEF Descends, Nested, Inlining, Top
<1>3. \A j \in 1..(Top.next - 1) : kids[Top.type][j] \in Finished
  BY <1>0, CallTyped DEF Descends, Passed, Top
<1>4. Kids(Top.type) \subseteq Finished
  BY <1>0, <1>3, CallTyped DEF Kids
<1> QED
  BY <1>1, <1>2, <1>4, AcyclicMore DEF Finished, Descends, FinishedClosed

LEMMA InitSInv == Init => SInv
<1> SUFFICES ASSUME Init, AllInlined PROVE Descends
  BY DEF SInv, Init
<1>1. GraphOK /\ GraphTyped
  BY InitTInv, GraphIsTyped DEF TInv
<1>2. kind[Root] = "inlined"
  BY <1>1, ReachableCloses, RootAssumption DEF AllInlined, Declared
<1>3. seen = {Root} /\ inlining = {Root} /\ stack = <<Frame(Root, {})>>
  BY <1>2, RootAssumption DEF Init
<1>4. Len(stack) = 1 /\ stack[1].type = Root /\ stack[1].next = 1 /\ Finished = {}
  BY <1>3 DEF Frame, Finished
<1>5. Nested
  BY <1>3, <1>4 DEF Nested, Inlining
<1> QED
  BY <1>4, <1>5 DEF Descends, Distinct, FinishedClosed, Passed, Acyclic

LEMMA SkipDescends ==
    ASSUME IInv, TInv, Descends, AllInlined, SkipSeen
    PROVE  Descends'
<1>0. GraphOK /\ StackOK
  BY DEF TInv
<1>1. /\ AtKid /\ Kid \in Finished /\ stack' = Advance
      /\ UNCHANGED <<kids, seen, inlining>>
  BY DEF SkipSeen, Finished, graph
<1>2. /\ Len(stack') = Len(stack) /\ Len(stack) \in Nat \ {0} /\ Finished' = Finished
      /\ \A i \in 1..Len(stack) :
            /\ stack'[i].type = stack[i].type /\ stack'[i].enclosing = stack[i].enclosing
            /\ stack'[i].next = IF i = Len(stack) THEN stack[i].next + 1 ELSE stack[i].next
  BY <1>0, <1>1, CallAdvances, CallTyped DEF Finished
<1>3. Nested'
  <2> SUFFICES ASSUME NEW i \in 1..Len(stack)
               PROVE  Inlining(i)' = {stack'[k].type : k \in 1..i}
    BY <1>2 DEF Nested
  <2>1. Inlining(i)' = Inlining(i)
    BY <1>1, <1>2 DEF Inlining
  <2>2. \A k \in 1..i : stack'[k].type = stack[k].type
    BY <1>2
  <2> QED
    BY <2>1, <2>2 DEF Descends, Nested
<1>4. Distinct'
  BY <1>2 DEF Descends, Distinct
<1>5. FinishedClosed' /\ Acyclic(Finished)'
  BY <1>1, <1>2 DEF Descends, FinishedClosed, Acyclic, Kids
<1>6. Passed'
  <2> SUFFICES ASSUME NEW i \in 1..Len(stack), NEW j \in 1..(stack'[i].next - 1)
               PROVE  \/ kids[stack[i].type][j] \in Finished
                      \/ /\ i < Len(stack)
                         /\ j = stack'[i].next - 1
                         /\ kids[stack[i].type][j] = stack[i + 1].type
    <3>1. \A i \in 1..Len(stack) : i < Len(stack) => stack'[i + 1].type = stack[i + 1].type
      BY <1>2
    <3> QED
      BY <1>1, <1>2, <3>1 DEF Passed
  <2>1. CASE i = Len(stack)
    <3>1. stack'[i].next = Top.next + 1 /\ stack[i].type = Top.type /\ Top.next \in Nat
      BY <1>0, <1>2, <2>1, CallTyped DEF Top
    <3>2. CASE j = Top.next
      BY <1>1, <3>1, <3>2 DEF Kid
    <3>3. CASE j # Top.next
      <4>1. j \in 1..(stack[i].next - 1)
        BY <2>1, <3>1, <3>3 DEF Top
      <4> QED
        BY <2>1, <4>1 DEF Descends, Passed
    <3> QED
      BY <3>2, <3>3
  <2>2. CASE i # Len(stack)
    BY <1>2, <2>2 DEF Descends, Passed
  <2> QED
    BY <2>1, <2>2
<1> QED
  BY <1>3, <1>4, <1>5, <1>6 DEF Descends

(* The types seen are reachable.                                           *)
LEMMA SeenIsReachable ==
    ASSUME GraphTyped, WalkTyped, SeenReachable
    PROVE  seen \subseteq Reachable
  BY DEF SeenReachable, ClosedKids, Reachable, WalkTyped

LEMMA EnterDescends ==
    ASSUME IInv, TInv, Descends, AllInlined, Enter
    PROVE  Descends'
<1> DEFINE n == Len(stack)
<1>0. GraphOK /\ StackOK /\ phase = "check" /\ GraphTyped /\ WalkTyped /\ SeenReachable
  BY DEF TInv, IInv, Enter
<1>1. /\ AtKid /\ Kid \notin seen \cup inlining /\ seen' = seen \cup {Kid} /\ kids' = kids
      /\ stack' = Append(Advance, Frame(Kid, inlining)) /\ inlining' = Inside(Kid, inlining)
  BY DEF Enter, graph
<1>2. inlining \in SUBSET Type /\ n \in Nat \ {0} /\ Kid \in Type
  BY <1>0, <1>1, CallTyped DEF WalkTyped
<1>3. inlining' = inlining \cup {Kid}
  <2>1. Kid \in Reachable
    BY <1>0, <1>1, SeenIsReachable, ReachableCloses, TopTyped
  <2>2. kind[Kid] = "inlined"
    BY <2>1 DEF AllInlined
  <2> QED
    BY <1>1, <2>2 DEF Inside
<1>4. Finished' = Finished
  BY <1>1, <1>3 DEF Finished
<1>5. /\ Len(stack') = n + 1
      /\ stack'[n + 1].type = Kid /\ stack'[n + 1].next = 1 /\ stack'[n + 1].enclosing = inlining
      /\ \A i \in 1..n :
            /\ stack'[i].type = stack[i].type /\ stack'[i].enclosing = stack[i].enclosing
            /\ stack'[i].next = IF i = n THEN stack[i].next + 1 ELSE stack[i].next
  BY <1>0, <1>1, <1>2, CallPushes DEF Frame
<1>6. \A i \in 1..n : stack[i].type \in seen
  BY <1>0 DEF WalkTyped
<1>7. Nested'
  <2> SUFFICES ASSUME NEW i \in 1..(n + 1)
               PROVE  Inlining(i)' = {stack'[k].type : k \in 1..i}
    BY <1>5 DEF Nested
  <2>1. inlining = {stack[k].type : k \in 1..n}
    BY <1>2 DEF Descends, Nested, Inlining
  <2>2. CASE i = n + 1
    <3>1. Inlining(i)' = {stack[k].type : k \in 1..n} \cup {Kid}
      BY <1>3, <1>5, <2>1, <2>2 DEF Inlining
    <3>2. 1..i = 1..n \cup {n + 1}
      BY <1>2, <2>2
    <3> QED
      BY <1>5, <3>1, <3>2
  <2>3. CASE i \in 1..n
    <3>1. Inlining(i)' = Inlining(i)
      <4>1. CASE i = n
        BY <1>2, <1>5, <4>1 DEF Inlining
      <4>2. CASE i # n
        <5>1. i + 1 \in 1..n /\ i # n + 1
          BY <1>2, <2>3, <4>2
        <5> QED
          BY <1>5, <4>2, <5>1 DEF Inlining
      <4> QED
        BY <4>1, <4>2
    <3>2. \A k \in 1..i : stack'[k].type = stack[k].type
      BY <1>5, <2>3
    <3> QED
      BY <2>3, <3>1, <3>2 DEF Descends, Nested
  <2> QED
    BY <1>2, <2>2, <2>3
<1>8. Distinct'
  <2> SUFFICES ASSUME NEW i \in 1..(n + 1), NEW j \in 1..(n + 1), stack'[i].type = stack'[j].type
               PROVE  i = j
    BY <1>5 DEF Distinct
  <2>1. \A k \in 1..(n + 1) : k = n + 1 \/ k \in 1..n
    BY <1>2
  <2> QED
    BY <1>1, <1>5, <1>6, <2>1 DEF Descends, Distinct
<1>9. FinishedClosed' /\ Acyclic(Finished)'
  <2>1. kids' = kids
    BY <1>1
  <2>2. FinishedClosed'
    BY <1>4, <2>1 DEF Descends, FinishedClosed, Kids
  <2>3. Acyclic(Finished)'
    <3> SUFFICES ASSUME NEW S \in SUBSET Finished, S # {}
                 PROVE  \E t \in S : Kids(t)' \cap S = {}
      BY <1>4 DEF Acyclic
    <3>1. PICK t \in S : Kids(t) \cap S = {}
      BY DEF Descends, Acyclic
    <3> QED
      BY <2>1, <3>1 DEF Kids
  <2> QED
    BY <2>2, <2>3
<1>10. Passed'
  <2> SUFFICES ASSUME NEW i \in 1..(n + 1), NEW j \in 1..(stack'[i].next - 1)
               PROVE  \/ kids[stack'[i].type][j] \in Finished
                      \/ /\ i < n + 1
                         /\ j = stack'[i].next - 1
                         /\ kids[stack'[i].type][j] = stack'[i + 1].type
    BY <1>1, <1>4, <1>5 DEF Passed
  <2>1. CASE i = n + 1
    BY <1>5, <2>1
  <2>2. CASE i = n
    <3>1. /\ stack'[i].next = Top.next + 1 /\ stack'[i].type = Top.type /\ Top.next \in Nat
          /\ i < n + 1 /\ stack'[i + 1].type = Kid
      BY <1>0, <1>2, <1>5, <2>2, CallTyped DEF Top
    <3>2. CASE j = Top.next
      BY <3>1, <3>2 DEF Kid
    <3>3. CASE j # Top.next
      <4>1. j \in 1..(stack[i].next - 1)
        BY <2>2, <3>1, <3>3 DEF Top
      <4> QED
        BY <1>2, <1>5, <2>2, <4>1 DEF Descends, Passed
    <3> QED
      BY <3>2, <3>3
  <2>3. CASE i \in 1..(n - 1)
    <3>1. i \in 1..n /\ i + 1 \in 1..n /\ i < n /\ i # n /\ i < n + 1
      BY <1>2, <2>3
    <3> QED
      BY <1>5, <3>1 DEF Descends, Passed
  <2> QED
    BY <1>2, <2>1, <2>2, <2>3
<1> QED
  BY <1>7, <1>8, <1>9, <1>10 DEF Descends

LEMMA LeaveDescends ==
    ASSUME IInv, TInv, Descends, AllInlined, Leave
    PROVE  Descends'
<1> DEFINE n == Len(stack)
<1>0. GraphOK /\ StackOK /\ n \in Nat \ {0}
  BY CallTyped DEF TInv
<1>1. /\ phase = "check" /\ ~AtKid /\ n > 1 /\ stack' = Pop /\ inlining' = Top.enclosing
      /\ UNCHANGED <<kids, seen>>
  BY DEF Leave, graph
<1>2. Len(stack') = n - 1 /\ \A i \in 1..(n - 1) : stack'[i] = stack[i]
  BY <1>0, <1>1, CallPops
<1>3. /\ inlining = {stack[k].type : k \in 1..n}
      /\ inlining' = {stack[k].type : k \in 1..(n - 1)}
  <2>1. n \in 1..n /\ n - 1 \in 1..n /\ (n - 1) + 1 = n /\ n - 1 # n
    BY <1>0, <1>1
  <2>2. Inlining(n) = inlining /\ Inlining(n - 1) = Top.enclosing
    BY <2>1 DEF Inlining, Top
  <2> QED
    BY <1>1, <2>1, <2>2 DEF Descends, Nested
<1>4. inlining = inlining' \cup {Top.type} /\ Top.type \notin inlining'
  <2>1. 1..n = 1..(n - 1) \cup {n} /\ n \in 1..n
    BY <1>0
  <2>2. inlining = inlining' \cup {Top.type}
    BY <1>3, <2>1 DEF Top
  <2>3. \A k \in 1..(n - 1) : k \in 1..n /\ k # n
    BY <1>0
  <2>4. Top.type \notin inlining'
    BY <1>3, <2>1, <2>3 DEF Top, Descends, Distinct
  <2> QED
    BY <2>2, <2>4
<1>5. /\ Top.type \in seen \ Finished /\ Acyclic(Finished \cup {Top.type})
      /\ \A t \in Finished \cup {Top.type} : Kids(t) \subseteq Finished \cup {Top.type}
  BY <1>1, TopFinished
<1>6. Finished' = Finished \cup {Top.type}
  BY <1>1, <1>4, <1>5 DEF Finished
<1>7. Nested'
  <2> SUFFICES ASSUME NEW i \in 1..(n - 1)
               PROVE  Inlining(i)' = {stack'[k].type : k \in 1..i}
    BY <1>2 DEF Nested
  <2>1. \A k \in 1..i : stack'[k] = stack[k]
    BY <1>0, <1>2
  <2>2. CASE i = n - 1
    BY <1>2, <1>3, <2>1, <2>2 DEF Inlining
  <2>3. CASE i # n - 1
    <3>1. i \in 1..n /\ i + 1 \in 1..(n - 1) /\ i # n
      BY <1>0, <2>3
    <3>2. Inlining(i)' = Inlining(i)
      BY <1>2, <2>3, <3>1 DEF Inlining
    <3> QED
      BY <2>1, <3>1, <3>2 DEF Descends, Nested
  <2> QED
    BY <2>2, <2>3
<1>8. Distinct'
  <2>1. \A i \in 1..(n - 1) : i \in 1..n
    BY <1>0
  <2> QED
    BY <1>2, <2>1 DEF Descends, Distinct
<1>9. FinishedClosed' /\ Acyclic(Finished)'
  <2> DEFINE F == Finished \cup {Top.type}
  <2>1. Finished' = F /\ Acyclic(F) /\ \A t \in F : Kids(t) \subseteq F
    BY <1>5, <1>6
  <2> HIDE DEF F
  <2> QED
    BY <1>1, <2>1 DEF FinishedClosed, Acyclic, Kids
<1>10. Passed'
  <2> SUFFICES ASSUME NEW i \in 1..(n - 1), NEW j \in 1..(stack[i].next - 1)
               PROVE  \/ kids[stack[i].type][j] \in Finished \cup {Top.type}
                      \/ /\ i < n - 1
                         /\ j = stack[i].next - 1
                         /\ kids[stack[i].type][j] = stack[i + 1].type
    <3>1. \A i \in 1..(n - 1) : i < n - 1 => i + 1 \in 1..(n - 1)
      BY <1>0
    <3> QED
      BY <1>1, <1>2, <1>6, <3>1 DEF Passed
  <2>1. i \in 1..n /\ (i < n - 1 \/ i + 1 = n)
    BY <1>0
  <2>2. i + 1 = n => stack[i + 1].type = Top.type
    BY DEF Top
  <2> QED
    BY <2>1, <2>2 DEF Descends, Passed
<1> QED
  BY <1>7, <1>8, <1>9, <1>10 DEF Descends

(* The first call is over: what has been seen is finished.                 *)
LEMMA ReturnedFinished ==
    ASSUME IInv, TInv, Descends, Returned
    PROVE  Acyclic(seen) /\ \A t \in seen : Kids(t) \subseteq seen
<1>0. GraphOK /\ StackOK /\ SetsOK
  BY DEF TInv
<1>1. phase = "check" /\ ~AtKid /\ Len(stack) = 1
  BY DEF Returned
<1>2. inlining = {Top.type}
  BY <1>1 DEF Descends, Nested, Inlining, Top
<1>3. seen = Finished \cup {Top.type}
  BY <1>0, <1>1, <1>2, TopFinished DEF Finished, SetsOK
<1> QED
  BY <1>1, <1>3, TopFinished

LEMMA CheckResponseDescends ==
    ASSUME IInv, TInv, Descends, AllInlined, CheckResponse
    PROVE  Descends'
<1>0. GraphOK /\ StackOK /\ GraphTyped
  BY DEF TInv, IInv
<1>1. /\ Returned /\ response \notin seen /\ response \in Type \ {None} /\ seen' = seen \cup {response}
      /\ stack' = <<Frame(response, {})>> /\ inlining' = Inside(response, {}) /\ kids' = kids
  BY <1>0 DEF CheckResponse, GraphOK, graph
<1>2. kind[response] = "inlined"
  BY <1>0, <1>1, ReachableCloses DEF AllInlined, Declared
<1>3. inlining' = {response} /\ Finished' = seen
  BY <1>1, <1>2 DEF Inside, Finished
<1>4. Len(stack') = 1 /\ stack'[1].type = response /\ stack'[1].next = 1
  BY <1>0, <1>1, FirstOK
<1>5. Nested'
  BY <1>3, <1>4 DEF Nested, Inlining
<1>6. FinishedClosed' /\ Acyclic(Finished)'
  BY <1>1, <1>3, ReturnedFinished DEF FinishedClosed, Acyclic, Kids
<1> QED
  BY <1>4, <1>5, <1>6 DEF Descends, Distinct, Passed

LEMMA NextSInv == IInv /\ TInv /\ SInv /\ [Next]_vars => SInv'
<1> SUFFICES ASSUME IInv, TInv, SInv, [Next]_vars, AllInlined' PROVE SInv'
  BY DEF SInv
<1>1. UNCHANGED graph
  BY DEF Next, Check, RefuseSelf, SkipSeen, Enter, Leave, CheckResponse, Accept,
         Build, BuildBody, BuildResponse, BuildStandalone, BuildFrom, Override,
         Refer, Descend, Return, Finish, Overflow, vars
<1>2. AllInlined /\ Reachable' = Reachable /\ (Acyclic(Reachable)' <=> Acyclic(Reachable)) /\ kids' = kids
  BY <1>1, GraphSame
<1>3. CASE Check
  <2>1. phase = "check" /\ Descends
    BY <1>2, <1>3 DEF SInv, Check, RefuseSelf, SkipSeen, Enter, Leave, CheckResponse, Accept, Returned
  <2>2. CASE RefuseSelf
    BY <2>2 DEF RefuseSelf, SInv
  <2>3. CASE SkipSeen \/ Enter \/ Leave \/ CheckResponse
    <3>1. phase' = "check"
      BY <2>1, <2>3 DEF SkipSeen, Enter, Leave, CheckResponse
    <3>2. Descends'
      BY <1>2, <2>1, <2>3, SkipDescends, EnterDescends, LeaveDescends, CheckResponseDescends
    <3> QED
      BY <3>1, <3>2 DEF SInv
  <2>4. CASE Accept
    <3>1. phase' = "accepted" /\ seen' = seen
      BY <2>4 DEF Accept
    <3>2. AllTypesChecked'
      BY NextIInv DEF IInv
    <3>3. Acyclic(Reachable)
      BY <1>2, <2>1, <2>4, <3>1, <3>2, ReturnedFinished DEF Accept, AllTypesChecked
    <3> QED
      BY <1>2, <3>1, <3>3 DEF SInv
  <2> QED
    BY <1>3, <2>2, <2>3, <2>4 DEF Check
<1>4. CASE Build
  <2>1. /\ phase \in {"accepted", "build", "done", "overflow"}
        /\ phase' \in {"build", "done", "overflow"}
    BY <1>4 DEF Build, BuildBody, BuildResponse, BuildStandalone, BuildFrom, Override,
                Refer, Descend, Return, Finish, Overflow
  <2> QED
    BY <1>2, <2>1 DEF SInv
<1>5. CASE UNCHANGED vars
  <2>1. UNCHANGED <<kids, stack, seen, inlining, phase>>
    BY <1>2, <1>5 DEF vars
  <2>2. Descends => Descends'
    <3>1. /\ \A t : Kids(t)' = Kids(t)
          /\ Finished' = Finished
          /\ \A i : Inlining(i)' = Inlining(i)
      BY <2>1 DEF Kids, Finished, Inlining
    <3>2. /\ Nested => Nested'
          /\ Distinct => Distinct'
          /\ Passed => Passed'
      BY <2>1, <3>1 DEF Nested, Distinct, Passed
    <3>3. /\ FinishedClosed => FinishedClosed'
          /\ Acyclic(Finished) => Acyclic(Finished)'
      BY <3>1 DEF FinishedClosed, Acyclic
    <3> QED
      BY <3>2, <3>3 DEF Descends
  <2> QED
    BY <1>2, <2>1, <2>2 DEF SInv
<1> QED
  BY <1>3, <1>4, <1>5 DEF Next

-----------------------------------------------------------------------------
(* The type whose schema is built.                                         *)
Start == IF schema = "response" THEN response ELSE Root

(* Each call is for the type of a field of the call before it.             *)
Calls ==
    /\ stack[1].type = Start
    /\ \A i \in 1..Len(stack) : stack[i].type \in Documented
    /\ \A i \in 1..(Len(stack) - 1) : stack[i + 1].type \in Written(stack[i].type)

(* A type with a name is interned when it is called for, and only once.    *)
Interned ==
    \A i \in 2..Len(stack) :
        stack[i].type \in named =>
            /\ stack[i].type \in built
            /\ \A j \in 2..Len(stack) : stack[j].type = stack[i].type => j = i

(* What is interned before any field is.                                   *)
First == IF schema = "request" THEN {} ELSE {Start} \cap named

(* Only what is documented is interned.                                    *)
Needed ==
    /\ First \subseteq built
    /\ \A t \in built : t \in First \/ \E u \in Documented : t \in Written(u)

(* The schema of t's field j has been called for; if by name, the type is  *)
(* interned.                                                               *)
Settled(t, j, A) ==
    \/ <<t, j>> \in overridden
    \/ kids[t][j] \in A /\ (kids[t][j] \in named => kids[t][j] \in built)

(* All of t's fields are settled, or those that a call has passed.         *)
Cover(t, A) ==
    \/ \A j \in 1..Len(kids[t]) : Settled(t, j, A)
    \/ \E i \in 1..Len(stack) :
          stack[i].type = t /\ \A j \in 1..(stack[i].next - 1) : Settled(t, j, A)

(* The types called for so far.                                            *)
Covers(A) == Start \in A /\ built \subseteq A /\ \A t \in A : Cover(t, A)

Building ==
    /\ named = Named(schema)
    /\ Calls
    /\ Interned
    /\ Needed
    /\ \E A \in SUBSET Type : Covers(A)

BInv ==
    /\ phase \in {"check", "accepted", "refused"} => built = {}
    /\ phase \in {"build", "done", "overflow"} => Building
    /\ phase = "done" => Len(stack) = 1 /\ ~AtKid
    /\ phase = "overflow" => Len(stack) = DepthBound

LEMMA DocumentedCloses ==
    ASSUME TInv
    PROVE  /\ Start \in Type /\ Documented = Closure({Start})
           /\ Start \in Documented /\ Documented \subseteq Type /\ ClosedWritten(Documented)
           /\ \A U \in SUBSET Type : Start \in U /\ ClosedWritten(U) => Documented \subseteq U
<1>1. GraphTyped /\ Start \in Type
  BY GraphIsTyped, RootAssumption DEF TInv, SetsOK, GraphOK, Start
<1>2. Documented = Closure({Start})
  BY DEF Documented, Closure, ClosedWritten, Start
<1> QED
  BY <1>1, <1>2, ClosureCloses

(* What does not change while a schema is built.                           *)
LEMMA BuildSame ==
    ASSUME UNCHANGED <<graph, schema>>
    PROVE  /\ kids' = kids /\ overridden' = overridden /\ Start' = Start /\ Documented' = Documented
           /\ \A t : Written(t)' = Written(t)
           /\ Named(schema)' = Named(schema)
<1>1. UNCHANGED <<kind, kids, overridden, response, schema>>
  BY DEF graph
<1>2. \A t : Written(t)' = Written(t)
  BY <1>1 DEF Written
<1>3. Start' = Start
  BY <1>1 DEF Start
<1>4. Documented' = Documented
  BY <1>1 DEF Documented, Written
<1>5. Named(schema)' = Named(schema)
  BY <1>1 DEF Named, OwnSchemas, Closure, ClosedWritten, Written, Components
<1> QED
  BY <1>1, <1>2, <1>3, <1>4, <1>5

(* The first call of a build.                                              *)
LEMMA StartKeeps ==
    ASSUME TInv, NEW t \in Type, NEW what \in {"request", "response", "standalone"},
           BuildFrom(t, what, Named(what)),
           t = IF what = "response" THEN response ELSE Root,
           built' = IF what = "request" THEN {} ELSE {t} \cap Named(what)
    PROVE  BInv'
<1>1. /\ stack' = <<Frame(t, {})>> /\ phase' = "build" /\ schema' = what /\ named' = Named(what)
      /\ UNCHANGED <<kind, kids, overridden, response>> /\ GraphOK
  BY DEF BuildFrom, TInv, graph
<1>2. Len(stack') = 1 /\ stack'[1].type = t /\ stack'[1].next = 1
  BY <1>1, FirstOK
<1>3. Start' = t
  BY <1>1 DEF Start
<1>4. t \in Documented'
  BY <1>1 DEF Documented
<1>5. named' = Named(schema)'
  BY <1>1 DEF Named, OwnSchemas, Closure, ClosedWritten, Written, Components
<1>6. Calls' /\ Interned'
  BY <1>2, <1>3, <1>4 DEF Calls, Interned
<1>7. Needed'
  BY <1>1, <1>3 DEF Needed, First
<1>8. Covers({t})'
  <2>1. Cover(t, {t})'
    BY <1>2 DEF Cover
  <2>2. built' \subseteq {t}
    OBVIOUS
  <2> QED
    BY <1>3, <2>1, <2>2 DEF Covers
<1>9. (\E A \in SUBSET Type : Covers(A))'
  BY <1>8
<1> QED
  BY <1>1, <1>5, <1>6, <1>7, <1>9 DEF BInv, Building

(* A field settled stays so.                                               *)
LEMMA SettledStays ==
    ASSUME UNCHANGED <<kids, overridden, named>>, built \subseteq built',
           NEW t, NEW j, NEW A, NEW B, A \subseteq B, Settled(t, j, A)
    PROVE  Settled(t, j, B)'
  BY DEF Settled

(* What is covered stays so when a call settles the field it is at.        *)
LEMMA AdvanceCovers ==
    ASSUME GraphOK, StackOK, AtKid, UNCHANGED <<kids, overridden, named>>, built \subseteq built',
           NEW A \in SUBSET Type, NEW B \in SUBSET Type, A \subseteq B,
           NEW x, x = Top.type, NEW y, y = Top.next, Settled(x, y, B)',
           Len(stack') >= Len(stack), Len(stack') \in Nat,
           \A i \in 1..Len(stack) :
                 /\ stack'[i].type = stack[i].type
                 /\ stack'[i].next = IF i = Len(stack) THEN stack[i].next + 1 ELSE stack[i].next,
           NEW t \in A, Cover(t, A)
    PROVE  Cover(t, B)'
<1>1. CASE \A j \in 1..Len(kids[t]) : Settled(t, j, A)
  <2>1. \A j \in 1..Len(kids[t]) : Settled(t, j, B)'
    BY <1>1, SettledStays
  <2> QED
    BY <2>1 DEF Cover
<1>2. CASE \E i \in 1..Len(stack) :
             stack[i].type = t /\ \A j \in 1..(stack[i].next - 1) : Settled(t, j, A)
  <2>1. PICK i \in 1..Len(stack) :
          stack[i].type = t /\ \A j \in 1..(stack[i].next - 1) : Settled(t, j, A)
    BY <1>2
  <2>2. \A j \in 1..(stack[i].next - 1) : Settled(t, j, B)'
    BY <2>1, SettledStays
  <2>3. i \in 1..Len(stack') /\ stack'[i].type = t
    BY <2>1, CallTyped
  <2>4. \A j \in 1..(stack'[i].next - 1) : Settled(t, j, B)'
    <3>1. CASE i = Len(stack)
      <4>1. stack[i].next \in Nat \ {0} /\ stack[i].next = Top.next /\ t = Top.type
        BY <2>1, <3>1, CallTyped DEF Top
      <4>2. stack'[i].next = stack[i].next + 1
        BY <3>1
      <4>3. \A j \in 1..(stack'[i].next - 1) : j \in 1..(stack[i].next - 1) \/ j = Top.next
        BY <4>1, <4>2
      <4> QED
        BY <2>2, <4>1, <4>3
    <3>2. CASE i # Len(stack)
      <4>1. stack'[i].next = stack[i].next
        BY <3>2
      <4> QED
        BY <2>2, <4>1
    <3> QED
      BY <3>1, <3>2
  <2> QED
    BY <2>3, <2>4 DEF Cover
<1> QED
  BY <1>1, <1>2 DEF Cover

(* The calls stay in order when one goes on.                               *)
LEMMA OnwardKeeps ==
    ASSUME TInv, BInv, Override \/ Refer
    PROVE  BInv'
<1>0. GraphOK /\ StackOK /\ Building
  BY DEF TInv, BInv, Override, Refer
<1>1. /\ phase' = "build" /\ AtKid /\ stack' = Advance
      /\ UNCHANGED <<graph, schema, named, built>>
      /\ Overridden \/ Kid \in built
  BY DEF Override, Refer, Writes, builder
<1>2. /\ kids' = kids /\ overridden' = overridden /\ Start' = Start /\ Documented' = Documented
      /\ \A t : Written(t)' = Written(t)
      /\ Named(schema)' = Named(schema)
  BY <1>1, BuildSame
<1>3. /\ Len(stack') = Len(stack) /\ Len(stack) \in Nat \ {0}
      /\ \A i \in 1..Len(stack) :
            /\ stack'[i].type = stack[i].type
            /\ stack'[i].next = IF i = Len(stack) THEN stack[i].next + 1 ELSE stack[i].next
  BY <1>0, <1>1, CallAdvances, CallTyped
<1>4. Calls'
  <2>1. \A i \in 1..(Len(stack) - 1) : i \in 1..Len(stack) /\ i + 1 \in 1..Len(stack)
    BY <1>3
  <2>2. 1 \in 1..Len(stack)
    BY <1>3
  <2> QED
    BY <1>0, <1>2, <1>3, <2>1, <2>2 DEF Building, Calls
<1>5. Interned'
  <2>1. \A i \in 2..Len(stack) : i \in 1..Len(stack)
    OBVIOUS
  <2> QED
    BY <1>0, <1>1, <1>3, <2>1 DEF Building, Interned
<1>6. Needed'
  BY <1>0, <1>1, <1>2 DEF Building, Needed, First
<1>7. (\E A \in SUBSET Type : Covers(A))'
  <2>1. PICK A \in SUBSET Type : Covers(A)
    BY <1>0 DEF Building
  <2>2. PICK x, y : x = Top.type /\ y = Top.next
    OBVIOUS
  <2>3. Settled(x, y, A)'
    <3>1. CASE Overridden
      BY <1>2, <2>2, <3>1 DEF Overridden, Settled
    <3>2. CASE Kid \in built
      BY <1>1, <1>2, <2>1, <2>2, <3>2 DEF Settled, Covers, Kid
    <3> QED
      BY <1>1, <3>1, <3>2
  <2>4. ASSUME NEW t \in A PROVE Cover(t, A)'
    <3>1. Cover(t, A) /\ built \subseteq built'
      BY <1>1, <2>1 DEF Covers
    <3> QED
      BY <1>0, <1>1, <1>2, <1>3, <2>2, <2>3, <3>1, AdvanceCovers
  <2>5. Covers(A)'
    BY <1>1, <1>2, <2>1, <2>4 DEF Covers
  <2> QED
    BY <2>5
<1> QED
  BY <1>0, <1>1, <1>2, <1>4, <1>5, <1>6, <1>7 DEF BInv, Building

(* A call for the type of a field, interned first if it has a name.        *)
LEMMA DescendKeeps ==
    ASSUME TInv, BInv, Descend
    PROVE  BInv'
<1> DEFINE n == Len(stack)
<1>0. GraphOK /\ StackOK /\ Building
  BY DEF TInv, BInv, Descend
<1>1. /\ phase' = "build" /\ AtKid /\ ~Overridden /\ Kid \notin built
      /\ stack' = Append(Advance, Frame(Kid, {}))
      /\ UNCHANGED <<graph, schema, named>>
      /\ built' = built \cup ({Kid} \cap named)
  BY DEF Descend, Writes, builder
<1>2. /\ kids' = kids /\ overridden' = overridden /\ Start' = Start /\ Documented' = Documented
      /\ \A t : Written(t)' = Written(t)
      /\ Named(schema)' = Named(schema)
  BY <1>1, BuildSame
<1>3. n \in Nat \ {0} /\ n \in 1..n /\ Kid \in Type /\ Kid \in Written(Top.type)
  BY <1>0, <1>1, CallTyped
<1>4. /\ Len(stack') = n + 1
      /\ stack'[n + 1].type = Kid /\ stack'[n + 1].next = 1
      /\ \A i \in 1..n :
            /\ stack'[i].type = stack[i].type
            /\ stack'[i].next = IF i = n THEN stack[i].next + 1 ELSE stack[i].next
  BY <1>0, <1>1, CallPushes DEF Frame
<1>5. Top.type \in Documented /\ Kid \in Documented
  <2>1. Top.type \in Documented
    BY <1>0, <1>3 DEF Building, Calls, Top
  <2> QED
    BY <1>3, <2>1, DocumentedCloses DEF ClosedWritten
<1> HIDE DEF n
<1>6. Calls'
  <2>1. stack'[1].type = Start
    BY <1>0, <1>3, <1>4 DEF Building, Calls
  <2>2. ASSUME NEW i \in 1..(n + 1) PROVE stack'[i].type \in Documented
    <3>1. i = n + 1 \/ i \in 1..n
      BY <1>3
    <3> QED
      BY <1>0, <1>4, <1>5, <3>1 DEF Building, Calls, n
  <2>3. ASSUME NEW i \in 1..n PROVE stack'[i + 1].type \in Written(stack'[i].type)
    <3>1. CASE i = n
      BY <1>3, <1>4, <3>1 DEF Top, n
    <3>2. CASE i # n
      <4>1. i \in 1..(n - 1) /\ i + 1 \in 1..n
        BY <1>3, <3>2
      <4> QED
        BY <1>0, <1>4, <4>1 DEF Building, Calls, n
    <3> QED
      BY <3>1, <3>2
  <2>4. (n + 1) - 1 = n
    BY <1>3
  <2> QED
    BY <1>2, <1>4, <2>1, <2>2, <2>3, <2>4 DEF Calls
<1>7. Interned'
  <2> SUFFICES ASSUME NEW i \in 2..(n + 1), stack'[i].type \in named
               PROVE  /\ stack'[i].type \in built'
                      /\ \A j \in 2..(n + 1) : stack'[j].type = stack'[i].type => j = i
    BY <1>1, <1>4 DEF Interned
  <2>1. \A j \in 2..(n + 1) : j = n + 1 \/ (j \in 2..n /\ j \in 1..n)
    BY <1>3
  <2>2. \A j \in 2..n : stack[j].type \in named =>
           /\ stack[j].type \in built
           /\ \A k \in 2..n : stack[k].type = stack[j].type => k = j
    BY <1>0 DEF Building, Interned, n
  <2>3. stack'[i].type \in built'
    BY <1>1, <1>4, <2>1, <2>2
  <2>4. \A j \in 2..(n + 1) : stack'[j].type = stack'[i].type => j = i
    BY <1>1, <1>4, <2>1, <2>2
  <2> QED
    BY <2>3, <2>4
<1>8. Needed'
  <2>1. First' = First
    BY <1>1, <1>2 DEF First
  <2>2. ASSUME NEW t \in built' PROVE t \in First \/ \E u \in Documented : t \in Written(u)
    BY <1>0, <1>1, <1>3, <1>5 DEF Building, Needed
  <2>3. First \subseteq built'
    BY <1>0, <1>1 DEF Building, Needed
  <2> QED
    BY <1>2, <2>1, <2>2, <2>3 DEF Needed
<1>9. (\E A \in SUBSET Type : Covers(A))'
  <2>1. PICK A \in SUBSET Type : Covers(A)
    BY <1>0 DEF Building
  <2>2. PICK x, y, k : x = Top.type /\ y = Top.next /\ k = Kid
    OBVIOUS
  <2> DEFINE B == A \cup {k}
  <2>3. Settled(x, y, B)'
    BY <1>1, <1>2, <2>2 DEF Settled, Kid
  <2>4. ASSUME NEW t \in A PROVE Cover(t, B)'
    <3>1. Cover(t, A)
      BY <2>1 DEF Covers
    <3>2. built \subseteq built' /\ n + 1 >= n /\ n + 1 \in Nat
      BY <1>1, <1>3
    <3>3. B \in SUBSET Type /\ A \subseteq B
      BY <1>3, <2>2
    <3> HIDE DEF B
    <3> QED
      BY <1>0, <1>1, <1>2, <1>4, <2>2, <2>3, <3>1, <3>2, <3>3, AdvanceCovers DEF n
  <2>5. Cover(k, B)'
    <3>1. n + 1 \in 1..(n + 1)
      BY <1>3
    <3> QED
      BY <1>4, <2>2, <3>1 DEF Cover
  <2>6. built' \subseteq B
    BY <1>1, <2>1, <2>2 DEF Covers
  <2>7. Covers(B)'
    BY <1>2, <2>1, <2>4, <2>5, <2>6 DEF Covers
  <2>8. B \in SUBSET Type
    BY <1>3, <2>2
  <2> QED
    BY <2>7, <2>8
<1> QED
  BY <1>0, <1>1, <1>2, <1>6, <1>7, <1>8, <1>9 DEF BInv, Building

(* A call returns: all its fields are settled.                             *)
LEMMA ReturnKeeps ==
    ASSUME TInv, BInv, Return
    PROVE  BInv'
<1> DEFINE n == Len(stack)
<1>0. GraphOK /\ StackOK /\ Building
  BY DEF TInv, BInv, Return
<1>1. /\ phase' = "build" /\ ~AtKid /\ n > 1 /\ stack' = Pop
      /\ UNCHANGED <<graph, schema, named, built>>
  BY DEF Return, builder
<1>2. /\ kids' = kids /\ overridden' = overridden /\ Start' = Start /\ Documented' = Documented
      /\ \A t : Written(t)' = Written(t)
      /\ Named(schema)' = Named(schema)
  BY <1>1, BuildSame
<1>3. n \in Nat /\ Len(stack') = n - 1 /\ \A i \in 1..(n - 1) : stack'[i] = stack[i]
  BY <1>0, <1>1, CallPops, CallTyped
<1>4. Calls'
  <2>1. \A i \in 1..((n - 1) - 1) : i \in 1..(n - 1) /\ i + 1 \in 1..(n - 1)
    BY <1>1, <1>3
  <2>2. 1 \in 1..(n - 1) /\ \A i \in 1..(n - 1) : i \in 1..n
    BY <1>1, <1>3
  <2> QED
    BY <1>0, <1>2, <1>3, <2>1, <2>2 DEF Building, Calls
<1>5. Interned'
  <2>1. \A i \in 2..(n - 1) : i \in 2..n /\ stack'[i] = stack[i]
    BY <1>3
  <2>2. Interned
    BY <1>0 DEF Building
  <2> QED
    BY <1>1, <1>3, <2>1, <2>2 DEF Interned
<1>6. Needed'
  BY <1>0, <1>1, <1>2 DEF Building, Needed, First
<1>7. (\E A \in SUBSET Type : Covers(A))'
  <2>1. PICK A \in SUBSET Type : Covers(A)
    BY <1>0 DEF Building
  <2>2. \A t, j : Settled(t, j, A) => Settled(t, j, A)'
    BY <1>1, <1>2, SettledStays
  <2>3. ASSUME NEW t \in A PROVE Cover(t, A)'
    <3>1. CASE \A j \in 1..Len(kids[t]) : Settled(t, j, A)
      BY <1>2, <2>2, <3>1 DEF Cover
    <3>2. CASE \E i \in 1..n : stack[i].type = t /\ \A j \in 1..(stack[i].next - 1) : Settled(t, j, A)
      <4>1. PICK i \in 1..n : stack[i].type = t /\ \A j \in 1..(stack[i].next - 1) : Settled(t, j, A)
        BY <3>2
      <4>2. CASE i = n
        <5>1. Top.type = t /\ Top.next = Len(kids[t]) + 1 /\ Len(kids[t]) \in Nat
          BY <1>0, <1>1, <4>1, <4>2, CallTyped DEF Top
        <5>2. \A j \in 1..Len(kids[t]) : Settled(t, j, A)
          BY <4>1, <4>2, <5>1 DEF Top
        <5> QED
          BY <1>2, <2>2, <5>2 DEF Cover
      <4>3. CASE i # n
        <5>1. i \in 1..(n - 1)
          BY <1>3, <4>3
        <5> QED
          BY <1>3, <2>2, <4>1, <5>1 DEF Cover
      <4> QED
        BY <4>2, <4>3
    <3> QED
      BY <2>1, <3>1, <3>2 DEF Covers, Cover
  <2>4. Covers(A)'
    BY <1>1, <1>2, <2>1, <2>3 DEF Covers
  <2> QED
    BY <2>4
<1> QED
  BY <1>0, <1>1, <1>2, <1>4, <1>5, <1>6, <1>7 DEF BInv, Building

(* Building is about the calls and what is interned, whatever the phase.   *)
LEMMA StillKeeps ==
    ASSUME Building, UNCHANGED <<graph, stack, schema, named, built>>
    PROVE  Building' /\ (AtKid' <=> AtKid)
<1>1. /\ kids' = kids /\ overridden' = overridden /\ Start' = Start /\ Documented' = Documented
      /\ \A t : Written(t)' = Written(t)
      /\ Named(schema)' = Named(schema)
  BY BuildSame
<1>2. Calls' /\ Interned' /\ Needed'
  BY <1>1 DEF Building, Calls, Interned, Needed, First
<1>3. \A A : Covers(A) => Covers(A)'
  BY <1>1 DEF Covers, Cover, Settled
<1>4. (\E A \in SUBSET Type : Covers(A))'
  BY <1>3 DEF Building
<1> QED
  BY <1>1, <1>2, <1>4 DEF Building, AtKid, Top

LEMMA NextBInv == TInv /\ BInv /\ [Next]_vars => BInv'
<1> SUFFICES ASSUME TInv, BInv, [Next]_vars PROVE BInv'
  OBVIOUS
<1>1. CASE Check
  <2>1. phase = "check" /\ phase' \in {"check", "refused", "accepted"} /\ built' = built
    BY <1>1 DEF Check, RefuseSelf, SkipSeen, Enter, Leave, CheckResponse, Accept, Returned
  <2> QED
    BY <2>1 DEF BInv
<1>2. CASE BuildBody \/ BuildResponse \/ BuildStandalone
  <2>1. GraphTyped /\ response \in Type \cup {None}
    BY GraphIsTyped DEF TInv, GraphOK
  <2>2. CASE BuildBody
    BY <2>2, StartKeeps, RootAssumption DEF BuildBody, BInv, BuildFrom, Named
  <2>3. CASE BuildResponse
    BY <2>1, <2>3, StartKeeps DEF BuildResponse, Named
  <2>4. CASE BuildStandalone
    BY <2>1, <2>4, StartKeeps, CyclicTypes, RootAssumption DEF BuildStandalone, Named
  <2> QED
    BY <1>2, <2>2, <2>3, <2>4
<1>3. CASE Finish \/ Overflow
  <2>1. /\ Building /\ UNCHANGED <<graph, stack, schema, named, built>>
        /\ \/ phase' = "done" /\ Len(stack) = 1 /\ ~AtKid
           \/ phase' = "overflow" /\ Len(stack) = DepthBound
    BY <1>3 DEF BInv, Finish, Overflow, builder
  <2> QED
    BY <2>1, StillKeeps DEF BInv
<1>4. CASE UNCHANGED vars
  <2>1. UNCHANGED <<graph, phase, stack, schema, named, built>>
    BY <1>4 DEF vars, builder
  <2> QED
    BY <2>1, StillKeeps DEF BInv
<1> QED
  BY <1>1, <1>2, <1>3, <1>4, OnwardKeeps, DescendKeeps, ReturnKeeps DEF Next, Build

-----------------------------------------------------------------------------
(* A document has the components its schemas refer to, and no other.       *)
LEMMA OwnIsHeld ==
    ASSUME GraphTyped, NEW t \in Type
    PROVE  HoldsOwn(t) <=> t \in Closure(Written(t))
  BY DEF HoldsOwn, Closure, ClosedWritten

LEMMA DoneCloses == TInv /\ BInv => ComponentsClosed
<1> SUFFICES ASSUME TInv, BInv, phase = "done"
             PROVE  built = CASE schema = "standalone" -> {t \in Components \cap Documented : HoldsOwn(t)}
                              [] schema = "request"    -> Components \cap UNION {Written(t) : t \in Documented}
                              [] schema = "response"   -> Components \cap Documented
  BY DEF ComponentsClosed
<1>0. GraphOK /\ GraphTyped /\ StackOK /\ SetsOK /\ Building /\ Len(stack) = 1 /\ ~AtKid
  BY GraphIsTyped DEF TInv, BInv
<1>1. /\ Start \in Type /\ Documented = Closure({Start})
      /\ Start \in Documented /\ Documented \subseteq Type /\ ClosedWritten(Documented)
      /\ \A U \in SUBSET Type : Start \in U /\ ClosedWritten(U) => Documented \subseteq U
  BY DocumentedCloses
<1>2. PICK A \in SUBSET Type : Covers(A)
  BY <1>0 DEF Building
<1>3. \A t \in A : \A j \in 1..Len(kids[t]) : Settled(t, j, A)
  <2> SUFFICES ASSUME NEW t \in A,
                      NEW i \in 1..Len(stack), stack[i].type = t,
                      \A j \in 1..(stack[i].next - 1) : Settled(t, j, A)
               PROVE  \A j \in 1..Len(kids[t]) : Settled(t, j, A)
    BY <1>2 DEF Covers, Cover
  <2>1. i = 1 /\ stack[i] = Top
    BY <1>0 DEF Top
  <2>2. Top.next = Len(kids[t]) + 1 /\ Len(kids[t]) \in Nat
    BY <1>0, <2>1, CallTyped
  <2> QED
    BY <2>1, <2>2
<1>4. \A t \in A : \A u \in Written(t) : u \in A /\ (u \in named => u \in built)
  BY <1>3 DEF Settled, Written
<1>5. Documented \subseteq A
  BY <1>1, <1>2, <1>4 DEF Covers, ClosedWritten
<1> DEFINE W == UNION {Written(t) : t \in Documented}
<1>6. W \cap named \subseteq built
  BY <1>4, <1>5
<1>7. Documented \subseteq {Start} \cup W /\ W \subseteq Documented
  <2>1. W \subseteq Documented
    BY <1>1 DEF ClosedWritten
  <2>2. ClosedWritten({Start} \cup W)
    BY <1>1, <2>1 DEF ClosedWritten
  <2> QED
    BY <1>1, <2>1, <2>2
<1>8. First \subseteq built /\ built \subseteq First \cup W /\ built \subseteq named
  BY <1>0 DEF Building, Needed, SetsOK
<1> HIDE DEF W
<1>9. CASE schema = "request"
  BY <1>0, <1>6, <1>8, <1>9 DEF Building, Named, First, W
<1>10. CASE schema # "request"
  <2>1. First = {Start} \cap named
    BY <1>10 DEF First
  <2>2. built = named \cap Documented
    BY <1>1, <1>6, <1>7, <1>8, <2>1
  <2>3. CASE schema = "response"
    BY <1>0, <2>2, <2>3 DEF Building, Named
  <2>4. CASE schema = "standalone"
    <3>1. named = OwnSchemas(Root) /\ Start = Root
      BY <1>0, <2>4 DEF Building, Named, Start
    <3>2. OwnSchemas(Root) = {t \in Components \cap Documented : HoldsOwn(t)}
      BY <1>0, <1>1, <3>1, OwnIsHeld DEF OwnSchemas
    <3> QED
      BY <2>2, <2>4, <3>1, <3>2
  <2> QED
    BY <1>0, <1>10, <2>3, <2>4 DEF SetsOK
<1> QED
  BY <1>9, <1>10

-----------------------------------------------------------------------------
(* A set of types that the calls come into holds the later ones too.       *)
LEMMA CallsClimb ==
    ASSUME GraphOK, StackOK, Calls, NEW S \in SUBSET Type, ClosedWritten(S),
           NEW a \in 1..Len(stack), NEW b \in a..Len(stack), stack[a].type \in S
    PROVE  stack[b].type \in S
<1> DEFINE Out == {m \in a..Len(stack) : stack[m].type \notin S}
<1>0. Len(stack) \in Nat
  BY CallTyped
<1>1. ASSUME NEW m \in Out, \A k \in Out : m <= k PROVE FALSE
  <2>1. m \in a..Len(stack) /\ m # a /\ stack[m].type \notin S
    OBVIOUS
  <2>2. m - 1 \in a..Len(stack) /\ m - 1 \in 1..(Len(stack) - 1) /\ (m - 1) + 1 = m /\ ~(m <= m - 1)
    BY <1>0, <2>1
  <2>3. stack[m - 1].type \in S
    BY <1>1, <2>2
  <2>4. stack[(m - 1) + 1].type \in Written(stack[m - 1].type)
    BY <2>2 DEF Calls
  <2> QED
    BY <2>1, <2>2, <2>3, <2>4 DEF ClosedWritten
<1>2. Out \in SUBSET Nat
  BY <1>0
<1>3. Out = {}
  <2> HIDE DEF Out
  <2> QED
    BY <1>1, <1>2, LeastNatural
<1> QED
  BY <1>3

(* The calls for named types among the first.                              *)
NamedUpTo(q) == {p \in 2..q : stack[p].type \in named}

LEMMA FewNamed ==
    ASSUME TInv, Building, NEW q \in 1..Len(stack)
    PROVE  /\ IsFiniteSet(NamedUpTo(q))
           /\ Cardinality(NamedUpTo(q)) \in 0..Cardinality(Type)
<1>0. GraphOK /\ StackOK /\ SetsOK /\ Len(stack) \in Nat /\ Cardinality(Type) \in Nat
  BY CallTyped, DepthIsNat DEF TInv
<1> DEFINE f == [p \in NamedUpTo(q) |-> stack[p].type]
<1>1. \A p \in NamedUpTo(q) : p \in 2..Len(stack) /\ p \in 1..Len(stack) /\ stack[p].type \in named
  BY <1>0 DEF NamedUpTo
<1>2. \A p, r \in NamedUpTo(q) : stack[p].type = stack[r].type => p = r
  BY <1>1 DEF Building, Interned
<1>3. f \in Injection(NamedUpTo(q), Type)
  <2>1. f \in [NamedUpTo(q) -> Type]
    BY <1>0, <1>1, CallTyped
  <2>2. \A p, r \in NamedUpTo(q) : f[p] = f[r] => p = r
    BY <1>2
  <2> HIDE DEF f
  <2> QED
    BY <2>1, <2>2 DEF Injection, IsInjective
<1> HIDE DEF f
<1>4. IsFiniteSet(NamedUpTo(q)) /\ Cardinality(NamedUpTo(q)) <= Cardinality(Type)
  BY <1>3, FiniteAssumption, FS_Injection
<1> QED
  BY <1>0, <1>4, FS_CardinalityType

(* A recursion that deep comes back to a type with no named one between.   *)
LEMMA DeepRepeats ==
    ASSUME TInv, Building, Len(stack) = DepthBound
    PROVE  \E i, j \in 2..Len(stack) :
              /\ i < j
              /\ stack[i].type = stack[j].type
              /\ \A k \in (i + 1)..j : stack[k].type \notin named
<1> DEFINE N == Cardinality(Type)
           D == Len(stack)
           Q == Type \X (0..N)
           f == [p \in 2..D |-> <<stack[p].type, Cardinality(NamedUpTo(p))>>]
<1>0. GraphOK /\ StackOK /\ N \in Nat \ {0} /\ D \in Nat /\ D > N /\ D - 1 > N * (N + 1)
  BY DepthIsNat DEF TInv
<1>1. IsFiniteSet(2..D) /\ Cardinality(2..D) = D - 1
  <2>1. 2 \in Int /\ D \in Int /\ ~(2 > D)
    BY <1>0
  <2>2. D - 2 + 1 = D - 1
    BY <1>0
  <2> HIDE DEF D
  <2> QED
    BY <2>1, <2>2, FS_Interval
<1>2. IsFiniteSet(Q) /\ Cardinality(Q) = N * (N + 1)
  <2>1. 0 \in Int /\ N \in Int /\ ~(0 > N) /\ N - 0 + 1 = N + 1
    BY <1>0
  <2> HIDE DEF N
  <2>2. IsFiniteSet(0..N) /\ Cardinality(0..N) = N + 1
    BY <2>1, FS_Interval
  <2> QED
    BY <2>2, FiniteAssumption, FS_Product DEF N
<1>3. f \in [2..D -> Q]
  <2>1. ASSUME NEW p \in 2..D PROVE <<stack[p].type, Cardinality(NamedUpTo(p))>> \in Q
    <3>1. p \in 1..Len(stack)
      BY <1>0
    <3> QED
      BY <1>0, <3>1, CallTyped, FewNamed
  <2> QED
    BY <2>1
<1>4. \E i, j \in 2..D : i # j /\ f[i] = f[j]
  <2> HIDE DEF N, D, Q, f
  <2> QED
    BY <1>0, <1>1, <1>2, <1>3, FS_PigeonHole
<1>5. PICK i, j \in 2..D : i < j /\ f[i] = f[j]
  <2>1. PICK i, j \in 2..D : i # j /\ f[i] = f[j]
    BY <1>4
  <2>2. i < j \/ j < i
    BY <2>1
  <2> HIDE DEF f
  <2> QED
    BY <2>1, <2>2
<1>6. stack[i].type = stack[j].type /\ Cardinality(NamedUpTo(i)) = Cardinality(NamedUpTo(j))
  BY <1>5
<1>7. NamedUpTo(i) = NamedUpTo(j)
  <2>1. NamedUpTo(i) \subseteq NamedUpTo(j)
    BY <1>5 DEF NamedUpTo
  <2>2. j \in 1..Len(stack)
    BY <1>0
  <2> QED
    BY <1>6, <2>1, <2>2, FewNamed, FS_Subset
<1>8. \A k \in (i + 1)..j : stack[k].type \notin named
  <2> SUFFICES ASSUME NEW k \in (i + 1)..j, stack[k].type \in named PROVE FALSE
    OBVIOUS
  <2>1. k \in NamedUpTo(j) /\ k \notin 2..i
    BY <1>5 DEF NamedUpTo
  <2> QED
    BY <1>7, <2>1 DEF NamedUpTo
<1> QED
  BY <1>5, <1>6, <1>8

(* The types between hold one another's schemas inline for ever.           *)
LEMMA DeepIsEndless ==
    ASSUME TInv, Building, Len(stack) = DepthBound
    PROVE  Endless
<1> DEFINE n == Len(stack)
<1>0. GraphOK /\ GraphTyped /\ StackOK /\ SetsOK /\ Calls /\ n \in Nat
  BY CallTyped, GraphIsTyped DEF TInv, Building
<1>1. PICK i, j \in 2..n :
        /\ i < j
        /\ stack[i].type = stack[j].type
        /\ \A k \in (i + 1)..j : stack[k].type \notin named
  BY DeepRepeats
<1> DEFINE C == {stack[k].type : k \in (i + 1)..j}
<1>2. i \in 1..n /\ j \in 1..n /\ i + 1 \in (i + 1)..j /\ j \in (i + 1)..j
  BY <1>0, <1>1
<1>3. \A k \in (i + 1)..j : k \in 1..n /\ stack[k].type \in Documented /\ stack[k].type \notin named
  BY <1>0, <1>1 DEF Calls
<1>4. C # {}
  BY <1>2
<1>5. stack[i + 1].type \in Written(stack[i].type) /\ stack[i + 1].type \in Written(stack[j].type)
  <2>1. i \in 1..(n - 1)
    BY <1>0, <1>1
  <2> QED
    BY <1>0, <1>1, <2>1 DEF Calls
<1>6. \A t \in C : Written(t) \cap C # {}
  <2> SUFFICES ASSUME NEW k \in (i + 1)..j PROVE Written(stack[k].type) \cap C # {}
    OBVIOUS
  <2>1. CASE k = j
    BY <1>2, <1>5, <2>1
  <2>2. CASE k # j
    <3>1. k \in 1..(n - 1) /\ k + 1 \in (i + 1)..j
      BY <1>0, <1>1, <2>2
    <3>2. stack[k + 1].type \in Written(stack[k].type)
      BY <1>0, <3>1 DEF Calls
    <3> QED
      BY <3>1, <3>2
  <2> QED
    BY <2>1, <2>2
<1>7. ASSUME NEW k \in (i + 1)..j, stack[k].type \in Components PROVE FALSE
  <2> DEFINE c == stack[k].type
             S == Closure(Written(c))
  <2>1. k \in 1..n /\ c \in Documented /\ c \notin named /\ c \in Type
    BY <1>0, <1>3, CallTyped
  <2>2. schema = "standalone" /\ named = OwnSchemas(Root) /\ Documented = Closure({Root})
    <3>1. named = Named(schema) /\ Documented = Closure({Start})
      BY DocumentedCloses DEF Building
    <3>2. schema = "standalone"
      BY <1>7, <2>1, <3>1 DEF Named
    <3> QED
      BY <3>1, <3>2 DEF Named, Start
  <2>3. Written(c) \subseteq S /\ S \subseteq Type /\ ClosedWritten(S)
    BY <1>0, <2>1, WrittenTyped, ClosureCloses
  <2> HIDE DEF S, c
  <2>4. stack[i + 1].type \in S
    <3>1. CASE k = j
      BY <1>5, <2>3, <3>1 DEF c
    <3>2. CASE k # j
      <4>1. k \in 1..(n - 1) /\ k + 1 \in 1..n /\ j \in (k + 1)..n
        BY <1>0, <1>1, <3>2
      <4>2. stack[k + 1].type \in S
        BY <1>0, <2>3, <4>1 DEF Calls, c
      <4>3. stack[j].type \in S
        BY <1>0, <2>3, <4>1, <4>2, CallsClimb
      <4> QED
        BY <1>5, <2>3, <4>3 DEF ClosedWritten
    <3> QED
      BY <3>1, <3>2
  <2>5. stack[k].type \in S
    <3>1. i + 1 \in 1..n /\ k \in (i + 1)..n
      BY <1>0, <1>1, <1>2, <1>3
    <3> QED
      BY <1>0, <2>3, <2>4, <3>1, CallsClimb
  <2>6. c \in Closure(Written(c))
    BY <2>5 DEF S, c
  <2>7. c \in Components
    BY <1>7 DEF c
  <2> QED
    BY <2>1, <2>2, <2>6, <2>7 DEF OwnSchemas
<1>8. C \in SUBSET (Documented \ Components)
  BY <1>3, <1>7
<1> QED
  BY <1>4, <1>6, <1>8 DEF Endless

LEMMA OverflowIsEndless == TInv /\ BInv => BuildEnds
  BY DeepIsEndless DEF BInv, BuildEnds

(* A document whose inlined types held one another for ever would be       *)
(* refused, if all its types are inlined structs.                          *)
LEMMA NoStructCycles == TInv /\ SInv /\ BInv => StructCyclesRefused
<1> SUFFICES ASSUME TInv, SInv, BInv, phase = "overflow", AllInlined PROVE FALSE
  BY DEF StructCyclesRefused, AllInlined
<1>0. GraphTyped /\ Acyclic(Reachable) /\ Endless
  BY GraphIsTyped, OverflowIsEndless DEF TInv, SInv, BuildEnds
<1>1. PICK S \in SUBSET (Documented \ Components) : S # {} /\ \A t \in S : Written(t) \cap S # {}
  BY <1>0 DEF Endless
<1>2. Documented \subseteq Reachable
  <2>1. Start \in Reachable
    BY <1>0, ReachableCloses, RootAssumption DEF TInv, SetsOK, Start, Declared
  <2>2. ClosedWritten(Reachable)
    BY <1>0, ReachableCloses, WrittenTyped DEF ClosedWritten
  <2> QED
    BY <1>0, <2>1, <2>2, DocumentedCloses, ReachableCloses
<1>3. \A t \in S : Written(t) \subseteq Kids(t)
  BY <1>0, <1>1, <1>2, ReachableCloses, WrittenTyped
<1>4. S \subseteq Reachable /\ \A t \in S : Kids(t) \cap S # {}
  BY <1>1, <1>2, <1>3
<1> QED
  BY <1>0, <1>1, <1>4 DEF Acyclic

LEMMA InitBInv == Init => BInv
  BY DEF Init, BInv

(* schemaFor's recursion ends unless types that have no component hold one *)
(* another's schemas inline: a placeholder is interned before what it      *)
(* stands for is built, so that the recursion passes each name once, and   *)
(* one deep enough comes back to a type with none in between.              *)
THEOREM BuildsEnd == Spec => []BuildEnds
  BY InitTInv, NextTInv, InitBInv, NextBInv, OverflowIsEndless, PTL DEF Spec

(* When a schema is built, components (or $defs) has what the schemas      *)
(* refer to by name and nothing else, however the types refer to one       *)
(* another; for SchemaFor's, that cyclicTypes ends its walk after as many  *)
(* rounds as there are types loses none.                                   *)
THEOREM ComponentsClose == Spec => []ComponentsClosed
  BY InitTInv, NextTInv, InitBInv, NextBInv, DoneCloses, PTL DEF Spec

(* Freeze refuses every declaration of inlined structs only that would     *)
(* never end: with no component to forget what encloses a call, c.seen     *)
(* hides no struct inside its own schema.                                  *)
THEOREM RefusesStructCycles == Spec => []StructCyclesRefused
  BY InitIInv, NextIInv, InitTInv, NextTInv, InitSInv, NextSInv, InitBInv, NextBInv,
     NoStructCycles, PTL DEF Spec
=============================================================================
