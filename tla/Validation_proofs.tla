------------------------- MODULE Validation_proofs --------------------------
(***************************************************************************)
(* Proofs about Validation and EveryRule, for any types of any size and    *)
(* any request within MaxDepth and MaxNest.                                *)
(*                                                                         *)
(* The marking finds the least set of nodes that is closed: no closed set  *)
(* can leave out a node it marks (ReachesRuleGrows), and when a scan of    *)
(* c.all changes nothing every node has been looked at against the marks   *)
(* it ends with (ScannedClosed).                                           *)
(*                                                                         *)
(* The plan has a node for every type the request leads to (CoverInv), so  *)
(* that what is not marked leads to no rule (QuietSilent), and what Prune  *)
(* drops would report nothing (SkippedSilent, DroppedSilent).              *)
(*                                                                         *)
(* What a request breaks is read off its places, each one's parts in       *)
(* order, in one way only (Reads, ReadsAlike).  The walk's invariant       *)
(* (WalkIs) places each call under way and the segments that lead to it,   *)
(* and says that what has been reported is what is broken before it.       *)
(***************************************************************************)
EXTENDS EveryRule, SequenceTheorems, FiniteSetTheorems, TLAPS

(* The declaration is one Go compiles.                                     *)
Typed ==
    /\ kind \in [Type -> {"struct", "seq", "map", "scalar"}]
    /\ kind[Root] = "struct"
    /\ elem \in [Containers -> Elem]
    /\ \A t \in Structs : fields[t] \in Seq(Field)

(* Every nodeFor call under way is for a type with a node.                 *)
Frames == [node : {n \in Node : KindOf(n) # "scalar"}, next : Nat \ {0}]
CallsTyped ==
    /\ calls \in Seq(Frames)
    /\ phase = "plan" => calls # <<>>

(* Nothing is marked before c.all is complete.                             *)
UnmarkedAtFirst == phase = "plan" => live = {} /\ pass = Scan(1, FALSE)

(* No closed set leaves out a marked node.                                 *)
LiveIsLeast == \A S \in SUBSET Node : Closed(S) => live \subseteq S

(* A scan that has changed nothing so far has passed only nodes that are   *)
(* marked or lead to no mark.                                              *)
ScannedClosed ==
    phase = "mark" /\ ~pass.changed =>
        \A i \in 1..Len(all) : i < pass.at /\ ReachesRule(all[i], live) => all[i] \in live

TypeInv == Typed /\ CallsTyped /\ TypeOK
MarkInv ==
    /\ UnmarkedAtFirst
    /\ phase \in {"mark", "prune"} => LiveIsLeast
    /\ ScannedClosed
    /\ phase = "prune" => Closed(live)

-----------------------------------------------------------------------------
(* What a node leads to are types.                                         *)
LEMMA ChildTyped ==
    ASSUME Typed, NEW n \in Node, KindOf(n) # "scalar",
           NEW i \in Nat \ {0}, i <= Len(ChildTypes(n))
    PROVE  ChildTypes(n)[i] \in Type
<1>1. TypeOf(n) \in Type
  BY TypesAssumption DEF Node, TypeOf
<1>2. CASE KindOf(n) = "struct"
  <2>1. FieldsOf(n) \in Seq(Field)
    BY <1>1, <1>2 DEF Typed, FieldsOf, KindOf, Structs
  <2>2. DOMAIN FieldsOf(n) = 1..Len(FieldsOf(n)) /\ Len(FieldsOf(n)) \in Nat
    BY <2>1, LenProperties
  <2>3. \A j \in DOMAIN FieldsOf(n) : FieldsOf(n)[j].type \in Type
    <3>1. \A f \in Field : f.type \in Type
      BY DEF Field, FieldTo
    <3> QED
      BY <2>1, <2>2, <3>1, ElementOfSeq
  <2>4. ChildTypes(n) = [j \in 1..Len(FieldsOf(n)) |-> FieldsOf(n)[j].type]
    BY <1>2, <2>2 DEF ChildTypes
  <2>5. Len(ChildTypes(n)) = Len(FieldsOf(n))
    BY <2>2, <2>4
  <2> QED
    BY <2>2, <2>3, <2>4, <2>5
<1>3. CASE KindOf(n) # "struct"
  <2>1. TypeOf(n) \in Containers
    BY <1>1, <1>3 DEF Typed, KindOf, Containers
  <2>2. ElemOf(n).type \in Type
    BY <2>1 DEF Typed, ElemOf, Elem
  <2>3. ChildTypes(n) = <<ElemOf(n).type>>
    BY <1>3 DEF ChildTypes
  <2> QED
    BY <2>2, <2>3
<1> QED
  BY <1>2, <1>3

(* The more is live, the more reaches a rule.                              *)
LEMMA ReachesRuleGrows ==
    ASSUME NEW n, NEW L, NEW M, L \subseteq M, ReachesRule(n, L)
    PROVE  ReachesRule(n, M)
  BY DEF ReachesRule, FieldLeads

-----------------------------------------------------------------------------
LEMMA InitTypes == Init => TypeInv
<1> SUFFICES ASSUME Init PROVE TypeInv
  OBVIOUS
<1> USE DEF Init
<1>1. Typed
  <2>1. \A t \in Structs : fields[t] \in FieldLists(MaxFields)
    OBVIOUS
  <2>2. FieldLists(MaxFields) \subseteq Seq(Field)
    <3>1. \A m \in 0..MaxFields : m \in Nat
      BY BoundsAssumption
    <3>2. \A m \in Nat : [1..m -> Field] \subseteq Seq(Field)
      BY SeqDef
    <3> QED
      BY <3>1, <3>2 DEF FieldLists
  <2> QED
    BY <2>1, <2>2 DEF Typed
<1>2. Request \in Node /\ KindOf(Request) # "scalar"
  BY <1>1 DEF Node, KindOf, TypeOf, Typed
<1>3. Call(Request) \in Frames /\ Call(Request) \in [node : Node, next : Nat \ {0}]
  BY <1>2 DEF Call, Frames
<1>4. CallsTyped
  BY <1>3 DEF CallsTyped
<1>5. TypeOK
  BY <1>2, <1>3 DEF TypeOK, Scan
<1> QED
  BY <1>1, <1>4, <1>5 DEF TypeInv

LEMMA InitMarks == Init => MarkInv
  BY DEF Init, MarkInv, UnmarkedAtFirst, ScannedClosed

-----------------------------------------------------------------------------
(* A call is on top of the stack while the plan is compiled, and the next  *)
(* child it comes to is a type.                                            *)
LEMMA CallerTyped ==
    ASSUME TypeInv, phase = "plan"
    PROVE  /\ Len(calls) \in Nat \ {0}
           /\ Caller \in Frames
           /\ AtChild => Child \in Type
<1>1. calls \in Seq(Frames) /\ calls # <<>>
  BY DEF TypeInv, CallsTyped
<1>2. Len(calls) \in Nat \ {0}
  BY <1>1, EmptySeq
<1>3. Caller \in Frames
  BY <1>1, <1>2, ElementOfSeq DEF Caller, Last
<1>4. /\ Caller.node \in Node /\ KindOf(Caller.node) # "scalar"
      /\ Caller.next \in Nat \ {0}
  BY <1>3 DEF Frames
<1>5. AtChild => Child \in Type
  BY <1>4, ChildTyped DEF AtChild, Child, TypeInv
<1> QED
  BY <1>2, <1>3, <1>5

(* Moving the top call on to its next child leaves the stack one.          *)
LEMMA AdvancedTyped ==
    ASSUME TypeInv, phase = "plan"
    PROVE  Advanced(calls) \in Seq(Frames) /\ Advanced(calls) # <<>>
<1>1. calls \in Seq(Frames) /\ Len(calls) \in Nat \ {0}
  BY CallerTyped DEF TypeInv, CallsTyped
<1>2. calls[Len(calls)] \in Frames
  BY <1>1, ElementOfSeq
<1> DEFINE moved == [calls[Len(calls)] EXCEPT !.next = @ + 1]
<1>3. moved \in Frames
  BY <1>2 DEF Frames
<1>4. Advanced(calls) = [calls EXCEPT ![Len(calls)] = moved]
  BY <1>1, <1>2, LenProperties DEF Advanced, Frames
<1> HIDE DEF moved
<1>5. Advanced(calls) \in Seq(Frames) /\ Len(Advanced(calls)) = Len(calls)
  BY <1>1, <1>3, <1>4, ExceptSeq
<1> QED
  BY <1>1, <1>5, EmptySeq

(* A stack that is as it should be, over the same types.                   *)
LEMMA CallsStay ==
    ASSUME TypeInv, UNCHANGED types,
           calls' \in Seq(Frames), phase' = "plan" => calls' # <<>>
    PROVE  Typed' /\ CallsTyped' /\ calls' \in Seq([node : Node, next : Nat \ {0}])
<1>1. Typed'
  <2>1. kind' = kind /\ elem' = elem /\ fields' = fields
    BY DEF types
  <2>2. Structs' = Structs /\ Containers' = Containers
    BY <2>1 DEF Structs, Containers
  <2>3. \A t : RulesOn(t)' = RulesOn(t)
    BY <2>2 DEF RulesOn
  <2>4. \A t : FieldTo(t)' = FieldTo(t)
    BY <2>1, <2>3 DEF FieldTo
  <2>5. Field' = Field
    BY <2>4 DEF Field
  <2> QED
    BY <2>1, <2>2, <2>5 DEF TypeInv, Typed, Elem
<1>2. Frames' = Frames
  BY DEF types, Frames, KindOf, TypeOf
<1>3. CallsTyped'
  BY <1>2 DEF TypeInv, CallsTyped
<1>4. Frames \subseteq [node : Node, next : Nat \ {0}]
  BY DEF Frames
<1>5. calls' \in Seq([node : Node, next : Nat \ {0}])
  BY <1>4, SeqMonotonic
<1> QED
  BY <1>1, <1>3, <1>5

LEMMA ReuseTypes == TypeInv /\ Reuse => TypeInv'
<1> SUFFICES ASSUME TypeInv, Reuse PROVE TypeInv'
  OBVIOUS
<1>1. phase = "plan" /\ phase' = "plan" /\ UNCHANGED types
  BY DEF Reuse
<1>2. Child \in Type
  BY <1>1, CallerTyped DEF Reuse
<1>3. calls' \in Seq(Frames) /\ calls' # <<>>
  BY <1>1, AdvancedTyped DEF Reuse
<1>4. Typed' /\ CallsTyped' /\ calls' \in Seq([node : Node, next : Nat \ {0}])
  BY <1>1, <1>3, CallsStay
<1>5. nodes' \subseteq Type
  BY <1>2 DEF Reuse, TypeInv, TypeOK
<1> QED
  BY <1>1, <1>4, <1>5 DEF Reuse, TypeInv, TypeOK

LEMMA NodeForTypes == TypeInv /\ NodeFor => TypeInv'
<1> SUFFICES ASSUME TypeInv, NodeFor PROVE TypeInv'
  OBVIOUS
<1>1. phase = "plan" /\ phase' = "plan" /\ UNCHANGED types
  BY DEF NodeFor
<1>2. Child \in Type /\ kind[Child] # "scalar"
  BY <1>1, CallerTyped DEF NodeFor
<1>3. Call(Child) \in Frames
  BY <1>2, TypesAssumption DEF Call, Frames, KindOf, TypeOf, Node
<1>4. calls' \in Seq(Frames) /\ calls' # <<>>
  <2>1. Advanced(calls) \in Seq(Frames)
    BY <1>1, AdvancedTyped
  <2>2. calls' = Append(Advanced(calls), Call(Child))
    BY DEF NodeFor
  <2> HIDE DEF Frames
  <2> QED
    BY <1>3, <2>1, <2>2, AppendProperties
<1>5. Typed' /\ CallsTyped' /\ calls' \in Seq([node : Node, next : Nat \ {0}])
  BY <1>1, <1>4, CallsStay
<1>6. nodes' \subseteq Type
  BY <1>2 DEF NodeFor, TypeInv, TypeOK
<1> QED
  BY <1>1, <1>5, <1>6 DEF NodeFor, TypeInv, TypeOK

LEMMA BuiltTypes == TypeInv /\ Built => TypeInv'
<1> SUFFICES ASSUME TypeInv, Built PROVE TypeInv'
  OBVIOUS
<1>1. phase = "plan" /\ UNCHANGED types
  BY DEF Built
<1>2. Len(calls) \in Nat \ {0} /\ calls \in Seq(Frames) /\ Caller.node \in Node
  BY <1>1, CallerTyped DEF TypeInv, CallsTyped, Frames
<1>3. calls' \in Seq(Frames) /\ Len(calls') = Len(calls) - 1
  <2>1. calls' = SubSeq(calls, 1, Len(calls) - 1)
    BY DEF Built, Front
  <2> DEFINE m == Len(calls) - 1
  <2>2. m \in Nat /\ Len(calls) = m + 1
    BY <1>2
  <2>3. \A i \in 1..m : calls[i] \in Frames
    BY <1>2, <2>2, ElementOfSeq
  <2> HIDE DEF m
  <2>4. /\ SubSeq(calls, 1, m) \in Seq(Frames)
        /\ Len(SubSeq(calls, 1, m)) = IF 1 <= m THEN m - 1 + 1 ELSE 0
    BY <2>2, <2>3, SubSeqProperties
  <2>5. Len(SubSeq(calls, 1, m)) = m
    BY <2>2, <2>4
  <2> QED
    BY <2>1, <2>4, <2>5 DEF m
<1>4. phase' = "plan" => calls' # <<>>
  BY <1>2, <1>3 DEF Built
<1>5. Typed' /\ CallsTyped' /\ calls' \in Seq([node : Node, next : Nat \ {0}])
  BY <1>1, <1>3, <1>4, CallsStay
<1>6. all' \in Seq(Node)
  <2>1. all \in Seq(Node)
    BY DEF TypeInv, TypeOK
  <2>2. Append(all, Caller.node) \in Seq(Node)
    BY <1>2, <2>1, AppendProperties
  <2> QED
    BY <2>1, <2>2 DEF Built
<1>7. phase' \in {"plan", "mark"}
  BY <1>1 DEF Built
<1> QED
  BY <1>5, <1>6, <1>7 DEF Built, TypeInv, TypeOK

(* Every other step leaves the calls alone.                                *)
LEMMA CallsKept ==
    ASSUME TypeInv, UNCHANGED <<types, calls>>, phase' # "plan" \/ UNCHANGED phase
    PROVE  Typed' /\ CallsTyped' /\ calls' \in Seq([node : Node, next : Nat \ {0}])
  BY CallsStay DEF TypeInv, CallsTyped

LEMMA MarkTypes == TypeInv /\ Mark => TypeInv'
<1> SUFFICES ASSUME TypeInv, Mark PROVE TypeInv'
  OBVIOUS
<1>1. Typed' /\ CallsTyped' /\ calls' \in Seq([node : Node, next : Nat \ {0}])
  BY CallsKept DEF Mark
<1>2. all[pass.at] \in Node
  BY ElementOfSeq DEF Mark, TypeInv, TypeOK
<1>3. live' \subseteq Node
  BY <1>2 DEF Mark, TypeInv, TypeOK
<1>4. pass' \in [at : Nat \ {0}, changed : BOOLEAN]
  BY DEF Mark, Scan, TypeInv, TypeOK
<1> QED
  BY <1>1, <1>3, <1>4 DEF Mark, TypeInv, TypeOK

LEMMA LaterTypes ==
    TypeInv /\ (PassEnds \/ Prune \/ Validate \/ UNCHANGED vars) => TypeInv'
<1>1. ASSUME TypeInv, PassEnds PROVE TypeInv'
  BY <1>1, CallsKept DEF PassEnds, TypeInv, TypeOK, Scan
<1>2. ASSUME TypeInv, Prune PROVE TypeInv'
  BY <1>2, CallsKept DEF Prune, TypeInv, TypeOK
<1>3. ASSUME TypeInv, Validate PROVE TypeInv'
  <2>1. UNCHANGED <<types, compiling>>
    BY <1>3 DEF Validate, Decode, CheckField, CheckElem, CheckReturns, Hook
  <2>2. phase' \in {"check", "hook", "done"}
    BY <1>3 DEF Validate, Decode, CheckField, CheckElem, CheckReturns, Hook
  <2> QED
    BY <1>3, <2>1, <2>2, CallsKept DEF TypeInv, TypeOK, compiling
<1>4. ASSUME TypeInv, UNCHANGED vars PROVE TypeInv'
  BY <1>4, CallsKept DEF vars, compiling, TypeInv, TypeOK
<1> QED
  BY <1>1, <1>2, <1>3, <1>4

LEMMA NextTypes == TypeInv /\ [Next]_vars => TypeInv'
  BY ReuseTypes, NodeForTypes, BuiltTypes, MarkTypes, LaterTypes DEF Next, Compile

(* Every variable of the compilation and of the walk keeps its type.       *)
THEOREM TypeCorrect == Spec => []TypeOK
<1>1. TypeInv /\ [Next]_vars => TypeInv'
  BY NextTypes
<1>2. Spec => []TypeInv
  BY <1>1, InitTypes, PTL DEF Spec
<1>3. TypeInv => TypeOK
  BY DEF TypeInv
<1> QED
  BY <1>2, <1>3, PTL

-----------------------------------------------------------------------------
(* What is closed depends on the types and on c.all alone.                 *)
LEMMA ClosedKept ==
    ASSUME UNCHANGED <<types, all>>, NEW S
    PROVE  Closed(S)' <=> Closed(S)
  BY DEF types, ReachesRule, FieldLeads, TypeRules, Sub, KindOf, FieldsOf, ElemOf, TypeOf, Closed, Planned

LEMMA LiveKept ==
    ASSUME UNCHANGED <<types, all, live>>
    PROVE  /\ LiveIsLeast' <=> LiveIsLeast
           /\ Closed(live)' <=> Closed(live)
           /\ \A n : ReachesRule(n, live)' <=> ReachesRule(n, live)
<1>1. ASSUME NEW S PROVE Closed(S)' <=> Closed(S)
  BY ClosedKept
<1>2. LiveIsLeast' <=> LiveIsLeast
  BY <1>1 DEF LiveIsLeast, Node
<1>3. \A n : ReachesRule(n, live)' <=> ReachesRule(n, live)
  BY DEF types, ReachesRule, FieldLeads, TypeRules, Sub, KindOf, FieldsOf, ElemOf, TypeOf
<1>4. Closed(live)' <=> Closed(live)
  BY <1>3 DEF Closed, Planned
<1> QED
  BY <1>2, <1>3, <1>4

(* The node a scan is at is one of the plan's.                             *)
LEMMA ScannedNode ==
    ASSUME TypeInv, pass.at <= Len(all)
    PROVE  all[pass.at] \in Planned
<1>1. DOMAIN all = 1..Len(all) /\ pass.at \in Nat \ {0} /\ Len(all) \in Nat
  BY LenProperties DEF TypeInv, TypeOK
<1> QED
  BY <1>1 DEF Planned, Range

LEMMA MarkMarks == TypeInv /\ MarkInv /\ Mark => MarkInv'
<1> SUFFICES ASSUME TypeInv, MarkInv, Mark PROVE MarkInv'
  OBVIOUS
<1> DEFINE n == all[pass.at]
           found == n \notin live /\ ReachesRule(n, live)
<1>1. /\ phase = "mark" /\ phase' = "mark"
      /\ UNCHANGED <<types, all>>
      /\ live' = IF found THEN live \cup {n} ELSE live
      /\ pass' = Scan(pass.at + 1, pass.changed \/ found)
  BY DEF Mark
<1>2. n \in Planned
  BY ScannedNode DEF Mark
<1>3. LiveIsLeast'
  <2> SUFFICES ASSUME NEW S \in SUBSET Node, Closed(S)' PROVE live' \subseteq S
    BY DEF LiveIsLeast, Node
  <2>1. Closed(S)
    BY <1>1, ClosedKept
  <2>2. live \subseteq S
    BY <1>1, <2>1 DEF MarkInv, LiveIsLeast
  <2>3. found => n \in S
    BY <1>2, <2>1, <2>2, ReachesRuleGrows DEF Closed
  <2> HIDE DEF n, found
  <2> QED
    BY <1>1, <2>2, <2>3
<1>4. ScannedClosed'
  <2> SUFFICES ASSUME ~pass'.changed PROVE
        \A i \in 1..Len(all') : i < pass'.at /\ ReachesRule(all[i], live)' => all'[i] \in live'
    BY DEF ScannedClosed
  <2> HIDE DEF n, found
  <2>1. ~pass.changed /\ ~found /\ pass'.at = pass.at + 1
    BY <1>1 DEF Scan
  <2>2. live' = live /\ all' = all
    BY <1>1, <2>1
  <2>3. \A m : ReachesRule(m, live)' <=> ReachesRule(m, live)
    BY <1>1, <2>2, LiveKept
  <2>4. \A i \in 1..Len(all) : i < pass.at /\ ReachesRule(all[i], live) => all[i] \in live
    BY <1>1, <2>1 DEF MarkInv, ScannedClosed
  <2>5. ReachesRule(all[pass.at], live) => all[pass.at] \in live
    BY <2>1 DEF n, found
  <2>6. ASSUME NEW i \in 1..Len(all), i < pass'.at, ReachesRule(all[i], live)'
        PROVE  all[i] \in live
    <3>1. pass.at \in Nat /\ i \in Nat
      BY DEF TypeInv, TypeOK
    <3>2. i < pass.at \/ i = pass.at
      BY <2>1, <2>6, <3>1
    <3>3. ReachesRule(all[i], live)
      BY <2>2, <2>3, <2>6
    <3> QED
      BY <2>4, <2>5, <3>2, <3>3
  <2> QED
    BY <2>2, <2>6
<1> QED
  BY <1>1, <1>3, <1>4 DEF MarkInv, UnmarkedAtFirst

(* A scan that changed nothing leaves the live nodes closed.               *)
LEMMA PassEndsMarks == TypeInv /\ MarkInv /\ PassEnds => MarkInv'
<1> SUFFICES ASSUME TypeInv, MarkInv, PassEnds PROVE MarkInv'
  OBVIOUS
<1>1. /\ phase = "mark" /\ phase' = IF pass.changed THEN "mark" ELSE "prune"
      /\ UNCHANGED <<types, all, live>> /\ pass' = Scan(1, FALSE)
  BY DEF PassEnds
<1>2. LiveIsLeast'
  BY <1>1, LiveKept DEF MarkInv
<1>3. ScannedClosed'
  BY <1>1 DEF ScannedClosed, Scan
<1>4. ASSUME ~pass.changed PROVE Closed(live)'
  <2>1. DOMAIN all = 1..Len(all) /\ Len(all) \in Nat /\ pass.at \in Nat
    BY LenProperties DEF TypeInv, TypeOK
  <2>2. \A i \in 1..Len(all) : ReachesRule(all[i], live) => all[i] \in live
    BY <1>1, <1>4, <2>1 DEF MarkInv, ScannedClosed, PassEnds
  <2>3. Closed(live)
    BY <2>1, <2>2 DEF Closed, Planned, Range
  <2> QED
    BY <1>1, <2>3, LiveKept
<1> QED
  BY <1>1, <1>2, <1>3, <1>4 DEF MarkInv, UnmarkedAtFirst, TypeInv, TypeOK

LEMMA OtherMarks ==
    TypeInv /\ MarkInv /\ (Reuse \/ NodeFor \/ Built \/ Prune \/ Validate \/ UNCHANGED vars) => MarkInv'
<1>1. ASSUME MarkInv, Reuse \/ NodeFor PROVE MarkInv'
  <2>1. phase = "plan" /\ phase' = "plan" /\ UNCHANGED <<live, pass>>
    BY <1>1 DEF Reuse, NodeFor
  <2> QED
    BY <1>1, <2>1 DEF MarkInv, UnmarkedAtFirst, ScannedClosed
<1>2. ASSUME MarkInv, Built PROVE MarkInv'
  <2>1. /\ phase = "plan" /\ phase' \in {"plan", "mark"} /\ UNCHANGED <<live, pass>>
        /\ live = {} /\ pass = Scan(1, FALSE)
    BY <1>2 DEF Built, MarkInv, UnmarkedAtFirst
  <2>2. LiveIsLeast'
    BY <2>1 DEF LiveIsLeast
  <2>3. ScannedClosed'
    BY <2>1 DEF ScannedClosed, Scan
  <2> QED
    BY <2>1, <2>2, <2>3 DEF MarkInv, UnmarkedAtFirst
<1>3. ASSUME Prune \/ Validate PROVE MarkInv'
  <2>1. phase' \in {"decode", "check", "hook", "done"}
    BY <1>3 DEF Prune, Validate, Decode, CheckField, CheckElem, CheckReturns, Hook
  <2> QED
    BY <2>1 DEF MarkInv, UnmarkedAtFirst, ScannedClosed
<1>4. ASSUME MarkInv, UNCHANGED vars PROVE MarkInv'
  <2>1. UNCHANGED <<types, all, live>> /\ UNCHANGED <<phase, pass>>
    BY <1>4 DEF vars, compiling
  <2>2. /\ LiveIsLeast' <=> LiveIsLeast
        /\ Closed(live)' <=> Closed(live)
        /\ \A n : ReachesRule(n, live)' <=> ReachesRule(n, live)
    BY <2>1, LiveKept
  <2>3. ScannedClosed'
    BY <1>4, <2>1, <2>2 DEF MarkInv, ScannedClosed
  <2> QED
    BY <1>4, <2>1, <2>2, <2>3 DEF MarkInv, UnmarkedAtFirst
<1> QED
  BY <1>1, <1>2, <1>3, <1>4

LEMMA NextMarks == TypeInv /\ MarkInv /\ [Next]_vars => MarkInv'
  BY MarkMarks, PassEndsMarks, OtherMarks DEF Next, Compile

(* A type's node is marked exactly when a rule can be reached through it,  *)
(* however the request's types refer to one another (resolveLiveness).     *)
THEOREM MarkingExact == Spec => []LiveIsExact
<1>1. TypeInv /\ [Next]_vars => TypeInv'
  BY NextTypes
<1>2. TypeInv /\ MarkInv /\ [Next]_vars => MarkInv'
  BY NextMarks
<1>3. Spec => [](TypeInv /\ MarkInv)
  BY <1>1, <1>2, InitTypes, InitMarks, PTL DEF Spec
<1>4. MarkInv => LiveIsExact
  BY DEF MarkInv, LiveIsLeast, LiveIsExact
<1> QED
  BY <1>3, <1>4, PTL

-----------------------------------------------------------------------------
(* Induction and recursion over the naturals                               *)

(* A set of naturals has a least element: what the proofs below use for    *)
(* induction.  It is that of the intervals below its elements, which are   *)
(* well-founded as finite sets.                                            *)
LEMMA LeastNatural ==
    ASSUME NEW T \in SUBSET Nat, T # {}
    PROVE  \E n \in T : \A m \in T : n <= m
<1> DEFINE R == StrictSubsetOrdering(Nat)
           Below(n) == 0..(n - 1)
           U == {Below(n) : n \in T}
<1>1. IsWellFoundedOn(R, FiniteSubsetsOf(Nat))
  BY FS_StrictSubsetOrderingWellFounded
<1>2. U \subseteq FiniteSubsetsOf(Nat) /\ U # {}
  <2>1. \A n \in T : Below(n) \in SUBSET Nat
    OBVIOUS
  <2>2. \A n \in T : IsFiniteSet(Below(n))
    BY FS_Interval
  <2> HIDE DEF Below
  <2>3. U \subseteq FiniteSubsetsOf(Nat)
    BY <2>1, <2>2 DEF FiniteSubsetsOf
  <2>4. U # {}
    OBVIOUS
  <2> QED
    BY <2>3, <2>4
<1>3. PICK u \in U : \A v \in U : ~(<<v, u>> \in R)
  <2> HIDE DEF R, U
  <2> QED
    BY <1>1, <1>2, WFMin
<1>4. PICK n \in T : u = Below(n)
  OBVIOUS
<1>5. ASSUME NEW m \in T, m < n PROVE FALSE
  <2>1. Below(m) \subseteq Below(n) /\ Below(m) # Below(n)
    <3>1. m \in Below(n) /\ m \notin Below(m)
      BY <1>5
    <3> QED
      BY <1>5, <3>1
  <2>2. Below(m) \in SUBSET Nat /\ Below(n) \in SUBSET Nat
    BY <1>5
  <2>3. <<Below(m), Below(n)>> \in R
    <3> HIDE DEF Below
    <3> QED
      BY <2>1, <2>2 DEF StrictSubsetOrdering
  <2> QED
    BY <1>3, <1>4, <1>5, <2>3
<1> QED
  BY <1>5

(* What is defined by recursion on a natural number exists, when each step *)
(* stays in a set.                                                         *)
StaysIn(S, N, step) == \A n \in 1..N : \A s \in S : step[n][s] \in S
Recurs(h, S, N, b, step) ==
    /\ h \in [0..N -> S]
    /\ h[0] = b
    /\ \A n \in 1..N : h[n] = step[n][h[n - 1]]

LEMMA Recursion ==
    ASSUME NEW S, NEW N \in Nat, NEW b \in S, NEW step, StaysIn(S, N, step)
    PROVE  \E h : Recurs(h, S, N, b, step)
<1> USE DEF StaysIn, Recurs
<1> DEFINE Upto(m) == \E h \in [0..m -> S] : h[0] = b /\ \A n \in 1..m : h[n] = step[n][h[n - 1]]
           Without == {m \in 0..N : ~Upto(m)}
<1>1. ASSUME NEW m \in Without, \A l \in Without : m <= l PROVE FALSE
  <2>1. CASE m = 0
    <3> DEFINE h == [n \in 0..0 |-> b]
    <3>1. h \in [0..m -> S] /\ h[0] = b /\ \A n \in 1..m : FALSE
      BY <2>1
    <3> HIDE DEF h
    <3> QED
      BY <3>1
  <2>2. CASE m # 0
    <3>1. m \in 1..N /\ m - 1 \in 0..N /\ ~(m <= m - 1)
      BY <2>2
    <3>2. Upto(m - 1)
      BY <1>1, <3>1
    <3>3. PICK g \in [0..(m - 1) -> S] :
             g[0] = b /\ \A n \in 1..(m - 1) : g[n] = step[n][g[n - 1]]
      BY <3>2
    <3> DEFINE h == [n \in 0..m |-> IF n = m THEN step[m][g[m - 1]] ELSE g[n]]
    <3>4. g[m - 1] \in S /\ step[m][g[m - 1]] \in S
      BY <3>1
    <3>5. h \in [0..m -> S] /\ h[0] = b
      BY <2>2, <3>1, <3>3, <3>4
    <3>6. ASSUME NEW n \in 1..m PROVE h[n] = step[n][h[n - 1]]
      <4>1. h[n - 1] = g[n - 1]
        BY <3>1
      <4>2. n # m => n \in 1..(m - 1) /\ h[n] = g[n]
        BY <3>1
      <4>3. n = m => h[n] = step[m][g[m - 1]] /\ n - 1 = m - 1
        BY <3>1
      <4>4. n # m => h[n] = step[n][g[n - 1]]
        BY <3>3, <4>2
      <4> QED
        BY <4>1, <4>3, <4>4
    <3> HIDE DEF h
    <3> QED
      BY <3>5, <3>6
  <2> QED
    BY <2>1, <2>2
<1>2. Without = {}
  <2>1. Without \in SUBSET Nat
    OBVIOUS
  <2> HIDE DEF Without
  <2> QED
    BY <1>1, <2>1, LeastNatural
<1>3. Upto(N)
  <2>1. N \in 0..N
    OBVIOUS
  <2> HIDE DEF Upto
  <2> QED
    BY <1>2, <2>1
<1> QED
  BY <1>3

(* FlattenSeq joins its sequences from left to right.                      *)
Flattens(h, ss) == h[0] = <<>> /\ \A n \in 1..Len(ss) : h[n] = h[n - 1] \o ss[n]

LEMMA FlattenIs ==
    ASSUME NEW T, NEW ss \in Seq(Seq(T))
    PROVE  \E h \in [0..Len(ss) -> Seq(T)] : Flattens(h, ss) /\ FlattenSeq(ss) = h[Len(ss)]
<1> DEFINE N == Len(ss)
           G(f) == f = [i \in 1..N |-> IF i = 1 THEN ss[i] ELSE f[i - 1] \o ss[i]]
           step == [n \in 1..N |-> [s \in Seq(T) |-> s \o ss[n]]]
<1>1. N \in Nat /\ \A n \in 1..N : ss[n] \in Seq(T)
  BY LenProperties, ElementOfSeq
<1> HIDE DEF N
<1>3. \A n \in 1..N : \A s \in Seq(T) : step[n][s] = s \o ss[n]
  OBVIOUS
<1>2. \A n \in 1..N : \A s \in Seq(T) : step[n][s] \in Seq(T)
  <2> SUFFICES ASSUME NEW n \in 1..N, NEW s \in Seq(T) PROVE step[n][s] \in Seq(T)
    OBVIOUS
  <2>1. step[n][s] = s \o ss[n]
    BY <1>3
  <2> HIDE DEF step
  <2>2. ss[n] \in Seq(T)
    BY <1>1
  <2>3. s \o ss[n] \in Seq(T)
    BY <2>2, ConcatProperties
  <2> QED
    BY <2>1, <2>3
<1>4. <<>> \in Seq(T)
  OBVIOUS
<1> HIDE DEF step
<1>5. PICK h \in [0..N -> Seq(T)] : h[0] = <<>> /\ \A n \in 1..N : h[n] = step[n][h[n - 1]]
  <2> DEFINE S == Seq(T)
             b == <<>>
  <2>1. N \in Nat /\ b \in S /\ StaysIn(S, N, step)
    BY <1>1, <1>2, <1>4 DEF StaysIn
  <2> HIDE DEF S, b
  <2>2. \E h : Recurs(h, S, N, b, step)
    BY <2>1, Recursion
  <2> QED
    BY <2>2 DEF Recurs, S, b
<1>6. ASSUME NEW n \in 1..N PROVE n - 1 \in 0..N /\ h[n - 1] \in Seq(T) /\ h[n] = h[n - 1] \o ss[n]
  <2>1. n - 1 \in 0..N
    BY <1>1
  <2> QED
    BY <1>3, <1>5, <2>1
<1>7. Flattens(h, ss)
  BY <1>5, <1>6 DEF Flattens, N
<1>8. CASE N = 0
  <2>1. ss = <<>>
    BY <1>8, EmptySeq DEF N
  <2>2. FlattenSeq(ss) = ss
    BY <1>8 DEF FlattenSeq, N
  <2> QED
    BY <1>5, <1>7, <1>8, <2>1, <2>2 DEF N
<1>9. CASE N # 0
  <2> DEFINE g == [i \in 1..N |-> h[i]]
             f == CHOOSE x : G(x)
  <2>1. ASSUME NEW i \in 1..N PROVE g[i] = IF i = 1 THEN ss[i] ELSE g[i - 1] \o ss[i]
    <3>1. CASE i = 1
      <4>1. h[0] \o ss[i] = ss[i]
        BY <1>1, <1>5, ConcatEmptySeq
      <4>2. i - 1 = 0
        BY <3>1
      <4> QED
        BY <1>6, <3>1, <4>1, <4>2
    <3>2. CASE i # 1
      <4>1. i - 1 \in 1..N
        BY <1>1, <3>2
      <4> QED
        BY <1>6, <3>2, <4>1
    <3> QED
      BY <3>1, <3>2
  <2>2. G(g)
    <3>1. g = [i \in 1..N |-> g[i]]
      OBVIOUS
    <3> HIDE DEF g
    <3> QED
      BY <2>1, <3>1
  <2>3. G(f)
    <3> HIDE DEF G, g
    <3> QED
      BY <2>2
  <2>4. FlattenSeq(ss) = f[N]
    BY <1>9 DEF FlattenSeq, N
  <2> HIDE DEF f
  <2>5. \A n \in 1..N : f[n] = IF n = 1 THEN ss[n] ELSE f[n - 1] \o ss[n]
    BY <2>3
  <2> DEFINE Apart == {n \in 1..N : f[n] # g[n]}
  <2>6. ASSUME NEW n \in Apart, \A m \in Apart : n <= m PROVE FALSE
    <3>1. n # 1 => n - 1 \in 1..N /\ ~(n <= n - 1)
      BY <1>1
    <3>2. n # 1 => f[n - 1] = g[n - 1]
      BY <2>6, <3>1
    <3>3. n \in 1..N /\ f[n] # g[n]
      OBVIOUS
    <3> HIDE DEF g, Apart
    <3> QED
      BY <2>1, <2>5, <3>2, <3>3
  <2>7. Apart = {}
    <3>1. Apart \in SUBSET Nat
      BY <1>1
    <3> HIDE DEF Apart
    <3> QED
      BY <2>6, <3>1, LeastNatural
  <2>8. N \in 1..N
    BY <1>1, <1>9
  <2>9. f[N] = h[N]
    BY <2>7, <2>8
  <2> QED
    BY <1>5, <1>7, <2>4, <2>9 DEF N
<1> QED
  BY <1>8, <1>9

(* Two functions that start alike and go on alike are alike.               *)
Follows(f, h, N) == f[0] = h[0] /\ \A n \in 1..N : f[n - 1] = h[n - 1] => f[n] = h[n]

LEMMA Alike ==
    ASSUME NEW N \in Nat, NEW f, NEW h, Follows(f, h, N)
    PROVE  \A n \in 0..N : f[n] = h[n]
<1> DEFINE Off == {n \in 0..N : f[n] # h[n]}
<1>1. ASSUME NEW n \in Off, \A m \in Off : n <= m PROVE FALSE
  <2>1. n # 0 => n \in 1..N /\ n - 1 \in 0..N /\ ~(n <= n - 1)
    OBVIOUS
  <2>2. n # 0 => f[n - 1] = h[n - 1]
    BY <1>1, <2>1
  <2>3. f[n] = h[n]
    BY <2>1, <2>2 DEF Follows
  <2> QED
    BY <2>3
<1>2. Off = {}
  <2>1. Off \in SUBSET Nat
    OBVIOUS
  <2> HIDE DEF Off
  <2> QED
    BY <1>1, <2>1, LeastNatural
<1> QED
  BY <1>2

-----------------------------------------------------------------------------
(* The plan                                                                *)

(* The compilation leaves out no type a node leads to: each has a node in  *)
(* c.all, or a call under way that will add it.                            *)
UnderWay(n) == \E k \in 1..Len(calls) : calls[k].node = n
Entered(n, m) == \A i \in 1..Len(ChildTypes(n)) : i < m => ChildTypes(n)[i] \in nodes
CoverInv ==
    /\ Request \in Planned
    /\ \A n \in Planned : n \in Node /\ KindOf(n) # "scalar"
    /\ \A t \in nodes : kind[t] = "scalar" \/ t \in Planned \/ UnderWay(t)
    /\ \A n \in Planned : UnderWay(n) \/ Entered(n, Len(ChildTypes(n)) + 1)
    /\ \A k \in 1..Len(calls) : Entered(calls[k].node, calls[k].next)
    /\ phase = "plan" => calls[1].node = Request
    /\ phase # "plan" => calls = <<>>

(* Every type a node of the plan leads to has one too, unless it has no    *)
(* fields or elements.                                                     *)
Covered ==
    /\ Request \in Planned
    /\ \A n \in Planned :
          /\ n \in Node /\ KindOf(n) # "scalar"
          /\ \A i \in 1..Len(ChildTypes(n)) :
                kind[ChildTypes(n)[i]] = "scalar" \/ ChildTypes(n)[i] \in Planned


LEMMA ChildrenCounted ==
    ASSUME Typed, NEW n \in Node, KindOf(n) # "scalar"
    PROVE  Len(ChildTypes(n)) \in Nat
<1>1. TypeOf(n) \in Type
  BY TypesAssumption DEF Node, TypeOf
<1>2. CASE KindOf(n) = "struct"
  <2>1. FieldsOf(n) \in Seq(Field)
    BY <1>1, <1>2 DEF Typed, FieldsOf, KindOf, Structs
  <2>2. DOMAIN FieldsOf(n) = 1..Len(FieldsOf(n)) /\ Len(FieldsOf(n)) \in Nat
    BY <2>1, LenProperties
  <2>3. ChildTypes(n) = [j \in 1..Len(FieldsOf(n)) |-> FieldsOf(n)[j].type]
    BY <1>2, <2>2 DEF ChildTypes
  <2> QED
    BY <2>2, <2>3
<1>3. CASE KindOf(n) # "struct"
  <2>1. ChildTypes(n) = <<ElemOf(n).type>>
    BY <1>3 DEF ChildTypes
  <2> QED
    BY <2>1
<1> QED
  BY <1>2, <1>3

LEMMA CoverIs ==
    ASSUME TypeInv, CoverInv, phase # "plan"
    PROVE  Covered
<1>1. calls = <<>> /\ \A n : ~UnderWay(n)
  BY DEF CoverInv, UnderWay
<1>2. ASSUME NEW n \in Planned, NEW i \in 1..Len(ChildTypes(n))
      PROVE  kind[ChildTypes(n)[i]] = "scalar" \/ ChildTypes(n)[i] \in Planned
  <2>1. Entered(n, Len(ChildTypes(n)) + 1)
    BY <1>1 DEF CoverInv
  <2>2. Len(ChildTypes(n)) \in Nat
    BY ChildrenCounted DEF CoverInv, TypeInv
  <2>3. ChildTypes(n)[i] \in nodes
    BY <2>1, <2>2 DEF Entered
  <2> QED
    BY <1>1, <2>3 DEF CoverInv
<1> QED
  BY <1>2 DEF CoverInv, Covered

(* A step that leaves the plan alone.                                      *)
LEMMA CoverKept ==
    ASSUME UNCHANGED <<types, calls, nodes, all>>, (phase' # "plan" /\ phase # "plan") \/ UNCHANGED phase
    PROVE  (CoverInv => CoverInv') /\ (Covered => Covered')
<1>1. \A n : ChildTypes(n)' = ChildTypes(n) /\ KindOf(n)' = KindOf(n)
  BY DEF types, ChildTypes, KindOf, FieldsOf, ElemOf, TypeOf
<1>2. Planned' = Planned /\ \A n : UnderWay(n)' <=> UnderWay(n)
  BY DEF Planned, UnderWay
<1>3. \A n, m : Entered(n, m)' <=> Entered(n, m)
  BY <1>1 DEF Entered
<1>4. CoverInv => CoverInv'
  BY <1>1, <1>2, <1>3 DEF CoverInv, types
<1>5. Covered => Covered'
  BY <1>1, <1>2 DEF Covered, types, Node
<1> QED
  BY <1>4, <1>5

LEMMA InitCover == Init => CoverInv
<1> SUFFICES ASSUME Init PROVE CoverInv
  OBVIOUS
<1>1. all = <<Request>> /\ nodes = {} /\ phase = "plan" /\ calls = <<Call(Request)>>
  BY DEF Init
<1>2. Planned = {Request}
  <2>1. DOMAIN <<Request>> = {1} /\ <<Request>>[1] = Request
    OBVIOUS
  <2> QED
    BY <1>1, <2>1 DEF Planned, Range
<1>3. Len(calls) = 1 /\ calls[1].node = Request /\ calls[1].next = 1
  BY <1>1 DEF Call
<1>4. UnderWay(Request)
  BY <1>3 DEF UnderWay
<1>5. KindOf(Request) # "scalar" /\ Request \in Node
  BY InitTypes DEF TypeInv, Typed, KindOf, TypeOf, Node
<1>6. Entered(Request, 1)
  BY DEF Entered
<1>7. \A k \in 1..Len(calls) : k = 1
  BY <1>3
<1> QED
  BY <1>1, <1>2, <1>3, <1>4, <1>5, <1>6, <1>7 DEF CoverInv

(* The call on top moves on to its next child, which has been entered.     *)
LEMMA CoverAdvances ==
    ASSUME TypeInv, CoverInv, phase = "plan", AtChild,
           NEW N, nodes \subseteq N, Child \in N
    PROVE  /\ Len(Advanced(calls)) = Len(calls)
           /\ \A k \in 1..Len(calls) :
                 /\ Advanced(calls)[k].node = calls[k].node
                 /\ \A i \in 1..Len(ChildTypes(calls[k].node)) :
                       i < Advanced(calls)[k].next => ChildTypes(calls[k].node)[i] \in N
<1>1. calls \in Seq(Frames) /\ Len(calls) \in Nat \ {0} /\ DOMAIN calls = 1..Len(calls)
  BY CallerTyped, LenProperties DEF TypeInv, CallsTyped
<1>2. \A k \in 1..Len(calls) : calls[k] \in Frames
  BY <1>1, ElementOfSeq
<1> DEFINE top == Len(calls)
           moved == [calls[top] EXCEPT !.next = @ + 1]
<1>3. moved \in Frames /\ moved.node = calls[top].node /\ moved.next = calls[top].next + 1 /\ top \in 1..Len(calls)
  BY <1>1, <1>2 DEF Frames
<1>4. Advanced(calls) = [calls EXCEPT ![top] = moved]
  BY <1>1, <1>2, LenProperties DEF Advanced, Frames
<1>5. Caller = calls[top]
  BY DEF Caller, Last
<1> HIDE DEF moved
<1>6. Len(Advanced(calls)) = Len(calls)
  BY <1>1, <1>3, <1>4, ExceptSeq
<1>7. \A k \in 1..Len(calls) : Advanced(calls)[k] = IF k = top THEN moved ELSE calls[k]
  BY <1>1, <1>3, <1>4
<1>8. ASSUME NEW k \in 1..Len(calls)
      PROVE  /\ Advanced(calls)[k].node = calls[k].node
             /\ \A i \in 1..Len(ChildTypes(calls[k].node)) :
                   i < Advanced(calls)[k].next => ChildTypes(calls[k].node)[i] \in N
  <2>1. Entered(calls[k].node, calls[k].next)
    BY DEF CoverInv
  <2>2. CASE k # top
    BY <1>7, <2>1, <2>2 DEF Entered
  <2>3. CASE k = top
    <3>1. Advanced(calls)[k] = moved /\ calls[k].next \in Nat
      BY <1>2, <1>7, <2>3 DEF Frames
    <3>2. ASSUME NEW i \in 1..Len(ChildTypes(calls[k].node)), i < calls[k].next + 1
          PROVE  ChildTypes(calls[k].node)[i] \in N
      <4>1. i < calls[k].next \/ i = calls[k].next
        BY <3>1, <3>2
      <4>2. i = calls[k].next => ChildTypes(calls[k].node)[i] = Child
        BY <1>5, <2>3 DEF Child
      <4> QED
        BY <2>1, <4>1, <4>2 DEF Entered
    <3> QED
      BY <1>3, <2>3, <3>1, <3>2
  <2> QED
    BY <2>2, <2>3
<1> QED
  BY <1>6, <1>8

LEMMA ReuseCovers == ASSUME TypeInv, CoverInv, Reuse PROVE CoverInv'
<1>1. /\ phase = "plan" /\ phase' = "plan" /\ UNCHANGED <<types, all>> /\ AtChild
      /\ Child \in nodes \/ kind[Child] = "scalar"
      /\ nodes' = nodes \cup {Child} /\ calls' = Advanced(calls)
  BY DEF Reuse
<1>2. /\ Len(calls') = Len(calls)
      /\ \A k \in 1..Len(calls) :
            /\ calls'[k].node = calls[k].node
            /\ \A i \in 1..Len(ChildTypes(calls[k].node)) :
                  i < calls'[k].next => ChildTypes(calls[k].node)[i] \in nodes'
  <2>1. nodes \subseteq nodes' /\ Child \in nodes'
    BY <1>1
  <2> QED
    BY <1>1, <2>1, CoverAdvances
<1>3. \A n : ChildTypes(n)' = ChildTypes(n) /\ KindOf(n)' = KindOf(n)
  BY <1>1 DEF types, ChildTypes, KindOf, FieldsOf, ElemOf, TypeOf
<1>4. Planned' = Planned /\ \A n : UnderWay(n)' <=> UnderWay(n)
  BY <1>1, <1>2 DEF Planned, UnderWay
<1>5. \A n, m : Entered(n, m) => Entered(n, m)'
  BY <1>1, <1>3 DEF Entered
<1>6. \A k \in 1..Len(calls') : Entered(calls[k].node, calls[k].next)'
  BY <1>2, <1>3 DEF Entered
<1>7. \A t \in nodes' : kind'[t] = "scalar" \/ t \in Planned \/ UnderWay(t)
  BY <1>1 DEF CoverInv, types
<1>8. Len(calls) \in Nat \ {0}
  BY <1>1, CallerTyped
<1>9. calls'[1].node = Request
  BY <1>1, <1>2, <1>8 DEF CoverInv
<1>10. \A n \in Planned : n \in Node' /\ KindOf(n)' # "scalar"
  BY <1>3 DEF CoverInv, Node
<1>11. \A n \in Planned' : UnderWay(n)' \/ Entered(n, Len(ChildTypes(n)) + 1)'
  BY <1>3, <1>4, <1>5 DEF CoverInv
<1> QED
  BY <1>1, <1>4, <1>6, <1>7, <1>9, <1>10, <1>11 DEF CoverInv

LEMMA NodeForCovers == ASSUME TypeInv, CoverInv, NodeFor PROVE CoverInv'
<1>1. /\ phase = "plan" /\ phase' = "plan" /\ UNCHANGED <<types, all>> /\ AtChild
      /\ nodes' = nodes \cup {Child} /\ calls' = Append(Advanced(calls), Call(Child))
  BY DEF NodeFor
<1>2. /\ Len(Advanced(calls)) = Len(calls)
      /\ \A k \in 1..Len(calls) :
            /\ Advanced(calls)[k].node = calls[k].node
            /\ \A i \in 1..Len(ChildTypes(calls[k].node)) :
                  i < Advanced(calls)[k].next => ChildTypes(calls[k].node)[i] \in nodes'
  <2>1. nodes \subseteq nodes' /\ Child \in nodes'
    BY <1>1
  <2> QED
    BY <1>1, <2>1, CoverAdvances
<1>3. Len(calls) \in Nat \ {0}
  BY <1>1, CallerTyped
<1>4. /\ Len(calls') = Len(calls) + 1
      /\ \A k \in 1..Len(calls) : calls'[k] = Advanced(calls)[k]
      /\ calls'[Len(calls) + 1] = Call(Child)
  <2>1. Advanced(calls) \in Seq(Frames)
    BY <1>1, AdvancedTyped
  <2>2. Call(Child) \in Frames
    <3>1. Child \in Type /\ kind[Child] # "scalar"
      BY <1>1, CallerTyped DEF NodeFor
    <3> QED
      BY <3>1, TypesAssumption DEF Call, Frames, KindOf, TypeOf, Node
  <2> HIDE DEF Frames
  <2>3. /\ Len(calls') = Len(Advanced(calls)) + 1
        /\ \A k \in 1..Len(Advanced(calls)) : calls'[k] = Advanced(calls)[k]
        /\ calls'[Len(Advanced(calls)) + 1] = Call(Child)
    BY <1>1, <2>1, <2>2, AppendProperties
  <2> QED
    BY <1>2, <2>3
<1>5. \A n : ChildTypes(n)' = ChildTypes(n) /\ KindOf(n)' = KindOf(n)
  BY <1>1 DEF types, ChildTypes, KindOf, FieldsOf, ElemOf, TypeOf
<1>6. \A n : UnderWay(n) => UnderWay(n)'
  <2> SUFFICES ASSUME NEW n, UnderWay(n) PROVE UnderWay(n)'
    OBVIOUS
  <2>1. PICK k \in 1..Len(calls) : calls[k].node = n
    BY DEF UnderWay
  <2>2. k \in 1..Len(calls') /\ calls'[k].node = n
    BY <1>2, <1>3, <1>4, <2>1
  <2> QED
    BY <2>2 DEF UnderWay
<1>7. ASSUME NEW t \in nodes' PROVE kind'[t] = "scalar" \/ t \in Planned' \/ UnderWay(t)'
  <2>1. CASE t \in nodes
    BY <1>1, <1>6, <2>1 DEF CoverInv, types, Planned
  <2>2. CASE t = Child
    <3>1. Len(calls) + 1 \in 1..Len(calls') /\ calls'[Len(calls) + 1].node = t
      BY <1>3, <1>4, <2>2 DEF Call
    <3> QED
      BY <3>1 DEF UnderWay
  <2> QED
    BY <1>1, <2>1, <2>2
<1>8. Planned' = Planned
  BY <1>1 DEF Planned
<1>9. \A n, m : Entered(n, m) => Entered(n, m)'
  BY <1>1, <1>5 DEF Entered
<1>10. ASSUME NEW k \in 1..Len(calls') PROVE Entered(calls[k].node, calls[k].next)'
  <2>1. CASE k \in 1..Len(calls)
    BY <1>2, <1>4, <1>5, <2>1 DEF Entered
  <2>2. CASE k = Len(calls) + 1
    <3>1. calls'[k].next = 1
      BY <1>4, <2>2 DEF Call
    <3> QED
      BY <3>1 DEF Entered
  <2> QED
    BY <1>3, <1>4, <2>1, <2>2
<1>11. calls'[1].node = Request
  BY <1>1, <1>2, <1>3, <1>4 DEF CoverInv
<1>12. \A n \in Planned : n \in Node' /\ KindOf(n)' # "scalar"
  BY <1>5 DEF CoverInv, Node
<1>13. \A n \in Planned' : UnderWay(n)' \/ Entered(n, Len(ChildTypes(n)) + 1)'
  BY <1>5, <1>6, <1>8, <1>9 DEF CoverInv
<1> QED
  BY <1>1, <1>7, <1>8, <1>10, <1>11, <1>12, <1>13 DEF CoverInv

LEMMA BuiltCovers == ASSUME TypeInv, CoverInv, Built PROVE CoverInv'
<1>1. /\ phase = "plan" /\ UNCHANGED <<types, nodes>> /\ ~AtChild /\ calls' = Front(calls)
      /\ IF Len(calls) = 1 THEN phase' = "mark" /\ UNCHANGED all
         ELSE phase' = phase /\ all' = Append(all, Caller.node)
  BY DEF Built
<1>2. Len(calls) \in Nat \ {0} /\ calls \in Seq(Frames) /\ Caller \in Frames
  BY <1>1, CallerTyped DEF TypeInv, CallsTyped
<1>3. Caller = calls[Len(calls)] /\ Caller.node \in Node /\ KindOf(Caller.node) # "scalar" /\ Caller.next \in Nat
  BY <1>2 DEF Caller, Last, Frames
<1>4. Len(calls') = Len(calls) - 1 /\ \A k \in 1..(Len(calls) - 1) : calls'[k] = calls[k]
  <2> DEFINE m == Len(calls) - 1
  <2>1. m \in Nat /\ \A i \in 1..m : calls[i] \in Frames
    BY <1>2, ElementOfSeq
  <2>2. calls' = SubSeq(calls, 1, m)
    BY <1>1 DEF Front
  <2> HIDE DEF m
  <2>3. /\ Len(SubSeq(calls, 1, m)) = IF 1 <= m THEN m - 1 + 1 ELSE 0
        /\ \A i \in 1..(m - 1 + 1) : SubSeq(calls, 1, m)[i] = calls[1 + i - 1]
    BY <2>1, SubSeqProperties
  <2>4. Len(calls') = m /\ \A k \in 1..m : calls'[k] = calls[k]
    BY <2>1, <2>2, <2>3
  <2> QED
    BY <2>4 DEF m
<1>5. \A n : ChildTypes(n)' = ChildTypes(n) /\ KindOf(n)' = KindOf(n)
  BY <1>1 DEF types, ChildTypes, KindOf, FieldsOf, ElemOf, TypeOf
<1>6. Entered(Caller.node, Len(ChildTypes(Caller.node)) + 1)
  <2>1. Entered(Caller.node, Caller.next)
    BY <1>2, <1>3 DEF CoverInv
  <2>2. Len(ChildTypes(Caller.node)) \in Nat
    BY <1>3, ChildrenCounted DEF TypeInv
  <2>3. Caller.next > Len(ChildTypes(Caller.node))
    BY <1>1, <1>3, <2>2 DEF AtChild
  <2> QED
    BY <1>3, <2>1, <2>2, <2>3 DEF Entered
<1>7. \A n : UnderWay(n) => UnderWay(n)' \/ n = Caller.node
  <2> SUFFICES ASSUME NEW n, UnderWay(n), n # Caller.node PROVE UnderWay(n)'
    OBVIOUS
  <2>1. PICK k \in 1..Len(calls) : calls[k].node = n
    BY DEF UnderWay
  <2>2. k # Len(calls)
    BY <1>3, <2>1
  <2>3. k \in 1..Len(calls') /\ calls'[k].node = n
    BY <1>2, <1>4, <2>1, <2>2
  <2> QED
    BY <2>3 DEF UnderWay
<1>8. \A n, m : Entered(n, m) => Entered(n, m)'
  BY <1>1, <1>5 DEF Entered
<1>9. Planned' = Planned \cup {Caller.node}
  <2>1. all \in Seq(Node) /\ Len(all) \in Nat /\ DOMAIN all = 1..Len(all)
    BY LenProperties DEF TypeInv, TypeOK
  <2>2. CASE Len(calls) = 1
    BY <1>1, <1>3, <2>2 DEF CoverInv, Planned
  <2>3. CASE Len(calls) # 1
    <3>1. all' = Append(all, Caller.node)
      BY <1>1, <2>3
    <3>2. /\ DOMAIN all' = 1..(Len(all) + 1)
          /\ all'[Len(all) + 1] = Caller.node
          /\ \A i \in 1..Len(all) : all'[i] = all[i]
      BY <1>3, <2>1, <3>1, AppendProperties, LenProperties
    <3>3. \A n : n \in Planned' <=> \E i \in 1..(Len(all) + 1) : all'[i] = n
      BY <3>2 DEF Planned, Range
    <3>4. \A n : n \in Planned <=> \E i \in 1..Len(all) : all[i] = n
      BY <2>1 DEF Planned, Range
    <3>5. \A n : n \in Planned' <=> n \in Planned \/ n = Caller.node
      BY <2>1, <3>2, <3>3, <3>4
    <3> QED
      BY <3>5
  <2> QED
    BY <2>2, <2>3
<1>10. Request \in Planned'
  BY <1>9 DEF CoverInv
<1>11. ASSUME NEW n \in Planned' PROVE n \in Node' /\ KindOf(n)' # "scalar"
  BY <1>3, <1>5, <1>9 DEF CoverInv, Node
<1>12. ASSUME NEW t \in nodes' PROVE kind'[t] = "scalar" \/ t \in Planned' \/ UnderWay(t)'
  BY <1>1, <1>7, <1>9 DEF CoverInv, types
<1>13. ASSUME NEW n \in Planned' PROVE UnderWay(n)' \/ Entered(n, Len(ChildTypes(n)) + 1)'
  BY <1>5, <1>6, <1>7, <1>8, <1>9 DEF CoverInv
<1>14. ASSUME NEW k \in 1..Len(calls') PROVE Entered(calls[k].node, calls[k].next)'
  <2>1. k \in 1..Len(calls) /\ calls'[k] = calls[k]
    BY <1>2, <1>4
  <2>2. Entered(calls[k].node, calls[k].next)
    BY <2>1 DEF CoverInv
  <2> QED
    BY <1>8, <2>1, <2>2 DEF Entered
<1>15. phase' = "plan" => calls'[1].node = Request
  BY <1>1, <1>2, <1>4 DEF CoverInv
<1>16. phase' # "plan" => calls' = <<>>
  <2>1. ASSUME phase' # "plan" PROVE Len(calls) = 1
    BY <1>1, <2>1
  <2>2. Len(calls) = 1 => Front(calls) = <<>>
    BY DEF Front
  <2> QED
    BY <1>1, <2>1, <2>2
<1> QED
  BY <1>10, <1>11, <1>12, <1>13, <1>14, <1>15, <1>16 DEF CoverInv

LEMMA NextCovers == TypeInv /\ CoverInv /\ [Next]_vars => CoverInv'
<1> SUFFICES ASSUME TypeInv, CoverInv, [Next]_vars PROVE CoverInv'
  OBVIOUS
<1>1. ASSUME Mark \/ PassEnds \/ Prune PROVE CoverInv'
  <2>1. UNCHANGED <<types, calls, nodes, all>> /\ phase # "plan" /\ phase' # "plan"
    BY <1>1 DEF Mark, PassEnds, Prune
  <2> QED
    BY <2>1, CoverKept
<1>2. ASSUME Validate PROVE CoverInv'
  <2>1. UNCHANGED <<types, calls, nodes, all>> /\ phase # "plan" /\ phase' # "plan"
    BY <1>2 DEF Validate, Decode, CheckField, CheckElem, CheckReturns, Hook, compiling
  <2> QED
    BY <2>1, CoverKept
<1>3. ASSUME UNCHANGED vars PROVE CoverInv'
  <2>1. UNCHANGED <<types, calls, nodes, all>> /\ UNCHANGED phase
    BY <1>3 DEF vars, compiling
  <2> QED
    BY <2>1, CoverKept
<1> QED
  BY <1>1, <1>2, <1>3, ReuseCovers, NodeForCovers, BuiltCovers DEF Next, Compile

(* What the walk relies on: the plan covers the request's types, the live  *)
(* nodes are closed, and a struct's node keeps the fields Kept says.       *)
Walking == phase \in {"decode", "check", "hook", "done"}
Compiled ==
    /\ Covered
    /\ Closed(live)
    /\ \A n \in Planned : KindOf(n) = "struct" => plan[n] = Kept(n)
CompiledInv == Walking => Compiled

LEMMA PruneCompiles == ASSUME TypeInv, MarkInv, CoverInv, Prune PROVE Compiled'
<1>1. /\ phase = "prune" /\ phase' = "decode" /\ UNCHANGED <<types, calls, nodes, all, live>>
      /\ plan' = [n \in Node |-> IF n \in Range(all) /\ KindOf(n) = "struct" THEN Kept(n) ELSE <<>>]
  BY DEF Prune
<1>2. Covered /\ Covered'
  BY <1>1, CoverIs, CoverKept
<1>3. Closed(live)'
  BY <1>1, LiveKept DEF MarkInv
<1>4. Planned' = Planned /\ \A n : KindOf(n)' = KindOf(n) /\ Kept(n)' = Kept(n)
  BY <1>1 DEF types, Planned, KindOf, Kept, KeepsSub, Sub, TypeRules, FieldsOf, TypeOf
<1>5. ASSUME NEW n \in Planned, KindOf(n) = "struct" PROVE plan'[n] = Kept(n)
  BY <1>1, <1>2, <1>5 DEF Covered, Planned
<1> QED
  BY <1>2, <1>3, <1>4, <1>5 DEF Compiled

LEMMA CompiledKept ==
    ASSUME UNCHANGED <<types, compiling>>, Compiled
    PROVE  Compiled'
<1>1. UNCHANGED <<types, all, live>> /\ plan' = plan
  BY DEF compiling
<1>2. \A n : ChildTypes(n)' = ChildTypes(n) /\ KindOf(n)' = KindOf(n) /\ Kept(n)' = Kept(n)
  BY <1>1 DEF types, ChildTypes, KindOf, FieldsOf, ElemOf, TypeOf, Kept, KeepsSub, Sub, TypeRules
<1>3. Planned' = Planned
  BY <1>1 DEF Planned
<1>4. Covered'
  BY <1>1, <1>2, <1>3 DEF Compiled, Covered, types, Node
<1>5. Closed(live)'
  BY <1>1, LiveKept DEF Compiled
<1> QED
  BY <1>1, <1>2, <1>3, <1>4, <1>5 DEF Compiled

LEMMA NextCompiled ==
    TypeInv /\ MarkInv /\ CoverInv /\ CompiledInv /\ [Next]_vars => CompiledInv'
<1> SUFFICES ASSUME TypeInv, MarkInv, CoverInv, CompiledInv, [Next]_vars PROVE CompiledInv'
  OBVIOUS
<1>1. ASSUME Reuse \/ NodeFor \/ Built \/ Mark \/ PassEnds PROVE CompiledInv'
  <2>1. phase' \in {"plan", "mark", "prune"}
    BY <1>1 DEF Reuse, NodeFor, Built, Mark, PassEnds
  <2> QED
    BY <2>1 DEF CompiledInv, Walking
<1>2. ASSUME Validate PROVE CompiledInv'
  <2>1. Walking /\ UNCHANGED <<types, compiling>>
    BY <1>2 DEF Validate, Decode, CheckField, CheckElem, CheckReturns, Hook, Walking
  <2> QED
    BY <2>1, CompiledKept DEF CompiledInv
<1>3. ASSUME UNCHANGED vars PROVE CompiledInv'
  <2>1. UNCHANGED <<types, compiling>> /\ UNCHANGED phase
    BY <1>3 DEF vars
  <2> QED
    BY <2>1, CompiledKept DEF CompiledInv, Walking
<1> QED
  BY <1>1, <1>2, <1>3, PruneCompiles DEF Next, Compile, CompiledInv

-----------------------------------------------------------------------------
(* The request's values and their places                                   *)

(* The levels Values is built of: what the values of each type are, how    *)
(* many types deep they may go.  And those Places is built of.             *)
Ground == [d \in 0..MaxDepth |-> [t \in Type |-> {}]]
Level(B) == [d \in 0..MaxDepth |-> [t \in Type |-> ValuesOf(B, d, t)]]
PartsOf(S) == UNION {{Part(x, i) : i \in 1..Len(x.of.kids)} : x \in S}

(* The provers take no operator for a parameter: a name stands for which   *)
(* of the two recursions is meant.                                         *)
More(what, below) == IF what = "values" THEN Level(below) ELSE PartsOf(below)
Grows(h, base, what, m) == h = [n \in 0..m |-> IF n = 0 THEN base ELSE More(what, h[n - 1])]

LEMMA GrowsExists == ASSUME NEW base, NEW what PROVE \E h : Grows(h, base, what, MaxNest)
<1> DEFINE Without == {m \in 0..MaxNest : ~\E h : Grows(h, base, what, m)}
<1>0. MaxNest \in Nat
  BY BoundsAssumption
<1>1. ASSUME NEW m \in Without, \A l \in Without : m <= l PROVE FALSE
  <2>1. CASE m = 0
    <3> DEFINE h == [n \in 0..0 |-> base]
    <3>1. h = [n \in 0..m |-> IF n = 0 THEN base ELSE More(what, h[n - 1])]
      BY <2>1
    <3>2. Grows(h, base, what, m)
      BY <3>1 DEF Grows
    <3> QED
      BY <3>2
  <2>2. CASE m # 0
    <3>1. m \in Nat /\ m - 1 \in 0..MaxNest /\ ~(m <= m - 1)
      BY <1>0, <2>2
    <3>2. PICK g : Grows(g, base, what, m - 1)
      BY <1>1, <3>1
    <3>3. \A n \in 0..(m - 1) : g[n] = IF n = 0 THEN base ELSE More(what, g[n - 1])
      BY <3>2 DEF Grows
    <3> DEFINE h == [n \in 0..m |-> IF n = m THEN More(what, g[m - 1]) ELSE g[n]]
    <3>4. ASSUME NEW n \in 0..m PROVE h[n] = IF n = 0 THEN base ELSE More(what, h[n - 1])
      <4>1. CASE n = 0
        BY <2>2, <3>1, <3>3, <4>1
      <4>2. CASE n # 0
        <5>1. n - 1 \in 0..(m - 1) /\ n - 1 # m /\ n - 1 \in 0..m
          BY <3>1, <4>2
        <5>2. h[n - 1] = g[n - 1]
          BY <5>1
        <5>3. n = m => h[n] = More(what, g[n - 1])
          BY <3>1
        <5>4. n # m => n \in 0..(m - 1) /\ h[n] = g[n]
          BY <3>1
        <5> HIDE DEF h
        <5> QED
          BY <3>3, <4>2, <5>2, <5>3, <5>4
      <4> QED
        BY <4>1, <4>2
    <3>5. h = [n \in 0..m |-> h[n]]
      OBVIOUS
    <3> HIDE DEF h
    <3>6. Grows(h, base, what, m)
      BY <3>4, <3>5 DEF Grows
    <3> QED
      BY <3>6
  <2> QED
    BY <2>1, <2>2
<1>2. Without \in SUBSET Nat
  BY <1>0
<1>3. Without = {}
  <2> HIDE DEF Without
  <2> QED
    BY <1>1, <1>2, LeastNatural
<1>4. MaxNest \in 0..MaxNest
  BY <1>0
<1> QED
  BY <1>3, <1>4

LevelsTo(h, m) == Grows(h, Ground, "values", m)

LEMMA ValuesIs == \E h : LevelsTo(h, MaxNest) /\ Values = h[MaxNest][MaxDepth][Root]
<1> DEFINE G(f) == f = [n \in 0..MaxNest |->
                          [d \in 0..MaxDepth |-> [t \in Type |-> IF n = 0 THEN {} ELSE ValuesOf(f[n - 1], d, t)]]]
           f == CHOOSE x : G(x)
<1>1. PICK g : LevelsTo(g, MaxNest)
  BY GrowsExists DEF LevelsTo
<1>2. \A x, n : [d \in 0..MaxDepth |-> [t \in Type |-> IF n = 0 THEN {} ELSE ValuesOf(x[n - 1], d, t)]]
                  = IF n = 0 THEN Ground ELSE Level(x[n - 1])
  BY DEF Ground, Level
<1>3. \A x : G(x) <=> LevelsTo(x, MaxNest)
  <2> SUFFICES ASSUME NEW x PROVE G(x) <=> LevelsTo(x, MaxNest)
    OBVIOUS
  <2>1. [n \in 0..MaxNest |->
            [d \in 0..MaxDepth |-> [t \in Type |-> IF n = 0 THEN {} ELSE ValuesOf(x[n - 1], d, t)]]]
        = [n \in 0..MaxNest |-> IF n = 0 THEN Ground ELSE Level(x[n - 1])]
    BY <1>2
  <2> QED
    BY <2>1 DEF LevelsTo, Grows, More
<1>4. G(f)
  <2>1. G(g)
    BY <1>1, <1>3
  <2> HIDE DEF G
  <2> QED
    BY <2>1
<1>5. Values = f[MaxNest][MaxDepth][Root]
  BY DEF Values
<1> HIDE DEF G, f
<1> QED
  BY <1>3, <1>4, <1>5

(* A struct's values have one for each of its fields.                      *)
LEMMA FieldValuesFit ==
    ASSUME Typed, NEW t \in Structs, NEW B, NEW d, NEW ks \in FieldValues(B, d, t)
    PROVE  /\ Len(ks) = Len(fields[t])
           /\ \A i \in 1..Len(fields[t]) : ks[i] \in Held(B, d, fields[t][i])
<1> DEFINE N == Len(fields[t])
           H == [i \in 1..N |-> Held(B, d, fields[t][i])]
           V0 == UNION {H[i] : i \in 1..N}
           S == SUBSET Seq(V0)
           Longer(s, i) == {Append(q, v) : q \in s, v \in Held(B, d, fields[t][i])}
           step == [i \in 1..N |-> [s \in S |-> Longer(s, i)]]
           G(f) == f = [i \in 0..N |-> IF i = 0 THEN {<<>>} ELSE Longer(f[i - 1], i)]
           upto == CHOOSE f : G(f)
<1>1. N \in Nat
  BY LenProperties DEF Typed
<1>2. \A i \in 1..N : H[i] = Held(B, d, fields[t][i]) /\ H[i] \subseteq V0
  OBVIOUS
<1>3. FieldValues(B, d, t) = upto[N]
  BY DEF FieldValues
<1> HIDE DEF H, N, V0
<1>4. \A i \in 1..N : \A s \in S : step[i][s] = Longer(s, i)
  OBVIOUS
<1>5. ASSUME NEW i \in 1..N, NEW s \in S PROVE step[i][s] \in S
  <2>1. ASSUME NEW q \in s, NEW v \in H[i] PROVE Append(q, v) \in Seq(V0)
    <3>1. q \in Seq(V0) /\ v \in V0
      BY <1>2
    <3> QED
      BY <3>1, AppendProperties
  <2>2. step[i][s] = {Append(q, v) : q \in s, v \in H[i]}
    BY <1>2, <1>4
  <2> HIDE DEF step, Longer
  <2> QED
    BY <2>1, <2>2
<1>6. {<<>>} \in S
  OBVIOUS
<1>7. \A q : \A s, i : q \in Longer(s, i) => \E p \in s, v \in Held(B, d, fields[t][i]) : q = Append(p, v)
  OBVIOUS
<1> HIDE DEF S, step, Longer
<1>8. PICK h : Recurs(h, S, N, {<<>>}, step)
  <2>1. StaysIn(S, N, step)
    BY <1>5 DEF StaysIn
  <2> QED
    BY <1>1, <1>6, <2>1, Recursion
<1>9. G(h)
  <2>1. h \in [0..N -> S] /\ h[0] = {<<>>} /\ \A i \in 1..N : h[i] = step[i][h[i - 1]]
    BY <1>8 DEF Recurs
  <2>2. ASSUME NEW i \in 0..N PROVE h[i] = IF i = 0 THEN {<<>>} ELSE Longer(h[i - 1], i)
    <3>1. CASE i # 0
      <4>1. i \in 1..N /\ i - 1 \in 0..N
        BY <1>1, <3>1
      <4>2. h[i - 1] \in S
        BY <2>1, <4>1
      <4>3. h[i] = Longer(h[i - 1], i)
        BY <1>4, <2>1, <4>1, <4>2
      <4> QED
        BY <3>1, <4>3
    <3> QED
      BY <2>1, <3>1
  <2>3. h = [i \in 0..N |-> h[i]]
    BY <2>1
  <2> QED
    BY <2>2, <2>3
<1>10. G(upto)
  <2> HIDE DEF G
  <2> QED
    BY <1>9
<1> HIDE DEF upto
<1>11. \A i \in 0..N : upto[i] = IF i = 0 THEN {<<>>} ELSE Longer(upto[i - 1], i)
  BY <1>10
<1> DEFINE Fits(q, i) == q \in Seq(V0) /\ Len(q) = i /\ \A j \in 1..i : q[j] \in H[j]
           Off == {i \in 0..N : \E q \in upto[i] : ~Fits(q, i)}
<1>12. ASSUME NEW i \in Off, \A m \in Off : i <= m PROVE FALSE
  <2>1. PICK q \in upto[i] : ~Fits(q, i)
    OBVIOUS
  <2>2. CASE i = 0
    <3>1. upto[i] = {<<>>}
      BY <1>11, <2>2
    <3>2. q = <<>>
      BY <2>1, <3>1
    <3> QED
      BY <2>1, <2>2, <3>2
  <2>3. CASE i # 0
    <3>1. i \in 1..N /\ i - 1 \in 0..N /\ ~(i <= i - 1)
      BY <1>1, <2>3
    <3>2. PICK p \in upto[i - 1], v \in H[i] : q = Append(p, v)
      <4>1. q \in Longer(upto[i - 1], i)
        BY <1>11, <2>1, <2>3
      <4> QED
        BY <1>2, <1>7, <3>1, <4>1
    <3>3. Fits(p, i - 1)
      BY <1>12, <3>1
    <3>4. v \in V0
      BY <1>2, <3>1
    <3>5. /\ q \in Seq(V0) /\ Len(q) = Len(p) + 1
          /\ \A j \in 1..Len(p) : q[j] = p[j]
          /\ q[Len(p) + 1] = v
      BY <3>2, <3>3, <3>4, AppendProperties
    <3>6. i = Len(p) + 1 /\ Len(p) \in Nat
      BY <3>1, <3>3
    <3>7. ASSUME NEW j \in 1..i PROVE q[j] \in H[j]
      <4>1. j \in 1..(i - 1) \/ j = i
        BY <3>1
      <4> QED
        BY <3>2, <3>3, <3>5, <3>6, <4>1
    <3>8. Fits(q, i)
      BY <3>5, <3>6, <3>7
    <3> QED
      BY <2>1, <3>8
  <2> QED
    BY <2>2, <2>3
<1>13. Off = {}
  <2>1. Off \in SUBSET Nat
    BY <1>1
  <2> HIDE DEF Off
  <2> QED
    BY <1>12, <2>1, LeastNatural
<1>14. Fits(ks, N)
  <2>1. N \in 0..N
    BY <1>1
  <2> QED
    BY <1>3, <1>13, <2>1
<1> QED
  BY <1>2, <1>14 DEF N

(* A value of a level, or a pointer to one.                                *)
Fit(B, t, v) ==
    v = Nil \/ \E d \in 0..MaxDepth : \E u \in B[d][t] : v = u \/ v = [u EXCEPT !.ptr = TRUE]

PartType(t, i) == IF kind[t] = "struct" THEN fields[t][i].type ELSE elem[t].type

LEMMA HeldFits ==
    ASSUME NEW B, NEW d \in 0..MaxDepth, NEW s, NEW v \in Held(B, d, s)
    PROVE  Fit(B, s.type, v)
<1>0. MaxDepth \in Nat
  BY BoundsAssumption
<1>1. CASE ~s.ptr
  BY <1>1 DEF Held, Fit
<1>2. CASE s.ptr /\ d = 0
  BY <1>2 DEF Held, Fit
<1>3. CASE s.ptr /\ d # 0
  <2>1. v = Nil \/ \E u \in B[d - 1][s.type] : v = [u EXCEPT !.ptr = TRUE]
    BY <1>3 DEF Held
  <2>2. d - 1 \in 0..MaxDepth
    BY <1>0, <1>3
  <2> QED
    BY <2>1, <2>2 DEF Fit
<1> QED
  BY <1>1, <1>2, <1>3

(* The shape of a value of one level, whose parts are of the one below.    *)
Shaped(B, t, v) ==
    /\ Len(v.kids) \in Nat
    /\ Absent(v) \/ kind[t] = "scalar" => Len(v.kids) = 0
    /\ kind[t] = "struct" /\ ~Absent(v) => Len(v.kids) = Len(fields[t])
    /\ \A i \in 1..Len(v.kids) : Fit(B, PartType(t, i), v.kids[i])

LEMMA ValuesShaped ==
    ASSUME Typed, NEW B, NEW d \in 0..MaxDepth, NEW t \in Type, NEW u \in ValuesOf(B, d, t)
    PROVE  /\ \E c, ks : u = V(c, ks) /\ c # "nil"
           /\ Shaped(B, t, u)
<1>0. MaxDepth \in Nat /\ MaxLen \in Nat
  BY BoundsAssumption
<1>1. CASE kind[t] = "scalar"
  <2>1. PICK c \in {"zero", "good", "bad"} : u = V(c, <<>>)
    BY <1>1 DEF ValuesOf
  <2>2. u.kids = <<>> /\ c # "nil"
    BY <2>1 DEF V
  <2> QED
    BY <1>1, <2>1, <2>2 DEF Shaped
<1>2. CASE kind[t] = "struct"
  <2>1. PICK ks \in FieldValues(B, d, t) : u = StructV(ks)
    BY <1>2 DEF ValuesOf
  <2>2. t \in Structs
    BY <1>2 DEF Structs
  <2>3. /\ Len(ks) = Len(fields[t])
        /\ \A i \in 1..Len(fields[t]) : ks[i] \in Held(B, d, fields[t][i])
    BY <2>1, <2>2, FieldValuesFit
  <2>4. Len(fields[t]) \in Nat
    BY <2>2, LenProperties DEF Typed
  <2>5. PICK c : u = V(c, ks) /\ c # "nil"
    BY <2>1 DEF StructV
  <2>6. u.kids = ks /\ ~Absent(u)
    BY <2>5 DEF V, Absent
  <2>7. ASSUME NEW i \in 1..Len(ks) PROVE Fit(B, PartType(t, i), ks[i])
    BY <1>2, <2>3, HeldFits DEF PartType
  <2> QED
    BY <1>2, <2>3, <2>4, <2>5, <2>6, <2>7 DEF Shaped
<1>3. CASE kind[t] \notin {"scalar", "struct"}
  <2>1. u \in {V("zero", <<>>)} \cup {V("bad", ks) : ks \in ElemValues(B, d, t)}
    BY <1>3 DEF ValuesOf
  <2>2. CASE u = V("zero", <<>>)
    <3>1. u.kids = <<>>
      BY <2>2 DEF V
    <3> QED
      BY <1>3, <2>2, <3>1 DEF Shaped
  <2>3. CASE \E ks \in ElemValues(B, d, t) : u = V("bad", ks)
    <3>1. PICK ks \in ElemValues(B, d, t) : u = V("bad", ks)
      BY <2>3
    <3>2. d # 0 /\ d - 1 \in 0..MaxDepth
      BY <1>0, <3>1 DEF ElemValues
    <3>3. PICK m \in 1..(IF d = MaxDepth THEN MaxLen ELSE 1) : ks \in [1..m -> Held(B, d - 1, elem[t])]
      BY <3>1, <3>2 DEF ElemValues
    <3>4. m \in Nat /\ Len(ks) = m /\ \A i \in 1..m : ks[i] \in Held(B, d - 1, elem[t])
      BY <1>0, <3>3
    <3>5. u.kids = ks /\ ~Absent(u)
      BY <3>1 DEF V, Absent
    <3>6. ASSUME NEW i \in 1..Len(ks) PROVE Fit(B, PartType(t, i), ks[i])
      BY <1>3, <3>2, <3>4, HeldFits DEF PartType
    <3> QED
      BY <1>3, <3>1, <3>4, <3>5, <3>6 DEF Shaped
  <2> QED
    BY <2>1, <2>2, <2>3
<1> QED
  BY <1>1, <1>2, <1>3

LEMMA FitShaped ==
    ASSUME Typed, NEW h, LevelsTo(h, MaxNest), NEW n \in 0..MaxNest, NEW t \in Type, NEW v,
           Fit(h[n], t, v)
    PROVE  /\ n # 0 => Shaped(h[n - 1], t, v)
           /\ n = 0 => v = Nil
           /\ v = Nil => Len(v.kids) = 0
<1>1. Len(Nil.kids) = 0 /\ Absent(Nil)
  BY DEF Nil, Absent
<1>2. \A B : Shaped(B, t, Nil)
  BY <1>1 DEF Shaped
<1>3. ASSUME v # Nil PROVE n # 0 /\ Shaped(h[n - 1], t, v)
  <2>1. PICK d \in 0..MaxDepth : \E u \in h[n][d][t] : v = u \/ v = [u EXCEPT !.ptr = TRUE]
    BY <1>3 DEF Fit
  <2>2. PICK u \in h[n][d][t] : v = u \/ v = [u EXCEPT !.ptr = TRUE]
    BY <2>1
  <2>3. h[n] = IF n = 0 THEN Ground ELSE Level(h[n - 1])
    BY DEF LevelsTo, Grows, More
  <2>4. n # 0
    BY <2>2, <2>3 DEF Ground
  <2>5. u \in ValuesOf(h[n - 1], d, t)
    BY <2>2, <2>3, <2>4 DEF Level
  <2>6. PICK c, ks : u = V(c, ks) /\ c # "nil"
    BY <2>5, ValuesShaped
  <2>7. Shaped(h[n - 1], t, u)
    BY <2>5, ValuesShaped
  <2>8. v.kids = u.kids /\ v.class = u.class
    BY <2>2, <2>6 DEF V
  <2> QED
    BY <2>4, <2>7, <2>8 DEF Shaped, Absent
<1> QED
  BY <1>1, <1>2, <1>3

Deepens(D, w) == Grows(D, {w}, "places", MaxNest)

LEMMA PlacesIs == \E D : Deepens(D, Whole) /\ Places = UNION {D[n] : n \in 0..MaxNest}
<1> DEFINE G(f) == f = [n \in 0..MaxNest |->
                          IF n = 0 THEN {Whole}
                          ELSE UNION {{Part(x, i) : i \in 1..Len(x.of.kids)} : x \in f[n - 1]}]
           f == CHOOSE x : G(x)
<1>1. PICK g : Grows(g, {Whole}, "places", MaxNest)
  BY GrowsExists
<1>2. \A x : G(x) <=> Deepens(x, Whole)
  BY DEF Deepens, Grows, More, PartsOf
<1>3. G(f)
  <2>1. G(g)
    BY <1>1, <1>2 DEF Deepens
  <2> HIDE DEF G
  <2> QED
    BY <2>1
<1>4. Places = UNION {f[n] : n \in 0..MaxNest}
  BY DEF Places
<1> HIDE DEF G, f
<1> QED
  BY <1>2, <1>3, <1>4

(* A place of the request, at its depth.                                   *)
Sound(h, n, x) ==
    /\ x.type \in Type
    /\ x.path \in Seq(Nat) /\ Len(x.path) = n
    /\ x.dive \subseteq {"required", "check"}
    /\ Fit(h[MaxNest - n], x.type, x.of)

LEMMA FieldDive ==
    ASSUME Typed, NEW t \in Structs, NEW i \in 1..Len(fields[t])
    PROVE  fields[t][i].type \in Type /\ fields[t][i].dive \subseteq {"required", "check"}
<1>1. fields[t][i] \in Field
  <2>1. fields[t] \in Seq(Field)
    BY DEF Typed
  <2> QED
    BY <2>1, ElementOfSeq
<1>2. \A t1 : \A r \in RulesOn(t1) : r \subseteq {"required", "check"}
  BY DEF RulesOn
<1> QED
  BY <1>1, <1>2 DEF Field, FieldTo

LEMMA PartSound ==
    ASSUME Typed, NEW h, LevelsTo(h, MaxNest), NEW n \in 0..MaxNest, NEW x, Sound(h, n, x),
           NEW i \in 1..Len(x.of.kids)
    PROVE  n + 1 \in 0..MaxNest /\ Sound(h, n + 1, Part(x, i))
<1> DEFINE m == MaxNest - n
           y == Part(x, i)
<1>0. MaxNest \in Nat
  BY BoundsAssumption
<1>1. m \in 0..MaxNest /\ Fit(h[m], x.type, x.of) /\ x.type \in Type
  BY <1>0 DEF Sound
<1>2. /\ m # 0 => Shaped(h[m - 1], x.type, x.of)
      /\ m = 0 => x.of = Nil
      /\ x.of = Nil => Len(x.of.kids) = 0
  BY <1>1, FitShaped
<1>3. m # 0
  BY <1>2
<1>4. Shaped(h[m - 1], x.type, x.of)
  BY <1>2, <1>3
<1>5. n + 1 \in 0..MaxNest /\ MaxNest - (n + 1) = m - 1
  BY <1>0, <1>3
<1>6. Len(x.of.kids) # 0 /\ ~Absent(x.of) /\ kind[x.type] # "scalar" /\ i \in Nat
  BY <1>4 DEF Shaped
<1>7. y.type = PartType(x.type, i) /\ y.of = x.of.kids[i] /\ y.path = Append(x.path, i)
  BY DEF Part, Place, PartType
<1>8. Fit(h[MaxNest - (n + 1)], y.type, y.of)
  BY <1>4, <1>5, <1>7 DEF Shaped
<1>9. y.path \in Seq(Nat) /\ Len(y.path) = n + 1
  BY <1>6, <1>7, AppendProperties DEF Sound
<1>10. y.type \in Type /\ y.dive \subseteq {"required", "check"}
  <2>1. CASE kind[x.type] = "struct"
    <3>1. x.type \in Structs /\ i \in 1..Len(fields[x.type])
      BY <1>1, <1>4, <1>6, <2>1 DEF Shaped, Structs
    <3>2. y.dive = fields[x.type][i].dive
      BY <2>1 DEF Part, Place
    <3> QED
      BY <1>7, <2>1, <3>1, <3>2, FieldDive DEF PartType
  <2>2. CASE kind[x.type] # "struct"
    <3>1. x.type \in Containers
      BY <1>1, <1>6, <2>2 DEF Typed, Containers
    <3>2. elem[x.type].type \in Type
      BY <3>1 DEF Typed, Elem
    <3>3. y.dive = {}
      BY <2>2 DEF Part, Place
    <3> QED
      BY <1>7, <2>2, <3>2, <3>3 DEF PartType
  <2> QED
    BY <2>1, <2>2
<1> QED
  BY <1>5, <1>8, <1>9, <1>10 DEF Sound

(* A set of places of the request that leaves no part of one out.          *)
Local(x) ==
    /\ x.type \in Type
    /\ x.path \in Seq(Nat) /\ Len(x.path) <= MaxNest
    /\ x.dive \subseteq {"required", "check"}
    /\ Len(x.of.kids) \in Nat
    /\ Absent(x.of) \/ kind[x.type] = "scalar" => Len(x.of.kids) = 0
    /\ kind[x.type] = "struct" /\ ~Absent(x.of) => Len(x.of.kids) = Len(fields[x.type])
Holds(P) == \A x \in P : Local(x) /\ \A i \in 1..Len(x.of.kids) : Part(x, i) \in P

LEMMA SoundLocal ==
    ASSUME Typed, NEW h, LevelsTo(h, MaxNest), NEW n \in 0..MaxNest, NEW x, Sound(h, n, x)
    PROVE  Local(x)
<1> DEFINE m == MaxNest - n
<1>0. MaxNest \in Nat
  BY BoundsAssumption
<1>1. m \in 0..MaxNest /\ Fit(h[m], x.type, x.of) /\ x.type \in Type
  BY <1>0 DEF Sound
<1>2. /\ m # 0 => Shaped(h[m - 1], x.type, x.of)
      /\ m = 0 => x.of = Nil
      /\ x.of = Nil => Len(x.of.kids) = 0
  BY <1>1, FitShaped
<1>3. x.of = Nil => Absent(x.of)
  BY DEF Nil, Absent
<1> QED
  BY <1>0, <1>2, <1>3 DEF Sound, Local, Shaped

LEMMA DeepHolds ==
    ASSUME Typed, NEW h, LevelsTo(h, MaxNest), NEW w, Sound(h, 0, w), NEW D, Deepens(D, w)
    PROVE  LET P == UNION {D[n] : n \in 0..MaxNest} IN Holds(P) /\ w \in P
<1> DEFINE P == UNION {D[n] : n \in 0..MaxNest}
<1>0. MaxNest \in Nat
  BY BoundsAssumption
<1>3. \A n \in 0..MaxNest : D[n] = IF n = 0 THEN {w} ELSE PartsOf(D[n - 1])
  BY DEF Deepens, Grows, More
<1> DEFINE Off == {n \in 0..MaxNest : \E x \in D[n] : ~Sound(h, n, x)}
<1>5. ASSUME NEW n \in Off, \A m \in Off : n <= m PROVE FALSE
  <2>1. PICK y \in D[n] : ~Sound(h, n, y)
    OBVIOUS
  <2>2. n # 0
    BY <1>3, <2>1
  <2>3. n - 1 \in 0..MaxNest /\ ~(n <= n - 1) /\ (n - 1) + 1 = n
    BY <1>0, <2>2
  <2>4. \A x \in D[n - 1] : Sound(h, n - 1, x)
    BY <1>5, <2>3
  <2>5. PICK x \in D[n - 1] : \E i \in 1..Len(x.of.kids) : y = Part(x, i)
    <3>1. y \in PartsOf(D[n - 1])
      BY <1>3, <2>1, <2>2
    <3> QED
      BY <3>1 DEF PartsOf
  <2>6. Sound(h, n, y)
    BY <2>3, <2>4, <2>5, PartSound
  <2> QED
    BY <2>1, <2>6
<1>6. \A n \in 0..MaxNest : \A x \in D[n] : Sound(h, n, x)
  <2>1. Off \in SUBSET Nat
    BY <1>0
  <2>2. Off = {}
    <3> HIDE DEF Off
    <3> QED
      BY <1>5, <2>1, LeastNatural
  <2> QED
    BY <2>2
<1>7. w \in P
  BY <1>0, <1>3
<1>8. ASSUME NEW x \in P PROVE Local(x) /\ \A i \in 1..Len(x.of.kids) : Part(x, i) \in P
  <2>1. PICK n \in 0..MaxNest : x \in D[n]
    OBVIOUS
  <2>2. Sound(h, n, x)
    BY <1>6, <2>1
  <2>3. ASSUME NEW i \in 1..Len(x.of.kids) PROVE Part(x, i) \in P
    <3>1. n + 1 \in 0..MaxNest
      BY <2>2, PartSound
    <3>2. D[n + 1] = PartsOf(D[n])
      BY <1>0, <1>3, <3>1
    <3>3. Part(x, i) \in D[n + 1]
      BY <2>1, <3>2 DEF PartsOf
    <3> QED
      BY <3>1, <3>3
  <2> QED
    BY <2>2, <2>3, SoundLocal
<1> QED
  BY <1>7, <1>8 DEF Holds

WholeOf(v) == Place(Root, v, <<>>, {}, {})

LEMMA ValueSound ==
    ASSUME Typed, NEW v \in Values
    PROVE  ~Absent(v) /\ \E h : LevelsTo(h, MaxNest) /\ Sound(h, 0, WholeOf(v))
<1>0. MaxNest \in Nat /\ MaxDepth \in Nat
  BY BoundsAssumption
<1>1. PICK h : LevelsTo(h, MaxNest) /\ Values = h[MaxNest][MaxDepth][Root]
  BY ValuesIs
<1>2. Fit(h[MaxNest], Root, v)
  BY <1>0, <1>1 DEF Fit
<1>3. Sound(h, 0, WholeOf(v))
  BY <1>0, <1>2, TypesAssumption DEF Sound, WholeOf, Place
<1>4. ~Absent(v)
  <2>1. h[MaxNest] = IF MaxNest = 0 THEN Ground ELSE Level(h[MaxNest - 1])
    BY <1>0, <1>1 DEF LevelsTo, Grows, More
  <2>2. MaxNest # 0
    BY <1>0, <1>1, <2>1, TypesAssumption DEF Ground
  <2>3. v \in ValuesOf(h[MaxNest - 1], MaxDepth, Root)
    BY <1>0, <1>1, <2>1, <2>2, TypesAssumption DEF Level
  <2>4. PICK c, ks : v = V(c, ks) /\ c # "nil"
    BY <1>0, <2>3, TypesAssumption, ValuesShaped
  <2> QED
    BY <2>4 DEF V, Absent
<1> QED
  BY <1>1, <1>3, <1>4

(* The places of a request are finitely deep, and leave no part out.       *)
LEMMA SomeHold == ASSUME Typed, NEW v \in Values PROVE \E P : Holds(P) /\ WholeOf(v) \in P
<1>1. PICK h : LevelsTo(h, MaxNest) /\ Sound(h, 0, WholeOf(v))
  BY ValueSound
<1>2. PICK D : Deepens(D, WholeOf(v))
  BY GrowsExists DEF Deepens
<1> QED
  BY <1>1, <1>2, DeepHolds

-----------------------------------------------------------------------------
(* What a request breaks                                                   *)

Failure == [path : Seq(Nat), rule : {"required", "check", "enum"}]
FailAt(y) == Fail(y.path, y.of, y.rules)

One(r, path, v, rules) == IF r \in Failing(v, rules) THEN <<[path |-> path, rule |-> r]>> ELSE <<>>

LEMMA FailIs ==
    ASSUME NEW path \in Seq(Nat), NEW v, NEW rules
    PROVE  /\ Fail(path, v, rules)
                = One("required", path, v, rules) \o One("check", path, v, rules) \o One("enum", path, v, rules)
           /\ \A r \in {"required", "check", "enum"} : One(r, path, v, rules) \in Seq(Failure)
           /\ Fail(path, v, rules) \in Seq(Failure)
<1>1. ASSUME NEW r \in {"required", "check", "enum"} PROVE One(r, path, v, rules) \in Seq(Failure)
  <2>1. [path |-> path, rule |-> r] \in Failure
    BY DEF Failure
  <2> HIDE DEF Failure
  <2> QED
    BY <2>1 DEF One
<1>2. Fail(path, v, rules)
        = One("required", path, v, rules) \o One("check", path, v, rules) \o One("enum", path, v, rules)
  BY Zenon DEF Fail, One
<1> HIDE DEF Failure
<1> QED
  BY <1>1, <1>2, ConcatProperties

(* The rules of an element and then its type's are the two together.       *)
Splits(path, v, own, typed) == Fail(path, v, own \cup typed) = Fail(path, v, own) \o Fail(path, v, typed)

LEMMA FailSplit ==
    ASSUME NEW path \in Seq(Nat), NEW v,
           NEW own \in SUBSET {"required", "check"}, NEW typed \in SUBSET {"enum"}
    PROVE  Splits(path, v, own, typed)
<1> DEFINE both == own \cup typed
           a == One("required", path, v, both)
           b == One("check", path, v, both)
           c == One("enum", path, v, both)
<1>1. /\ a \in Seq(Failure) /\ b \in Seq(Failure) /\ c \in Seq(Failure)
      /\ Fail(path, v, both) = a \o b \o c
  BY FailIs
<1>2. One("required", path, v, own) = a /\ One("check", path, v, own) = b /\ One("enum", path, v, own) = <<>>
  BY DEF One, Failing
<1>3. One("required", path, v, typed) = <<>> /\ One("check", path, v, typed) = <<>> /\ One("enum", path, v, typed) = c
  BY DEF One, Failing
<1>4. Fail(path, v, own) = a \o b \o <<>>
  BY <1>2, FailIs
<1>5. Fail(path, v, typed) = <<>> \o <<>> \o c
  BY <1>3, FailIs
<1> HIDE DEF a, b, c, Failure
<1>6. a \o b \in Seq(Failure) /\ a \o b \o <<>> = a \o b
  BY <1>1, ConcatProperties, ConcatEmptySeq
<1>7. <<>> \o <<>> \o c = c
  <2>1. <<>> \o <<>> = <<>>
    OBVIOUS
  <2> QED
    BY <1>1, <2>1, ConcatEmptySeq
<1> QED
  BY <1>1, <1>4, <1>5, <1>6, <1>7 DEF Splits

LEMMA FailNone == ASSUME NEW path \in Seq(Nat), NEW v PROVE Fail(path, v, {}) = <<>>
<1>1. \A r \in {"required", "check", "enum"} : One(r, path, v, {}) = <<>>
  BY DEF One, Failing
<1>2. <<>> \o <<>> \o <<>> = <<>>
  OBVIOUS
<1> QED
  BY <1>1, <1>2, FailIs

-----------------------------------------------------------------------------
(* W is what is reported within each place, Q the same up to each part.    *)
Tree(P, W, Q) ==
    \A x \in P :
        /\ Q[x] \in [0..Len(x.of.kids) -> Seq(Failure)]
        /\ Q[x][0] = <<>>
        /\ \A i \in 1..Len(x.of.kids) : Q[x][i] = Q[x][i - 1] \o (FailAt(Part(x, i)) \o W[Part(x, i)])
        /\ W[x] = Q[x][Len(x.of.kids)]
Reads(P, W, Q) == Holds(P) /\ Tree(P, W, Q)

LEMMA PartPath ==
    ASSUME NEW P, Holds(P), NEW x \in P, NEW i \in 1..Len(x.of.kids)
    PROVE  /\ Part(x, i) \in P
           /\ Part(x, i).path \in Seq(Nat)
           /\ Len(Part(x, i).path) = Len(x.path) + 1
           /\ Len(x.path) \in 0..(MaxNest - 1)
<1>0. MaxNest \in Nat
  BY BoundsAssumption
<1>1. Local(x) /\ Part(x, i) \in P /\ Local(Part(x, i))
  BY DEF Holds
<1>2. Part(x, i).path = Append(x.path, i) /\ i \in Nat
  BY <1>1 DEF Part, Place, Local
<1>3. Len(Append(x.path, i)) = Len(x.path) + 1 /\ Len(x.path) \in Nat
  BY <1>1, <1>2, AppendProperties, LenProperties DEF Local
<1> QED
  BY <1>0, <1>1, <1>2, <1>3 DEF Local

(* Places is the least of them.                                            *)
LEMMA PlacesHold ==
    ASSUME NEW P, Holds(P), Whole \in P
    PROVE  Holds(Places) /\ Whole \in Places
<1>0. MaxNest \in Nat
  BY BoundsAssumption
<1>1. PICK D : Deepens(D, Whole) /\ Places = UNION {D[n] : n \in 0..MaxNest}
  BY PlacesIs
<1>2. \A n \in 0..MaxNest : D[n] = IF n = 0 THEN {Whole} ELSE PartsOf(D[n - 1])
  BY <1>1 DEF Deepens, Grows, More
<1> DEFINE Off == {n \in 0..MaxNest : \E x \in D[n] : ~(x \in P /\ Len(x.path) = n)}
<1>3. ASSUME NEW n \in Off, \A m \in Off : n <= m PROVE FALSE
  <2>1. PICK y \in D[n] : ~(y \in P /\ Len(y.path) = n)
    OBVIOUS
  <2>2. n # 0
    <3>1. Len(Whole.path) = 0
      BY DEF Whole, Place
    <3> QED
      BY <1>2, <2>1, <3>1
  <2>3. n - 1 \in 0..MaxNest /\ ~(n <= n - 1) /\ (n - 1) + 1 = n
    BY <1>0, <2>2
  <2>4. \A x \in D[n - 1] : x \in P /\ Len(x.path) = n - 1
    BY <1>3, <2>3
  <2>5. PICK x \in D[n - 1] : \E i \in 1..Len(x.of.kids) : y = Part(x, i)
    <3>1. y \in PartsOf(D[n - 1])
      BY <1>2, <2>1, <2>2
    <3> QED
      BY <3>1 DEF PartsOf
  <2>6. y \in P /\ Len(y.path) = n
    BY <2>3, <2>4, <2>5, PartPath
  <2> QED
    BY <2>1, <2>6
<1>4. \A n \in 0..MaxNest : \A x \in D[n] : x \in P /\ Len(x.path) = n
  <2>1. Off \in SUBSET Nat
    BY <1>0
  <2>2. Off = {}
    <3> HIDE DEF Off
    <3> QED
      BY <1>3, <2>1, LeastNatural
  <2> QED
    BY <2>2
<1>5. ASSUME NEW x \in Places PROVE Local(x) /\ \A i \in 1..Len(x.of.kids) : Part(x, i) \in Places
  <2>1. PICK n \in 0..MaxNest : x \in D[n]
    BY <1>1
  <2>2. x \in P /\ Len(x.path) = n /\ Local(x)
    BY <1>4, <2>1 DEF Holds
  <2>3. ASSUME NEW i \in 1..Len(x.of.kids) PROVE Part(x, i) \in Places
    <3>1. n + 1 \in 0..MaxNest /\ n + 1 # 0 /\ (n + 1) - 1 = n
      BY <1>0, <2>2, PartPath
    <3>2. Part(x, i) \in PartsOf(D[n])
      BY <2>1 DEF PartsOf
    <3> QED
      BY <1>1, <1>2, <3>1, <3>2
  <2> QED
    BY <2>2, <2>3
<1>6. Whole \in Places
  <2>1. 0 \in 0..MaxNest /\ Whole \in D[0]
    BY <1>0, <1>2
  <2> QED
    BY <1>1, <2>1
<1> QED
  BY <1>5, <1>6 DEF Holds

(* What the request breaks is read off it one way only.                    *)
LEMMA ReadsAlike ==
    ASSUME NEW P, NEW W, NEW Q, Reads(P, W, Q), Whole \in P,
           NEW P2, NEW W2, NEW Q2, Reads(P2, W2, Q2), Whole \in P2
    PROVE  W[Whole] = W2[Whole]
<1> DEFINE Height(x) == MaxNest - Len(x.path)
           Off == {m \in Nat : \E x \in P \cap P2 : m = Height(x) /\ W[x] # W2[x]}
<1>0. MaxNest \in Nat
  BY BoundsAssumption
<1>1. ASSUME NEW m \in Off, \A k \in Off : m <= k PROVE FALSE
  <2>1. PICK x \in P \cap P2 : m = Height(x) /\ W[x] # W2[x]
    OBVIOUS
  <2>2. Local(x) /\ Holds(P) /\ Holds(P2) /\ Tree(P, W, Q) /\ Tree(P2, W2, Q2)
    BY DEF Reads, Holds
  <2>3. ASSUME NEW i \in 1..Len(x.of.kids) PROVE W[Part(x, i)] = W2[Part(x, i)]
    <3>1. /\ Part(x, i) \in P /\ Part(x, i) \in P2
          /\ Len(Part(x, i).path) = Len(x.path) + 1
          /\ Len(x.path) \in 0..(MaxNest - 1)
      BY <2>2, PartPath
    <3>2. Height(Part(x, i)) = m - 1 /\ m - 1 \in Nat /\ ~(m <= m - 1)
      BY <1>0, <2>1, <3>1
    <3>3. m - 1 \notin Off
      BY <1>1, <3>2
    <3> QED
      BY <3>1, <3>2, <3>3
  <2>4. Len(x.of.kids) \in Nat
    BY <2>2 DEF Local
  <2>5. Follows(Q[x], Q2[x], Len(x.of.kids))
    <3>1. /\ Q[x][0] = <<>>
          /\ \A i \in 1..Len(x.of.kids) : Q[x][i] = Q[x][i - 1] \o (FailAt(Part(x, i)) \o W[Part(x, i)])
      BY <2>2 DEF Tree
    <3>2. /\ Q2[x][0] = <<>>
          /\ \A i \in 1..Len(x.of.kids) : Q2[x][i] = Q2[x][i - 1] \o (FailAt(Part(x, i)) \o W2[Part(x, i)])
      BY <2>2 DEF Tree
    <3> QED
      BY <2>3, <3>1, <3>2 DEF Follows
  <2>6. Q[x][Len(x.of.kids)] = Q2[x][Len(x.of.kids)]
    BY <2>4, <2>5, Alike
  <2> QED
    BY <2>1, <2>2, <2>6 DEF Tree
<1>2. Off = {}
  <2>1. Off \in SUBSET Nat
    OBVIOUS
  <2> HIDE DEF Off
  <2> QED
    BY <1>1, <2>1, LeastNatural
<1>3. Height(Whole) \in Nat
  BY <1>0 DEF Reads, Holds, Local, Whole, Place
<1> QED
  BY <1>2, <1>3

(* What is reported within x, given what is within each of its parts.      *)
Joined(x, w) == [i \in 1..Len(x.of.kids) |-> FailAt(Part(x, i)) \o w[Part(x, i)]]

LEMMA JoinedFlat ==
    ASSUME NEW P, Holds(P), NEW x \in P, NEW w,
           \A i \in 1..Len(x.of.kids) : w[Part(x, i)] \in Seq(Failure)
    PROVE  /\ FlattenSeq(Joined(x, w)) \in Seq(Failure)
           /\ \E q \in [0..Len(x.of.kids) -> Seq(Failure)] :
                 /\ q[0] = <<>>
                 /\ \A i \in 1..Len(x.of.kids) :
                       q[i] = q[i - 1] \o (FailAt(Part(x, i)) \o w[Part(x, i)])
                 /\ FlattenSeq(Joined(x, w)) = q[Len(x.of.kids)]
<1> DEFINE N == Len(x.of.kids)
           ss == Joined(x, w)
<1>1. N \in Nat
  BY DEF Holds, Local
<1>2. ASSUME NEW i \in 1..N PROVE FailAt(Part(x, i)) \o w[Part(x, i)] \in Seq(Failure)
  <2>1. FailAt(Part(x, i)) \in Seq(Failure)
    BY PartPath, FailIs DEF FailAt
  <2> QED
    BY <2>1, ConcatProperties
<1>3. /\ \A i \in 1..N : ss[i] = FailAt(Part(x, i)) \o w[Part(x, i)]
      /\ ss \in Seq(Seq(Failure)) /\ Len(ss) = N
  <2> HIDE DEF Failure
  <2> DEFINE g(i) == FailAt(Part(x, i)) \o w[Part(x, i)]
  <2>1. ss = [i \in 1..N |-> g(i)] /\ \A i \in 1..N : g(i) \in Seq(Failure)
    BY <1>2 DEF Joined
  <2> HIDE DEF g, ss, N
  <2>2. ss \in [1..N -> Seq(Failure)] /\ \A i \in 1..N : ss[i] = g(i)
    BY <2>1
  <2>3. ss \in Seq(Seq(Failure)) /\ Len(ss) = N
    BY <1>1, <2>2, SeqDef
  <2> QED
    BY <2>2, <2>3 DEF g
<1> HIDE DEF ss, Failure
<1>4. PICK q \in [0..Len(ss) -> Seq(Failure)] : Flattens(q, ss) /\ FlattenSeq(ss) = q[Len(ss)]
  BY <1>3, FlattenIs
<1>5. /\ q \in [0..N -> Seq(Failure)] /\ q[0] = <<>> /\ FlattenSeq(ss) = q[N]
      /\ \A i \in 1..N : q[i] = q[i - 1] \o (FailAt(Part(x, i)) \o w[Part(x, i)])
  BY <1>3, <1>4 DEF Flattens
<1>6. FlattenSeq(ss) \in Seq(Failure)
  BY <1>1, <1>5
<1> QED
  BY <1>5, <1>6 DEF ss, N

Within(f, P) ==
    f = [n \in 0..MaxNest |-> [x \in P |-> IF n = 0 THEN <<>> ELSE FlattenSeq(Joined(x, f[n - 1]))]]

LEMMA WithinExists == ASSUME NEW P, Holds(P) PROVE \E f : Within(f, P)
<1> DEFINE S == [P -> Seq(Failure)]
           step == [n \in 1..MaxNest |-> [w \in S |-> [x \in P |-> FlattenSeq(Joined(x, w))]]]
           none == [x \in P |-> <<>>]
<1>0. MaxNest \in Nat
  BY BoundsAssumption
<1> HIDE DEF Failure
<1>3. ASSUME NEW n \in 1..MaxNest, NEW w \in S
      PROVE  step[n][w] \in S /\ step[n][w] = [x \in P |-> FlattenSeq(Joined(x, w))]
  <2>1. ASSUME NEW x \in P PROVE FlattenSeq(Joined(x, w)) \in Seq(Failure)
    BY PartPath, JoinedFlat
  <2> QED
    BY <2>1
<1>4. none \in S
  OBVIOUS
<1> HIDE DEF step
<1>5. PICK h : Recurs(h, S, MaxNest, none, step)
  <2>1. StaysIn(S, MaxNest, step)
    BY <1>3 DEF StaysIn
  <2> HIDE DEF S, none
  <2> QED
    BY <1>0, <1>4, <2>1, Recursion
<1>6. Within(h, P)
  <2>1. h \in [0..MaxNest -> S] /\ h[0] = none /\ \A n \in 1..MaxNest : h[n] = step[n][h[n - 1]]
    BY <1>5 DEF Recurs
  <2>2. ASSUME NEW n \in 0..MaxNest
        PROVE  h[n] = [x \in P |-> IF n = 0 THEN <<>> ELSE FlattenSeq(Joined(x, h[n - 1]))]
    <3>1. CASE n # 0
      <4>1. n \in 1..MaxNest /\ n - 1 \in 0..MaxNest
        BY <1>0, <3>1
      <4>2. h[n - 1] \in S
        BY <2>1, <4>1
      <4>3. h[n] = [x \in P |-> FlattenSeq(Joined(x, h[n - 1]))]
        BY <1>3, <2>1, <4>1, <4>2
      <4> QED
        BY <3>1, <4>3
    <3> QED
      BY <2>1, <3>1
  <2>3. h = [n \in 0..MaxNest |-> h[n]]
    BY <2>1
  <2> HIDE DEF S, none
  <2> QED
    BY <2>2, <2>3 DEF Within
<1> QED
  BY <1>6

LEMMA WithinReads ==
    ASSUME NEW P, Holds(P), NEW within, Within(within, P)
    PROVE  \E W, Q : Reads(P, W, Q) /\ \A x \in P : Len(x.path) = 0 => W[x] = within[MaxNest][x]
<1> DEFINE S == [P -> Seq(Failure)]
           none == [x \in P |-> <<>>]
<1>0. MaxNest \in Nat
  BY BoundsAssumption
<1> HIDE DEF Failure
<1>3. ASSUME NEW n \in 1..MaxNest, NEW w \in S
      PROVE  [x \in P |-> FlattenSeq(Joined(x, w))] \in S
  <2>1. ASSUME NEW x \in P PROVE FlattenSeq(Joined(x, w)) \in Seq(Failure)
    BY PartPath, JoinedFlat
  <2> QED
    BY <2>1
<1>4. none \in S
  OBVIOUS
<1>8. ASSUME NEW n \in 0..MaxNest, NEW x \in P
      PROVE  within[n][x] = IF n = 0 THEN <<>> ELSE FlattenSeq(Joined(x, within[n - 1]))
  <2>1. within[n] = [y \in P |-> IF n = 0 THEN <<>> ELSE FlattenSeq(Joined(y, within[n - 1]))]
    BY DEF Within
  <2> QED
    BY <2>1
<1> DEFINE Height(x) == MaxNest - Len(x.path)
           W == [x \in P |-> within[Height(x)][x]]
<1>9. \A x \in P : W[x] = within[Height(x)][x]
  OBVIOUS
<1> HIDE DEF W
<1>10. ASSUME NEW x \in P PROVE W[x] = FlattenSeq(Joined(x, W))
  <2>1. Local(x)
    BY DEF Holds
  <2>2. Height(x) \in 0..MaxNest
    BY <1>0, <2>1, LenProperties DEF Local
  <2>3. CASE Height(x) = 0
    <3>1. Len(x.of.kids) = 0
      <4>1. \A i \in 1..Len(x.of.kids) : Len(x.path) \in 0..(MaxNest - 1)
        BY PartPath
      <4>2. 1 \notin 1..Len(x.of.kids)
        BY <1>0, <2>3, <4>1
      <4> QED
        BY <2>1, <4>2 DEF Local
    <3>2. Joined(x, W) = <<>>
      BY <3>1 DEF Joined
    <3>3. FlattenSeq(<<>>) = <<>>
      BY DEF FlattenSeq
    <3> QED
      BY <1>8, <1>9, <2>2, <2>3, <3>2, <3>3
  <2>4. CASE Height(x) # 0
    <3>1. ASSUME NEW i \in 1..Len(x.of.kids) PROVE within[Height(x) - 1][Part(x, i)] = W[Part(x, i)]
      <4>1. Part(x, i) \in P /\ Len(Part(x, i).path) = Len(x.path) + 1 /\ Len(x.path) \in Nat
        BY PartPath
      <4>2. Height(Part(x, i)) = Height(x) - 1
        BY <1>0, <4>1
      <4> QED
        BY <1>9, <4>1, <4>2
    <3>2. Joined(x, within[Height(x) - 1]) = Joined(x, W)
      BY <3>1 DEF Joined
    <3> QED
      BY <1>8, <1>9, <2>2, <2>4, <3>2
  <2> QED
    BY <2>3, <2>4
<1>11. \A x \in P : W[x] \in Seq(Failure)
  <2>1. ASSUME NEW n \in 0..MaxNest PROVE within[n] \in S
    <3> DEFINE Off == {k \in 0..MaxNest : within[k] \notin S}
    <3>1. ASSUME NEW k \in Off, \A l \in Off : k <= l PROVE FALSE
      <4>1. within[k] = [x \in P |-> IF k = 0 THEN <<>> ELSE FlattenSeq(Joined(x, within[k - 1]))]
        BY DEF Within
      <4>2. k # 0 => k \in 1..MaxNest /\ k - 1 \in 0..MaxNest /\ ~(k <= k - 1)
        BY <1>0
      <4>3. k # 0 => within[k - 1] \in S
        BY <3>1, <4>2
      <4>4. k # 0 => [x \in P |-> FlattenSeq(Joined(x, within[k - 1]))] \in S
        BY <1>3, <4>2, <4>3
      <4>5. k = 0 => within[k] = none
        BY <4>1
      <4>6. k # 0 => within[k] = [x \in P |-> FlattenSeq(Joined(x, within[k - 1]))]
        BY <4>1
      <4> HIDE DEF S, none
      <4> QED
        BY <1>4, <4>4, <4>5, <4>6
    <3>2. Off = {}
      <4>1. Off \in SUBSET Nat
        BY <1>0
      <4> HIDE DEF Off
      <4> QED
        BY <3>1, <4>1, LeastNatural
    <3> QED
      BY <3>2
  <2>2. ASSUME NEW x \in P PROVE W[x] \in Seq(Failure)
    <3>1. Height(x) \in 0..MaxNest
      BY <1>0, LenProperties DEF Holds, Local
    <3> QED
      BY <1>9, <2>1, <3>1
  <2> QED
    BY <2>2
<1> DEFINE Up(x, q) == /\ q \in [0..Len(x.of.kids) -> Seq(Failure)]
                       /\ q[0] = <<>>
                       /\ \A i \in 1..Len(x.of.kids) :
                             q[i] = q[i - 1] \o (FailAt(Part(x, i)) \o W[Part(x, i)])
                       /\ W[x] = q[Len(x.of.kids)]
           Q == [x \in P |-> CHOOSE q : Up(x, q)]
<1>12. ASSUME NEW x \in P PROVE Up(x, Q[x])
  <2>1. \E q : Up(x, q)
    <3>1. \A i \in 1..Len(x.of.kids) : W[Part(x, i)] \in Seq(Failure)
      BY <1>11, PartPath
    <3>2. \E q \in [0..Len(x.of.kids) -> Seq(Failure)] :
                 /\ q[0] = <<>>
                 /\ \A i \in 1..Len(x.of.kids) :
                       q[i] = q[i - 1] \o (FailAt(Part(x, i)) \o W[Part(x, i)])
                 /\ FlattenSeq(Joined(x, W)) = q[Len(x.of.kids)]
      BY <3>1, JoinedFlat
    <3> QED
      BY <1>10, <3>2
  <2>2. Q[x] = CHOOSE q : Up(x, q)
    OBVIOUS
  <2> HIDE DEF Up, Q
  <2> QED
    BY <2>1, <2>2
<1> HIDE DEF Q
<1>13. Tree(P, W, Q)
  BY <1>12 DEF Tree
<1>14. \A x \in P : Len(x.path) = 0 => W[x] = within[MaxNest][x]
  BY <1>0, <1>9
<1> QED
  BY <1>13, <1>14 DEF Reads

LEMMA BrokenReads ==
    ASSUME NEW P0, Holds(P0), Whole \in P0
    PROVE  \E W, Q : Reads(Places, W, Q) /\ W[Whole] = Broken
<1> DEFINE P == Places
           G(f) == f = [n \in 0..MaxNest |-> [x \in P |-> IF n = 0 THEN <<>> ELSE FlattenSeq(Joined(x, f[n - 1]))]]
           within == CHOOSE f : G(f)
<1>1. Holds(P) /\ Whole \in P
  BY PlacesHold
<1>2. Broken = within[MaxNest][Whole]
  BY DEF Broken, Joined, FailAt
<1> HIDE DEF P
<1>3. \A f : G(f) <=> Within(f, P)
  BY DEF Within
<1>4. G(within)
  <2>1. \E f : G(f)
    BY <1>1, <1>3, WithinExists
  <2> HIDE DEF G
  <2> QED
    BY <2>1
<1> HIDE DEF G, within
<1>5. PICK W, Q : Reads(P, W, Q) /\ \A x \in P : Len(x.path) = 0 => W[x] = within[MaxNest][x]
  BY <1>1, <1>3, <1>4, WithinReads
<1>6. Len(Whole.path) = 0
  BY DEF Whole, Place
<1> QED
  BY <1>1, <1>2, <1>5, <1>6 DEF P

-----------------------------------------------------------------------------
(* What the pruning drops                                                  *)

(* A place no rule can be reached from.                                    *)
Quiet(x) ==
    /\ x.dive = {}
    /\ kind[x.type] = "scalar" \/ (x.type \in Planned /\ x.type \notin live)

(* The place x is one of the node n.                                       *)
At(n, x) == n \in Planned /\ TypeOf(n) = x.type

LEMMA PartCovered ==
    ASSUME Typed, Covered, NEW P, Holds(P), NEW x \in P, NEW n, At(n, x), NEW i \in 1..Len(x.of.kids)
    PROVE  /\ kind[x.type] # "scalar" /\ ~Absent(x.of)
           /\ kind[x.type] = "struct" => x.type \in Structs /\ i \in 1..Len(fields[x.type])
           /\ Part(x, i).type \in Type
           /\ kind[Part(x, i).type] = "scalar" \/ Part(x, i).type \in Planned
<1>1. Local(x) /\ Local(Part(x, i))
  BY PartPath DEF Holds
<1>2. kind[x.type] # "scalar" /\ ~Absent(x.of)
  BY <1>1 DEF Local
<1>3. KindOf(n) = kind[x.type] /\ FieldsOf(n) = fields[x.type] /\ ElemOf(n) = elem[x.type]
  BY DEF At, KindOf, FieldsOf, ElemOf
<1>4. CASE kind[x.type] = "struct"
  <2>1. i \in 1..Len(fields[x.type]) /\ x.type \in Structs
    BY <1>1, <1>2, <1>4 DEF Local, Structs
  <2>2. DOMAIN fields[x.type] = 1..Len(fields[x.type]) /\ Len(fields[x.type]) \in Nat
    BY <2>1, LenProperties DEF Typed
  <2>3. ChildTypes(n) = [j \in 1..Len(fields[x.type]) |-> fields[x.type][j].type]
    BY <1>3, <1>4, <2>2 DEF ChildTypes
  <2>4. i \in 1..Len(ChildTypes(n)) /\ ChildTypes(n)[i] = fields[x.type][i].type
    BY <2>1, <2>2, <2>3
  <2>5. Part(x, i).type = fields[x.type][i].type
    BY <1>4 DEF Part, Place
  <2> QED
    BY <1>1, <1>2, <2>1, <2>4, <2>5 DEF At, Covered, Local
<1>5. CASE kind[x.type] # "struct"
  <2>1. ChildTypes(n) = <<elem[x.type].type>>
    BY <1>3, <1>5 DEF ChildTypes
  <2>2. Part(x, i).type = elem[x.type].type
    BY <1>5 DEF Part, Place
  <2>3. 1 \in 1..Len(ChildTypes(n)) /\ ChildTypes(n)[1] = Part(x, i).type
    BY <2>1, <2>2
  <2> QED
    BY <1>1, <1>2, <1>5, <2>3 DEF At, Covered, Local
<1> QED
  BY <1>4, <1>5

(* Nothing is asked of the parts of such a place.                          *)
LEMMA QuietParts ==
    ASSUME Typed, Compiled, NEW P, Holds(P), NEW x \in P, NEW n, At(n, x), n \notin live, x.dive = {},
           NEW i \in 1..Len(x.of.kids)
    PROVE  Part(x, i).rules = {} /\ Quiet(Part(x, i))
<1> DEFINE y == Part(x, i)
<1>1. /\ kind[x.type] # "scalar"
      /\ kind[x.type] = "struct" => x.type \in Structs /\ i \in 1..Len(fields[x.type])
      /\ kind[y.type] = "scalar" \/ y.type \in Planned
  BY PartCovered DEF Compiled
<1>2. ~ReachesRule(n, live)
  BY DEF Compiled, Closed, At
<1>3. KindOf(n) = kind[x.type] /\ FieldsOf(n) = fields[x.type] /\ ElemOf(n) = elem[x.type]
  BY DEF At, KindOf, FieldsOf, ElemOf
<1>4. CASE kind[x.type] = "struct"
  <2> DEFINE f == fields[x.type][i]
  <2>1. i \in DOMAIN fields[x.type]
    BY <1>1, <1>4, LenProperties DEF Typed
  <2>2. ~FieldLeads(f, live)
    BY <1>2, <1>3, <1>4, <2>1 DEF ReachesRule
  <2>3. y.type = f.type /\ y.rules = f.own \cup TypeRules(f.type) /\ y.dive = f.dive
    BY <1>4 DEF Part, Place
  <2>4. y.rules = {} /\ y.dive = {} /\ Sub(y.type) \notin live
    BY <2>2, <2>3 DEF FieldLeads
  <2>5. kind[y.type] # "scalar" => y.type \notin live
    BY <2>4 DEF Sub
  <2> HIDE DEF y
  <2>6. y.rules = {} /\ Quiet(y)
    BY <1>1, <2>4, <2>5 DEF Quiet
  <2> QED
    BY <2>6 DEF y
<1>5. CASE kind[x.type] # "struct"
  <2> DEFINE e == elem[x.type]
  <2>1. TypeRules(e.type) = {} /\ Sub(e.type) \notin live
    BY <1>2, <1>3, <1>5 DEF ReachesRule
  <2>2. y.type = e.type /\ y.rules = TypeRules(e.type) /\ y.dive = {}
    BY <1>5 DEF Part, Place
  <2>3. y.rules = {} /\ y.dive = {} /\ (kind[y.type] # "scalar" => y.type \notin live)
    BY <2>1, <2>2 DEF Sub
  <2> HIDE DEF y
  <2>4. y.rules = {} /\ Quiet(y)
    BY <1>1, <2>3 DEF Quiet
  <2> QED
    BY <2>4 DEF y
<1> QED
  BY <1>4, <1>5

(* Parts that report nothing add nothing.                                  *)
Still(W, x, lo, hi) == \A i \in (lo + 1)..hi : FailAt(Part(x, i)) = <<>> /\ W[Part(x, i)] = <<>>

LEMMA StillParts ==
    ASSUME NEW P, NEW W, NEW Q, Reads(P, W, Q), NEW x \in P,
           NEW lo \in 0..Len(x.of.kids), NEW hi \in lo..Len(x.of.kids), Still(W, x, lo, hi)
    PROVE  Q[x][hi] = Q[x][lo]
<1> DEFINE N == Len(x.of.kids)
           Off == {k \in lo..hi : Q[x][k] # Q[x][lo]}
<1>1. N \in Nat
  BY DEF Reads, Holds, Local
<1>2. /\ Q[x] \in [0..N -> Seq(Failure)]
      /\ \A i \in 1..N : Q[x][i] = Q[x][i - 1] \o (FailAt(Part(x, i)) \o W[Part(x, i)])
  BY DEF Reads, Tree
<1>3. ASSUME NEW k \in Off, \A m \in Off : k <= m PROVE FALSE
  <2>1. k # lo
    OBVIOUS
  <2>2. k \in (lo + 1)..hi /\ k \in 1..N /\ k - 1 \in lo..hi /\ k - 1 \in 0..N /\ ~(k <= k - 1)
    BY <1>1, <2>1
  <2>3. Q[x][k - 1] = Q[x][lo]
    BY <1>3, <2>2
  <2>4. Q[x][k] = Q[x][k - 1] \o (<<>> \o <<>>)
    BY <1>2, <2>2 DEF Still
  <2>5. Q[x][k - 1] \in Seq(Failure) /\ <<>> \o <<>> = <<>>
    BY <1>2, <2>2
  <2>6. Q[x][k] = Q[x][k - 1]
    BY <2>4, <2>5, ConcatEmptySeq
  <2> QED
    BY <2>3, <2>6
<1>4. Off = {}
  <2>1. Off \in SUBSET Nat
    BY <1>1
  <2> HIDE DEF Off
  <2> QED
    BY <1>3, <2>1, LeastNatural
<1> QED
  BY <1>1, <1>4

LEMMA AllStill ==
    ASSUME NEW P, NEW W, NEW Q, Reads(P, W, Q), NEW x \in P,
           \A i \in 1..Len(x.of.kids) : FailAt(Part(x, i)) = <<>> /\ W[Part(x, i)] = <<>>
    PROVE  W[x] = <<>>
<1>1. Len(x.of.kids) \in Nat
  BY DEF Reads, Holds, Local
<1>2. Q[x][Len(x.of.kids)] = Q[x][0]
  BY <1>1, StillParts DEF Still
<1> QED
  BY <1>2 DEF Reads, Tree

LEMMA QuietFail ==
    ASSUME NEW P, Holds(P), NEW x \in P, NEW i \in 1..Len(x.of.kids), Part(x, i).rules = {}
    PROVE  FailAt(Part(x, i)) = <<>>
  BY PartPath, FailNone DEF FailAt

LEMMA QuietSilent ==
    ASSUME Typed, Compiled, NEW P, NEW W, NEW Q, Reads(P, W, Q), NEW x0 \in P, Quiet(x0)
    PROVE  W[x0] = <<>>
<1> DEFINE Height(x) == MaxNest - Len(x.path)
           Off == {m \in Nat : \E x \in P : m = Height(x) /\ Quiet(x) /\ W[x] # <<>>}
<1>0. MaxNest \in Nat /\ Holds(P)
  BY BoundsAssumption DEF Reads
<1>1. ASSUME NEW m \in Off, \A k \in Off : m <= k PROVE FALSE
  <2>1. PICK x \in P : m = Height(x) /\ Quiet(x) /\ W[x] # <<>>
    OBVIOUS
  <2>2. Local(x)
    BY <1>0 DEF Holds
  <2>3. ASSUME NEW i \in 1..Len(x.of.kids) PROVE FailAt(Part(x, i)) = <<>> /\ W[Part(x, i)] = <<>>
    <3>1. At(x.type, x) /\ x.type \notin live /\ x.dive = {}
      <4>1. kind[x.type] # "scalar"
        BY <2>2 DEF Local
      <4>2. TypeOf(x.type) = x.type
        BY <2>2, TypesAssumption DEF Local, TypeOf
      <4> QED
        BY <2>1, <4>1, <4>2 DEF Quiet, At
    <3>2. Part(x, i).rules = {} /\ Quiet(Part(x, i))
      BY <1>0, <3>1, QuietParts
    <3>3. Part(x, i) \in P /\ Len(Part(x, i).path) = Len(x.path) + 1 /\ Len(x.path) \in 0..(MaxNest - 1)
      BY <1>0, PartPath
    <3>4. Height(Part(x, i)) = m - 1 /\ m - 1 \in Nat /\ ~(m <= m - 1)
      BY <1>0, <2>1, <3>3
    <3>5. m - 1 \notin Off
      BY <1>1, <3>4
    <3>6. W[Part(x, i)] = <<>>
      BY <3>2, <3>3, <3>4, <3>5
    <3> QED
      BY <1>0, <3>2, <3>6, QuietFail
  <2> QED
    BY <2>1, <2>3, AllStill
<1>2. Off = {}
  <2>1. Off \in SUBSET Nat
    OBVIOUS
  <2> HIDE DEF Off
  <2> QED
    BY <1>1, <2>1, LeastNatural
<1>3. Height(x0) \in Nat
  BY <1>0, LenProperties DEF Holds, Local
<1> QED
  BY <1>2, <1>3

(* A request whose node is not live breaks nothing.                        *)
LEMMA RequestSilent ==
    ASSUME Typed, Compiled, NEW P, NEW W, NEW Q, Reads(P, W, Q),
           NEW v, WholeOf(v) \in P, Request \notin live
    PROVE  W[WholeOf(v)] = <<>>
<1>0. PICK x \in P : x = WholeOf(v)
  OBVIOUS
<1>1. Holds(P)
  BY DEF Reads
<1>2. At(Request, x) /\ x.dive = {}
  BY <1>0 DEF Compiled, Covered, At, TypeOf, WholeOf, Place
<1>3. ASSUME NEW i \in 1..Len(x.of.kids) PROVE FailAt(Part(x, i)) = <<>> /\ W[Part(x, i)] = <<>>
  <2>1. Part(x, i).rules = {} /\ Quiet(Part(x, i))
    BY <1>1, <1>2, QuietParts
  <2>2. Part(x, i) \in P
    BY <1>1, PartPath
  <2> QED
    BY <1>1, <2>1, <2>2, QuietFail, QuietSilent
<1> QED
  BY <1>0, <1>1, <1>3, AllStill

(* Nor is anything reported within a field whose sub is dropped, or an     *)
(* element whose type's node is not live.                                  *)
LEMMA DroppedSilent ==
    ASSUME Typed, Compiled, NEW P, NEW W, NEW Q, Reads(P, W, Q), NEW x \in P, NEW n, At(n, x),
           NEW i \in 1..Len(x.of.kids),
           \/ Absent(Part(x, i).of)
           \/ Part(x, i).dive = {} /\ Sub(Part(x, i).type) \notin live
           \/ Sub(Part(x, i).type) = None
    PROVE  W[Part(x, i)] = <<>>
<1> DEFINE y == Part(x, i)
<1>1. Holds(P) /\ y \in P
  BY PartPath DEF Reads
<1>2. Local(y)
  BY <1>1 DEF Holds
<1>3. kind[y.type] = "scalar" \/ y.type \in Planned
  BY <1>1, PartCovered DEF Compiled
<1>4. CASE y.dive = {} /\ kind[y.type] # "scalar" /\ y.type \notin live
  BY <1>1, <1>3, <1>4, QuietSilent DEF Quiet
<1>5. CASE Absent(y.of) \/ kind[y.type] = "scalar"
  <2>1. Len(y.of.kids) = 0
    BY <1>2, <1>5 DEF Local
  <2>2. \A k \in 1..Len(y.of.kids) : FALSE
    BY <2>1
  <2>3. \A k \in 1..Len(y.of.kids) : FailAt(Part(y, k)) = <<>> /\ W[Part(y, k)] = <<>>
    BY <2>2
  <2> QED
    BY <1>1, <2>3, AllStill
<1>6. y.type \in Type /\ None \notin Type
  BY <1>2, TypesAssumption DEF Local
<1> QED
  BY <1>4, <1>5, <1>6 DEF Sub

-----------------------------------------------------------------------------
(* The walk                                                                *)

(* A path is read off a chain of segments from its end.                    *)
LEMMA PathIs ==
    ASSUME NEW ss, Len(ss) \in Nat, NEW ys, ys[0] = <<>>,
           \A i \in 1..Len(ss) : ss[i].parent = i - 1 /\ ys[i] = Append(ys[i - 1], ss[i].at),
           NEW s \in 0..Len(ss)
    PROVE  PathTo(s, ss) = ys[s]
<1> DEFINE m == Len(ss)
           G(f) == f = [i \in 0..m |-> IF i = 0 THEN <<>> ELSE Append(f[ss[i].parent], ss[i].at)]
           path == CHOOSE f : G(f)
           g == [i \in 0..m |-> ys[i]]
<1>1. PathTo(s, ss) = path[s]
  BY DEF PathTo, noParent
<1>2. G(g)
  <2>1. ASSUME NEW i \in 0..m PROVE g[i] = IF i = 0 THEN <<>> ELSE Append(g[ss[i].parent], ss[i].at)
    <3>1. CASE i # 0
      <4>1. i \in 1..m /\ i - 1 \in 0..m
        BY <3>1
      <4> QED
        BY <3>1, <4>1
    <3> QED
      BY <3>1
  <2>2. g = [i \in 0..m |-> g[i]]
    OBVIOUS
  <2> HIDE DEF g
  <2> QED
    BY <2>1, <2>2
<1>3. G(path)
  <2> HIDE DEF G, g
  <2> QED
    BY <1>2
<1> HIDE DEF path
<1>4. \A i \in 0..m : path[i] = IF i = 0 THEN <<>> ELSE Append(path[ss[i].parent], ss[i].at)
  BY <1>3
<1>5. Follows(path, ys, m)
  <2>1. path[0] = <<>>
    BY <1>4
  <2>2. ASSUME NEW i \in 1..m, path[i - 1] = ys[i - 1] PROVE path[i] = ys[i]
    <3>1. i \in 0..m /\ i # 0 /\ ss[i].parent = i - 1
      OBVIOUS
    <3>2. path[i] = Append(path[i - 1], ss[i].at)
      BY <1>4, <3>1
    <3> QED
      BY <2>2, <3>2
  <2> QED
    BY <2>1, <2>2 DEF Follows
<1> QED
  BY <1>1, <1>5, Alike

-----------------------------------------------------------------------------
(* The walk: each call under way is at a place, that of the first is the   *)
(* request and that of any other a part of the one before, where that call *)
(* stopped; the segments lead there, and what has been reported is what is *)
(* broken before it.                                                       *)
Checks(P) == [node : Node, of : {x.of : x \in P}, parent : Nat, dive : SUBSET {"required", "check"},
              next : Nat \ {0}]
Segs == [parent : Nat, at : Nat]

(* Call c is at place x, the j-th of the walk.                             *)
Checking(c, x, j) ==
    /\ At(c.node, x) /\ c.of = x.of /\ c.dive = x.dive /\ c.parent = j - 1
    /\ c.next - 1 \in 0..Len(x.of.kids)
    /\ ~Absent(x.of)

(* The call at x has gone down into its part y.                            *)
WentInto(Q, c, x, y, r, s, j) ==
    /\ c.next - 1 \in 1..Len(x.of.kids)
    /\ y = Part(x, c.next - 1)
    /\ s = Seg(j - 1, c.next - 1)
    /\ r[j + 1] = r[j] \o (Q[x][c.next - 2] \o FailAt(y))

WalkIs(P, Q, X, R, wk, sg, er) ==
    /\ wk \in Seq(Checks(P)) /\ Len(wk) # 0
    /\ sg \in Seq(Segs) /\ Len(sg) = Len(wk) - 1
    /\ X[1] = Whole /\ R[1] = <<>>
    /\ \A j \in 1..Len(wk) : X[j] \in P /\ R[j] \in Seq(Failure) /\ Checking(wk[j], X[j], j)
    /\ \A j \in 1..(Len(wk) - 1) : WentInto(Q, wk[j], X[j], X[j + 1], R, sg[j], j)
    /\ er = R[Len(wk)] \o Q[X[Len(wk)]][wk[Len(wk)].next - 1]

(* A path is that of the place the call is at.                             *)
LEMMA WalkPath ==
    ASSUME NEW P, Holds(P), NEW Q, NEW X, NEW R, NEW wk, NEW sg, NEW er, WalkIs(P, Q, X, R, wk, sg, er),
           NEW at \in Nat
    PROVE  LET x == X[Len(wk)]
               longer == Append(sg, Seg(Len(sg), at))
           IN  /\ PathTo(Len(sg), sg) = x.path
               /\ PathTo(Len(longer), longer) = Append(x.path, at)
<1> DEFINE k == Len(wk)
           ys == [j \in 0..(k - 1) |-> X[j + 1].path]
           longer == Append(sg, Seg(Len(sg), at))
           zs == [j \in 0..k |-> IF j = k THEN Append(X[k].path, at) ELSE X[j + 1].path]
<1>1. k \in Nat /\ k # 0 /\ Len(sg) = k - 1 /\ sg \in Seq(Segs)
  BY LenProperties DEF WalkIs
<1>2. X[1].path = <<>>
  <2>1. X[1] = Whole
    BY DEF WalkIs
  <2> QED
    BY <2>1 DEF Whole, Place
<1>3. ASSUME NEW j \in 1..(k - 1)
      PROVE  sg[j].parent = j - 1 /\ X[j + 1].path = Append(X[j].path, sg[j].at)
  <2>1. WentInto(Q, wk[j], X[j], X[j + 1], R, sg[j], j)
    BY DEF WalkIs
  <2>2. sg[j] = Seg(j - 1, wk[j].next - 1) /\ X[j + 1] = Part(X[j], wk[j].next - 1)
    BY <2>1 DEF WentInto
  <2>3. \A x, i : Part(x, i).path = Append(x.path, i)
    BY DEF Part, Place
  <2>4. sg[j].parent = j - 1 /\ sg[j].at = wk[j].next - 1
    BY <2>2 DEF Seg
  <2> QED
    BY <2>2, <2>3, <2>4
<1>4. PathTo(Len(sg), sg) = ys[Len(sg)]
  <2>1. ys[0] = <<>>
    BY <1>1, <1>2
  <2>2. ASSUME NEW i \in 1..Len(sg) PROVE sg[i].parent = i - 1 /\ ys[i] = Append(ys[i - 1], sg[i].at)
    <3>1. i \in 1..(k - 1) /\ i \in 0..(k - 1) /\ i - 1 \in 0..(k - 1) /\ (i - 1) + 1 = i
      BY <1>1
    <3>2. ys[i] = X[i + 1].path /\ ys[i - 1] = X[i].path
      BY <3>1
    <3> QED
      BY <1>3, <3>1, <3>2
  <2>3. Len(sg) \in Nat /\ Len(sg) \in 0..Len(sg)
    BY <1>1
  <2> HIDE DEF ys
  <2> QED
    BY <2>1, <2>2, <2>3, PathIs
<1>5. ys[Len(sg)] = X[k].path
  BY <1>1
<1>6. Seg(Len(sg), at) \in Segs
  BY <1>1 DEF Seg, Segs
<1>7. /\ Len(longer) = k
      /\ \A j \in 1..(k - 1) : longer[j] = sg[j]
      /\ longer[k] = Seg(k - 1, at)
  BY <1>1, <1>6, AppendProperties
<1> HIDE DEF longer
<1>8. PathTo(Len(longer), longer) = zs[Len(longer)]
  <2>1. zs[0] = <<>>
    BY <1>1, <1>2
  <2>2. ASSUME NEW i \in 1..Len(longer)
        PROVE  longer[i].parent = i - 1 /\ zs[i] = Append(zs[i - 1], longer[i].at)
    <3>1. i \in 0..k /\ i - 1 \in 0..k /\ i - 1 # k /\ (i - 1) + 1 = i
      BY <1>1, <1>7
    <3>2. zs[i - 1] = X[i].path
      BY <3>1
    <3>3. CASE i = k
      <4>1. zs[i] = Append(X[k].path, at)
        BY <3>1, <3>3
      <4>2. longer[i] = Seg(i - 1, at)
        BY <1>7, <3>3
      <4>3. longer[i].parent = i - 1 /\ longer[i].at = at
        BY <4>2 DEF Seg
      <4>4. zs[i - 1] = X[k].path
        BY <3>2, <3>3
      <4> HIDE DEF zs
      <4> QED
        BY <4>1, <4>3, <4>4
    <3>4. CASE i # k
      <4>1. i \in 1..(k - 1) /\ zs[i] = X[i + 1].path
        BY <1>1, <1>7, <3>1, <3>4
      <4> HIDE DEF zs
      <4> QED
        BY <1>3, <1>7, <3>2, <4>1
    <3> QED
      BY <3>3, <3>4
  <2>3. Len(longer) \in Nat /\ Len(longer) \in 0..Len(longer)
    BY <1>1, <1>7
  <2> HIDE DEF zs
  <2> QED
    BY <2>1, <2>2, <2>3, PathIs
<1>9. zs[Len(longer)] = Append(X[k].path, at)
  BY <1>1, <1>7
<1> QED
  BY <1>4, <1>5, <1>8, <1>9 DEF longer

Moved(wk, i) == [wk EXCEPT ![Len(wk)].next = i + 1]

LEMMA MovedIs ==
    ASSUME NEW P, NEW wk \in Seq(Checks(P)), Len(wk) # 0, NEW i \in Nat
    PROVE  LET k == Len(wk)
               c == Moved(wk, i)[k]
           IN  /\ k \in Nat /\ wk[k] \in Checks(P)
               /\ Moved(wk, i) \in Seq(Checks(P)) /\ Len(Moved(wk, i)) = k
               /\ \A j \in 1..(k - 1) : Moved(wk, i)[j] = wk[j]
               /\ c.node = wk[k].node /\ c.of = wk[k].of /\ c.parent = wk[k].parent /\ c.dive = wk[k].dive
               /\ c.next = i + 1
<1> DEFINE k == Len(wk)
           moved == [wk[k] EXCEPT !.next = i + 1]
<1>1. k \in Nat /\ k \in 1..k /\ DOMAIN wk = 1..k
  BY LenProperties
<1>2. wk[k] \in Checks(P)
  BY <1>1, ElementOfSeq
<1>3. /\ moved \in Checks(P) /\ moved.next = i + 1
      /\ moved.node = wk[k].node /\ moved.of = wk[k].of /\ moved.parent = wk[k].parent
      /\ moved.dive = wk[k].dive
  <2>1. PICK c \in Checks(P) : c = wk[k]
    BY <1>2
  <2>2. PICK to \in Nat \ {0} : to = i + 1
    OBVIOUS
  <2>3. PICK m : m = [c EXCEPT !.next = to]
    OBVIOUS
  <2>4. m \in Checks(P)
    BY <2>3 DEF Checks
  <2>5. m.next = to /\ m.node = c.node /\ m.of = c.of /\ m.parent = c.parent /\ m.dive = c.dive
    BY <2>3 DEF Checks
  <2>6. m = moved
    BY <2>1, <2>2, <2>3
  <2> HIDE DEF moved
  <2> QED
    BY <2>1, <2>2, <2>4, <2>5, <2>6
<1>4. Moved(wk, i) = [wk EXCEPT ![k] = moved]
  BY DEF Moved
<1> HIDE DEF moved
<1>5. Moved(wk, i) \in Seq(Checks(P)) /\ Len(Moved(wk, i)) = k
  BY <1>1, <1>3, <1>4, ExceptSeq
<1>6. \A j \in 1..k : Moved(wk, i)[j] = IF j = k THEN moved ELSE wk[j]
  BY <1>1, <1>4
<1>7. Moved(wk, i)[k] = moved
  BY <1>1, <1>6
<1>8. ASSUME NEW j \in 1..(k - 1) PROVE Moved(wk, i)[j] = wk[j]
  <2>0. k \in Nat
    BY <1>1
  <2>1. j \in 1..k /\ j # k
    BY <2>0
  <2> QED
    BY <1>6, <2>1
<1> HIDE DEF k, Checks
<1>9. LET c == Moved(wk, i)[k]
      IN  /\ c.node = wk[k].node /\ c.of = wk[k].of /\ c.parent = wk[k].parent /\ c.dive = wk[k].dive
          /\ c.next = i + 1
  BY <1>3, <1>7
<1> QED
  BY <1>1, <1>2, <1>5, <1>8, <1>9 DEF k

(* What is broken up to a part, when those before it report nothing.       *)
LEMMA UpToPart ==
    ASSUME NEW P, NEW W, NEW Q, Reads(P, W, Q), NEW x \in P,
           NEW q \in 0..Len(x.of.kids), NEW i \in (q + 1)..Len(x.of.kids),
           Still(W, x, q, i - 1)
    PROVE  /\ i \in 1..Len(x.of.kids) /\ i - 1 \in 0..Len(x.of.kids) /\ Part(x, i) \in P
           /\ Q[x][q] \in Seq(Failure) /\ FailAt(Part(x, i)) \in Seq(Failure)
           /\ Q[x][i - 1] = Q[x][q]
           /\ Q[x][i] = Q[x][q] \o (FailAt(Part(x, i)) \o W[Part(x, i)])
           /\ W[Part(x, i)] \in Seq(Failure)
<1>1. Holds(P) /\ Len(x.of.kids) \in Nat
  BY DEF Reads, Holds, Local
<1>2. i \in 1..Len(x.of.kids) /\ i - 1 \in q..Len(x.of.kids) /\ i - 1 \in 0..Len(x.of.kids)
  BY <1>1
<1>3. Part(x, i) \in P /\ FailAt(Part(x, i)) \in Seq(Failure)
  BY <1>1, <1>2, PartPath, FailIs DEF FailAt
<1>4. Q[x][i - 1] = Q[x][q]
  BY <1>2, StillParts
<1>5. /\ Q[x] \in [0..Len(x.of.kids) -> Seq(Failure)]
      /\ Q[x][i] = Q[x][i - 1] \o (FailAt(Part(x, i)) \o W[Part(x, i)])
  BY <1>2 DEF Reads, Tree
<1>6. W[Part(x, i)] \in Seq(Failure)
  <2> DEFINE y == Part(x, i)
  <2>1. Len(y.of.kids) \in Nat
    BY <1>1, <1>3 DEF Holds, Local
  <2>2. Q[y] \in [0..Len(y.of.kids) -> Seq(Failure)] /\ W[y] = Q[y][Len(y.of.kids)]
    BY <1>3 DEF Reads, Tree
  <2> QED
    BY <2>1, <2>2
<1> QED
  BY <1>2, <1>3, <1>4, <1>5, <1>6

Associates(a, b, c) ==
    /\ (a \o b) \o c = a \o (b \o c)
    /\ a \o b \in Seq(Failure)
    /\ a \o <<>> = a /\ <<>> \o a = a

LEMMA Joins ==
    ASSUME NEW a \in Seq(Failure), NEW b \in Seq(Failure), NEW c \in Seq(Failure)
    PROVE  Associates(a, b, c)
<1> HIDE DEF Failure
<1> QED
  BY ConcatAssociative, ConcatProperties, ConcatEmptySeq DEF Associates

Regroups(r, u, f, w) ==
    /\ (r \o u) \o f = r \o (u \o f) /\ r \o (u \o f) \in Seq(Failure)
    /\ (r \o (u \o f)) \o w = r \o (u \o (f \o w))
    /\ f \o <<>> = f

LEMMA Regroup ==
    ASSUME NEW r \in Seq(Failure), NEW u \in Seq(Failure), NEW f \in Seq(Failure), NEW w \in Seq(Failure)
    PROVE  Regroups(r, u, f, w)
<1>1. PICK s : s = u \o f
  OBVIOUS
<1>2. Associates(u, f, w) /\ Associates(r, u, f) /\ Associates(f, f, f)
  BY Joins
<1>3. s \in Seq(Failure)
  BY <1>1, <1>2 DEF Associates
<1>4. Associates(r, s, w)
  BY <1>3, Joins
<1>5. (r \o s) \o w = r \o (s \o w) /\ r \o s \in Seq(Failure) /\ s \o w = u \o (f \o w)
  BY <1>1, <1>2, <1>4 DEF Associates
<1>6. (r \o u) \o f = r \o s /\ f \o <<>> = f
  BY <1>1, <1>2 DEF Associates
<1> QED
  BY <1>1, <1>5, <1>6 DEF Regroups

(* What has been broken up to a part, and that part's own.                 *)
GoesOn(P, W, Q, x, q, i, r, f) ==
    /\ i \in 1..Len(x.of.kids) /\ i - 1 \in 0..Len(x.of.kids) /\ i \in Nat /\ Part(x, i) \in P
    /\ (r \o Q[x][q]) \o f = r \o (Q[x][i - 1] \o f)
    /\ r \o (Q[x][i - 1] \o f) \in Seq(Failure)
    /\ (r \o (Q[x][i - 1] \o f)) \o W[Part(x, i)] = r \o Q[x][i]
    /\ W[Part(x, i)] = <<>> => (r \o Q[x][q]) \o f = r \o Q[x][i]

LEMMA UpPast ==
    ASSUME NEW P, NEW W, NEW Q, Reads(P, W, Q), NEW x \in P,
           NEW q \in 0..Len(x.of.kids), NEW i \in (q + 1)..Len(x.of.kids),
           Still(W, x, q, i - 1),
           NEW r \in Seq(Failure), NEW f, f = FailAt(Part(x, i))
    PROVE  GoesOn(P, W, Q, x, q, i, r, f)
<1>1. /\ i \in 1..Len(x.of.kids) /\ i - 1 \in 0..Len(x.of.kids) /\ Part(x, i) \in P
      /\ Q[x][q] \in Seq(Failure) /\ FailAt(Part(x, i)) \in Seq(Failure)
      /\ Q[x][i - 1] = Q[x][q]
      /\ Q[x][i] = Q[x][q] \o (FailAt(Part(x, i)) \o W[Part(x, i)])
      /\ W[Part(x, i)] \in Seq(Failure)
  BY UpToPart
<1>2. PICK u, w : u = Q[x][q] /\ w = W[Part(x, i)]
  OBVIOUS
<1>3. u \in Seq(Failure) /\ w \in Seq(Failure) /\ f \in Seq(Failure)
  BY <1>1, <1>2
<1>4. Q[x][i - 1] = u /\ Q[x][i] = u \o (f \o w)
  BY <1>1, <1>2
<1>5. /\ (r \o u) \o f = r \o (u \o f) /\ r \o (u \o f) \in Seq(Failure)
      /\ (r \o (u \o f)) \o w = r \o (u \o (f \o w))
      /\ f \o <<>> = f
  <2>1. Regroups(r, u, f, w)
    BY <1>3, Regroup
  <2> QED
    BY <2>1 DEF Regroups
<1>6. Len(x.of.kids) \in Nat
  BY DEF Reads, Holds, Local
<1>7. i \in Nat
  BY <1>6
<1>8. (r \o Q[x][q]) \o f = r \o (Q[x][i - 1] \o f)
  BY <1>2, <1>4, <1>5
<1>9. r \o (Q[x][i - 1] \o f) \in Seq(Failure)
  BY <1>4, <1>5
<1>10. (r \o (Q[x][i - 1] \o f)) \o W[Part(x, i)] = r \o Q[x][i]
  BY <1>2, <1>4, <1>5
<1>11. W[Part(x, i)] = <<>> => (r \o Q[x][q]) \o f = r \o Q[x][i]
  BY <1>2, <1>4, <1>5
<1> QED
  BY <1>1, <1>7, <1>8, <1>9, <1>10, <1>11 DEF GoesOn

(* The call on top is at place x, and has passed q of its parts.           *)
Top(X, wk, x, q) == X[Len(wk)] = x /\ wk[Len(wk)].next = q + 1

(* The call on top moves past part i, and does not go down into it.        *)
LEMMA Passes ==
    ASSUME NEW P, NEW W, NEW Q, Reads(P, W, Q), NEW X, NEW R, NEW wk, NEW sg, NEW er,
           WalkIs(P, Q, X, R, wk, sg, er),
           NEW x \in P, NEW q \in 0..Len(x.of.kids), Top(X, wk, x, q),
           NEW i \in (q + 1)..Len(x.of.kids),
           Still(W, x, q, i - 1),
           W[Part(x, i)] = <<>>
    PROVE  WalkIs(P, Q, X, R, Moved(wk, i), sg, er \o FailAt(Part(x, i)))
<1> DEFINE k == Len(wk)
           past == Moved(wk, i)
<1>0. PICK f : f = FailAt(Part(x, i))
  OBVIOUS
<1>1. /\ wk \in Seq(Checks(P)) /\ k # 0 /\ k \in Nat
      /\ sg \in Seq(Segs) /\ Len(sg) = k - 1 /\ X[1] = Whole /\ R[1] = <<>>
  BY LenProperties DEF WalkIs
<1>2. k \in 1..k /\ x \in P /\ R[k] \in Seq(Failure) /\ Checking(wk[k], x, k) /\ er = R[k] \o Q[x][q]
  <2>1. k \in 1..k
    BY <1>1
  <2> QED
    BY <2>1 DEF WalkIs, Top
<1>3. PICK r : r = R[k]
  OBVIOUS
<1>4. i \in 1..Len(x.of.kids) /\ i \in Nat /\ er \o f = r \o Q[x][i]
  <2>1. x \in P /\ r \in Seq(Failure) /\ er = r \o Q[x][q]
    BY <1>2, <1>3
  <2>2. i \in 1..Len(x.of.kids) /\ i \in Nat /\ (r \o Q[x][q]) \o f = r \o Q[x][i]
    <3>1. GoesOn(P, W, Q, x, q, i, r, f)
      BY <1>0, <2>1, UpPast
    <3> QED
      BY <3>1 DEF GoesOn
  <2> QED
    BY <2>1, <2>2
<1>5. /\ past \in Seq(Checks(P)) /\ Len(past) = k
      /\ \A j \in 1..(k - 1) : past[j] = wk[j]
      /\ past[k].node = wk[k].node /\ past[k].of = wk[k].of /\ past[k].parent = wk[k].parent
      /\ past[k].dive = wk[k].dive /\ past[k].next = i + 1
  BY <1>1, <1>4, MovedIs
<1> HIDE DEF past
<1>6. past[k].next - 1 = i /\ i \in 0..Len(x.of.kids)
  BY <1>4, <1>5
<1>7. Checking(past[k], x, k) /\ X[k] = x
  BY <1>2, <1>5, <1>6 DEF Checking, Top
<1>8. ASSUME NEW j \in 1..k PROVE X[j] \in P /\ R[j] \in Seq(Failure) /\ Checking(past[j], X[j], j)
  <2>1. CASE j = k
    BY <1>2, <1>7, <2>1
  <2>2. CASE j # k
    <3>1. j \in 1..(k - 1)
      <4>1. k \in Nat
        BY <1>1
      <4> QED
        BY <2>2, <4>1
    <3>2. past[j] = wk[j]
      BY <1>5, <3>1
    <3> QED
      BY <3>2 DEF WalkIs
  <2> QED
    BY <2>1, <2>2
<1>9. ASSUME NEW j \in 1..(k - 1) PROVE WentInto(Q, past[j], X[j], X[j + 1], R, sg[j], j)
  BY <1>5 DEF WalkIs
<1>10. er \o f = R[k] \o Q[X[k]][past[k].next - 1]
  BY <1>3, <1>4, <1>6 DEF Top
<1>11. WalkIs(P, Q, X, R, past, sg, er \o f)
  BY <1>1, <1>5, <1>8, <1>9, <1>10 DEF WalkIs
<1> QED
  BY <1>0, <1>11 DEF past

Walks(P, Q, wk, sg, er) == \E X, R : WalkIs(P, Q, X, R, wk, sg, er)

(* The call on top goes down into part i.                                  *)
LEMMA Descends ==
    ASSUME NEW P, NEW W, NEW Q, Reads(P, W, Q), NEW X, NEW R, NEW wk, NEW sg, NEW er,
           WalkIs(P, Q, X, R, wk, sg, er),
           NEW x \in P, NEW q \in 0..Len(x.of.kids), Top(X, wk, x, q),
           NEW i \in (q + 1)..Len(x.of.kids),
           Still(W, x, q, i - 1),
           NEW n \in Node, At(n, Part(x, i)), ~Absent(Part(x, i).of)
    PROVE  Walks(P, Q, Append(Moved(wk, i), Check(n, Part(x, i).of, Len(wk), Part(x, i).dive)),
                 Append(sg, Seg(Len(wk) - 1, i)), er \o FailAt(Part(x, i)))
<1> DEFINE k == Len(wk)
           past == Moved(wk, i)
<1>0. PICK f, y : f = FailAt(y) /\ y = Part(x, i)
  OBVIOUS
<1> DEFINE c == Check(n, y.of, k, y.dive)
           s == Seg(k - 1, i)
           down == Append(past, c)
           longer == Append(sg, s)
           X2 == [j \in 1..(k + 1) |-> IF j = k + 1 THEN y ELSE X[j]]
<1>1. /\ wk \in Seq(Checks(P)) /\ k # 0 /\ k \in Nat
      /\ sg \in Seq(Segs) /\ Len(sg) = k - 1 /\ X[1] = Whole /\ R[1] = <<>>
  BY LenProperties DEF WalkIs
<1>2. k \in 1..k /\ x \in P /\ R[k] \in Seq(Failure) /\ Checking(wk[k], x, k) /\ er = R[k] \o Q[x][q]
  <2>1. k \in 1..k
    BY <1>1
  <2> QED
    BY <2>1 DEF WalkIs, Top
<1>3. PICK r : r = R[k]
  OBVIOUS
<1>4. PICK t : t = r \o (Q[x][i - 1] \o f)
  OBVIOUS
<1> DEFINE R2 == [j \in 1..(k + 1) |-> IF j = k + 1 THEN t ELSE R[j]]
<1>5. /\ i \in 1..Len(x.of.kids) /\ i \in Nat /\ y \in P /\ er \o f = t /\ t \in Seq(Failure)
      /\ i \in 0..Len(x.of.kids)
  <2>1. x \in P /\ r \in Seq(Failure) /\ er = r \o Q[x][q] /\ f = FailAt(Part(x, i))
    BY <1>0, <1>2, <1>3
  <2>2. GoesOn(P, W, Q, x, q, i, r, f)
    BY <2>1, UpPast
  <2>3. /\ i \in 1..Len(x.of.kids) /\ i \in Nat /\ Part(x, i) \in P
        /\ (r \o Q[x][q]) \o f = r \o (Q[x][i - 1] \o f) /\ r \o (Q[x][i - 1] \o f) \in Seq(Failure)
    BY <2>2 DEF GoesOn
  <2>4. er \o f = t /\ t \in Seq(Failure)
    BY <1>4, <2>1, <2>3
  <2>5. i \in 0..Len(x.of.kids)
    BY <2>3
  <2> QED
    BY <1>0, <2>3, <2>4, <2>5
<1>6. /\ past \in Seq(Checks(P)) /\ Len(past) = k
      /\ \A j \in 1..(k - 1) : past[j] = wk[j]
      /\ past[k].node = wk[k].node /\ past[k].of = wk[k].of /\ past[k].parent = wk[k].parent
      /\ past[k].dive = wk[k].dive /\ past[k].next = i + 1
  BY <1>1, <1>5, MovedIs
<1> HIDE DEF past
<1>7. Local(y) /\ Q[y][0] = <<>>
  BY <1>5 DEF Reads, Holds, Tree
<1>8. c \in Checks(P) /\ s \in Segs
  <2>1. y.of \in {z.of : z \in P} /\ y.dive \in SUBSET {"required", "check"} /\ k \in Nat
    BY <1>1, <1>5, <1>7 DEF Local
  <2>2. c \in Checks(P)
    BY <2>1 DEF Check, Checks
  <2>3. k - 1 \in Nat
    BY <1>1
  <2>4. s \in Segs
    BY <1>5, <2>3 DEF Seg, Segs
  <2> QED
    BY <2>2, <2>4
<1>9. Checking(c, y, k + 1) /\ c.next - 1 = 0
  <2>1. c.node = n /\ c.of = y.of /\ c.dive = y.dive /\ c.parent = k /\ c.next = 1
    BY DEF Check
  <2>2. c.next - 1 \in 0..Len(y.of.kids) /\ k = (k + 1) - 1
    BY <1>1, <1>7, <2>1 DEF Local
  <2> HIDE DEF c
  <2> QED
    BY <1>0, <2>1, <2>2 DEF Checking
<1> HIDE DEF c, s, Failure, Checks
<1>10. /\ down \in Seq(Checks(P)) /\ Len(down) = k + 1
       /\ \A j \in 1..k : down[j] = past[j]
       /\ down[k + 1] = c
  BY <1>6, <1>8, AppendProperties
<1>11. /\ longer \in Seq(Segs) /\ Len(longer) = k
       /\ \A j \in 1..(k - 1) : longer[j] = sg[j]
       /\ longer[k] = s
  BY <1>1, <1>8, AppendProperties
<1> HIDE DEF down, longer
<1>12. /\ \A j \in 1..k : X2[j] = X[j] /\ R2[j] = R[j]
       /\ X2[k + 1] = y /\ R2[k + 1] = t
  BY <1>1
<1> HIDE DEF X2, R2
<1>13. past[k].next - 1 = i /\ X[k] = x
  BY <1>5, <1>6 DEF Top
<1>14. Checking(past[k], x, k)
  BY <1>2, <1>5, <1>6, <1>13 DEF Checking
<1>15. ASSUME NEW j \in 1..(k + 1) PROVE X2[j] \in P /\ R2[j] \in Seq(Failure) /\ Checking(down[j], X2[j], j)
  <2>1. CASE j = k + 1
    BY <1>5, <1>9, <1>10, <1>12, <2>1
  <2>2. CASE j = k
    <3>1. j \in 1..k
      BY <1>2, <2>2
    <3>2. X2[j] = x /\ R2[j] = R[k] /\ down[j] = past[k]
      BY <1>10, <1>12, <1>13, <2>2, <3>1
    <3> QED
      BY <1>2, <1>14, <2>2, <3>2
  <2>3. CASE j # k + 1 /\ j # k
    <3>1. j \in 1..k /\ j \in 1..(k - 1)
      BY <1>1, <2>3
    <3>2. X2[j] = X[j] /\ R2[j] = R[j] /\ down[j] = wk[j]
      BY <1>6, <1>10, <1>12, <3>1
    <3> QED
      BY <3>1, <3>2 DEF WalkIs
  <2> QED
    BY <2>1, <2>2, <2>3
<1>16. ASSUME NEW j \in 1..k PROVE WentInto(Q, down[j], X2[j], X2[j + 1], R2, longer[j], j)
  <2>1. CASE j = k
    <3>1. down[j] = past[k] /\ X2[j] = x /\ X2[j + 1] = y /\ longer[j] = s /\ R2[j] = r /\ R2[j + 1] = t
      BY <1>3, <1>10, <1>11, <1>12, <1>13, <2>1
    <3>2. past[k].next - 2 = i - 1
      BY <1>5, <1>6
    <3> QED
      BY <1>0, <1>4, <1>5, <1>13, <2>1, <3>1, <3>2 DEF WentInto, s
  <2>2. CASE j # k
    <3>1. j \in 1..(k - 1) /\ j + 1 \in 1..k
      BY <1>1, <2>2
    <3>2. /\ X2[j] = X[j] /\ X2[j + 1] = X[j + 1] /\ R2[j] = R[j] /\ R2[j + 1] = R[j + 1]
          /\ down[j] = wk[j] /\ longer[j] = sg[j]
      BY <1>6, <1>10, <1>11, <1>12, <3>1
    <3>3. WentInto(Q, wk[j], X[j], X[j + 1], R, sg[j], j)
      BY <3>1 DEF WalkIs
    <3> QED
      BY <3>2, <3>3 DEF WentInto
  <2> QED
    BY <2>1, <2>2
<1>17. er \o f = R2[k + 1] \o Q[X2[k + 1]][down[k + 1].next - 1]
  <2>1. t \o <<>> = t
    <3>1. Associates(t, t, t)
      BY <1>5, Joins
    <3> QED
      BY <3>1 DEF Associates
  <2> QED
    BY <1>5, <1>7, <1>9, <1>10, <1>12, <2>1
<1>18. X2[1] = Whole /\ R2[1] = <<>>
  <2>1. 1 \in 1..k
    BY <1>1
  <2> QED
    BY <1>1, <1>12, <2>1
<1>19. Len(down) = k + 1 /\ k + 1 # 0 /\ Len(longer) = Len(down) - 1 /\ Len(down) - 1 = k
  BY <1>1, <1>10, <1>11
<1>20. WalkIs(P, Q, X2, R2, down, longer, er \o f)
  BY <1>10, <1>11, <1>15, <1>16, <1>17, <1>18, <1>19 DEF WalkIs
<1>21. Walks(P, Q, down, longer, er \o f)
  BY <1>20 DEF Walks
<1> QED
  BY <1>0, <1>21 DEF down, longer, past, c, s

(* The call on top has nothing left to report.                             *)
LEMMA AtEnd ==
    ASSUME NEW P, NEW W, NEW Q, Reads(P, W, Q), NEW X, NEW R, NEW wk, NEW sg, NEW er,
           WalkIs(P, Q, X, R, wk, sg, er),
           NEW x \in P, NEW q \in 0..Len(x.of.kids), Top(X, wk, x, q),
           Still(W, x, q, Len(x.of.kids))
    PROVE  er = R[Len(wk)] \o W[x]
<1>1. Len(x.of.kids) \in Nat /\ W[x] = Q[x][Len(x.of.kids)]
  BY DEF Reads, Holds, Local, Tree
<1>2. Q[x][Len(x.of.kids)] = Q[x][q]
  <2>1. Len(x.of.kids) \in q..Len(x.of.kids)
    BY <1>1
  <2> QED
    BY <2>1, StillParts
<1>3. wk[Len(wk)].next - 1 = q /\ X[Len(wk)] = x
  <2>1. q \in Nat
    BY <1>1
  <2> QED
    BY <2>1 DEF Top
<1> QED
  BY <1>1, <1>2, <1>3 DEF WalkIs

(* The first call returns with all that the request breaks reported.       *)
LEMMA EndsWhole ==
    ASSUME NEW P, NEW W, NEW Q, Reads(P, W, Q), NEW X, NEW R, NEW wk, NEW sg, NEW er,
           WalkIs(P, Q, X, R, wk, sg, er), Len(wk) = 1,
           NEW x \in P, NEW q \in 0..Len(x.of.kids), Top(X, wk, x, q),
           Still(W, x, q, Len(x.of.kids))
    PROVE  er = W[Whole]
<1>1. er = R[1] \o W[x] /\ x = Whole /\ R[1] = <<>>
  <2>1. er = R[Len(wk)] \o W[x]
    BY AtEnd
  <2> QED
    BY <2>1 DEF WalkIs, Top
<1>2. W[x] \in Seq(Failure)
  <2>1. Len(x.of.kids) \in Nat
    BY DEF Reads, Holds, Local
  <2>2. Q[x] \in [0..Len(x.of.kids) -> Seq(Failure)] /\ W[x] = Q[x][Len(x.of.kids)]
    BY DEF Reads, Tree
  <2> QED
    BY <2>1, <2>2
<1>3. PICK w : w = W[x]
  OBVIOUS
<1>4. <<>> \o w = w
  <2>1. Associates(w, w, w)
    BY <1>2, <1>3, Joins
  <2> QED
    BY <2>1 DEF Associates
<1> QED
  BY <1>1, <1>3, <1>4

(* Any other returns to its caller, past the part it was called for.       *)
LEMMA Returns ==
    ASSUME NEW P, NEW W, NEW Q, Reads(P, W, Q), NEW X, NEW R, NEW wk, NEW sg, NEW er,
           WalkIs(P, Q, X, R, wk, sg, er), Len(wk) # 1,
           NEW x \in P, NEW q \in 0..Len(x.of.kids), Top(X, wk, x, q),
           Still(W, x, q, Len(x.of.kids))
    PROVE  Walks(P, Q, Front(wk), SubSeq(sg, 1, wk[Len(wk)].parent - 1), er)
<1> DEFINE k == Len(wk)
           up == Front(wk)
           less == SubSeq(sg, 1, k - 2)
<1>1. /\ wk \in Seq(Checks(P)) /\ k \in Nat /\ k - 1 \in Nat \ {0}
      /\ sg \in Seq(Segs) /\ Len(sg) = k - 1 /\ X[1] = Whole /\ R[1] = <<>>
  <2>1. /\ wk \in Seq(Checks(P)) /\ k # 0 /\ sg \in Seq(Segs) /\ Len(sg) = k - 1
        /\ X[1] = Whole /\ R[1] = <<>>
    BY DEF WalkIs
  <2>2. k \in Nat /\ k # 1
    BY <2>1, LenProperties
  <2>3. k - 1 \in Nat \ {0}
    BY <2>1, <2>2
  <2> QED
    BY <2>1, <2>2, <2>3
<1>2. /\ k - 1 \in 1..k /\ k - 1 \in 1..(k - 1) /\ k \in 1..k /\ (k - 1) + 1 = k /\ (k - 1) - 1 = k - 2
  BY <1>1
<1>3. wk[k].parent - 1 = k - 2
  <2>1. Checking(wk[k], X[k], k)
    BY <1>2 DEF WalkIs
  <2> QED
    BY <1>1, <2>1 DEF Checking
<1>4. PICK p, c : p = X[k - 1] /\ c = wk[k - 1]
  OBVIOUS
<1>5. PICK i : i = c.next - 1
  OBVIOUS
<1>6. PICK r : r = R[k - 1]
  OBVIOUS
<1>7. /\ p \in P /\ r \in Seq(Failure) /\ i \in 1..Len(p.of.kids) /\ x = Part(p, i)
      /\ R[k] = r \o (Q[p][c.next - 2] \o FailAt(x)) /\ c \in Checks(P)
  <2>1. X[k - 1] \in P /\ R[k - 1] \in Seq(Failure)
    BY <1>2 DEF WalkIs
  <2>2. WentInto(Q, wk[k - 1], X[k - 1], X[k], R, sg[k - 1], k - 1)
    BY <1>2 DEF WalkIs
  <2>3. X[k] = x
    BY DEF Top
  <2>4. /\ i \in 1..Len(p.of.kids) /\ x = Part(p, i)
        /\ R[k] = r \o (Q[p][c.next - 2] \o FailAt(x))
    BY <1>2, <1>4, <1>5, <1>6, <2>2, <2>3 DEF WentInto
  <2>5. c \in Checks(P)
    BY <1>1, <1>2, <1>4, ElementOfSeq
  <2> QED
    BY <1>4, <1>6, <2>1, <2>4, <2>5
<1>8. c.next \in Nat
  BY <1>7 DEF Checks
<1>9. c.next - 2 = i - 1
  BY <1>5, <1>8
<1>10. er = r \o Q[p][i]
  <2>1. Len(p.of.kids) \in Nat
    BY <1>7 DEF Reads, Holds, Local
  <2>2. PICK j : j = i - 1
    OBVIOUS
  <2>3. j \in 0..Len(p.of.kids) /\ i \in (j + 1)..Len(p.of.kids) /\ i \in Nat
    BY <1>7, <2>1, <2>2
  <2>4. Still(W, p, j, i - 1)
    <3>1. \A m \in (j + 1)..(i - 1) : FALSE
      BY <2>2, <2>3
    <3> QED
      BY <3>1 DEF Still
  <2>5. PICK f : f = FailAt(Part(p, i))
    OBVIOUS
  <2>6. GoesOn(P, W, Q, p, j, i, r, f)
    BY <1>7, <2>3, <2>4, <2>5, UpPast
  <2>7. (r \o (Q[p][i - 1] \o f)) \o W[x] = r \o Q[p][i]
    BY <1>7, <2>6 DEF GoesOn
  <2>8. er = R[k] \o W[x]
    BY AtEnd
  <2>9. R[k] = r \o (Q[p][i - 1] \o f)
    BY <1>7, <1>9, <2>5
  <2> QED
    BY <2>7, <2>8, <2>9
<1>11. /\ up \in Seq(Checks(P)) /\ Len(up) = k - 1
       /\ \A j \in 1..(k - 1) : up[j] = wk[j]
  <2>1. up = SubSeq(wk, 1, k - 1)
    BY DEF Front
  <2>2. \A j \in 1..(k - 1) : wk[j] \in Checks(P)
    <3>1. ASSUME NEW j \in 1..(k - 1) PROVE wk[j] \in Checks(P)
      <4>1. j \in 1..k
        BY <1>1
      <4> QED
        BY <1>1, <4>1, ElementOfSeq
    <3> QED
      BY <3>1
  <2>3. 1 \in Int /\ k - 1 \in Int /\ 1 <= k - 1 /\ (k - 1) - 1 + 1 = k - 1 /\ \A j \in 1..(k - 1) : 1 + j - 1 = j
    BY <1>1
  <2> HIDE DEF up
  <2>4. PICK m : m = k - 1
    OBVIOUS
  <2>5. /\ SubSeq(wk, 1, m) \in Seq(Checks(P)) /\ Len(SubSeq(wk, 1, m)) = m
        /\ \A j \in 1..m : SubSeq(wk, 1, m)[j] = wk[j]
    <3>1. m \in Int /\ 1 <= m /\ m - 1 + 1 = m /\ \A j \in 1..m : wk[j] \in Checks(P) /\ 1 + j - 1 = j
      BY <2>2, <2>3, <2>4
    <3> HIDE DEF Checks
    <3> QED
      BY <3>1, SubSeqProperties
  <2> QED
    BY <2>1, <2>4, <2>5
<1>12. /\ less \in Seq(Segs) /\ Len(less) = k - 2
       /\ \A j \in 1..(k - 2) : less[j] = sg[j]
  <2>1. PICK m : m = k - 2
    OBVIOUS
  <2>2. m \in Nat /\ \A j \in 1..m : sg[j] \in Segs
    <3>1. m \in Nat
      BY <1>1, <2>1
    <3>2. ASSUME NEW j \in 1..m PROVE sg[j] \in Segs
      <4>1. j \in 1..Len(sg)
        BY <1>1, <2>1
      <4> QED
        BY <1>1, <4>1, ElementOfSeq
    <3> QED
      BY <3>1, <3>2
  <2>3. /\ SubSeq(sg, 1, m) \in Seq(Segs) /\ Len(SubSeq(sg, 1, m)) = m
        /\ \A j \in 1..m : SubSeq(sg, 1, m)[j] = sg[j]
    <3>1. m \in Int /\ (IF 1 <= m THEN m - 1 + 1 ELSE 0) = m /\ m - 1 + 1 = m /\ \A j \in 1..m : 1 + j - 1 = j
      BY <2>2
    <3> HIDE DEF Segs
    <3> QED
      BY <2>2, <3>1, SubSeqProperties
  <2> QED
    BY <2>1, <2>3
<1> HIDE DEF up, less
<1>13. ASSUME NEW j \in 1..(k - 1) PROVE X[j] \in P /\ R[j] \in Seq(Failure) /\ Checking(up[j], X[j], j)
  <2>1. j \in 1..k
    BY <1>1
  <2> QED
    BY <1>11, <2>1 DEF WalkIs
<1>14. ASSUME NEW j \in 1..(k - 2) PROVE WentInto(Q, up[j], X[j], X[j + 1], R, less[j], j)
  <2>1. j \in 1..(k - 1)
    BY <1>1
  <2>2. WentInto(Q, wk[j], X[j], X[j + 1], R, sg[j], j)
    BY <2>1 DEF WalkIs
  <2> QED
    BY <1>11, <1>12, <2>1, <2>2
<1>15. er = R[k - 1] \o Q[X[k - 1]][up[k - 1].next - 1]
  BY <1>2, <1>4, <1>5, <1>6, <1>10, <1>11
<1>16. Len(up) = k - 1 /\ k - 1 # 0 /\ Len(less) = Len(up) - 1 /\ Len(up) - 1 = k - 2
  BY <1>1, <1>2, <1>11, <1>12
<1>17. WalkIs(P, Q, X, R, up, less, er)
  BY <1>1, <1>11, <1>12, <1>13, <1>14, <1>15, <1>16 DEF WalkIs
<1> QED
  BY <1>3, <1>17 DEF Walks, up, less

-----------------------------------------------------------------------------
(* The steps of the walk                                                   *)

(* The call under way is at place x, and has passed q of its parts.        *)
Reached(P, X, x, q) ==
    /\ x \in P /\ Top(X, walk, x, q)
    /\ q \in 0..Len(x.of.kids) /\ Len(x.of.kids) \in Nat
    /\ At(Here.node, x) /\ ~Absent(x.of)
    /\ Here.of = x.of /\ Here.dive = x.dive /\ Here.next = q + 1
    /\ Here.parent = Len(walk) - 1 /\ Here.parent = Len(segs)
    /\ KindOf(Here.node) = kind[x.type] /\ FieldsOf(Here.node) = fields[x.type]
    /\ ElemOf(Here.node) = elem[x.type]

LEMMA HereIs ==
    ASSUME NEW P, Holds(P), NEW Q, NEW X, NEW R, WalkIs(P, Q, X, R, walk, segs, errs)
    PROVE  \E x, q : Reached(P, X, x, q)
<1>1. walk \in Seq(Checks(P)) /\ Len(walk) # 0 /\ Len(segs) = Len(walk) - 1
  BY DEF WalkIs
<1>2. Len(walk) \in 1..Len(walk) /\ Len(walk) \in Nat
  BY <1>1, LenProperties
<1>3. PICK x : x = X[Len(walk)]
  OBVIOUS
<1>4. Here = walk[Len(walk)]
  BY DEF Here, Last
<1>5. x \in P /\ Checking(Here, x, Len(walk))
  <2>1. X[Len(walk)] \in P /\ Checking(walk[Len(walk)], X[Len(walk)], Len(walk))
    BY <1>2 DEF WalkIs
  <2> QED
    BY <1>3, <1>4, <2>1
<1>6. Here.next \in Nat
  <2>1. Here \in Checks(P)
    BY <1>1, <1>2, <1>4, ElementOfSeq
  <2> QED
    BY <2>1 DEF Checks
<1>7. PICK q : q = Here.next - 1
  OBVIOUS
<1>8. Here.next = q + 1
  BY <1>6, <1>7
<1>9. Top(X, walk, x, q)
  BY <1>3, <1>4, <1>8 DEF Top
<1>10. q \in 0..Len(x.of.kids) /\ At(Here.node, x) /\ Here.of = x.of /\ Here.dive = x.dive
       /\ ~Absent(x.of) /\ Here.parent = Len(walk) - 1
  BY <1>5, <1>7 DEF Checking
<1>11. /\ KindOf(Here.node) = kind[x.type] /\ FieldsOf(Here.node) = fields[x.type]
       /\ ElemOf(Here.node) = elem[x.type]
  BY <1>10 DEF At, KindOf, FieldsOf, ElemOf
<1>12. Len(x.of.kids) \in Nat
  BY <1>5 DEF Holds, Local
<1>13. Here.parent = Len(segs)
  BY <1>1, <1>10
<1>14. Reached(P, X, x, q)
  BY <1>5, <1>8, <1>9, <1>10, <1>11, <1>12, <1>13 DEF Reached
<1> QED
  BY <1>14

(* A field the plan does not keep has nothing to report, nor anything      *)
(* within it.                                                              *)
LEMMA SkippedSilent ==
    ASSUME Typed, Compiled, NEW P, NEW W, NEW Q, Reads(P, W, Q), NEW x \in P, NEW n, At(n, x),
           kind[x.type] = "struct", NEW i \in 1..Len(x.of.kids), i \notin DOMAIN plan[n]
    PROVE  FailAt(Part(x, i)) = <<>> /\ W[Part(x, i)] = <<>>
<1>1. Holds(P)
  BY DEF Reads
<1>2. KindOf(n) = "struct" /\ FieldsOf(n) = fields[x.type] /\ n \in Planned
  BY DEF At, KindOf, FieldsOf
<1>3. i \in DOMAIN FieldsOf(n)
  <2>1. x.type \in Structs /\ i \in 1..Len(fields[x.type])
    BY <1>1, PartCovered DEF Compiled
  <2> QED
    BY <1>2, <2>1, LenProperties DEF Typed
<1>4. PICK f : f = FieldsOf(n)[i]
  OBVIOUS
<1>5. ~KeepsSub(f) /\ f.own = {} /\ TypeRules(f.type) = {}
  <2>1. plan[n] = Kept(n)
    BY <1>2 DEF Compiled
  <2> QED
    BY <1>3, <1>4, <2>1 DEF Kept
<1>6. Part(x, i).type = f.type /\ Part(x, i).rules = f.own \cup TypeRules(f.type) /\ Part(x, i).dive = f.dive
  BY <1>2, <1>4 DEF Part, Place
<1>7. Part(x, i).rules = {}
  BY <1>5, <1>6
<1>8. \/ Sub(Part(x, i).type) = None
      \/ Part(x, i).dive = {} /\ Sub(Part(x, i).type) \notin live
  BY <1>5, <1>6 DEF KeepsSub
<1>9. FailAt(Part(x, i)) = <<>>
  BY <1>1, <1>7, QuietFail
<1>10. W[Part(x, i)] = <<>>
  BY <1>8, DroppedSilent
<1> QED
  BY <1>9, <1>10

LEMMA MinIs == ASSUME NEW T \in SUBSET Nat, T # {} PROVE Min(T) \in T /\ \A m \in T : Min(T) <= m
<1>1. \E n \in T : \A m \in T : n <= m
  BY LeastNatural
<1> QED
  BY <1>1 DEF Min

(* checkField                                                              *)
LEMMA FieldChecked ==
    ASSUME TypeInv, Compiled, NEW P, NEW W, NEW Q, Reads(P, W, Q), Walks(P, Q, walk, segs, errs), CheckField
    PROVE  Walks(P, Q, walk', segs', errs')
<1>1. Holds(P) /\ Typed
  BY DEF Reads, TypeInv
<1>2. PICK X, R : WalkIs(P, Q, X, R, walk, segs, errs)
  BY DEF Walks
<1>3. PICK x, q : Reached(P, X, x, q)
  BY <1>1, <1>2, HereIs
<1>4. PICK n : n = Here.node
  OBVIOUS
<1>5. /\ x \in P /\ At(n, x) /\ ~Absent(x.of) /\ kind[x.type] = "struct" /\ KindOf(n) = "struct"
      /\ FieldsOf(n) = fields[x.type] /\ n \in Planned
      /\ q \in 0..Len(x.of.kids) /\ Len(x.of.kids) \in Nat /\ Here.next = q + 1
  BY <1>3, <1>4 DEF Reached, CheckField, At
<1>6. plan[n] = Kept(n)
  BY <1>5 DEF Compiled
<1>7. /\ DOMAIN FieldsOf(n) = 1..Len(x.of.kids)
  <2>1. Local(x)
    BY <1>1, <1>5 DEF Holds
  <2>2. Len(x.of.kids) = Len(fields[x.type]) /\ x.type \in Structs
    BY <1>5, <2>1 DEF Local, Structs
  <2> QED
    BY <1>1, <1>5, <2>2, LenProperties DEF Typed
<1>8. DOMAIN plan[n] \subseteq 1..Len(x.of.kids)
  BY <1>6, <1>7 DEF Kept
<1>9. PICK i : i = Min(Due(Here))
  OBVIOUS
<1>10. i \in DOMAIN plan[n] /\ q + 1 <= i /\ \A j \in DOMAIN plan[n] : q + 1 <= j => i <= j
  <2>1. Due(Here) = {j \in DOMAIN plan[n] : q + 1 <= j}
    BY <1>4, <1>5 DEF Due
  <2>2. Due(Here) \in SUBSET Nat /\ Due(Here) # {}
    <3>1. DOMAIN plan[n] \subseteq Nat
      BY <1>5, <1>8
    <3>2. Due(Here) # {}
      BY DEF CheckField
    <3> QED
      BY <2>1, <3>1, <3>2
  <2>3. i \in Due(Here) /\ \A m \in Due(Here) : i <= m
    BY <1>9, <2>2, MinIs
  <2> QED
    BY <2>1, <2>3
<1>11. i \in (q + 1)..Len(x.of.kids) /\ i \in 1..Len(x.of.kids) /\ i \in Nat
  BY <1>5, <1>8, <1>10
<1>12. Still(W, x, q, i - 1)
  <2>1. ASSUME NEW j \in (q + 1)..(i - 1) PROVE FailAt(Part(x, j)) = <<>> /\ W[Part(x, j)] = <<>>
    <3>1. j \in 1..Len(x.of.kids) /\ q + 1 <= j /\ ~(i <= j)
      BY <1>5, <1>11
    <3>2. j \notin DOMAIN plan[n]
      BY <1>10, <3>1
    <3> QED
      BY <1>1, <1>5, <3>1, <3>2, SkippedSilent
  <2> QED
    BY <2>1 DEF Still
<1>13. PICK y, f : y = Part(x, i) /\ f = FieldsOf(n)[i]
  OBVIOUS
<1>14. /\ y.type = f.type /\ y.rules = f.own \cup TypeRules(f.type) /\ y.dive = f.dive
       /\ y.of = x.of.kids[i] /\ y.path = Append(x.path, i)
  BY <1>5, <1>13 DEF Part, Place
<1>15. PathTo(Here.parent, segs) = x.path
  <2>1. PathTo(Len(segs), segs) = X[Len(walk)].path
    BY <1>1, <1>2, WalkPath
  <2> QED
    BY <1>3, <2>1 DEF Reached, Top
<1>16. errs' = errs \o FailAt(y)
  <2>1. errs' = errs \o Fail(Append(PathTo(Here.parent, segs), i), Here.of.kids[i],
                             FieldsOf(Here.node)[i].own \cup TypeRules(FieldsOf(Here.node)[i].type))
    BY <1>9 DEF CheckField
  <2>2. Here.of = x.of
    BY <1>3 DEF Reached
  <2> QED
    BY <1>4, <1>13, <1>14, <1>15, <2>1, <2>2 DEF FailAt
<1>17. plan[n][i] = KeepsSub(f)
  BY <1>6, <1>10, <1>13 DEF Kept
<1>18. Past(i) = Moved(walk, i)
  BY DEF Past, Moved
<1>19. CASE KeepsSub(f) /\ ~Absent(y.of)
  <2>1. Here.parent = Len(walk) - 1 /\ Here.parent = Len(segs) /\ Here.of = x.of
    BY <1>3 DEF Reached
  <2>2. /\ segs' = Append(segs, Seg(Here.parent, i))
        /\ walk' = Append(Past(i), Check(f.type, y.of, Len(segs'), f.dive))
    BY <1>4, <1>9, <1>13, <1>14, <1>17, <1>19, <2>1 DEF CheckField
  <2>3. segs' = Append(segs, Seg(Len(walk) - 1, i))
    BY <2>1, <2>2
  <2>4. Len(segs') = Len(walk)
    <3>1. segs \in Seq(Segs) /\ Len(walk) \in Nat /\ Len(walk) # 0
      BY <1>2, LenProperties DEF WalkIs
    <3>2. Seg(Len(walk) - 1, i) \in Segs
      BY <1>11, <3>1 DEF Seg, Segs
    <3>3. Len(segs') = Len(segs) + 1
      BY <2>3, <3>1, <3>2, AppendProperties
    <3> QED
      BY <2>1, <3>1, <3>3
  <2>5. f.type \in Node /\ At(f.type, y)
    <3>1. kind[f.type] # "scalar"
      BY <1>19 DEF KeepsSub, Sub
    <3>2. y.type \in Type /\ y.type \in Planned
      BY <1>1, <1>5, <1>11, <1>13, <1>14, <3>1, PartCovered DEF Compiled
    <3> QED
      BY <1>14, <3>2, TypesAssumption DEF At, TypeOf, Node
  <2>6. walk' = Append(Moved(walk, i), Check(f.type, y.of, Len(walk), y.dive))
    BY <1>14, <1>18, <2>2, <2>4
  <2>7. Walks(P, Q, Append(Moved(walk, i), Check(f.type, y.of, Len(walk), y.dive)),
              Append(segs, Seg(Len(walk) - 1, i)), errs \o FailAt(y))
    <3>1. Top(X, walk, x, q)
      BY <1>3 DEF Reached
    <3> QED
      BY <1>2, <1>5, <1>11, <1>12, <1>13, <1>19, <2>5, <3>1, Descends
  <2> QED
    BY <1>16, <2>3, <2>6, <2>7
<1>20. CASE ~(KeepsSub(f) /\ ~Absent(y.of))
  <2>1. walk' = Moved(walk, i) /\ segs' = segs
    <3>1. Here.of = x.of
      BY <1>3 DEF Reached
    <3> QED
      BY <1>4, <1>9, <1>13, <1>14, <1>17, <1>18, <1>20, <3>1 DEF CheckField
  <2>2. W[y] = <<>>
    <3>1. \/ Absent(y.of) \/ Sub(y.type) = None
          \/ y.dive = {} /\ Sub(y.type) \notin live
      BY <1>14, <1>20 DEF KeepsSub
    <3> QED
      BY <1>1, <1>5, <1>11, <1>13, <3>1, DroppedSilent
  <2>3. WalkIs(P, Q, X, R, Moved(walk, i), segs, errs \o FailAt(y))
    <3>1. Top(X, walk, x, q)
      BY <1>3 DEF Reached
    <3> QED
      BY <1>2, <1>5, <1>11, <1>12, <1>13, <2>2, <3>1, Passes
  <2> QED
    BY <1>16, <2>1, <2>3 DEF Walks
<1> QED
  BY <1>19, <1>20

(* checkElem                                                               *)
LEMMA ElemChecked ==
    ASSUME TypeInv, Compiled, NEW P, NEW W, NEW Q, Reads(P, W, Q), Walks(P, Q, walk, segs, errs), CheckElem
    PROVE  Walks(P, Q, walk', segs', errs')
<1>1. Holds(P) /\ Typed
  BY DEF Reads, TypeInv
<1>2. PICK X, R : WalkIs(P, Q, X, R, walk, segs, errs)
  BY DEF Walks
<1>3. PICK x, q : Reached(P, X, x, q)
  BY <1>1, <1>2, HereIs
<1>4. PICK n, i : n = Here.node /\ i = Here.next
  OBVIOUS
<1>5. /\ x \in P /\ At(n, x) /\ ~Absent(x.of) /\ kind[x.type] # "struct" /\ KindOf(n) = kind[x.type]
      /\ ElemOf(n) = elem[x.type] /\ n \in Planned
      /\ q \in 0..Len(x.of.kids) /\ Len(x.of.kids) \in Nat /\ i = q + 1
  BY <1>3, <1>4 DEF Reached, CheckElem, At
<1>6. i <= Len(x.of.kids)
  BY <1>3, <1>4 DEF Reached, CheckElem
<1>7. i \in (q + 1)..Len(x.of.kids) /\ i \in 1..Len(x.of.kids) /\ i \in Nat /\ i - 1 = q
  BY <1>5, <1>6
<1>8. Still(W, x, q, i - 1)
  <2>1. \A j \in (q + 1)..(i - 1) : FALSE
    BY <1>5, <1>7
  <2> QED
    BY <2>1 DEF Still
<1>9. PICK y, e, dive : /\ y = Part(x, i) /\ e = ElemOf(n)
                        /\ dive = IF kind[x.type] = "seq" THEN x.dive ELSE {}
  OBVIOUS
<1>10. /\ y.type = e.type /\ y.rules = dive \cup TypeRules(e.type) /\ y.dive = {}
       /\ y.of = x.of.kids[i] /\ y.path = Append(x.path, i)
  BY <1>5, <1>9 DEF Part, Place
<1>11. PICK s : s = Append(segs, Seg(Here.parent, i))
  OBVIOUS
<1>12. Here.parent = Len(walk) - 1 /\ Here.parent = Len(segs) /\ Here.of = x.of /\ Here.dive = x.dive
  BY <1>3 DEF Reached
<1>13. PathTo(Len(s), s) = y.path
  <2>1. PathTo(Len(s), s) = Append(X[Len(walk)].path, i)
    <3>1. s = Append(segs, Seg(Len(segs), i))
      BY <1>11, <1>12
    <3> QED
      BY <1>1, <1>2, <1>7, <3>1, WalkPath
  <2> QED
    BY <1>3, <1>10, <2>1 DEF Reached, Top
<1>14. errs' = (errs \o Fail(y.path, y.of, dive)) \o Fail(y.path, y.of, TypeRules(e.type))
  <2>1. errs' = (errs \o Fail(PathTo(Len(s), s), Here.of.kids[Here.next],
                             IF KindOf(Here.node) = "seq" THEN Here.dive ELSE {}))
                    \o Fail(PathTo(Len(s), s), Here.of.kids[Here.next], TypeRules(ElemOf(Here.node).type))
    BY <1>4, <1>11 DEF CheckElem
  <2> QED
    BY <1>4, <1>5, <1>9, <1>10, <1>12, <1>13, <2>1
<1>15. y.path \in Seq(Nat) /\ dive \in SUBSET {"required", "check"} /\ TypeRules(e.type) \in SUBSET {"enum"}
  <2>1. Local(x) /\ y.path \in Seq(Nat)
    BY <1>1, <1>5, <1>7, <1>9, PartPath DEF Holds
  <2> QED
    BY <1>9, <2>1 DEF Local, TypeRules
<1>16. errs \in Seq(Failure)
  <2>1. Len(walk) \in 1..Len(walk)
    <3>1. walk \in Seq(Checks(P)) /\ Len(walk) # 0
      BY <1>2 DEF WalkIs
    <3> QED
      BY <3>1, LenProperties
  <2>2. X[Len(walk)] = x /\ walk[Len(walk)].next - 1 = q
    <3>1. walk[Len(walk)].next = q + 1 /\ X[Len(walk)] = x
      BY <1>3 DEF Reached, Top
    <3> QED
      BY <1>5, <3>1
  <2>3. R[Len(walk)] \in Seq(Failure) /\ errs = R[Len(walk)] \o Q[x][q]
    BY <1>2, <2>1, <2>2 DEF WalkIs
  <2>4. Q[x][q] \in Seq(Failure)
    <3>1. Q[x] \in [0..Len(x.of.kids) -> Seq(Failure)]
      BY <1>5 DEF Reads, Tree
    <3> QED
      BY <1>5, <3>1
  <2>5. PICK r, t : r = R[Len(walk)] /\ t = Q[x][q]
    OBVIOUS
  <2>6. r \o t \in Seq(Failure)
    <3>1. Associates(r, t, t)
      BY <2>3, <2>4, <2>5, Joins
    <3> QED
      BY <3>1 DEF Associates
  <2> QED
    BY <2>3, <2>5, <2>6
<1>17. errs' = errs \o FailAt(y)
  <2>1. PICK a, b, c : /\ a = Fail(y.path, y.of, dive) /\ b = Fail(y.path, y.of, TypeRules(e.type))
                       /\ c = FailAt(y)
    OBVIOUS
  <2>2. PICK t, v, p : t = TypeRules(e.type) /\ v = y.of /\ p = y.path
    OBVIOUS
  <2>3. Fail(p, v, dive \cup t) = Fail(p, v, dive) \o Fail(p, v, t)
    <3>1. p \in Seq(Nat) /\ dive \in SUBSET {"required", "check"} /\ t \in SUBSET {"enum"}
      BY <1>15, <2>2
    <3>2. Splits(p, v, dive, t)
      BY <3>1, FailSplit
    <3> QED
      BY <3>2 DEF Splits
  <2>4. c = a \o b
    BY <1>10, <2>1, <2>2, <2>3 DEF FailAt
  <2>5. a \in Seq(Failure) /\ b \in Seq(Failure)
    BY <1>15, <2>1, FailIs
  <2>6. (errs \o a) \o b = errs \o (a \o b)
    <3>1. Associates(errs, a, b)
      BY <1>16, <2>5, Joins
    <3> QED
      BY <3>1 DEF Associates
  <2> QED
    BY <1>14, <2>1, <2>4, <2>6
<1>18. Past(i) = Moved(walk, i)
  BY DEF Past, Moved
<1>19. CASE Sub(e.type) \in live /\ ~Absent(y.of)
  <2>1. segs' = s /\ walk' = Append(Past(i), Check(e.type, y.of, Len(s), {}))
    BY <1>4, <1>9, <1>10, <1>11, <1>12, <1>19 DEF CheckElem
  <2>2. s = Append(segs, Seg(Len(walk) - 1, i))
    BY <1>11, <1>12
  <2>3. Len(s) = Len(walk)
    <3>1. segs \in Seq(Segs) /\ Len(walk) \in Nat /\ Len(walk) # 0
      BY <1>2, LenProperties DEF WalkIs
    <3>2. Seg(Len(walk) - 1, i) \in Segs
      BY <1>7, <3>1 DEF Seg, Segs
    <3>3. Len(s) = Len(segs) + 1
      BY <2>2, <3>1, <3>2, AppendProperties
    <3> QED
      BY <1>12, <3>1, <3>3
  <2>4. e.type \in Node /\ At(e.type, y)
    <3>1. live \subseteq Node /\ None \notin Node
      BY TypesAssumption DEF TypeInv, TypeOK, Node
    <3>2. kind[e.type] # "scalar"
      BY <1>19, <3>1 DEF Sub
    <3>3. y.type \in Type /\ y.type \in Planned
      BY <1>1, <1>5, <1>7, <1>9, <1>10, <3>2, PartCovered DEF Compiled
    <3> QED
      BY <1>10, <3>3, TypesAssumption DEF At, TypeOf, Node
  <2>5. walk' = Append(Moved(walk, i), Check(e.type, y.of, Len(walk), y.dive))
    BY <1>10, <1>18, <2>1, <2>3
  <2>6. Walks(P, Q, Append(Moved(walk, i), Check(e.type, y.of, Len(walk), y.dive)),
              Append(segs, Seg(Len(walk) - 1, i)), errs \o FailAt(y))
    <3>1. Top(X, walk, x, q)
      BY <1>3 DEF Reached
    <3> QED
      BY <1>2, <1>5, <1>7, <1>8, <1>9, <1>19, <2>4, <3>1, Descends
  <2> QED
    BY <1>17, <2>1, <2>2, <2>5, <2>6
<1>20. CASE ~(Sub(e.type) \in live /\ ~Absent(y.of))
  <2>1. walk' = Moved(walk, i) /\ segs' = segs
    BY <1>4, <1>9, <1>10, <1>12, <1>18, <1>20 DEF CheckElem
  <2>2. W[y] = <<>>
    <3>1. Absent(y.of) \/ (y.dive = {} /\ Sub(y.type) \notin live)
      BY <1>10, <1>20
    <3> QED
      BY <1>1, <1>5, <1>7, <1>9, <3>1, DroppedSilent
  <2>3. WalkIs(P, Q, X, R, Moved(walk, i), segs, errs \o FailAt(y))
    <3>1. Top(X, walk, x, q)
      BY <1>3 DEF Reached
    <3> QED
      BY <1>2, <1>5, <1>7, <1>8, <1>9, <2>2, <3>1, Passes
  <2> QED
    BY <1>17, <2>1, <2>3 DEF Walks
<1> QED
  BY <1>19, <1>20

(* A call returns: the first with everything reported.                     *)
LEMMA CallReturned ==
    ASSUME TypeInv, Compiled, NEW P, NEW W, NEW Q, Reads(P, W, Q), Walks(P, Q, walk, segs, errs), CheckReturns
    PROVE  /\ phase' = "hook" => errs = W[Whole]
           /\ phase' = "check" => Walks(P, Q, walk', segs', errs)
           /\ phase' \in {"check", "hook"}
<1>1. Holds(P) /\ Typed
  BY DEF Reads, TypeInv
<1>2. PICK X, R : WalkIs(P, Q, X, R, walk, segs, errs)
  BY DEF Walks
<1>3. PICK x, q : Reached(P, X, x, q)
  BY <1>1, <1>2, HereIs
<1>4. PICK n : n = Here.node
  OBVIOUS
<1>5. /\ x \in P /\ At(n, x) /\ KindOf(n) = kind[x.type] /\ FieldsOf(n) = fields[x.type] /\ n \in Planned
      /\ q \in 0..Len(x.of.kids) /\ Len(x.of.kids) \in Nat /\ Here.next = q + 1 /\ Here.of = x.of
      /\ Top(X, walk, x, q) /\ Here.parent = Len(walk) - 1
  BY <1>3, <1>4 DEF Reached, At
<1>6. Still(W, x, q, Len(x.of.kids))
  <2>1. CASE kind[x.type] = "struct"
    <3>1. ASSUME NEW j \in (q + 1)..Len(x.of.kids) PROVE FailAt(Part(x, j)) = <<>> /\ W[Part(x, j)] = <<>>
      <4>1. Due(Here) = {}
        BY <1>4, <1>5, <2>1 DEF CheckReturns
      <4>2. j \in 1..Len(x.of.kids) /\ q + 1 <= j
        BY <1>5
      <4>3. j \notin DOMAIN plan[n]
        BY <1>4, <1>5, <4>1, <4>2 DEF Due
      <4> QED
        BY <1>1, <1>5, <2>1, <4>2, <4>3, SkippedSilent
    <3> QED
      BY <3>1 DEF Still
  <2>2. CASE kind[x.type] # "struct"
    <3>1. q + 1 > Len(x.of.kids)
      BY <1>4, <1>5, <2>2 DEF CheckReturns
    <3>2. \A j \in (q + 1)..Len(x.of.kids) : FALSE
      BY <1>5, <3>1
    <3> QED
      BY <3>2 DEF Still
  <2> QED
    BY <2>1, <2>2
<1>7. CASE Len(walk) = 1
  <2>1. phase' = "hook"
    BY <1>7 DEF CheckReturns
  <2>2. errs = W[Whole]
    BY <1>2, <1>5, <1>6, <1>7, EndsWhole
  <2> QED
    BY <2>1, <2>2
<1>8. CASE Len(walk) # 1
  <2>1. /\ phase' = "check" /\ walk' = Front(walk)
        /\ segs' = SubSeq(segs, 1, walk[Len(walk)].parent - 1)
    BY <1>8 DEF CheckReturns, Here, Last
  <2>2. Walks(P, Q, Front(walk), SubSeq(segs, 1, walk[Len(walk)].parent - 1), errs)
    BY <1>2, <1>5, <1>6, <1>8, Returns
  <2> QED
    BY <2>1, <2>2
<1> QED
  BY <1>7, <1>8

(* Nothing of this depends on anything but the types, the plan's nodes and *)
(* the request.                                                            *)
LEMMA WalksKept ==
    ASSUME UNCHANGED <<types, all, value>>, NEW P, NEW Q, Walks(P, Q, walk', segs', errs')
    PROVE  Walks(P, Q, walk, segs, errs)'
<1>1. kind' = kind /\ fields' = fields /\ elem' = elem /\ all' = all /\ value' = value
  BY DEF types
<1>2. PICK X, R : WalkIs(P, Q, X, R, walk', segs', errs')
  BY DEF Walks
<1>3. WalkIs(P, Q, X, R, walk, segs, errs)'
  BY <1>1, <1>2 DEF WalkIs, Checking, WentInto, At, Planned, TypeOf, Part, Place, Whole
<1> QED
  BY <1>3 DEF Walks

LEMMA ReadsKept ==
    ASSUME UNCHANGED types, NEW P, NEW W, NEW Q, Reads(P, W, Q)
    PROVE  Reads(P, W, Q)'
<1>1. kind' = kind /\ fields' = fields /\ elem' = elem
  BY DEF types
<1>2. \A x, i : Part(x, i)' = Part(x, i)
  BY <1>1 DEF Part, Place
<1>3. \A x : Local(x)' = Local(x)
  BY <1>1 DEF Local
<1>4. Holds(P)'
  BY <1>2, <1>3 DEF Reads, Holds
<1>5. Tree(P, W, Q)'
  BY <1>2 DEF Reads, Tree
<1> QED
  BY <1>4, <1>5 DEF Reads

(* The failures so far are what the request breaks before the walk.        *)
HookFailure == [path |-> <<>>, rule |-> "hook"]
ReadAs(P, W, Q) ==
    /\ Reads(P, W, Q) /\ Whole \in P
    /\ phase = "check" => Walks(P, Q, walk, segs, errs)
    /\ phase = "hook" => errs = W[Whole]
    /\ phase = "done" => errs = W[Whole] \/ errs = Append(W[Whole], HookFailure)
ReadInv ==
    /\ phase \in {"plan", "mark", "prune", "decode"} => errs = <<>> /\ segs = <<>>
    /\ phase \in {"check", "hook", "done"} => \E P, W, Q : ReadAs(P, W, Q)

LEMMA InitRead == Init => ReadInv
  BY DEF Init, ReadInv

(* A request is decoded: nothing of it has been passed.                    *)
LEMMA DecodeReads == ASSUME TypeInv, CompiledInv, ReadInv, Decode PROVE ReadInv'
<1>1. /\ Typed /\ Compiled /\ UNCHANGED <<types, all>> /\ value' \in Values
      /\ errs' = <<>> /\ segs' = <<>>
      /\ \/ Request \in live /\ phase' = "check" /\ walk' = <<Check(Request, value', noParent, {})>>
         \/ Request \notin live /\ phase' = "hook"
  BY DEF Decode, TypeInv, CompiledInv, Walking, ReadInv, compiling
<1>2. PICK v : v = value'
  OBVIOUS
<1>3. PICK P : Holds(P) /\ WholeOf(v) \in P
  BY <1>1, <1>2, SomeHold
<1>4. PICK W, Q : Reads(P, W, Q)
  BY <1>3, WithinExists, WithinReads
<1>5. Reads(P, W, Q)'
  BY <1>1, <1>4, ReadsKept
<1>6. PICK w \in P : w = WholeOf(v)
  BY <1>3
<1>7. Whole' = w
  BY <1>2, <1>6 DEF Whole, WholeOf
<1>8. CASE Request \notin live
  <2>1. W[w] = <<>>
    BY <1>1, <1>3, <1>4, <1>6, <1>8, RequestSilent
  <2>2. ReadAs(P, W, Q)'
    BY <1>1, <1>5, <1>7, <1>8, <2>1 DEF ReadAs
  <2> QED
    BY <1>1, <1>8, <2>2 DEF ReadInv
<1>9. CASE Request \in live
  <2>1. PICK c : c = Check(Request, v, noParent, {})
    OBVIOUS
  <2>2. c.node = Request /\ c.of = v /\ c.parent = 0 /\ c.dive = {} /\ c.next = 1
    BY <2>1 DEF Check, noParent
  <2>3. w.of = v /\ w.dive = {} /\ w.type = Root
    BY <1>6 DEF WholeOf, Place
  <2>4. c \in Checks(P)
    <3>1. v \in {x.of : x \in P}
      BY <1>6, <2>3
    <3> QED
      BY <2>1, <3>1 DEF Check, noParent, Checks, Node
  <2>5. At(Request, w)'
    <3>1. Request \in Planned'
      BY <1>1 DEF Compiled, Covered, Planned
    <3> QED
      BY <2>3, <3>1 DEF At, TypeOf
  <2>6. Checking(c, w, 1)'
    <3>1. ~Absent(v)
      BY <1>1, <1>2, ValueSound
    <3>2. Len(w.of.kids) \in Nat
      BY <1>3, <1>6 DEF Holds, Local
    <3> QED
      BY <2>2, <2>3, <2>5, <3>1, <3>2 DEF Checking
  <2>7. Q[w][0] = <<>>
    BY <1>4 DEF Reads, Tree
  <2>8. PICK X, R : X = [j \in {1} |-> w] /\ R = [j \in {1} |-> <<>>]
    OBVIOUS
  <2>9. X[1] = w /\ R[1] = <<>>
    BY <2>8
  <2>10. walk' = <<c>> /\ Len(walk') = 1 /\ walk'[1] = c /\ walk' \in Seq(Checks(P))
    <3>1. walk' = <<c>>
      BY <1>1, <1>2, <1>9, <2>1
    <3> HIDE DEF Checks
    <3> QED
      BY <2>4, <3>1
  <2>11. segs' \in Seq(Segs) /\ Len(segs') = 0
    BY <1>1
  <2>12. WalkIs(P, Q, X, R, walk, segs, errs)'
    <3>1. <<>> \o <<>> = <<>>
      OBVIOUS
    <3>2. errs' = R[1] \o Q[X[1]][c.next - 1]
      BY <1>1, <2>2, <2>7, <2>9, <3>1
    <3>3. R[1] \in Seq(Failure)
      BY <2>9
    <3>4. \A j \in 1..Len(walk') : j = 1
      BY <2>10
    <3>5. ASSUME NEW j \in 1..Len(walk')
          PROVE  X[j] \in P /\ R[j] \in Seq(Failure) /\ Checking(walk[j], X[j], j)'
      <4>1. j = 1 /\ walk'[j] = c /\ X[j] = w /\ R[j] = <<>>
        BY <2>9, <2>10, <3>4
      <4> HIDE DEF Failure
      <4>2. Checking(walk[j], X[j], j)'
        BY <2>6, <4>1 DEF Checking, At, Planned, TypeOf
      <4> QED
        BY <3>3, <4>1, <4>2
    <3>6. \A j \in 1..(Len(walk') - 1) : FALSE
      BY <2>10
    <3>7. /\ Len(walk') # 0 /\ Len(segs') = Len(walk') - 1 /\ X[1] = Whole' /\ R[1] = <<>>
          /\ errs' = R[Len(walk')] \o Q[X[Len(walk')]][walk'[Len(walk')].next - 1]
      <4>1. Len(walk') = 1 /\ walk'[1] = c /\ Len(segs') = 0
        BY <2>10, <2>11
      <4>2. Len(walk') # 0 /\ Len(segs') = Len(walk') - 1
        BY <4>1
      <4>3. errs' = R[Len(walk')] \o Q[X[Len(walk')]][walk'[Len(walk')].next - 1]
        BY <3>2, <4>1
      <4> QED
        BY <1>7, <2>9, <4>2, <4>3
    <3> HIDE DEF Failure, Checks, Segs
    <3> QED
      BY <2>10, <2>11, <3>5, <3>6, <3>7 DEF WalkIs
  <2>13. ReadAs(P, W, Q)'
    BY <1>1, <1>5, <1>7, <1>9, <2>12 DEF ReadAs, Walks
  <2> QED
    BY <1>1, <1>9, <2>13 DEF ReadInv
<1> QED
  BY <1>8, <1>9

(* A step of the walk.                                                     *)
LEMMA CheckReads ==
    ASSUME TypeInv, CompiledInv, ReadInv, CheckField \/ CheckElem \/ CheckReturns
    PROVE  ReadInv'
<1>1. phase = "check" /\ TypeInv /\ Compiled /\ UNCHANGED <<types, all, value>>
  BY DEF CheckField, CheckElem, CheckReturns, CompiledInv, Walking, compiling
<1>2. PICK P, W, Q : ReadAs(P, W, Q)
  BY <1>1 DEF ReadInv
<1>3. Reads(P, W, Q) /\ Whole \in P /\ Walks(P, Q, walk, segs, errs)
  BY <1>1, <1>2 DEF ReadAs
<1>4. Reads(P, W, Q)'
  BY <1>1, <1>3, ReadsKept
<1>5. Whole' = Whole
  BY <1>1 DEF Whole
<1>6. CASE CheckField \/ CheckElem
  <2>1. phase' = "check"
    BY <1>1, <1>6 DEF CheckField, CheckElem
  <2>2. Walks(P, Q, walk', segs', errs')
    BY <1>1, <1>3, <1>6, FieldChecked, ElemChecked
  <2>3. Walks(P, Q, walk, segs, errs)'
    BY <1>1, <2>2, WalksKept
  <2>4. ReadAs(P, W, Q)'
    BY <1>3, <1>4, <1>5, <2>1, <2>3 DEF ReadAs
  <2> QED
    BY <2>1, <2>4 DEF ReadInv
<1>7. CASE CheckReturns
  <2>1. /\ phase' = "hook" => errs = W[Whole]
        /\ phase' = "check" => Walks(P, Q, walk', segs', errs)
        /\ phase' \in {"check", "hook"}
    BY <1>1, <1>3, <1>7, CallReturned
  <2>2. errs' = errs
    BY <1>7 DEF CheckReturns
  <2>3. phase' = "check" => Walks(P, Q, walk, segs, errs)'
    BY <1>1, <2>1, <2>2, WalksKept
  <2>4. ReadAs(P, W, Q)'
    BY <1>3, <1>4, <1>5, <2>1, <2>2, <2>3 DEF ReadAs
  <2> QED
    BY <2>1, <2>4 DEF ReadInv
<1> QED
  BY <1>6, <1>7

LEMMA HookReads == ASSUME ReadInv, Hook PROVE ReadInv'
<1>1. /\ phase = "hook" /\ phase' = "done" /\ UNCHANGED <<types, value>>
      /\ errs' = errs \/ errs' = Append(errs, HookFailure)
  BY DEF Hook, HookFailure
<1>2. PICK P, W, Q : ReadAs(P, W, Q)
  BY <1>1 DEF ReadInv
<1>3. Reads(P, W, Q)'
  BY <1>1, <1>2, ReadsKept DEF ReadAs
<1>4. Whole' = Whole
  BY <1>1 DEF Whole
<1>5. ReadAs(P, W, Q)'
  BY <1>1, <1>2, <1>3, <1>4 DEF ReadAs
<1> QED
  BY <1>1, <1>5 DEF ReadInv

LEMMA NextReads ==
    TypeInv /\ CompiledInv /\ ReadInv /\ [Next]_vars => ReadInv'
<1> SUFFICES ASSUME TypeInv, CompiledInv, ReadInv, [Next]_vars PROVE ReadInv'
  OBVIOUS
<1>1. ASSUME Compile PROVE ReadInv'
  <2>1. /\ phase \in {"plan", "mark", "prune"} /\ phase' \in {"plan", "mark", "prune", "decode"}
        /\ UNCHANGED walking
    BY <1>1 DEF Compile, Reuse, NodeFor, Built, Mark, PassEnds, Prune
  <2> QED
    BY <2>1 DEF ReadInv, walking
<1>2. ASSUME UNCHANGED vars PROVE ReadInv'
  <2>1. UNCHANGED <<types, all, value, walking, phase>>
    BY <1>2 DEF vars, compiling
  <2>2. ASSUME NEW P, NEW W, NEW Q, ReadAs(P, W, Q) PROVE ReadAs(P, W, Q)'
    <3>1. Reads(P, W, Q)' /\ Whole' = Whole
      BY <2>1, <2>2, ReadsKept DEF ReadAs, Whole
    <3>2. Walks(P, Q, walk, segs, errs) => Walks(P, Q, walk', segs', errs')
      BY <2>1 DEF walking
    <3>3. Walks(P, Q, walk, segs, errs) => Walks(P, Q, walk, segs, errs)'
      BY <2>1, <3>2, WalksKept
    <3> QED
      BY <2>1, <2>2, <3>1, <3>3 DEF ReadAs, walking
  <2> QED
    BY <2>1, <2>2 DEF ReadInv, walking
<1> QED
  BY <1>1, <1>2, DecodeReads, CheckReads, HookReads DEF Next, Validate

(* What has been reported when validation is done is what the request      *)
(* breaks.                                                                 *)
LEMMA AllReported == ReadInv => FailuresReported
<1> SUFFICES ASSUME ReadInv, phase = "done" PROVE errs = Broken \/ errs = Append(Broken, HookFailure)
  BY DEF FailuresReported, HookFailure
<1>1. PICK P, W, Q : ReadAs(P, W, Q)
  BY DEF ReadInv
<1>2. Reads(P, W, Q) /\ Whole \in P /\ (errs = W[Whole] \/ errs = Append(W[Whole], HookFailure))
  BY <1>1 DEF ReadAs
<1>3. Holds(P)
  BY <1>2 DEF Reads
<1>4. PICK W2, Q2 : Reads(Places, W2, Q2) /\ W2[Whole] = Broken
  BY <1>2, <1>3, BrokenReads
<1>5. Whole \in Places
  BY <1>2, <1>3, PlacesHold
<1>6. W[Whole] = Broken
  BY <1>2, <1>4, <1>5, ReadsAlike
<1> QED
  BY <1>2, <1>6

(* The plan misses nothing (compileValidator, resolveLiveness): once it is *)
(* built every type a node of it leads to has one too, recursive types     *)
(* included, every node a rule can be reached through is live, and a       *)
(* struct's node keeps all but the fields without rules and without a live *)
(* or dived-into sub.                                                      *)
THEOREM PlanComplete == Spec => [](TypeInv /\ CompiledInv)
<1>1. Init => TypeInv /\ MarkInv /\ CoverInv /\ CompiledInv
  <2>1. Init => CompiledInv
    BY DEF Init, CompiledInv, Walking
  <2> QED
    BY <2>1, InitTypes, InitMarks, InitCover
<1>2. TypeInv /\ MarkInv /\ CoverInv /\ CompiledInv /\ [Next]_vars
        => TypeInv' /\ MarkInv' /\ CoverInv' /\ CompiledInv'
  BY NextTypes, NextMarks, NextCovers, NextCompiled
<1> QED
  BY <1>1, <1>2, PTL DEF Spec

(* A request is answered with exactly the rules it breaks, at every depth, *)
(* each with the path of its value and in the order of the declaration,    *)
(* and then with what its hook says, whatever the plan was pruned to       *)
(* (validateRequest, vnode.check).                                         *)
THEOREM ReportsEveryRule == Spec => []FailuresReported
<1>1. TypeInv /\ CompiledInv /\ ReadInv /\ [Next]_vars => ReadInv'
  BY NextReads
<1> QED
  BY <1>1, PlanComplete, InitRead, AllReported, PTL DEF Spec
=============================================================================
