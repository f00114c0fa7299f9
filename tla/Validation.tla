----------------------------- MODULE Validation -----------------------------
(***************************************************************************)
(* The validation engine (validate.go).  compileValidator turns a request  *)
(* struct into a graph of plan nodes, one per type and recursive where the *)
(* types are, marks the nodes a rule is reachable through (live), and      *)
(* prunes the rest; validate then walks a decoded request along the plan.  *)
(*                                                                         *)
(* A rule other than required is one opaque "check"; "enum" is the rule an *)
(* enum type carries.  A path is the sequence of positions (of a field, an *)
(* element, a map value in key order) that leads to a value.               *)
(***************************************************************************)
EXTENDS Naturals, Sequences, FiniteSets, SequencesExt

CONSTANTS
    Type,      \* the Go types of a request, pointers followed
    Root,      \* the request struct
    Scalar,    \* types without fields or elements, or that encode themselves
    Enum,      \* enum types
    Request,   \* the plan node of the request (its type may have one as well)
    None,
    MaxFields, \* bounds on the fields of the request struct,
    MaxInner,  \* of any other struct,
    MaxLen,    \* on the elements of its slices and maps (one deeper down),
    MaxDepth,  \* on the pointers and containers around a value,
    MaxNest    \* and on these and the structs together

ASSUME TypesAssumption ==
    /\ Root \in Type
    /\ Scalar \subseteq Type /\ Enum \subseteq Type
    /\ Root \notin Scalar \cup Enum
    /\ Request \notin Type /\ None \notin Type \cup {Request}
ASSUME BoundsAssumption == {MaxFields, MaxInner, MaxLen, MaxDepth, MaxNest} \subseteq Nat

VARIABLES
    kind,    \* struct, seq (a slice or an array), map, or scalar
    fields,  \* the fields of each struct type, in order
    elem,    \* the elements of each container type
    phase,   \* plan, mark, prune, decode, check, hook, done
    calls,   \* the nodeFor calls under way
    nodes,   \* the types in c.nodes
    all,     \* c.all
    live,    \* the nodes marked live
    pass,    \* the scan of c.all under way: how far, and did it change anything
    plan,    \* the fields each node keeps, and whether each keeps its sub
    value,   \* the decoded request
    walk,    \* the check calls under way
    segs,    \* walker.segs
    errs     \* the failures so far

types == <<kind, fields, elem>>
compiling == <<calls, nodes, all, live, pass, plan>>
walking == <<walk, segs, errs>>
vars == <<types, phase, compiling, value, walking>>

-----------------------------------------------------------------------------
(* Types                                                                   *)

Node == Type \cup {Request}
TypeOf(n) == IF n = Request THEN Root ELSE n
KindOf(n) == kind[TypeOf(n)]
FieldsOf(n) == fields[TypeOf(n)]
ElemOf(n) == elem[TypeOf(n)]

Structs == {t \in Type : kind[t] = "struct"}
Containers == {t \in Type : kind[t] \in {"seq", "map"}}

(* What parseRules accepts: nothing but required on a struct or an enum,   *)
(* and dive only into a slice or an array.                                 *)
RulesOn(t) ==
    IF t \in Structs \cup Enum THEN {{}, {"required"}} ELSE {{}, {"required", "check"}}
Elem == [type : Type, ptr : BOOLEAN]
FieldTo(t) ==
    [type : {t}, ptr : BOOLEAN, own : RulesOn(t),
     dive : IF kind[t] = "seq" THEN RulesOn(elem[t].type) ELSE {{}}]
Field == UNION {FieldTo(t) : t \in Type}
FieldLists(most) == UNION {[1..m -> Field] : m \in 0..most}

TypeRules(t) == IF t \in Enum THEN {"enum"} ELSE {}

(* A struct holds itself only through a pointer, a slice or a map.         *)
HeldIn(t) == {fields[t][i].type : i \in {j \in DOMAIN fields[t] : ~fields[t][j].ptr}}
Sized == \A S \in SUBSET Structs : S # {} => \E t \in S : HeldIn(t) \cap S = {}

-----------------------------------------------------------------------------
(* Values.  A scalar is zero, keeps its rules (good) or breaks them (bad); *)
(* zero breaks them too, where it is looked at.                            *)

V(class, kids) == [ptr |-> FALSE, class |-> class, kids |-> kids]
Nil == [ptr |-> TRUE, class |-> "nil", kids |-> <<>>]

Absent(v) == v.class = "nil"
Empty(v) == ~v.ptr /\ v.class = "zero"
StructV(kids) == V(IF \A i \in DOMAIN kids : Absent(kids[i]) \/ Empty(kids[i]) THEN "zero" ELSE "bad", kids)

(* Below is what the values of each type are one level down, d how many    *)
(* pointers and containers may be around them.                             *)
Held(Below, d, s) == \* in a field or an element s
    IF ~s.ptr THEN Below[d][s.type]
    ELSE {Nil} \cup {[v EXCEPT !.ptr = TRUE] : v \in IF d = 0 THEN {} ELSE Below[d - 1][s.type]}
FieldValues(Below, d, t) ==
    LET Upto[i \in 0..Len(fields[t])] ==
            IF i = 0 THEN {<<>>}
            ELSE {Append(ks, v) : ks \in Upto[i - 1], v \in Held(Below, d, fields[t][i])}
    IN  Upto[Len(fields[t])]
ElemValues(Below, d, t) ==
    IF d = 0 THEN {}
    ELSE UNION {[1..m -> Held(Below, d - 1, elem[t])] : m \in 1..(IF d = MaxDepth THEN MaxLen ELSE 1)}
ValuesOf(Below, d, t) ==
    CASE kind[t] = "scalar" -> {V(c, <<>>) : c \in {"zero", "good", "bad"}}
      [] kind[t] = "struct" -> {StructV(ks) : ks \in FieldValues(Below, d, t)}
      [] OTHER -> {V("zero", <<>>)} \cup {V("bad", ks) : ks \in ElemValues(Below, d, t)}

(* The values of the request within the bounds.                            *)
Values ==
    LET Of[n \in 0..MaxNest] ==
            [d \in 0..MaxDepth |-> [t \in Type |-> IF n = 0 THEN {} ELSE ValuesOf(Of[n - 1], d, t)]]
    IN  Of[MaxNest][MaxDepth][Root]

-----------------------------------------------------------------------------
Call(n) == [node |-> n, next |-> 1]
Scan(i, changed) == [at |-> i, changed |-> changed]

Init ==
    /\ kind \in {k \in [Type -> {"struct", "seq", "map", "scalar"}] :
                    k[Root] = "struct" /\ \A t \in Type : k[t] = "scalar" <=> t \in Scalar \cup Enum}
    /\ elem \in [Containers -> Elem]
    /\ fields \in {f \in [Structs -> FieldLists(MaxFields)] :
                      \A t \in Structs \ {Root} : Len(f[t]) <= MaxInner}
    /\ Sized
    /\ phase = "plan"
    /\ calls = <<Call(Request)>>
    /\ nodes = {}
    /\ all = <<Request>>
    /\ live = {}
    /\ pass = Scan(1, FALSE)
    /\ plan = [n \in Node |-> <<>>]
    /\ value = Nil
    /\ walk = <<>>
    /\ segs = <<>>
    /\ errs = <<>>

-----------------------------------------------------------------------------
(* compileValidator and nodeFor: the recursion over the types.             *)

Caller == Last(calls)
ChildTypes(n) == IF KindOf(n) = "struct" THEN [i \in DOMAIN FieldsOf(n) |-> FieldsOf(n)[i].type]
                 ELSE <<ElemOf(n).type>>
AtChild == Caller.next <= Len(ChildTypes(Caller.node))
Child == ChildTypes(Caller.node)[Caller.next]
Advanced(stack) == [stack EXCEPT ![Len(stack)].next = @ + 1]

(* A type met before, or still under construction, has its node (or nil).  *)
Reuse ==
    /\ phase = "plan"
    /\ AtChild
    /\ Child \in nodes \/ kind[Child] = "scalar"
    /\ nodes' = nodes \cup {Child}
    /\ calls' = Advanced(calls)
    /\ UNCHANGED <<types, phase, all, live, pass, plan, value, walking>>

(* Any other gets a node, a placeholder until its own call returns.        *)
NodeFor ==
    /\ phase = "plan"
    /\ AtChild
    /\ Child \notin nodes /\ kind[Child] # "scalar"
    /\ nodes' = nodes \cup {Child}
    /\ calls' = Append(Advanced(calls), Call(Child))
    /\ UNCHANGED <<types, phase, all, live, pass, plan, value, walking>>

Built ==
    /\ phase = "plan"
    /\ ~AtChild
    /\ calls' = Front(calls)
    /\ IF Len(calls) = 1 THEN phase' = "mark" /\ UNCHANGED all
       ELSE phase' = phase /\ all' = Append(all, Caller.node)
    /\ UNCHANGED <<types, nodes, live, pass, plan, value, walking>>

-----------------------------------------------------------------------------
(* resolveLiveness                                                         *)

(* f.sub or n.elem: the node of a type, or nil.                            *)
Sub(t) == IF kind[t] = "scalar" THEN None ELSE t

FieldLeads(f, L) == f.own # {} \/ TypeRules(f.type) # {} \/ f.dive # {} \/ Sub(f.type) \in L

(* reachesRule, L being the nodes that are live.                           *)
ReachesRule(n, L) ==
    IF KindOf(n) = "struct" THEN \E i \in DOMAIN FieldsOf(n) : FieldLeads(FieldsOf(n)[i], L)
    ELSE TypeRules(ElemOf(n).type) # {} \/ Sub(ElemOf(n).type) \in L

Mark ==
    /\ phase = "mark"
    /\ pass.at <= Len(all)
    /\ LET n == all[pass.at]
           found == n \notin live /\ ReachesRule(n, live)
       IN  /\ live' = IF found THEN live \cup {n} ELSE live
           /\ pass' = Scan(pass.at + 1, pass.changed \/ found)
    /\ UNCHANGED <<types, phase, calls, nodes, all, plan, value, walking>>

\* mutant: c.all is scanned once
PassEndsMarking ==
    /\ phase = "mark"
    /\ pass.at > Len(all)
    /\ phase' = "prune"
    /\ UNCHANGED <<types, calls, nodes, all, live, pass, plan, value, walking>>

PassEnds ==
    /\ phase = "mark"
    /\ pass.at > Len(all)
    /\ pass' = Scan(1, FALSE)
    /\ phase' = IF pass.changed THEN "mark" ELSE "prune"
    /\ UNCHANGED <<types, calls, nodes, all, live, plan, value, walking>>

\* mutant: a field's element rules are forgotten
KeepsLiveSub(f) == Sub(f.type) \in live

(* A sub that leads nowhere is dropped, unless element rules are checked   *)
(* through it, and then a field without rules or a sub.                    *)
KeepsSub(f) == Sub(f.type) # None /\ (Sub(f.type) \in live \/ f.dive # {})
Kept(n) ==
    LET Keeps(f) == KeepsSub(f) \/ f.own # {} \/ TypeRules(f.type) # {}
    IN  [i \in {j \in DOMAIN FieldsOf(n) : Keeps(FieldsOf(n)[j])} |-> KeepsSub(FieldsOf(n)[i])]

Prune ==
    /\ phase = "prune"
    /\ plan' = [n \in Node |-> IF n \in Range(all) /\ KindOf(n) = "struct" THEN Kept(n) ELSE <<>>]
    /\ phase' = "decode"
    /\ UNCHANGED <<types, calls, nodes, all, live, pass, value, walking>>

-----------------------------------------------------------------------------
(* validate: noParent is 0, and a segment is its parent and its position.  *)

noParent == 0
Seg(parent, at) == [parent |-> parent, at |-> at]

(* writePath: the path of the segment at index s.                          *)
PathTo(s, ss) ==
    LET Path[i \in 0..Len(ss)] ==
            IF i = noParent THEN <<>> ELSE Append(Path[ss[i].parent], ss[i].at)
    IN  Path[s]

Check(n, v, parent, dive) == [node |-> n, of |-> v, parent |-> parent, dive |-> dive, next |-> 1]

(* The elements of the request's own slices and maps, together.            *)
Elements(v) ==
    FoldLeft(LAMBDA n, i : IF fields[Root][i].type \in Containers THEN n + Len(v.kids[i].kids) ELSE n,
             0, [i \in DOMAIN v.kids |-> i])

(* Any request of the type is decoded; the walk begins if anything is live. *)
Decode ==
    /\ phase = "decode"
    /\ value' \in {v \in Values : Elements(v) <= MaxLen}
    /\ IF Request \in live
       THEN phase' = "check" /\ walk' = <<Check(Request, value', noParent, {})>>
       ELSE phase' = "hook" /\ UNCHANGED walk
    /\ UNCHANGED <<types, compiling, segs, errs>>

(* checkRules: the rules that fail on v.  required itself fails only when  *)
(* the value is absent, or empty and no pointer.                           *)
Failing(v, rules) ==
    IF Absent(v) \/ Empty(v) THEN rules \cap {"required"}
    ELSE IF v.class = "good" THEN {} ELSE rules \ {"required"}

(* Failures at a path, in the order of the tag; the type's rule is last.   *)
Fail(path, v, rules) ==
    LET Of(r) == IF r \in Failing(v, rules) THEN <<[path |-> path, rule |-> r]>> ELSE <<>>
    IN  Of("required") \o Of("check") \o Of("enum")

Here == Last(walk)

Past(i) == [walk EXCEPT ![Len(walk)].next = i + 1]

(* One field: its rules, then its value's plan.                            *)
Due(c) == {i \in DOMAIN plan[c.node] : c.next <= i}

CheckField ==
    /\ phase = "check"
    /\ KindOf(Here.node) = "struct"
    /\ Due(Here) # {}
    /\ LET i == Min(Due(Here))
           f == FieldsOf(Here.node)[i]
           v == Here.of.kids[i]
       IN  /\ errs' = errs \o Fail(Append(PathTo(Here.parent, segs), i), v, f.own \cup TypeRules(f.type))
           /\ IF plan[Here.node][i] /\ ~Absent(v)
              THEN /\ segs' = Append(segs, Seg(Here.parent, i))
                   /\ walk' = Append(Past(i), Check(f.type, v, Len(segs'), f.dive))
              ELSE walk' = Past(i) /\ UNCHANGED segs
    /\ UNCHANGED <<types, phase, compiling, value>>

(* One element or map value: the rules after dive if it is an element,     *)
(* those of its type, then its own plan, which takes no dive with it.      *)
CheckElem ==
    /\ phase = "check"
    /\ KindOf(Here.node) # "struct"
    /\ Here.next <= Len(Here.of.kids)
    /\ LET v == Here.of.kids[Here.next]
           e == ElemOf(Here.node)
           s == Append(segs, Seg(Here.parent, Here.next))
           dive == IF KindOf(Here.node) = "seq" THEN Here.dive ELSE {}
       IN  /\ errs' = errs \o Fail(PathTo(Len(s), s), v, dive) \o Fail(PathTo(Len(s), s), v, TypeRules(e.type))
           /\ IF Sub(e.type) \in live /\ ~Absent(v)
              THEN segs' = s /\ walk' = Append(Past(Here.next), Check(e.type, v, Len(s), {}))
              ELSE walk' = Past(Here.next) /\ UNCHANGED segs
    /\ UNCHANGED <<types, phase, compiling, value>>

(* A call returns, and its caller pops the segment it pushed for it.       *)
CheckReturns ==
    /\ phase = "check"
    /\ IF KindOf(Here.node) = "struct" THEN Due(Here) = {} ELSE Here.next > Len(Here.of.kids)
    /\ walk' = Front(walk)
    /\ IF Len(walk) = 1 THEN phase' = "hook" /\ UNCHANGED segs
       ELSE phase' = phase /\ segs' = SubSeq(segs, 1, Here.parent - 1)
    /\ UNCHANGED <<types, compiling, value, errs>>

(* customValidation: the request's Validate method, which may add one      *)
(* failure of its own, is called whatever the rules found.                 *)
Hook ==
    /\ phase = "hook"
    /\ phase' = "done"
    /\ errs' \in {errs, Append(errs, [path |-> <<>>, rule |-> "hook"])}
    /\ UNCHANGED <<types, compiling, value, walk, segs>>

Compile == Reuse \/ NodeFor \/ Built \/ Mark \/ PassEnds \/ Prune
Validate == Decode \/ CheckField \/ CheckElem \/ CheckReturns \/ Hook

Next == Compile \/ Validate

Spec == Init /\ [][Next]_vars

-----------------------------------------------------------------------------
Planned == Range(all)

(* The variables keep their types.                                         *)
TypeOK ==
    /\ phase \in {"plan", "mark", "prune", "decode", "check", "hook", "done"}
    /\ calls \in Seq([node : Node, next : Nat \ {0}])
    /\ nodes \subseteq Type
    /\ all \in Seq(Node)
    /\ live \subseteq Node
    /\ pass \in [at : Nat \ {0}, changed : BOOLEAN]
    /\ DOMAIN plan = Node

(* S holds every node of the plan through which it leads to a rule.        *)
Closed(S) == \A n \in Planned : ReachesRule(n, S) => n \in S

(* A node is live exactly when some rule can be reached through it, in     *)
(* recursive types too: no set that is closed leaves a live node out, and  *)
(* the live nodes are closed themselves when the marking stops.            *)
LiveIsExact ==
    /\ phase \in {"mark", "prune"} => \A S \in SUBSET Node : Closed(S) => live \subseteq S
    /\ phase = "prune" => Closed(live)
=============================================================================
