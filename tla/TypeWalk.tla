------------------------------ MODULE TypeWalk ------------------------------
(***************************************************************************)
(* The two walks that Freeze makes of the types of an action whose method  *)
(* has a body: declChecker (declare.go) refuses a request or a response    *)
(* whose schema would never end, then schemaBuilder (schema.go) writes the *)
(* schemas of those not refused, each mode with components of its own.     *)
(* SchemaFor (standalone.go) checks and builds a request type alone, and   *)
(* names other types.  All of them recurse over the fields in order, and   *)
(* here the recursion is an explicit stack.  The other problems the check  *)
(* looks for (validate rules, examples, EnumValues, parameters) are left   *)
(* out: they concern one field at a time.                                  *)
(*                                                                         *)
(* A type is a node of a graph; pointers are followed, so they are not     *)
(* nodes, and a scalar, an enum or a type that encodes itself is a node    *)
(* without successors.                                                     *)
(***************************************************************************)
EXTENDS Naturals, Sequences, FiniteSets

CONSTANTS
    Type,    \* the Go types of a declaration
    Root,    \* the request struct
    None,    \* no response body
    Kinds,   \* the kinds of type in this instance
    MaxKids, \* bound on the fields of a struct
    MaxOverridden \* bound on the fields with an openapi tag

ASSUME FiniteAssumption == IsFiniteSet(Type)
ASSUME RootAssumption == Root \in Type /\ None \notin Type
ASSUME KindsAssumption == Kinds \subseteq {"component", "inlined", "container"}
ASSUME BoundsAssumption == MaxKids \in Nat /\ MaxOverridden \in Nat

VARIABLES
    kind,     \* component: an exported, named struct; inlined: any other
              \* struct; container: a slice, an array or a map
    kids,     \* the types of a struct's fields in order, or a container's element
    overridden, \* the fields whose schema an openapi tag gives
    response, \* the type of the response body, or None
    phase,    \* "check", then "refused", or "accepted" and "build"; then
              \* "done" or "overflow"
    stack,    \* the calls under way: their type, next field, and c.inlining before
    seen,     \* c.seen
    inlining, \* c.inlining
    schema,   \* whose schema is built: the request's, the response's, or a
              \* standalone one
    named,    \* the types the builder refers to by name
    built     \* those it has interned, as components or in $defs

graph == <<kind, kids, overridden, response>>
builder == <<schema, named>>
vars == <<graph, phase, stack, seen, inlining, builder, built>>

KidsOf(k) == UNION {[1..n -> Type] : n \in IF k = "container" THEN {1} ELSE 0..MaxKids}

Frame(t, enclosing) == [type |-> t, next |-> 1, enclosing |-> enclosing]

Fields == {f \in Type \X (1..MaxKids) : kind[f[1]] # "container" /\ f[2] <= Len(kids[f[1]])}

Components == {t \in Type : kind[t] = "component"}

(* checkAction calls request, which marks the root itself, and then value  *)
(* with the response body.                                                 *)
Init ==
    /\ kind \in [Type -> Kinds]
    /\ kind[Root] # "container"
    /\ kids \in [Type -> UNION {KidsOf(k) : k \in Kinds}]
    /\ \A t \in Type : kids[t] \in KidsOf(kind[t])
    /\ overridden \in {F \in SUBSET Fields : Cardinality(F) <= MaxOverridden}
    /\ response \in Type \cup {None}
    /\ phase = "check"
    /\ stack = <<Frame(Root, {})>>
    /\ seen = {Root}
    /\ inlining = {Root} \cap {t \in Type : kind[t] = "inlined"}
    /\ schema = "request"
    /\ named = {}
    /\ built = {}

-----------------------------------------------------------------------------
(* The call under way, and the type of the field it is at.                 *)
Top == stack[Len(stack)]
AtKid == Top.next <= Len(kids[Top.type])
Kid == kids[Top.type][Top.next]

Advance == [stack EXCEPT ![Len(stack)].next = @ + 1]
Pop == SubSeq(stack, 1, Len(stack) - 1)

-----------------------------------------------------------------------------
(* value refuses an inlined struct inside its own schema.                  *)
RefuseSelf ==
    /\ phase = "check"
    /\ AtKid
    /\ Kid \in inlining
    /\ phase' = "refused"
    /\ UNCHANGED <<graph, builder, stack, seen, inlining, built>>

(* A type already walked is not walked again, wherever it is met.          *)
SkipSeen ==
    /\ phase = "check"
    /\ AtKid
    /\ Kid \in seen \ inlining
    /\ stack' = Advance
    /\ UNCHANGED <<graph, builder, phase, seen, inlining, built>>

InsideOnlyRoot(t, enclosing) == \* mutant: an inlined struct is not tracked
    IF kind[t] = "component" THEN {} ELSE enclosing

(* structFields: the inlined structs whose schemas enclose t's fields; a   *)
(* component's schema is a $ref, so nothing encloses its fields.           *)
Inside(t, enclosing) ==
    CASE kind[t] = "inlined"   -> enclosing \cup {t}
      [] kind[t] = "component" -> {}
      [] kind[t] = "container" -> enclosing

EnterStructs == \* mutant: the elements of a container are not walked
    /\ phase = "check"
    /\ AtKid
    /\ Kid \notin seen \cup inlining
    /\ seen' = seen \cup {Kid}
    /\ IF kind[Kid] = "container"
       THEN stack' = Advance /\ UNCHANGED inlining
       ELSE stack' = Append(Advance, Frame(Kid, inlining)) /\ inlining' = Inside(Kid, inlining)
    /\ UNCHANGED <<graph, builder, phase, built>>

EnterUnmarked == \* mutant: a container is not marked as seen
    /\ phase = "check"
    /\ AtKid
    /\ Kid \notin seen \cup inlining
    /\ seen' = seen \cup ({Kid} \ {t \in Type : kind[t] = "container"})
    /\ stack' = Append(Advance, Frame(Kid, inlining))
    /\ inlining' = Inside(Kid, inlining)
    /\ UNCHANGED <<graph, builder, phase, built>>

Enter ==
    /\ phase = "check"
    /\ AtKid
    /\ Kid \notin seen \cup inlining
    /\ seen' = seen \cup {Kid}
    /\ stack' = Append(Advance, Frame(Kid, inlining))
    /\ inlining' = Inside(Kid, inlining)
    /\ UNCHANGED <<graph, builder, phase, built>>

(* A call returns, and its deferred function restores c.inlining.          *)
Leave ==
    /\ phase = "check"
    /\ ~AtKid
    /\ Len(stack) > 1
    /\ stack' = Pop
    /\ inlining' = Top.enclosing
    /\ UNCHANGED <<graph, builder, phase, seen, built>>

(* The first call returns.                                                 *)
Returned == phase = "check" /\ ~AtKid /\ Len(stack) = 1

CheckResponseKeeping == \* mutant: what enclosed the request is not forgotten
    /\ Returned
    /\ response \notin seen \cup {None}
    /\ seen' = seen \cup {response}
    /\ stack' = <<Frame(response, inlining)>>
    /\ inlining' = Inside(response, inlining)
    /\ UNCHANGED <<graph, builder, phase, built>>

(* The response body is walked next, enclosed by nothing, unless it was    *)
(* met within the request.                                                 *)
CheckResponse ==
    /\ Returned
    /\ response \notin seen \cup {None}
    /\ seen' = seen \cup {response}
    /\ stack' = <<Frame(response, {})>>
    /\ inlining' = Inside(response, {})
    /\ UNCHANGED <<graph, builder, phase, built>>

(* No problem was found.                                                   *)
Accept ==
    /\ Returned
    /\ response \in seen \cup {None}
    /\ phase' = "accepted"
    /\ UNCHANGED <<graph, builder, stack, seen, inlining, built>>

-----------------------------------------------------------------------------
(* The types of a type's fields whose schemas are written in its own       *)
(* (schemaChildren).                                                       *)
Written(t) == {kids[t][i] : i \in {j \in 1..Len(kids[t]) : <<t, j>> \notin overridden}}

(* reachableTypes and holdsItself walk them to the end.                    *)
WalkFrom(S) ==
    LET After[n \in 0..Cardinality(Type)] ==
            IF n = 0 THEN S ELSE After[n - 1] \cup UNION {Written(t) : t \in After[n - 1]}
    IN  After[Cardinality(Type)]

holdsItself(t) == t \in WalkFrom(Written(t))

cyclicTypes == {t \in WalkFrom({Root}) : kind[t] = "component" /\ holdsItself(t)}

BuildFrom(t, what, names) ==
    /\ phase = "accepted"
    /\ phase' = "build"
    /\ stack' = <<Frame(t, {})>>
    /\ inlining' = {}
    /\ schema' = what
    /\ named' = names
    /\ UNCHANGED <<graph, seen>>

(* A document refers to every component.  The request body's own schema is *)
(* inline; the response body's is a reference if it has a name.            *)
BuildBody == BuildFrom(Root, "request", Components) /\ UNCHANGED built
BuildResponse ==
    /\ response # None
    /\ BuildFrom(response, "response", Components)
    /\ built' = {response} \cap Components

(* SchemaFor: only the types on a cycle are, the root with them.           *)
BuildStandalone ==
    /\ response = None
    /\ BuildFrom(Root, "standalone", cyclicTypes)
    /\ built' = {Root} \cap cyclicTypes

(* A recursion deeper than this repeats a type with no component between:  *)
(* it never ends, and the goroutine's stack overflows.                     *)
DepthBound == (Cardinality(Type) + 1) * (Cardinality(Type) + 1)

(* The schema of the type at hand is written out: unless the field's tag   *)
(* gives its schema, or that of a named type, or the placeholder for it,   *)
(* is there already.                                                       *)
Overridden == <<Top.type, Top.next>> \in overridden
Writes == AtKid /\ ~Overridden /\ Kid \notin built

Override ==
    /\ phase = "build"
    /\ AtKid
    /\ Overridden
    /\ stack' = Advance
    /\ UNCHANGED <<graph, builder, phase, seen, inlining, built>>

Refer ==
    /\ phase = "build"
    /\ AtKid
    /\ ~Overridden
    /\ ~Writes
    /\ stack' = Advance
    /\ UNCHANGED <<graph, builder, phase, seen, inlining, built>>

DescendUnlisted == \* mutant: no placeholder is interned
    /\ phase = "build"
    /\ Writes
    /\ Len(stack) < DepthBound
    /\ stack' = Append(Advance, Frame(Kid, {}))
    /\ UNCHANGED <<graph, builder, phase, seen, inlining, built>>

DescendStructs == \* mutant: a container's element schema is left empty
    /\ phase = "build"
    /\ Writes
    /\ Len(stack) < DepthBound
    /\ stack' = IF kind[Kid] = "container" THEN Advance ELSE Append(Advance, Frame(Kid, {}))
    /\ built' = built \cup ({Kid} \cap named)
    /\ UNCHANGED <<graph, builder, phase, seen, inlining>>

(* schemaFor, structOrRef, defsRef: a type is interned before it is built. *)
Descend ==
    /\ phase = "build"
    /\ Writes
    /\ Len(stack) < DepthBound
    /\ stack' = Append(Advance, Frame(Kid, {}))
    /\ built' = built \cup ({Kid} \cap named)
    /\ UNCHANGED <<graph, builder, phase, seen, inlining>>

Return ==
    /\ phase = "build"
    /\ ~AtKid
    /\ Len(stack) > 1
    /\ stack' = Pop
    /\ UNCHANGED <<graph, builder, phase, seen, inlining, built>>

Finish ==
    /\ phase = "build"
    /\ ~AtKid
    /\ Len(stack) = 1
    /\ phase' = "done"
    /\ UNCHANGED <<graph, builder, stack, seen, inlining, built>>

Overflow ==
    /\ phase = "build"
    /\ Writes
    /\ Len(stack) = DepthBound
    /\ phase' = "overflow"
    /\ UNCHANGED <<graph, builder, stack, seen, inlining, built>>

Check == RefuseSelf \/ SkipSeen \/ Enter \/ Leave \/ CheckResponse \/ Accept
Build == BuildBody \/ BuildResponse \/ BuildStandalone \/ Override \/ Refer \/ Descend \/ Return \/ Finish \/ Overflow

Next == Check \/ Build

Spec == Init /\ [][Next]_vars

-----------------------------------------------------------------------------
(* The types a type's fields have; those the check walks as a part of its  *)
(* own, tagged or not; and those whose schemas its own does hold inline.   *)
Kids(t) == {kids[t][i] : i \in 1..Len(kids[t])}
InlineKids(t) == Kids(t) \ Components
Held(t) == Written(t) \ Components

Declared == {Root, response} \ {None}

(* The declared types, and those their fields lead to.                     *)
Reachable ==
    {t \in Type : \A S \in SUBSET Type :
        Declared \subseteq S /\ (\A u \in S : Kids(u) \subseteq S) => t \in S}

(* The type whose schema is built, and those whose schemas it needs.       *)
Documented ==
    LET Start == IF schema = "response" THEN response ELSE Root IN
    {t \in Type : \A S \in SUBSET Type :
        Start \in S /\ (\A u \in S : Written(u) \subseteq S) => t \in S}

(* Some types each hold the schema of another inline: the document that    *)
(* needs one of them would never end.                                      *)
Endless ==
    \E S \in SUBSET (Documented \ Components) :
        S # {} /\ \A t \in S : Written(t) \cap S # {}

(* The schema of t holds its own inline: it never ends.                    *)
RefersToItself(t) ==
    \A S \in SUBSET Type : Held(t) \subseteq S /\ (\A u \in S : Held(u) \subseteq S) => t \in S

(* The type t is u, or one of the types the fields of u lead to with no    *)
(* component on the way.                                                   *)
LeadsTo(u, t) ==
    \A S \in SUBSET Type :
        InlineKids(u) \subseteq S /\ (\A v \in S : InlineKids(v) \subseteq S) => t = u \/ t \in S

(* The fields of t lead back to t by one whose schema an openapi tag gives. *)
TaggedOnCycle(t) ==
    \E f \in overridden :
        LET v == kids[f[1]][f[2]] IN
        LeadsTo(t, f[1]) /\ v \notin Components /\ LeadsTo(v, t)

(* The variables keep their types, and neither walk goes deeper than there *)
(* are types to meet: the check's stops at what it has seen.               *)
TypeOK ==
    /\ kind \in [Type -> Kinds]
    /\ \A t \in Type : kids[t] \in KidsOf(kind[t])
    /\ overridden \subseteq Fields
    /\ phase \in {"check", "accepted", "build", "refused", "done", "overflow"}
    /\ Len(stack) \in 1..DepthBound
    /\ \A i \in 1..Len(stack) :
          /\ stack[i].type \in Type
          /\ stack[i].next \in 1..Len(kids[stack[i].type]) + 1
          /\ stack[i].enclosing \subseteq seen
    /\ seen \subseteq Type
    /\ inlining \subseteq seen
    /\ response \in Type \cup {None}
    /\ schema \in {"request", "response", "standalone"}
    /\ named \subseteq Components
    /\ built \subseteq named

(* The type a refusal names is an inlined struct whose schema would never  *)
(* end (structFields' comment), unless an openapi tag ends it: the check   *)
(* walks a tagged field all the same.  A cycle through a component, and    *)
(* one of the response met within the request, are legal.                  *)
RefusalJustified ==
    phase = "refused" => kind[Kid] = "inlined" /\ (RefersToItself(Kid) \/ TaggedOnCycle(Kid))

(* No type escapes the check: those the walk accepted include every type   *)
(* the request and the response lead to, though it visits each only once.  *)
AllTypesChecked == phase = "accepted" => seen = Reachable

(* The walk of an accepted type ends when its schema does: placeholders    *)
(* break every cycle that goes through a component.                        *)
BuildEnds == phase = "overflow" => Endless

(* The schema of t holds its own, at some depth.                           *)
HoldsOwn(t) ==
    \A S \in SUBSET Type : Written(t) \subseteq S /\ (\A u \in S : Written(u) \subseteq S) => t \in S

(* The document has a component for every $ref in it, and no other; and    *)
(* SchemaFor writes under $defs each type that holds its own schema, if it *)
(* has a name to refer to it by, and no other.                             *)
ComponentsClosed ==
    phase = "done" =>
        built = CASE schema = "standalone" -> {t \in Components \cap Documented : HoldsOwn(t)}
                  [] schema = "request"    -> Components \cap UNION {Written(t) : t \in Documented}
                  [] schema = "response"   -> Components \cap Documented

(* Inlined structs that contain one another with no slice, array, map or   *)
(* component in the declaration are always refused.                        *)
StructCyclesRefused ==
    phase = "overflow" => \E t \in Reachable : kind[t] # "inlined"

-----------------------------------------------------------------------------
(* "Freeze refuses one that refers to itself, whose inlined schema would   *)
(* never end" (structOrRef's comment): one such is never accepted.         *)
SelfReferenceRefused ==
    phase = "accepted" => \A t \in Reachable : kind[t] = "inlined" => ~RefersToItself(t)
=============================================================================
