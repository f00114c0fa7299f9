--------------------------- MODULE ComponentMerge ---------------------------
(***************************************************************************)
(* How the component schemas of an OpenAPI document are put together       *)
(* (schema.go, components and modesDiffer).  The builder has interned each *)
(* named type once as requests read it and once as responses write it.  A  *)
(* name whose two schemas differ, or whose request schema refers to one    *)
(* that does, is emitted twice: the response's as Name and the request's   *)
(* as NameInput, with every request reference to it retargeted.            *)
(*                                                                         *)
(* A schema is its keywords, opaque, and the components it refers to; both *)
(* modes see the same fields of a type, hence the same references.         *)
(***************************************************************************)
EXTENDS Naturals, FiniteSets

CONSTANTS
    Name,     \* the names of the component types
    InputOf,  \* each name with inputSuffix
    Keywords  \* what two schemas of one type may differ in

ASSUME InputAssumption ==
    /\ DOMAIN InputOf = Name
    /\ \A m, n \in Name : InputOf[m] = InputOf[n] => m = n
    /\ \A n \in Name : InputOf[n] # n

VARIABLES
    refs,     \* the components each type refers to
    request,  \* b.request: the keywords of the names interned by requests
    response, \* b.response
    phase,    \* scan, emit, done, or panic
    differs,  \* the names modesDiffer has marked
    pending,  \* the names the scan under way has yet to look at
    changed,  \* did it mark one
    doc       \* the document's components

built == <<refs, request, response>>
vars == <<built, phase, differs, pending, changed, doc>>

Schema(keywords, names) == [keywords |-> keywords, refs |-> names]
Nothing == [n \in {} |-> n]
Both == DOMAIN request \cap DOMAIN response

(* A mode that interns a component interns what it refers to.              *)
Interned == {S \in SUBSET Name : \A n \in S : refs[n] \subseteq S}

(* modesDiffer's first loop compares the two schemas of each name.         *)
Init ==
    /\ refs \in [Name -> SUBSET Name]
    /\ request \in UNION {[S -> Keywords] : S \in Interned}
    /\ response \in UNION {[S -> Keywords] : S \in Interned}
    /\ phase = "scan"
    /\ differs = {n \in Both : request[n] # response[n]}
    /\ pending = Both
    /\ changed = FALSE
    /\ doc = Nothing

-----------------------------------------------------------------------------
(* modesDiffer's second loop ranges over a map, in any order.              *)
Look(n) ==
    /\ phase = "scan"
    /\ n \in pending
    /\ pending' = pending \ {n}
    /\ IF n \notin differs /\ refs[n] \cap differs # {}
       THEN differs' = differs \cup {n} /\ changed' = TRUE
       ELSE UNCHANGED <<differs, changed>>
    /\ UNCHANGED <<built, phase, doc>>

\* mutant: the names are looked at once
ScanEndsFirst ==
    /\ phase = "scan"
    /\ pending = {}
    /\ phase' = "emit"
    /\ UNCHANGED <<built, differs, pending, changed, doc>>

ScanEnds ==
    /\ phase = "scan"
    /\ pending = {}
    /\ IF changed THEN pending' = Both /\ phase' = phase
       ELSE phase' = "emit" /\ UNCHANGED pending
    /\ changed' = FALSE
    /\ UNCHANGED <<built, differs, doc>>

(* Where a request reference to n leads once it is retargeted, from an     *)
(* operation's body or from within a component.                            *)
Target(n) == IF n \in differs THEN InputOf[n] ELSE n

(* <Name>Input may be a component of its own.                              *)
Taken == {InputOf[n] : n \in differs} \cap (DOMAIN request \cup DOMAIN response) # {}

Panics ==
    /\ phase = "emit"
    /\ Taken
    /\ phase' = "panic"
    /\ UNCHANGED <<built, differs, pending, changed, doc>>

\* mutant: only the operations' own references are retargeted
RequestSchemaAsBuilt(n) == Schema(request[n], refs[n])

RequestSchema(n) == Schema(request[n], {Target(m) : m \in refs[n]})

Inputs == {InputOf[n] : n \in differs}
OfRequest(d) == CHOOSE n \in DOMAIN request : Target(n) = d

(* components: every response schema, and the request schemas that differ  *)
(* or have no other.                                                       *)
Emit ==
    /\ phase = "emit"
    /\ ~Taken
    /\ doc' = [d \in DOMAIN response \cup (DOMAIN request \ Both) \cup Inputs |->
                 IF d \in DOMAIN response THEN Schema(response[d], refs[d])
                 ELSE RequestSchema(OfRequest(d))]
    /\ phase' = "done"
    /\ UNCHANGED <<built, differs, pending, changed>>

Next == (\E n \in Name : Look(n)) \/ ScanEnds \/ Panics \/ Emit

Spec == Init /\ [][Next]_vars

-----------------------------------------------------------------------------
(* The variables keep their types.                                         *)
TypeOK ==
    /\ refs \in [Name -> SUBSET Name]
    /\ DOMAIN request \in Interned /\ DOMAIN response \in Interned
    /\ phase \in {"scan", "emit", "done", "panic"}
    /\ differs \subseteq Both
    /\ pending \subseteq Both
    /\ changed \in BOOLEAN

(* S holds every name whose schemas differ or refer to one in S.           *)
Closed(S) ==
    \A n \in Both : request[n] # response[n] \/ refs[n] \cap S # {} => n \in S

(* Exactly the names that have to are split, whatever order the map is     *)
(* scanned in: a cycle of otherwise equal schemas stays whole.             *)
DiffersIsExact ==
    /\ \A S \in SUBSET Both : Closed(S) => differs \subseteq S
    /\ phase # "scan" => Closed(differs)

(* Reading the document from a request's reference, or from a response's,  *)
(* gives the schemas of that mode, at every depth: at each component one   *)
(* comes to, the keywords are the mode's, and each reference leads to      *)
(* where the same is true of the type it stands for.                       *)
ReadsAsBuilt ==
    phase = "done" =>
        /\ \A n \in DOMAIN response :
              n \in DOMAIN doc /\ doc[n] = Schema(response[n], refs[n])
        /\ \A n \in DOMAIN request :
              /\ Target(n) \in DOMAIN doc
              /\ doc[Target(n)] = Schema(request[n], {Target(m) : m \in refs[n]})
=============================================================================
