--------------------------- MODULE RequestFields ----------------------------
(***************************************************************************)
(* Which fields of a request struct a client can set, and how: jsonFields  *)
(* and paramFields (fields.go), the fields compileValidator checks         *)
(* (validate.go), and the binder (decode.go).  A layout gives the fields   *)
(* of each struct type in order.  A field of another struct type that is   *)
(* not embedded is like any other field here.                              *)
(***************************************************************************)
EXTENDS Naturals, Sequences, FiniteSets, SequencesExt

CONSTANTS
    Struct,  \* the struct types of a layout
    Root     \* the request's

ASSUME StructAssumption == IsFiniteSet(Struct) /\ Root \in Struct

NoTag == "no tag"   \* no json tag, or one without a valid name
Skip == "-"

(* A field: its Go name, json tag, the struct it embeds or "", whether     *)
(* through a pointer, whether it is exported, and where else it binds from *)
(* ("" or a parameter location; the parameter's name is then the field's). *)
StructField ==
    [name : Struct \cup STRING, tag : STRING, embeds : Struct \cup {""},
     ptr : BOOLEAN, exported : BOOLEAN, in : STRING]
GoField(name, tag, in) ==
    [name |-> name, tag |-> tag, embeds |-> "", ptr |-> FALSE, exported |-> TRUE, in |-> in]
Embedded(type, tag, ptr) ==
    [name |-> type, tag |-> tag, embeds |-> type, ptr |-> ptr, exported |-> TRUE, in |-> ""]

(* What Go compiles: the fields of a struct have different names, and it   *)
(* embeds itself only behind a pointer.                                    *)
EmbedsByValue(L, t) == {L[t][i].embeds : i \in {j \in DOMAIN L[t] : ~L[t][j].ptr}} \ {""}
IsLayout(L) ==
    /\ L \in [Struct -> Seq(StructField)]
    /\ \A t \in Struct : IsInjective([i \in DOMAIN L[t] |-> L[t][i].name])
    /\ \A S \in SUBSET Struct : S # {} => \E t \in S : EmbedsByValue(L, t) \cap S = {}

Times(n, x) == [i \in 1..n |-> x]
Only(p, x) == IF p THEN <<x>> ELSE <<>>
ForEach(s, Op(_)) == FlattenSeq([i \in 1..Len(s) |-> Op(s[i])])

-----------------------------------------------------------------------------
(* jsonFields explores the embedded structs breadth-first.  A round takes  *)
(* the queue of structs to explore, how often each was met at that depth,  *)
(* the structs explored before and the fields found so far.                *)

Round(queue, count, visited, found) ==
    [queue |-> queue, count |-> count, visited |-> visited, found |-> found]
Queued(type, index, viaPointer) == [type |-> type, index |-> index, viaPointer |-> viaPointer]
Found(name, tagged, index, viaPointer) ==
    [name |-> name, tagged |-> tagged, index |-> index, viaPointer |-> viaPointer]

Considered(f) == f.tag # Skip /\ (f.exported \/ f.embeds # "")
Promotes(f) == Considered(f) /\ f.embeds # "" /\ f.tag = NoTag
IsNamed(f) == Considered(f) /\ ~Promotes(f)

(* A struct met more than once at a depth has its fields recorded twice,   *)
(* so that they conflict.                                                  *)
OneCopy(r, q) == 1  \* mutant: the fields of one of them stand for all
Copies(r, q) == IF r.count[q.type] > 1 THEN 2 ELSE 1

Positions(L, t) == [i \in DOMAIN L[t] |-> i]

FoundIn(L, r, q) ==
    ForEach(Positions(L, q.type),
            LAMBDA i : LET f == L[q.type][i] IN
                Times(IF IsNamed(f) THEN Copies(r, q) ELSE 0,
                      Found(IF f.tag = NoTag THEN f.name ELSE f.tag, f.tag # NoTag,
                            Append(q.index, i), q.viaPointer)))
MetIn(L, q) ==
    ForEach(Positions(L, q.type),
            LAMBDA i : LET f == L[q.type][i] IN
                Only(Promotes(f), Queued(f.embeds, Append(q.index, i), q.viaPointer \/ f.ptr)))

Explore(L, r) ==
    LET current == ForEach(r.queue, LAMBDA q : Only(q.type \notin r.visited, q))
        met == ForEach(current, LAMBDA q : MetIn(L, q))
        First(i) == \A j \in 1..(i - 1) : met[j].type # met[i].type
    IN  Round(FlattenSeq([i \in 1..Len(met) |-> Only(First(i), met[i])]),
              [t \in Struct |-> Cardinality({i \in DOMAIN met : met[i].type = t})],
              r.visited \cup {current[i].type : i \in DOMAIN current},
              r.found \o ForEach(current, LAMBDA q : FoundIn(L, r, q)))

(* Every round but the last visits a struct for the first time.            *)
FieldsFound(L) ==
    LET After[n \in 0..Cardinality(Struct) + 1] ==
            IF n = 0 THEN Round(<<Queued(Root, <<>>, FALSE)>>, [t \in Struct |-> 0], {}, <<>>)
            ELSE Explore(L, After[n - 1])
    IN  After[Cardinality(Struct) + 1].found

(* Sorted by depth and then tagged first, the first field of a name wins   *)
(* unless the next one ties with it on both.                               *)
Beats(f, g) == Len(f.index) < Len(g.index) \/ (Len(f.index) = Len(g.index) /\ f.tagged /\ ~g.tagged)

jsonFields(L) ==
    LET found == FieldsFound(L)
    IN  {found[i] : i \in {j \in DOMAIN found :
            \A k \in DOMAIN found \ {j} : found[k].name = found[j].name => Beats(found[j], found[k])}}

(* paramFields: the positions of the request's own fields with a parameter *)
(* tag; an embedded struct's are no parameters.                            *)
paramFields(L) == {i \in DOMAIN L[Root] : L[Root][i].exported /\ L[Root][i].in # ""}

-----------------------------------------------------------------------------
(* compileValidator: each JSON field, under its parameter's name if it is  *)
(* one too, and each parameter that is no JSON field.                      *)
Checked(name, index) == [name |-> name, index |-> index]

CheckedFields(L) ==
    LET params == paramFields(L)
        Own(f) == Len(f.index) = 1 /\ f.index[1] \in params
        bound == {f.index[1] : f \in {g \in jsonFields(L) : Own(g)}}
    IN  {Checked(IF Own(f) THEN L[Root][f.index[1]].name ELSE f.name, f.index) : f \in jsonFields(L)}
        \cup {Checked(L[Root][i].name, <<i>>) : i \in params \ bound}

-----------------------------------------------------------------------------
(* The binder.  A request's body is one of these, and its parameters are   *)
(* each a sequence of values: "" (empty), good, or bad (it does not        *)
(* convert).                                                               *)
Bodies ==
    {"none",      \* absent, empty, of another Content-Type, or never read
     "value",     \* one JSON value with every field
     "unknown",   \* and one that no field is for
     "more",      \* a value, then another
     "overrun",   \* a value, and the size cap is passed after it
     "malformed", \* no value of the type
     "tooLarge"}  \* the size cap is passed within it

Ok == "ok"

(* decodeBody                                                              *)
BodyError(body, strict) ==
    CASE body = "tooLarge" \/ (body = "overrun" /\ strict) -> "413"
      [] body = "malformed" \/ (body \in {"unknown", "more"} /\ strict) -> "400"
      [] OTHER -> Ok

(* The values of a parameter that count: of a slice all but the empty, of  *)
(* any other field the first, unless it is empty.                          *)
Given(vals) == ForEach(vals, LAMBDA x : Only(x # "", x))
setSlice(vals, old) == IF Given(vals) = <<>> THEN old ELSE Given(vals)
setScalar(vals, old) == IF vals = <<>> \/ vals[1] = "" THEN old ELSE <<vals[1]>>

\* mutant: an empty value is skipped without counting
BadAmongGiven(vals, slice) ==
    LET given == IF slice THEN Given(vals) ELSE vals
        bad == {i \in DOMAIN given : given[i] = "bad"}
    IN  IF bad = {} THEN 0 ELSE CHOOSE i \in bad : \A j \in bad : i <= j

(* The position of the first value that does not convert, or 0.            *)
BadAt(vals, slice) ==
    LET read == IF slice THEN DOMAIN vals ELSE DOMAIN vals \cap {1}
        bad == {i \in read : vals[i] = "bad"}
    IN  IF bad = {} THEN 0 ELSE CHOOSE i \in bad : \A j \in bad : i <= j

(* bind: what each field of the request holds after the body and then each *)
(* parameter in turn, up to the first that fails.                          *)
Bound(L, req) ==
    LET Filled ==
            [i \in DOMAIN L[Root] |->
                IF req.body # "none" /\ \E f \in jsonFields(L) : f.index = <<i>> THEN <<"body">> ELSE <<>>]
        Take[n \in 0..Len(L[Root])] ==
            IF n = 0 THEN [status |-> BodyError(req.body, req.strict), at |-> <<>>, fields |-> Filled]
            ELSE LET r == Take[n - 1]
                     vals == req.vals[n]
                     slice == n \in req.slices
                 IN  IF r.status # Ok \/ n \notin paramFields(L) THEN r
                     ELSE IF BadAt(vals, slice) # 0
                          THEN [r EXCEPT !.status = "422", !.at = <<n, BadAt(vals, slice)>>]
                          ELSE [r EXCEPT !.fields[n] = IF slice THEN setSlice(vals, @) ELSE setScalar(vals, @)]
    IN  Take[Len(L[Root])]
=============================================================================
