----------------------------- MODULE MCReading ------------------------------
(* Reading on every header of a few characters, on layouts of four structs *)
(* and on requests to a struct of two fields.                              *)
EXTENDS Reading

CONSTANTS R, E1, E2, E3

UpTo(n, S) == UNION {[1..m -> S] : m \in 0..n}

MCScopes == UpTo(2, {Plain, Other})

Leaves == {GoField("x", NoTag, ""), GoField("y", NoTag, ""), GoField("y", "x", "")}
RootLeaves ==
    Leaves \cup {GoField("x", NoTag, "query"), GoField("x", Skip, "query"),
                 [GoField("x", NoTag, "query") EXCEPT !.exported = FALSE]}
RootFields ==
    RootLeaves \cup {Embedded(t, NoTag, FALSE) : t \in {E1, E2, E3}}
               \cup {Embedded(E1, NoTag, TRUE), Embedded(E1, "x", FALSE),
                          [Embedded(E1, "x", FALSE) EXCEPT !.exported = FALSE]}
InnerFields == Leaves \cup {Embedded(t, NoTag, ptr) : t \in {E1, E2, E3}, ptr \in BOOLEAN}

Layout(r, e1, e2, e3) ==
    [t \in Struct |-> CASE t = R -> r [] t = E1 -> e1 [] t = E2 -> e2 [] t = E3 -> e3]
MCLayouts == {Layout(r, e1, e2, e3) : r \in UpTo(2, RootFields), e1, e2, e3 \in UpTo(1, InnerFields)}

Params == {GoField("x", NoTag, "query"), GoField("y", "x", "header"), GoField("x", Skip, "query"), GoField("y", NoTag, "")}
MCBindLayouts == {Layout(r, <<>>, <<>>, <<>>) : r \in UpTo(2, Params)}
MCValues == UpTo(2, {"", "g", "h", "bad"})
=============================================================================
