----------------------------- MODULE KeyHeader ------------------------------
(***************************************************************************)
(* How the value of an Idempotency-Key header is read, and the store key   *)
(* it becomes (idempotency.go).  A header is a sequence of characters, one *)
(* of each kind the parser tells apart.                                    *)
(***************************************************************************)
EXTENDS Naturals, Sequences, SequencesExt

CONSTANT maxIdempotencyKeyLen
ASSUME KeyLenAssumption == maxIdempotencyKeyLen \in Nat \ {0}

Plain == "a"   \* printable ASCII but a space, a quote and a backslash
Space == " "
Tab == "\t"
Quote == "\""
Backslash == "\\"
Other == "\n"  \* any other character
Char == {Plain, Space, Tab, Quote, Backslash, Other}
Blank == {Space, Tab}

Malformed == <<>>  \* the answer for a header without a key

isIdempotencyKeyChar(c) == c \in {Plain, Space}

(* strings.Trim                                                            *)
Trimmed(v) ==
    LET kept == {i \in 1..Len(v) : v[i] \notin Blank}
    IN  IF kept = {} THEN <<>>
        ELSE SubSeq(v, CHOOSE i \in kept : \A j \in kept : i <= j,
                       CHOOSE i \in kept : \A j \in kept : j <= i)

FitsLen(key) == Len(key) \in 1..maxIdempotencyKeyLen

(* One character after the opening quote.  at is where the reader is:      *)
(* inside, after a backslash, after the closing quote, or nowhere.         *)
QuotedChar(r, c) ==
    CASE r.at = "escaped" /\ c \in {Quote, Backslash} -> [at |-> "inside", key |-> Append(r.key, c)]
      [] r.at = "inside" /\ c = Backslash -> [r EXCEPT !.at = "escaped"]
      [] r.at = "inside" /\ c = Quote -> [r EXCEPT !.at = IF FitsLen(r.key) THEN "closed" ELSE "lost"]
      [] r.at = "inside" /\ isIdempotencyKeyChar(c) -> [r EXCEPT !.key = Append(@, c)]
      [] OTHER -> [r EXCEPT !.at = "lost"]

parseQuotedIdempotencyKey(v) ==
    LET r == FoldLeft(QuotedChar, [at |-> "inside", key |-> <<>>], Tail(v))
    IN  IF r.at = "closed" THEN r.key ELSE Malformed

parseBareIdempotencyKey(v) ==
    IF FitsLen(v) /\ \A i \in 1..Len(v) : isIdempotencyKeyChar(v[i]) THEN v ELSE Malformed

\* mutant: the limit is on the characters sent, escapes and quotes included
ParseWithinRawLimit(header) ==
    LET v == Trimmed(header)
    IN  IF ~FitsLen(v) THEN Malformed
        ELSE IF v[1] = Quote THEN parseQuotedIdempotencyKey(v)
        ELSE parseBareIdempotencyKey(v)

parseIdempotencyKey(header) ==
    LET v == Trimmed(header)
    IN  IF v # <<>> /\ v[1] = Quote THEN parseQuotedIdempotencyKey(v)
        ELSE parseBareIdempotencyKey(v)

(* What is hashed; two store keys are equal when these are.                *)
idempotencyStoreKey(scope, key) == scope \o <<Other>> \o key

-----------------------------------------------------------------------------
(* The reference: the keys there are, and the headers each may be sent in. *)
Keys == UNION {[1..n -> {Plain, Space, Quote, Backslash}] : n \in 1..maxIdempotencyKeyLen}

Escaped(key) ==
    FlattenSeq([i \in 1..Len(key) |->
                  IF key[i] \in {Quote, Backslash} THEN <<Backslash, key[i]>> ELSE <<key[i]>>])

Forms(key) ==
    {<<Quote>> \o Escaped(key) \o <<Quote>>} \cup
    (IF /\ {key[1], key[Len(key)]} \subseteq {Plain}
        /\ \A i \in 1..Len(key) : key[i] \in {Plain, Space}
     THEN {key} ELSE {})

(* The header is a form of the key between blanks.                         *)
Sends(header, key) ==
    \E form \in Forms(key) : \E i \in 0..Len(header) :
        /\ i + Len(form) <= Len(header)
        /\ SubSeq(header, i + 1, i + Len(form)) = form
        /\ \A j \in 1..Len(header) : j <= i \/ j > i + Len(form) => header[j] \in Blank
=============================================================================
