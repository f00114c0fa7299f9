--------------------------- MODULE Reading_proofs ---------------------------
(***************************************************************************)
(* Proofs about how an Idempotency-Key header is read, for headers and     *)
(* keys of any length, and about how a request is bound, for layouts of    *)
(* any structs and any values.                                             *)
(***************************************************************************)
EXTENDS Reading, SequenceTheorems, FiniteSetTheorems, TLAPS

(* A set of naturals has a least element: what the proofs below use for    *)
(* induction.  It is that of the intervals below its elements, which are   *)
(* well-founded as finite sets.                                            *)
LEMMA LeastNatural ==
    ASSUME NEW T \in SUBSET Nat, T # {}
    PROVE  \E n \in T : \A m \in T : n <= m
<1> DEFINE R == StrictSubsetOrdering(Nat)
           Below(n) == 0..(n - 1)
           U == {Below(n) : n \in T}
<1>1. IsWellFoundedOn(R, FiniteSubsetsOf(Nat))
  BY FS_StrictSubsetOrderingWellFounded
<1>2. U \subseteq FiniteSubsetsOf(Nat) /\ U # {}
  <2>1. \A n \in T : Below(n) \in SUBSET Nat
    OBVIOUS
  <2>2. \A n \in T : IsFiniteSet(Below(n))
    BY FS_Interval
  <2> HIDE DEF Below
  <2>3. U \subseteq FiniteSubsetsOf(Nat)
    BY <2>1, <2>2 DEF FiniteSubsetsOf
  <2>4. U # {}
    OBVIOUS
  <2> QED
    BY <2>3, <2>4
<1>3. PICK u \in U : \A v \in U : ~(<<v, u>> \in R)
  <2> HIDE DEF R, U
  <2> QED
    BY <1>1, <1>2, WFMin
<1>4. PICK n \in T : u = Below(n)
  OBVIOUS
<1>5. ASSUME NEW m \in T, m < n PROVE FALSE
  <2>1. Below(m) \subseteq Below(n) /\ Below(m) # Below(n)
    <3>1. m \in Below(n) /\ m \notin Below(m)
      BY <1>5
    <3> QED
      BY <1>5, <3>1
  <2>2. Below(m) \in SUBSET Nat /\ Below(n) \in SUBSET Nat
    BY <1>5
  <2>3. <<Below(m), Below(n)>> \in R
    <3> HIDE DEF Below
    <3> QED
      BY <2>1, <2>2 DEF StrictSubsetOrdering
  <2> QED
    BY <1>3, <1>4, <1>5, <2>3
<1> QED
  BY <1>5

-----------------------------------------------------------------------------
(* Sequences, one after the other.                                         *)

LEMMA ConcatIs ==
    ASSUME NEW S, NEW s \in Seq(S), NEW t \in Seq(S)
    PROVE  /\ s \o t \in Seq(S)
           /\ Len(s) \in Nat /\ Len(t) \in Nat /\ Len(s \o t) = Len(s) + Len(t)
           /\ DOMAIN s = 1..Len(s) /\ DOMAIN t = 1..Len(t) /\ DOMAIN (s \o t) = 1..(Len(s) + Len(t))
           /\ \A i \in 1..Len(s) : (s \o t)[i] = s[i]
           /\ \A i \in 1..Len(t) : (s \o t)[Len(s) + i] = t[i]
<1>1. Len(s) \in Nat /\ Len(t) \in Nat /\ DOMAIN s = 1..Len(s) /\ DOMAIN t = 1..Len(t)
  BY LenProperties
<1>2. /\ s \o t \in Seq(S) /\ Len(s \o t) = Len(s) + Len(t)
      /\ \A i \in 1..(Len(s) + Len(t)) : (s \o t)[i] = IF i <= Len(s) THEN s[i] ELSE t[i - Len(s)]
  BY ConcatProperties
<1>3. \A i \in 1..Len(s) : i \in 1..(Len(s) + Len(t)) /\ i <= Len(s)
  BY <1>1
<1>4. ASSUME NEW i \in 1..Len(t) PROVE (s \o t)[Len(s) + i] = t[i]
  <2>1. Len(s) + i \in 1..(Len(s) + Len(t)) /\ ~(Len(s) + i <= Len(s)) /\ (Len(s) + i) - Len(s) = i
    BY <1>1
  <2> QED
    BY <1>2, <2>1
<1>5. DOMAIN (s \o t) = 1..(Len(s) + Len(t))
  BY <1>2, LenProperties
<1> QED
  BY <1>1, <1>2, <1>3, <1>4, <1>5

LEMMA JoinIs ==
    ASSUME NEW s \in Seq(Char), NEW t \in Seq(Char)
    PROVE  /\ s \o t \in Seq(Char)
           /\ Len(s) \in Nat /\ Len(t) \in Nat /\ Len(s \o t) = Len(s) + Len(t)
           /\ \A i \in 1..Len(s) : (s \o t)[i] = s[i]
           /\ \A i \in 1..Len(t) : (s \o t)[Len(s) + i] = t[i]
  BY ConcatIs

LEMMA JoinAgain ==
    ASSUME NEW s \in Seq(Char), NEW t \in Seq(Char), NEW u \in Seq(Char)
    PROVE  (s \o t) \o u = s \o (t \o u)
  BY ConcatAssociative

-----------------------------------------------------------------------------
(* The reader of a quoted key, character by character.                     *)

Places == {"inside", "escaped", "closed", "lost"}
Readers == [at : Places, key : Seq(Char)]
Opened == [at |-> "inside", key |-> <<>>]

LEMMA CharsDiffer ==
    /\ Plain # Space /\ Plain # Tab /\ Plain # Quote /\ Plain # Backslash /\ Plain # Other
    /\ Space # Tab /\ Space # Quote /\ Space # Backslash /\ Space # Other
    /\ Tab # Quote /\ Tab # Backslash /\ Tab # Other
    /\ Quote # Backslash /\ Quote # Other /\ Backslash # Other
  BY DEF Plain, Space, Tab, Quote, Backslash, Other

LEMMA ReaderSteps ==
    ASSUME NEW r \in Readers, NEW c \in Char
    PROVE  QuotedChar(r, c) \in Readers
<1>1. Append(r.key, c) \in Seq(Char)
  BY DEF Readers
<1> QED
  BY <1>1 DEF QuotedChar, Readers, Places

Reader(at, key) == [at |-> at, key |-> key]

LEMMA ReaderMoves ==
    ASSUME NEW r \in Readers, NEW c \in Char
    PROVE  /\ r.at = "escaped" /\ c \in {Quote, Backslash} => QuotedChar(r, c) = Reader("inside", Append(r.key, c))
           /\ r.at = "inside" /\ c = Backslash => QuotedChar(r, c) = Reader("escaped", r.key)
           /\ r.at = "inside" /\ c = Quote =>
                 QuotedChar(r, c) = Reader(IF FitsLen(r.key) THEN "closed" ELSE "lost", r.key)
           /\ r.at = "inside" /\ isIdempotencyKeyChar(c) => QuotedChar(r, c) = Reader("inside", Append(r.key, c))
           /\ \/ r.at = "escaped" /\ c \notin {Quote, Backslash}
              \/ r.at = "inside" /\ c # Backslash /\ c # Quote /\ ~isIdempotencyKeyChar(c)
              \/ r.at \in {"closed", "lost"}
              => QuotedChar(r, c) = Reader("lost", r.key)
<1>1. /\ [r EXCEPT !.at = "escaped"] = Reader("escaped", r.key)
      /\ [r EXCEPT !.at = "closed"] = Reader("closed", r.key)
      /\ [r EXCEPT !.at = "lost"] = Reader("lost", r.key)
  BY DEF Readers, Reader
<1>2. r.at = "inside" => [r EXCEPT !.key = Append(@, c)] = Reader("inside", Append(r.key, c))
  BY DEF Readers, Reader
<1>3. isIdempotencyKeyChar(c) => c # Quote /\ c # Backslash
  BY CharsDiffer DEF isIdempotencyKeyChar
<1>4. "inside" # "escaped" /\ "inside" # "closed" /\ "inside" # "lost" /\ "escaped" # "closed" /\ "escaped" # "lost"
  OBVIOUS
<1>5. r.at = "escaped" /\ c \in {Quote, Backslash} => QuotedChar(r, c) = Reader("inside", Append(r.key, c))
  BY DEF QuotedChar, Reader
<1>6. r.at = "inside" /\ c = Backslash => QuotedChar(r, c) = Reader("escaped", r.key)
  <2>1. ASSUME r.at = "inside", c = Backslash PROVE QuotedChar(r, c) = [r EXCEPT !.at = "escaped"]
    BY <1>3, <1>4, <2>1, CharsDiffer DEF QuotedChar
  <2> QED
    BY <1>1, <2>1
<1>7. r.at = "inside" /\ c = Quote =>
        QuotedChar(r, c) = Reader(IF FitsLen(r.key) THEN "closed" ELSE "lost", r.key)
  <2>1. ASSUME r.at = "inside", c = Quote
        PROVE  QuotedChar(r, c) = [r EXCEPT !.at = IF FitsLen(r.key) THEN "closed" ELSE "lost"]
    BY <1>3, <1>4, <2>1, CharsDiffer DEF QuotedChar
  <2>2. CASE FitsLen(r.key)
    BY <1>1, <2>1, <2>2
  <2>3. CASE ~FitsLen(r.key)
    BY <1>1, <2>1, <2>3
  <2> QED
    BY <2>2, <2>3
<1>8. r.at = "inside" /\ isIdempotencyKeyChar(c) => QuotedChar(r, c) = Reader("inside", Append(r.key, c))
  <2>1. r.at = "inside" /\ isIdempotencyKeyChar(c) => QuotedChar(r, c) = [r EXCEPT !.key = Append(@, c)]
    BY <1>3, <1>4 DEF QuotedChar
  <2> QED
    BY <1>2, <2>1
<1>9. \/ r.at = "escaped" /\ c \notin {Quote, Backslash}
      \/ r.at = "inside" /\ c # Backslash /\ c # Quote /\ ~isIdempotencyKeyChar(c)
      \/ r.at \in {"closed", "lost"}
      => QuotedChar(r, c) = Reader("lost", r.key)
  <2>1. \/ r.at = "escaped" /\ c \notin {Quote, Backslash}
        \/ r.at = "inside" /\ c # Backslash /\ c # Quote /\ ~isIdempotencyKeyChar(c)
        \/ r.at \in {"closed", "lost"}
        => QuotedChar(r, c) = [r EXCEPT !.at = "lost"]
    BY <1>4 DEF QuotedChar
  <2> QED
    BY <1>1, <2>1
<1> QED
  BY <1>5, <1>6, <1>7, <1>8, <1>9

(* What FoldLeft goes by: the reader after a set of characters is the one  *)
(* after those before the last, one character on.                          *)
Folds(h, n, v) ==
    h = [s \in SUBSET (1..n) |->
           IF s = {} THEN Opened ELSE QuotedChar(h[s \ {Max(s)}], v[Max(s)])]

LEMMA LastOf ==
    ASSUME NEW n \in Nat \ {0}, NEW s \in SUBSET (1..n), n \in s
    PROVE  Max(s) = n
<1>1. n \in s /\ \A y \in s : n >= y
  OBVIOUS
<1>2. Max(s) \in s /\ \A y \in s : Max(s) >= y
  BY <1>1 DEF Max
<1>3. Max(s) \in 1..n
  BY <1>2
<1> QED
  BY <1>1, <1>2, <1>3

LEMMA FoldsExist ==
    ASSUME NEW v \in Seq(Char), NEW N \in 0..Len(v)
    PROVE  \E h : Folds(h, N, v)
<1> DEFINE Without == {n \in 0..N : ~\E h : Folds(h, n, v)}
<1>1. ASSUME NEW n \in Without, \A m \in Without : n <= m PROVE FALSE
  <2>1. CASE n = 0
    <3> DEFINE h == [s \in SUBSET (1..0) |-> Opened]
    <3>1. \A s \in SUBSET (1..0) : s = {}
      OBVIOUS
    <3>2. Folds(h, n, v)
      BY <2>1, <3>1 DEF Folds
    <3> QED
      BY <3>2
  <2>2. CASE n # 0
    <3>1. n \in Nat \ {0} /\ n - 1 \in 0..N /\ ~(n <= n - 1)
      BY <2>2
    <3>2. PICK g : Folds(g, n - 1, v)
      BY <1>1, <3>1
    <3> DEFINE h == [s \in SUBSET (1..n) |-> IF n \in s THEN QuotedChar(g[s \ {n}], v[n]) ELSE g[s]]
    <3>3. ASSUME NEW s \in SUBSET (1..n)
          PROVE  h[s] = IF s = {} THEN Opened ELSE QuotedChar(h[s \ {Max(s)}], v[Max(s)])
      <4>1. CASE n \in s
        <5>1. Max(s) = n /\ s \ {n} \in SUBSET (1..n) /\ n \notin s \ {n}
          BY <3>1, <4>1, LastOf
        <5>2. h[s \ {n}] = g[s \ {n}]
          BY <5>1
        <5> QED
          BY <4>1, <5>1, <5>2
      <4>2. CASE n \notin s
        <5>1. s \in SUBSET (1..(n - 1)) /\ h[s] = g[s]
          BY <3>1, <4>2
        <5>2. s \ {Max(s)} \in SUBSET (1..n) /\ n \notin s \ {Max(s)}
          BY <4>2
        <5>3. h[s \ {Max(s)}] = g[s \ {Max(s)}]
          BY <5>2
        <5>4. g[s] = IF s = {} THEN Opened ELSE QuotedChar(g[s \ {Max(s)}], v[Max(s)])
          BY <3>2, <5>1 DEF Folds
        <5> QED
          BY <5>1, <5>3, <5>4
      <4> QED
        BY <4>1, <4>2
    <3>4. Folds(h, n, v)
      BY <3>3 DEF Folds
    <3> QED
      BY <3>4
  <2> QED
    BY <2>1, <2>2
<1>2. Without \in SUBSET Nat
  OBVIOUS
<1>3. Without = {}
  <2> HIDE DEF Without
  <2> QED
    BY <1>1, <1>2, LeastNatural
<1>4. N \in 0..N
  BY LenProperties
<1> QED
  BY <1>3, <1>4

(* So parseQuotedIdempotencyKey reads from left to right.                  *)
Reads(g, v) ==
    /\ g \in [0..Len(v) -> Readers]
    /\ g[0] = Opened
    /\ \A n \in 1..Len(v) : g[n] = QuotedChar(g[n - 1], v[n])

LEMMA FoldReads ==
    ASSUME NEW v \in Seq(Char)
    PROVE  \E g : Reads(g, v) /\ FoldLeft(QuotedChar, Opened, v) = g[Len(v)]
<1> DEFINE h == CHOOSE f : Folds(f, Len(v), v)
           g == [n \in 0..Len(v) |-> h[1..n]]
<1>1. Len(v) \in Nat /\ DOMAIN v = 1..Len(v)
  OBVIOUS
<1>2. Folds(h, Len(v), v)
  BY <1>1, FoldsExist
<1>3. FoldLeft(QuotedChar, Opened, v) = h[1..Len(v)]
  BY <1>1 DEF FoldLeft, MapThenFoldSet, Folds
<1> HIDE DEF h
<1>4. g[0] = Opened
  BY <1>1, <1>2 DEF Folds
<1>5. ASSUME NEW n \in 1..Len(v) PROVE g[n] = QuotedChar(g[n - 1], v[n])
  <2>0. n \in Nat \ {0} /\ n \in 0..Len(v) /\ n - 1 \in 0..Len(v)
    BY <1>1
  <2>1. /\ 1..n \in SUBSET (1..n) /\ n \in 1..n /\ 1..n # {}
        /\ 1..n \in SUBSET (1..Len(v)) /\ (1..n) \ {n} = 1..(n - 1)
    <3>1. \A i \in 1..n : i \in 1..Len(v)
      BY <1>1, <2>0
    <3>2. (1..n) \ {n} = 1..(n - 1)
      BY <2>0
    <3>3. n \in 1..n
      BY <2>0
    <3> QED
      BY <3>1, <3>2, <3>3
  <2>2. Max(1..n) = n
    BY <2>0, <2>1, LastOf
  <2>3. h[1..n] = QuotedChar(h[1..(n - 1)], v[n])
    BY <1>2, <2>1, <2>2 DEF Folds
  <2> QED
    BY <2>0, <2>3
<1> DEFINE Astray == {n \in 0..Len(v) : g[n] \notin Readers}
<1>6. ASSUME NEW n \in Astray, \A m \in Astray : n <= m PROVE FALSE
  <2>1. n # 0
    <3>1. Opened \in Readers
      BY DEF Opened, Readers, Places
    <3> QED
      BY <1>4, <3>1
  <2>2. n \in 1..Len(v) /\ n - 1 \in 0..Len(v) /\ ~(n <= n - 1)
    BY <1>1, <2>1
  <2>3. g[n - 1] \in Readers
    BY <1>6, <2>2
  <2>4. v[n] \in Char
    BY <2>2, ElementOfSeq
  <2>5. g[n] \in Readers
    BY <1>5, <2>2, <2>3, <2>4, ReaderSteps
  <2> QED
    BY <2>5
<1>7. Astray = {}
  <2>1. Astray \in SUBSET Nat
    BY <1>1
  <2> HIDE DEF Astray
  <2> QED
    BY <1>6, <2>1, LeastNatural
<1>8. g \in [0..Len(v) -> Readers]
  BY <1>7
<1>9. Reads(g, v)
  BY <1>4, <1>5, <1>8 DEF Reads
<1>10. g[Len(v)] = h[1..Len(v)]
  BY <1>1
<1> QED
  BY <1>3, <1>9, <1>10

LEMMA ReadsNext ==
    ASSUME NEW v \in Seq(Char), NEW g, Reads(g, v), NEW n \in Nat, n < Len(v)
    PROVE  g[n] \in Readers /\ v[n + 1] \in Char /\ g[n + 1] = QuotedChar(g[n], v[n + 1])
<1>1. n + 1 \in 1..Len(v) /\ n \in 0..Len(v)
  BY LenProperties
<1>2. \A m \in 1..Len(v) : m - 1 = n => g[m] = QuotedChar(g[n], v[m])
  BY DEF Reads
<1>3. n + 1 - 1 = n
  OBVIOUS
<1> QED
  BY <1>1, <1>2, <1>3, ElementOfSeq DEF Reads

-----------------------------------------------------------------------------
(* What a key is sent as between quotes.                                   *)

Escape(c) == IF c \in {Quote, Backslash} THEN <<Backslash, c>> ELSE <<c>>

(* The escaped key after each character.                                   *)
Escapes(e, key) ==
    /\ e \in [0..Len(key) -> Seq(Char)]
    /\ e[0] = <<>>
    /\ \A n \in 1..Len(key) : e[n] = e[n - 1] \o Escape(key[n])

LEMMA EscapeTyped == ASSUME NEW c \in Char PROVE Escape(c) \in Seq(Char)
<1>1. Backslash \in Char
  BY DEF Char
<1>2. <<Backslash, c>> \in Seq(Char) /\ <<c>> \in Seq(Char)
  BY <1>1
<1> QED
  BY <1>2 DEF Escape

LEMMA EscapesNext ==
    ASSUME NEW key \in Seq(Char), NEW e, Escapes(e, key), NEW n \in Nat, n < Len(key)
    PROVE  e[n] \in Seq(Char) /\ e[n + 1] = e[n] \o Escape(key[n + 1])
<1>1. n + 1 \in 1..Len(key) /\ n \in 0..Len(key)
  BY LenProperties
<1>2. \A m \in 1..Len(key) : m - 1 = n => e[m] = e[n] \o Escape(key[m])
  BY DEF Escapes
<1>3. n + 1 - 1 = n
  OBVIOUS
<1>4. e[n + 1] = e[n] \o Escape(key[n + 1])
  <2> DEFINE m == n + 1
  <2>1. m \in 1..Len(key) /\ m - 1 = n
    BY <1>1
  <2> HIDE DEF m
  <2>2. e[m] = e[n] \o Escape(key[m])
    BY <1>2, <2>1
  <2> QED
    BY <2>2 DEF m
<1>5. e[n] \in Seq(Char)
  BY <1>1 DEF Escapes
<1> QED
  BY <1>4, <1>5

LEMMA EscapesExist ==
    ASSUME NEW key \in Seq(Char)
    PROVE  \E e : Escapes(e, key)
<1> DEFINE Upto(n) == \E e \in [0..n -> Seq(Char)] :
                         e[0] = <<>> /\ \A i \in 1..n : e[i] = e[i - 1] \o Escape(key[i])
           Without == {n \in 0..Len(key) : ~Upto(n)}
<1>1. ASSUME NEW n \in Without, \A m \in Without : n <= m PROVE FALSE
  <2>1. CASE n = 0
    <3> DEFINE e == [i \in 0..0 |-> <<>>]
    <3>1. e \in [0..0 -> Seq(Char)] /\ e[0] = <<>>
      OBVIOUS
    <3>2. \A i \in 1..0 : e[i] = e[i - 1] \o Escape(key[i])
      OBVIOUS
    <3>3. Upto(0)
      BY <3>1, <3>2
    <3> HIDE DEF Upto
    <3> QED
      BY <2>1, <3>3
  <2>2. CASE n # 0
    <3>1. n \in 1..Len(key) /\ n - 1 \in 0..Len(key) /\ ~(n <= n - 1)
      BY <2>2
    <3>2. Upto(n - 1)
      BY <1>1, <3>1
    <3>3. PICK d \in [0..(n - 1) -> Seq(Char)] :
                 d[0] = <<>> /\ \A i \in 1..(n - 1) : d[i] = d[i - 1] \o Escape(key[i])
      BY <3>2
    <3> DEFINE e == [i \in 0..n |-> IF i = n THEN d[n - 1] \o Escape(key[n]) ELSE d[i]]
    <3>4. key[n] \in Char
      BY <3>1, ElementOfSeq
    <3>5. d[n - 1] \in Seq(Char)
      BY <3>1, <3>3
    <3>6. d[n - 1] \o Escape(key[n]) \in Seq(Char)
      BY <3>4, <3>5, EscapeTyped, JoinIs
    <3>7. \A i \in 0..n : i # n => i \in 0..(n - 1)
      BY <3>1
    <3>8. e \in [0..n -> Seq(Char)]
      BY <3>3, <3>6, <3>7
    <3>9. e[0] = <<>>
      BY <3>1, <3>3
    <3>10. ASSUME NEW i \in 1..n PROVE e[i] = e[i - 1] \o Escape(key[i])
      <4>1. i \in 0..n /\ i - 1 \in 0..n /\ i - 1 # n /\ (i # n => i \in 1..(n - 1))
        BY <3>1
      <4>2. e[i - 1] = d[i - 1]
        BY <4>1
      <4> HIDE DEF e
      <4>3. CASE i = n
        <5>1. e[n] = d[n - 1] \o Escape(key[n])
          BY <3>1 DEF e
        <5> QED
          BY <4>2, <4>3, <5>1
      <4>4. CASE i # n
        <5>1. e[i] = d[i]
          BY <4>1, <4>4 DEF e
        <5> QED
          BY <3>3, <4>1, <4>2, <4>4, <5>1
      <4> QED
        BY <4>3, <4>4
    <3>11. Upto(n)
      BY <3>8, <3>9, <3>10
    <3> QED
      BY <3>11
  <2> QED
    BY <2>1, <2>2
<1>2. Without \in SUBSET Nat
  <2> HIDE DEF Upto
  <2> QED
    OBVIOUS
<1>3. Without = {}
  <2> HIDE DEF Without
  <2> QED
    BY <1>1, <1>2, LeastNatural
<1>4. Upto(Len(key))
  <2>1. Len(key) \in 0..Len(key)
    BY LenProperties
  <2> HIDE DEF Upto
  <2> QED
    BY <1>3, <2>1
<1> QED
  BY <1>4 DEF Escapes

(* Keys that start alike are escaped alike.                                *)
LEMMA EscapesAgree ==
    ASSUME NEW s \in Seq(Char), NEW t \in Seq(Char), NEW d, NEW e, Escapes(d, s), Escapes(e, t),
           NEW N \in Nat, N <= Len(s), N <= Len(t), \A i \in 1..N : s[i] = t[i]
    PROVE  \A n \in 0..N : d[n] = e[n]
<1> DEFINE Apart == {n \in 0..N : d[n] # e[n]}
<1>1. ASSUME NEW n \in Apart, \A m \in Apart : n <= m PROVE FALSE
  <2>1. n # 0
    BY DEF Escapes
  <2>2. n \in 1..N /\ n \in 1..Len(s) /\ n \in 1..Len(t) /\ n - 1 \in 0..N /\ ~(n <= n - 1)
    BY <2>1, LenProperties
  <2>3. d[n - 1] = e[n - 1]
    BY <1>1, <2>2
  <2>4. d[n] = d[n - 1] \o Escape(s[n]) /\ e[n] = e[n - 1] \o Escape(t[n])
    BY <2>2 DEF Escapes
  <2>5. s[n] = t[n]
    BY <2>2
  <2> QED
    BY <2>3, <2>4, <2>5
<1>2. Apart \in SUBSET Nat
  OBVIOUS
<1>3. Apart = {}
  <2> HIDE DEF Apart
  <2> QED
    BY <1>1, <1>2, LeastNatural
<1> QED
  BY <1>3

(* Escaped is FlattenSeq of the characters' escapes.                       *)
LEMMA EscapedIs ==
    ASSUME NEW key \in Seq(Char), NEW e, Escapes(e, key)
    PROVE  Escaped(key) = e[Len(key)]
<1> DEFINE N == Len(key)
           parts == [i \in 1..N |-> IF key[i] \in {Quote, Backslash} THEN <<Backslash, key[i]>> ELSE <<key[i]>>]
           Flattened(f) == f = [i \in 1..N |-> IF i = 1 THEN parts[i] ELSE f[i - 1] \o parts[i]]
           flat == CHOOSE f : Flattened(f)
<1>1. N \in Nat /\ Len(parts) = N
  BY LenProperties
<1>2. \A i \in 1..N : parts[i] = Escape(key[i])
  BY DEF Escape
<1>3. Escaped(key) = FlattenSeq(parts)
  BY DEF Escaped
<1>4. CASE N = 0
  <2>1. parts = <<>>
    BY <1>4
  <2>2. FlattenSeq(parts) = parts
    BY <1>1, <1>4 DEF FlattenSeq
  <2> QED
    BY <1>3, <1>4, <2>1, <2>2 DEF Escapes
<1>5. CASE N # 0
  <2>1. FlattenSeq(parts) = flat[N]
    <3> HIDE DEF N, parts
    <3> QED
      BY <1>1, <1>5 DEF FlattenSeq
  <2> DEFINE f == [i \in 1..N |-> e[i]]
  <2>2. Flattened(f)
    <3> SUFFICES ASSUME NEW i \in 1..N PROVE f[i] = IF i = 1 THEN parts[i] ELSE f[i - 1] \o parts[i]
      OBVIOUS
    <3> HIDE DEF parts
    <3>1. e[i] = e[i - 1] \o parts[i]
      BY <1>2 DEF Escapes
    <3>2. CASE i = 1
      <4>1. key[i] \in Char
        BY ElementOfSeq
      <4>2. parts[i] \in Seq(Char)
        BY <1>2, <4>1, EscapeTyped
      <4>3. e[i - 1] = <<>>
        BY <3>2 DEF Escapes
      <4> QED
        BY <3>1, <3>2, <4>2, <4>3, ConcatEmptySeq
    <3>3. CASE i # 1
      <4>1. i - 1 \in 1..N
        BY <1>1, <3>3
      <4> QED
        BY <3>1, <3>3, <4>1
    <3> QED
      BY <3>2, <3>3
  <2>3. Flattened(flat)
    <3> HIDE DEF f, Flattened
    <3> QED
      BY <2>2
  <2> HIDE DEF flat, f
  <2> DEFINE Apart == {n \in 1..N : flat[n] # e[n]}
  <2>4. ASSUME NEW n \in Apart, \A m \in Apart : n <= m PROVE FALSE
    <3>1. n \in 1..N /\ flat[n] # e[n]
      OBVIOUS
    <3>2. flat[n] = IF n = 1 THEN parts[n] ELSE flat[n - 1] \o parts[n]
      BY <2>3, <3>1
    <3>3. f[n] = IF n = 1 THEN parts[n] ELSE f[n - 1] \o parts[n]
      BY <2>2, <3>1
    <3> HIDE DEF parts, Flattened
    <3>4. f[n] = e[n] /\ n # 1
      BY <3>1, <3>2, <3>3 DEF f
    <3>5. n - 1 \in 1..N /\ ~(n <= n - 1)
      BY <1>1, <3>1, <3>4
    <3>6. flat[n - 1] = e[n - 1] /\ f[n - 1] = e[n - 1]
      BY <2>4, <3>5 DEF f
    <3> QED
      BY <3>1, <3>2, <3>3, <3>4, <3>6
  <2>5. Apart = {}
    <3>1. Apart \in SUBSET Nat
      OBVIOUS
    <3> HIDE DEF Apart
    <3> QED
      BY <2>4, <3>1, LeastNatural
  <2>6. N \in 1..N
    BY <1>1, <1>5
  <2> QED
    BY <1>3, <2>1, <2>5, <2>6
<1> QED
  BY <1>4, <1>5

LEMMA EscapedAppend ==
    ASSUME NEW key \in Seq(Char), NEW c \in Char
    PROVE  /\ Escaped(key) \in Seq(Char)
           /\ Escaped(Append(key, c)) = Escaped(key) \o Escape(c)
<1> DEFINE N == Len(key)
           longer == Append(key, c)
<1>1. longer \in Seq(Char) /\ Len(longer) = N + 1 /\ longer[N + 1] = c
      /\ (\A i \in 1..N : longer[i] = key[i]) /\ N \in Nat
  BY AppendProperties, LenProperties
<1> HIDE DEF longer
<1>2. PICK d : Escapes(d, key)
  BY EscapesExist
<1>3. PICK e : Escapes(e, longer)
  BY <1>1, EscapesExist
<1>4. d[N] = e[N]
  <2>1. \A n \in 0..N : d[n] = e[n]
    BY <1>1, <1>2, <1>3, EscapesAgree
  <2> QED
    BY <1>1, <2>1
<1>5. e[N + 1] = e[N] \o Escape(c)
  <2>1. N \in Nat /\ N < Len(longer)
    BY <1>1
  <2>2. e[N + 1] = e[N] \o Escape(longer[N + 1])
    <3> HIDE DEF N
    <3> QED
      BY <1>1, <1>3, <2>1, EscapesNext
  <2> QED
    BY <1>1, <2>2
<1>6. Escaped(key) = d[N] /\ Escaped(longer) = e[N + 1]
  BY <1>1, <1>2, <1>3, EscapedIs
<1>7. d[N] \in Seq(Char)
  BY <1>1, <1>2 DEF Escapes
<1> QED
  BY <1>4, <1>5, <1>6, <1>7 DEF longer

LEMMA EscapedEmpty == Escaped(<<>>) = <<>>
<1>1. <<>> \in Seq(Char) /\ Len(<<>>) = 0
  OBVIOUS
<1>2. PICK e : Escapes(e, <<>>)
  BY <1>1, EscapesExist
<1>3. Escaped(<<>>) = e[0]
  BY <1>1, <1>2, EscapedIs
<1> QED
  BY <1>2, <1>3 DEF Escapes

-----------------------------------------------------------------------------
(* What a reader has of the characters read.                               *)

KeyChar == {Plain, Space, Quote, Backslash}

LEMMA KeysAre ==
    ASSUME NEW key
    PROVE  key \in Keys <=> key \in Seq(KeyChar) /\ FitsLen(key)
<1>1. ASSUME key \in Keys PROVE key \in Seq(KeyChar) /\ FitsLen(key)
  <2>1. PICK n \in 1..maxIdempotencyKeyLen : key \in [1..n -> KeyChar]
    BY <1>1 DEF Keys, KeyChar
  <2>2. n \in Nat
    BY <2>1, KeyLenAssumption
  <2>3. key \in Seq(KeyChar) /\ Len(key) = n
    BY <2>1, <2>2
  <2> QED
    BY <2>1, <2>3 DEF FitsLen
<1>2. ASSUME key \in Seq(KeyChar), FitsLen(key) PROVE key \in Keys
  <2>1. key \in [1..Len(key) -> KeyChar]
    BY <1>2, LenProperties
  <2> QED
    BY <1>2, <2>1 DEF Keys, KeyChar, FitsLen
<1> QED
  BY <1>1, <1>2

Tells(r, read) ==
    /\ r.key \in Seq(KeyChar)
    /\ r.at = "inside" => read = Escaped(r.key)
    /\ r.at = "escaped" => read = Escaped(r.key) \o <<Backslash>>
    /\ r.at = "closed" => read = Escaped(r.key) \o <<Quote>> /\ FitsLen(r.key)

LEMMA TellsOn ==
    ASSUME NEW r \in Readers, NEW w \in Seq(Char), Tells(r, w), NEW c \in Char
    PROVE  Tells(QuotedChar(r, c), w \o <<c>>)
<1> DEFINE key == r.key
           more == Append(key, c)
<1>1. key \in Seq(KeyChar) /\ key \in Seq(Char) /\ Escaped(key) \in Seq(Char) /\ r.at \in Places
  BY EscapedAppend DEF Tells, Readers
<1>2. c \in KeyChar => more \in Seq(KeyChar)
  BY <1>1
<1>3. Escaped(more) = Escaped(key) \o Escape(c)
  BY <1>1, EscapedAppend
<1>4. \A at, k : Reader(at, k).at = at /\ Reader(at, k).key = k
  BY DEF Reader
<1> SUFFICES ASSUME NEW q, q = QuotedChar(r, c)
             PROVE  Tells(q, w \o <<c>>)
  OBVIOUS
<1> HIDE DEF key, more
<1>5. CASE r.at = "escaped" /\ c \in {Quote, Backslash}
  <2>0. q = Reader("inside", more)
    BY <1>5, ReaderMoves DEF key, more
  <2>1. q.at = "inside" /\ q.key = more
    BY <1>4, <2>0
  <2>2. w = Escaped(key) \o <<Backslash>>
    BY <1>5 DEF Tells, key
  <2>3. Escape(c) = <<Backslash>> \o <<c>>
    BY <1>5 DEF Escape
  <2>4. w \o <<c>> = Escaped(more)
    <3>1. <<Backslash>> \in Seq(Char) /\ <<c>> \in Seq(Char)
      BY DEF Char
    <3> QED
      BY <1>1, <1>3, <2>2, <2>3, <3>1, JoinAgain
  <2>5. c \in KeyChar
    BY <1>5 DEF KeyChar
  <2> QED
    BY <1>2, <2>1, <2>4, <2>5 DEF Tells
<1>6. CASE r.at = "inside" /\ c = Backslash
  <2>1. q.at = "escaped" /\ q.key = key /\ w = Escaped(key)
    BY <1>4, <1>6, ReaderMoves DEF key, Tells
  <2> QED
    BY <1>1, <1>6, <2>1 DEF Tells
<1>7. CASE r.at = "inside" /\ c = Quote
  <2>1. q.at = (IF FitsLen(key) THEN "closed" ELSE "lost") /\ q.key = key /\ w = Escaped(key)
    BY <1>4, <1>7, ReaderMoves DEF key, Tells
  <2> QED
    BY <1>1, <1>7, <2>1 DEF Tells
<1>8. CASE r.at = "inside" /\ isIdempotencyKeyChar(c)
  <2>0. q = Reader("inside", more)
    BY <1>8, ReaderMoves DEF key, more
  <2>1. q.at = "inside" /\ q.key = more /\ w = Escaped(key)
    BY <1>4, <1>8, <2>0 DEF key, Tells
  <2>2. c \in KeyChar /\ Escape(c) = <<c>>
    BY <1>8, CharsDiffer DEF isIdempotencyKeyChar, KeyChar, Escape
  <2> QED
    BY <1>2, <1>3, <2>1, <2>2 DEF Tells
<1>9. CASE \/ r.at = "escaped" /\ c \notin {Quote, Backslash}
           \/ r.at = "inside" /\ c # Backslash /\ c # Quote /\ ~isIdempotencyKeyChar(c)
           \/ r.at \in {"closed", "lost"}
  <2>1. q.at = "lost" /\ q.key = key
    BY <1>4, <1>9, ReaderMoves DEF key
  <2> QED
    BY <1>1, <2>1 DEF Tells
<1> QED
  BY <1>1, <1>5, <1>6, <1>7, <1>8, <1>9 DEF Places

LEMMA ReadsTell ==
    ASSUME NEW v \in Seq(Char), NEW g, Reads(g, v)
    PROVE  Tells(g[Len(v)], v)
<1> DEFINE Wrong == {n \in 0..Len(v) : ~Tells(g[n], SubSeq(v, 1, n))}
<1>1. Len(v) \in Nat
  BY LenProperties
<1>2. ASSUME NEW n \in Wrong, \A m \in Wrong : n <= m PROVE FALSE
  <2>1. CASE n = 0
    <3>1. SubSeq(v, 1, 0) = <<>>
      BY SubSeqEmpty
    <3>2. Tells(Opened, <<>>)
      BY EscapedEmpty DEF Tells, Opened
    <3> QED
      BY <2>1, <3>1, <3>2 DEF Reads
  <2>2. CASE n # 0
    <3>1. n \in 1..Len(v) /\ n - 1 \in 0..Len(v) /\ ~(n <= n - 1) /\ 1 \in 1..Len(v)
      BY <1>1, <2>2
    <3>2. Tells(g[n - 1], SubSeq(v, 1, n - 1))
      BY <1>2, <3>1
    <3>3. g[n - 1] \in Readers /\ g[n] = QuotedChar(g[n - 1], v[n])
      BY <3>1 DEF Reads
    <3>4. v[n] \in Char /\ SubSeq(v, 1, n - 1) \in Seq(Char)
      <4>1. \A i \in 1..(n - 1) : v[i] \in Char
        BY <3>1, ElementOfSeq
      <4> QED
        BY <3>1, <4>1, ElementOfSeq, SubSeqProperties
    <3>5. SubSeq(v, 1, n) = SubSeq(v, 1, n - 1) \o <<v[n]>>
      BY <3>1, SubSeqRecursiveSecond
    <3>6. Tells(g[n], SubSeq(v, 1, n))
      BY <3>2, <3>3, <3>4, <3>5, TellsOn
    <3> QED
      BY <3>6
  <2> QED
    BY <2>1, <2>2
<1>3. Wrong = {}
  <2>1. Wrong \in SUBSET Nat
    OBVIOUS
  <2> HIDE DEF Wrong
  <2> QED
    BY <1>2, <2>1, LeastNatural
<1>4. Tells(g[Len(v)], SubSeq(v, 1, Len(v)))
  BY <1>1, <1>3
<1> QED
  BY <1>4, SubSeqFull

-----------------------------------------------------------------------------
(* And a key that fits is had from what it is sent as.                     *)

StartsWith(v, w) == Len(w) <= Len(v) /\ \A i \in 1..Len(w) : v[i] = w[i]

LEMMA StartsWithLess ==
    ASSUME NEW v \in Seq(Char), NEW w \in Seq(Char), NEW x \in Seq(Char), StartsWith(v, w \o x)
    PROVE  /\ StartsWith(v, w)
           /\ Len(w) + Len(x) <= Len(v)
           /\ \A i \in 1..Len(x) : v[Len(w) + i] = x[i]
<1>1. /\ Len(w) \in Nat /\ Len(x) \in Nat /\ Len(v) \in Nat
      /\ Len(w \o x) = Len(w) + Len(x)
      /\ \A i \in 1..Len(w) : (w \o x)[i] = w[i]
      /\ \A i \in 1..Len(x) : (w \o x)[Len(w) + i] = x[i]
  BY JoinIs, LenProperties
<1>2. Len(w) + Len(x) <= Len(v) /\ \A i \in 1..(Len(w) + Len(x)) : v[i] = (w \o x)[i]
  BY <1>1 DEF StartsWith
<1>3. ASSUME NEW i \in 1..Len(w) PROVE v[i] = w[i]
  <2>1. i \in 1..(Len(w) + Len(x))
    BY <1>1
  <2> QED
    BY <1>1, <1>2, <2>1
<1>4. ASSUME NEW i \in 1..Len(x) PROVE v[Len(w) + i] = x[i]
  <2>1. Len(w) + i \in 1..(Len(w) + Len(x))
    BY <1>1
  <2> QED
    BY <1>1, <1>2, <2>1
<1> QED
  BY <1>1, <1>2, <1>3, <1>4 DEF StartsWith

(* A character of a key is read from its escape.                           *)
LEMMA ReadsEscape ==
    ASSUME NEW v \in Seq(Char), NEW g, Reads(g, v), NEW w \in Seq(Char), NEW c \in KeyChar,
           StartsWith(v, w \o Escape(c)),
           NEW key \in Seq(Char), g[Len(w)] = Reader("inside", key)
    PROVE  g[Len(w \o Escape(c))] = Reader("inside", Append(key, c))
<1> DEFINE n == Len(w)
<1>1. c \in Char /\ Escape(c) \in Seq(Char) /\ n \in Nat /\ Len(v) \in Nat
  BY EscapeTyped, LenProperties DEF KeyChar, Char
<1>2. /\ Len(w \o Escape(c)) = n + Len(Escape(c))
      /\ n + Len(Escape(c)) <= Len(v)
      /\ \A i \in 1..Len(Escape(c)) : v[n + i] = Escape(c)[i]
  BY <1>1, StartsWithLess, JoinIs
<1>3. \A at, k : Reader(at, k).at = at /\ Reader(at, k).key = k
  BY DEF Reader
<1>4. g[n] = Reader("inside", key)
  OBVIOUS
<1> HIDE DEF n
<1>5. CASE c \in {Quote, Backslash}
  <2>1. Escape(c) = <<Backslash, c>>
    BY <1>5 DEF Escape
  <2>2. Len(Escape(c)) = 2 /\ Escape(c)[1] = Backslash /\ Escape(c)[2] = c
    BY <2>1
  <2>3. n < Len(v) /\ n + 1 \in Nat /\ n + 1 < Len(v) /\ v[n + 1] = Backslash /\ v[n + 2] = c
    BY <1>1, <1>2, <2>2
  <2>4. g[n + 1] = Reader("escaped", key)
    <3>1. g[n] \in Readers /\ v[n + 1] \in Char /\ g[n + 1] = QuotedChar(g[n], v[n + 1])
      BY <1>1, <2>3, ReadsNext
    <3> QED
      BY <1>3, <1>4, <2>3, <3>1, ReaderMoves
  <2>5. g[n + 2] = Reader("inside", Append(key, c))
    <3> DEFINE m == n + 1
    <3>1. m \in Nat /\ m < Len(v) /\ m + 1 = n + 2
      BY <1>1, <2>3
    <3>2. g[m] \in Readers /\ v[m + 1] \in Char /\ g[m + 1] = QuotedChar(g[m], v[m + 1])
      <4> HIDE DEF m
      <4> QED
        BY <3>1, ReadsNext
    <3>3. g[m] = Reader("escaped", key)
      BY <2>4
    <3> HIDE DEF m
    <3> QED
      BY <1>3, <1>5, <2>3, <3>1, <3>2, <3>3, ReaderMoves
  <2> QED
    BY <1>2, <2>2, <2>5
<1>6. CASE c \notin {Quote, Backslash}
  <2>1. Escape(c) = <<c>>
    BY <1>6 DEF Escape
  <2>2. Len(Escape(c)) = 1 /\ Escape(c)[1] = c
    BY <2>1
  <2>3. n < Len(v) /\ v[n + 1] = c
    BY <1>1, <1>2, <2>2
  <2>4. g[n] \in Readers /\ v[n + 1] \in Char /\ g[n + 1] = QuotedChar(g[n], v[n + 1])
    BY <1>1, <2>3, ReadsNext
  <2>5. isIdempotencyKeyChar(c)
    BY <1>6 DEF isIdempotencyKeyChar, KeyChar
  <2>6. g[n + 1] = Reader("inside", Append(key, c))
    BY <1>3, <1>4, <2>3, <2>4, <2>5, ReaderMoves
  <2> QED
    BY <1>2, <2>2, <2>6
<1> QED
  BY <1>5, <1>6

LEMMA ReadsEscaped ==
    ASSUME NEW key \in Seq(KeyChar), NEW v \in Seq(Char), NEW g, Reads(g, v),
           StartsWith(v, Escaped(key))
    PROVE  g[Len(Escaped(key))] = Reader("inside", key)
<1>1. key \in Seq(Char) /\ Len(key) \in Nat /\ \A n \in 1..Len(key) : key[n] \in KeyChar
  <2>1. \A n \in 1..Len(key) : key[n] \in KeyChar
    BY ElementOfSeq
  <2>2. KeyChar \subseteq Char
    BY DEF KeyChar, Char
  <2> QED
    BY <2>1, <2>2
<1>2. PICK e : Escapes(e, key)
  BY <1>1, EscapesExist
<1> DEFINE Late(n) == StartsWith(v, e[n]) /\ g[Len(e[n])] # Reader("inside", SubSeq(key, 1, n))
           Wrong == {n \in 0..Len(key) : Late(n)}
<1>3. ASSUME NEW n \in Wrong, \A m \in Wrong : n <= m PROVE FALSE
  <2>1. CASE n = 0
    <3>1. e[0] = <<>> /\ SubSeq(key, 1, 0) = <<>> /\ Len(e[0]) = 0
      BY <1>2, SubSeqEmpty DEF Escapes
    <3>2. g[0] = Opened
      BY DEF Reads
    <3> QED
      BY <2>1, <3>1, <3>2 DEF Opened, Reader
  <2>2. CASE n # 0
    <3> DEFINE w == e[n - 1]
               c == key[n]
    <3>1. n \in 1..Len(key) /\ n - 1 \in 0..Len(key) /\ ~(n <= n - 1) /\ 1 \in 1..Len(key)
      BY <1>1, <2>2
    <3>2. w \in Seq(Char) /\ c \in KeyChar /\ e[n] = w \o Escape(c) /\ StartsWith(v, e[n])
      BY <1>1, <1>2, <3>1 DEF Escapes
    <3>3. Escape(c) \in Seq(Char)
      BY <3>2, EscapeTyped DEF KeyChar, Char
    <3>4. StartsWith(v, w)
      BY <3>2, <3>3, StartsWithLess
    <3>5. g[Len(w)] = Reader("inside", SubSeq(key, 1, n - 1))
      BY <1>3, <3>1, <3>4
    <3>6. SubSeq(key, 1, n - 1) \in Seq(Char) /\ SubSeq(key, 1, n) = Append(SubSeq(key, 1, n - 1), c)
      <4>1. \A i \in 1..(n - 1) : key[i] \in Char
        BY <1>1, <3>1, ElementOfSeq
      <4>2. SubSeq(key, 1, n - 1) \in Seq(Char)
        BY <3>1, <4>1, SubSeqProperties
      <4>3. SubSeq(key, 1, n) = SubSeq(key, 1, n - 1) \o <<c>>
        BY <1>1, <3>1, SubSeqRecursiveSecond
      <4>4. c \in Char
        BY <3>2 DEF KeyChar, Char
      <4> QED
        BY <4>2, <4>3, <4>4, AppendIsConcat
    <3>7. g[Len(w \o Escape(c))] = Reader("inside", Append(SubSeq(key, 1, n - 1), c))
      <4> DEFINE read == SubSeq(key, 1, n - 1)
      <4>1. read \in Seq(Char) /\ g[Len(w)] = Reader("inside", read)
        BY <3>5, <3>6
      <4>2. w \in Seq(Char) /\ c \in KeyChar /\ StartsWith(v, w \o Escape(c))
        BY <3>2
      <4> HIDE DEF read, w, c
      <4>3. g[Len(w \o Escape(c))] = Reader("inside", Append(read, c))
        BY <4>1, <4>2, ReadsEscape
      <4> QED
        BY <4>3 DEF read
    <3> QED
      BY <3>2, <3>6, <3>7
  <2> QED
    BY <2>1, <2>2
<1>4. Wrong = {}
  <2>1. Wrong \in SUBSET Nat
    <3> HIDE DEF Late
    <3> QED
      OBVIOUS
  <2> HIDE DEF Wrong
  <2> QED
    BY <1>3, <2>1, LeastNatural
<1>5. Escaped(key) = e[Len(key)] /\ SubSeq(key, 1, Len(key)) = key /\ Len(key) \in 0..Len(key)
  BY <1>1, <1>2, EscapedIs, SubSeqFull
<1> QED
  BY <1>4, <1>5

LEMMA QuotedExact ==
    ASSUME NEW v \in Seq(Char), v # <<>>, v[1] = Quote
    PROVE  /\ parseQuotedIdempotencyKey(v) \in {Malformed} \cup Keys
           /\ \A k \in Keys : parseQuotedIdempotencyKey(v) = k <=> v = <<Quote>> \o Escaped(k) \o <<Quote>>
<1> DEFINE w == Tail(v)
           n == Len(w)
           answers == parseQuotedIdempotencyKey(v)
<1>1. w \in Seq(Char) /\ v = <<Quote>> \o w /\ n \in Nat
  <2>1. Len(v) \in Nat /\ Len(v) # 0 /\ 1 \in 1..Len(v) /\ Len(v) \in 1..Len(v)
    BY LenProperties
  <2>2. v = SubSeq(v, 1, Len(v)) /\ w = SubSeq(v, 2, Len(v)) /\ w \in Seq(Char)
    BY SubSeqFull, TailIsSubSeq, HeadTailProperties
  <2>3. SubSeq(v, 1, Len(v)) = <<v[1]>> \o SubSeq(v, 1 + 1, Len(v))
    BY <2>1, SubSeqRecursiveFirst
  <2> QED
    BY <2>2, <2>3, LenProperties
<1>2. PICK g : Reads(g, w) /\ FoldLeft(QuotedChar, Opened, w) = g[n]
  BY <1>1, FoldReads
<1> DEFINE r == g[n]
<1>3. answers = IF r.at = "closed" THEN r.key ELSE Malformed
  BY <1>2 DEF parseQuotedIdempotencyKey, Opened
<1> HIDE DEF w, n, answers
<1>4. Tells(r, w)
  BY <1>1, <1>2, ReadsTell DEF n
<1>5. r.at = "closed" => r.key \in Keys
  BY <1>4, KeysAre DEF Tells
<1>6. Malformed \notin Keys
  BY KeysAre DEF Malformed, FitsLen
<1>7. <<Quote>> \in Seq(Char)
  BY DEF Char
<1> SUFFICES ASSUME NEW k \in Keys
             PROVE  answers = k <=> v = <<Quote>> \o Escaped(k) \o <<Quote>>
  BY <1>3, <1>5 DEF answers
<1>8. k \in Seq(KeyChar) /\ k \in Seq(Char) /\ FitsLen(k)
  <2>1. KeyChar \subseteq Char
    BY DEF KeyChar, Char
  <2> QED
    BY <2>1, KeysAre
<1>9. Escaped(k) \in Seq(Char)
  BY <1>8, EscapedAppend DEF Char
<1>10. <<Quote>> \o Escaped(k) \o <<Quote>> = <<Quote>> \o (Escaped(k) \o <<Quote>>)
  BY <1>7, <1>9, JoinAgain
<1>11. ASSUME answers = k PROVE v = <<Quote>> \o Escaped(k) \o <<Quote>>
  <2>1. r.at = "closed" /\ r.key = k
    BY <1>3, <1>6, <1>11
  <2>2. w = Escaped(k) \o <<Quote>>
    BY <1>4, <2>1 DEF Tells
  <2> QED
    BY <1>1, <1>10, <2>2
<1>12. ASSUME v = <<Quote>> \o Escaped(k) \o <<Quote>> PROVE answers = k
  <2>1. w = Escaped(k) \o <<Quote>>
    <3>1. Escaped(k) \o <<Quote>> \in Seq(Char)
      BY <1>7, <1>9, JoinIs
    <3>2. <<Quote>> \o w = <<Quote>> \o (Escaped(k) \o <<Quote>>)
      BY <1>1, <1>10, <1>12
    <3>3. \A S : \A s, t, u \in Seq(S) : s \o t = s \o u => t = u
      BY ConcatSimplifications
    <3> QED
      BY <1>1, <1>7, <3>1, <3>2, <3>3
  <2> DEFINE m == Len(Escaped(k))
  <2>2. /\ m \in Nat /\ n = m + 1 /\ StartsWith(w, Escaped(k)) /\ w[m + 1] = Quote
    <3>1. StartsWith(w, Escaped(k) \o <<Quote>>)
      BY <2>1 DEF StartsWith
    <3>2. Len(<<Quote>>) = 1 /\ <<Quote>>[1] = Quote /\ 1 \in 1..Len(<<Quote>>)
      OBVIOUS
    <3>3. n = m + 1
      BY <1>7, <1>9, <2>1, <3>2, JoinIs DEF n
    <3>4. StartsWith(w, Escaped(k)) /\ w[m + 1] = Quote
      <4> DEFINE q == <<Quote>>
                 e == Escaped(k)
      <4>1. q \in Seq(Char) /\ e \in Seq(Char) /\ StartsWith(w, e \o q) /\ 1 \in 1..Len(q) /\ q[1] = Quote
        BY <1>7, <1>9, <3>1, <3>2
      <4> HIDE DEF q, e
      <4>2. StartsWith(w, e) /\ \A i \in 1..Len(q) : w[Len(e) + i] = q[i]
        BY <1>1, <4>1, StartsWithLess
      <4>3. w[Len(e) + 1] = Quote
        BY <4>1, <4>2
      <4> QED
        BY <4>2, <4>3 DEF e
    <3> QED
      BY <1>9, <3>3, <3>4, LenProperties
  <2>3. g[m] = Reader("inside", k)
    BY <1>1, <1>2, <1>8, <2>2, ReadsEscaped
  <2>4. g[m] \in Readers /\ w[m + 1] \in Char /\ g[m + 1] = QuotedChar(g[m], w[m + 1])
    <3>1. m < Len(w)
      BY <2>2 DEF n
    <3> HIDE DEF m
    <3> QED
      BY <1>1, <1>2, <2>2, <3>1, ReadsNext
  <2> HIDE DEF m
  <2>5. QuotedChar(g[m], Quote) = Reader("closed", k)
    <3>1. g[m].at = "inside" /\ g[m].key = k
      BY <2>3 DEF Reader
    <3> QED
      BY <1>8, <2>2, <2>4, <3>1, ReaderMoves
  <2>6. r = Reader("closed", k)
    BY <2>2, <2>4, <2>5
  <2> HIDE DEF r
  <2> QED
    BY <1>3, <2>6 DEF Reader
<1> QED
  BY <1>11, <1>12

-----------------------------------------------------------------------------
(* Trimming, and what a header is a form of.                               *)

LEMMA GreatestNatural ==
    ASSUME NEW N \in Nat, NEW T \in SUBSET (1..N), T # {}
    PROVE  \E n \in T : \A m \in T : m <= n
<1> DEFINE U == {N - n : n \in T}
<1>1. U \in SUBSET Nat /\ U # {}
  OBVIOUS
<1>2. PICK u \in U : \A x \in U : u <= x
  <2> HIDE DEF U
  <2> QED
    BY <1>1, LeastNatural
<1>3. PICK n \in T : u = N - n
  OBVIOUS
<1>4. ASSUME NEW m \in T PROVE m <= n
  <2>1. N - n <= N - m
    BY <1>2, <1>3
  <2> QED
    BY <2>1
<1> QED
  BY <1>4

Around(h, a, b) ==
    /\ a \in 1..Len(h) /\ b \in 1..Len(h) /\ a <= b
    /\ h[a] \notin Blank /\ h[b] \notin Blank
    /\ \A j \in 1..Len(h) : j < a \/ j > b => h[j] \in Blank

LEMMA TrimmedIs ==
    ASSUME NEW h \in Seq(Char)
    PROVE  \/ Trimmed(h) = <<>> /\ \A j \in 1..Len(h) : h[j] \in Blank
           \/ \E a, b : Around(h, a, b) /\ Trimmed(h) = SubSeq(h, a, b)
<1> DEFINE kept == {i \in 1..Len(h) : h[i] \notin Blank}
           a == CHOOSE i \in kept : \A j \in kept : i <= j
           b == CHOOSE i \in kept : \A j \in kept : j <= i
<1>1. CASE kept = {}
  BY <1>1 DEF Trimmed
<1>2. CASE kept # {}
  <2>1. Trimmed(h) = SubSeq(h, a, b)
    BY <1>2 DEF Trimmed
  <2>2. Len(h) \in Nat
    BY LenProperties
  <2>3. kept \in SUBSET (1..Len(h)) /\ kept \in SUBSET Nat
    BY <2>2
  <2>4. a \in kept /\ \A j \in kept : a <= j
    <3>1. \E i \in kept : \A j \in kept : i <= j
      <4> HIDE DEF kept
      <4> QED
        BY <1>2, <2>3, LeastNatural
    <3> HIDE DEF kept
    <3> QED
      BY <3>1
  <2>5. b \in kept /\ \A j \in kept : j <= b
    <3>1. \E i \in kept : \A j \in kept : j <= i
      <4> HIDE DEF kept
      <4> QED
        BY <1>2, <2>2, <2>3, GreatestNatural
    <3> HIDE DEF kept
    <3> QED
      BY <3>1
  <2> HIDE DEF a, b
  <2>6. Around(h, a, b)
    BY <2>2, <2>4, <2>5 DEF Around
  <2> QED
    BY <2>1, <2>6
<1> QED
  BY <1>1, <1>2

(* A form of a key begins and ends with what is no blank.                  *)
LEMMA FormsAre ==
    ASSUME NEW k \in Keys, NEW form \in Forms(k)
    PROVE  /\ form \in Seq(Char) /\ Len(form) \in Nat \ {0}
           /\ form[1] \notin Blank /\ form[Len(form)] \notin Blank
<1>1. k \in Seq(Char) /\ Len(k) \in Nat \ {0}
  <2>1. KeyChar \subseteq Char
    BY DEF KeyChar, Char
  <2> QED
    BY <2>1, KeysAre, LenProperties DEF FitsLen
<1>2. Plain \notin Blank /\ Quote \notin Blank
  BY CharsDiffer DEF Blank
<1>3. CASE form = <<Quote>> \o Escaped(k) \o <<Quote>>
  <2> DEFINE q == <<Quote>>
             e == Escaped(k)
  <2>1. q \in Seq(Char) /\ e \in Seq(Char) /\ Len(q) = 1 /\ q[1] = Quote
    BY <1>1, EscapedAppend DEF Char
  <2> HIDE DEF q, e
  <2>2. /\ q \o e \in Seq(Char) /\ Len(q \o e) = 1 + Len(e) /\ Len(e) \in Nat
        /\ 1 \in 1..Len(q) /\ (q \o e)[1] = Quote
    BY <2>1, JoinIs
  <2> DEFINE u == q \o e
  <2>3. form = u \o q
    BY <1>3 DEF q, e
  <2>4. u \in Seq(Char) /\ Len(u) \in Nat \ {0} /\ 1 \in 1..Len(u) /\ u[1] = Quote
    BY <2>2
  <2> HIDE DEF u
  <2>5. /\ form \in Seq(Char) /\ Len(form) = Len(u) + 1
        /\ form[1] = u[1] /\ form[Len(u) + 1] = q[1]
    BY <2>1, <2>2, <2>3, <2>4, JoinIs
  <2> QED
    BY <1>2, <2>1, <2>4, <2>5
<1>4. CASE form = k /\ {k[1], k[Len(k)]} \subseteq {Plain}
  BY <1>1, <1>2, <1>4
<1> QED
  BY <1>3, <1>4 DEF Forms

(* What is sent between blanks is what is left after trimming them.        *)
LEMMA SendsTrimmed ==
    ASSUME NEW h \in Seq(Char), NEW k \in Keys
    PROVE  Sends(h, k) <=> Trimmed(h) \in Forms(k)
<1>1. Len(h) \in Nat
  BY LenProperties
<1>2. ASSUME Sends(h, k) PROVE Trimmed(h) \in Forms(k)
  <2>1. PICK form \in Forms(k), i \in 0..Len(h) :
           /\ i + Len(form) <= Len(h)
           /\ SubSeq(h, i + 1, i + Len(form)) = form
           /\ \A j \in 1..Len(h) : j <= i \/ j > i + Len(form) => h[j] \in Blank
    BY <1>2 DEF Sends
  <2> DEFINE n == Len(form)
             c == i + 1
             d == i + n
  <2>2. /\ form \in Seq(Char) /\ n \in Nat \ {0} /\ form[1] \notin Blank /\ form[n] \notin Blank
    BY <2>1, FormsAre
  <2>3. c \in 1..Len(h) /\ d \in 1..Len(h) /\ c <= d /\ d - c + 1 = n /\ 1 \in 1..(d - c + 1) /\ n \in 1..(d - c + 1)
        /\ c + 1 - 1 = c /\ c + n - 1 = d
    BY <1>1, <2>1, <2>2
  <2>4. SubSeq(h, c, d) = form /\ \A j \in 1..Len(h) : j < c \/ j > d => h[j] \in Blank
    BY <1>1, <2>1, <2>2
  <2> HIDE DEF n, c, d
  <2>5. \A j \in 1..(d - c + 1) : SubSeq(h, c, d)[j] = h[c + j - 1]
    <3>1. \A j \in c..d : h[j] \in Char
      BY <1>1, <2>3, ElementOfSeq
    <3> QED
      BY <2>3, <3>1, SubSeqProperties
  <2>6. h[c] = form[1] /\ h[d] = form[n]
    BY <2>3, <2>4, <2>5
  <2>7. Around(h, c, d)
    BY <2>2, <2>3, <2>4, <2>6 DEF Around
  <2>8. ~\A j \in 1..Len(h) : h[j] \in Blank
    BY <2>7 DEF Around
  <2>9. PICK a, b : Around(h, a, b) /\ Trimmed(h) = SubSeq(h, a, b)
    BY <2>8, TrimmedIs
  <2>10. a = c /\ b = d
    BY <1>1, <2>7, <2>9 DEF Around
  <2> QED
    BY <2>1, <2>4, <2>9, <2>10
<1>3. ASSUME Trimmed(h) \in Forms(k) PROVE Sends(h, k)
  <2> DEFINE form == Trimmed(h)
             n == Len(form)
  <2>1. form \in Seq(Char) /\ n \in Nat \ {0}
    BY <1>3, FormsAre
  <2>2. PICK a, b : Around(h, a, b) /\ form = SubSeq(h, a, b)
    <3>1. form # <<>>
      BY <2>1
    <3> QED
      BY <3>1, TrimmedIs
  <2> HIDE DEF form
  <2>3. a \in 1..Len(h) /\ b \in 1..Len(h) /\ a <= b
    BY <2>2 DEF Around
  <2>4. n = b - a + 1
    <3>1. \A j \in a..b : h[j] \in Char
      BY <1>1, <2>3, ElementOfSeq
    <3> QED
      BY <2>2, <2>3, <3>1, SubSeqProperties
  <2>5. a - 1 \in 0..Len(h) /\ a - 1 + n <= Len(h) /\ a - 1 + 1 = a /\ a - 1 + n = b
    BY <1>1, <2>3, <2>4
  <2>6. \A j \in 1..Len(h) : j <= a - 1 \/ j > a - 1 + n => h[j] \in Blank
    BY <1>1, <2>2, <2>3, <2>5 DEF Around
  <2>7. SubSeq(h, a - 1 + 1, a - 1 + n) = form
    BY <2>2, <2>5
  <2> HIDE DEF n
  <2>8. form \in Forms(k)
    BY <1>3 DEF form
  <2>9. \E i \in 0..Len(h) :
           /\ i + Len(form) <= Len(h)
           /\ SubSeq(h, i + 1, i + Len(form)) = form
           /\ \A j \in 1..Len(h) : j <= i \/ j > i + Len(form) => h[j] \in Blank
    BY <2>5, <2>6, <2>7 DEF n
  <2> QED
    BY <2>8, <2>9 DEF Sends
<1> QED
  BY <1>2, <1>3

-----------------------------------------------------------------------------
(* A header is read as the key it sends.                                   *)
LEMMA ReadExact ==
    ASSUME NEW h \in Seq(Char)
    PROVE  /\ parseIdempotencyKey(h) \in {Malformed} \cup Keys
           /\ \A k \in Keys : Sends(h, k) <=> parseIdempotencyKey(h) = k
<1> DEFINE v == Trimmed(h)
           answers == parseIdempotencyKey(h)
<1>1. /\ v \in Seq(Char) /\ Len(v) \in Nat
      /\ v # <<>> => v[1] \notin Blank /\ v[Len(v)] \notin Blank
  <2>1. CASE v = <<>>
    BY <2>1
  <2>2. CASE v # <<>>
    <3>1. PICK a, b : Around(h, a, b) /\ v = SubSeq(h, a, b)
      BY <2>2, TrimmedIs
    <3> HIDE DEF v
    <3>2. Len(h) \in Nat /\ a \in 1..Len(h) /\ b \in 1..Len(h) /\ a <= b
      BY <3>1, LenProperties DEF Around
    <3>3. \A j \in a..b : h[j] \in Char
      BY <3>2, ElementOfSeq
    <3>4. v \in Seq(Char) /\ Len(v) = b - a + 1 /\ \A j \in 1..(b - a + 1) : v[j] = h[a + j - 1]
      BY <3>1, <3>2, <3>3, SubSeqProperties
    <3>5. 1 \in 1..(b - a + 1) /\ Len(v) \in 1..(b - a + 1) /\ a + 1 - 1 = a /\ a + Len(v) - 1 = b
      BY <3>2, <3>4
    <3>6. v[1] = h[a] /\ v[Len(v)] = h[b]
      BY <3>4, <3>5
    <3> QED
      BY <3>1, <3>4, <3>5, <3>6 DEF Around
  <2> QED
    BY <2>1, <2>2
<1>2. answers = IF v # <<>> /\ v[1] = Quote THEN parseQuotedIdempotencyKey(v) ELSE parseBareIdempotencyKey(v)
  BY DEF parseIdempotencyKey
<1>3. \A k \in Keys : Sends(h, k) <=> v \in Forms(k)
  BY SendsTrimmed
<1>4. Malformed \notin Keys /\ \A k \in Keys : k # <<>> /\ k \in Seq(KeyChar) /\ FitsLen(k)
  BY KeysAre DEF Malformed, FitsLen
<1> HIDE DEF v, answers
<1>5. CASE v # <<>> /\ v[1] = Quote
  <2>1. /\ answers \in {Malformed} \cup Keys
        /\ \A k \in Keys : answers = k <=> v = <<Quote>> \o Escaped(k) \o <<Quote>>
    <3>1. /\ parseQuotedIdempotencyKey(v) \in {Malformed} \cup Keys
          /\ \A k \in Keys : parseQuotedIdempotencyKey(v) = k <=> v = <<Quote>> \o Escaped(k) \o <<Quote>>
      BY <1>1, <1>5, QuotedExact
    <3>2. answers = parseQuotedIdempotencyKey(v)
      BY <1>2, <1>5
    <3> QED
      BY <3>1, <3>2
  <2>2. ASSUME NEW k \in Keys PROVE v \in Forms(k) <=> v = <<Quote>> \o Escaped(k) \o <<Quote>>
    <3>1. v = k => ~({k[1], k[Len(k)]} \subseteq {Plain})
      BY <1>5, CharsDiffer
    <3> QED
      BY <3>1 DEF Forms
  <2> QED
    BY <1>3, <2>1, <2>2 DEF answers
<1>6. CASE ~(v # <<>> /\ v[1] = Quote)
  <2> DEFINE Bare == FitsLen(v) /\ \A i \in 1..Len(v) : isIdempotencyKeyChar(v[i])
  <2>1. answers = IF Bare THEN v ELSE Malformed
    BY <1>2, <1>6 DEF parseBareIdempotencyKey
  <2>2. ASSUME Bare
        PROVE  v \in Keys /\ {v[1], v[Len(v)]} \subseteq {Plain}
               /\ \A i \in 1..Len(v) : v[i] \in {Plain, Space}
    <3>1. \A i \in 1..Len(v) : v[i] \in {Plain, Space}
      BY <2>2 DEF isIdempotencyKeyChar
    <3>2. \A i \in 1..Len(v) : v[i] \in KeyChar
      BY <3>1 DEF KeyChar
    <3>3. v \in Seq(KeyChar)
      BY <1>1, <3>2
    <3>4. Len(v) \in Nat \ {0} /\ 1 \in 1..Len(v) /\ Len(v) \in 1..Len(v)
      BY <1>1, <2>2 DEF FitsLen
    <3>5. v[1] \notin Blank /\ v[Len(v)] \notin Blank
      BY <1>1, <3>4
    <3>6. v[1] = Plain /\ v[Len(v)] = Plain
      BY <3>1, <3>4, <3>5 DEF Blank
    <3> QED
      BY <2>2, <3>1, <3>3, <3>6, KeysAre
  <2> HIDE DEF Bare
  <2>3. ASSUME NEW k \in Keys PROVE v \in Forms(k) <=> answers = k
    <3>1. v # <<Quote>> \o Escaped(k) \o <<Quote>>
      <4>1. <<Quote>> \in Seq(Char) /\ Escaped(k) \in Seq(Char)
        <5>1. KeyChar \subseteq Char
          BY DEF KeyChar, Char
        <5>2. k \in Seq(Char)
          BY <1>4, <5>1
        <5> QED
          BY <5>2, EscapedAppend DEF Char
      <4> DEFINE q == <<Quote>>
                 e == Escaped(k)
      <4>2. q \in Seq(Char) /\ e \in Seq(Char) /\ Len(q) = 1 /\ q[1] = Quote
        BY <4>1
      <4> HIDE DEF q, e
      <4>3. e \o q \in Seq(Char) /\ q \o e \o q = q \o (e \o q)
        <5>1. q \in Seq(Char) /\ e \in Seq(Char)
          BY <4>2
        <5>2. e \o q \in Seq(Char)
          BY <5>1, JoinIs
        <5>3. q \o e \o q = q \o (e \o q)
          BY <5>1, JoinAgain
        <5> QED
          BY <5>2, <5>3
      <4> DEFINE u == e \o q
      <4>4. u \in Seq(Char) /\ q \o e \o q = q \o u
        BY <4>3
      <4> HIDE DEF u
      <4>5. (q \o u)[1] = Quote /\ Len(q \o u) \in Nat \ {0}
        <5>1. q \in Seq(Char) /\ u \in Seq(Char)
          BY <4>2, <4>4
        <5>2. /\ Len(u) \in Nat /\ Len(q \o u) = Len(q) + Len(u)
              /\ \A i \in 1..Len(q) : (q \o u)[i] = q[i]
          BY <5>1, JoinIs
        <5>3. 1 \in 1..Len(q)
          BY <4>2
        <5> QED
          BY <4>2, <5>2, <5>3
      <4>6. v = q \o e \o q => v[1] = Quote /\ v # <<>>
        BY <4>4, <4>5
      <4> QED
        BY <1>6, <4>6 DEF q, e
    <3>2. v \in Forms(k) <=>
             v = k /\ {k[1], k[Len(k)]} \subseteq {Plain} /\ \A i \in 1..Len(k) : k[i] \in {Plain, Space}
      BY <3>1 DEF Forms
    <3>3. CASE Bare
      BY <2>1, <2>2, <3>2, <3>3
    <3>4. CASE ~Bare
      <4>1. answers # k
        BY <1>4, <2>1, <3>4
      <4>2. ASSUME v \in Forms(k) PROVE FALSE
        <5>1. v = k /\ \A i \in 1..Len(v) : v[i] \in {Plain, Space}
          BY <3>2, <4>2
        <5>2. Bare
          BY <1>4, <5>1 DEF Bare, isIdempotencyKeyChar
        <5> QED
          BY <3>4, <5>2
      <4> QED
        BY <4>1, <4>2
    <3> QED
      BY <3>3, <3>4
  <2>4. answers \in {Malformed} \cup Keys
    BY <2>1, <2>2
  <2> QED
    BY <1>3, <2>3, <2>4 DEF answers
<1> QED
  BY <1>5, <1>6

(* A key holds no newline, so what is before the last one is the scope.    *)
LEMMA StoreKeysApart == CallersApart
<1> SUFFICES ASSUME NEW s \in Scopes, NEW t \in Scopes, NEW k \in Keys, NEW l \in Keys,
                    idempotencyStoreKey(s, k) = idempotencyStoreKey(t, l)
             PROVE  s = t /\ k = l
  BY DEF CallersApart
<1> DEFINE mark == <<Other>>
<1>1. s \in Seq(Char) /\ t \in Seq(Char) /\ mark \in Seq(Char) /\ Len(mark) = 1 /\ mark[1] = Other
  BY ScopesAssumption DEF Char
<1>2. \A x \in Keys : x \in Seq(Char) /\ \A i \in 1..Len(x) : x[i] # Other
  <2> SUFFICES ASSUME NEW x \in Keys PROVE x \in Seq(Char) /\ \A i \in 1..Len(x) : x[i] # Other
    OBVIOUS
  <2>1. x \in Seq(KeyChar)
    BY KeysAre
  <2>2. KeyChar \subseteq Char /\ Other \notin KeyChar
    BY CharsDiffer DEF KeyChar, Char
  <2> QED
    BY <2>1, <2>2, ElementOfSeq
<1> HIDE DEF mark
<1>3. s \o mark \o k = t \o mark \o l
  BY DEF idempotencyStoreKey, mark
<1>4. ASSUME NEW x \in Seq(Char), NEW y \in Keys
      PROVE  /\ x \o mark \o y \in Seq(Char)
             /\ Len(x) \in Nat /\ Len(y) \in Nat
             /\ Len(x \o mark \o y) = Len(x) + 1 + Len(y)
             /\ \A i \in 1..Len(x) : (x \o mark \o y)[i] = x[i]
             /\ (x \o mark \o y)[Len(x) + 1] = Other
             /\ \A i \in 1..Len(y) : (x \o mark \o y)[Len(x) + 1 + i] = y[i]
  <2> DEFINE z == x \o mark
  <2>1. y \in Seq(Char) /\ 1 \in 1..Len(mark)
    BY <1>1, <1>2
  <2>2. /\ z \in Seq(Char) /\ Len(z) = Len(x) + 1 /\ Len(x) \in Nat
        /\ \A i \in 1..Len(x) : z[i] = x[i]
        /\ z[Len(x) + 1] = Other
    <3>1. /\ x \o mark \in Seq(Char) /\ Len(x) \in Nat /\ Len(x \o mark) = Len(x) + Len(mark)
          /\ \A i \in 1..Len(x) : (x \o mark)[i] = x[i]
          /\ \A i \in 1..Len(mark) : (x \o mark)[Len(x) + i] = mark[i]
      <4>1. x \in Seq(Char) /\ mark \in Seq(Char)
        BY <1>1
      <4> QED
        BY <4>1, JoinIs
    <3> QED
      BY <1>1, <2>1, <3>1
  <2> HIDE DEF z
  <2> DEFINE u == z \o y
  <2>3. /\ u \in Seq(Char) /\ Len(u) = Len(z) + Len(y) /\ Len(y) \in Nat
        /\ \A i \in 1..Len(z) : u[i] = z[i]
        /\ \A i \in 1..Len(y) : u[Len(z) + i] = y[i]
    BY <2>1, <2>2, JoinIs
  <2> HIDE DEF u
  <2>4. (\A i \in 1..Len(x) : u[i] = x[i]) /\ u[Len(x) + 1] = Other
    <3>1. \A i \in 1..Len(x) : i \in 1..Len(z)
      BY <2>2
    <3>2. Len(x) + 1 \in 1..Len(z)
      BY <2>2
    <3> QED
      BY <2>2, <2>3, <3>1, <3>2
  <2>5. \A i \in 1..Len(y) : u[Len(x) + 1 + i] = y[i]
    BY <2>2, <2>3
  <2>6. Len(u) = Len(x) + 1 + Len(y)
    BY <2>2, <2>3
  <2> QED
    BY <2>2, <2>3, <2>4, <2>5, <2>6 DEF u, z
<1>5. ASSUME NEW x \in Seq(Char), NEW y \in Seq(Char), NEW m \in Keys, NEW n \in Keys,
             x \o mark \o m = y \o mark \o n
      PROVE  ~(Len(x) < Len(y))
  <2> SUFFICES ASSUME Len(x) < Len(y) PROVE FALSE
    OBVIOUS
  <2> DEFINE u == x \o mark \o m
             w == y \o mark \o n
             i == Len(y) - Len(x)
  <2>0. /\ Len(y) \in Nat /\ Len(n) \in Nat /\ Len(w) = Len(y) + 1 + Len(n)
        /\ w[Len(y) + 1] = Other
    BY <1>4
  <2>1. Len(x) \in Nat /\ Len(m) \in Nat /\ Len(u) = Len(x) + 1 + Len(m)
    BY <1>4
  <2>3. u = w
    BY <1>5
  <2>4. \A j \in 1..Len(m) : u[Len(x) + 1 + j] = m[j]
    BY <1>4
  <2> HIDE DEF u, w
  <2>2. i \in 1..Len(m) /\ Len(x) + 1 + i = Len(y) + 1
    BY <2>0, <2>1, <2>3
  <2> HIDE DEF i
  <2>5. m[i] = Other
    BY <2>0, <2>2, <2>3, <2>4
  <2> QED
    BY <1>2, <2>2, <2>5
<1>6. Len(s) = Len(t)
  <2>1. Len(s) \in Nat /\ Len(t) \in Nat
    BY <1>1, LenProperties
  <2>2. ~(Len(s) < Len(t)) /\ ~(Len(t) < Len(s))
    BY <1>1, <1>3, <1>5
  <2> QED
    BY <2>1, <2>2
<1> DEFINE u == s \o mark \o k
<1>7. /\ \A i \in 1..Len(s) : u[i] = s[i] /\ u[i] = t[i]
      /\ Len(k) = Len(l) /\ \A i \in 1..Len(k) : u[Len(s) + 1 + i] = k[i] /\ u[Len(s) + 1 + i] = l[i]
  <2>1. /\ Len(s) \in Nat /\ Len(k) \in Nat /\ Len(u) = Len(s) + 1 + Len(k)
        /\ \A i \in 1..Len(s) : u[i] = s[i]
        /\ \A i \in 1..Len(k) : u[Len(s) + 1 + i] = k[i]
    BY <1>1, <1>4
  <2>2. /\ Len(t) \in Nat /\ Len(l) \in Nat /\ Len(u) = Len(t) + 1 + Len(l)
        /\ \A i \in 1..Len(t) : u[i] = t[i]
        /\ \A i \in 1..Len(l) : u[Len(t) + 1 + i] = l[i]
    <3>1. u = t \o mark \o l
      BY <1>3
    <3> HIDE DEF u
    <3> QED
      BY <1>1, <1>4, <3>1
  <2> HIDE DEF u
  <2> QED
    BY <1>6, <2>1, <2>2
<1> HIDE DEF u
<1>8. s = t
  BY <1>1, <1>6, <1>7, SeqEqual
<1>9. k = l
  BY <1>2, <1>7, SeqEqual
<1> QED
  BY <1>8, <1>9

-----------------------------------------------------------------------------
KInv ==
    asked = "key" =>
        /\ input \in Seq(Char)
        /\ answered => answer = parseIdempotencyKey(input)

LEMMA InitKInv == Init => KInv
<1> SUFFICES ASSUME Init, asked = "key" PROVE input \in Seq(Char) /\ ~answered
  BY DEF KInv
<1>1. ~answered
  BY DEF Init
<1>2. PICK n \in 0..MaxHeader : input \in [1..n -> Char]
  BY DEF Init
<1>3. n \in Nat
  BY BoundAssumption
<1>4. input \in Seq(Char)
  BY <1>2, <1>3
<1> QED
  BY <1>1, <1>4

LEMMA NextKInv == KInv /\ [Next]_vars => KInv'
<1> SUFFICES ASSUME KInv, [Next]_vars PROVE KInv'
  OBVIOUS
<1>1. CASE ReadKey
  BY <1>1 DEF KInv, ReadKey, Answers
<1>2. CASE ReadFields
  BY <1>2 DEF KInv, ReadFields, Answers
<1>3. CASE BindRequest
  BY <1>3 DEF KInv, BindRequest, Answers
<1>4. CASE UNCHANGED vars
  BY <1>4 DEF KInv, vars
<1> QED
  BY <1>1, <1>2, <1>3, <1>4 DEF Next

(* Every Idempotency-Key header is read as the one key it sends, quoted or *)
(* bare, or refused when it sends none, and no two callers' keys meet in   *)
(* the store, whatever the lengths of headers, keys and scopes.            *)
THEOREM KeysRead == Spec => []KeyRead
<1>1. KInv => KeyRead
  <2> SUFFICES ASSUME KInv, asked = "key", answered
               PROVE  /\ answer = Malformed \/ answer \in Keys
                      /\ \A k \in Keys : Sends(input, k) <=> answer = k
                      /\ CallersApart
    BY DEF KeyRead
  <2>1. input \in Seq(Char) /\ answer = parseIdempotencyKey(input)
    BY DEF KInv
  <2> QED
    BY <2>1, ReadExact, StoreKeysApart
<1> QED
  BY InitKInv, NextKInv, <1>1, PTL DEF Spec

-----------------------------------------------------------------------------
(* What is defined by recursion on a natural number exists, when each step *)
(* stays in a set.                                                         *)
StaysIn(S, N, step) == \A n \in 1..N : \A s \in S : step[n][s] \in S
Recurs(h, S, N, b, step) ==
    /\ h \in [0..N -> S]
    /\ h[0] = b
    /\ \A n \in 1..N : h[n] = step[n][h[n - 1]]

LEMMA Recursion ==
    ASSUME NEW S, NEW N \in Nat, NEW b \in S, NEW step, StaysIn(S, N, step)
    PROVE  \E h : Recurs(h, S, N, b, step)
<1> USE DEF StaysIn, Recurs
<1> DEFINE Upto(m) == \E h \in [0..m -> S] : h[0] = b /\ \A n \in 1..m : h[n] = step[n][h[n - 1]]
           Without == {m \in 0..N : ~Upto(m)}
<1>1. ASSUME NEW m \in Without, \A l \in Without : m <= l PROVE FALSE
  <2>1. CASE m = 0
    <3> DEFINE h == [n \in 0..0 |-> b]
    <3>1. h \in [0..m -> S] /\ h[0] = b /\ \A n \in 1..m : FALSE
      BY <2>1
    <3> HIDE DEF h
    <3> QED
      BY <3>1
  <2>2. CASE m # 0
    <3>1. m \in 1..N /\ m - 1 \in 0..N /\ ~(m <= m - 1)
      BY <2>2
    <3>2. Upto(m - 1)
      BY <1>1, <3>1
    <3>3. PICK g \in [0..(m - 1) -> S] :
             g[0] = b /\ \A n \in 1..(m - 1) : g[n] = step[n][g[n - 1]]
      BY <3>2
    <3> DEFINE h == [n \in 0..m |-> IF n = m THEN step[m][g[m - 1]] ELSE g[n]]
    <3>4. g[m - 1] \in S /\ step[m][g[m - 1]] \in S
      BY <3>1
    <3>5. h \in [0..m -> S] /\ h[0] = b
      BY <2>2, <3>1, <3>3, <3>4
    <3>6. ASSUME NEW n \in 1..m PROVE h[n] = step[n][h[n - 1]]
      <4>1. h[n - 1] = g[n - 1]
        BY <3>1
      <4>2. n # m => n \in 1..(m - 1) /\ h[n] = g[n]
        BY <3>1
      <4>3. n = m => h[n] = step[m][g[m - 1]] /\ n - 1 = m - 1
        BY <3>1
      <4>4. n # m => h[n] = step[n][g[n - 1]]
        BY <3>3, <4>2
      <4> QED
        BY <4>1, <4>3, <4>4
    <3> HIDE DEF h
    <3> QED
      BY <3>5, <3>6
  <2> QED
    BY <2>1, <2>2
<1>2. Without = {}
  <2>1. Without \in SUBSET Nat
    OBVIOUS
  <2> HIDE DEF Without
  <2> QED
    BY <1>1, <2>1, LeastNatural
<1>3. Upto(N)
  <2>1. N \in 0..N
    OBVIOUS
  <2> HIDE DEF Upto
  <2> QED
    BY <1>2, <2>1
<1> QED
  BY <1>3

(* FlattenSeq joins its sequences from left to right.                      *)
Flattens(h, ss) == h[0] = <<>> /\ \A n \in 1..Len(ss) : h[n] = h[n - 1] \o ss[n]

LEMMA FlattenIs ==
    ASSUME NEW T, NEW ss \in Seq(Seq(T))
    PROVE  \E h \in [0..Len(ss) -> Seq(T)] : Flattens(h, ss) /\ FlattenSeq(ss) = h[Len(ss)]
<1> DEFINE N == Len(ss)
           G(f) == f = [i \in 1..N |-> IF i = 1 THEN ss[i] ELSE f[i - 1] \o ss[i]]
           step == [n \in 1..N |-> [s \in Seq(T) |-> s \o ss[n]]]
<1>1. N \in Nat /\ \A n \in 1..N : ss[n] \in Seq(T)
  BY LenProperties, ElementOfSeq
<1> HIDE DEF N
<1>3. \A n \in 1..N : \A s \in Seq(T) : step[n][s] = s \o ss[n]
  OBVIOUS
<1>2. \A n \in 1..N : \A s \in Seq(T) : step[n][s] \in Seq(T)
  <2> SUFFICES ASSUME NEW n \in 1..N, NEW s \in Seq(T) PROVE step[n][s] \in Seq(T)
    OBVIOUS
  <2>1. step[n][s] = s \o ss[n]
    BY <1>3
  <2> HIDE DEF step
  <2>2. ss[n] \in Seq(T)
    BY <1>1
  <2>3. s \o ss[n] \in Seq(T)
    BY <2>2, ConcatProperties
  <2> QED
    BY <2>1, <2>3
<1>4. <<>> \in Seq(T)
  OBVIOUS
<1> HIDE DEF step
<1>5. PICK h \in [0..N -> Seq(T)] : h[0] = <<>> /\ \A n \in 1..N : h[n] = step[n][h[n - 1]]
  <2> DEFINE S == Seq(T)
             b == <<>>
  <2>1. N \in Nat /\ b \in S /\ StaysIn(S, N, step)
    BY <1>1, <1>2, <1>4 DEF StaysIn
  <2> HIDE DEF S, b
  <2>2. \E h : Recurs(h, S, N, b, step)
    BY <2>1, Recursion
  <2> QED
    BY <2>2 DEF Recurs, S, b
<1>6. ASSUME NEW n \in 1..N PROVE n - 1 \in 0..N /\ h[n - 1] \in Seq(T) /\ h[n] = h[n - 1] \o ss[n]
  <2>1. n - 1 \in 0..N
    BY <1>1
  <2> QED
    BY <1>3, <1>5, <2>1
<1>7. Flattens(h, ss)
  BY <1>5, <1>6 DEF Flattens, N
<1>8. CASE N = 0
  <2>1. ss = <<>>
    BY <1>8, EmptySeq DEF N
  <2>2. FlattenSeq(ss) = ss
    BY <1>8 DEF FlattenSeq, N
  <2> QED
    BY <1>5, <1>7, <1>8, <2>1, <2>2 DEF N
<1>9. CASE N # 0
  <2> DEFINE g == [i \in 1..N |-> h[i]]
             f == CHOOSE x : G(x)
  <2>1. ASSUME NEW i \in 1..N PROVE g[i] = IF i = 1 THEN ss[i] ELSE g[i - 1] \o ss[i]
    <3>1. CASE i = 1
      <4>1. h[0] \o ss[i] = ss[i]
        BY <1>1, <1>5, ConcatEmptySeq
      <4>2. i - 1 = 0
        BY <3>1
      <4> QED
        BY <1>6, <3>1, <4>1, <4>2
    <3>2. CASE i # 1
      <4>1. i - 1 \in 1..N
        BY <1>1, <3>2
      <4> QED
        BY <1>6, <3>2, <4>1
    <3> QED
      BY <3>1, <3>2
  <2>2. G(g)
    <3>1. g = [i \in 1..N |-> g[i]]
      OBVIOUS
    <3> HIDE DEF g
    <3> QED
      BY <2>1, <3>1
  <2>3. G(f)
    <3> HIDE DEF G, g
    <3> QED
      BY <2>2
  <2>4. FlattenSeq(ss) = f[N]
    BY <1>9 DEF FlattenSeq, N
  <2> HIDE DEF f
  <2>5. \A n \in 1..N : f[n] = IF n = 1 THEN ss[n] ELSE f[n - 1] \o ss[n]
    BY <2>3
  <2> DEFINE Apart == {n \in 1..N : f[n] # g[n]}
  <2>6. ASSUME NEW n \in Apart, \A m \in Apart : n <= m PROVE FALSE
    <3>1. n # 1 => n - 1 \in 1..N /\ ~(n <= n - 1)
      BY <1>1
    <3>2. n # 1 => f[n - 1] = g[n - 1]
      BY <2>6, <3>1
    <3>3. n \in 1..N /\ f[n] # g[n]
      OBVIOUS
    <3> HIDE DEF g, Apart
    <3> QED
      BY <2>1, <2>5, <3>2, <3>3
  <2>7. Apart = {}
    <3>1. Apart \in SUBSET Nat
      BY <1>1
    <3> HIDE DEF Apart
    <3> QED
      BY <2>6, <3>1, LeastNatural
  <2>8. N \in 1..N
    BY <1>1, <1>9
  <2>9. f[N] = h[N]
    BY <2>7, <2>8
  <2> QED
    BY <1>5, <1>7, <2>4, <2>9 DEF N
<1> QED
  BY <1>8, <1>9

(* It has the elements of its sequences, and each as often as they do.     *)
Comes(s, ss, n) == \A k \in DOMAIN s : \E m \in 1..n : \E j \in DOMAIN ss[m] : s[k] = ss[m][j]
Keeps(s, ss, n) == \A m \in 1..n : \A j \in DOMAIN ss[m] : \E k \in DOMAIN s : s[k] = ss[m][j]
Once(s) == \A k, l \in DOMAIN s : s[k] = s[l] => k = l
Apart(ss) ==
    \A n, m \in DOMAIN ss : \A j \in DOMAIN ss[n] : \A l \in DOMAIN ss[m] :
        ss[n][j] = ss[m][l] => n = m /\ j = l

Joins(u, s, t) ==
    /\ \A k \in DOMAIN s : k \in DOMAIN u /\ u[k] = s[k]
    /\ \A i \in DOMAIN t : Len(s) + i \in DOMAIN u /\ u[Len(s) + i] = t[i]
    /\ \A k \in DOMAIN u : k \in DOMAIN s \/ \E i \in DOMAIN t : k = Len(s) + i

LEMMA JoinPlaces ==
    ASSUME NEW T, NEW s \in Seq(T), NEW t \in Seq(T)
    PROVE  Joins(s \o t, s, t)
<1>1. /\ Len(s) \in Nat /\ Len(t) \in Nat /\ DOMAIN s = 1..Len(s) /\ DOMAIN t = 1..Len(t)
      /\ DOMAIN (s \o t) = 1..(Len(s) + Len(t))
      /\ \A i \in 1..Len(s) : (s \o t)[i] = s[i]
      /\ \A i \in 1..Len(t) : (s \o t)[Len(s) + i] = t[i]
  BY ConcatIs
<1>2. ASSUME NEW k \in 1..(Len(s) + Len(t)), k \notin 1..Len(s)
      PROVE  \E i \in 1..Len(t) : k = Len(s) + i
  <2>1. k - Len(s) \in 1..Len(t) /\ k = Len(s) + (k - Len(s))
    BY <1>1, <1>2
  <2> QED
    BY <2>1
<1>3. \A i \in 1..Len(t) : Len(s) + i \in 1..(Len(s) + Len(t))
  BY <1>1
<1>4. \A k \in 1..Len(s) : k \in 1..(Len(s) + Len(t))
  BY <1>1
<1> QED
  BY <1>1, <1>2, <1>3, <1>4 DEF Joins

LEMMA JoinComes ==
    ASSUME NEW T, NEW s \in Seq(T), NEW ss, NEW n \in Nat \ {0}, ss[n] \in Seq(T), Comes(s, ss, n - 1)
    PROVE  Comes(s \o ss[n], ss, n)
<1>1. (\A m \in 1..(n - 1) : m \in 1..n) /\ n \in 1..n
  OBVIOUS
<1> DEFINE t == ss[n]
           u == s \o t
<1>2. /\ \A k \in DOMAIN s : u[k] = s[k]
      /\ \A i \in DOMAIN t : u[Len(s) + i] = t[i]
      /\ \A k \in DOMAIN u : k \in DOMAIN s \/ \E i \in DOMAIN t : k = Len(s) + i
  BY JoinPlaces DEF Joins
<1> HIDE DEF u
<1>3. ASSUME NEW k \in DOMAIN u PROVE \E m \in 1..n : \E j \in DOMAIN ss[m] : u[k] = ss[m][j]
  <2>1. CASE k \in DOMAIN s
    <3>1. PICK m \in 1..(n - 1) : \E j \in DOMAIN ss[m] : s[k] = ss[m][j]
      BY <2>1 DEF Comes
    <3> QED
      BY <1>1, <1>2, <2>1, <3>1
  <2>2. CASE k \notin DOMAIN s
    <3>1. PICK i \in DOMAIN t : k = Len(s) + i
      BY <1>2, <2>2
    <3> QED
      BY <1>1, <1>2, <3>1
  <2> QED
    BY <2>1, <2>2
<1> QED
  BY <1>3 DEF Comes, u

LEMMA JoinKeeps ==
    ASSUME NEW T, NEW s \in Seq(T), NEW ss, NEW n \in Nat \ {0}, ss[n] \in Seq(T), Keeps(s, ss, n - 1)
    PROVE  Keeps(s \o ss[n], ss, n)
<1> DEFINE t == ss[n]
           u == s \o t
<1>1. /\ \A k \in DOMAIN s : k \in DOMAIN u /\ u[k] = s[k]
      /\ \A i \in DOMAIN t : Len(s) + i \in DOMAIN u /\ u[Len(s) + i] = t[i]
  BY JoinPlaces DEF Joins
<1> HIDE DEF u
<1>2. ASSUME NEW m \in 1..n, NEW j \in DOMAIN ss[m] PROVE \E k \in DOMAIN u : u[k] = ss[m][j]
  <2>1. CASE m = n
    BY <1>1, <2>1
  <2>2. CASE m # n
    <3>1. m \in 1..(n - 1)
      BY <2>2
    <3>2. PICK k \in DOMAIN s : s[k] = ss[m][j]
      BY <3>1 DEF Keeps
    <3> QED
      BY <1>1, <3>2
  <2> QED
    BY <2>1, <2>2
<1> QED
  BY <1>2 DEF Keeps, u

LEMMA JoinOnce ==
    ASSUME NEW T, NEW s \in Seq(T), NEW ss \in Seq(Seq(T)), NEW n \in 1..Len(ss),
           Apart(ss), Comes(s, ss, n - 1), Once(s)
    PROVE  Once(s \o ss[n])
<1>0. n \in Nat \ {0} /\ ss[n] \in Seq(T) /\ n \in DOMAIN ss /\ \A m \in 1..n : m \in DOMAIN ss
  <2>1. Len(ss) \in Nat /\ DOMAIN ss = 1..Len(ss)
    BY LenProperties
  <2> QED
    BY <2>1, ElementOfSeq
<1> DEFINE t == ss[n]
           u == s \o t
<1>1. /\ \A k \in DOMAIN s : u[k] = s[k]
      /\ \A i \in DOMAIN t : u[Len(s) + i] = t[i]
      /\ \A k \in DOMAIN u : k \in DOMAIN s \/ \E i \in DOMAIN t : k = Len(s) + i
  <2>1. t \in Seq(T)
    BY <1>0
  <2> HIDE DEF t, u
  <2>2. Joins(s \o t, s, t)
    BY <2>1, JoinPlaces
  <2> QED
    BY <2>2 DEF Joins, u
<1> HIDE DEF u
<1>2. ASSUME NEW k \in DOMAIN s, NEW i \in DOMAIN t, s[k] = t[i] PROVE FALSE
  <2>1. PICK m \in 1..(n - 1) : \E j \in DOMAIN ss[m] : s[k] = ss[m][j]
    BY DEF Comes
  <2>4. PICK j \in DOMAIN ss[m] : s[k] = ss[m][j]
    BY <2>1
  <2>2. m \in 1..n /\ m # n
    BY <1>0
  <2>3. m \in DOMAIN ss /\ ss[m][j] = ss[n][i]
    BY <1>0, <1>2, <2>4, <2>2
  <2> QED
    BY <1>0, <2>2, <2>3, <2>4 DEF Apart
<1>3. \A i, j \in DOMAIN t : t[i] = t[j] => i = j
  BY <1>0 DEF Apart
<1>4. ASSUME NEW k \in DOMAIN u, NEW l \in DOMAIN u, u[k] = u[l] PROVE k = l
  <2>1. CASE k \in DOMAIN s /\ l \in DOMAIN s
    BY <1>1, <1>4, <2>1 DEF Once
  <2>2. CASE k \notin DOMAIN s /\ l \notin DOMAIN s
    BY <1>1, <1>3, <1>4, <2>2
  <2>3. CASE k \in DOMAIN s /\ l \notin DOMAIN s
    BY <1>1, <1>2, <1>4, <2>3
  <2>4. CASE k \notin DOMAIN s /\ l \in DOMAIN s
    BY <1>1, <1>2, <1>4, <2>4
  <2> QED
    BY <2>1, <2>2, <2>3, <2>4
<1> QED
  BY <1>4 DEF Once, u

LEMMA FlattenHas ==
    ASSUME NEW T, NEW ss \in Seq(Seq(T))
    PROVE  /\ FlattenSeq(ss) \in Seq(T)
           /\ Comes(FlattenSeq(ss), ss, Len(ss))
           /\ Keeps(FlattenSeq(ss), ss, Len(ss))
           /\ Apart(ss) => Once(FlattenSeq(ss))
<1> DEFINE N == Len(ss)
           Right(s, n) == Comes(s, ss, n) /\ Keeps(s, ss, n) /\ (Apart(ss) => Once(s))
<1>1. N \in Nat /\ DOMAIN ss = 1..N /\ \A n \in 1..N : ss[n] \in Seq(T)
  BY LenProperties, ElementOfSeq
<1>2. PICK h \in [0..N -> Seq(T)] : Flattens(h, ss) /\ FlattenSeq(ss) = h[N]
  BY FlattenIs
<1>3. h[0] = <<>> /\ \A n \in 1..N : h[n] = h[n - 1] \o ss[n]
  BY <1>2 DEF Flattens
<1> HIDE DEF N
<1> DEFINE Off == {n \in 0..N : ~Right(h[n], n)}
<1>4. ASSUME NEW n \in Off, \A m \in Off : n <= m PROVE FALSE
  <2>1. CASE n = 0
    <3>1. DOMAIN h[0] = {} /\ 1..0 = {}
      BY <1>3
    <3> QED
      BY <2>1, <3>1 DEF Comes, Keeps, Once
  <2>2. CASE n # 0
    <3>1. n \in 1..N /\ n - 1 \in 0..N /\ ~(n <= n - 1) /\ n \in Nat \ {0}
      BY <1>1, <2>2
    <3>2. Right(h[n - 1], n - 1)
      BY <1>4, <3>1
    <3>3. h[n - 1] \in Seq(T) /\ ss[n] \in Seq(T) /\ h[n] = h[n - 1] \o ss[n]
      BY <1>1, <1>3, <3>1
    <3>4. Comes(h[n], ss, n)
      BY <3>1, <3>2, <3>3, JoinComes
    <3>5. Keeps(h[n], ss, n)
      BY <3>1, <3>2, <3>3, JoinKeeps
    <3>6. ASSUME Apart(ss) PROVE Once(h[n])
      <4>1. n \in 1..Len(ss)
        BY <3>1 DEF N
      <4>2. Once(h[n - 1]) /\ Comes(h[n - 1], ss, n - 1)
        BY <3>2, <3>6
      <4> QED
        BY <3>3, <3>6, <4>1, <4>2, JoinOnce
    <3> QED
      BY <3>4, <3>5, <3>6
  <2> QED
    BY <2>1, <2>2
<1>5. Off = {}
  <2>1. Off \in SUBSET Nat
    BY <1>1
  <2> HIDE DEF Off
  <2> QED
    BY <1>4, <2>1, LeastNatural
<1>6. N \in 0..N
  BY <1>1
<1>7. Right(h[N], N) /\ h[N] \in Seq(T)
  <2> HIDE DEF Right
  <2> QED
    BY <1>5, <1>6
<1> QED
  BY <1>2, <1>7 DEF N

LEMMA FlattenOne ==
    ASSUME NEW T, NEW s \in Seq(T)
    PROVE  FlattenSeq(<<s>>) = s
<1> DEFINE ss == <<s>>
<1>1. ss \in Seq(Seq(T)) /\ Len(ss) = 1 /\ ss[1] = s
  OBVIOUS
<1> HIDE DEF ss
<1>2. PICK h \in [0..1 -> Seq(T)] : Flattens(h, ss) /\ FlattenSeq(ss) = h[1]
  BY <1>1, FlattenIs
<1>3. h[0] = <<>> /\ h[1] = h[0] \o s
  <2>1. 1 \in 1..1 /\ 1 - 1 = 0
    OBVIOUS
  <2> QED
    BY <1>1, <1>2, <2>1 DEF Flattens
<1>4. <<>> \o s = s
  BY ConcatEmptySeq
<1> QED
  BY <1>2, <1>3, <1>4 DEF ss

(* Two functions that start alike and go on alike are alike.               *)
Follows(f, h, N) == f[0] = h[0] /\ \A n \in 1..N : f[n - 1] = h[n - 1] => f[n] = h[n]

LEMMA Alike ==
    ASSUME NEW N \in Nat, NEW f, NEW h, Follows(f, h, N)
    PROVE  \A n \in 0..N : f[n] = h[n]
<1> DEFINE Off == {n \in 0..N : f[n] # h[n]}
<1>1. ASSUME NEW n \in Off, \A m \in Off : n <= m PROVE FALSE
  <2>1. n # 0 => n \in 1..N /\ n - 1 \in 0..N /\ ~(n <= n - 1)
    OBVIOUS
  <2>2. n # 0 => f[n - 1] = h[n - 1]
    BY <1>1, <2>1
  <2>3. f[n] = h[n]
    BY <2>1, <2>2 DEF Follows
  <2> QED
    BY <2>3
<1>2. Off = {}
  <2>1. Off \in SUBSET Nat
    OBVIOUS
  <2> HIDE DEF Off
  <2> QED
    BY <1>1, <2>1, LeastNatural
<1> QED
  BY <1>2

-----------------------------------------------------------------------------
(* What jsonFields finds.                                                  *)
FoundSet == [name : Struct \cup STRING, tagged : BOOLEAN, index : Seq(Nat), viaPointer : BOOLEAN]
QueuedSet == [type : Struct, index : Seq(Nat), viaPointer : BOOLEAN]

(* The field found at the end of a way, by its position in its struct.     *)
FieldFound(f, index, viaPointer) ==
    Found(IF f.tag = NoTag THEN f.name ELSE f.tag, f.tag # NoTag, index, viaPointer)

LEMMA FieldTyped ==
    ASSUME NEW L, IsLayout(L), NEW t \in Struct
    PROVE  /\ L[t] \in Seq(StructField)
           /\ Len(L[t]) \in Nat /\ DOMAIN L[t] = 1..Len(L[t])
           /\ \A i \in DOMAIN L[t] : i \in Nat /\ L[t][i] \in StructField
<1>1. L[t] \in Seq(StructField)
  BY DEF IsLayout
<1>2. Len(L[t]) \in Nat /\ DOMAIN L[t] = 1..Len(L[t])
  BY <1>1, LenProperties
<1>3. \A i \in 1..Len(L[t]) : i \in Nat /\ L[t][i] \in StructField
  BY <1>1, <1>2, ElementOfSeq
<1> QED
  BY <1>1, <1>2, <1>3

LEMMA FoundTyped ==
    ASSUME NEW f \in StructField, NEW ix \in Seq(Nat), NEW v \in BOOLEAN
    PROVE  FieldFound(f, ix, v) \in FoundSet
<1>1. (IF f.tag = NoTag THEN f.name ELSE f.tag) \in Struct \cup STRING
  BY DEF StructField
<1> QED
  BY <1>1 DEF FieldFound, Found, FoundSet

LEMMA TimesTyped ==
    ASSUME NEW T, NEW x \in T, NEW n \in Nat
    PROVE  Times(n, x) \in Seq(T) /\ DOMAIN Times(n, x) = 1..n /\ \A j \in 1..n : Times(n, x)[j] = x
<1>1. Times(n, x) \in [1..n -> T]
  BY DEF Times
<1> QED
  BY <1>1 DEF Times

LEMMA OnlyTyped ==
    ASSUME NEW T, NEW p \in BOOLEAN, NEW x, p => x \in T
    PROVE  Only(p, x) \in Seq(T) /\ \A j \in DOMAIN Only(p, x) : Only(p, x)[j] = x /\ x \in T
<1>1. CASE p
  <2>1. Only(p, x) = <<x>> /\ x \in T
    BY <1>1 DEF Only
  <2>2. <<x>> \in Seq(T) /\ DOMAIN <<x>> = {1} /\ <<x>>[1] = x
    BY <2>1
  <2> QED
    BY <2>1, <2>2
<1>2. CASE ~p
  <2>1. Only(p, x) = <<>>
    BY <1>2 DEF Only
  <2> QED
    BY <2>1
<1> QED
  BY <1>1, <1>2

(* The fields found in one struct, before they are joined.                 *)
Finds(L, r, q) ==
    [i \in 1..Len(L[q.type]) |->
        Times(IF IsNamed(L[q.type][i]) THEN Copies(r, q) ELSE 0,
              FieldFound(L[q.type][i], Append(q.index, i), q.viaPointer))]

FindsFields(L, r, q) ==
    /\ FoundIn(L, r, q) = FlattenSeq(Finds(L, r, q))
    /\ Finds(L, r, q) \in Seq(Seq(FoundSet))
    /\ \A i \in DOMAIN Finds(L, r, q) : \A j \in DOMAIN Finds(L, r, q)[i] :
          /\ IsNamed(L[q.type][i]) /\ (Copies(r, q) = 1 => j = 1)
          /\ Finds(L, r, q)[i][j] = FieldFound(L[q.type][i], Append(q.index, i), q.viaPointer)
    /\ \A i \in DOMAIN L[q.type] : IsNamed(L[q.type][i]) =>
          /\ i \in DOMAIN Finds(L, r, q) /\ 1 \in DOMAIN Finds(L, r, q)[i]
          /\ Finds(L, r, q)[i][1] = FieldFound(L[q.type][i], Append(q.index, i), q.viaPointer)

LEMMA FoundInIs ==
    ASSUME NEW L, IsLayout(L), NEW r, NEW q \in QueuedSet
    PROVE  FindsFields(L, r, q)
<1> DEFINE s == L[q.type]
           n(i) == IF IsNamed(s[i]) THEN Copies(r, q) ELSE 0
           x(i) == FieldFound(s[i], Append(q.index, i), q.viaPointer)
           F == [i \in 1..Len(s) |-> Times(n(i), x(i))]
<1>1. q.type \in Struct /\ q.index \in Seq(Nat) /\ q.viaPointer \in BOOLEAN
  BY DEF QueuedSet
<1>2. Len(s) \in Nat /\ DOMAIN s = 1..Len(s) /\ \A i \in 1..Len(s) : i \in Nat /\ s[i] \in StructField
  BY <1>1, FieldTyped
<1>3. ASSUME NEW i \in 1..Len(s)
      PROVE  /\ n(i) \in Nat /\ x(i) \in FoundSet
             /\ IsNamed(s[i]) => 1 \in 1..n(i)
             /\ n(i) # 0 => IsNamed(s[i]) /\ n(i) = Copies(r, q)
  <2>1. Append(q.index, i) \in Seq(Nat)
    BY <1>1, <1>2, AppendProperties
  <2>2. x(i) \in FoundSet
    BY <1>1, <1>2, <2>1, FoundTyped
  <2>3. Copies(r, q) \in {1, 2}
    BY DEF Copies
  <2> QED
    BY <2>2, <2>3
<1>4. ASSUME NEW i \in 1..Len(s)
      PROVE  /\ Times(n(i), x(i)) \in Seq(FoundSet) /\ DOMAIN Times(n(i), x(i)) = 1..n(i)
             /\ \A j \in 1..n(i) : Times(n(i), x(i))[j] = x(i)
  <2> HIDE DEF n, x
  <2> QED
    BY <1>3, TimesTyped
<1>5. Finds(L, r, q) = F
  BY DEF Finds
<1>6. F \in Seq(Seq(FoundSet)) /\ DOMAIN F = 1..Len(s) /\ \A i \in 1..Len(s) : F[i] = Times(n(i), x(i))
  <2> HIDE DEF n, x
  <2>1. F \in [1..Len(s) -> Seq(FoundSet)]
    BY <1>4
  <2> QED
    BY <1>2, <2>1
<1>7. FoundIn(L, r, q) = FlattenSeq(F)
  <2> DEFINE P == Positions(L, q.type)
             Op(i) == Times(n(i), x(i))
  <2>1. P \in Seq(Nat) /\ Len(P) = Len(s) /\ \A i \in 1..Len(s) : P[i] = i
    <3>1. P \in [1..Len(s) -> Nat] /\ P = [i \in 1..Len(s) |-> i]
      BY <1>2 DEF Positions
    <3> QED
      BY <1>2, <3>1
  <2>2. FoundIn(L, r, q) = FlattenSeq([i \in 1..Len(P) |-> Op(P[i])])
    BY DEF FoundIn, ForEach, FieldFound
  <2>3. [i \in 1..Len(P) |-> Op(P[i])] = [i \in 1..Len(s) |-> Op(i)]
    <3> HIDE DEF P, Op
    <3> QED
      BY <2>1
  <2> QED
    BY <2>2, <2>3
<1> HIDE DEF F, n, x
<1>8. ASSUME NEW i \in DOMAIN F, NEW j \in DOMAIN F[i]
      PROVE  IsNamed(s[i]) /\ (Copies(r, q) = 1 => j = 1) /\ F[i][j] = x(i)
  <2>1. i \in 1..Len(s) /\ j \in 1..n(i) /\ n(i) \in Nat
    BY <1>3, <1>4, <1>6
  <2>2. n(i) # 0
    BY <2>1
  <2>3. IsNamed(s[i]) /\ n(i) = Copies(r, q)
    BY <1>3, <2>1, <2>2
  <2>4. Copies(r, q) = 1 => j = 1
    BY <2>1, <2>3
  <2> QED
    BY <1>4, <1>6, <2>1, <2>3, <2>4
<1>9. ASSUME NEW i \in DOMAIN s, IsNamed(s[i])
      PROVE  i \in DOMAIN F /\ 1 \in DOMAIN F[i] /\ F[i][1] = x(i)
  BY <1>2, <1>3, <1>4, <1>6, <1>9
<1> QED
  BY <1>5, <1>6, <1>7, <1>8, <1>9 DEF x, FindsFields

(* Below the request's own fields a way has a position or more.            *)
DeepQueued == {q \in QueuedSet : Len(q.index) >= 1}
DeepFound == {f \in FoundSet : Len(f.index) >= 2}

LEMMA FlattenTyped ==
    ASSUME NEW T, NEW n \in Nat, NEW F \in [1..n -> Seq(T)]
    PROVE  FlattenSeq(F) \in Seq(T)
<1>1. F \in Seq(Seq(T))
  OBVIOUS
<1> QED
  BY <1>1, FlattenHas

LEMMA OnwardTyped ==
    ASSUME NEW ix \in Seq(Nat), NEW i \in Nat
    PROVE  Append(ix, i) \in Seq(Nat) /\ Len(Append(ix, i)) = Len(ix) + 1 /\ Len(ix) \in Nat
  BY AppendProperties, LenProperties

LEMMA FoundInTyped ==
    ASSUME NEW L, IsLayout(L), NEW r, NEW q \in DeepQueued
    PROVE  FoundIn(L, r, q) \in Seq(DeepFound)
<1> DEFINE F == Finds(L, r, q)
<1>1. q \in QueuedSet /\ q.type \in Struct /\ q.index \in Seq(Nat) /\ Len(q.index) >= 1 /\ q.viaPointer \in BOOLEAN
  BY DEF DeepQueued, QueuedSet
<1>2. /\ FoundIn(L, r, q) = FlattenSeq(F)
      /\ F \in Seq(Seq(FoundSet))
      /\ \A i \in DOMAIN F : \A j \in DOMAIN F[i] :
            F[i][j] = FieldFound(L[q.type][i], Append(q.index, i), q.viaPointer)
  BY <1>1, FoundInIs DEF FindsFields
<1>3. Len(F) \in Nat /\ DOMAIN F = 1..Len(F) /\ Len(F) = Len(L[q.type])
  <2>1. Len(L[q.type]) \in Nat
    BY <1>1, FieldTyped
  <2>2. DOMAIN F = 1..Len(L[q.type])
    BY DEF Finds
  <2> HIDE DEF F
  <2> QED
    BY <1>2, <2>1, <2>2, LenProperties
<1> HIDE DEF F
<1>4. ASSUME NEW i \in 1..Len(F) PROVE F[i] \in Seq(DeepFound)
  <2>1. i \in DOMAIN L[q.type] /\ i \in Nat /\ L[q.type][i] \in StructField
    BY <1>1, <1>3, FieldTyped
  <2> DEFINE x == FieldFound(L[q.type][i], Append(q.index, i), q.viaPointer)
  <2>2. Append(q.index, i) \in Seq(Nat) /\ Len(Append(q.index, i)) >= 2
    BY <1>1, <2>1, OnwardTyped
  <2>3. x \in FoundSet
    BY <1>1, <2>1, <2>2, FoundTyped
  <2>4. x.index = Append(q.index, i)
    BY DEF FieldFound, Found
  <2>5. x \in DeepFound
    BY <2>2, <2>3, <2>4 DEF DeepFound
  <2>6. F[i] \in Seq(FoundSet) /\ \A j \in DOMAIN F[i] : F[i][j] = x
    BY <1>2, <1>3, ElementOfSeq
  <2> HIDE DEF x
  <2>7. Len(F[i]) \in Nat /\ DOMAIN F[i] = 1..Len(F[i]) /\ F[i] = [j \in DOMAIN F[i] |-> F[i][j]]
    BY <2>6, LenProperties
  <2>8. F[i] \in [1..Len(F[i]) -> DeepFound]
    BY <2>5, <2>6, <2>7
  <2> QED
    BY <2>7, <2>8
<1>5. F \in [1..Len(F) -> Seq(DeepFound)]
  <2>1. F = [i \in DOMAIN F |-> F[i]]
    BY <1>2
  <2> QED
    BY <1>3, <1>4, <2>1
<1> QED
  BY <1>2, <1>3, <1>5, FlattenTyped

LEMMA MetInTyped ==
    ASSUME NEW L, IsLayout(L), NEW q \in QueuedSet
    PROVE  MetIn(L, q) \in Seq(DeepQueued)
<1> DEFINE s == L[q.type]
           x(i) == Queued(s[i].embeds, Append(q.index, i), q.viaPointer \/ s[i].ptr)
           Op(i) == Only(Promotes(s[i]), x(i))
           P == Positions(L, q.type)
<1>1. q.type \in Struct /\ q.index \in Seq(Nat) /\ q.viaPointer \in BOOLEAN
  BY DEF QueuedSet
<1>2. Len(s) \in Nat /\ DOMAIN s = 1..Len(s) /\ \A i \in 1..Len(s) : i \in Nat /\ s[i] \in StructField
  BY <1>1, FieldTyped
<1>3. ASSUME NEW i \in 1..Len(s), Promotes(s[i]) PROVE x(i) \in DeepQueued
  <2>1. Append(q.index, i) \in Seq(Nat) /\ Len(Append(q.index, i)) >= 1
    BY <1>1, <1>2, OnwardTyped
  <2>2. s[i].embeds \in Struct /\ s[i].ptr \in BOOLEAN
    BY <1>2, <1>3 DEF Promotes, StructField
  <2> QED
    BY <1>1, <2>1, <2>2 DEF Queued, QueuedSet, DeepQueued
<1>4. ASSUME NEW i \in 1..Len(s) PROVE Op(i) \in Seq(DeepQueued)
  <2>1. Promotes(s[i]) \in BOOLEAN
    BY DEF Promotes
  <2>2. Promotes(s[i]) => x(i) \in DeepQueued
    BY <1>3
  <2> DEFINE p == Promotes(s[i])
             y == x(i)
  <2>3. p \in BOOLEAN /\ (p => y \in DeepQueued)
    BY <2>1, <2>2
  <2> HIDE DEF p, y
  <2>4. Only(p, y) \in Seq(DeepQueued)
    BY <2>3, OnlyTyped
  <2> QED
    BY <2>4 DEF p, y
<1>5. Len(P) = Len(s) /\ \A i \in 1..Len(s) : P[i] = i
  <2>1. P \in [1..Len(s) -> Nat] /\ P = [i \in 1..Len(s) |-> i]
    BY <1>2 DEF Positions
  <2> QED
    BY <1>2, <2>1
<1>6. MetIn(L, q) = FlattenSeq([i \in 1..Len(P) |-> Op(P[i])])
  BY DEF MetIn, ForEach
<1>7. [i \in 1..Len(P) |-> Op(P[i])] \in [1..Len(s) -> Seq(DeepQueued)]
  <2> HIDE DEF P, Op
  <2> QED
    BY <1>4, <1>5
<1> QED
  <2> DEFINE F == [i \in 1..Len(P) |-> Op(P[i])]
             n == Len(s)
  <2>1. F \in [1..n -> Seq(DeepQueued)] /\ n \in Nat /\ MetIn(L, q) = FlattenSeq(F)
    BY <1>2, <1>6, <1>7
  <2> HIDE DEF F, n
  <2> QED
    BY <2>1, FlattenTyped

RoundSet ==
    [queue : Seq(DeepQueued), count : [Struct -> Nat], visited : SUBSET Struct, found : Seq(FoundSet)]

LEMMA ExploreIs ==
    ASSUME NEW L, IsLayout(L), NEW r, r.queue \in Seq(QueuedSet), r.visited \in SUBSET Struct, r.found \in Seq(FoundSet)
    PROVE  \E current, fresh :
              /\ current \in Seq(QueuedSet)
              /\ current = ForEach(r.queue, LAMBDA q : Only(q.type \notin r.visited, q))
              /\ fresh = FlattenSeq([i \in 1..Len(current) |-> FoundIn(L, r, current[i])])
              /\ r.queue \in Seq(DeepQueued) => current \in Seq(DeepQueued)
              /\ Explore(L, r).queue \in Seq(DeepQueued)
              /\ Explore(L, r).count \in [Struct -> Nat]
              /\ Explore(L, r).visited \in SUBSET Struct
              /\ Explore(L, r).found = r.found \o fresh
              /\ Explore(L, r) = Round(Explore(L, r).queue, Explore(L, r).count, Explore(L, r).visited, Explore(L, r).found)
<1> DEFINE current == ForEach(r.queue, LAMBDA q : Only(q.type \notin r.visited, q))
           met == ForEach(current, LAMBDA q : MetIn(L, q))
           First(i) == \A j \in 1..(i - 1) : met[j].type # met[i].type
           queue == FlattenSeq([i \in 1..Len(met) |-> Only(First(i), met[i])])
           count == [t \in Struct |-> Cardinality({i \in DOMAIN met : met[i].type = t})]
           visited == r.visited \cup {current[i].type : i \in DOMAIN current}
           fresh == ForEach(current, LAMBDA q : FoundIn(L, r, q))
<1>1. Explore(L, r) = Round(queue, count, visited, r.found \o fresh)
  BY DEF Explore
<1>2. ASSUME NEW T \in SUBSET QueuedSet, r.queue \in Seq(T) PROVE current \in Seq(T)
  <2> DEFINE s == r.queue
             F == [i \in 1..Len(s) |-> Only(s[i].type \notin r.visited, s[i])]
  <2>1. Len(s) \in Nat /\ \A i \in 1..Len(s) : s[i] \in T
    BY <1>2, LenProperties, ElementOfSeq
  <2>2. ASSUME NEW i \in 1..Len(s) PROVE Only(s[i].type \notin r.visited, s[i]) \in Seq(T)
    <3> DEFINE p == s[i].type \notin r.visited
               y == s[i]
    <3>1. p \in BOOLEAN /\ y \in T
      BY <2>1
    <3> HIDE DEF p, y
    <3>2. Only(p, y) \in Seq(T)
      BY <3>1, OnlyTyped
    <3> QED
      BY <3>2 DEF p, y
  <2>3. F \in [1..Len(s) -> Seq(T)]
    BY <2>2
  <2>4. current = FlattenSeq(F)
    BY DEF ForEach
  <2> HIDE DEF F, current
  <2> QED
    BY <2>1, <2>3, <2>4, FlattenTyped
<1>3. current \in Seq(QueuedSet) /\ (r.queue \in Seq(DeepQueued) => current \in Seq(DeepQueued))
  <2>1. DeepQueued \in SUBSET QueuedSet /\ QueuedSet \in SUBSET QueuedSet
    BY DEF DeepQueued
  <2> HIDE DEF current
  <2> QED
    BY <1>2, <2>1
<1>4. fresh = FlattenSeq([i \in 1..Len(current) |-> FoundIn(L, r, current[i])])
  BY DEF ForEach
<1>5. met = FlattenSeq([i \in 1..Len(current) |-> MetIn(L, current[i])])
  BY DEF ForEach
<1> HIDE DEF current, met, fresh
<1>6. Len(current) \in Nat /\ DOMAIN current = 1..Len(current) /\ \A i \in 1..Len(current) : current[i] \in QueuedSet
  BY <1>3, LenProperties, ElementOfSeq
<1>7. met \in Seq(DeepQueued)
  <2> DEFINE F == [i \in 1..Len(current) |-> MetIn(L, current[i])]
  <2>1. F \in [1..Len(current) -> Seq(DeepQueued)]
    BY <1>6, MetInTyped
  <2> HIDE DEF F
  <2>2. FlattenSeq(F) \in Seq(DeepQueued)
    BY <1>6, <2>1, FlattenTyped
  <2> QED
    BY <1>5, <2>2 DEF F
<1>8. Len(met) \in Nat /\ DOMAIN met = 1..Len(met) /\ \A i \in 1..Len(met) : met[i] \in DeepQueued
  BY <1>7, LenProperties, ElementOfSeq
<1>9. queue \in Seq(DeepQueued)
  <2> DEFINE F == [i \in 1..Len(met) |-> Only(First(i), met[i])]
  <2>1. ASSUME NEW i \in 1..Len(met) PROVE Only(First(i), met[i]) \in Seq(DeepQueued)
    <3> DEFINE p == First(i)
               y == met[i]
    <3>1. p \in BOOLEAN /\ y \in DeepQueued
      BY <1>8
    <3> HIDE DEF p, y
    <3>2. Only(p, y) \in Seq(DeepQueued)
      BY <3>1, OnlyTyped
    <3> QED
      BY <3>2 DEF p, y
  <2>2. F \in [1..Len(met) -> Seq(DeepQueued)]
    <3> HIDE DEF First
    <3> QED
      BY <2>1
  <2> HIDE DEF F
  <2>3. FlattenSeq(F) \in Seq(DeepQueued)
    BY <1>8, <2>2, FlattenTyped
  <2> QED
    BY <2>3 DEF F
<1>10. count \in [Struct -> Nat]
  <2>1. ASSUME NEW t \in Struct PROVE Cardinality({i \in DOMAIN met : met[i].type = t}) \in Nat
    <3> DEFINE C == {i \in DOMAIN met : met[i].type = t}
    <3>1. C \in SUBSET (1..Len(met))
      BY <1>8
    <3>2. IsFiniteSet(1..Len(met))
      <4>1. 1 \in Int /\ Len(met) \in Int
        BY <1>8
      <4> QED
        BY <4>1, FS_Interval
    <3> HIDE DEF C
    <3>3. IsFiniteSet(C)
      BY <3>1, <3>2, FS_Subset
    <3>4. Cardinality(C) \in Nat
      BY <3>3, FS_CardinalityType
    <3> QED
      BY <3>4 DEF C
  <2> QED
    BY <2>1
<1>11. visited \in SUBSET Struct
  <2>1. \A i \in DOMAIN current : current[i].type \in Struct
    BY <1>6 DEF QueuedSet
  <2> QED
    BY <2>1
<1> HIDE DEF queue, count, visited
<1>12. /\ Explore(L, r).queue = queue /\ Explore(L, r).count = count
       /\ Explore(L, r).visited = visited /\ Explore(L, r).found = r.found \o fresh
  BY <1>1 DEF Round
<1> QED
  BY <1>1, <1>3, <1>4, <1>9, <1>10, <1>11, <1>12 DEF current

(* The request's own fields are found first, each once.                    *)
RootFound(L, j) == FieldFound(L[Root][j], <<j>>, FALSE)
Tops(L, s) ==
    /\ \A k \in DOMAIN s : \/ s[k] \in DeepFound
                           \/ \E j \in DOMAIN L[Root] : IsNamed(L[Root][j]) /\ s[k] = RootFound(L, j)
    /\ \A j \in DOMAIN L[Root] : IsNamed(L[Root][j]) => \E k \in DOMAIN s : s[k] = RootFound(L, j)
    /\ \A k, l \in DOMAIN s : s[k] = s[l] => s[k] \in DeepFound \/ k = l

LEMMA TopsKept ==
    ASSUME NEW L, NEW s \in Seq(FoundSet), NEW fresh \in Seq(DeepFound), Tops(L, s),
           \A j \in DOMAIN L[Root] : RootFound(L, j) \notin DeepFound
    PROVE  Tops(L, s \o fresh) /\ s \o fresh \in Seq(FoundSet)
<1>1. fresh \in Seq(FoundSet) /\ \A i \in DOMAIN fresh : fresh[i] \in DeepFound
  <2>1. \A i \in 1..Len(fresh) : fresh[i] \in DeepFound
    BY ElementOfSeq
  <2>2. DOMAIN fresh = 1..Len(fresh) /\ Len(fresh) \in Nat
    BY LenProperties
  <2>3. fresh \in [1..Len(fresh) -> FoundSet]
    <3>1. fresh = [i \in 1..Len(fresh) |-> fresh[i]]
      BY <2>2
    <3>2. \A i \in 1..Len(fresh) : fresh[i] \in FoundSet
      BY <2>1 DEF DeepFound
    <3> QED
      BY <3>1, <3>2
  <2> QED
    BY <2>1, <2>2, <2>3
<1> DEFINE u == s \o fresh
<1>2. /\ \A k \in DOMAIN s : k \in DOMAIN u /\ u[k] = s[k]
      /\ \A i \in DOMAIN fresh : u[Len(s) + i] = fresh[i]
      /\ \A k \in DOMAIN u : k \in DOMAIN s \/ \E i \in DOMAIN fresh : k = Len(s) + i
      /\ u \in Seq(FoundSet)
  BY <1>1, JoinPlaces, ConcatProperties DEF Joins
<1> HIDE DEF u
<1>3. \A k \in DOMAIN u : k \in DOMAIN s \/ u[k] \in DeepFound
  BY <1>1, <1>2
<1>4. ASSUME NEW k \in DOMAIN u
      PROVE  \/ u[k] \in DeepFound
             \/ \E j \in DOMAIN L[Root] : IsNamed(L[Root][j]) /\ u[k] = RootFound(L, j)
  BY <1>2, <1>3 DEF Tops
<1>5. ASSUME NEW j \in DOMAIN L[Root], IsNamed(L[Root][j])
      PROVE  \E k \in DOMAIN u : u[k] = RootFound(L, j)
  <2>1. PICK k \in DOMAIN s : s[k] = RootFound(L, j)
    BY <1>5 DEF Tops
  <2> QED
    BY <1>2, <2>1
<1>6. ASSUME NEW k \in DOMAIN u, NEW l \in DOMAIN u, u[k] = u[l]
      PROVE  u[k] \in DeepFound \/ k = l
  <2>1. CASE k \in DOMAIN s /\ l \in DOMAIN s
    BY <1>2, <1>6, <2>1 DEF Tops
  <2>2. CASE k \notin DOMAIN s \/ l \notin DOMAIN s
    BY <1>3, <1>6, <2>2
  <2> QED
    BY <2>1, <2>2
<1>7. Tops(L, u)
  BY <1>4, <1>5, <1>6 DEF Tops
<1> QED
  BY <1>2, <1>7 DEF u

LEMMA RootFoundIs ==
    ASSUME NEW L, IsLayout(L), NEW j \in DOMAIN L[Root]
    PROVE  /\ RootFound(L, j) \in FoundSet /\ RootFound(L, j) \notin DeepFound
           /\ RootFound(L, j).index = <<j>> /\ Len(RootFound(L, j).index) = 1
<1>1. L[Root][j] \in StructField /\ j \in Nat
  BY StructAssumption, FieldTyped
<1>2. <<j>> \in Seq(Nat) /\ Len(<<j>>) = 1 /\ FALSE \in BOOLEAN
  BY <1>1
<1>3. RootFound(L, j) \in FoundSet
  BY <1>1, <1>2, FoundTyped DEF RootFound
<1>4. RootFound(L, j).index = <<j>>
  BY DEF RootFound, FieldFound, Found
<1>5. Len(RootFound(L, j).index) = 1
  BY <1>2, <1>4
<1>6. RootFound(L, j) \notin DeepFound
  <2> SUFFICES ASSUME RootFound(L, j) \in DeepFound PROVE FALSE
    OBVIOUS
  <2>1. Len(RootFound(L, j).index) >= 2
    BY DEF DeepFound
  <2> QED
    BY <1>5, <2>1
<1> QED
  BY <1>3, <1>4, <1>5, <1>6

Start == Round(<<Queued(Root, <<>>, FALSE)>>, [t \in Struct |-> 0], {}, <<>>)
DeepRounds(L) == {r \in RoundSet : Tops(L, r.found)}

LEMMA DeepGoesOn ==
    ASSUME NEW L, IsLayout(L), NEW r \in DeepRounds(L)
    PROVE  Explore(L, r) \in DeepRounds(L)
<1>1. /\ r.queue \in Seq(DeepQueued) /\ r.visited \in SUBSET Struct /\ r.found \in Seq(FoundSet)
      /\ Tops(L, r.found)
  BY DEF DeepRounds, RoundSet
<1>2. r.queue \in Seq(QueuedSet)
  <2>1. DeepQueued \subseteq QueuedSet
    BY DEF DeepQueued
  <2> QED
    BY <1>1, <2>1
<1> DEFINE e == Explore(L, r)
<1>3. PICK current, fresh :
              /\ current \in Seq(QueuedSet)
              /\ current = ForEach(r.queue, LAMBDA q : Only(q.type \notin r.visited, q))
              /\ fresh = FlattenSeq([i \in 1..Len(current) |-> FoundIn(L, r, current[i])])
              /\ r.queue \in Seq(DeepQueued) => current \in Seq(DeepQueued)
              /\ e.queue \in Seq(DeepQueued)
              /\ e.count \in [Struct -> Nat]
              /\ e.visited \in SUBSET Struct
              /\ e.found = r.found \o fresh
              /\ e = Round(e.queue, e.count, e.visited, e.found)
  BY <1>1, <1>2, ExploreIs
<1> HIDE DEF e
<1>4. current \in Seq(DeepQueued)
  BY <1>1, <1>3
<1>5. fresh \in Seq(DeepFound)
  <2> DEFINE F == [i \in 1..Len(current) |-> FoundIn(L, r, current[i])]
  <2>1. Len(current) \in Nat /\ \A i \in 1..Len(current) : current[i] \in DeepQueued
    BY <1>4, LenProperties, ElementOfSeq
  <2>2. F \in [1..Len(current) -> Seq(DeepFound)]
    BY <2>1, FoundInTyped
  <2> HIDE DEF F
  <2>3. FlattenSeq(F) \in Seq(DeepFound)
    BY <2>1, <2>2, FlattenTyped
  <2> QED
    BY <1>3, <2>3 DEF F
<1>6. \A j \in DOMAIN L[Root] : RootFound(L, j) \notin DeepFound
  BY RootFoundIs
<1>7. Tops(L, e.found) /\ e.found \in Seq(FoundSet)
  BY <1>1, <1>3, <1>5, <1>6, TopsKept
<1>8. e \in RoundSet
  <2>1. Round(e.queue, e.count, e.visited, e.found) \in RoundSet
    BY <1>3, <1>7 DEF Round, RoundSet
  <2> QED
    BY <1>3, <2>1
<1> QED
  BY <1>7, <1>8 DEF DeepRounds, e

LEMMA DeepBegins ==
    ASSUME NEW L, IsLayout(L)
    PROVE  Explore(L, Start) \in DeepRounds(L)
<1> DEFINE q0 == Queued(Root, <<>>, FALSE)
           e == Explore(L, Start)
<1>1. q0 \in QueuedSet /\ q0.type = Root /\ q0.index = <<>> /\ q0.viaPointer = FALSE
  BY StructAssumption DEF Queued, QueuedSet
<1>2. Start.queue = <<q0>> /\ Start.visited = {} /\ Start.found = <<>> /\ Start.count = [t \in Struct |-> 0]
  BY DEF Start, Round
<1> HIDE DEF q0
<1>3. <<q0>> \in Seq(QueuedSet) /\ <<>> \in Seq(FoundSet) /\ {} \in SUBSET Struct
  BY <1>1
<1>4. PICK current, fresh :
              /\ current \in Seq(QueuedSet)
              /\ current = ForEach(Start.queue, LAMBDA q : Only(q.type \notin Start.visited, q))
              /\ fresh = FlattenSeq([i \in 1..Len(current) |-> FoundIn(L, Start, current[i])])
              /\ Start.queue \in Seq(DeepQueued) => current \in Seq(DeepQueued)
              /\ e.queue \in Seq(DeepQueued)
              /\ e.count \in [Struct -> Nat]
              /\ e.visited \in SUBSET Struct
              /\ e.found = Start.found \o fresh
              /\ e = Round(e.queue, e.count, e.visited, e.found)
  BY <1>2, <1>3, ExploreIs
<1> HIDE DEF e
<1>5. current = <<q0>>
  <2>1. Only(q0.type \notin {}, q0) = <<q0>>
    BY DEF Only
  <2>2. [i \in 1..Len(<<q0>>) |-> Only(<<q0>>[i].type \notin {}, <<q0>>[i])] = <<<<q0>>>>
    <3>1. \A i \in 1..1 : <<q0>>[i] = q0
      OBVIOUS
    <3>2. [i \in 1..1 |-> Only(<<q0>>[i].type \notin {}, <<q0>>[i])] = [i \in 1..1 |-> <<q0>>]
      BY <2>1, <3>1
    <3>3. [i \in 1..1 |-> <<q0>>] = <<<<q0>>>>
      OBVIOUS
    <3> QED
      BY <3>2, <3>3
  <2>3. current = FlattenSeq(<<<<q0>>>>)
    BY <1>2, <1>4, <2>2 DEF ForEach
  <2> QED
    BY <1>3, <2>3, FlattenOne
<1>6. FindsFields(L, Start, q0)
  BY <1>1, FoundInIs
<1>7. Copies(Start, q0) = 1
  BY <1>1, <1>2, StructAssumption DEF Copies
<1> DEFINE F == Finds(L, Start, q0)
<1>8. DOMAIN F = DOMAIN L[Root] /\ DOMAIN F = 1..Len(F)
  <2>1. DOMAIN F = 1..Len(L[Root])
    BY <1>1 DEF Finds
  <2>2. DOMAIN L[Root] = 1..Len(L[Root])
    BY StructAssumption, FieldTyped
  <2> HIDE DEF F
  <2>3. DOMAIN F = 1..Len(F)
    BY <1>6, LenProperties DEF F, FindsFields
  <2> QED
    BY <2>1, <2>2, <2>3
<1>9. /\ FoundIn(L, Start, q0) = FlattenSeq(F)
      /\ F \in Seq(Seq(FoundSet))
      /\ \A i \in DOMAIN F : \A j \in DOMAIN F[i] :
            IsNamed(L[Root][i]) /\ j = 1 /\ F[i][j] = RootFound(L, i)
      /\ \A i \in DOMAIN L[Root] : IsNamed(L[Root][i]) =>
            i \in DOMAIN F /\ 1 \in DOMAIN F[i] /\ F[i][1] = RootFound(L, i)
  <2>1. \A i \in DOMAIN L[Root] : Append(q0.index, i) = <<i>>
    BY <1>1
  <2>2. \A i \in DOMAIN F : Append(q0.index, i) = <<i>>
    BY <1>8, <2>1
  <2> HIDE DEF F
  <2> QED
    BY <1>1, <1>6, <1>7, <2>1, <2>2 DEF F, RootFound, FindsFields
<1> HIDE DEF F
<1>10. fresh = FlattenSeq(F)
  <2>1. FlattenSeq(F) \in Seq(FoundSet)
    BY <1>9, FlattenHas
  <2>2. [i \in 1..Len(<<q0>>) |-> FoundIn(L, Start, <<q0>>[i])] = <<FoundIn(L, Start, q0)>>
    <3>1. \A i \in 1..1 : <<q0>>[i] = q0
      OBVIOUS
    <3>2. [i \in 1..1 |-> FoundIn(L, Start, <<q0>>[i])] = [i \in 1..1 |-> FoundIn(L, Start, q0)]
      BY <3>1
    <3>3. [i \in 1..1 |-> FoundIn(L, Start, q0)] = <<FoundIn(L, Start, q0)>>
      OBVIOUS
    <3> QED
      BY <3>2, <3>3
  <2>3. fresh = FlattenSeq(<<FoundIn(L, Start, q0)>>)
    BY <1>4, <1>5, <2>2
  <2> QED
    BY <1>9, <2>1, <2>3, FlattenOne
<1>11. Apart(F)
  <2>1. ASSUME NEW n \in DOMAIN F, NEW m \in DOMAIN F, NEW j \in DOMAIN F[n], NEW l \in DOMAIN F[m],
               F[n][j] = F[m][l]
        PROVE  n = m /\ j = l
    <3>1. RootFound(L, n).index = <<n>> /\ RootFound(L, m).index = <<m>>
      BY <1>8, RootFoundIs
    <3>2. j = 1 /\ l = 1 /\ <<n>> = <<m>>
      BY <1>9, <2>1, <3>1
    <3> QED
      BY <3>2
  <2> QED
    BY <2>1 DEF Apart
<1>12. /\ fresh \in Seq(FoundSet) /\ Comes(fresh, F, Len(F)) /\ Keeps(fresh, F, Len(F)) /\ Once(fresh)
  BY <1>9, <1>10, <1>11, FlattenHas
<1>13. Tops(L, fresh)
  <2>1. ASSUME NEW k \in DOMAIN fresh
        PROVE  \E j \in DOMAIN L[Root] : IsNamed(L[Root][j]) /\ fresh[k] = RootFound(L, j)
    <3>1. PICK m \in 1..Len(F) : \E j \in DOMAIN F[m] : fresh[k] = F[m][j]
      BY <1>12 DEF Comes
    <3> QED
      BY <1>8, <1>9, <3>1
  <2>2. ASSUME NEW j \in DOMAIN L[Root], IsNamed(L[Root][j])
        PROVE  \E k \in DOMAIN fresh : fresh[k] = RootFound(L, j)
    <3>1. j \in 1..Len(F) /\ 1 \in DOMAIN F[j] /\ F[j][1] = RootFound(L, j)
      BY <1>8, <1>9, <2>2
    <3> QED
      BY <1>12, <3>1 DEF Keeps
  <2> QED
    BY <1>12, <2>1, <2>2 DEF Tops, Once
<1>14. e.found = fresh
  BY <1>2, <1>4, <1>12, ConcatEmptySeq
<1>15. e \in RoundSet
  <2>1. Round(e.queue, e.count, e.visited, e.found) \in RoundSet
    BY <1>4, <1>12, <1>14 DEF Round, RoundSet
  <2> QED
    BY <1>4, <2>1
<1> QED
  BY <1>13, <1>14, <1>15 DEF DeepRounds, e

LEMMA FoundTops ==
    ASSUME NEW L, IsLayout(L)
    PROVE  Tops(L, FieldsFound(L)) /\ FieldsFound(L) \in Seq(FoundSet)
<1> DEFINE M == Cardinality(Struct) + 1
           G(f) == f = [n \in 0..M |-> IF n = 0 THEN Start ELSE Explore(L, f[n - 1])]
           S == {Start} \cup DeepRounds(L)
           step == [n \in 1..M |-> [r \in S |-> Explore(L, r)]]
           After == CHOOSE f : G(f)
<1>1. M \in Nat /\ M \in 1..M /\ M \in 0..M /\ M - 1 \in 0..M
  <2>1. Cardinality(Struct) \in Nat
    BY StructAssumption, FS_CardinalityType
  <2> QED
    BY <2>1
<1>2. FieldsFound(L) = After[M].found
  BY DEF FieldsFound, Start
<1> HIDE DEF M
<1>3. \A r \in S : Explore(L, r) \in DeepRounds(L)
  BY DeepBegins, DeepGoesOn
<1>4. \A n \in 1..M : \A r \in S : step[n][r] = Explore(L, r)
  OBVIOUS
<1>5. Start \in S /\ StaysIn(S, M, step)
  <2>1. \A r \in S : Explore(L, r) \in S
    BY <1>3
  <2> HIDE DEF S, step
  <2>2. StaysIn(S, M, step)
    BY <1>4, <2>1 DEF StaysIn
  <2> QED
    BY <2>2 DEF S
<1> HIDE DEF step, S
<1>6. PICK h : Recurs(h, S, M, Start, step)
  BY <1>1, <1>5, Recursion
<1>7. /\ h \in [0..M -> S] /\ h[0] = Start
      /\ \A n \in 1..M : n - 1 \in 0..M /\ h[n - 1] \in S /\ h[n] = Explore(L, h[n - 1])
  <2>1. \A n \in 1..M : n - 1 \in 0..M
    BY <1>1
  <2> QED
    BY <1>4, <1>6, <2>1 DEF Recurs
<1>8. G(h)
  <2>1. \A n \in 0..M : h[n] = IF n = 0 THEN Start ELSE Explore(L, h[n - 1])
    BY <1>1, <1>7
  <2>2. h = [n \in 0..M |-> h[n]]
    BY <1>7
  <2> QED
    BY <2>1, <2>2
<1>9. G(After)
  <2> HIDE DEF G
  <2> QED
    BY <1>8
<1> HIDE DEF After
<1>10. After[0] = Start /\ \A n \in 1..M : After[n] = Explore(L, After[n - 1])
  BY <1>1, <1>9
<1>11. After[M] = h[M]
  <2>1. Follows(After, h, M)
    BY <1>7, <1>10 DEF Follows
  <2> QED
    BY <1>1, <2>1, Alike
<1>12. h[M] \in DeepRounds(L)
  BY <1>1, <1>3, <1>7
<1> QED
  BY <1>2, <1>11, <1>12 DEF DeepRounds, RoundSet

(* A field of the request itself has its JSON name to itself when no other *)
(* of its fields has it as well or better.                                 *)
Wins(L, i) ==
    /\ IsNamed(L[Root][i])
    /\ \A j \in DOMAIN L[Root] \ {i} :
          IsNamed(L[Root][j]) /\ RootFound(L, j).name = RootFound(L, i).name =>
             RootFound(L, i).tagged /\ ~RootFound(L, j).tagged

LEMMA RootBeats ==
    ASSUME NEW L, IsLayout(L), NEW i \in DOMAIN L[Root], NEW j \in DOMAIN L[Root]
    PROVE  Beats(RootFound(L, i), RootFound(L, j)) <=> RootFound(L, i).tagged /\ ~RootFound(L, j).tagged
<1>1. Len(RootFound(L, i).index) = 1 /\ Len(RootFound(L, j).index) = 1
  BY RootFoundIs
<1>2. ~(1 < 1)
  OBVIOUS
<1> QED
  BY <1>1, <1>2 DEF Beats

LEMMA JsonOwn ==
    ASSUME NEW L, IsLayout(L), NEW i \in DOMAIN L[Root]
    PROVE  (\E f \in jsonFields(L) : f.index = <<i>>) <=> Wins(L, i)
<1> DEFINE found == FieldsFound(L)
           Best(k) == \A l \in DOMAIN found \ {k} : found[l].name = found[k].name => Beats(found[k], found[l])
<1>1. Tops(L, found)
  BY FoundTops
<1>2. jsonFields(L) = {found[k] : k \in {m \in DOMAIN found : Best(m)}}
  BY DEF jsonFields
<1> HIDE DEF found
<1>3. \A j \in DOMAIN L[Root] : RootFound(L, j).index = <<j>> /\ Len(RootFound(L, j).index) = 1 /\ RootFound(L, j) \notin DeepFound
  BY RootFoundIs
<1>4. ASSUME NEW f \in jsonFields(L), f.index = <<i>> PROVE Wins(L, i)
  <2>1. PICK k \in DOMAIN found : f = found[k] /\ Best(k)
    <3> HIDE DEF Best
    <3> QED
      BY <1>2
  <2>2. f \notin DeepFound
    <3>1. Len(f.index) = 1
      BY <1>4
    <3> QED
      BY <3>1 DEF DeepFound
  <2>3. PICK j \in DOMAIN L[Root] : IsNamed(L[Root][j]) /\ f = RootFound(L, j)
    BY <1>1, <2>1, <2>2 DEF Tops
  <2>4. j = i
    <3>1. <<j>> = <<i>>
      BY <1>3, <1>4, <2>3
    <3> QED
      BY <3>1
  <2>5. ASSUME NEW m \in DOMAIN L[Root] \ {i}, IsNamed(L[Root][m]), RootFound(L, m).name = RootFound(L, i).name
        PROVE  RootFound(L, i).tagged /\ ~RootFound(L, m).tagged
    <3>1. PICK l \in DOMAIN found : found[l] = RootFound(L, m)
      BY <1>1, <2>5 DEF Tops
    <3>2. l # k
      <4>1. RootFound(L, m) # RootFound(L, i)
        <5>1. <<m>> # <<i>>
          OBVIOUS
        <5> QED
          BY <1>3, <5>1
      <4> QED
        BY <2>1, <2>3, <2>4, <3>1, <4>1
    <3>3. Beats(RootFound(L, i), RootFound(L, m))
      BY <2>1, <2>3, <2>4, <2>5, <3>1, <3>2
    <3> QED
      BY <3>3, RootBeats
  <2> QED
    BY <2>3, <2>4, <2>5 DEF Wins
<1>5. ASSUME Wins(L, i) PROVE \E f \in jsonFields(L) : f.index = <<i>>
  <2>1. PICK k \in DOMAIN found : found[k] = RootFound(L, i)
    BY <1>1, <1>5 DEF Tops, Wins
  <2>2. ASSUME NEW l \in DOMAIN found \ {k}, found[l].name = found[k].name
        PROVE  Beats(found[k], found[l])
    <3>1. CASE found[l] \in DeepFound
      <4>1. Len(found[l].index) \in Nat /\ Len(found[l].index) >= 2
        BY <3>1, LenProperties DEF DeepFound, FoundSet
      <4>2. Len(found[k].index) = 1
        BY <1>3, <2>1
      <4>3. Len(found[k].index) < Len(found[l].index)
        BY <4>1, <4>2
      <4> QED
        BY <4>3 DEF Beats
    <3>2. CASE found[l] \notin DeepFound
      <4>1. PICK j \in DOMAIN L[Root] : IsNamed(L[Root][j]) /\ found[l] = RootFound(L, j)
        BY <1>1, <3>2 DEF Tops
      <4>2. j # i
        BY <1>1, <1>3, <2>1, <4>1 DEF Tops
      <4>3. RootFound(L, i).tagged /\ ~RootFound(L, j).tagged
        BY <1>5, <2>1, <2>2, <4>1, <4>2 DEF Wins
      <4> QED
        BY <2>1, <4>1, <4>3, RootBeats
    <3> QED
      BY <3>1, <3>2
  <2>3. found[k] \in jsonFields(L)
    <3>1. Best(k)
      BY <2>2
    <3> HIDE DEF Best
    <3> QED
      BY <1>2, <3>1
  <2> QED
    BY <1>3, <2>1, <2>3
<1> QED
  BY <1>4, <1>5

-----------------------------------------------------------------------------
(* What encoding/json gives a request's own fields.                        *)
WaySet == [type : Struct, index : Seq(Nat), above : SUBSET Struct, viaPointer : BOOLEAN]
Ahead(L, w) ==
    {Way(L[w.type][i].embeds, Append(w.index, i), w.above \cup {w.type}, w.viaPointer \/ L[w.type][i].ptr) :
        i \in {j \in DOMAIN L[w.type] :
                 /\ L[w.type][j].embeds \notin {""} \cup {w.type} \cup w.above
                 /\ L[w.type][j].tag = NoTag}}
OwnWay == Way(Root, <<>>, {}, FALSE)

LEMMA AheadTyped ==
    ASSUME NEW L, IsLayout(L), NEW w \in WaySet
    PROVE  \A v \in Ahead(L, w) : v \in WaySet /\ Len(v.index) >= 1
<1>1. w.type \in Struct /\ w.index \in Seq(Nat) /\ w.above \in SUBSET Struct /\ w.viaPointer \in BOOLEAN
  BY DEF WaySet
<1>2. ASSUME NEW i \in DOMAIN L[w.type], L[w.type][i].embeds # ""
      PROVE  LET v == Way(L[w.type][i].embeds, Append(w.index, i), w.above \cup {w.type},
                          w.viaPointer \/ L[w.type][i].ptr)
             IN  v \in WaySet /\ Len(v.index) >= 1
  <2>1. i \in Nat /\ L[w.type][i] \in StructField
    BY <1>1, FieldTyped
  <2>2. Append(w.index, i) \in Seq(Nat) /\ Len(Append(w.index, i)) >= 1
    BY <1>1, <2>1, OnwardTyped
  <2>3. L[w.type][i].embeds \in Struct /\ L[w.type][i].ptr \in BOOLEAN
    BY <1>2, <2>1 DEF StructField
  <2> QED
    BY <1>1, <2>2, <2>3 DEF Way, WaySet
<1> QED
  BY <1>2 DEF Ahead

LEMMA WaysAre ==
    ASSUME NEW L, IsLayout(L)
    PROVE  OwnWay \in Ways(L) /\ \A w \in Ways(L) : w = OwnWay \/ (w \in WaySet /\ Len(w.index) >= 1)
<1> DEFINE N == Cardinality(Struct)
           G(f) == f = [n \in 1..N |-> IF n = 1 THEN {OwnWay} ELSE UNION {Ahead(L, w) : w \in f[n - 1]}]
           Ds == CHOOSE f : G(f)
           S == SUBSET WaySet
           step == [n \in 1..(N - 1) |-> [W \in S |-> UNION {Ahead(L, w) : w \in W}]]
<1>1. N \in Nat \ {0} /\ N - 1 \in Nat
  <2>1. Cardinality(Struct) \in Nat /\ Cardinality(Struct) # 0
    BY StructAssumption, FS_CardinalityType, FS_EmptySet
  <2> QED
    BY <2>1
<1>2. Ways(L) = UNION {Ds[n] : n \in DOMAIN Ds}
  BY DEF Ways, Ahead, OwnWay
<1> HIDE DEF N
<1>3. ASSUME NEW W \in S PROVE UNION {Ahead(L, w) : w \in W} \in S
  BY AheadTyped
<1>4. {OwnWay} \in S
  <2>1. OwnWay \in WaySet
    BY StructAssumption DEF OwnWay, Way, WaySet
  <2> QED
    BY <2>1
<1>5. \A n \in 1..(N - 1) : \A W \in S : step[n][W] = UNION {Ahead(L, w) : w \in W}
  OBVIOUS
<1> HIDE DEF step
<1>6. StaysIn(S, N - 1, step)
  BY <1>3, <1>5 DEF StaysIn
<1>7. PICK h : Recurs(h, S, N - 1, {OwnWay}, step)
  <2> DEFINE b == {OwnWay}
             m == N - 1
  <2>1. b \in S /\ m \in Nat /\ StaysIn(S, m, step)
    BY <1>1, <1>4, <1>6
  <2> HIDE DEF b, m, S
  <2>2. \E h : Recurs(h, S, m, b, step)
    BY <2>1, Recursion
  <2> QED
    BY <2>2 DEF b, m
<1>8. /\ h \in [0..(N - 1) -> S] /\ h[0] = {OwnWay}
      /\ \A n \in 1..(N - 1) : h[n] = step[n][h[n - 1]]
  BY <1>7 DEF Recurs
<1> HIDE DEF S
<1>9. ASSUME NEW n \in 1..(N - 1)
      PROVE  h[n - 1] \in S /\ h[n] = UNION {Ahead(L, w) : w \in h[n - 1]}
  <2>1. n - 1 \in 0..(N - 1)
    BY <1>1
  <2> QED
    BY <1>5, <1>8, <2>1
<1> DEFINE g == [n \in 1..N |-> h[n - 1]]
<1>10. G(g)
  <2>1. ASSUME NEW n \in 1..N
        PROVE  g[n] = IF n = 1 THEN {OwnWay} ELSE UNION {Ahead(L, w) : w \in g[n - 1]}
    <3>1. CASE n = 1
      <4>1. n - 1 = 0
        BY <3>1
      <4> QED
        BY <1>8, <3>1, <4>1
    <3>2. CASE n # 1
      <4>1. n - 1 \in 1..(N - 1) /\ n - 1 \in 1..N
        BY <1>1, <3>2
      <4>2. g[n] = h[n - 1] /\ g[n - 1] = h[(n - 1) - 1]
        BY <4>1
      <4> QED
        BY <1>9, <3>2, <4>1, <4>2
    <3> QED
      BY <3>1, <3>2
  <2>2. g = [n \in 1..N |-> g[n]]
    OBVIOUS
  <2> HIDE DEF g
  <2> QED
    BY <2>1, <2>2
<1>11. G(Ds)
  <2> HIDE DEF G, g
  <2> QED
    BY <1>10
<1> HIDE DEF Ds
<1>12. DOMAIN Ds = 1..N /\ Ds[1] = {OwnWay}
  BY <1>1, <1>11
<1>13. ASSUME NEW n \in 1..(N - 1) PROVE Ds[n + 1] = UNION {Ahead(L, w) : w \in Ds[n]}
  <2>1. n + 1 \in 1..N /\ n + 1 # 1 /\ (n + 1) - 1 = n
    BY <1>1
  <2> QED
    BY <1>11, <2>1
<1> DEFINE f == [n \in 0..(N - 1) |-> Ds[n + 1]]
<1>14. Follows(f, h, N - 1)
  <2>1. f[0] = h[0]
    <3>1. 0 \in 0..(N - 1) /\ 0 + 1 = 1
      BY <1>1
    <3> QED
      BY <1>8, <1>12, <3>1
  <2>2. ASSUME NEW n \in 1..(N - 1), f[n - 1] = h[n - 1] PROVE f[n] = h[n]
    <3>1. n - 1 \in 0..(N - 1) /\ (n - 1) + 1 = n /\ n \in 0..(N - 1)
      BY <1>1
    <3>2. f[n - 1] = Ds[n] /\ f[n] = Ds[n + 1]
      BY <3>1
    <3> HIDE DEF f
    <3> QED
      BY <1>9, <1>13, <2>2, <3>2
  <2> HIDE DEF f
  <2> QED
    BY <2>1, <2>2 DEF Follows
<1>15. \A n \in 0..(N - 1) : f[n] = h[n]
  <2> HIDE DEF f
  <2> DEFINE m == N - 1
  <2>1. m \in Nat /\ Follows(f, h, m)
    BY <1>1, <1>14
  <2> HIDE DEF m
  <2>2. \A n \in 0..m : f[n] = h[n]
    BY <2>1, Alike
  <2> QED
    BY <2>2 DEF m
<1>16. ASSUME NEW n \in 1..N, n # 1, NEW w \in Ds[n] PROVE w \in WaySet /\ Len(w.index) >= 1
  <2>1. n - 1 \in 1..(N - 1) /\ (n - 1) + 1 = n /\ n - 1 \in 0..(N - 1)
    BY <1>1, <1>16
  <2>2. Ds[n] = h[n - 1]
    BY <1>15, <2>1
  <2>3. h[(n - 1) - 1] \in S /\ Ds[n] = UNION {Ahead(L, v) : v \in h[(n - 1) - 1]}
    BY <1>9, <2>1, <2>2
  <2>4. PICK v \in WaySet : w \in Ahead(L, v)
    BY <1>16, <2>3 DEF S
  <2> QED
    BY <2>4, AheadTyped
<1>17. OwnWay \in Ways(L)
  <2>1. 1 \in DOMAIN Ds
    BY <1>1, <1>12
  <2> QED
    BY <1>2, <1>12, <2>1
<1> QED
  BY <1>2, <1>12, <1>16, <1>17

LEMMA ContendersAre ==
    ASSUME NEW L, IsLayout(L)
    PROVE  /\ \A f \in Contenders(L) :
                 \/ f \in DeepFound
                 \/ \E j \in DOMAIN L[Root] : IsNamed(L[Root][j]) /\ f = RootFound(L, j)
           /\ \A j \in DOMAIN L[Root] : IsNamed(L[Root][j]) => RootFound(L, j) \in Contenders(L)
<1> DEFINE Ends(w) == {i \in DOMAIN L[w.type] : IsNamed(L[w.type][i])}
           End(w, i) == FieldFound(L[w.type][i], Append(w.index, i), w.viaPointer)
<1>1. Contenders(L) = UNION {{End(w, i) : i \in Ends(w)} : w \in Ways(L)}
  <2> DEFINE Fields(w) == {i \in DOMAIN L[w.type] :
                        /\ L[w.type][i].exported \/ L[w.type][i].embeds # ""
                        /\ L[w.type][i].tag # Skip
                        /\ L[w.type][i].embeds = "" \/ L[w.type][i].tag # NoTag}
  <2>1. Contenders(L) = UNION {{End(w, i) : i \in Fields(w)} : w \in Ways(L)}
    BY DEF Contenders, FieldFound
  <2>2. ASSUME NEW w PROVE Fields(w) = Ends(w)
    BY DEF IsNamed, Considered, Promotes, NoTag, Skip
  <2> HIDE DEF Fields, Ends, End
  <2> QED
    BY <2>1, <2>2
<1>2. OwnWay.type = Root /\ OwnWay.index = <<>> /\ OwnWay.viaPointer = FALSE
  BY DEF OwnWay, Way
<1>3. ASSUME NEW i \in DOMAIN L[Root] PROVE End(OwnWay, i) = RootFound(L, i)
  <2>1. Append(<<>>, i) = <<i>>
    OBVIOUS
  <2> QED
    BY <1>2, <2>1 DEF RootFound
<1>4. ASSUME NEW w \in WaySet, Len(w.index) >= 1, NEW i \in DOMAIN L[w.type]
      PROVE  End(w, i) \in DeepFound
  <2>1. w.type \in Struct /\ w.index \in Seq(Nat) /\ w.viaPointer \in BOOLEAN
    BY DEF WaySet
  <2>2. i \in Nat /\ L[w.type][i] \in StructField
    BY <2>1, FieldTyped
  <2>3. Append(w.index, i) \in Seq(Nat) /\ Len(Append(w.index, i)) >= 2
    BY <1>4, <2>1, <2>2, OnwardTyped
  <2>4. End(w, i) \in FoundSet
    BY <2>1, <2>2, <2>3, FoundTyped
  <2>5. End(w, i).index = Append(w.index, i)
    BY DEF FieldFound, Found
  <2> HIDE DEF End
  <2> QED
    BY <2>3, <2>4, <2>5 DEF DeepFound
<1>5. ASSUME NEW f \in Contenders(L)
      PROVE  \/ f \in DeepFound
             \/ \E j \in DOMAIN L[Root] : IsNamed(L[Root][j]) /\ f = RootFound(L, j)
  <2>1. PICK w \in Ways(L) : \E i \in Ends(w) : f = End(w, i)
    <3> HIDE DEF Ends, End
    <3> QED
      BY <1>1
  <2>2. PICK i \in Ends(w) : f = End(w, i)
    BY <2>1
  <2>3. CASE w = OwnWay
    <3>1. i \in DOMAIN L[Root] /\ IsNamed(L[Root][i])
      BY <1>2, <2>3
    <3> HIDE DEF End
    <3> QED
      BY <1>3, <2>2, <2>3, <3>1
  <2>4. CASE w # OwnWay
    <3>1. w \in WaySet /\ Len(w.index) >= 1
      BY <2>4, WaysAre
    <3>2. i \in DOMAIN L[w.type]
      OBVIOUS
    <3> HIDE DEF End, Ends
    <3> QED
      BY <1>4, <2>2, <3>1, <3>2
  <2> QED
    BY <2>3, <2>4
<1>6. ASSUME NEW j \in DOMAIN L[Root], IsNamed(L[Root][j]) PROVE RootFound(L, j) \in Contenders(L)
  <2>1. j \in Ends(OwnWay)
    BY <1>2, <1>6
  <2>2. OwnWay \in Ways(L)
    BY WaysAre
  <2> HIDE DEF End, Ends
  <2> QED
    BY <1>1, <1>3, <2>1, <2>2
<1> QED
  BY <1>5, <1>6

LEMMA NamedOwn ==
    ASSUME NEW L, IsLayout(L), NEW i \in DOMAIN L[Root]
    PROVE  (\E f \in Named(L) : f.index = <<i>>) <=> Wins(L, i)
<1> DEFINE Shallowest(C) == {f \in C : \A g \in C : Len(f.index) <= Len(g.index)}
           Best(C) == IF \E f \in C : f.tagged THEN {f \in C : f.tagged} ELSE C
           Called(name) == {f \in Contenders(L) : f.name = name}
           x == RootFound(L, i)
           X == Called(x.name)
           T == {g \in X : g \notin DeepFound}
<1>1. Named(L) = {f \in Contenders(L) : Best(Shallowest(Called(f.name))) = {f}}
  BY DEF Named
<1>2. \A f \in Contenders(L) : \/ f \in DeepFound
                               \/ \E j \in DOMAIN L[Root] : IsNamed(L[Root][j]) /\ f = RootFound(L, j)
  BY ContendersAre
<1>3. \A j \in DOMAIN L[Root] : IsNamed(L[Root][j]) => RootFound(L, j) \in Contenders(L)
  BY ContendersAre
<1>4. \A j \in DOMAIN L[Root] : /\ RootFound(L, j).index = <<j>> /\ Len(RootFound(L, j).index) = 1
                                /\ RootFound(L, j) \notin DeepFound
  BY RootFoundIs
<1>5. \A f \in DeepFound : Len(f.index) \in Nat /\ Len(f.index) >= 2
  BY LenProperties DEF DeepFound, FoundSet
<1>6. \A f \in X : Len(f.index) \in Nat /\ Len(f.index) >= 1 /\ (Len(f.index) = 1 <=> f \notin DeepFound)
  <2>1. ASSUME NEW f \in X, f \in DeepFound
        PROVE  Len(f.index) \in Nat /\ Len(f.index) >= 1 /\ Len(f.index) # 1
    <3>1. Len(f.index) \in Nat /\ Len(f.index) >= 2
      BY <1>5, <2>1
    <3>2. \A n \in Nat : n >= 2 => n >= 1 /\ n # 1
      OBVIOUS
    <3> HIDE DEF X
    <3> QED
      BY <3>1, <3>2
  <2>2. ASSUME NEW f \in X, f \notin DeepFound PROVE Len(f.index) = 1
    BY <1>2, <1>4, <2>2
  <2> HIDE DEF X
  <2> QED
    BY <2>1, <2>2
<1>7. \A g \in T : \E j \in DOMAIN L[Root] : IsNamed(L[Root][j]) /\ g = RootFound(L, j)
  BY <1>2
<1>8. ASSUME IsNamed(L[Root][i]) PROVE x \in T /\ Shallowest(X) = T
  <2>1. x \in X /\ x \in T /\ Len(x.index) = 1
    BY <1>3, <1>4, <1>8
  <2>2. ASSUME NEW f \in X, f \in T PROVE \A g \in X : Len(f.index) <= Len(g.index)
    <3>1. f \notin DeepFound
      BY <2>2
    <3> HIDE DEF X
    <3>2. Len(f.index) = 1
      BY <1>6, <3>1
    <3> QED
      BY <1>6, <3>2
  <2>3. ASSUME NEW f \in X, \A g \in X : Len(f.index) <= Len(g.index) PROVE f \in T
    <3>1. Len(f.index) <= 1
      BY <2>1, <2>3
    <3> HIDE DEF X
    <3>4. \A n \in Nat : n >= 1 /\ n <= 1 => n = 1
      OBVIOUS
    <3>2. Len(f.index) = 1
      BY <1>6, <3>1, <3>4
    <3>3. f \notin DeepFound
      BY <1>6, <3>2
    <3> QED
      BY <3>3
  <2> HIDE DEF X, x
  <2> QED
    BY <2>1, <2>2, <2>3
<1>9. ASSUME NEW f \in Named(L), f.index = <<i>> PROVE Wins(L, i)
  <2>1. f \in Contenders(L) /\ Best(Shallowest(Called(f.name))) = {f}
    <3> HIDE DEF Best, Shallowest, Called
    <3> QED
      BY <1>1
  <2>2. Len(f.index) = 1
    BY <1>9
  <2>3. f \notin DeepFound
    <3>1. ~(1 >= 2)
      OBVIOUS
    <3> QED
      BY <1>5, <2>2, <3>1
  <2>4. PICK j \in DOMAIN L[Root] : IsNamed(L[Root][j]) /\ f = RootFound(L, j)
    BY <1>2, <2>1, <2>3
  <2>5. j = i
    <3>1. <<j>> = <<i>>
      BY <1>4, <1>9, <2>4
    <3> QED
      BY <3>1
  <2>6. IsNamed(L[Root][i]) /\ f = x
    BY <2>4, <2>5
  <2>7. Best(T) = {x}
    <3>1. Best(Shallowest(X)) = {x}
      BY <2>1, <2>6
    <3> HIDE DEF Best, Shallowest, X, T, x
    <3> QED
      BY <1>8, <2>6, <3>1
  <2>8. ASSUME NEW m \in DOMAIN L[Root] \ {i}, IsNamed(L[Root][m]), RootFound(L, m).name = RootFound(L, i).name
        PROVE  RootFound(L, i).tagged /\ ~RootFound(L, m).tagged
    <3> DEFINE y == RootFound(L, m)
    <3>1. y \in T
      BY <1>3, <1>4, <2>8
    <3>2. y # x
      <4>1. <<m>> # <<i>>
        OBVIOUS
      <4> QED
        BY <1>4, <4>1
    <3>3. x \in T
      BY <1>8, <2>6
    <3> HIDE DEF T, x, y
    <3>4. x.tagged /\ ~y.tagged
      BY <2>7, <3>1, <3>2, <3>3
    <3> QED
      BY <3>4 DEF x, y
  <2> QED
    BY <2>6, <2>8 DEF Wins
<1>10. ASSUME Wins(L, i) PROVE \E f \in Named(L) : f.index = <<i>>
  <2>1. IsNamed(L[Root][i])
    BY <1>10 DEF Wins
  <2>2. x \in T /\ Shallowest(X) = T /\ x \in Contenders(L)
    <3> HIDE DEF Shallowest, T, x
    <3>1. x \in T /\ Shallowest(X) = T
      BY <1>8, <2>1
    <3>2. x \in Contenders(L)
      BY <1>3, <2>1 DEF x
    <3> QED
      BY <3>1, <3>2
  <2>3. ASSUME NEW g \in T, g # x PROVE x.tagged /\ ~g.tagged
    <3>1. PICK j \in DOMAIN L[Root] : IsNamed(L[Root][j]) /\ g = RootFound(L, j)
      BY <1>7
    <3>2. j # i /\ g.name = x.name
      BY <2>3, <3>1
    <3> QED
      BY <1>10, <3>1, <3>2 DEF Wins
  <2>4. Best(T) = {x}
    <3>1. x \in T
      BY <2>2
    <3> HIDE DEF T, x
    <3>2. CASE \E g \in T : g # x
      BY <2>3, <3>1, <3>2
    <3>3. CASE ~\E g \in T : g # x
      <4>1. T = {x}
        BY <3>1, <3>3
      <4> QED
        BY <4>1
    <3> QED
      BY <3>2, <3>3
  <2>5. x \in Named(L)
    <3>1. Best(Shallowest(Called(x.name))) = {x}
      <4> HIDE DEF Best, Shallowest, T, x, Called
      <4> QED
        BY <2>2, <2>4
    <3> HIDE DEF Best, Shallowest, T, x, X, Called
    <3> QED
      BY <1>1, <2>2, <3>1
  <2>6. x.index = <<i>>
    BY <1>4
  <2> QED
    BY <2>5, <2>6
<1> QED
  BY <1>9, <1>10

-----------------------------------------------------------------------------
(* The binder.                                                             *)

ReadAt(vals, slice) == IF slice THEN DOMAIN vals ELSE DOMAIN vals \cap {1}
BadValues(vals, slice) == {i \in ReadAt(vals, slice) : vals[i] = "bad"}

LEMMA BadAtIs ==
    ASSUME NEW T, NEW vals \in Seq(T), NEW slice \in BOOLEAN
    PROVE  /\ BadAt(vals, slice) \in Nat
           /\ BadValues(vals, slice) = {} => BadAt(vals, slice) = 0
           /\ BadValues(vals, slice) # {} =>
                 /\ BadAt(vals, slice) # 0 /\ BadAt(vals, slice) \in BadValues(vals, slice)
                 /\ \A j \in BadValues(vals, slice) : BadAt(vals, slice) <= j
<1> DEFINE bad == BadValues(vals, slice)
<1>1. BadAt(vals, slice) = IF bad = {} THEN 0 ELSE CHOOSE i \in bad : \A j \in bad : i <= j
  BY DEF BadAt, BadValues, ReadAt
<1>2. bad \in SUBSET Nat /\ 0 \notin bad
  <2>1. DOMAIN vals = 1..Len(vals) /\ Len(vals) \in Nat
    BY LenProperties
  <2> QED
    BY <2>1 DEF BadValues, ReadAt
<1> HIDE DEF bad
<1>3. bad # {} => \E i \in bad : \A j \in bad : i <= j
  BY <1>2, LeastNatural
<1> QED
  BY <1>1, <1>2, <1>3 DEF bad

(* The values of a parameter that count.                                   *)
Counted(vals, slice) ==
    FlattenSeq([j \in ReadAt(vals, slice) |-> IF vals[j] = "" THEN <<>> ELSE <<vals[j]>>])
SetTo(vals, slice, old) == IF slice THEN setSlice(vals, old) ELSE setScalar(vals, old)

LEMMA SeqWider == \A S, T : S \subseteq T => Seq(S) \subseteq Seq(T)
<1> SUFFICES ASSUME NEW S, NEW T, S \subseteq T, NEW s \in Seq(S) PROVE s \in Seq(T)
  OBVIOUS
<1>1. s = [i \in 1..Len(s) |-> s[i]] /\ Len(s) \in Nat /\ \A i \in 1..Len(s) : s[i] \in T
  BY LenProperties, ElementOfSeq
<1>2. s \in [1..Len(s) -> T]
  BY <1>1
<1> QED
  BY <1>1, <1>2

LEMMA OneTyped ==
    ASSUME NEW T, NEW x \in T
    PROVE  <<x>> \in Seq(T) /\ <<>> \in Seq(T) /\ <<x>> # <<>>
  OBVIOUS

LEMMA SetIs ==
    ASSUME NEW T, NEW vals \in Seq(T), NEW slice \in BOOLEAN, NEW old \in Seq(T)
    PROVE  /\ SetTo(vals, slice, old) = IF Counted(vals, slice) = <<>> THEN old ELSE Counted(vals, slice)
           /\ SetTo(vals, slice, old) \in Seq(T)
<1>1. DOMAIN vals = 1..Len(vals) /\ Len(vals) \in Nat /\ \A i \in 1..Len(vals) : vals[i] \in T
  BY LenProperties, ElementOfSeq
<1>2. CASE slice
  <2> DEFINE F == [j \in 1..Len(vals) |-> IF vals[j] = "" THEN <<>> ELSE <<vals[j]>>]
  <2>1. F \in [1..Len(vals) -> Seq(T)]
    BY <1>1, OneTyped
  <2>2. Counted(vals, slice) = FlattenSeq(F)
    BY <1>1, <1>2 DEF Counted, ReadAt
  <2>3. Given(vals) = FlattenSeq(F)
    <3>1. \A j \in 1..Len(vals) : Only(vals[j] # "", vals[j]) = IF vals[j] = "" THEN <<>> ELSE <<vals[j]>>
      BY DEF Only
    <3>2. [j \in 1..Len(vals) |-> Only(vals[j] # "", vals[j])] = F
      BY <3>1
    <3> HIDE DEF F
    <3> QED
      BY <3>2 DEF Given, ForEach
  <2> HIDE DEF F
  <2>4. FlattenSeq(F) \in Seq(T)
    BY <1>1, <2>1, FlattenTyped
  <2> QED
    BY <1>2, <2>2, <2>3, <2>4 DEF SetTo, setSlice
<1>3. CASE ~slice
  <2> DEFINE F == [j \in DOMAIN vals \cap {1} |-> IF vals[j] = "" THEN <<>> ELSE <<vals[j]>>]
  <2>1. Counted(vals, slice) = FlattenSeq(F)
    BY <1>3 DEF Counted, ReadAt
  <2>2. SetTo(vals, slice, old) = IF vals = <<>> \/ vals[1] = "" THEN old ELSE <<vals[1]>>
    BY <1>3 DEF SetTo, setScalar
  <2>3. CASE vals = <<>>
    <3>1. DOMAIN vals \cap {1} = {}
      BY <1>1, <2>3
    <3>2. F = <<>>
      <4>1. F \in [1..0 -> Seq(T)]
        BY <3>1
      <4> HIDE DEF F
      <4>2. F \in Seq(Seq(T)) /\ Len(F) = 0
        BY <4>1
      <4> QED
        BY <4>2, EmptySeq
    <3>3. FlattenSeq(<<>>) = <<>>
      BY DEF FlattenSeq
    <3> HIDE DEF F
    <3> QED
      BY <2>1, <2>2, <2>3, <3>2, <3>3
  <2>4. CASE vals # <<>>
    <3>1. DOMAIN vals \cap {1} = {1} /\ vals[1] \in T
      <4>1. Len(vals) # 0
        BY <2>4, EmptySeq
      <4>2. 1 \in 1..Len(vals)
        BY <1>1, <4>1
      <4> QED
        BY <1>1, <4>2
    <3> DEFINE s == IF vals[1] = "" THEN <<>> ELSE <<vals[1]>>
    <3>2. s \in Seq(T) /\ (s = <<>> <=> vals[1] = "")
      BY <3>1, OneTyped
    <3>3. F = [j \in 1..1 |-> s]
      <4>1. DOMAIN vals \cap {1} = 1..1 /\ \A j \in 1..1 : j = 1
        BY <3>1
      <4> QED
        BY <4>1
    <3> HIDE DEF F
    <3>4. F = <<s>>
      <4> HIDE DEF s
      <4>1. [j \in 1..1 |-> s] = <<s>>
        OBVIOUS
      <4> QED
        BY <3>3, <4>1
    <3>5. FlattenSeq(F) = s
      <4> HIDE DEF s
      <4> QED
        BY <3>2, <3>4, FlattenOne
    <3> QED
      BY <2>1, <2>2, <2>4, <3>2, <3>5
  <2> QED
    BY <2>3, <2>4
<1> QED
  BY <1>2, <1>3

Text == STRING \cup {"body"}
Statuses == {"413", "400", "422", Ok}
Answered(L) == [status : Statuses, at : Seq(Nat), fields : [DOMAIN L[Root] -> Seq(Text)]]
FromBody(L, req) ==
    [i \in DOMAIN L[Root] |->
        IF req.body # "none" /\ \E f \in jsonFields(L) : f.index = <<i>> THEN <<"body">> ELSE <<>>]
Begun(L, req) == [status |-> BodyError(req.body, req.strict), at |-> <<>>, fields |-> FromBody(L, req)]
TakeParam(L, req, r, n) ==
    IF r.status # Ok \/ n \notin paramFields(L) THEN r
    ELSE IF BadAt(req.vals[n], n \in req.slices) # 0
         THEN [r EXCEPT !.status = "422", !.at = <<n, BadAt(req.vals[n], n \in req.slices)>>]
         ELSE [r EXCEPT !.fields[n] = SetTo(req.vals[n], n \in req.slices, @)]

LEMMA RequestTyped ==
    ASSUME NEW L, IsLayout(L), NEW req \in RequestsTo(L)
    PROVE  /\ \A i \in DOMAIN L[Root] : req.vals[i] \in Seq(Text)
           /\ FromBody(L, req) \in [DOMAIN L[Root] -> Seq(Text)]
           /\ BodyError(req.body, req.strict) \in Statuses
           /\ Begun(L, req) \in Answered(L)
           /\ paramFields(L) \subseteq DOMAIN L[Root]
<1>1. \A i \in DOMAIN L[Root] : req.vals[i] \in Seq(Text)
  <2>1. req.vals \in [DOMAIN L[Root] -> Values]
    BY DEF RequestsTo
  <2>2. Seq(STRING) \subseteq Seq(Text)
    <3>1. STRING \subseteq Text
      BY DEF Text
    <3> QED
      BY <3>1, SeqWider, Zenon
  <2> QED
    BY <2>1, <2>2, ValuesAssumption
<1>2. FromBody(L, req) \in [DOMAIN L[Root] -> Seq(Text)]
  <2> DEFINE x == "body"
  <2>1. x \in Text
    BY DEF Text
  <2> HIDE DEF x
  <2>2. <<x>> \in Seq(Text) /\ <<>> \in Seq(Text)
    BY <2>1, OneTyped
  <2> QED
    BY <2>2 DEF FromBody, x
<1>3. BodyError(req.body, req.strict) \in Statuses
  BY DEF BodyError, Statuses
<1>4. Begun(L, req) \in Answered(L)
  BY <1>2, <1>3 DEF Begun, Answered
<1> QED
  BY <1>1, <1>2, <1>3, <1>4 DEF paramFields

LEMMA TakeTyped ==
    ASSUME NEW L, IsLayout(L), NEW req \in RequestsTo(L), NEW r \in Answered(L), NEW n \in DOMAIN L[Root]
    PROVE  TakeParam(L, req, r, n) \in Answered(L)
<1>1. req.vals[n] \in Seq(Text) /\ n \in Nat
  BY RequestTyped, StructAssumption, FieldTyped
<1> DEFINE bad == BadAt(req.vals[n], n \in req.slices)
           set == SetTo(req.vals[n], n \in req.slices, r.fields[n])
<1>2. bad \in Nat
  <2> DEFINE vals == req.vals[n]
             slice == n \in req.slices
  <2>1. vals \in Seq(Text) /\ slice \in BOOLEAN
    BY <1>1
  <2> HIDE DEF vals, slice
  <2>2. BadAt(vals, slice) \in Nat
    BY <2>1, BadAtIs
  <2> QED
    BY <2>2 DEF vals, slice
<1>3. set \in Seq(Text)
  <2>1. r.fields[n] \in Seq(Text)
    BY DEF Answered
  <2> DEFINE vals == req.vals[n]
             slice == n \in req.slices
             old == r.fields[n]
  <2>2. vals \in Seq(Text) /\ slice \in BOOLEAN /\ old \in Seq(Text)
    BY <1>1, <2>1
  <2> HIDE DEF vals, slice, old
  <2>3. SetTo(vals, slice, old) \in Seq(Text)
    BY <2>2, SetIs
  <2> QED
    BY <2>3 DEF vals, slice, old
<1> HIDE DEF bad, set
<1>4. <<n, bad>> \in Seq(Nat)
  BY <1>1, <1>2
<1>5. [r EXCEPT !.status = "422", !.at = <<n, bad>>] \in Answered(L)
  BY <1>4 DEF Answered, Statuses
<1>6. [r EXCEPT !.fields[n] = set] \in Answered(L)
  BY <1>3 DEF Answered
<1>7. TakeParam(L, req, r, n) \in {r, [r EXCEPT !.status = "422", !.at = <<n, bad>>], [r EXCEPT !.fields[n] = set]}
  BY DEF TakeParam, bad, set
<1> QED
  BY <1>5, <1>6, <1>7

LEMMA BoundIs ==
    ASSUME NEW L, IsLayout(L), NEW req \in RequestsTo(L)
    PROVE  \E t \in [0..Len(L[Root]) -> Answered(L)] :
              /\ t[0] = Begun(L, req)
              /\ \A n \in 1..Len(L[Root]) : t[n] = TakeParam(L, req, t[n - 1], n)
              /\ Bound(L, req) = t[Len(L[Root])]
<1> DEFINE N == Len(L[Root])
           b == Begun(L, req)
           G(f) == f = [n \in 0..N |-> IF n = 0 THEN b ELSE TakeParam(L, req, f[n - 1], n)]
           Take == CHOOSE f : G(f)
           S == Answered(L)
           step == [n \in 1..N |-> [r \in S |-> TakeParam(L, req, r, n)]]
<1>1. N \in Nat /\ DOMAIN L[Root] = 1..N
  BY StructAssumption, FieldTyped
<1>2. Bound(L, req) = Take[N]
  BY DEF Bound, Begun, FromBody, TakeParam, SetTo
<1> HIDE DEF N
<1>3. b \in S
  BY RequestTyped
<1>4. \A n \in 1..N : \A r \in S : step[n][r] = TakeParam(L, req, r, n)
  OBVIOUS
<1> HIDE DEF step, b
<1>5. StaysIn(S, N, step)
  BY <1>1, <1>4, TakeTyped DEF StaysIn
<1> HIDE DEF S
<1>6. PICK h : Recurs(h, S, N, b, step)
  BY <1>1, <1>3, <1>5, Recursion
<1>7. /\ h \in [0..N -> S] /\ h[0] = b
      /\ \A n \in 1..N : n - 1 \in 0..N /\ h[n] = TakeParam(L, req, h[n - 1], n)
  <2>1. \A n \in 1..N : n - 1 \in 0..N
    BY <1>1
  <2> QED
    BY <1>4, <1>6, <2>1 DEF Recurs
<1>8. G(h)
  <2>1. \A n \in 0..N : h[n] = IF n = 0 THEN b ELSE TakeParam(L, req, h[n - 1], n)
    BY <1>1, <1>7
  <2>2. h = [n \in 0..N |-> h[n]]
    BY <1>7
  <2> QED
    BY <2>1, <2>2
<1>9. G(Take)
  <2> HIDE DEF G
  <2> QED
    BY <1>8
<1> HIDE DEF Take
<1>10. Take[0] = b /\ \A n \in 1..N : Take[n] = TakeParam(L, req, Take[n - 1], n)
  BY <1>1, <1>9
<1>11. Take[N] = h[N]
  <2>1. Follows(Take, h, N)
    BY <1>7, <1>10 DEF Follows
  <2>2. N \in 0..N
    BY <1>1
  <2> QED
    BY <1>1, <2>1, <2>2, Alike
<1> QED
  BY <1>2, <1>7, <1>11 DEF S, N, b

(* After each field: the fields so far are set, or the first parameter     *)
(* that fails is told.                                                     *)
BadIn(L, req, i) == BadAt(req.vals[i], i \in req.slices)
Held(L, req, i) == SetTo(req.vals[i], i \in req.slices, FromBody(L, req)[i])
AllSet(L, req, n, r) ==
    /\ \A i \in paramFields(L) : i <= n => BadIn(L, req, i) = 0
    /\ \A i \in DOMAIN L[Root] :
          r.fields[i] = IF i <= n /\ i \in paramFields(L) THEN Held(L, req, i) ELSE FromBody(L, req)[i]
FailedAt(L, req, r) ==
    /\ r.status = "422"
    /\ \E i \in paramFields(L) :
          /\ BadIn(L, req, i) # 0 /\ r.at = <<i, BadIn(L, req, i)>>
          /\ \A j \in paramFields(L) : j < i => BadIn(L, req, j) = 0
Bindings(L, req, n, r) ==
    IF BodyError(req.body, req.strict) # Ok THEN r.status = BodyError(req.body, req.strict)
    ELSE (r.status = Ok /\ AllSet(L, req, n, r)) \/ FailedAt(L, req, r)

LEMMA BindingsGoOn ==
    ASSUME NEW L, IsLayout(L), NEW req \in RequestsTo(L), NEW n \in DOMAIN L[Root], NEW r \in Answered(L),
           Bindings(L, req, n - 1, r)
    PROVE  Bindings(L, req, n, TakeParam(L, req, r, n))
<1>1. /\ paramFields(L) \subseteq DOMAIN L[Root]
      /\ \A i \in DOMAIN L[Root] : i \in Nat
  BY RequestTyped, StructAssumption, FieldTyped
<1>2. r.fields \in [DOMAIN L[Root] -> Seq(Text)] /\ r = [status |-> r.status, at |-> r.at, fields |-> r.fields]
  BY DEF Answered
<1>3. Ok # "422"
  BY DEF Ok
<1>4. CASE r.status # Ok
  <2>1. TakeParam(L, req, r, n) = r
    BY <1>4 DEF TakeParam
  <2> QED
    BY <1>4, <2>1 DEF Bindings
<1>5. CASE r.status = Ok
  <2>1. BodyError(req.body, req.strict) = Ok /\ AllSet(L, req, n - 1, r)
    BY <1>3, <1>5 DEF Bindings, FailedAt
  <2>2. \A i \in DOMAIN L[Root] : i <= n - 1 <=> i <= n /\ i # n
    BY <1>1
  <2>3. CASE n \notin paramFields(L)
    <3>1. TakeParam(L, req, r, n) = r
      BY <2>3 DEF TakeParam
    <3>2. AllSet(L, req, n, r)
      BY <1>1, <2>1, <2>2, <2>3 DEF AllSet
    <3> QED
      BY <1>5, <2>1, <3>1, <3>2 DEF Bindings
  <2>4. CASE n \in paramFields(L) /\ BadIn(L, req, n) # 0
    <3> DEFINE u == TakeParam(L, req, r, n)
    <3>1. u = [r EXCEPT !.status = "422", !.at = <<n, BadIn(L, req, n)>>]
      BY <1>5, <2>4 DEF TakeParam, BadIn
    <3>2. u.status = "422" /\ u.at = <<n, BadIn(L, req, n)>>
      BY <1>2, <3>1
    <3>3. \A j \in paramFields(L) : j < n => BadIn(L, req, j) = 0
      <4>1. \A j \in paramFields(L) : j < n => j <= n - 1
        BY <1>1
      <4> QED
        BY <2>1, <4>1 DEF AllSet
    <3> HIDE DEF u
    <3>4. FailedAt(L, req, u)
      BY <2>4, <3>2, <3>3 DEF FailedAt
    <3> QED
      BY <2>1, <3>4 DEF Bindings, u
  <2>5. CASE n \in paramFields(L) /\ BadIn(L, req, n) = 0
    <3> DEFINE u == TakeParam(L, req, r, n)
               x == SetTo(req.vals[n], n \in req.slices, r.fields[n])
    <3>1. u = [r EXCEPT !.fields[n] = x]
      BY <1>5, <2>5 DEF TakeParam, BadIn
    <3>2. x = Held(L, req, n)
      <4>1. r.fields[n] = FromBody(L, req)[n]
        BY <2>1, <2>2 DEF AllSet
      <4> QED
        BY <4>1 DEF Held
    <3> HIDE DEF x
    <3>3. u.status = r.status /\ u.fields = [r.fields EXCEPT ![n] = x]
      BY <1>2, <3>1
    <3> HIDE DEF u
    <3>4. u.fields[n] = x /\ \A i \in DOMAIN L[Root] \ {n} : u.fields[i] = r.fields[i]
      BY <1>2, <3>3
    <3>5. \A i \in DOMAIN L[Root] :
             u.fields[i] = IF i <= n /\ i \in paramFields(L) THEN Held(L, req, i) ELSE FromBody(L, req)[i]
      <4>1. n <= n
        BY <1>1
      <4> QED
        BY <2>1, <2>2, <2>5, <3>2, <3>4, <4>1 DEF AllSet
    <3>6. \A i \in paramFields(L) : i <= n => BadIn(L, req, i) = 0
      BY <1>1, <2>1, <2>2, <2>5 DEF AllSet
    <3>7. AllSet(L, req, n, u)
      BY <3>5, <3>6 DEF AllSet
    <3> QED
      BY <1>5, <2>1, <3>3, <3>7 DEF Bindings, u
  <2> QED
    BY <2>3, <2>4, <2>5
<1> QED
  BY <1>4, <1>5

LEMMA BoundBinds ==
    ASSUME NEW L, IsLayout(L), NEW req \in RequestsTo(L)
    PROVE  Bindings(L, req, Len(L[Root]), Bound(L, req))
<1> DEFINE N == Len(L[Root])
<1>1. N \in Nat /\ DOMAIN L[Root] = 1..N
  BY StructAssumption, FieldTyped
<1>2. PICK t \in [0..N -> Answered(L)] :
              /\ t[0] = Begun(L, req)
              /\ \A n \in 1..N : t[n] = TakeParam(L, req, t[n - 1], n)
              /\ Bound(L, req) = t[N]
  BY BoundIs
<1> HIDE DEF N
<1> DEFINE Off == {n \in 0..N : ~Bindings(L, req, n, t[n])}
<1>3. ASSUME NEW n \in Off, \A m \in Off : n <= m PROVE FALSE
  <2>1. CASE n = 0
    <3>1. t[0].status = BodyError(req.body, req.strict) /\ t[0].fields = FromBody(L, req)
      BY <1>2 DEF Begun
    <3>2. \A i \in DOMAIN L[Root] : ~(i <= 0)
      BY <1>1
    <3>3. paramFields(L) \subseteq DOMAIN L[Root]
      BY DEF paramFields
    <3>4. AllSet(L, req, 0, t[0])
      BY <3>1, <3>2, <3>3 DEF AllSet
    <3>5. Bindings(L, req, 0, t[0])
      BY <3>1, <3>4 DEF Bindings
    <3> QED
      BY <2>1, <3>5
  <2>2. CASE n # 0
    <3>1. n \in 1..N /\ n - 1 \in 0..N /\ ~(n <= n - 1)
      BY <1>1, <2>2
    <3>2. Bindings(L, req, n - 1, t[n - 1])
      BY <1>3, <3>1
    <3>3. t[n - 1] \in Answered(L) /\ n \in DOMAIN L[Root] /\ t[n] = TakeParam(L, req, t[n - 1], n)
      BY <1>1, <1>2, <3>1
    <3>4. Bindings(L, req, n, t[n])
      BY <3>2, <3>3, BindingsGoOn
    <3> QED
      BY <3>4
  <2> QED
    BY <2>1, <2>2
<1>4. Off = {}
  <2>1. Off \in SUBSET Nat
    BY <1>1
  <2> HIDE DEF Off
  <2> QED
    BY <1>3, <2>1, LeastNatural
<1>5. N \in 0..N
  BY <1>1
<1> QED
  BY <1>2, <1>4, <1>5 DEF N

(* What is wrong with the parameters, as AsSent has it.                    *)
WrongIn(L, q) == UNION {{<<i, j>> : j \in BadValues(q.vals[i], i \in q.slices)} : i \in paramFields(L)}

LEMMA BadInIs ==
    ASSUME NEW L, IsLayout(L), NEW q \in RequestsTo(L), NEW i \in paramFields(L)
    PROVE  /\ BadIn(L, q, i) = 0 <=> BadValues(q.vals[i], i \in q.slices) = {}
           /\ BadIn(L, q, i) # 0 =>
                 /\ BadIn(L, q, i) \in BadValues(q.vals[i], i \in q.slices)
                 /\ \A j \in BadValues(q.vals[i], i \in q.slices) : BadIn(L, q, i) <= j
<1> DEFINE vals == q.vals[i]
           slice == i \in q.slices
<1>1. vals \in Seq(Text) /\ slice \in BOOLEAN
  BY RequestTyped
<1> HIDE DEF vals, slice
<1>2. /\ BadValues(vals, slice) = {} => BadAt(vals, slice) = 0
      /\ BadValues(vals, slice) # {} =>
                 /\ BadAt(vals, slice) # 0 /\ BadAt(vals, slice) \in BadValues(vals, slice)
                 /\ \A j \in BadValues(vals, slice) : BadAt(vals, slice) <= j
  BY <1>1, BadAtIs
<1> QED
  BY <1>2 DEF BadIn, vals, slice

LEMMA HeldIs ==
    ASSUME NEW L, IsLayout(L), NEW q \in RequestsTo(L), NEW i \in DOMAIN L[Root]
    PROVE  /\ FromBody(L, q)[i] = IF q.body # "none" /\ \E f \in Named(L) : f.index = <<i>>
                                  THEN <<"body">> ELSE <<>>
           /\ Held(L, q, i) = IF Counted(q.vals[i], i \in q.slices) # <<>>
                              THEN Counted(q.vals[i], i \in q.slices) ELSE FromBody(L, q)[i]
<1>1. (\E f \in jsonFields(L) : f.index = <<i>>) <=> \E f \in Named(L) : f.index = <<i>>
  BY JsonOwn, NamedOwn
<1>2. FromBody(L, q)[i] = IF q.body # "none" /\ \E f \in jsonFields(L) : f.index = <<i>>
                          THEN <<"body">> ELSE <<>>
  BY DEF FromBody
<1> DEFINE vals == q.vals[i]
           slice == i \in q.slices
           old == FromBody(L, q)[i]
<1>3. vals \in Seq(Text) /\ slice \in BOOLEAN /\ old \in Seq(Text)
  BY RequestTyped
<1>4. FromBody(L, q)[i] = IF q.body # "none" /\ \E f \in Named(L) : f.index = <<i>>
                          THEN <<"body">> ELSE <<>>
  BY <1>1, <1>2
<1> HIDE DEF vals, slice, old
<1>5. SetTo(vals, slice, old) = IF Counted(vals, slice) = <<>> THEN old ELSE Counted(vals, slice)
  BY <1>3, SetIs
<1>6. SetTo(vals, slice, old) = IF Counted(vals, slice) # <<>> THEN Counted(vals, slice) ELSE old
  BY <1>5
<1> QED
  BY <1>4, <1>6 DEF Held, vals, slice, old

(* A failure is told of the first value that fails.                        *)
LEMMA FailureIsFirst ==
    ASSUME NEW L, IsLayout(L), NEW q \in RequestsTo(L), NEW a, FailedAt(L, q, a)
    PROVE  /\ a.at \in WrongIn(L, q)
           /\ \A p \in WrongIn(L, q) : a.at[1] < p[1] \/ (a.at[1] = p[1] /\ a.at[2] <= p[2])
<1>1. PICK i \in paramFields(L) :
          /\ BadIn(L, q, i) # 0 /\ a.at = <<i, BadIn(L, q, i)>>
          /\ \A j \in paramFields(L) : j < i => BadIn(L, q, j) = 0
  BY DEF FailedAt
<1>2. /\ BadIn(L, q, i) \in BadValues(q.vals[i], i \in q.slices)
      /\ \A j \in BadValues(q.vals[i], i \in q.slices) : BadIn(L, q, i) <= j
  BY <1>1, BadInIs
<1>3. a.at \in WrongIn(L, q)
  BY <1>1, <1>2 DEF WrongIn
<1>4. a.at[1] = i /\ a.at[2] = BadIn(L, q, i)
  BY <1>1
<1>5. \A k \in paramFields(L) : k \in Nat
  BY RequestTyped, StructAssumption, FieldTyped
<1>6. ASSUME NEW p \in WrongIn(L, q) PROVE a.at[1] < p[1] \/ (a.at[1] = p[1] /\ a.at[2] <= p[2])
  <2>1. PICK k \in paramFields(L) : \E j \in BadValues(q.vals[k], k \in q.slices) : p = <<k, j>>
    BY DEF WrongIn
  <2>2. PICK j \in BadValues(q.vals[k], k \in q.slices) : p = <<k, j>>
    BY <2>1
  <2>3. p[1] = k /\ p[2] = j
    BY <2>2
  <2>4. BadIn(L, q, k) # 0
    BY BadInIs
  <2>5. ~(k < i)
    BY <1>1, <2>4
  <2>6. i < k \/ i = k
    BY <1>5, <2>5
  <2>7. i = k => BadIn(L, q, i) <= j
    BY <1>2
  <2> QED
    BY <1>4, <2>3, <2>6, <2>7
<1> QED
  BY <1>3, <1>6

LEMMA BoundExact ==
    ASSUME NEW L, IsLayout(L), NEW q \in RequestsTo(L), NEW a, a = Bound(L, q)
    PROVE  AsSent(L, q, a)
<1>1. Bindings(L, q, Len(L[Root]), a)
  BY BoundBinds
<1> DEFINE error == BodyError(q.body, q.strict)
           Sent(i) == Counted(q.vals[i], i \in q.slices)
           InBody(i) == q.body # "none" /\ \E f \in Named(L) : f.index = <<i>>
<1>2. q.strict \in BOOLEAN
  BY DEF RequestsTo
<1>3. AsSent(L, q, a) <=>
        CASE q.body = "tooLarge" \/ (q.strict /\ q.body = "overrun") -> a.status = "413"
          [] q.body = "malformed" \/ (q.strict /\ q.body \in {"unknown", "more"}) -> a.status = "400"
          [] OTHER ->
                IF WrongIn(L, q) # {}
                THEN /\ a.status = "422"
                     /\ a.at \in WrongIn(L, q)
                     /\ \A p \in WrongIn(L, q) : a.at[1] < p[1] \/ (a.at[1] = p[1] /\ a.at[2] <= p[2])
                ELSE /\ a.status = Ok
                     /\ \A i \in DOMAIN L[Root] :
                          a.fields[i] = IF i \in paramFields(L) /\ Sent(i) # <<>> THEN Sent(i)
                                        ELSE IF InBody(i) THEN <<"body">> ELSE <<>>
  BY DEF AsSent, WrongIn, BadValues, ReadAt, ReadOf, Counted, Parameters, paramFields
<1> HIDE DEF Sent, InBody
<1>4. CASE q.body = "tooLarge" \/ (q.strict /\ q.body = "overrun")
  <2>1. error = "413"
    BY <1>4 DEF BodyError
  <2>2. a.status = "413"
    BY <1>1, <2>1 DEF Bindings, Ok
  <2> QED
    BY <1>3, <1>4, <2>2
<1>5. CASE /\ ~(q.body = "tooLarge" \/ (q.strict /\ q.body = "overrun"))
           /\ q.body = "malformed" \/ (q.strict /\ q.body \in {"unknown", "more"})
  <2>1. error = "400"
    BY <1>5 DEF BodyError
  <2>2. a.status = "400"
    BY <1>1, <2>1 DEF Bindings, Ok
  <2> QED
    BY <1>3, <1>5, <2>2
<1>6. CASE /\ ~(q.body = "tooLarge" \/ (q.strict /\ q.body = "overrun"))
           /\ ~(q.body = "malformed" \/ (q.strict /\ q.body \in {"unknown", "more"}))
  <2>1. error = Ok
    BY <1>6 DEF BodyError
  <2>2. (a.status = Ok /\ AllSet(L, q, Len(L[Root]), a)) \/ FailedAt(L, q, a)
    BY <1>1, <2>1 DEF Bindings
  <2>3. CASE FailedAt(L, q, a)
    <3>1. a.status = "422" /\ a.at \in WrongIn(L, q)
      BY <2>3, FailureIsFirst DEF FailedAt
    <3>2. \A p \in WrongIn(L, q) : a.at[1] < p[1] \/ (a.at[1] = p[1] /\ a.at[2] <= p[2])
      BY <2>3, FailureIsFirst
    <3> QED
      BY <1>3, <1>6, <3>1, <3>2
  <2>4. CASE a.status = Ok /\ AllSet(L, q, Len(L[Root]), a)
    <3>1. paramFields(L) \subseteq DOMAIN L[Root] /\ \A i \in DOMAIN L[Root] : i <= Len(L[Root])
      <4>1. DOMAIN L[Root] = 1..Len(L[Root]) /\ Len(L[Root]) \in Nat
        BY StructAssumption, FieldTyped
      <4>2. \A i \in DOMAIN L[Root] : i <= Len(L[Root])
        BY <4>1
      <4>3. paramFields(L) \subseteq DOMAIN L[Root]
        BY DEF paramFields
      <4> QED
        BY <4>2, <4>3
    <3>2. \A i \in paramFields(L) : BadIn(L, q, i) = 0
      BY <2>4, <3>1 DEF AllSet
    <3>3. WrongIn(L, q) = {}
      <4>1. \A i \in paramFields(L) : BadValues(q.vals[i], i \in q.slices) = {}
        BY <3>2, BadInIs
      <4> QED
        BY <4>1 DEF WrongIn
    <3>4. ASSUME NEW i \in DOMAIN L[Root]
          PROVE  a.fields[i] = IF i \in paramFields(L) /\ Sent(i) # <<>> THEN Sent(i)
                               ELSE IF InBody(i) THEN <<"body">> ELSE <<>>
      <4>1. FromBody(L, q)[i] = IF InBody(i) THEN <<"body">> ELSE <<>>
        BY HeldIs DEF InBody
      <4>2. Held(L, q, i) = IF Sent(i) # <<>> THEN Sent(i) ELSE FromBody(L, q)[i]
        BY HeldIs DEF Sent
      <4>3. a.fields[i] = IF i \in paramFields(L) THEN Held(L, q, i) ELSE FromBody(L, q)[i]
        BY <2>4, <3>1 DEF AllSet
      <4> QED
        BY <4>1, <4>2, <4>3
    <3> QED
      BY <1>3, <1>6, <2>4, <3>3, <3>4
  <2> QED
    BY <2>2, <2>3, <2>4
<1> QED
  BY <1>4, <1>5, <1>6

(* A request's answer is what the binder makes of it.                      *)
RInv ==
    asked = "request" =>
        /\ IsLayout(input.layout) /\ input.request \in RequestsTo(input.layout)
        /\ answered => answer = Bound(input.layout, input.request)

LEMMA InitRInv == Init => RInv
<1> SUFFICES ASSUME Init, asked = "request" PROVE RInv
  BY DEF RInv
<1>1. "request" # "key" /\ "request" # "fields"
  OBVIOUS
<1>2. PICK L \in {M \in BindLayouts : IsLayout(M)} : input \in [layout : {L}, request : RequestsTo(L)]
  BY <1>1 DEF Init
<1>3. input.layout = L /\ input.request \in RequestsTo(L)
  BY <1>2
<1> QED
  BY <1>2, <1>3 DEF Init, RInv

LEMMA NextRInv == RInv /\ [Next]_vars => RInv'
<1> SUFFICES ASSUME RInv, [Next]_vars PROVE RInv'
  OBVIOUS
<1>1. CASE BindRequest
  BY <1>1 DEF BindRequest, Answers, RInv
<1>2. CASE ReadKey
  BY <1>2 DEF ReadKey, Answers, RInv
<1>3. CASE ReadFields
  BY <1>3 DEF ReadFields, Answers, RInv
<1>4. CASE UNCHANGED vars
  BY <1>4 DEF vars, RInv
<1> QED
  BY <1>1, <1>2, <1>3, <1>4 DEF Next

(* Every request, to any layout, is bound as the client sent it, or        *)
(* answered for the first thing wrong with it (decodeBody and bind).       *)
THEOREM RequestsBound == Spec => []BoundAsSent
<1>1. RInv => BoundAsSent
  <2> SUFFICES ASSUME RInv, asked = "request", answered PROVE AsSent(input.layout, input.request, answer)
    BY DEF BoundAsSent
  <2>1. IsLayout(input.layout) /\ input.request \in RequestsTo(input.layout) /\ answer = Bound(input.layout, input.request)
    BY DEF RInv
  <2> QED
    BY <2>1, BoundExact
<1> QED
  BY <1>1, InitRInv, NextRInv, PTL DEF Spec
=============================================================================
